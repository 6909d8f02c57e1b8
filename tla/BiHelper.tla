------------------------------ MODULE BiHelper ------------------------------
(***************************************************************************)
(* Start-up of the symbols (src/src/BiHelper.cpp, src/include/BiFilter.cpp),*)
(* run by main before there is any other thread: InitSymbolIdxMap asks the *)
(* exchange for its list and numbers the pairs to trade, InitSymbolFilter  *)
(* reads a file of trading rules for each of them.                         *)
(*                                                                         *)
(* An answer is a member of Answers: the list, or a JSON object with an    *)
(* error code, which is no curl error. mCurlBuffer is the sequence of what *)
(* the write callback appended to it: whole answers and parts of them.     *)
(***************************************************************************)
EXTENDS Integers, Sequences, SequencesExt

CONSTANTS
  Listing,       \* the exchange's list: a sequence of tickers
  TOTAL_SYMBOL,  \* the size of symbolFilterArr and mdring
  MaxFailures    \* bound: how many requests fail

Ticker  == [symbol : STRING, volume : BOOLEAN, bid : BOOLEAN, usdt : BOOLEAN]
Traded(ticker) == ticker.volume /\ ticker.bid /\ ticker.usdt

(* The loop of InitSymbolIdxMap: the pairs to trade among the first n.      *)
PairsUpTo[n \in 0 .. Len(Listing)] ==
  IF n = 0 THEN <<>>
  ELSE IF Traded(Listing[n]) THEN Append(PairsUpTo[n - 1], Listing[n])
  ELSE PairsUpTo[n - 1]

(***************************************************************************)
(* The exchange lists a pair once. That no more than TOTAL_SYMBOL pairs    *)
(* are traded is assumed here because the code does not test it.           *)
(***************************************************************************)
ASSUME HelperAssumption ==
  /\ Listing \in Seq(Ticker)
  /\ \A i, j \in DOMAIN Listing : Listing[i].symbol = Listing[j].symbol => i = j
  /\ TOTAL_SYMBOL \in Nat /\ Len(PairsUpTo[Len(Listing)]) <= TOTAL_SYMBOL
  /\ MaxFailures \in Nat

Symbols == {Listing[i].symbol : i \in DOMAIN Listing}
TradedSymbols == {Listing[i].symbol : i \in {j \in DOMAIN Listing : Traded(Listing[j])}}
Indices == 0 .. TOTAL_SYMBOL - 1
Answers == {"list", "error"}
Files   == {"good", "missing", "bad", "other"}

VARIABLES
  mCurlBuffer,
  symbol2idxUMap,
  symbolName,     \* of symbolFilterArr and mdring, by index
  SymbolMaxIndex,
  filter,         \* symbolFilterArr: whose rules are set, by index
  pcH,            \* where BiHelper is
  todo,           \* symbols InitSymbolFilter has not come to
  file,           \* external: the state of each symbol's rules file
  failures,       \* history: the requests that failed, and when
  answer          \* history: the answer that ended the requests

symbols == <<symbol2idxUMap, symbolName, SymbolMaxIndex>>
hVars   == <<mCurlBuffer, symbols, filter, pcH, todo, file, failures, answer>>

NoName == ""

HInit ==
  /\ mCurlBuffer = <<>>
  /\ symbol2idxUMap = [s \in {} |-> 0]
  /\ symbolName = [i \in Indices |-> NoName]
  /\ SymbolMaxIndex = 0
  /\ filter = [i \in Indices |-> NoName]
  /\ pcH = "request" /\ todo = {}
  /\ file \in [TradedSymbols -> Files]
  /\ failures = <<>> /\ answer = "none"

-----------------------------------------------------------------------------
(* Definitions whose name has an underscore are bugs this code could have,  *)
(* as in MDRing.                                                           *)
(*                                                                         *)
(* InitSymbolIdxMap: the pairs to trade, in the order of the list, get the *)
(* numbers from 0 on.                                                      *)

Pairs == PairsUpTo[Len(Listing)]

NumberSymbols_FromOne ==
  /\ symbol2idxUMap' = [s \in {p.symbol : p \in ToSet(Pairs)} |->
                          CHOOSE i \in 1 .. Len(Pairs) : Pairs[i].symbol = s]
  /\ symbolName' = [i \in Indices |-> IF i < Len(Pairs) THEN Pairs[i + 1].symbol ELSE NoName]
  /\ SymbolMaxIndex' = IF Pairs = <<>> THEN 0 ELSE Len(Pairs) - 1

NumberSymbols ==
  /\ symbol2idxUMap' = [s \in {p.symbol : p \in ToSet(Pairs)} |->
                          (CHOOSE i \in DOMAIN Pairs : Pairs[i].symbol = s) - 1]
  /\ symbolName' = [i \in Indices |-> IF i < Len(Pairs) THEN Pairs[i + 1].symbol ELSE NoName]
  /\ SymbolMaxIndex' = IF Pairs = <<>> THEN 0 ELSE Len(Pairs) - 1

(* A request fails, after a part of the answer or before it; the buffer    *)
(* keeps the part. After 3 s there is another.                             *)
RequestFails(when) ==
  /\ pcH = "request"
  /\ Len(failures) < MaxFailures
  /\ failures' = Append(failures, when)
  /\ mCurlBuffer' = IF when = "midway" THEN Append(mCurlBuffer, "part") ELSE mCurlBuffer
  /\ UNCHANGED <<symbols, filter, pcH, todo, file, answer>>

(* A request succeeds. The buffer is parsed as one document and cleared,   *)
(* and the requests end, whether it was a list or not.                     *)
RequestSucceeds_NoClear(a) ==
  /\ pcH = "request"
  /\ answer' = a
  /\ IF mCurlBuffer = <<>> /\ a = "list" THEN NumberSymbols ELSE UNCHANGED symbols
  /\ mCurlBuffer' = Append(mCurlBuffer, "whole")
  /\ todo' = DOMAIN symbol2idxUMap'
  /\ pcH' = "filter"
  /\ UNCHANGED <<filter, file, failures>>

RequestSucceeds(a) ==
  /\ pcH = "request"
  /\ answer' = a
  /\ IF mCurlBuffer = <<>> /\ a = "list" THEN NumberSymbols ELSE UNCHANGED symbols
  /\ mCurlBuffer' = <<>>
  /\ todo' = DOMAIN symbol2idxUMap'
  /\ pcH' = "filter"
  /\ UNCHANGED <<filter, file, failures>>

InitSymbolIdxMap ==
  \/ \E when \in {"before", "midway"} : RequestFails(when)
  \/ \E a \in Answers : RequestSucceeds(a)

-----------------------------------------------------------------------------
(* InitSymbolFilter, in the arbitrary order of the hash map: a missing     *)
(* file is skipped, one that does not parse or holds the wrong types ends  *)
(* the whole function, and one that is an object without the members that  *)
(* are looked up, an error message say, fails an assertion of rapidjson.   *)

ReadFilter_StopOnMissing(s) ==
  /\ pcH = "filter" /\ s \in todo /\ file[s] # "other"
  /\ filter' = [filter EXCEPT ![symbol2idxUMap[s]] = IF file[s] = "good" THEN s ELSE @]
  /\ todo' = IF file[s] = "good" THEN todo \ {s} ELSE {}
  /\ UNCHANGED <<mCurlBuffer, symbols, pcH, file, failures, answer>>

ReadFilter(s) ==
  /\ pcH = "filter" /\ s \in todo /\ file[s] # "other"
  /\ filter' = [filter EXCEPT ![symbol2idxUMap[s]] = IF file[s] = "good" THEN s ELSE @]
  /\ todo' = IF file[s] = "bad" THEN {} ELSE todo \ {s}
  /\ UNCHANGED <<mCurlBuffer, symbols, pcH, file, failures, answer>>

Abort(s) ==
  /\ pcH = "filter" /\ s \in todo /\ file[s] = "other"
  /\ pcH' = "aborted"
  /\ UNCHANGED <<mCurlBuffer, symbols, filter, todo, file, failures, answer>>

(* The end of InitSymbolFilter; GenerateSymbolList only writes two files.  *)
FiltersRead ==
  /\ pcH = "filter" /\ todo = {}
  /\ pcH' = "done"
  /\ UNCHANGED <<mCurlBuffer, symbols, filter, todo, file, failures, answer>>

InitSymbolFilter ==
  \/ \E s \in Symbols : ReadFilter(s) \/ Abort(s)
  \/ FiltersRead

Helper == InitSymbolIdxMap \/ InitSymbolFilter

-----------------------------------------------------------------------------
(* Types; the buffer only holds parts of answers between requests.          *)
HTypeOK ==
  /\ mCurlBuffer \in Seq({"part"}) /\ Len(mCurlBuffer) <= Len(failures)
  /\ DOMAIN symbol2idxUMap \subseteq Symbols
  /\ \A s \in DOMAIN symbol2idxUMap : symbol2idxUMap[s] \in Indices
  /\ symbolName \in [Indices -> Symbols \union {NoName}]
  /\ SymbolMaxIndex \in Nat
  /\ filter \in [Indices -> Symbols \union {NoName}]
  /\ pcH \in {"request", "filter", "done", "aborted"}
  /\ todo \subseteq DOMAIN symbol2idxUMap
  /\ file \in [TradedSymbols -> Files]
  /\ failures \in Seq({"before", "midway"}) /\ Len(failures) <= MaxFailures
  /\ answer \in Answers \union {"none"}

(* The map, the two arrays and SymbolMaxIndex tell the same story: a symbol *)
(* in the map owns the element its index says, the elements up to the       *)
(* maximum are all owned, and rules are never read into another symbol's    *)
(* element, although volume and bid leave out pairs in the midst of the     *)
(* list (BiHelper.cpp:104-129, 306-338).                                    *)
IndicesAgree ==
  /\ \A s \in DOMAIN symbol2idxUMap : symbolName[symbol2idxUMap[s]] = s
  /\ \A i \in Indices : filter[i] \in {NoName, symbolName[i]}
  /\ DOMAIN symbol2idxUMap # {} =>
       {symbol2idxUMap[s] : s \in DOMAIN symbol2idxUMap} = 0 .. SymbolMaxIndex

(* Start-up ends with all pairs or with none, and with none only after an   *)
(* answer that is no list or a request that failed half-way; requests that  *)
(* fail before they begin are made good by the next (BiHelper.cpp:86-145).  *)
AllSymbolsOrNone ==
  pcH # "request" =>
    \/ DOMAIN symbol2idxUMap = TradedSymbols
    \/ /\ DOMAIN symbol2idxUMap = {}
       /\ answer = "error" \/ "midway" \in ToSet(failures)

(* A symbol whose file is good is without rules only if the file of another *)
(* is bad; a missing one takes no other symbol with it                      *)
(* (BiHelper.cpp:260-355).                                                  *)
RulesUnlessBadFile ==
  pcH = "done" =>
    \A s \in DOMAIN symbol2idxUMap :
      \/ filter[symbol2idxUMap[s]] = s
      \/ file[s] # "good"
      \/ \E t \in DOMAIN symbol2idxUMap : file[t] = "bad"

(* What main goes on with (BiQTP.cpp:160-163).                              *)
SymbolsWithRules == AllSymbolsOrNone /\ RulesUnlessBadFile

(* The loop says that it waits "3s to reconnect" after a failure            *)
(* (BiHelper.cpp:79): once the exchange answers with its list the map has   *)
(* the symbols.                                                             *)
SymbolsAfterReconnect ==
  pcH # "request" /\ answer = "list" => DOMAIN symbol2idxUMap = TradedSymbols
=============================================================================
