# BiQTP in TLA+

BiQTP is a small quantitative trading program for Binance, in C++: it receives
one-second klines of every active USDT pair over a web socket, keeps the last
24 hours of each in a ring, computes moving averages and advance/decline
ratios, lets strategies decide on them, and sends market orders. This directory
models its own code (`src/src` and the part of `src/include` it uses) in TLA+, and
of the vendored libraries the two that run concurrently with it: the asynchronous
log of spdlog and the connection of websocketpp. It checks the models with TLC on
small instances, and proves what matters most with TLAPS.

1. [The system](#1-the-system): components, state, interactions, hazards
2. [The modules](#2-the-modules): which module stands for which code
3. [The runs](#3-the-runs): what each one checks, with which bounds
4. [Fairness and other assumptions](#4-fairness-and-other-assumptions)
5. [The proofs](#5-the-proofs)
6. [Where the code disagrees with itself](#6-where-the-code-disagrees-with-itself)
7. [What is not modelled](#7-what-is-not-modelled)
8. [Plan](#8-plan)

To check a module: `tlc -config MCMDRing.cfg MCMDRing`; to check the proofs:
`tlapm MDRingProofs.tla`, and the same for `StrategyProofs`, `ReplayProofs`,
`OrderManagerProofs`, `RingBufferProofs`, `AsyncLoggerProofs`, `BiQTPProofs` and
`ConnectionProofs`. `PROJECT.json` lists the runs, for every property
a mutation of the model that breaks it, for every definition the lines it stands
for, and the hazards with the properties that watch them. A definition named
after another one with a word added (`MaWindow_Late`) is such a mutation, just before the
definition it would replace; nothing uses it. (`OnMessage_Throws` is not one but an action.)

## 1. The system

### Components

| Component | State it keeps | Operations | Correct means |
|---|---|---|---|
| `MDRing` | `price[]`, `volume[]`, `amount[]` of RING_SIZE slots, `md_index`, `cycle_cnt`; running totals and averages with `cal_ma_index`; ratios with `cal_adr_index` | `PushMD`, `CalMovingAverage`, `CalADRatio`, the getters | no tick is missed or read half-overwritten; every average is the one of its window and every ratio compares prices exactly one look-back apart, across the wrap |
| `MDSocket` (thread) | the connection | `Run`, `OnMessage`, `OnOpen`, `OnFail`, `OnClose`, `ReInit` | a lost connection is made again; a message ends in the ring of its symbol |
| `Calculator` (thread) | its place in the round | `Run`, `CalculateLastPrice` | every tick of every symbol is computed, one of each kind per round |
| `Strategy`, `StrategyBOX` (thread) | `mStPoint` per symbol: idle, bought, sold, and the ring index of each | `Run` of AdvancedSLR1 and AdvancedSLR2 | no decision on a cold or foreign ratio; the profit is that of the trade |
| `OrderManager` (thread) | signal queue under a mutex, the book of open orders per strategy, `orderCnt` | `PushSignal`, `Run`, `StrategyBuySignal`, `StrategySellSignal` | the book is covered by the account; no position is sold twice; the mutex is given back |
| `BiTrader` | curl handle and buffer | `InsertOrder`, `ParseInsertResp` | tests the trading rules, reports what was executed |
| `BiHelper`, `BiFilter` | `symbol2idxUMap`, `SymbolMaxIndex`, `symbolFilterArr`, a buffer | `InitSymbolIdxMap`, `InitSymbolFilter` | map, arrays and maximum agree; every symbol has its own rules |
| `ThreadBase`, `main` | `m_ThreadID`, `m_ThreadStatus` per thread | `Start`, `SetSelfTName`, `Join`, `run` | shared data is complete before a thread starts; clean-up comes after the last one |
| `WatchDog` (thread) | none between reports | `Run` | the report bounds the rings |
| `RingBuffer` | slots with a flag, two indices, two counters | `push`, `front`, `pop`, `size`, `aggr`, `loss` | a lossy FIFO between two threads |
| `MDReplayer` (thread, back test) | the lines of a file per symbol | `LoadHistoryMD`, `Run` | the symbols' prices of one second come together, and a bad file costs no other symbol |
| spdlog: `async_logger`, `thread_pool`, `mpmc_blocking_queue`, `daily_file_sink` (thread) | a bounded queue under a mutex, a file per logger | `sink_it_`, `enqueue`, `dequeue`, `process_next_msg_`, `shutdown` | messages reach their file in order; nobody sleeps for ever; an end of the process costs only what is queued |
| websocketpp: `connection`, `endpoint`, its asio transport | `m_state`, `m_internal_state`, the send queue, timers and operations under way | `async_connect`, `handle_*`, `terminate`, `write_frame` | each attempt ends in OnOpen or OnFail (in both when its extensions are refused), each open connection in OnClose, once; `run` returns |
| `MDReceiver`, `AccTruster`, `PushDeer` | | | not used at this commit, see [7](#7-what-is-not-modelled) |

### How they interact

`main` runs `BiHelper` to completion and then starts the threads MDSocket,
Calculator, StrategyBOX, OrderManager, AccTruster and WatchDog. They share the
global arrays `mdring[]` and `symbolFilterArr[]`, the map `symbol2idxUMap` and
`SymbolMaxIndex`, **without any lock**: MDSocket writes prices, Calculator writes
averages and ratios, StrategyBOX and WatchDog read. The only mutex is the one of
the signal queue, between StrategyBOX (`PushSignal`) and OrderManager (`Run`),
which holds it while it talks to the exchange. All threads log through one queue of
spdlog, which makes a thread wait when it is full and is emptied by one worker.
MDSocket's thread runs every handler of its connection inside `run()`. With
`_BACK_TEST_` set (`Macro.h:13`), MDReplayer pushes a day of klines from files in
MDSocket's place. At this commit the two calls of
`PushSignal` are commented out (`Strategy.cpp:204, 229`); the model makes them,
because that is what the queue is for.

### What is hard

- *Unlocked sharing.* `PushMD` changes `price[]`, then `cycle_cnt`, then
  `md_index`; Calculator and the strategies read them in another order, at any
  time, and most of all while the ring wraps.
- *The wrap.* Once a day the index starts from 0. Equality of two indices stands
  for "all done", a flag and a `>=` choose the slot to look back to, and one wrong
  tick stays in a running total for ever.
- *Orders.* An order may be declined, filled in part, executed with its answer
  lost, charged in the coin it buys; quantities are rounded up or down to lot
  steps; a sale is re-submitted until something is executed, with the mutex held.
- *Start and end.* A partial answer, a missing file, a thread that ends between the test of
  its id and its use, or was never made and has an id all the same; a log that must be
  written out before the program ends.
- *The connection.* Some fifteen handlers and six timers, several of which may find the
  same connection broken, late or closed; a timer that runs out just as its operation
  completes; a handler that terminates the connection and goes on; a peer that falls silent.

The full list, with the line where each bites, is `hazards` in `PROJECT.json`.

## 2. The modules

| Module | Stands for | Extends / uses |
|---|---|---|
| `MDRing` | `MDRing.cpp`, the two writers of one ring | implements `RingProgress` |
| `MDRingInv` | the inductive invariant of `MDRing` | `MDRing` |
| `MDRingProofs` | theorems and proofs | `MDRingInv`, TLAPS |
| `RingProgress` | abstract specification of a ring: three counters | |
| `Strategy` | `Strategy.cpp` and the getters of `MDRing.cpp`, beside both writers | `MDRing` |
| `Pipeline` | `MDSocket.cpp`, `Calculator.cpp`, the strategy loop, `WatchDog.cpp`, all symbols | a `RingProgress` per symbol |
| `Replay` | `MDReplayer.cpp` and `main` with it; both builds of `Pipeline` | `Pipeline` |
| `Connection` | `MDSocket::Run` over `connection_impl.hpp`, `transport/asio/connection.hpp`, `endpoint.hpp`, `tls.hpp` | implements `Socket` |
| `Socket` | abstract specification of a connection: what `MDSocket` is told of it | |
| `AsyncLogger` | spdlog as the program sets it up, all threads that log and the worker | implements `LogFifo` |
| `LogFifo` | abstract specification of the log | |
| `BiTrader` | `BiTrader.cpp` and the exchange as the set of results of an order | |
| `OrderManager` | `OrderManager.cpp`, with the protocol of the strategies | `BiTrader` |
| `RingBuffer` | `RingBuffer.hpp` and its two threads | implements `LossyFifo` |
| `LossyFifo` | abstract specification of that queue | |
| `BiHelper` | `BiHelper.cpp` | |
| `ThreadBase` | `ThreadBase.cpp` and the threads' life in `main` | |
| `BiQTP` | `main` | `BiHelper`, `ThreadBase` |
| `StrategyProofs` | theorems and proofs about a strategy on its ring | `Strategy`, `MDRingProofs`, TLAPS |
| `RingBufferProofs` | theorems and proofs about the queue, and its refinement | `RingBuffer`, TLAPS |
| `AsyncLoggerProofs` | theorems and proofs about the log, and its refinement | `AsyncLogger`, TLAPS |
| `BiQTPProofs` | theorems and proofs about `main` and its threads | `BiQTP`, TLAPS |
| `ReplayProofs` | theorems and proofs about the way of a tick, in both builds | `Replay`, TLAPS |
| `OrderManagerProofs` | theorems and proofs about the orders and the book | `OrderManager`, TLAPS |
| `ConnectionProofs` | theorems and proofs about the connection, and its refinement | `Connection`, TLAPS |
| `MC*` | instances for TLC | |

How the state corresponds to the code, and what is abstracted:

- **MDRing.** The variables have the members' names; `mt`, `ma` and `adr` collect
  `mt5m .. mt100m`, `ma5m ..`, `adr30s .. adr60m`, which the code treats alike,
  indexed by the constants `MAInterval` and `ADRInterval`. Every access to a shared
  member is a step in program order; `pcW` and `pcC` say where the two threads are,
  `k` is the average or ratio the unrolled code is at, `wrapped` the outcome of its
  test of `cycle_cnt`. A tick is its number: `price[i]` is the tick that was written
  there, a running total is a function that says how often each price was added and
  subtracted, a ratio is the pair of ticks it compares. So an average or a ratio is
  right or wrong whatever the prices are; floating-point rounding is abstracted away.
  `pushed`, `maCnt` and `adrCnt` are history: the ticks handled by each.
- **Strategy** adds one Run at a time of AdvancedSLR1/2, which are one algorithm with
  other constants: `Reads` is the sequence of getter calls. A getter loads `cycle_cnt`
  once and `cal_adr_index` twice, a step each. The thresholds become what the argument
  needs of them: a buy needs present ratios, a sale a negative one, which neither a
  missing ratio (0.0) nor the ratio the buy was made on is.
- **OrderManager / BiTrader.** Quantities are whole grains, `STEP` grains to a lot
  step, so that the rounding of `ConvertDouble2String` (nearest, up or down) can be
  told from the positions. `InsertOrder` is the set of results an order may have:
  not sent, refused, failed, declined, filled wholly or in part, executed with its
  answer lost, or with one that does not parse, which `InsertOrder` returns as a success
  that executed nothing (`BiTrader.cpp:149-155, 222`); `stock`, the account, is external.
  The re-submission loop multiplies the quantity by 0.998; here it loses a grain per pass.
- **RingBuffer.** Messages are numbered, and copying one takes two steps, so that a
  torn message is a message with two numbers. Program order holds between threads, as
  for the unoptimised x86 build of the Makefile; `volatile` gives no more than that.
- **BiHelper.** The exchange's list is a constant; an answer is that list or a JSON
  object; the buffer is the sequence of what the write callback appended; each rules
  file is good, missing, bad (does not parse, or a member of the wrong type), or other
  (an object without a member that is looked up: rapidjson asserts, and the Makefile
  does not define NDEBUG).
- **ThreadBase.** `m_ThreadID` is 0 or 1; main reads it twice (test, use), the thread
  writes it twice. `pthread_create` may fail, which `main` does not look at. POSIX leaves
  the id undefined then; glibc stores it before the new thread is made, so that it stays 0
  when there is no stack for the thread, and is the id of no thread when the clone fails
  (`Start` has all three outcomes). A call with id 0 dereferences null; one with such a
  `Dangling` id may do that, return, or meet a thread created later in the same place.
- **Pipeline.** A call of `PushMD`, `CalMovingAverage` or `CalADRatio` is one step on
  the counters of its ring; that this is a sound view of `MDRing` is the refinement
  `ImplementsProgress`, checked and proved for a lag of at most `MaxLag`, which is to say
  for the live build. `GetIndex` and `GetCycleCnt` read `md_index` and `cycle_cnt` off a
  counter, with the modulus of `PushMD`: rings come round. Each thread keeps its place in its round
  over the symbols, whose order (the hash map's) is a constant different from the order
  of the indices. `ReInit` does no more than `reset()`: its `init_asio` always throws
  `invalid_state` on an endpoint that is initialised, the exception is caught, and the
  handlers set by the constructor stay.
- **Replay** adds the other build: `BACK_TEST` is chosen at the start and never changes.
  Before any thread is started `main` loads the files; a file is how many good lines it
  begins with, or `Missing` (not there, or empty: `Run` treats both alike). `Run` pushes a
  row of every symbol after the other, RING_SIZE rows, with no sleep, so that nothing bounds
  Calculator's lag; the rings are filled once and do not wrap, and `RingsProgress` holds
  with a bound of the whole day, beyond what `MDRing` is shown to implement. Reading behind
  the end of a file, or behind a line's columns, is undefined in C++: whatever is there is
  pushed, or the process dies (`PushStray`).
- **Connection.** One thread runs all handlers, so each handler is one step, but for the
  loop of `handle_read_frame`, which is a step per frame. `con` is the connection:
  `m_state` and `m_internal_state`, the send queue, the messages being written and
  `m_write_flag`, as in the code; `op` says of every asynchronous operation whether it is
  under way, cancelled, or begun a second time while it is (`"twice"`, which asio does not
  allow); `timer` whether a timer is armed, has run out with its handler still to come, or
  is over. An operation ends well, with an error, or, cancelled, with `aborted`, or, since
  a cancelled operation may have completed already, with any of the three, or never. The
  handlers compare the time of their timer (`is_neg(expires_from_now())`) as the code does.
  A response is whole and valid, a part, invalid, or valid but for its extensions
  (`refused`): then `terminate` is called and the handler goes on all the same
  (`connection_impl.hpp:1619-1649`), so that the connection is open while TLS is being shut
  down, and may be terminated again. An `async_shutdown` is therefore two operations, each
  with its timer: the one that will call OnFail and the one that will call OnClose.
  Frames are what a handler makes of them: a message, a ping, a close frame with a valid
  code or not, one that cannot be parsed. An exception of `OnMessage` leaves `run()`: what
  the connection has under way stays in the io_service for the next one (`orphans`), and
  OnClose may never come, although `connection.hpp:66-67` promises it; so `Socket` has
  `Throw`. `Pipeline` uses a coarser connection, with the same states `MDSocket` sees.
- **AsyncLogger.** What is done under `queue_mutex_` is one step, the `notify_one` after
  the unlock another; a wait may also end by itself. Messages carry their thread, number,
  logger, and whether they were stamped after the one midnight there is. A call for a file
  (`fopen`, `fwrite`, `fflush`) may fail, `MaxFaults` times. `accepted`, `settled` and
  `silent` are history: the messages queued, how many of them the worker is through with,
  and those that `file_helper::write` dropped because its file was not open.

## 3. The runs

| Run | Checks | Shows |
|---|---|---|
| `ring` | `RecentTicksKept`, `CaughtUpTest`, `AverageExact`, `RatioExact`, `CatchUp`, `ImplementsProgress` | two threads on one ring without a lock are exact through two wraps, handle every tick, and look from outside like `RingProgress` |
| `strategy` | `STypeOK`, `RatiosTrue`, `TradeOfItsTicks`, `WarmStaysWarm` | three threads: the warm-up is just long enough, a ratio without a lead is right or missing, the prices of a profit are those of the trade |
| `orders` | `TypeOK`, `OneOrderPerPosition`, `BookBacked`, `StuckOnlyByFault`, `SellsAtMostItsPosition`, `SignalsServed` | the book against the account, for every answer of the exchange; every signal is served, unless a fault has left a sale that never goes through |
| `ring_buffer` | `Implements`, `Delivered` | the queue implements `LossyFifo`, and what it accepts is taken |
| `main` | `QTypeOK`, `IndicesAgree`, `SymbolsWithRules`, `CleanupIsLast`, `CrashOnlyOnNoThread`, `SharedOnlyWhenFixed` | the life of `main`, from the first request to the clean-up, with threads that cannot be made |
| `pipeline` | `RTypeOK`, `ReportOfScan`, `SecondsTogether`, `RingsProgress`, `TickReachesStrategy`, `DayIsJudged` | every tick reaches a decision once all symbols are warm, whatever the connection does and however often the rings come round; a report is that of its scan but for rings that came round; a back test judges its whole day, whatever the threads' speeds |
| `logger` | `LTypeOK`, `NoLostCall`, `OnlyQueueIsLost`, `SilentOnlyOverMidnight`, `Implements`, `PostReturns` | the block policy overruns nothing and keeps the order; no wake-up is lost though `notify_one` comes after the unlock; shutdown waits for all messages; what a failing file, a midnight and a sudden end cost |
| `connection` | `OneAtATime`, `ImplementsSocket`, `OpensOrFails`, `ClosingReturns` | whatever handlers and timers come together, `MDSocket` is told what websocketpp promises unless extensions are refused, and then what `Socket` says, no read or write overlaps with another, an attempt ends, and a connection that is closing lets `run` return |
| `lookback`, `sale_ends`, `symbols`, `open_or_fail` | one property each, violated | section [6](#6-where-the-code-disagrees-with-itself) |

Properties named in a sentence and made of two parts: `RatiosTrue` is `GateCoversLookback`
and `CurrentRatiosTrue`, `TradeOfItsTicks` is `ProfitOfTheTrade` and `SoldOnNewerRatio`,
`SymbolsWithRules` is `AllSymbolsOrNone` and `RulesUnlessBadFile`.

The bounds, each a CONSTANT, and why they are enough:

- **ring**: 6 slots, look-backs of 1 to 3, 14 ticks, at most 3 of lag: the ring is
  filled twice and wraps a third time, with Calculator at every distance, the longest
  look-back and the lag together exactly the ring. The proofs lift this to all values.
- **strategy**: 7 slots and 15 ticks (two wraps); the calls read a look-back shorter
  than the lead and one as long; at most 2 ticks of lag, so that the warm-up of 6 is
  exactly lag + lead + look-back and one less fails. `MaxSpan` = 1 bounds how many
  ticks come during one Run (it takes microseconds, a tick a second); it is what keeps
  the state space at 2.2 million states.
- **orders**: a buy of 24 at prices 2 or 3 is 12 or 8 grains, three or two lot steps of
  4; with a grain of commission the position is no whole number of steps, and a sale
  must shrink twice before it rounds down. 4 signals are two full trades or two symbols
  at once, 2 faults let a second order go wrong because of the first.
- **ring_buffer**: 3 slots and 8 pushes: full, empty, and wrapped twice by both threads.
- **main**: five pairs, three of them traded with the others between them, in arrays of
  4; 2 failed requests; one thread whose `Run` may return and two whose does not, the
  first before the others, since the joins are made in the order of the starts; each of
  the three may also not be made, with an id left behind or not. A deadlock check makes
  no sense where `main` returns.
- **pipeline**: two symbols, rings of two slots and three ticks each, one loss of the
  connection (or its end for good), a warm-up of one tick: enough for a symbol that is
  ahead, a symbol that is quiet, a ring that comes round while the other has not, before,
  within and after a scan, and each thread anywhere in its round. A day of the back test
  is a ring, so two rows, whose files have 0, 1 or 2 good lines or are missing, each on its
  own. The process may end by an assertion, hence no deadlock check.
- **logger**: two threads, one of which writes to both logs, a queue of one message, so
  that both may be asleep over it and wake in either order, and main beside them at the
  end; two messages each bring one before and one after midnight; one failing call, at
  any place. The program ends, hence no deadlock check.
- **connection**: at most two frames waiting, so that a terminal frame may have others
  before and behind it; one abandoned connection beside the present one; attempts without
  number. `Run` may end, hence no deadlock check. `open_or_fail` needs neither.

## 4. Fairness and other assumptions

- *Lag.* `MaxLag` is the one assumption about time: Calculator is never more ticks
  behind than the ring has room for beyond its longest look-back: with the constants of
  `Macro.h` 24 h minus 100 min, or 22 hours of ticks, at one tick per second against one
  round per millisecond. Nothing in the code enforces it; `PushPrice` states it.
- *Weak fairness* of Calculator, of the strategy thread, of `OrderManager::Run` and of
  the buffer's reader: each is a loop that polls, sleeps a bounded time and waits for
  nothing (OrderManager for the mutex, which no one holds across a wait but itself).
  Of OrderManager it is assumed of the steps in which no order goes wrong, so that no fault
  is forced. That a request to the exchange ends at all is an assumption about the net:
  `BiTrader` sets no time limit for curl.
- *No fairness* of `PushSignal`: `Run` releases the mutex at the end of its loop body and
  locks it again at once, and nothing in the code or in `std::mutex` gives the waiting
  thread its turn. Whether `PushSignal` ever returns is a hazard the code is exposed to,
  and no property promises it. `SignalsServed` is about what is in the queue.
- *The log*: weak fairness of the worker and of a thread that is posting: whoever holds
  the mutex lets it go after a few lines, and who was called gets it. That a wait returns
  by itself is possible and never assumed; nor that a thread logs, or ends.
- *The connection*: weak fairness of time (an armed timer runs out), strong fairness of
  each kind of handler that is due (an expired timer, a cancelled operation, the posted
  `write_frame`): asio keeps them in a queue and calls them in order, so that none is
  passed over for ever, although the handlers of other messages come between and some
  are not enabled within the loop of a read. A write ends, since TCP gives up on a peer
  that does not acknowledge; once the connection is closed, so does what was being read.
  Nothing is assumed of the peer while the connection is being made, open, or closing.
- *The back test*: weak fairness of `MDReplayer`, which waits for nothing.
- *No fairness* of MDSocket, or of the arrival of ticks and signals.
- *Data races.* The unlocked accesses are undefined behaviour in C++. The model takes
  the outcomes of the build there is: unoptimised code for x86, aligned words loaded and
  stored whole and, by one thread, in program order.

## 5. The proofs

`MDRingProofs` proves, from `RingAssumption` alone (positive sizes, lag plus look-back at
most the ring), for every ring size, every list of look-backs, and any number of ticks:

| Theorem | Statement |
|---|---|
| `Invariant` | `Spec => []IndInv` |
| `TypeCorrect` | `Spec => []TypeOK` |
| `KeepsRecentTicks` | `Spec => []RecentTicksKept` |
| `CaughtUp` | `Spec => []CaughtUpTest` |
| `AveragesExact` | `Spec => []AverageExact` |
| `RatiosExact` | `Spec => []RatioExact` |
| `TrailsByOne` | `Spec => []AverageTrailsByOne` |
| `RingImplementsProgress` | `Spec => ImplementsProgress` |

*Why an invariant of its own.* The properties speak of ticks and of `Slot(t)`, with a
remainder of an unbounded number, and only of states between calls. `IndInv`
(`MDRingInv`) says the same the other way round: for every slot, total and ratio, at
every step, what it holds as a function of the history counters.

- `Holds(n, idx, i)` is the tick in slot `i` when `n` ticks have been handled, the last
  in slot `idx`: no remainder, one case for the slots up to `idx` and one for those after.
  `HoldsNext` says that handling one more tick changes exactly one slot.
- `Placed(n, idx)` ties a counter to its index; `Follows(n, idx)` ties a counter of
  Calculator to the writer's: at most `MaxLag` behind, and in the same pass over the ring
  or the one before. From it, `idx = md_index` if and only if the counters are equal,
  which is what the early returns of the code need; and the slot read `MaxLag` plus a
  look-back behind the writer has not been reused.
- `WriterInv` ties `cycle_cnt` to the counters, with the one step in which it is ahead of
  `md_index`; `PriceInv`, `AverageInv`, `RatioInv` say what the arrays hold; `PhaseInv`
  says which of the two calls has found a tick, and that one that found the ring not
  wrapped has an index equal to its count.

Each action has a lemma with a step per conjunct; frame lemmas dispose of the conjuncts it
cannot disturb; `Invariant` puts them together. The properties then follow state by state
through `WriterLap`, `FollowerLap` and `SlotOf`, which bring the remainder back. For
`RingImplementsProgress`, the steps that change a counter (`PushIndex`, `MaPublish`,
`AdrPublish`) are the three steps of `RingProgress`, whose guards `Follows` and `PhaseInv`
give; all others are stutters.

`StrategyProofs` proves, from `RingAssumption` and `StrategyAssumption` (calls of ratios
that there are, a warm-up of at least the lag and every lead and look-back and of at most
the ring: 920 of 86400 in `Macro.h`), for any ring, look-backs, leads and lag:

| theorem | states |
|---|---|
| `StrategyInvariant` | `SSpec => []SIndInv` |
| `STypeCorrect` | `SSpec => []STypeOK` |
| `RatiosAreTrue` | `SSpec => []RatiosTrue` |
| `TradesAreOfTheirTicks` | `SSpec => []TradeOfItsTicks` |
| `StaysWarm` | `SSpec => WarmStaysWarm` |

`RatiosTrue` is about the end of a Run, when the ring has moved on since its loads.
`SIndInv` is `IndInv` and what the strategy knows at each of its steps. `RunInv`: the
`md_index` it loaded is the slot of the tick that was the newest then, in some pass over
the ring, and in the first pass while `cycle_cnt` is 0, as PushMD counts the pass before it
moves the index; `StaysWarm` needs no more. `WarmInv`: behind the test Calculator is beyond
every lead and look-back, which is where the order of the two loads and the size of
`Warmup` are used. `GetterInv` and `GotInv`: a getter that found the ring not wrapped looks
back over slot 0 only when Calculator has wrapped since, and what it has returned is the
ratio of a tick between the start of Run and now; `ClearBefore` says that being clear of
the wrap at the decision means having been clear of it at each load. `TradeInv` ties the
remembered slot to the tick of the buy, through any number of passes (`OnLap`), and the
ratio of the sale to a later one. `RingStepInv` says once for all that a step of the two
ring threads preserves this; only their counters matter (`RingEffect`).

`RingBufferProofs` proves, from `BufferAssumption` (a size of at least 1), for every size:

| theorem | states |
|---|---|
| `BufferInvariant` | `Spec => []BufferInv` |
| `BufferImplements` | `Spec => Implements`, that is `LossyFifo` |

The two threads share only the flag of a slot. `SegmentInv` is the reason why that is
enough: the slots whose flag is set are a segment that begins at `head` and ends before
`tail`, where `head` is `read_index` or the slot after it while it is being moved, and
`tail` the same of `write_index`. So the writer is in a slot that is not readable
(`WriterInv`), the reader in one that is (`ReaderInv`), and neither sees a half of what the
other writes. `CountInv` accounts for each push. `push` sets the flag of the first slot
behind the segment, `pop` clears its first: `PushFlagStep` and `PopFlagStep` are `Append` and
`Tail` of the abstract queue, `PushLossStep` is its loss, everything else a stutter.

`AsyncLoggerProofs` proves, from `LoggerAssumption` (a finite set of threads, a queue of at
least one slot), for any number of threads, loggers, messages and faults:

| theorem | states |
|---|---|
| `LoggerInvariant` | `LSpec => []LogInv` |
| `LTypeCorrect` | `LSpec => []LTypeOK` |
| `NoCallIsLost` | `LSpec => []NoLostCall` |
| `DeathCostsTheQueue` | `LSpec => []OnlyQueueIsLost` |
| `SilenceIsRare` | `LSpec => []SilentOnlyOverMidnight` |
| `LoggerImplements` | `LSpec => Implements`, that is `LogFifo` |

- `QueueInv`: what was queued is what the worker has taken and what is in the slots between
  `head_` and `tail_`, in order; main's message to the worker, which is no log message, is
  the last of all (`Entry`). `PhaseInv` makes it so: main queues it when all others are done.
- `NoLostCall` is an inequality between numbers of posters at three places of the code.
  `CallsAre` states it over `At(pcP, x)`, and `MoveCalls` and `CallsFrame` say what a step of
  one poster does to these sets. It is inductive only with `QueueInv`: that a wait for
  room can only begin when the queue is full rests on `size`.
- `KeptInv`: without a fault, a file has all of its messages the worker is through with,
  counted as a number of positions (`Of`); `OfNext` counts one more. `FileInv`: a closed
  file was closed by a fault, and is opened again before the next message that is due.
- The refinement has three steps that are not stutters: `EnqueueStep` of a thread is the
  queue's `Accept`, the end of the worker's step (`SettleStep`) its `Settle`, and `JoinStep`,
  when the worker is gone, its `Close`.

`BiQTPProofs` proves, from `ThreadAssumption` (a non-empty list of different threads, and
some of them ending), for any number of threads and any answers to BiHelper:

| theorem | states |
|---|---|
| `ThreadsInvariant` | `QSpec => []TInv` |
| `CleanupComesLast` | `QSpec => []CleanupIsLast` |
| `CrashNeedsNoThread` | `QSpec => []CrashOnlyOnNoThread` |
| `SharedIsFixed` | `QSpec => SharedOnlyWhenFixed` |
| `HelperInvariant` | `QSpec => []HInv` |
| `QTypeCorrect` | `QSpec => []QTypeOK` |
| `IndicesCorrect` | `QSpec => []IndicesAgree` |
| `SymbolsHaveRules` | `QSpec => []SymbolsWithRules` |

`CleanupIsLast` is not inductive: that `main` has passed a thread says its Run is over only
if an id of 0 does. `IdInv` says that the id of a thread that was created is set from
`pthread_create` until the thread clears it itself, whatever `main` is doing (of one that
was not created nothing is said: it may be 0 or dangle); `MainInv` that the threads before
the one being joined are over or never began, that `main` names and joins only what it
created or what has an id left by a failure, and that BiHelper is done before `main` has
left its first step. One lemma per part of the program (`RunTInv`, `StartTInv`, `JoinTInv`,
...). Joining rests on the ways past a thread: an id found 0, which `IdInv` turns into a Run
that is over or never began; the end of `pthread_join`; and a dangling id, whose thread
never began, whatever the call does.

The last four are about BiHelper and rest on `HelperAssumption` too (a list without
doubles, with no more traded pairs than the arrays are long). `PairsUpTo` is the loop over
the list, a recursive function. That it is defined, and that the pairs it has collected
after n tickers are the traded ones among them, once each (`Collected`), is shown without
an induction theorem: the least n for which it were not so would not be the least
(`LoopExists`, `CollectedUpTo`, with `LeastNumber`). `HInv` then says that nothing is
numbered before the list has come and that only a request that failed half-way leaves a
part of its answer (`RequestInv`), and `RulesUnlessBadFile` of the symbols whose file has
been read, which needs that no two symbols share an element.

`ReplayProofs` proves, from `PipelineAssumption` (sizes that are numbers, the lag and the
warm-up below the ring size, an order that lists every symbol once, an index of its own for
every symbol) and `ReplayAssumption` (a bound on the ticks no smaller than the day of a
back test, which is a ring), for any number of symbols, of ticks and so of rounds of the
rings, any ring size, warm-up, lag and number of lost connections, of the live build and of
the back test:

| theorem | states |
|---|---|
| `TypeCorrect` | `RSpec => []RTypeOK` |
| `ReportIsOfScan` | `RSpec => []ReportOfScan` |
| `ReplayTogether` | `RSpec => []SecondsTogether` |
| `RingsGoOn` | `RSpec => RingsProgress` |

The invariant `RInv` adds three things to the types. `TurnInv`: the averages of a ring are
level with its ratios, or one tick apart from them, ahead only between the two calls for
its symbol; with it the three actions of `RingProgress` are enabled whenever `Pipeline`
makes the call. `RowInv`: in the back test a ring holds `i` rows, and one more when the
loop has passed its symbol in row `i`; so no two rings with a file are further apart than
a row. `ScanInv` is about the rings that are in the round they were in when WatchDog's scan
began: such a ring is not behind `floor`, the last ring at that time, nor, once scanned,
behind the minimum; and the minimum is only below `floor` if some ring has left its round.
`NextTick` says what a tick does to the index and the round of a ring, `RoundIs`
that a quotient and a remainder are the only ones. With `RingImplementsProgress` the theorem
`RingsGoOn` closes the chain for the live build: what is shown of `Pipeline` there holds with
`MDRing`, memory access by memory access, in the place of each ring. The back test lets
Calculator fall behind by more than the ring has room for; that its calls are as
`RingProgress` says is proved with the bound of a day, but `MDRing` is not shown to
implement that, and its averages and ratios of a day that was overtaken are not claimed.

`OrderManagerProofs` proves, from `OrderAssumption` and `TraderAssumption` (positive prices
and lot sizes, bounds that are numbers), for any strategies, symbols, prices and filters,
however far the strategies are ahead, and whatever the exchange answers:

| theorem | states |
|---|---|
| `TypeCorrect` | `Spec => []TypeOK` |
| `OneOrder` | `Spec => []OneOrderPerPosition` |
| `SellsAtMost` | `Spec => SellsAtMostItsPosition` |
| `BookIsBacked` | `Spec => []BookBacked`, when a single strategy trades |
| `NeverStuck` | `Spec => []StuckOnlyByFault`, when a single strategy trades and `SaleFits` |

- `TypeOK` needs `ServeInv`: a signal that is served is the head of the queue and of the
  side it is served as, and no order's commission is above its quantity.
- `OneOrderPerPosition` is about the book, but what it rests on is in the queue. `Pending`
  is the queue, with the signal the strategy is about to push; `PositionInv` says that the
  signals of a position alternate in it, that its last agrees with `pointType`, and that
  while an order is in the book the next signal of its position is a sale (a buy, while
  that is the one just served). `AppendAlternates` and `TailAlternates` say what a push and
  a pop do to that.
- `SellsAtMostItsPosition` needs `SaleInv`: an order was bought in whole lot steps, the
  quantity of a sale is at most that of its order, and it has sold nothing as long as no
  answer was lost. `RoundsWithin`: rounding to the nearest step, up included, does not pass
  a whole number of steps. So a sale may take up to the commission more than is booked.
- That is why `BookBacked` is proved for a single strategy, as main runs one
  (`BiQTP.cpp:200-210`): of two, a sale of one may take a coin that is booked to the other.
  `BackInv` uses `PositionInv`: when a sale has been executed no order of its symbol is left.
- `NeverStuck` is the theorem with a condition on the constants, since with any filters
  there may be nothing to sell. `SaleFits` asks that a buy passes the filters at every
  price, and that at every later price some quantity below what it bought passes them and is
  rounded to no more. A fall of the price that takes what was bought below MinNotional
  breaks that, and then the loop is stuck without a fault. `OneStepLessFits` gives a case
  that is easy to see: two steps or more are bought, and one step less can be sold at any of
  the prices. The instance of the run fits (`InstanceFits`). Without a fault, `HeldInv` is
  the converse of `PositionInv`: where no order is in the book the next signal is a buy, so
  that every sale finds its order; `WholeInv`: the order is a whole buy, less a commission
  of one grain at most; with `BackInv` the account covers it. `~Stuck` itself is then
  inductive: a quantity that can be sold, and has not been tried, is still ahead of the
  loop, because the one that can and is tried is filled (`SellFilled`) and ends it. That no
  buy is turned down for capital on the way rests on `orderCnt <= 0`, which section 6 comes
  back to.

`ConnectionProofs` proves, from `ConnectionAssumption` alone (bounds that are numbers), for
any number of frames that wait to be sent and of connections left behind, whatever the
peer does and in whatever order timers run out and handlers are called:

| theorem | states |
|---|---|
| `ConnectionInvariant` | `CSpec => []ConnectionInv` |
| `NoOverlap` | `CSpec => []OneAtATime` |
| `ConnectionImplements` | `CSpec => ImplementsSocket`, that is `Socket` |

The code has no lock and no counter that would keep two reads or two writes of the stream
apart. `ConnectionInv` says what does, in six parts:

- `ChainInv`: of the operations from the look-up of the host to the reading of frames
  (`Chain`) one is under way at most, in the internal state that belongs to it (`During`),
  and none within the loop of `handle_read_frame`. `WriteInv`: frames are written in the
  last of these states only, and not without the flag.
- `StageInv`: an operation of connecting and its timer are begun together and end in one of
  two ways. While the timer runs, or has run out and its handler is still to come, nothing
  else of the connection is under way, so that whichever handler comes first decides alone;
  when the timer's has come first, the connection is closed, and the handler of the operation
  finds its timer expired and does nothing (`StageAlone`, `QuietIs`).
- `ShutdownInv`: which of the two shutdowns are due (`Due`): the one that ends in OnFail
  when the connection was closed before OnOpen or its extensions were refused, the one that
  ends in OnClose when it was closed after OnOpen. Each begins once; its timer and its
  result each find out whether the other has called `MDSocket` before.
- `CallsInv` ties what `MDSocket` was told to `m_state`, and `GoesOn` says that something
  that can end it is under way until the connection is closed. That is what `Return` needs:
  when nothing is left to wait for, the end has been told.

The operators a handler is made of (`Ended`, `Arm`, `terminate`, ...) take a connection
through values that are none of a state, so the six parts are predicates of a record and
each operator has a lemma about any such record (`StartIs`, `TerminateIs`, ...); each
handler then has one that puts its own together (`RequestGood`, `WriteGood`, ...), for a
connection that is `Good`. In the refinement `TellingStep`, `MessageStep`, `ReturnStep`,
`ConnectStep` and `ThrowStep` are steps of `Socket`; all other handlers are stutters
(`SilentStep`).

A least or greatest member of a set of numbers (the order a sale finds, the minimum of the
rings) is got from `WellFoundedInduction`'s theorem about minimal elements (`LeastNumber`);
no induction over data is needed.

*Only model-checked*: liveness everywhere, which the prover does not do. Every invariant
and every action property of a passing run is stated by a theorem; two of them,
`BookBacked` and `StuckOnlyByFault`, under conditions that the instances of the runs meet.

## 6. Where the code disagrees with itself

Found while modelling, each with a run that shows it:

- **A look-back over the wrap reads another slot** (`lookback`). The getters add
  `ST_SIZE`, the number of strategies, to a negative index (`MDRing.cpp:353`). With
  `RING_SIZE` there the property holds.
- **A sale may be re-submitted for ever** (`sale_ends`). A buy that the exchange declines
  is booked with quantity 0, and its sale loops, with the mutex held
  (`OrderManager.cpp:173`).
- **A request that fails half-way costs all symbols** (`symbols`). What it left in the
  buffer spoils the next answer, and that is the last one (`BiHelper.cpp:89`).
- **An attempt may be opened and failed** (`open_or_fail`). When the extensions of a response
  cannot be parsed `terminate` is called without a `return` (`connection_impl.hpp:1619-1635`):
  OnOpen is called, frames are handled and answered while TLS is being shut down, and OnFail
  is called at its end, although `connection.hpp:54-55` promises one or the other. MDSocket
  is none the worse for it: `run` returns, and it connects again.

Smaller observations, without a run: `orderCnt` is only ever decremented
(`OrderManager.cpp:74, 83`), so that the test of the capital never turns a buy down (the
model has that counter as it is, and `NeverStuck` rests on it). `size()` of the ring buffer
is the difference of two indices taken modulo the size (`RingBuffer.hpp:105`), 0 when the
buffer is full and negative once only the writer has wrapped, though its comment speaks of
the data not yet handled; nothing calls it. A getter with lead 0 may return 0.0 in the one
Run that meets the first wrap (`CurrentRatiosTrue` allows for it, and nothing is traded
then). The MDIndex WatchDog logs falls back when a ring comes round (`ReportOfScan`), and
the ADR and MA indices it logs are no minima over the symbols.

An open connection is read without a time limit, and the client
sends no pings: a peer that disappears without an end of TCP leaves `MDSocket` waiting
(the model has these behaviours, and no property claims otherwise). An exception of
`OnMessage` leaves a connection behind without OnClose (see `Connection` in section 2).

## 7. What is not modelled

- `MDReceiver` (main does not start it, its `PushMD` is compiled out), `AccTruster` (its
  `Run` sleeps), `PushDeer`, `RequestSymbolFilter`, `DetrustStrategy`: nothing calls them at
  this commit, and no state another part reads changes in them.
- The MACross and GridTrader strategies: compiled out.
- The number of decimals `BiFilter` derives from a step size.
- JSON, URLs, signatures, formatting, time conversion, enumerations' names.
- Most of the vendored code, which is some 95 % of the lines under `src/`: inih, rapidjson and fmt
  are sequential parsers and formatters without state between calls, of which the models
  say what a call returns or asserts; websocketpp's server, its other transports, and its
  parsing of frames and HTTP, byte by byte; spdlog's other sinks, policies and levels. What
  is modelled of the libraries is what the program runs beside its own threads.
- Of the connection: TLS refusing the host name (`tls.hpp:243-247` would call back twice), a
  handler that finds its timer expired in the very instant in which it was cancelled, and
  what `pong` or `close` do when memory runs out.
- Of an answer to an order: members that are missing or no numbers (`fills` at
  `BiTrader.cpp:203` is looked up without a test, which ends the process; `std::stod` throws
  out of the thread), and an answer that says what was executed but not its fills, whose
  commission is then taken for 0. An answer is complete, an error, unreadable or lost.
- Of the log: `delete_old_`, since `max_files_` is 0; a second midnight.
- Floating point; memory order weaker than program order; an exchange with more than
  `TOTAL_SYMBOL` traded pairs, which would write past the arrays.

## 8. Plan

Done, most important first: the ring and its proofs, the strategies on it, the orders, the
queue, start-up and threads, the pipeline, the back test, the log, the connection; the
proofs about all of them. To do:

1. **Extend.** `BiFilter.SetStepSize` and `SetTickSize` as operators over the step sizes the
   exchange uses, with `ConvertDouble2String`; the bytes of a frame arriving in pieces
   (`processors/hybi13.hpp`); several strategies in one order book; a strategy on a ring
   that is a day behind, as a back test allows.
2. **Prove.** What several strategies have booked against one account: by how much their
   sum can exceed it when sales are rounded up.
