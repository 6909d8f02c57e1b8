------------------------------ MODULE MCMDRing ------------------------------
(* A ring of six slots, filled and overwritten twice, with look-backs from  *)
(* one tick to the longest that MaxLag allows.                              *)
EXTENDS MDRingInv

MCMAInterval  == <<2, 3>>
MCADRInterval == <<1, 3>>
=============================================================================
