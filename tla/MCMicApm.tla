------------------------------ MODULE MCMicApm ------------------------------
(***************************************************************************)
(* Blocks of three frames and calls of up to four, so that calls end inside *)
(* and at the end of a block and one call fails with frames still to go.   *)
(* The outputs are separate from the inputs, in place, crossed over or     *)
(* partly unconnected; without an input a call is not live.                *)
(***************************************************************************)
EXTENDS MicApm

CONSTANTS A, B, C, D

MCChannels == {0, 1}
MCBuffers == {A, B, C, D}

Pair(x, y) == [c \in MCChannels |-> IF c = 0 THEN x ELSE y]
Wiring(i, o) == [in |-> i, out |-> o]
MCWirings ==
  {Wiring(Pair(A, B), o) : o \in {Pair(A, B), Pair(B, A), Pair(C, D), Pair(B, Null)}}
    \cup {Wiring(Pair(Null, B), Pair(A, B))}
MCControls == {Null, 50, 1000}
=============================================================================
