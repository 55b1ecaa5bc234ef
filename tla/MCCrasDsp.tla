------------------------------ MODULE MCCrasDsp -----------------------------
(***************************************************************************)
(* Calls of up to four frames in chunks of two, two activations, and one   *)
(* more address than an instance and two filters need, so that a freed one *)
(* is given again or not.  The outputs are separate from the inputs, in    *)
(* place, crossed over, one of each, or one of them is missing.            *)
(***************************************************************************)
EXTENDS CrasDsp

CONSTANTS o1, o2, o3, o4, A, B, C, D, L

MCObjects == {o1, o2, o3, o4}
MCBuffers == {A, B, C, D}
MCCells == {L}

Wire(outLeft, outRight, l) ==
  [p \in Ports |-> CASE p = 0 -> A [] p = 1 -> B [] p = 2 -> outLeft [] p = 3 -> outRight
                     [] OTHER -> l]
MCWirings ==
  {Wire(C, D, L), Wire(A, B, Nil), Wire(B, A, L), Wire(A, C, L), Wire(Nil, B, L)}
=============================================================================
