--------------------------- MODULE MCCheckPlugin ----------------------------
(***************************************************************************)
(* Seven frames in place of 16385, with the other lengths in proportion:   *)
(* quanta below, at and above the room of the compressor and the block of  *)
(* APM.  Gains are chosen so that every step of a ramp is a whole number.  *)
(***************************************************************************)
EXTENDS CheckPlugin

CONSTANTS o1, o2, o3

MCObjects == {o1, o2, o3}
MCGain == [p \in 0..100 |-> 20 * p * p]
MCScale(n) ==
  CASE n = 1 -> 1 [] n \in {31, 113} -> 2 [] n \in {256, 480} -> 3 [] n = 2048 -> 4
    [] n = 2049 -> 5 [] n = 8192 -> 6 [] n = 16385 -> 7
=============================================================================
