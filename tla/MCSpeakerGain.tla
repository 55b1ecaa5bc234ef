--------------------------- MODULE MCSpeakerGain ---------------------------
(***************************************************************************)
(* One channel (the channels share nothing but the count of frames), at a  *)
(* sample rate at which the three ramps take 1, 2 and 10 frames.  The      *)
(* curve has a plateau, so that two percentages share a gain.              *)
(***************************************************************************)
EXTENDS SpeakerGain

MCChannels == {"left"}

MCGain ==
  [p \in 0..100 |-> CASE p = 0 -> 0 [] p \in 1..50 -> 45
                      [] p \in 51..60 -> 93 [] OTHER -> 120]

MCControls == {0, 504, 505, 600, 1000, NaN}
=============================================================================
