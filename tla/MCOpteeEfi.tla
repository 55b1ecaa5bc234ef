----------------------------- MODULE MCOpteeEfi -----------------------------
(***************************************************************************)
(* Three callers for two secure threads, so that the call queue is used,   *)
(* and two services that are queued next to one that is not.               *)
(***************************************************************************)
EXTENDS OpteeEfi

CONSTANTS c1, c2, c3, q1, q2, atomic

ThreeCallers == {c1, c2, c3}
MixedServices == {q1, q2, atomic}
AtomicServices == {atomic}
=============================================================================
