----------------------------- MODULE MCWipeRoot -----------------------------
(***************************************************************************)
(* A root the machine boots from and one that it can do without, so that a *)
(* loss of either is met by later boots and shutdowns.                     *)
(***************************************************************************)
EXTENDS WipeRoot
=============================================================================
