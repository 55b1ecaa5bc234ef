---------------------------- MODULE MCTypecUsb4 ----------------------------
(***************************************************************************)
(* A partner that is attached when the driver probes, or not, and one more *)
(* that replaces it at any moment.                                         *)
(***************************************************************************)
EXTENDS TypecUsb4
=============================================================================
