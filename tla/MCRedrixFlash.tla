--------------------------- MODULE MCRedrixFlash ---------------------------
(***************************************************************************)
(* Two invocations: one may be killed while its programmer writes, or fail *)
(* and leave a torn image, and the other runs after or against it.  A      *)
(* machine whose BIOS is torn stops, which is not a deadlock.              *)
(***************************************************************************)
EXTENDS RedrixFlash
=============================================================================
