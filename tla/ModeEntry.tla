----------------------------- MODULE ModeEntry -----------------------------
(***************************************************************************)
(* What the USB4 mode entry of a port promises, without reads, timers or   *)
(* work items: USB4 is requested of a partner at most once, after any      *)
(* high-speed mode it was found in has been seen to end; it counts as      *)
(* entered only when the mux shows it; a partner of whom it is not         *)
(* requested, or not entered, gets mode selection instead; and what has    *)
(* been decided stays so until the partner goes.                           *)
(***************************************************************************)
CONSTANTS
  Modes,      \* what the mux may show
  HighSpeed,  \* those of them that must be left before USB4 is requested
  Usb4

VARIABLES
  stage,  \* of the partner: "absent", "new", "leaving", "entering", "usb4", "selection"
  mux     \* what the mux showed when it was last read

Init == stage = "absent" /\ mux \in Modes

ReadMux == mux' \in Modes /\ stage' = stage

Arrive == stage = "absent" /\ stage' = "new" /\ mux' = mux

Begin ==
  /\ stage = "new" /\ mux' = mux
  /\ stage' = IF mux \in HighSpeed THEN "leaving" ELSE "entering"

Left ==
  /\ stage = "leaving" /\ mux \notin HighSpeed
  /\ stage' = "entering" /\ mux' = mux

Entered ==
  /\ stage = "entering" /\ mux = Usb4
  /\ stage' = "usb4" /\ mux' = mux

\* No USB4, a request that is refused, or one whose time is over.
Select ==
  /\ stage \in {"new", "leaving", "entering"}
  /\ stage' = "selection" /\ mux' = mux

Go == stage' = "absent" /\ mux' = mux

Next == ReadMux \/ Arrive \/ Begin \/ Left \/ Entered \/ Select \/ Go

Spec == Init /\ [][Next]_<<stage, mux>>
=============================================================================
