----------------------------- MODULE TypecUsb4 -----------------------------
(***************************************************************************)
(* USB4 entry of the Type-C driver of the ChromeOS embedded controller, as *)
(* odette's kernel patches leave it (hosts/nixos/odette/kernel).  The EC   *)
(* takes a request for USB4 and may drop it in silence, so the driver      *)
(* leaves any other high-speed mode first, asks, and confirms each step    *)
(* from the mux state; a delayed work item wakes the port update when a    *)
(* step takes too long, and alternate modes are selected instead.          *)
(*                                                                         *)
(* The rest of the driver, the workqueues and the EC are external: the     *)
(* port update reads the EC and may fail to, a delayed work item is        *)
(* pending until its handler starts, and the EC obeys or not.  One port.   *)
(*                                                                         *)
(* The names of its specification carry the module's, for KernelProofs     *)
(* extends this module and OpteeEfi.                                       *)
(***************************************************************************)
EXTENDS Integers

CONSTANT MaxAttach  \* bound: partners attached

ASSUME TypecAssumption == MaxAttach \in Nat

VARIABLES
  attached, ec,      \* the EC's view: a partner, and the mode of the mux
  discovered,        \* the EC has the partner's modes
  ask, event,        \* a request it has not acted on; a change not yet notified
  attaches,          \* partners so far
  driver,            \* "probing", "listening", "bound" and the stages of its removal
  queued, step,      \* port_work: queued, and where it is when it runs
  seen, failed,      \* what the port update read: a partner; it could not read
  partner, known,    \* the registered partner; its modes have been discovered
  mux_flags, usb_mode_req,
  timer, handler,    \* usb_mode_timeout: "off", "armed", "queued"; its handler runs
  frozen,            \* the freezable workqueue is frozen
  asked, armed, due, \* requests so far, the one the timer was set for, the one that is overdue
  confirmed, selected  \* for the partner: USB4 confirmed, mode selections started

controller == <<attached, ec, discovered, ask, event, attaches>>
work == <<queued, step, seen, failed>>
port == <<partner, known, mux_flags, usb_mode_req>>
timeout == <<timer, handler, frozen>>
history == <<asked, armed, due, confirmed, selected>>
usb4Vars == <<controller, driver, work, port, timeout, history>>

-----------------------------------------------------------------------------
HsModes == {"usb4", "alt"}

\* delayed_work_pending: from the arming until the handler starts.
Pending == timer # "off"

Listening == driver \in {"listening", "bound"}

\* disable_delayed_work_sync has been called.
Disabled == driver \in {"disabled", "cancelled", "removed"}

\* cros_typec_start_mode_selection
StartModeSelection == selected' = selected + 1

\* Mutant: a timer that is set is left as it is.
RequestKeepingTimer(mode) ==
  /\ usb_mode_req' = mode /\ asked' = asked + 1 /\ ask' = mode
  /\ timer' = IF Disabled THEN timer ELSE "armed"
  /\ armed' = IF Pending THEN armed ELSE asked'
  /\ UNCHANGED selected

\* cros_typec_request_usb_mode when the EC accepts: its time starts now.
Request(mode) ==
  /\ usb_mode_req' = mode /\ asked' = asked + 1 /\ ask' = mode
  /\ IF Disabled THEN UNCHANGED <<timer, armed>> ELSE timer' = "armed" /\ armed' = asked'
  /\ UNCHANGED selected

\* Mutant: the request that failed stays.
RequestFailsKept(mode) ==
  /\ usb_mode_req' = mode /\ StartModeSelection
  /\ UNCHANGED <<asked, ask, timer, armed>>

\* cros_typec_request_usb_mode when the command fails.
RequestFails(mode) ==
  /\ usb_mode_req' = "none" /\ StartModeSelection
  /\ UNCHANGED <<asked, ask, timer, armed>>

RequestUsbMode(mode) == Request(mode) \/ RequestFails(mode)

-----------------------------------------------------------------------------
\* The port update, a step at a time; the work item is never run twice at once.

StartWork ==
  /\ queued /\ step = "none"
  /\ queued' = FALSE /\ step' = "pd"
  /\ UNCHANGED <<controller, driver, seen, failed, port, timeout, history>>

\* The state of the port, and then of the mux.
ReadPort ==
  /\ step = "pd"
  /\ seen' = attached /\ failed' = FALSE /\ step' = "mux"
  /\ UNCHANGED <<controller, driver, queued, port, timeout, history>>

\* The EC cannot be read: the update ends here.
ReadFails ==
  /\ step = "pd"
  /\ failed' = TRUE /\ step' = "none"
  /\ UNCHANGED <<controller, driver, queued, seen, port, timeout, history>>

ReadMux ==
  /\ step = "mux"
  /\ mux_flags' = ec /\ step' = "partner"
  /\ UNCHANGED <<controller, driver, queued, seen, failed, partner, known, usb_mode_req,
                 timeout, history>>

\* A partner is there that was not: registered, its modes not yet discovered.
AddPartner ==
  /\ step = "partner" /\ seen /\ ~partner
  /\ partner' = TRUE /\ known' = FALSE /\ confirmed' = 0 /\ selected' = 0
  /\ step' = "status"
  /\ UNCHANGED <<controller, driver, queued, seen, failed, mux_flags, usb_mode_req, timeout,
                 asked, armed, due>>

\* Mutant: the request of a partner that is gone stays.
RemoveKeepingRequest == ~handler /\ timer' = "off" /\ partner' = FALSE /\ UNCHANGED usb_mode_req

\* cros_typec_remove_partner, which waits for the handler.
Remove == ~handler /\ usb_mode_req' = "none" /\ timer' = "off" /\ partner' = FALSE

RemovePartner ==
  /\ step = "partner" /\ ~seen
  /\ Remove
  /\ step' = "status"
  /\ UNCHANGED <<controller, driver, queued, seen, failed, known, mux_flags, handler, frozen,
                 history>>

SamePartner ==
  /\ step = "partner" /\ seen /\ partner
  /\ step' = "status"
  /\ UNCHANGED <<controller, driver, queued, seen, failed, port, timeout, history>>

\* Nothing new: no partner, an old one, or no answer from it yet.
NoDiscovery ==
  /\ step = "status" /\ ~(partner /\ ~known /\ discovered)
  /\ step' = "usb"
  /\ UNCHANGED <<controller, driver, queued, seen, failed, port, timeout, history>>

\* Mutant: USB4 is asked for whatever mode the mux is in.
FirstStepStraight == "usb4"

\* What cros_typec_register_altmodes asks for first.
FirstStep == IF mux_flags \in HsModes THEN "usb3" ELSE "usb4"

\* cros_typec_register_altmodes, for a partner with USB4 or without.
RegisterAltmodes ==
  /\ step = "status" /\ partner /\ ~known /\ discovered
  /\ known' = TRUE
  /\ \/ RequestUsbMode(FirstStep)
     \/ StartModeSelection /\ UNCHANGED <<usb_mode_req, asked, ask, timer, armed>>
  /\ step' = "usb"
  /\ UNCHANGED <<attached, ec, discovered, event, attaches, driver, queued, seen, failed, partner,
                 mux_flags, handler, frozen, due, confirmed>>

\* cros_typec_update_usb_mode: the other mode has been left; USB4 is next.
Exited ==
  /\ usb_mode_req = "usb3" /\ mux_flags \notin HsModes
  /\ RequestUsbMode("usb4")
  /\ UNCHANGED confirmed

\* The mux shows USB4.
Confirmed ==
  /\ usb_mode_req = "usb4" /\ mux_flags = "usb4"
  /\ usb_mode_req' = "none" /\ timer' = "off" /\ confirmed' = confirmed + 1
  /\ UNCHANGED <<asked, ask, armed, selected>>

\* Mutant: any update that brings no news ends the wait.
TimedOutEarly ==
  /\ usb_mode_req # "none"
  /\ ~(usb_mode_req = "usb3" /\ mux_flags \notin HsModes)
  /\ ~(usb_mode_req = "usb4" /\ mux_flags = "usb4")
  /\ usb_mode_req' = "none" /\ StartModeSelection
  /\ UNCHANGED <<asked, ask, timer, armed, confirmed>>

\* Neither, and nothing pending: the time is over.
TimedOut ==
  /\ usb_mode_req # "none"
  /\ ~(usb_mode_req = "usb3" /\ mux_flags \notin HsModes)
  /\ ~(usb_mode_req = "usb4" /\ mux_flags = "usb4")
  /\ ~Pending
  /\ usb_mode_req' = "none" /\ StartModeSelection
  /\ UNCHANGED <<asked, ask, timer, armed, confirmed>>

Waits ==
  /\ \/ ~partner \/ usb_mode_req = "none"
     \/ /\ ~(usb_mode_req = "usb3" /\ mux_flags \notin HsModes)
        /\ ~(usb_mode_req = "usb4" /\ mux_flags = "usb4")
        /\ Pending
  /\ UNCHANGED <<usb_mode_req, asked, ask, timer, armed, confirmed, selected>>

UpdateUsbMode ==
  /\ step = "usb"
  /\ (partner /\ (Exited \/ Confirmed \/ TimedOut)) \/ Waits
  /\ step' = "none"
  /\ UNCHANGED <<attached, ec, discovered, event, attaches, driver, queued, seen, failed, partner,
                 known, mux_flags, handler, frozen, due>>

PortWork ==
  \/ StartWork \/ ReadPort \/ ReadMux \/ AddPartner \/ RemovePartner \/ SamePartner
  \/ NoDiscovery \/ RegisterAltmodes \/ UpdateUsbMode

-----------------------------------------------------------------------------
\* The time-out: the timer puts the item on a workqueue that may be frozen.

Expire ==
  /\ timer = "armed"
  /\ timer' = "queued" /\ due' = armed
  /\ UNCHANGED <<controller, driver, work, port, handler, frozen, asked, armed, confirmed,
                 selected>>

StartTimeout ==
  /\ timer = "queued" /\ ~handler /\ ~frozen
  /\ timer' = "off" /\ handler' = TRUE
  /\ UNCHANGED <<controller, driver, work, port, frozen, history>>

\* cros_typec_usb_mode_timeout
UsbModeTimeout ==
  /\ handler
  /\ handler' = FALSE /\ queued' = TRUE
  /\ UNCHANGED <<controller, driver, step, seen, failed, port, timer, frozen, history>>

Freeze ==
  /\ ~frozen /\ ~handler
  /\ frozen' = TRUE
  /\ UNCHANGED <<controller, driver, work, port, timer, handler, history>>

Thaw ==
  /\ frozen
  /\ frozen' = FALSE
  /\ UNCHANGED <<controller, driver, work, port, timer, handler, history>>

-----------------------------------------------------------------------------
\* The embedded controller.

\* A partner comes, which the EC may have put into another mode already.
Attach ==
  /\ ~attached /\ attaches < MaxAttach
  /\ attached' = TRUE /\ attaches' = attaches + 1 /\ ec' \in {"none", "alt"} /\ event' = TRUE
  /\ discovered' = FALSE
  /\ UNCHANGED <<ask, driver, work, port, timeout, history>>

Detach ==
  /\ attached
  /\ attached' = FALSE /\ ec' = "none" /\ ask' = "none" /\ event' = TRUE
  /\ discovered' = FALSE
  /\ UNCHANGED <<attaches, driver, work, port, timeout, history>>

Discover ==
  /\ attached /\ ~discovered
  /\ discovered' = TRUE /\ event' = TRUE
  /\ UNCHANGED <<attached, ec, ask, attaches, driver, work, port, timeout, history>>

\* The EC acts on a request or drops it; it accepts USB4 in another mode without effect.
EcActs ==
  /\ ask # "none" /\ ask' = "none"
  /\ \/ ask = "usb3" /\ ec' = "none" /\ event' = (event \/ ec # "none")
     \/ ask = "usb4" /\ attached /\ ec = "none" /\ ec' = "usb4" /\ event' = TRUE
     \/ UNCHANGED <<ec, event>>
  /\ UNCHANGED <<attached, discovered, attaches, driver, work, port, timeout, history>>

EcEntersAlt ==
  /\ attached /\ ec = "none"
  /\ ec' = "alt" /\ event' = TRUE
  /\ UNCHANGED <<attached, discovered, ask, attaches, driver, work, port, timeout, history>>

\* cros_ec_typec_event, when the notifier is registered.
Notify ==
  /\ event
  /\ event' = FALSE /\ queued' = (queued \/ Listening)
  /\ UNCHANGED <<attached, ec, discovered, ask, attaches, driver, step, seen, failed, port,
                 timeout, history>>

-----------------------------------------------------------------------------
\* cros_typec_probe, from the registration of the notifier, and cros_typec_remove.

RegisterNotifier ==
  /\ driver = "probing"
  /\ driver' = "listening"
  /\ UNCHANGED <<controller, work, port, timeout, history>>

\* Mutant: the first event is waited for.
WaitForEvent ==
  /\ driver = "listening"
  /\ driver' = "bound"
  /\ UNCHANGED <<controller, work, port, timeout, history>>

\* What was attached before the notifier was registered raised no event.
ScheduleInitial ==
  /\ driver = "listening"
  /\ driver' = "bound" /\ queued' = TRUE
  /\ UNCHANGED <<controller, step, seen, failed, port, timeout, history>>

UnregisterNotifier ==
  /\ driver = "bound"
  /\ driver' = "unregistered"
  /\ UNCHANGED <<controller, work, port, timeout, history>>

\* Mutant: the time-out is disabled without waiting for its handler.
DisableTimeoutAsync ==
  /\ driver = "unregistered"
  /\ driver' = "disabled" /\ timer' = "off"
  /\ UNCHANGED <<controller, work, port, handler, frozen, history>>

\* disable_delayed_work_sync
DisableTimeout ==
  /\ driver = "unregistered" /\ ~handler
  /\ driver' = "disabled" /\ timer' = "off"
  /\ UNCHANGED <<controller, work, port, handler, frozen, history>>

\* cancel_work_sync
CancelWork ==
  /\ driver = "disabled" /\ step = "none"
  /\ driver' = "cancelled" /\ queued' = FALSE
  /\ UNCHANGED <<controller, step, seen, failed, port, timeout, history>>

\* cros_unregister_ports, and the memory of the ports goes.
UnregisterPorts ==
  /\ driver = "cancelled"
  /\ Remove
  /\ driver' = "removed"
  /\ UNCHANGED <<controller, work, known, mux_flags, handler, frozen, history>>

Usb4Init ==
  /\ attached \in BOOLEAN /\ ec \in (IF attached THEN {"none", "alt"} ELSE {"none"})
  /\ discovered \in {FALSE, attached} /\ ask = "none" /\ event = FALSE /\ attaches = 0
  /\ driver = "probing" /\ queued = FALSE /\ step = "none" /\ seen = FALSE /\ failed = FALSE
  /\ partner = FALSE /\ known = FALSE /\ mux_flags = "none" /\ usb_mode_req = "none"
  /\ timer = "off" /\ handler = FALSE /\ frozen = FALSE
  /\ asked = 0 /\ armed = 0 /\ due = 0 /\ confirmed = 0 /\ selected = 0

Usb4Next ==
  \/ PortWork \/ ReadFails
  \/ Expire \/ StartTimeout \/ UsbModeTimeout \/ Freeze \/ Thaw
  \/ Attach \/ Detach \/ Discover \/ EcActs \/ EcEntersAlt \/ Notify
  \/ RegisterNotifier \/ ScheduleInitial
  \/ UnregisterNotifier \/ DisableTimeout \/ CancelWork \/ UnregisterPorts

\* Work that is queued runs and ends, timers expire, events are delivered, and
\* a driver that probes goes on.
Usb4Fairness ==
  /\ WF_usb4Vars(PortWork) /\ WF_usb4Vars(Expire) /\ WF_usb4Vars(StartTimeout)
  /\ WF_usb4Vars(UsbModeTimeout) /\ WF_usb4Vars(Notify)
  /\ WF_usb4Vars(RegisterNotifier) /\ WF_usb4Vars(ScheduleInitial)

Usb4Spec == Usb4Init /\ [][Usb4Next]_usb4Vars /\ Usb4Fairness

-----------------------------------------------------------------------------
\* Properties.

Modes == {"none", "usb3", "usb4"}

Flags ==
  /\ attached \in BOOLEAN /\ discovered \in BOOLEAN /\ event \in BOOLEAN
  /\ queued \in BOOLEAN /\ seen \in BOOLEAN /\ failed \in BOOLEAN
  /\ partner \in BOOLEAN /\ known \in BOOLEAN /\ handler \in BOOLEAN /\ frozen \in BOOLEAN

Values ==
  /\ ec \in {"none"} \cup HsModes /\ mux_flags \in {"none"} \cup HsModes
  /\ ask \in Modes /\ usb_mode_req \in Modes
  /\ driver \in {"probing", "listening", "bound", "unregistered", "disabled", "cancelled",
                "removed"}
  /\ step \in {"none", "pd", "mux", "partner", "status", "usb"}
  /\ timer \in {"off", "armed", "queued"}
  /\ attaches \in Nat /\ asked \in Nat /\ armed \in Nat /\ due \in Nat
  /\ confirmed \in Nat /\ selected \in Nat

\* Every variable keeps its type.
Usb4TypeOK == Flags /\ Values

\* A request that is not settled has something that will wake the port update,
\* wherever time-outs, mux events and removals meet, until the driver goes; only
\* an update that could not read the EC leaves it to the next notification.
NeverStranded ==
  usb_mode_req # "none" /\ ~Disabled => Pending \/ handler \/ queued \/ step # "none" \/ failed

\* A partner gets USB4 or alternate-mode selection, never both and neither twice.
OneOutcome == confirmed + selected <= 1

\* Where the partner is on its way to a mode.
EntryStage ==
  IF ~partner THEN "absent" ELSE IF ~known THEN "new"
  ELSE IF usb_mode_req = "usb3" THEN "leaving"
  ELSE IF usb_mode_req = "usb4" THEN "entering"
  ELSE IF confirmed = 1 /\ selected = 0 THEN "usb4"
  ELSE IF confirmed = 0 /\ selected = 1 THEN "selection"
  ELSE "undecided"

Entry == INSTANCE ModeEntry WITH
  Modes <- {"none"} \cup HsModes, HighSpeed <- HsModes, Usb4 <- "usb4",
  stage <- EntryStage, mux <- mux_flags

\* The driver implements module ModeEntry: whatever the EC drops or refuses and
\* whenever a time-out strikes, a partner is asked for USB4 at most once, never
\* while the mux is known to be in another mode, and gets one outcome that lasts.
ImplementsModeEntry == Entry!Spec

\* A request is given up only when the full time has passed since it was made,
\* whichever earlier request's time-out is still under way.
FullTime ==
  [][/\ step = "usb" /\ selected' # selected /\ ~Disabled
     /\ ~(usb_mode_req = "usb3" /\ mux_flags \notin HsModes)
     => due = asked]_usb4Vars

\* Once the port work is cancelled for good, nothing can run or queue it again:
\* its memory is about to go.
NothingAfterCancel ==
  driver \in {"cancelled", "removed"} => ~queued /\ step = "none" /\ ~Pending /\ ~handler

\* A partner that stays is served in the end, by USB4 or by alternate modes,
\* though the EC may drop every request without a word.
PartnerServed ==
  <>[](attached /\ discovered /\ driver = "bound" /\ ~failed /\ ~frozen)
    => <>[](confirmed + selected > 0)
=============================================================================
