---------------------------- MODULE RedrixFlash ----------------------------
(***************************************************************************)
(* redrix-flash (apps/redrix-flash/redrix-flash.sh): updates of the EC's   *)
(* RW image and of coreboot, from the lock to the EXIT trap.  An element   *)
(* of Apps is one invocation.  Its commands fail, it is interrupted, or it *)
(* is killed while its programmer (ectool, flashrom) keeps writing.        *)
(*                                                                         *)
(* Around it: fwupd, which D-Bus may start at any time unless a start      *)
(* condition that systemd has loaded forbids it; the operator, who may     *)
(* queue an EC reset of their own; and clean power cycles, at which a      *)
(* queued reset takes place.  Power is not lost (the README asks for AC).  *)
(* An invocation is over as "done", "cut" (in its trap) or "dead".         *)
(***************************************************************************)
EXTENDS Naturals, FiniteSets

CONSTANTS
  Apps,       \* invocations of ec-rw or coreboot
  None,
  Signals     \* "ctrl-c" from a terminal, "again": another while the trap runs

ASSUME FlashAssumption == None \notin Apps /\ Signals \subseteq {"ctrl-c", "again"}

Chips == {"ec", "bios"}

VARIABLES
  lock,      \* the invocation whose open file holds /run/redrix-flash.lock
  flash,     \* per chip: "old", "new", or "torn"
  queued,    \* the EC resets at the next shutdown
  ecRuns,    \* the image the EC has loaded
  unit,      \* LoadState of fwupd.service
  fwupd,     \* it is active
  dropins,   \* invocations whose start condition is in /run
  loaded,    \* those systemd has read
  pc, chip,  \* per invocation: where it is, what it updates
  writing, restart, override,  \* its variables writing, fwupd_restart, fwupd_override
  child,     \* invocations whose programmer is at work
  tee,       \* invocations whose session.log still has its writer
  warned     \* chips of which the operator was told not to reboot

flashVars == <<flash, queued, ecRuns, child>>
fwupdVars == <<unit, fwupd, dropins, loaded>>
appVars == <<chip, writing, restart, override, tee>>
vars == <<lock, flashVars, fwupdVars, pc, appVars, warned>>

Goto(a, p) == pc' = [pc EXCEPT ![a] = p]

Over == {"idle", "done", "cut", "dead"}
InTrap == {"cleanup", "unload", "restart"}
Live == {a \in Apps : pc[a] \notin Over}

\* Mutant: the programmer does not inherit the open file.
UnlockedAlone(a) == IF lock = a THEN None ELSE lock

\* The lock belongs to the open file, which the programmer inherits.
Unlocked(a) == IF lock = a /\ a \notin child THEN None ELSE lock

-----------------------------------------------------------------------------
\* The script up to the first write.

\* flock -n; the traps follow.
Start(a) ==
  /\ pc[a] = "idle" /\ lock = None
  /\ lock' = a /\ Goto(a, "prepare")
  /\ \E c \in Chips : chip' = [chip EXCEPT ![a] = c]
  /\ UNCHANGED <<flashVars, fwupdVars, writing, restart, override, tee, warned>>

Refused(a) ==
  /\ pc[a] = "idle" /\ lock # None
  /\ Goto(a, "done")
  /\ UNCHANGED <<lock, flashVars, fwupdVars, appVars, warned>>

\* Checks, backup and prepared image, then confirm: a queued reset forbids an
\* EC update.
Prepare(a) ==
  /\ pc[a] = "prepare" /\ (chip[a] = "ec" => ~queued)
  /\ Goto(a, "confirm")
  /\ UNCHANGED <<lock, flashVars, fwupdVars, appVars, warned>>

Confirm(a) ==
  /\ pc[a] = "confirm"
  /\ Goto(a, IF chip[a] = "ec" THEN "recheck" ELSE "pause")
  /\ UNCHANGED <<lock, flashVars, fwupdVars, appVars, warned>>

\* Mutant: what was checked before the prompt is not checked again.
RecheckSkipped(a) ==
  /\ pc[a] = "recheck"
  /\ Goto(a, "arm")
  /\ UNCHANGED <<lock, flashVars, fwupdVars, appVars, warned>>

\* check_ec again, after the prompt.
Recheck(a) ==
  /\ pc[a] = "recheck" /\ ~queued
  /\ Goto(a, "arm")
  /\ UNCHANGED <<lock, flashVars, fwupdVars, appVars, warned>>

\* pause_fwupd: nothing to pause, or remember whether it was active.
Pause(a) ==
  /\ pc[a] = "pause"
  /\ unit = "masked" => ~fwupd
  /\ IF unit = "loaded"
     THEN restart' = [restart EXCEPT ![a] = fwupd] /\ Goto(a, "dropin")
     ELSE UNCHANGED restart /\ Goto(a, "arm")
  /\ UNCHANGED <<lock, flashVars, fwupdVars, chip, writing, override, tee, warned>>

DropIn(a) ==
  /\ pc[a] = "dropin"
  /\ dropins' = dropins \cup {a} /\ override' = [override EXCEPT ![a] = TRUE]
  /\ Goto(a, "reload")
  /\ UNCHANGED <<lock, flashVars, unit, fwupd, loaded, chip, writing, restart, tee, warned>>

\* Mutant: systemd is not told of the start condition.
ReloadForgotten(a) ==
  /\ pc[a] = "reload"
  /\ Goto(a, "stop")
  /\ UNCHANGED <<lock, flashVars, fwupdVars, appVars, warned>>

Reload(a) ==
  /\ pc[a] = "reload"
  /\ loaded' = dropins /\ Goto(a, "stop")
  /\ UNCHANGED <<lock, flashVars, unit, fwupd, dropins, appVars, warned>>

Stop(a) ==
  /\ pc[a] = "stop"
  /\ fwupd' = FALSE /\ Goto(a, "arm")
  /\ UNCHANGED <<lock, flashVars, unit, dropins, loaded, appVars, warned>>

-----------------------------------------------------------------------------
\* The write.

Arm(a) ==
  /\ pc[a] = "arm"
  /\ writing' = [writing EXCEPT ![a] = TRUE]
  /\ Goto(a, IF chip[a] = "ec" THEN "erase" ELSE "write")
  /\ UNCHANGED <<lock, flashVars, fwupdVars, chip, restart, override, tee, warned>>

\* The programmer is at work; what was there is gone.
Program(a) ==
  /\ pc[a] \in {"erase", "write"}
  /\ child' = child \cup {a} /\ flash' = [flash EXCEPT ![chip[a]] = "torn"]
  /\ Goto(a, IF pc[a] = "erase" THEN "erasing" ELSE "programming")
  /\ UNCHANGED <<lock, queued, ecRuns, fwupdVars, appVars, warned>>

Erased(a) ==
  /\ pc[a] = "erasing"
  /\ child' = child \ {a} /\ Goto(a, "write")
  /\ UNCHANGED <<lock, flash, queued, ecRuns, fwupdVars, appVars, warned>>

\* ectool reports success, right or wrong; flashrom has verified.
Programmed(a) ==
  /\ pc[a] = "programming"
  /\ \E f \in {"new"} \cup (IF chip[a] = "ec" THEN {"torn"} ELSE {}) :
       flash' = [flash EXCEPT ![chip[a]] = f]
  /\ child' = child \ {a}
  /\ Goto(a, IF chip[a] = "ec" THEN "verify" ELSE "verified")
  /\ UNCHANGED <<lock, queued, ecRuns, fwupdVars, appVars, warned>>

\* Ctrl-C goes to every process of the terminal, tee among them.
TeeMayDie(a) ==
  /\ tee' \in {tee} \cup (IF "ctrl-c" \in Signals THEN {tee \ {a}} ELSE {})
  /\ UNCHANGED <<chip, writing, restart, override>>

\* The programmer fails, or dies of the signal that the script gets too.
ProgramFails(a) ==
  /\ pc[a] \in {"erasing", "programming"}
  /\ child' = child \ {a} /\ Goto(a, "cleanup")
  /\ TeeMayDie(a)
  /\ UNCHANGED <<lock, flash, queued, ecRuns, fwupdVars, warned>>

\* The readback compares equal.
Verify(a) ==
  /\ pc[a] = "verify" /\ flash["ec"] = "new"
  /\ Goto(a, "verified")
  /\ UNCHANGED <<lock, flashVars, fwupdVars, appVars, warned>>

Verified(a) ==
  /\ pc[a] = "verified"
  /\ writing' = [writing EXCEPT ![a] = FALSE]
  /\ warned' = warned \ {chip[a]}
  /\ Goto(a, IF chip[a] = "ec" THEN "queue" ELSE "cleanup")
  /\ UNCHANGED <<lock, flashVars, fwupdVars, chip, restart, override, tee>>

\* ectool reboot_ec cold at-shutdown, and the check that it was stored.
QueueReset(a) ==
  /\ pc[a] = "queue"
  /\ queued' \in {TRUE, queued} /\ Goto(a, "queued")
  /\ UNCHANGED <<lock, flash, ecRuns, child, fwupdVars, appVars, warned>>

Queued(a) ==
  /\ pc[a] = "queued" /\ queued
  /\ Goto(a, "cleanup")
  /\ UNCHANGED <<lock, flashVars, fwupdVars, appVars, warned>>

-----------------------------------------------------------------------------
\* The ways out.

\* A command of the script fails, a check refuses, the operator declines, it
\* was a dry run, or a signal is handled between two commands.
Abort(a) ==
  /\ pc[a] \notin Over \cup InTrap \cup {"erasing", "programming"}
  /\ Goto(a, "cleanup") /\ TeeMayDie(a)
  /\ UNCHANGED <<lock, flashVars, fwupdVars, warned>>

\* Mutant: the trap has nothing to say.
CleanupSilent(a) ==
  /\ pc[a] = "cleanup"
  /\ dropins' = dropins \ {a}
  /\ Goto(a, IF override[a] THEN "unload" ELSE "restart")
  /\ UNCHANGED <<lock, flashVars, unit, fwupd, loaded, appVars, warned>>

\* Mutant: the trap leaves the start condition to the next boot.
CleanupKeepsDropIn(a) ==
  /\ pc[a] = "cleanup"
  /\ warned' = IF writing[a] THEN warned \cup {chip[a]} ELSE warned
  /\ Goto(a, "restart")
  /\ UNCHANGED <<lock, flashVars, fwupdVars, appVars>>

\* cleanup, the EXIT trap: the warning, the start condition, systemd, fwupd.
Cleanup(a) ==
  /\ pc[a] = "cleanup" /\ (writing[a] => a \in tee)
  /\ warned' = IF writing[a] THEN warned \cup {chip[a]} ELSE warned
  /\ dropins' = dropins \ {a}
  /\ Goto(a, IF override[a] THEN "unload" ELSE "restart")
  /\ UNCHANGED <<lock, flashVars, unit, fwupd, loaded, appVars>>

Unload(a) ==
  /\ pc[a] = "unload"
  /\ loaded' = dropins /\ Goto(a, "restart")
  /\ UNCHANGED <<lock, flashVars, unit, fwupd, dropins, appVars, warned>>

Blocked == dropins \cap loaded # {}

\* systemctl start succeeds without an effect when a condition forbids it.
Restart(a) ==
  /\ pc[a] = "restart"
  /\ fwupd' = (fwupd \/ (restart[a] /\ ~Blocked))
  /\ lock' = Unlocked(a) /\ Goto(a, "done")
  /\ UNCHANGED <<flashVars, unit, dropins, loaded, appVars, warned>>

\* The warning meets a pipe that nobody reads: the script dies of SIGPIPE.
BrokenPipe(a) ==
  /\ pc[a] = "cleanup" /\ writing[a] /\ a \notin tee
  /\ lock' = Unlocked(a) /\ Goto(a, "cut")
  /\ UNCHANGED <<flashVars, fwupdVars, appVars, warned>>

\* A signal while the trap runs: exit, and the trap does not run twice.
Interrupt(a) ==
  /\ "again" \in Signals /\ pc[a] \in InTrap
  /\ lock' = Unlocked(a) /\ Goto(a, "cut")
  /\ UNCHANGED <<flashVars, fwupdVars, appVars, warned>>

\* SIGKILL; the operator sees it.  The programmer goes on.
Kill(a) ==
  /\ a \in Live
  /\ lock' = Unlocked(a) /\ Goto(a, "dead")
  /\ warned' = warned \cup {chip[a]}
  /\ UNCHANGED <<flashVars, fwupdVars, appVars>>

OrphanEnds(a) ==
  /\ pc[a] = "dead" /\ a \in child
  /\ child' = child \ {a} /\ lock' = IF lock = a THEN None ELSE lock
  /\ \E f \in {"new", "torn"} : flash' = [flash EXCEPT ![chip[a]] = f]
  /\ UNCHANGED <<queued, ecRuns, fwupdVars, pc, appVars, warned>>

-----------------------------------------------------------------------------
\* The rest of the machine.

DBusStart ==
  /\ unit = "loaded" /\ ~fwupd /\ ~Blocked
  /\ fwupd' = TRUE
  /\ UNCHANGED <<lock, flashVars, unit, dropins, loaded, pc, appVars, warned>>

FwupdIdles ==
  /\ fwupd
  /\ fwupd' = FALSE
  /\ UNCHANGED <<lock, flashVars, unit, dropins, loaded, pc, appVars, warned>>

\* The operator queues a reset of the EC, but not while it is written or after
\* a warning.
OperatorQueues ==
  /\ ~queued /\ "ec" \notin warned
  /\ \A a \in Live : chip[a] = "ec" => pc[a] \in {"prepare", "confirm", "recheck"}
  /\ queued' = TRUE
  /\ UNCHANGED <<lock, flash, ecRuns, child, fwupdVars, pc, appVars, warned>>

\* systemd-inhibit keeps this from happening while an invocation lives.  /run
\* is new at boot; a torn BIOS does not boot.
PowerCycle ==
  /\ Live = {} /\ flash["bios"] # "torn"
  /\ ecRuns' = IF queued THEN flash["ec"] ELSE ecRuns
  /\ queued' = FALSE /\ child' = {} /\ lock' = None
  /\ fwupd' = FALSE /\ dropins' = {} /\ loaded' = {}
  /\ UNCHANGED <<flash, unit, pc, appVars, warned>>

Init ==
  /\ lock = None /\ flash = [c \in Chips |-> "old"] /\ queued = FALSE /\ ecRuns = "old"
  /\ unit \in {"loaded", "masked", "not-found"}
  /\ fwupd \in BOOLEAN /\ (unit = "not-found" => ~fwupd)
  /\ dropins = {} /\ loaded = {}
  /\ pc = [a \in Apps |-> "idle"] /\ chip = [a \in Apps |-> "ec"]
  /\ writing = [a \in Apps |-> FALSE] /\ restart = [a \in Apps |-> FALSE]
  /\ override = [a \in Apps |-> FALSE]
  /\ child = {} /\ warned = {} /\ tee = Apps

Script(a) ==
  \/ Start(a) \/ Refused(a) \/ Prepare(a) \/ Confirm(a) \/ Recheck(a)
  \/ Pause(a) \/ DropIn(a) \/ Reload(a) \/ Stop(a)
  \/ Arm(a) \/ Program(a) \/ Erased(a) \/ Programmed(a) \/ ProgramFails(a)
  \/ Verify(a) \/ Verified(a) \/ QueueReset(a) \/ Queued(a)
  \/ Abort(a) \/ Cleanup(a) \/ Unload(a) \/ Restart(a)
  \/ BrokenPipe(a) \/ Interrupt(a)
  \/ Kill(a) \/ OrphanEnds(a)

Next ==
  \/ \E a \in Apps : Script(a)
  \/ DBusStart \/ FwupdIdles \/ OperatorQueues \/ PowerCycle

Spec == Init /\ [][Next]_vars

-----------------------------------------------------------------------------
\* Properties.

Places ==
  {"idle", "prepare", "confirm", "recheck", "pause", "dropin", "reload", "stop",
   "arm", "erase", "erasing", "write", "programming", "verify", "verified",
   "queue", "queued", "cleanup", "unload", "restart", "done", "cut", "dead"}

\* Every variable keeps its type.
TypeOK ==
  /\ lock \in Apps \cup {None}
  /\ flash \in [Chips -> {"old", "new", "torn"}]
  /\ queued \in BOOLEAN /\ ecRuns \in {"old", "new", "torn"}
  /\ unit \in {"loaded", "masked", "not-found"} /\ fwupd \in BOOLEAN
  /\ dropins \subseteq Apps /\ loaded \subseteq Apps /\ child \subseteq Apps
  /\ tee \subseteq Apps
  /\ pc \in [Apps -> Places] /\ chip \in [Apps -> Chips]
  /\ writing \in [Apps -> BOOLEAN] /\ restart \in [Apps -> BOOLEAN]
  /\ override \in [Apps -> BOOLEAN] /\ warned \subseteq Chips

\* The operator was not told: a signal cut the trap short before its warning.
Untold(c) == \E a \in Apps : pc[a] = "cut" /\ chip[a] = c /\ writing[a]

\* A queued reset never activates an incomplete image, whether the script queued
\* it or the operator did, at the prompt or at any other time they knew of
\* nothing against it.
EcBootable == Untold("ec") \/ ((queued => flash["ec"] # "torn") /\ ecRuns # "torn")

\* One programmer writes at a time, even if the script that started it is gone.
OneProgrammer == \A a, b \in child : a = b

\* fwupd, which opens the flash device, is down while flashrom writes, whatever
\* D-Bus asks for.
FwupdKeptOut == \A a \in child : chip[a] = "bios" => ~fwupd

\* A torn image is in the hands of a live invocation, or the operator has been
\* told not to reboot, unless a signal cut the trap short.
TornIsKnown ==
  \A c \in Chips : flash[c] = "torn" =>
    c \in warned \/ Untold(c) \/ \E a \in Live : chip[a] = c /\ writing[a]

\* An invocation whose trap comes to its end leaves no start condition.
FwupdReleased == \A a \in Apps : pc[a] = "done" => a \notin dropins

\* Nor does one that fails or is interrupted (README.md:52-54).
ReleasedOnFailure == \A a \in Apps : pc[a] \in {"done", "cut"} => a \notin dropins

=============================================================================
