------------------------------ MODULE WipeRoot ------------------------------
(***************************************************************************)
(* The scripts of the impermanence module that wipe root file systems at   *)
(* shutdown (modules/nixos/system/impermanence/default.nix), one for ZFS   *)
(* datasets and one for btrfs subvolumes.  systemd runs them in the        *)
(* shutdown ramfs; power may go between any two of their commands, and the *)
(* machine boots again only if its roots are there.                        *)
(*                                                                         *)
(* A file system is absent, empty, or dirty (it holds data of a past run). *)
(***************************************************************************)

CONSTANTS
  Volumes,  \* the roots of one machine
  Needed    \* those without which it does not boot

ASSUME WipeAssumption == Needed \subseteq Volumes

VARIABLES
  btrfs,     \* whether the roots are btrfs subvolumes, not ZFS datasets
  root,      \* the root file systems
  snap,      \* their @empty snapshots
  machine,   \* "up", "wiping", "ended", "failed" (the script), "off"
  todo,      \* roots the loop has not come to
  at,        \* roots in their turn: one, or none between turns
  step,      \* where the turn is
  skipped,   \* history: roots this shutdown passed over
  stuck      \* history: btrfs roots this shutdown did not get deleted

wipeVars == <<btrfs, root, snap, machine, todo, at, step, skipped, stuck>>

Contents == {"absent", "empty", "dirty"}

Present(v) == root[v] # "absent"

\* The next turn, or the end of the script.
NextTurn == at' = {} /\ step' = "turn"

-----------------------------------------------------------------------------
\* What happens to a root file system in use, and around the script.

Use(v) ==
  /\ machine = "up" /\ root[v] = "empty"
  /\ root' = [root EXCEPT ![v] = "dirty"]
  /\ UNCHANGED <<btrfs, snap, machine, todo, at, step, skipped, stuck>>

Shutdown ==
  /\ machine = "up"
  /\ machine' = "wiping" /\ todo' = Volumes /\ at' = {} /\ step' = "turn"
  /\ skipped' = {} /\ stuck' = {}
  /\ UNCHANGED <<btrfs, root, snap>>

PowerCut ==
  /\ machine # "off"
  /\ machine' = "off"
  /\ UNCHANGED <<btrfs, root, snap, todo, at, step, skipped, stuck>>

Boot ==
  /\ machine = "off" /\ \A v \in Needed : Present(v)
  /\ machine' = "up"
  /\ UNCHANGED <<btrfs, root, snap, todo, at, step, skipped, stuck>>

\* A root that is lost is made anew by hand, from the installer.
Remake(v) ==
  /\ machine = "off" /\ ~Present(v)
  /\ root' = [root EXCEPT ![v] = "empty"]
  /\ UNCHANGED <<btrfs, snap, machine, todo, at, step, skipped, stuck>>

-----------------------------------------------------------------------------
\* The loop of either script.

\* A root that is there, or a btrfs device that is mounted.  The script asks
\* for @empty in a condition: a query that fails is an @empty that is not there.
Turn(v) ==
  /\ machine = "wiping" /\ at = {} /\ v \in todo /\ (btrfs \/ Present(v))
  /\ todo' = todo \ {v} /\ at' = {v}
  /\ \/ snap[v] # "absent" /\ step' = "restore"
     \/ step' = IF btrfs THEN "clear" ELSE "destroy"
  /\ UNCHANGED <<btrfs, root, snap, machine, skipped, stuck>>

\* Mutant: a root that is missing ends the loop.
SkipRest(v) ==
  /\ machine = "wiping" /\ at = {} /\ v \in todo
  /\ todo' = {} /\ skipped' = skipped \cup {v}
  /\ UNCHANGED <<btrfs, root, snap, machine, at, step, stuck>>

\* The dataset is not found, be it that zfs fails; the device is not found or
\* not mounted.
Skip(v) ==
  /\ machine = "wiping" /\ at = {} /\ v \in todo
  /\ todo' = todo \ {v} /\ skipped' = skipped \cup {v}
  /\ UNCHANGED <<btrfs, root, snap, machine, at, step, stuck>>

Ends ==
  /\ machine = "wiping" /\ at = {} /\ todo = {}
  /\ machine' = "ended"
  /\ UNCHANGED <<btrfs, root, snap, todo, at, step, skipped, stuck>>

\* set -e: a command fails and the rest of the list is left alone.
CommandFails ==
  /\ machine = "wiping"
  /\ machine' = "failed"
  /\ UNCHANGED <<btrfs, root, snap, todo, at, step, skipped, stuck>>

-----------------------------------------------------------------------------
\* A turn of the ZFS script.

Rollback(v) ==
  /\ ~btrfs /\ v \in at /\ machine = "wiping" /\ step = "restore"
  /\ root' = [root EXCEPT ![v] = snap[v]] /\ NextTurn
  /\ UNCHANGED <<btrfs, snap, machine, todo, skipped, stuck>>

\* zfs destroy -r takes the snapshots along.
Destroy(v) ==
  /\ ~btrfs /\ v \in at /\ machine = "wiping" /\ step = "destroy"
  /\ root' = [root EXCEPT ![v] = "absent"] /\ snap' = [snap EXCEPT ![v] = "absent"]
  /\ step' = "create"
  /\ UNCHANGED <<btrfs, machine, todo, at, skipped, stuck>>

-----------------------------------------------------------------------------
\* A turn of the btrfs script.

\* subvolume delete -R, then delete, then || true; in a bootstrap only if
\* subvolume show finds the subvolume.
Delete(v) ==
  /\ btrfs /\ v \in at /\ machine = "wiping" /\ step \in {"restore", "clear"}
  /\ \/ root' = [root EXCEPT ![v] = "absent"] /\ UNCHANGED stuck
     \/ Present(v) /\ UNCHANGED root /\ stuck' = stuck \cup {v}
  /\ step' = IF step = "restore" THEN "copy" ELSE "create"
  /\ UNCHANGED <<btrfs, snap, machine, todo, at, skipped>>

\* Mutant: the tolerance of the delete spreads to the snapshot.
CopyOrNot(v) ==
  /\ btrfs /\ v \in at /\ machine = "wiping" /\ step = "copy"
  /\ root' \in {root, [root EXCEPT ![v] = snap[v]]} /\ NextTurn
  /\ UNCHANGED <<btrfs, snap, machine, todo, skipped, stuck>>

\* subvolume snapshot: onto a name that is there, it goes inside.
Copy(v) ==
  /\ btrfs /\ v \in at /\ machine = "wiping" /\ step = "copy"
  /\ root' = [root EXCEPT ![v] = IF Present(v) THEN @ ELSE snap[v]] /\ NextTurn
  /\ UNCHANGED <<btrfs, snap, machine, todo, skipped, stuck>>

-----------------------------------------------------------------------------
\* The end of a bootstrap, alike in both.

\* Mutant: a name that is taken is good enough.
CreateOrKeep(v) ==
  /\ v \in at /\ machine = "wiping" /\ step = "create"
  /\ root' = [root EXCEPT ![v] = IF Present(v) THEN @ ELSE "empty"] /\ step' = "snapshot"
  /\ UNCHANGED <<btrfs, snap, machine, todo, at, skipped, stuck>>

\* Mutant: a root that is still there keeps the loop going.
CreateOrGoOn(v) ==
  /\ v \in at /\ machine = "wiping" /\ step = "create"
  /\ \/ Present(v) /\ NextTurn /\ UNCHANGED root
     \/ /\ ~Present(v) /\ root' = [root EXCEPT ![v] = "empty"]
        /\ step' = "snapshot" /\ UNCHANGED at
  /\ UNCHANGED <<btrfs, snap, machine, todo, skipped, stuck>>

\* create fails on a name that is taken.
Create(v) ==
  /\ v \in at /\ machine = "wiping" /\ step = "create" /\ ~Present(v)
  /\ root' = [root EXCEPT ![v] = "empty"] /\ step' = "snapshot"
  /\ UNCHANGED <<btrfs, snap, machine, todo, at, skipped, stuck>>

\* A btrfs snapshot onto an @empty that is there goes inside it, where a
\* restore, which does not descend into subvolumes, leaves it.
Snapshot(v) ==
  /\ v \in at /\ machine = "wiping" /\ step = "snapshot"
  /\ snap' = [snap EXCEPT ![v] = IF @ = "absent" THEN root[v] ELSE @] /\ NextTurn
  /\ UNCHANGED <<btrfs, root, machine, todo, skipped, stuck>>

WipeInit ==
  /\ btrfs \in BOOLEAN
  /\ root \in [Volumes -> {"empty", "dirty"}]
  /\ snap = [v \in Volumes |-> "absent"]
  /\ machine = "up" /\ todo = {} /\ at = {} /\ step = "turn"
  /\ skipped = {} /\ stuck = {}

Script(v) ==
  \/ Turn(v) \/ Skip(v) \/ Rollback(v) \/ Destroy(v) \/ Delete(v) \/ Copy(v)
  \/ Create(v) \/ Snapshot(v)

WipeNext ==
  \/ \E v \in Volumes : Use(v) \/ Remake(v) \/ Script(v)
  \/ Shutdown \/ PowerCut \/ Boot \/ Ends \/ CommandFails

WipeSpec == WipeInit /\ [][WipeNext]_wipeVars

-----------------------------------------------------------------------------
\* Properties.

\* Every variable keeps its type.
WipeTypeOK ==
  /\ btrfs \in BOOLEAN
  /\ root \in [Volumes -> Contents] /\ snap \in [Volumes -> Contents]
  /\ machine \in {"up", "wiping", "ended", "failed", "off"}
  /\ todo \subseteq Volumes /\ at \subseteq Volumes /\ \A v, w \in at : v = w
  /\ step \in {"turn", "restore", "destroy", "clear", "copy", "create", "snapshot"}
  /\ skipped \subseteq Volumes /\ stuck \subseteq Volumes

\* The snapshot that every later shutdown restores is empty, whatever failed or
\* was cut short when it was made.
EmptyIsEmpty == \A v \in Volumes : snap[v] \in {"absent", "empty"}

\* A script that came to its end left nothing of the past run, but for roots it
\* passed over or did not get deleted.  Every other root is there: a btrfs root
\* that an earlier shutdown lost between its deletion and its restore is back.
Wiped ==
  machine = "ended" =>
    \A v \in Volumes \ (skipped \cup stuck) : root[v] = "empty"

\* A script that came to its end has seen to an @empty for every root it did not
\* pass over, those it did not get deleted and those that an earlier shutdown
\* left between create and snapshot included: the next one restores.
EmptyMade ==
  machine = "ended" => \A v \in Volumes \ skipped : snap[v] = "empty"

=============================================================================
