------------------------------ MODULE Session ------------------------------
(***************************************************************************)
(* What `rescue` promises, without its steps: at any time at most one host *)
(* is claimed, in one mode; resources of a host (pools, LUKS devices,      *)
(* mounts, its host id, its secrets) are held only under a claim; a claim  *)
(* is given up, or replaced, only when nothing is held any more.           *)
(***************************************************************************)
CONSTANTS Claims, Resources, NoClaim

VARIABLES claim, held

Init == claim = NoClaim /\ held = {}

\* rescue unlock.
Claim ==
  /\ claim = NoClaim /\ held = {}
  /\ claim' \in Claims /\ held' = {}

\* One resource more.
Take ==
  /\ claim \in Claims /\ claim' = claim
  /\ \E r \in Resources : held' = held \cup {r}

\* Any number of resources fewer: umount -R releases many at once.
Release ==
  /\ claim \in Claims /\ claim' = claim
  /\ held' \in SUBSET held

\* The end of a lock, or of a rollback.
GiveUp ==
  /\ held = {}
  /\ claim' = NoClaim /\ held' = {}

\* A reboot forgets the claim and everything held.
Reboot == claim' = NoClaim /\ held' = {}

Next == Claim \/ Take \/ Release \/ GiveUp \/ Reboot

Spec == Init /\ [][Next]_<<claim, held>>
=============================================================================
