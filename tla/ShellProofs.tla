---------------------------- MODULE ShellProofs ----------------------------
(***************************************************************************)
(* The two shell programs, Rescue and WipeRoot.                            *)
(*                                                                         *)
(* Rescue, for every set of hosts, pools and devices.  CoreInv is          *)
(* inductive even when commands are killed between two steps; it relates   *)
(* the state file to the shell variables and gives the host id and the     *)
(* secrets.  RecordInv is inductive only without kills, and until a        *)
(* command ends behind a failed save; it gives what a lock releases, with  *)
(* LabelInv what the labels of the pools say, and that the commands        *)
(* implement Session.  DoneInv is what an unlock has mounted.  Distance is *)
(* how far a command is from its end, which every step of it makes less.   *)
(*                                                                         *)
(* WipeRoot, for any number of roots.  The invariant says, of the root in  *)
(* its turn, what the steps so far have made of it and of its snapshot,    *)
(* and of the others, that the loop has dealt with them or will.           *)
(***************************************************************************)
EXTENDS Rescue, WipeRoot, WellFoundedInduction, TLAPS

-----------------------------------------------------------------------------
\* The strengthening.

LockPcs == {"lockSecrets", "unlink", "umountRoot", "umountLower",
            "umountUpper", "export", "close", "remove"}
FsPcs == {"record", "key", "mount", "upper", "overlay"}
MountedPcs == {"extra", "recordExtra", "datasets", "identity", "sops", "decrypted", "failed"}

SavedPcs == {"saveHostId", "adopt", "fs"} \cup FsPcs \cup MountedPcs

\* Where a command stands, what it stands on exists and its index is in range.
ControlInv ==
  /\ pc = "save" => state = None /\ goal # None
  /\ pc \in SavedPcs => state \in SavedState
  /\ cmd = "relock" => goal # None
  /\ pc = "load" => cmd = "rollback"
  /\ pc \in LockPcs => state # None /\ cmd \in {"relock", "lock", "rollback"}
  /\ pc \in {"saveHostId", "adopt"} => NeedsHostId(state.host)
  /\ pc \in FsPcs => i \in 1..Len(FileSystems[state.host])
  /\ pc = "record" => Fs.kind \in {"zfs", "luks"}
  /\ pc = "recordExtra" => i \in 1..Len(ExtraPools[state.host])
  /\ pc \in {"fs", "extra", "datasets"} => i > 0
  /\ pc \in {"umountUpper", "export"} => i <= Len(state.pools)
  /\ pc = "close" => i <= Len(state.luks)

\* The file and the variables say the same, but in an unlock some of whose saves
\* have failed; a blank file is loaded only after such a one.
FileInv ==
  /\ state = None <=> file = None
  /\ saves = "good" => file = state
  /\ pc \notin SavedPcs \cup {"load"} => file = state /\ saves # "behind"
  /\ state = Blank => saves = "lost"

\* The saved host id is the image's, and is saved before another is adopted.
HostIdInv ==
  saves # "lost" =>
    /\ spl # BootId => state # None /\ state.hostid = BootId
    /\ state # None => state.hostid \in {None, BootId}
    /\ pc \in {"saveHostId", "remove"} => spl = BootId
    /\ pc = "adopt" => state.hostid = BootId

\* The root is mounted first and unmounted last but for the layers under it,
\* and the secrets exist only over it.
MountInv ==
  /\ state = None => mounted = {} /\ ~secrets /\ ~keyLink
  /\ mounted \subseteq {Lower, Upper} \/ Root \in mounted
  /\ secrets => Root \in mounted /\ keyLink
  /\ pc \in {"fs"} \cup FsPcs => i = 1 \/ Root \in mounted
  /\ pc \in MountedPcs => Root \in mounted
  /\ pc = "sops" => keyLink
  /\ pc \in LockPcs \ {"lockSecrets"} => ~secrets
  /\ pc \in LockPcs \ {"lockSecrets", "unlink"} => ~keyLink
  /\ pc \in {"umountLower", "umountUpper", "export", "close", "remove"} =>
       mounted \subseteq {Lower, Upper}
  /\ pc \in {"umountUpper", "export", "close", "remove"} => Lower \notin mounted
  /\ pc \in {"export", "close", "remove"} => Upper \notin mounted

CoreInv == TypeOK /\ ControlInv /\ FileInv /\ HostIdInv /\ MountInv

\* Every pool held is among the variables that save_state writes, or about to be
\* put there; a lock has released those it has passed.
PoolInv ==
  saves # "lost" =>
    \A n \in HeldPools :
      /\ state # None
      /\ \/ InList(n, state.pools)
         \/ pc = "record" /\ Fs.kind = "zfs" /\ Fs.src = n
         \/ pc = "recordExtra" /\ ExtraPools[state.host][i] = n
      /\ pc = "export" => \E k \in 1..i : state.pools[k] = n
      /\ pc \notin {"close", "remove"}

\* The same of the LUKS devices.
LuksInv ==
  saves # "lost" =>
    \A n \in HeldLuks :
      /\ state # None
      /\ \/ InList(n, state.luks)
         \/ pc = "record" /\ Fs.kind = "luks" /\ Fs.src = n
      /\ pc = "close" => \E k \in 1..i : state.luks[k] = n
      /\ pc # "remove"

RecordInv == PoolInv /\ LuksInv

-----------------------------------------------------------------------------
\* A saved state stays one when save_state rewrites a field of it.
LEMMA SavedStateUpdate ==
  ASSUME NEW s \in SavedState
  PROVE  /\ \A x \in {None} \cup Ids : [s EXCEPT !.hostid = x] \in SavedState
         /\ \A x \in Identities : [s EXCEPT !.identity = x] \in SavedState
         /\ \A n \in PoolNames : [s EXCEPT !.pools = Append(@, n)] \in SavedState
         /\ \A n \in LuksNames : [s EXCEPT !.luks = Append(@, n)] \in SavedState
<1>1. ASSUME NEW x \in {None} \cup Ids PROVE [s EXCEPT !.hostid = x] \in SavedState
  BY DEF SavedState
<1>2. ASSUME NEW x \in Identities PROVE [s EXCEPT !.identity = x] \in SavedState
  BY DEF SavedState
<1>3. ASSUME NEW n \in PoolNames PROVE [s EXCEPT !.pools = Append(@, n)] \in SavedState
  <2>1. Append(s.pools, n) \in Seq(PoolNames)
    BY DEF SavedState
  <2>. QED
    BY <2>1 DEF SavedState
<1>4. ASSUME NEW n \in LuksNames PROVE [s EXCEPT !.luks = Append(@, n)] \in SavedState
  <2>1. Append(s.luks, n) \in Seq(LuksNames)
    BY DEF SavedState
  <2>. QED
    BY <2>1 DEF SavedState
<1>. QED
  BY <1>1, <1>2, <1>3, <1>4

\* What a command has loaded has lists of names, and a host id if one was saved.
LEMMA LoadedTypes ==
  ASSUME state \in SavedState \cup {Blank}
  PROVE  /\ state.pools \in Seq(PoolNames) /\ state.luks \in Seq(LuksNames)
         /\ state.hostid \in {None} \cup Ids
<1>1. CASE state \in SavedState
  BY <1>1 DEF SavedState
<1>2. CASE state = Blank
  BY <1>2 DEF Blank
<1>. QED
  BY <1>1, <1>2

\* A blank file names no host.
LEMMA BlankUnsaved == Blank \notin SavedState
BY ConstantTypes DEF Blank, SavedState

\* The ways in which variables and file change, and their types.
LEMMA MemoryTypes ==
  ASSUME TypeOK,
         \/ UNCHANGED memory
         \/ \E rec \in SavedState : Saved(rec)
         \/ state' \in SavedState /\ file' \in {file, Blank} /\ FallBehind
         \/ Forget /\ file' = file
         \/ state' = None /\ file' = None /\ saves' \in {saves, "good"}
  PROVE  /\ state' \in SavedState \cup {Blank, None}
         /\ file' \in SavedState \cup {Blank, None}
         /\ saves' \in {"good", "behind", "lost"}
BY DEF TypeOK, memory, Saved, FallBehind, Forget

\* What ZFS writes is a label.
LEMMA WrittenTypes == TypeOK => Written(TRUE) \in Label /\ Written(FALSE) \in Label
BY DEF TypeOK, Written, Label

\* The i-th file system and the i-th extra pool are well-formed.
LEMMA EntryTypes ==
  ASSUME state \in SavedState
  PROVE  /\ i \in 1..Len(FileSystems[state.host]) =>
              /\ Fs \in FS
              /\ Fs.kind = "zfs" => Fs.src \in PoolNames
              /\ Fs.kind = "luks" => Fs.src \in LuksNames
         /\ i \in 1..Len(ExtraPools[state.host]) =>
              ExtraPools[state.host][i] \in PoolNames
<1>1. state.host \in Hosts
  BY DEF SavedState
<1>2. FileSystems[state.host] \in Seq(FS) /\ ExtraPools[state.host] \in Seq(PoolNames)
  BY <1>1, ConstantTypes
<1>. QED
  BY <1>1, <1>2, Devices DEF Fs

\* An import keeps the types of what it writes.
LEMMA ImportTypes ==
  ASSUME TypeOK, state \in SavedState, NEW n \in PoolNames, ZpoolImport(n)
  PROVE  /\ imported' \in [PoolNames -> Opening \cup {None}]
         /\ label' \in [Guids -> Label]
<1>1. PICK g \in Guids :
        /\ imported' = [imported EXCEPT ![n] = [guid |-> g, mode |-> state.mode]]
        /\ label' = IF state.mode = "rw"
                    THEN [label EXCEPT ![g] = Written(FALSE)]
                    ELSE label
  BY DEF ZpoolImport, Selectable, Matches, Candidates
<1>2. [guid |-> g, mode |-> state.mode] \in Opening
  BY DEF SavedState, Opening
<1>. QED
  BY <1>1, <1>2, WrittenTypes DEF TypeOK

\* So does an export.
LEMMA ExportTypes ==
  ASSUME TypeOK, NEW n \in PoolNames, imported[n] # None
  PROVE  LabelExported(n) \in [Guids -> Label]
<1>1. imported[n].guid \in Guids
  BY DEF TypeOK, Opening
<1>. QED
  BY <1>1, WrittenTypes DEF TypeOK, LabelExported

-----------------------------------------------------------------------------
\* Every variable keeps its type (TypeOK), step by step.
LEMMA TypeStep ==
  ASSUME TypeOK, ControlInv, [Next \/ Kill]_vars
  PROVE  TypeOK'
<1>0. USE ConstantTypes DEF TypeOK, ControlInv, Goto, Finish, Fail, Fs, memory, disks, ram,
                            control, vars, SavedPcs, FsPcs, MountedPcs, LockPcs
<1>1. ASSUME NEW h \in Hosts, NEW m \in Modes,
             UnlockFresh(h, m) \/ UnlockAgain(h, m) \/ UnlockOther(h, m)
      PROVE  TypeOK'
  BY <1>1 DEF UnlockFresh, UnlockAgain, UnlockOther
<1>2. CASE LockCommand
  BY <1>2 DEF LockCommand
<1>3. CASE SaveFirst
  <2>1. [host |-> goal.host, mode |-> goal.mode, hostid |-> None, identity |-> "locked",
         pools |-> <<>>, luks |-> <<>>] \in SavedState
    BY <1>3 DEF SaveFirst, SavedState, Identities
  <2>2. /\ state' \in SavedState \cup {Blank, None} /\ file' \in SavedState \cup {Blank, None}
        /\ saves' \in {"good", "behind", "lost"}
    BY <1>3, <2>1, MemoryTypes DEF SaveFirst
  <2>. QED
    BY <1>3, <2>2 DEF SaveFirst
<1>4. CASE SaveHostId
  <2>1. state \in SavedState
    BY <1>4 DEF SaveHostId
  <2>2. /\ state' \in SavedState \cup {Blank, None} /\ file' \in SavedState \cup {Blank, None}
        /\ saves' \in {"good", "behind", "lost"}
    <3>1. [state EXCEPT !.hostid = spl] \in SavedState
      BY <2>1, SavedStateUpdate
    <3>. QED
      BY <1>4, <3>1, MemoryTypes DEF SaveHostId
  <2>. QED
    BY <1>4, <2>2 DEF SaveHostId
<1>5. CASE AdoptHostId
  <2>1. state \in SavedState
    BY <1>5 DEF AdoptHostId
  <2>2. state.host \in Hosts /\ HostId[state.host] # None
    BY <1>5, <2>1 DEF AdoptHostId, NeedsHostId, SavedState
  <2>. QED
    BY <1>5, <2>2 DEF AdoptHostId
<1>6. CASE ImportFs
  <2>1. state \in SavedState
    BY <1>6 DEF ImportFs, AtFs
  <2>2. Fs.src \in PoolNames
    BY <1>6, <2>1, EntryTypes DEF ImportFs, AtFs
  <2>3. imported' \in [PoolNames -> Opening \cup {None}] /\ label' \in [Guids -> Label]
    BY <1>6, <2>1, <2>2, ImportTypes DEF ImportFs
  <2>. QED
    BY <1>6, <2>3 DEF ImportFs, AtFs
<1>7. CASE RecordImport
  <2>1. state \in SavedState
    BY <1>7 DEF RecordImport, RecordPool
  <2>2. CASE pc = "record"
    <3>1. Fs.src \in PoolNames
      BY <1>7, <2>1, <2>2, EntryTypes DEF RecordImport, RecordPool
    <3>2. [state EXCEPT !.pools = Append(@, Fs.src)] \in SavedState
      BY <2>1, <3>1, SavedStateUpdate
    <3>3. /\ state' \in SavedState \cup {Blank, None} /\ file' \in SavedState \cup {Blank, None}
          /\ saves' \in {"good", "behind", "lost"}
      BY <1>7, <2>2, <3>2, MemoryTypes DEF RecordImport, RecordPool
    <3>. QED
      BY <1>7, <2>2, <3>3 DEF RecordImport, RecordPool
  <2>3. CASE pc = "recordExtra"
    <3>1. ExtraPools[state.host][i] \in PoolNames
      BY <1>7, <2>1, <2>3, EntryTypes DEF RecordImport, RecordPool
    <3>2. [state EXCEPT !.pools = Append(@, ExtraPools[state.host][i])] \in SavedState
      BY <2>1, <3>1, SavedStateUpdate
    <3>3. /\ state' \in SavedState \cup {Blank, None} /\ file' \in SavedState \cup {Blank, None}
          /\ saves' \in {"good", "behind", "lost"}
      BY <1>7, <2>3, <3>2, MemoryTypes DEF RecordImport, RecordPool
    <3>. QED
      BY <1>7, <2>3, <3>3 DEF RecordImport, RecordPool
  <2>. QED
    BY <1>7, <2>2, <2>3 DEF RecordImport, RecordPool
<1>8. CASE LoadKey
  BY <1>8 DEF LoadKey
<1>9. CASE OpenLuks
  <2>1. state \in SavedState
    BY <1>9 DEF OpenLuks, AtFs
  <2>2. Fs.src \in LuksNames /\ state.mode \in Modes
    BY <1>9, <2>1, EntryTypes DEF OpenLuks, AtFs, SavedState
  <2>3. opened' \in [LuksNames -> Modes \cup {None}]
    BY <1>9, <2>2 DEF OpenLuks
  <2>. QED
    BY <1>9, <2>3 DEF OpenLuks, AtFs
<1>10. CASE RecordLuks
  <2>1. state \in SavedState
    BY <1>10 DEF RecordLuks
  <2>2. Fs.src \in LuksNames
    BY <1>10, <2>1, EntryTypes DEF RecordLuks, FsPcs
  <2>3. [state EXCEPT !.luks = Append(@, Fs.src)] \in SavedState
    BY <2>1, <2>2, SavedStateUpdate
  <2>4. /\ state' \in SavedState \cup {Blank, None} /\ file' \in SavedState \cup {Blank, None}
        /\ saves' \in {"good", "behind", "lost"}
    BY <1>10, <2>3, MemoryTypes DEF RecordLuks
  <2>. QED
    BY <1>10, <2>4 DEF RecordLuks
<1>11. CASE ResolvePartition
  BY <1>11 DEF ResolvePartition, AtFs
<1>12. CASE Mount
  <2>1. state \in SavedState
    BY <1>12 DEF Mount
  <2>2. Fs.point \in Mounts
    BY <1>12, <2>1, EntryTypes DEF Mount, FsPcs, FS, Mounts
  <2>. QED
    BY <1>12, <2>2 DEF Mount, MountAt
<1>13. CASE MountLower
  BY <1>13 DEF MountLower, MountAt, Mounts
<1>14. CASE MountUpper
  BY <1>14 DEF MountUpper, MountAt, Mounts
<1>15. CASE MountOverlay
  BY <1>15 DEF MountOverlay, MountAt, Mounts
<1>16. CASE ImportExtra
  <2>1. state \in SavedState
    BY <1>16 DEF ImportExtra, AtExtra
  <2>2. ExtraPools[state.host][i] \in PoolNames
    BY <1>16, <2>1, EntryTypes, ConstantTypes DEF ImportExtra, AtExtra, SavedState
  <2>3. imported' \in [PoolNames -> Opening \cup {None}] /\ label' \in [Guids -> Label]
    BY <1>16, <2>1, <2>2, ImportTypes DEF ImportExtra
  <2>. QED
    BY <1>16, <2>3 DEF ImportExtra, AtExtra
<1>17. CASE MountDatasets
  BY <1>17 DEF MountDatasets, Mounts
<1>18. CASE BindPersistence
  BY <1>18 DEF BindPersistence, Mounts
<1>19. CASE CheckIdentity
  <2>1. state \in SavedState
    BY <1>19 DEF CheckIdentity
  <2>2. keyLink' \in BOOLEAN
    BY <1>19, Zenon DEF CheckIdentity
  <2>3. UNCHANGED memory \/ \E what \in Identities : Saved([state EXCEPT !.identity = what])
    BY <1>19 DEF CheckIdentity, SaveIdentity, Identities
  <2>4. /\ state' \in SavedState \cup {Blank, None} /\ file' \in SavedState \cup {Blank, None}
        /\ saves' \in {"good", "behind", "lost"}
    BY <2>1, <2>3, SavedStateUpdate, MemoryTypes
  <2>5. /\ pc' \in {"load", "idle", "sops"} /\ i' = 1
        /\ cmd' \in {cmd, "rollback", "none"} /\ goal' \in {goal, None}
        /\ result' \in {result, "unlocked"}
    BY <1>19 DEF CheckIdentity
  <2>6. UNCHANGED <<spl, disks, secrets>>
    BY <1>19 DEF CheckIdentity
  <2>. QED
    BY <2>2, <2>4, <2>5, <2>6
<1>20. CASE DecryptSecrets
  <2>1. secrets' \in BOOLEAN
    BY <1>20, Zenon DEF DecryptSecrets
  <2>2. pc' \in {"decrypted", "failed"} /\ i' = 1
    BY <1>20, Zenon DEF DecryptSecrets
  <2>3. UNCHANGED <<memory, spl, disks, keyLink, cmd, goal, result>>
    BY <1>20, Zenon DEF DecryptSecrets
  <2>. QED
    BY <2>1, <2>2, <2>3
<1>21. CASE SaveDecrypted
  <2>1. state \in SavedState
    BY <1>21 DEF SaveDecrypted
  <2>2. \E what \in Identities : Saved([state EXCEPT !.identity = what]) \/ UNCHANGED memory
    BY <1>21 DEF SaveDecrypted, SaveIdentity, Identities
  <2>3. /\ state' \in SavedState \cup {Blank, None} /\ file' \in SavedState \cup {Blank, None}
        /\ saves' \in {"good", "behind", "lost"}
    BY <2>1, <2>2, SavedStateUpdate, MemoryTypes
  <2>. QED
    BY <1>21, <2>3 DEF SaveDecrypted
<1>22. CASE WipeSecrets
  <2>1. secrets' \in BOOLEAN
    BY <1>22, Zenon DEF WipeSecrets
  <2>. QED
    BY <1>22, <2>1 DEF WipeSecrets
<1>23. CASE UnlinkKey
  <2>1. keyLink' \in BOOLEAN
    BY <1>23, Zenon DEF UnlinkKey
  <2>. QED
    BY <1>23, <2>1 DEF UnlinkKey
<1>24. CASE UmountRoot
  BY <1>24 DEF UmountRoot
<1>25. CASE UmountLower
  BY <1>25 DEF UmountLower, UmountLayer
<1>26. CASE UmountUpper
  BY <1>26 DEF UmountUpper, UmountLayer
<1>27. CASE ExportPool
  <2>1. state.pools \in Seq(PoolNames)
    BY <1>27, LoadedTypes DEF ExportPool
  <2>2. state.pools[i] \in PoolNames
    BY <1>27, <2>1 DEF ExportPool
  <2>3. imported' \in [PoolNames -> Opening \cup {None}] /\ label' \in [Guids -> Label]
    BY <1>27, <2>2, ExportTypes DEF ExportPool
  <2>. QED
    BY <1>27, <2>3 DEF ExportPool
<1>28. CASE CloseLuks
  <2>1. state.luks \in Seq(LuksNames)
    BY <1>28, LoadedTypes DEF CloseLuks
  <2>2. state.luks[i] \in LuksNames
    BY <1>28, <2>1 DEF CloseLuks
  <2>3. opened' \in {opened, [opened EXCEPT ![state.luks[i]] = None]}
    BY <1>28 DEF CloseLuks
  <2>4. opened' \in [LuksNames -> Modes \cup {None}]
    BY <2>2, <2>3
  <2>5. i' \in Nat
    BY <1>28 DEF CloseLuks
  <2>. QED
    BY <1>28, <2>4, <2>5 DEF CloseLuks
<1>29. CASE RestoreHostId
  <2>1. state.hostid \in {None} \cup Ids
    BY <1>29, LoadedTypes DEF RestoreHostId
  <2>. QED
    BY <1>29, <2>1 DEF RestoreHostId
<1>30. CASE RemoveState
  BY <1>30 DEF RemoveState
<1>31. CASE LoopDone
  BY <1>31, LoadedTypes DEF LoopDone
<1>32. CASE PowerLoss
  BY <1>32 DEF PowerLoss
<1>33. CASE Kill \/ Load
  <2>1. /\ state' \in SavedState \cup {Blank, None} /\ file' \in SavedState \cup {Blank, None}
        /\ saves' \in {"good", "behind", "lost"}
    BY <1>33, MemoryTypes DEF Kill, Load
  <2>. QED
    BY <1>33, <2>1 DEF Kill, Load
<1>34. ASSUME NEW n \in PoolNames, SyncLabel(n)
      PROVE  TypeOK'
  <2>1. imported[n].guid \in Guids
    BY <1>34 DEF SyncLabel, Opening
  <2>2. label' \in [Guids -> Label]
    BY <1>34, <2>1, WrittenTypes DEF SyncLabel
  <2>3. UNCHANGED <<memory, spl, imported, opened, mounted, ram, control>>
    BY <1>34 DEF SyncLabel
  <2>. QED
    BY <2>2, <2>3
<1>35. CASE UNCHANGED vars
  BY <1>35
<1>. QED
  BY <1>1, <1>2, <1>3, <1>4, <1>5, <1>6, <1>7, <1>8, <1>9, <1>10, <1>11, <1>12, <1>13, <1>14, <1>15, <1>16, <1>17, <1>18, <1>19, <1>20, <1>21, <1>22, <1>23, <1>24, <1>25, <1>26, <1>27, <1>28, <1>29, <1>30, <1>31, <1>32, <1>33, <1>34, <1>35 DEF Next, Command, Step, UnlockStep, LockStep, Environment

-----------------------------------------------------------------------------
\* save_state in the middle of a command changes one field of the file.
LEMMA SaveKeeps ==
  ASSUME TypeOK, ControlInv,
         SaveHostId \/ RecordImport \/ RecordLuks \/ CheckIdentity \/ SaveDecrypted
  PROVE  /\ state \in SavedState /\ state' \in SavedState
         /\ state'.host = state.host /\ state'.mode = state.mode
         /\ ~SaveHostId => state'.hostid = state.hostid
         /\ SaveHostId => state'.hostid \in {state.hostid, spl}
         /\ ~RecordImport => state'.pools = state.pools
         /\ ~RecordLuks => state'.luks = state.luks
<1>1. state \in SavedState
  BY DEF ControlInv, SavedPcs, FsPcs, MountedPcs, SaveHostId, RecordImport, RecordPool,
         RecordLuks, CheckIdentity, SaveDecrypted
<1>2. CASE SaveHostId
  <2>1. state' = state \/ state' = [state EXCEPT !.hostid = spl]
    BY <1>2 DEF SaveHostId, Saved, memory
  <2>2. pc = "saveHostId"
    BY <1>2 DEF SaveHostId
  <2>. QED
    BY <1>1, <1>2, <2>1, <2>2, SavedStateUpdate
       DEF TypeOK, SavedState, RecordImport, RecordPool, RecordLuks, CheckIdentity, SaveDecrypted
<1>3. CASE RecordImport
  <2>1. \E n \in PoolNames : state' = [state EXCEPT !.pools = Append(@, n)]
    BY <1>1, <1>3, EntryTypes DEF RecordImport, RecordPool, Saved, ControlInv, FsPcs
  <2>2. PICK n \in PoolNames : state' = [state EXCEPT !.pools = Append(@, n)]
    BY <2>1
  <2>3. state' \in SavedState
    BY <1>1, <2>2, SavedStateUpdate
  <2>4. ~SaveHostId
    BY <1>3 DEF RecordImport, RecordPool, SaveHostId
  <2>. QED
    BY <1>1, <1>3, <2>2, <2>3, <2>4 DEF SavedState
<1>4. CASE RecordLuks
  <2>1. state' = [state EXCEPT !.luks = Append(@, Fs.src)] /\ Fs.src \in LuksNames
    BY <1>1, <1>4, EntryTypes DEF RecordLuks, Saved, ControlInv, FsPcs
  <2>2. state' \in SavedState
    BY <1>1, <2>1, SavedStateUpdate
  <2>3. ~SaveHostId
    BY <1>4 DEF RecordLuks, SaveHostId
  <2>. QED
    BY <1>1, <1>4, <2>1, <2>2, <2>3 DEF SavedState
<1>5. CASE CheckIdentity \/ SaveDecrypted
  <2>1. state' = state \/ \E what \in Identities : state' = [state EXCEPT !.identity = what]
    BY <1>5 DEF CheckIdentity, SaveDecrypted, SaveIdentity, Saved, memory, Identities
  <2>2. state' \in SavedState
    BY <1>1, <2>1, SavedStateUpdate
  <2>3. ~SaveHostId
    BY <1>5 DEF CheckIdentity, SaveDecrypted, SaveHostId
  <2>. QED
    BY <1>1, <2>1, <2>2, <2>3 DEF SavedState
<1>. QED
  BY <1>2, <1>3, <1>4, <1>5

-----------------------------------------------------------------------------
\* The control of the commands (ControlInv), step by step.
LEMMA ControlStep ==
  ASSUME TypeOK, ControlInv, FileInv, [Next \/ Kill]_vars
  PROVE  ControlInv'
<1>0. USE ConstantTypes DEF TypeOK, ControlInv, Goto, Finish, Fail, Fs, memory, disks, ram,
                            control, vars, SavedPcs, LockPcs, FsPcs, MountedPcs
<1>1. ASSUME NEW h \in Hosts, NEW m \in Modes,
             UnlockFresh(h, m) \/ UnlockAgain(h, m) \/ UnlockOther(h, m)
      PROVE  ControlInv'
  BY <1>1 DEF UnlockFresh, UnlockAgain, UnlockOther
<1>2. CASE LockCommand
  BY <1>2 DEF LockCommand
<1>3. CASE SaveFirst
  <2>1. CASE pc' = "load"
    BY <1>3, <2>1 DEF SaveFirst
  <2>2. CASE pc' # "load"
    <3>1. /\ state' = [host |-> goal.host, mode |-> goal.mode, hostid |-> None,
                       identity |-> "locked", pools |-> <<>>, luks |-> <<>>]
          /\ goal \in [host : Hosts, mode : Modes]
      BY <1>3, <2>2 DEF SaveFirst, Saved
    <3>2. state' \in SavedState /\ state'.host = goal.host
      BY <3>1 DEF SavedState, Identities
    <3>. QED
      BY <1>3, <2>2, <3>2 DEF SaveFirst
  <2>. QED
    BY <2>1, <2>2
<1>4. CASE SaveHostId
  <2>1. state' \in SavedState /\ state'.host = state.host
    BY <1>4, SaveKeeps, ConstantTypes
  <2>. QED
    BY <1>4, <2>1 DEF SaveHostId
<1>5. CASE AdoptHostId
  BY <1>5 DEF AdoptHostId
<1>6. CASE ImportFs
  <2>1. state \in SavedState /\ i \in 1..Len(FileSystems[state.host])
    BY <1>6 DEF ImportFs, AtFs, SavedState
  <2>2. i + 1 \in Nat
    BY <2>1
  <2>. QED
    BY <1>6, <2>1, <2>2 DEF ImportFs, AtFs
<1>7. CASE RecordImport
  <2>1. state' \in SavedState /\ state'.host = state.host
    BY <1>7, SaveKeeps, ConstantTypes
  <2>. QED
    BY <1>7, <2>1 DEF RecordImport, RecordPool
<1>8. CASE LoadKey
  BY <1>8 DEF LoadKey
<1>9. CASE OpenLuks
  <2>1. state \in SavedState /\ i \in 1..Len(FileSystems[state.host])
    BY <1>9 DEF OpenLuks, AtFs, SavedState
  <2>2. i + 1 \in Nat
    BY <2>1
  <2>. QED
    BY <1>9, <2>1, <2>2 DEF OpenLuks, AtFs
<1>10. CASE RecordLuks
  <2>1. state' \in SavedState /\ state'.host = state.host
    BY <1>10, SaveKeeps, ConstantTypes
  <2>. QED
    BY <1>10, <2>1 DEF RecordLuks
<1>11. CASE ResolvePartition
  <2>1. state \in SavedState /\ i \in 1..Len(FileSystems[state.host])
    BY <1>11 DEF ResolvePartition, AtFs, SavedState
  <2>2. i + 1 \in Nat
    BY <2>1
  <2>. QED
    BY <1>11, <2>1, <2>2 DEF ResolvePartition, AtFs
<1>12. CASE Mount
  BY <1>12 DEF Mount, MountAt
<1>13. CASE MountLower
  BY <1>13 DEF MountLower, MountAt
<1>14. CASE MountUpper
  BY <1>14 DEF MountUpper, MountAt
<1>15. CASE MountOverlay
  BY <1>15 DEF MountOverlay, MountAt
<1>16. CASE ImportExtra
  <2>1. state \in SavedState /\ i \in 1..Len(ExtraPools[state.host])
    BY <1>16 DEF ImportExtra, AtExtra, SavedState
  <2>. QED
    BY <1>16, <2>1 DEF ImportExtra, AtExtra
<1>17. CASE MountDatasets
  BY <1>17 DEF MountDatasets
<1>18. CASE BindPersistence
  BY <1>18 DEF BindPersistence
<1>19. CASE CheckIdentity
  <2>1. state' \in SavedState /\ state'.host = state.host
    BY <1>19, SaveKeeps, ConstantTypes
  <2>. QED
    BY <1>19, <2>1 DEF CheckIdentity
<1>20. CASE DecryptSecrets
  BY <1>20 DEF DecryptSecrets
<1>21. CASE SaveDecrypted
  BY <1>21 DEF SaveDecrypted
<1>22. CASE WipeSecrets
  BY <1>22 DEF WipeSecrets
<1>23. CASE UnlinkKey
  BY <1>23 DEF UnlinkKey
<1>24. CASE UmountRoot
  BY <1>24 DEF UmountRoot
<1>25. CASE UmountLower
  BY <1>25 DEF UmountLower, UmountLayer
<1>26. CASE UmountUpper
  BY <1>26 DEF UmountUpper, UmountLayer
<1>27. CASE ExportPool
  BY <1>27 DEF ExportPool
<1>28. CASE CloseLuks
  BY <1>28 DEF CloseLuks
<1>29. CASE RestoreHostId
  BY <1>29 DEF RestoreHostId
<1>30. CASE RemoveState
  BY <1>30 DEF RemoveState
<1>31. CASE LoopDone
  BY <1>31 DEF LoopDone
<1>32. CASE PowerLoss
  BY <1>32 DEF PowerLoss
<1>33. CASE Kill \/ Load
  BY <1>33 DEF Kill, Load, Forget, FileInv
<1>34. ASSUME NEW n \in PoolNames, SyncLabel(n)
      PROVE  ControlInv'
  BY <1>34 DEF SyncLabel
<1>35. CASE UNCHANGED vars
  BY <1>35
<1>. QED
  BY <1>1, <1>2, <1>3, <1>4, <1>5, <1>6, <1>7, <1>8, <1>9, <1>10, <1>11, <1>12, <1>13, <1>14, <1>15, <1>16, <1>17, <1>18, <1>19, <1>20, <1>21, <1>22, <1>23, <1>24, <1>25, <1>26, <1>27, <1>28, <1>29, <1>30, <1>31, <1>32, <1>33, <1>34, <1>35
  DEF Next, Command, Step, UnlockStep, LockStep, Environment

\* A step that leaves variables and file alone and does not leave the unlock.
LEMMA FileFrame ==
  ASSUME FileInv, UNCHANGED memory,
         pc' \in SavedPcs \cup {"load"} \/ pc \notin SavedPcs \cup {"load"}
  PROVE  FileInv'
BY DEF FileInv, memory

\* A save that succeeds, wherever the command goes on.
LEMMA FileSaved ==
  ASSUME TypeOK, FileInv, NEW rec \in SavedState, Saved(rec)
  PROVE  FileInv'
BY ConstantTypes, BlankUnsaved DEF TypeOK, FileInv, Saved

\* A save that fails in an unlock.
LEMMA FileBehind ==
  ASSUME FileInv, state' \in SavedState, file' # None, FallBehind,
         pc' \in SavedPcs \cup {"load"}
  PROVE  FileInv'
BY ConstantTypes, BlankUnsaved DEF FileInv, FallBehind

\* The variables give way to the file.
LEMMA FileForget ==
  ASSUME TypeOK, FileInv, Forget, file' = file
  PROVE  FileInv'
BY DEF TypeOK, FileInv, Forget

\* The variables and the file (FileInv), step by step.
LEMMA FileStep ==
  ASSUME TypeOK, ControlInv, FileInv, [Next \/ Kill]_vars
  PROVE  FileInv'
<1>0. USE DEF Goto, Finish, Fail, SavedPcs, FsPcs, MountedPcs
<1>1. ASSUME NEW h \in Hosts, NEW m \in Modes,
             UnlockFresh(h, m) \/ UnlockAgain(h, m) \/ UnlockOther(h, m)
      PROVE  FileInv'
  BY <1>1, FileFrame DEF UnlockFresh, UnlockAgain, UnlockOther
<1>2. CASE LockCommand
  BY <1>2, FileFrame DEF LockCommand
<1>3. CASE SaveFirst
  <2>1. CASE UNCHANGED memory /\ Fail
    BY <2>1, FileFrame
  <2>2. CASE Saved([host |-> goal.host, mode |-> goal.mode, hostid |-> None,
                    identity |-> "locked", pools |-> <<>>, luks |-> <<>>])
    <3>1. goal \in [host : Hosts, mode : Modes]
      BY <1>3 DEF SaveFirst, TypeOK, ControlInv
    <3>2. [host |-> goal.host, mode |-> goal.mode, hostid |-> None, identity |-> "locked",
           pools |-> <<>>, luks |-> <<>>] \in SavedState
      BY <3>1 DEF SavedState, Identities
    <3>. QED
      BY <2>2, <3>2, FileSaved
  <2>. QED
    BY <1>3, <2>1, <2>2 DEF SaveFirst
<1>4. CASE SaveHostId
  <2>1. CASE UNCHANGED memory /\ Fail
    BY <2>1, FileFrame
  <2>2. CASE Saved([state EXCEPT !.hostid = spl])
    <3>1. state \in SavedState /\ spl \in Ids
      BY <1>4, SaveKeeps DEF TypeOK
    <3>2. [state EXCEPT !.hostid = spl] \in SavedState
      BY <3>1, SavedStateUpdate
    <3>. QED
      BY <2>2, <3>2, FileSaved
  <2>. QED
    BY <1>4, <2>1, <2>2 DEF SaveHostId
<1>5. CASE AdoptHostId
  BY <1>5, FileFrame DEF AdoptHostId
<1>6. CASE ImportFs
  BY <1>6, FileFrame DEF ImportFs, AtFs
<1>7. CASE RecordImport
  <2>1. state \in SavedState /\ state' \in SavedState
    BY <1>7, SaveKeeps
  <2>2. file # None /\ Blank # None
    BY <2>1, ConstantTypes DEF FileInv
  <2>3. Saved(state') \/ (file' \in {file, Blank} /\ FallBehind)
    BY <1>7 DEF RecordImport, RecordPool, Saved
  <2>4. pc' \in SavedPcs \cup {"load"}
    BY <1>7 DEF RecordImport, RecordPool
  <2>. QED
    BY <2>1, <2>2, <2>3, <2>4, FileSaved, FileBehind
<1>8. CASE LoadKey
  BY <1>8, FileFrame DEF LoadKey
<1>9. CASE OpenLuks
  BY <1>9, FileFrame DEF OpenLuks, AtFs
<1>10. CASE RecordLuks
  <2>1. state \in SavedState /\ state' \in SavedState
    BY <1>10, SaveKeeps
  <2>2. file # None
    BY <2>1, ConstantTypes DEF FileInv
  <2>3. Saved(state') \/ (file' = file /\ FallBehind)
    BY <1>10 DEF RecordLuks, Saved
  <2>4. pc' \in SavedPcs \cup {"load"}
    BY <1>10 DEF RecordLuks
  <2>. QED
    BY <2>1, <2>2, <2>3, <2>4, FileSaved, FileBehind
<1>11. CASE ResolvePartition
  BY <1>11, FileFrame DEF ResolvePartition, AtFs
<1>12. CASE Mount
  BY <1>12, FileFrame DEF Mount, MountAt
<1>13. CASE MountLower
  BY <1>13, FileFrame DEF MountLower, MountAt
<1>14. CASE MountUpper
  BY <1>14, FileFrame DEF MountUpper, MountAt
<1>15. CASE MountOverlay
  BY <1>15, FileFrame DEF MountOverlay, MountAt
<1>16. CASE ImportExtra
  BY <1>16, FileFrame DEF ImportExtra, AtExtra
<1>17. CASE MountDatasets
  BY <1>17, FileFrame DEF MountDatasets
<1>18. CASE BindPersistence
  BY <1>18, FileFrame DEF BindPersistence
<1>19. CASE CheckIdentity \/ SaveDecrypted
  <2>1. state \in SavedState
    BY <1>19, SaveKeeps
  <2>2. \/ \E what \in Identities : Saved([state EXCEPT !.identity = what])
        \/ UNCHANGED memory /\ pc' \in {"sops", "load"}
    BY <1>19 DEF CheckIdentity, SaveDecrypted, SaveIdentity, Identities
  <2>. QED
    BY <2>1, <2>2, SavedStateUpdate, FileSaved, FileFrame
<1>20. CASE DecryptSecrets
  BY <1>20, FileFrame DEF DecryptSecrets
<1>22. CASE WipeSecrets
  BY <1>22, FileFrame DEF WipeSecrets
<1>23. CASE UnlinkKey
  BY <1>23, FileFrame DEF UnlinkKey
<1>24. CASE UmountRoot
  BY <1>24, FileFrame DEF UmountRoot
<1>25. CASE UmountLower
  BY <1>25, FileFrame DEF UmountLower, UmountLayer
<1>26. CASE UmountUpper
  BY <1>26, FileFrame DEF UmountUpper, UmountLayer
<1>27. CASE ExportPool
  BY <1>27, FileFrame DEF ExportPool
<1>28. CASE CloseLuks
  BY <1>28, FileFrame DEF CloseLuks
<1>29. CASE RestoreHostId
  BY <1>29, FileFrame DEF RestoreHostId
<1>30. CASE RemoveState
  BY <1>30, ConstantTypes DEF RemoveState, FileInv
<1>31. CASE LoopDone
  BY <1>31, FileFrame DEF LoopDone
<1>32. CASE PowerLoss
  BY <1>32, ConstantTypes DEF PowerLoss, TypeOK, FileInv
<1>33. CASE Kill \/ Load
  BY <1>33, FileForget DEF Kill, Load
<1>34. ASSUME NEW n \in PoolNames, SyncLabel(n)
      PROVE  FileInv'
  BY <1>34, FileFrame DEF SyncLabel, control
<1>35. CASE UNCHANGED vars
  BY <1>35, FileFrame DEF vars, control
<1>. QED
  BY <1>1, <1>2, <1>3, <1>4, <1>5, <1>6, <1>7, <1>8, <1>9, <1>10, <1>11, <1>12, <1>13, <1>14, <1>15, <1>16, <1>17, <1>18, <1>19, <1>20, <1>22, <1>23, <1>24, <1>25, <1>26, <1>27, <1>28, <1>29, <1>30, <1>31, <1>32, <1>33, <1>34, <1>35
  DEF Next, Command, Step, UnlockStep, LockStep, Environment

\* The image's own host id (HostIdInv), step by step.
LEMMA HostIdStep ==
  ASSUME TypeOK, ControlInv, FileInv, HostIdInv, [Next \/ Kill]_vars
  PROVE  HostIdInv'
<1>0. USE ConstantTypes DEF TypeOK, HostIdInv, Goto, Finish, Fail, memory, disks, ram, control,
                            vars
<1>1. ASSUME NEW h \in Hosts, NEW m \in Modes,
             UnlockFresh(h, m) \/ UnlockAgain(h, m) \/ UnlockOther(h, m)
      PROVE  HostIdInv'
  BY <1>1 DEF UnlockFresh, UnlockAgain, UnlockOther
<1>2. CASE LockCommand
  BY <1>2 DEF LockCommand
<1>3. CASE SaveFirst
  <2>1. state = None
    BY <1>3 DEF SaveFirst, ControlInv
  <2>. QED
    BY <1>3, <2>1 DEF SaveFirst, Saved
<1>4. CASE SaveHostId
  <2>1. state # None /\ state' # None /\ state'.hostid \in {state.hostid, spl}
    BY <1>4, SaveKeeps
  <2>2. pc' = "adopt" => state'.hostid = spl
    BY <1>4, SaveKeeps DEF SaveHostId, Saved, SavedState
  <2>3. saves' # "lost" => saves # "lost"
    BY <1>4 DEF SaveHostId, Saved
  <2>. QED
    BY <1>4, <2>1, <2>2, <2>3 DEF SaveHostId
<1>5. CASE AdoptHostId
  BY <1>5 DEF AdoptHostId, ControlInv, SavedPcs
<1>6. CASE ImportFs
  BY <1>6 DEF ImportFs
<1>7. CASE RecordImport
  <2>1. state # None /\ state' # None /\ state'.hostid = state.hostid
    BY <1>7, SaveKeeps DEF SaveHostId, RecordImport, RecordPool
  <2>2. saves' # "lost" => saves # "lost"
    BY <1>7 DEF RecordImport, RecordPool, Saved, FallBehind
  <2>. QED
    BY <1>7, <2>1, <2>2 DEF RecordImport, RecordPool
<1>8. CASE LoadKey
  BY <1>8 DEF LoadKey
<1>9. CASE OpenLuks
  BY <1>9 DEF OpenLuks
<1>10. CASE RecordLuks
  <2>1. state # None /\ state' # None /\ state'.hostid = state.hostid
    BY <1>10, SaveKeeps DEF SaveHostId, RecordLuks
  <2>2. saves' # "lost" => saves # "lost"
    BY <1>10 DEF RecordLuks, Saved, FallBehind
  <2>. QED
    BY <1>10, <2>1, <2>2 DEF RecordLuks
<1>11. CASE ResolvePartition
  BY <1>11 DEF ResolvePartition
<1>12. CASE Mount
  BY <1>12 DEF Mount, MountAt
<1>13. CASE MountLower
  BY <1>13 DEF MountLower, MountAt
<1>14. CASE MountUpper
  BY <1>14 DEF MountUpper, MountAt
<1>15. CASE MountOverlay
  BY <1>15 DEF MountOverlay, MountAt
<1>16. CASE ImportExtra
  BY <1>16 DEF ImportExtra
<1>17. CASE MountDatasets
  BY <1>17 DEF MountDatasets
<1>18. CASE BindPersistence
  BY <1>18 DEF BindPersistence
<1>19. CASE CheckIdentity
  <2>1. state # None /\ state' # None /\ state'.hostid = state.hostid
    BY <1>19, SaveKeeps DEF SaveHostId, CheckIdentity
  <2>2. saves' # "lost" => saves # "lost"
    BY <1>19 DEF CheckIdentity, SaveIdentity, Saved
  <2>. QED
    BY <1>19, <2>1, <2>2 DEF CheckIdentity
<1>20. CASE DecryptSecrets
  BY <1>20 DEF DecryptSecrets
<1>21. CASE SaveDecrypted
  <2>1. state # None /\ state' # None /\ state'.hostid = state.hostid
    BY <1>21, SaveKeeps DEF SaveHostId, SaveDecrypted
  <2>2. saves' # "lost" => saves # "lost"
    BY <1>21 DEF SaveDecrypted, SaveIdentity, Saved
  <2>. QED
    BY <1>21, <2>1, <2>2 DEF SaveDecrypted
<1>22. CASE WipeSecrets
  BY <1>22 DEF WipeSecrets
<1>23. CASE UnlinkKey
  BY <1>23 DEF UnlinkKey
<1>24. CASE UmountRoot
  BY <1>24 DEF UmountRoot
<1>25. CASE UmountLower
  BY <1>25 DEF UmountLower, UmountLayer
<1>26. CASE UmountUpper
  BY <1>26 DEF UmountUpper, UmountLayer
<1>27. CASE ExportPool
  BY <1>27 DEF ExportPool
<1>28. CASE CloseLuks
  BY <1>28 DEF CloseLuks
<1>29. CASE RestoreHostId
  BY <1>29 DEF RestoreHostId, ControlInv, LockPcs
<1>30. CASE RemoveState
  BY <1>30 DEF RemoveState
<1>31. CASE LoopDone
  BY <1>31 DEF LoopDone
<1>32. CASE PowerLoss
  BY <1>32 DEF PowerLoss
<1>33. CASE Kill \/ Load
  <2>1. saves' # "lost" => saves # "lost" /\ state' = state
    BY <1>33 DEF Kill, Load, Forget, FileInv
  <2>. QED
    BY <1>33, <2>1 DEF Kill, Load
<1>34. ASSUME NEW n \in PoolNames, SyncLabel(n)
      PROVE  HostIdInv'
  BY <1>34 DEF SyncLabel
<1>35. CASE UNCHANGED vars
  BY <1>35
<1>. QED
  BY <1>1, <1>2, <1>3, <1>4, <1>5, <1>6, <1>7, <1>8, <1>9, <1>10, <1>11, <1>12, <1>13, <1>14, <1>15, <1>16, <1>17, <1>18, <1>19, <1>20, <1>21, <1>22, <1>23, <1>24, <1>25, <1>26, <1>27, <1>28, <1>29, <1>30, <1>31, <1>32, <1>33, <1>34, <1>35
  DEF Next, Command, Step, UnlockStep, LockStep, Environment

\* The mounts and the secrets (MountInv), step by step.
LEMMA MountStep ==
  ASSUME TypeOK, ControlInv, FileInv, MountInv, [Next \/ Kill]_vars
  PROVE  MountInv'
<1>0. USE ConstantTypes DEF TypeOK, ControlInv, MountInv, Goto, Finish, Fail, memory, disks,
                            ram, control, vars, SavedPcs, LockPcs, FsPcs, MountedPcs
<1>1. ASSUME NEW h \in Hosts, NEW m \in Modes,
             UnlockFresh(h, m) \/ UnlockAgain(h, m) \/ UnlockOther(h, m)
      PROVE  MountInv'
  BY <1>1 DEF UnlockFresh, UnlockAgain, UnlockOther
<1>2. CASE LockCommand
  BY <1>2 DEF LockCommand
<1>3. CASE SaveFirst
  BY <1>3 DEF SaveFirst, Saved
<1>4. CASE SaveHostId
  <2>1. state # None /\ state' # None
    BY <1>4, SaveKeeps
  <2>. QED
    BY <1>4, <2>1 DEF SaveHostId
<1>5. CASE AdoptHostId
  BY <1>5 DEF AdoptHostId
<1>6. CASE ImportFs
  BY <1>6 DEF ImportFs, AtFs
<1>7. CASE RecordImport
  <2>1. state # None /\ state' # None
    BY <1>7, SaveKeeps
  <2>. QED
    BY <1>7, <2>1 DEF RecordImport, RecordPool
<1>8. CASE LoadKey
  BY <1>8 DEF LoadKey
<1>9. CASE OpenLuks
  BY <1>9 DEF OpenLuks, AtFs
<1>10. CASE RecordLuks
  <2>1. state # None /\ state' # None
    BY <1>10, SaveKeeps
  <2>. QED
    BY <1>10, <2>1 DEF RecordLuks
<1>11. CASE ResolvePartition
  <2>1. state.host \in Hosts
    BY <1>11 DEF ResolvePartition, AtFs, SavedState
  <2>2. Fs = FileSystems[state.host][1] => Fs.point = Root /\ ~Fs.nofail
    BY <2>1, RootFirst
  <2>3. i = 1 => Fs.point = Root /\ ~Fs.nofail
    BY <2>2 DEF Fs
  <2>. QED
    BY <1>11, <2>3 DEF ResolvePartition, AtFs
<1>12. CASE Mount
  <2>1. state.host \in Hosts
    BY <1>12 DEF Mount, AtFs, SavedState
  <2>2. Fs = FileSystems[state.host][1] => Fs.point = Root /\ ~Fs.nofail
    BY <2>1, RootFirst
  <2>3. i = 1 => Fs.point = Root /\ ~Fs.nofail
    BY <2>2 DEF Fs
  <2>. QED
    BY <1>12, <2>3 DEF Mount, MountAt
<1>13. CASE MountLower
  BY <1>13 DEF MountLower, MountAt
<1>14. CASE MountUpper
  BY <1>14 DEF MountUpper, MountAt
<1>15. CASE MountOverlay
  BY <1>15 DEF MountOverlay, MountAt
<1>16. CASE ImportExtra
  BY <1>16 DEF ImportExtra, AtExtra
<1>17. CASE MountDatasets
  BY <1>17 DEF MountDatasets
<1>18. CASE BindPersistence
  BY <1>18 DEF BindPersistence
<1>19. CASE CheckIdentity
  <2>1. state # None /\ state' # None
    BY <1>19, SaveKeeps
  <2>. QED
    BY <1>19, <2>1 DEF CheckIdentity
<1>20. CASE DecryptSecrets
  BY <1>20 DEF DecryptSecrets
<1>21. CASE SaveDecrypted
  <2>1. state # None /\ state' # None
    BY <1>21, SaveKeeps
  <2>. QED
    BY <1>21, <2>1 DEF SaveDecrypted
<1>22. CASE WipeSecrets
  BY <1>22 DEF WipeSecrets
<1>23. CASE UnlinkKey
  BY <1>23 DEF UnlinkKey
<1>24. CASE UmountRoot
  BY <1>24 DEF UmountRoot, BelowRoot
<1>25. CASE UmountLower
  BY <1>25 DEF UmountLower, UmountLayer
<1>26. CASE UmountUpper
  BY <1>26 DEF UmountUpper, UmountLayer
<1>27. CASE ExportPool
  BY <1>27 DEF ExportPool
<1>28. CASE CloseLuks
  BY <1>28 DEF CloseLuks
<1>29. CASE RestoreHostId
  BY <1>29 DEF RestoreHostId
<1>30. CASE RemoveState
  BY <1>30 DEF RemoveState
<1>31. CASE LoopDone
  <2>1. pc = "fs" => state.host \in Hosts
    BY <1>31 DEF SavedState
  <2>2. pc = "fs" => Len(FileSystems[state.host]) > 0 /\ Len(FileSystems[state.host]) \in Nat
    BY <2>1, RootFirst
  <2>. QED
    BY <1>31, <2>2 DEF LoopDone
<1>32. CASE PowerLoss
  BY <1>32 DEF PowerLoss
<1>33. CASE Kill \/ Load
  BY <1>33 DEF Kill, Load, Forget, FileInv
<1>34. ASSUME NEW n \in PoolNames, SyncLabel(n)
      PROVE  MountInv'
  BY <1>34 DEF SyncLabel
<1>35. CASE UNCHANGED vars
  BY <1>35
<1>. QED
  BY <1>1, <1>2, <1>3, <1>4, <1>5, <1>6, <1>7, <1>8, <1>9, <1>10, <1>11, <1>12, <1>13, <1>14, <1>15, <1>16, <1>17, <1>18, <1>19, <1>20, <1>21, <1>22, <1>23, <1>24, <1>25, <1>26, <1>27, <1>28, <1>29, <1>30, <1>31, <1>32, <1>33, <1>34, <1>35
  DEF Next, Command, Step, UnlockStep, LockStep, Environment

-----------------------------------------------------------------------------
\* Type correctness, the control, the state file, the host id and the mounts
\* (CoreInv) hold in every reachable state, also of commands that are killed.
THEOREM CoreInvariance == KillSpec => []CoreInv
<1>1. Init => TypeOK
  <2>1. Init => label \in [Guids -> Label] /\ spl \in Ids
    BY ConstantTypes DEF Init
  <2>2. Init => /\ imported \in [PoolNames -> Opening \cup {None}]
                /\ opened \in [LuksNames -> Modes \cup {None}]
    BY DEF Init
  <2>3. Init => mounted \subseteq Mounts /\ secrets \in BOOLEAN /\ keyLink \in BOOLEAN
    BY DEF Init
  <2>. QED
    BY <2>1, <2>2, <2>3 DEF Init, TypeOK
<1>2. Init => ControlInv
  BY DEF Init, ControlInv, SavedPcs, LockPcs, FsPcs, MountedPcs
<1>3. Init => FileInv /\ HostIdInv /\ MountInv
  BY ConstantTypes DEF Init, FileInv, HostIdInv, MountInv, LockPcs, FsPcs, MountedPcs
<1>4. Init => CoreInv
  BY <1>1, <1>2, <1>3 DEF CoreInv
<1>5. CoreInv /\ [Next \/ Kill]_vars => CoreInv'
  BY TypeStep, ControlStep, FileStep, HostIdStep, MountStep DEF CoreInv
<1>. QED
  BY <1>4, <1>5, PTL DEF KillSpec

\* The image's own host id is never lost (HostIdRecoverable), whatever fails
\* and wherever a command is killed.
THEOREM HostIdAlwaysRecoverable == KillSpec => []HostIdRecoverable
<1>1. CoreInv => HostIdRecoverable
  BY DEF CoreInv, FileInv, HostIdInv, HostIdRecoverable
<1>. QED
  BY <1>1, CoreInvariance, PTL

\* Decrypted secrets exist only over the mounted root of a recorded session
\* (SecretsOnlyWhileUnlocked), whatever fails and wherever a command is killed.
THEOREM SecretsNeedUnlock == KillSpec => []SecretsOnlyWhileUnlocked
<1>1. CoreInv => SecretsOnlyWhileUnlocked
  BY DEF CoreInv, FileInv, MountInv, SecretsOnlyWhileUnlocked
<1>. QED
  BY <1>1, CoreInvariance, PTL

\* A specification without kills is a special case.
LEMMA NoKill == Spec => KillSpec
<1>1. [Next]_vars => [Next \/ Kill]_vars
  OBVIOUS
<1>. QED
  BY <1>1, PTL DEF Spec, KillSpec

\* Every variable keeps its type (TypeOK).
THEOREM TypeCorrect == Spec => []TypeOK
<1>1. CoreInv => TypeOK
  BY DEF CoreInv
<1>. QED
  BY <1>1, NoKill, CoreInvariance, PTL

-----------------------------------------------------------------------------
\* What a lost save left out stays out, and a rollback behind saves that did not
\* fail, or were made good, loads what the variables hold.
LEMMA LostStays ==
  ASSUME TypeOK, FileInv, [Next]_vars
  PROVE  /\ saves = "lost" => saves' = "lost"
         /\ Load /\ saves' # "lost" => state' = state
<1>1. CASE \/ Command \/ SaveFirst \/ SaveHostId \/ AdoptHostId \/ RecordImport \/ RecordLuks
           \/ CheckIdentity \/ SaveDecrypted \/ Load \/ RemoveState \/ PowerLoss
  BY <1>1 DEF Command, UnlockFresh, UnlockAgain, UnlockOther, LockCommand, SaveFirst, SaveHostId,
              AdoptHostId, RecordImport, RecordPool, RecordLuks, CheckIdentity, SaveDecrypted,
              SaveIdentity, Saved, FallBehind, Load, Forget, RemoveState, PowerLoss, memory,
              TypeOK, FileInv
<1>2. CASE \/ ImportFs \/ LoadKey \/ OpenLuks \/ ResolvePartition
           \/ Mount \/ MountLower \/ MountUpper \/ MountOverlay
           \/ ImportExtra \/ MountDatasets \/ BindPersistence \/ DecryptSecrets
  <2>1. saves' = saves /\ pc # "load"
    BY <1>2 DEF ImportFs, LoadKey, OpenLuks, ResolvePartition, AtFs, Mount, MountLower,
                MountUpper, MountOverlay, MountAt, ImportExtra, AtExtra, MountDatasets,
                BindPersistence, DecryptSecrets, memory
  <2>. QED
    BY <2>1 DEF Load
<1>3. CASE \/ WipeSecrets \/ UnlinkKey \/ UmountRoot \/ UmountLower \/ UmountUpper
           \/ ExportPool \/ CloseLuks \/ RestoreHostId \/ LoopDone
  <2>1. saves' = saves /\ pc # "load"
    BY <1>3 DEF WipeSecrets, UnlinkKey, UmountRoot, UmountLower, UmountUpper, UmountLayer,
                ExportPool, CloseLuks, RestoreHostId, LoopDone, memory
  <2>. QED
    BY <2>1 DEF Load
<1>4. ASSUME \E n \in PoolNames : SyncLabel(n) PROVE UNCHANGED memory
  BY <1>4 DEF SyncLabel
<1>5. ASSUME UNCHANGED vars PROVE UNCHANGED memory
  BY <1>5 DEF vars
<1>6. CASE UNCHANGED memory
  BY <1>6 DEF memory
<1>. QED
  BY <1>1, <1>2, <1>3, <1>4, <1>5, <1>6 DEF Next, Step, UnlockStep, LockStep, Environment

-----------------------------------------------------------------------------
\* A step that leaves the pools and their record alone keeps PoolInv, outside
\* of a lock; LuksInv likewise.
LEMMA PoolFrame ==
  ASSUME PoolInv, saves # "lost", imported' = imported,
         state' = state \/ (state' # None /\ state'.pools = state.pools),
         pc # "recordExtra", pc = "record" => Fs.kind # "zfs",
         pc' \notin {"export", "close", "remove"}
  PROVE  PoolInv'
BY DEF PoolInv, HeldPools

LEMMA LuksFrame ==
  ASSUME LuksInv, saves # "lost", opened' = opened,
         state' = state \/ (state' # None /\ state'.luks = state.luks),
         pc = "record" => Fs.kind # "luks",
         pc' \notin {"export", "close", "remove"}
  PROVE  LuksInv'
BY DEF LuksInv, HeldLuks

\* What is held is recorded, without kills: the pools (PoolInv), step by step.
LEMMA PoolStep ==
  ASSUME TypeOK, ControlInv, FileInv, PoolInv, [Next]_vars
  PROVE  PoolInv'
<1>. SUFFICES ASSUME saves' # "lost" PROVE PoolInv'
  BY DEF PoolInv
<1>. saves # "lost" /\ (Load => state' = state)
  BY LostStays
<1>0. USE ConstantTypes DEF TypeOK, ControlInv, PoolInv, HeldPools, InList, Goto, Finish, Fail, Fs,
                            memory, disks, ram, control, vars, SavedPcs, LockPcs, FsPcs,
                            MountedPcs
<1>1. ASSUME NEW h \in Hosts, NEW m \in Modes,
             UnlockFresh(h, m) \/ UnlockAgain(h, m) \/ UnlockOther(h, m)
      PROVE  PoolInv'
  <2>1. pc = "idle" /\ UNCHANGED <<imported, opened, state>>
        /\ pc' \notin {"export", "close", "remove"}
    BY <1>1 DEF UnlockFresh, UnlockAgain, UnlockOther
  <2>. QED
    BY <2>1, PoolFrame
<1>2. CASE LockCommand
  BY <1>2 DEF LockCommand
<1>3. CASE SaveFirst
  BY <1>3 DEF SaveFirst, Saved
<1>4. CASE SaveHostId
  <2>1. state' # None /\ state'.pools = state.pools
    BY <1>4, SaveKeeps DEF SaveHostId, RecordImport, RecordPool, RecordLuks
  <2>2. UNCHANGED <<imported, opened>> /\ pc \notin {"record", "recordExtra"}
        /\ pc' \notin {"export", "close", "remove"}
    BY <1>4 DEF SaveHostId
  <2>. QED
    BY <2>1, <2>2, PoolFrame
<1>5. CASE AdoptHostId
  BY <1>5 DEF AdoptHostId
<1>6. CASE ImportFs
  <2>1. state # None /\ pc = "fs"
    BY <1>6 DEF ImportFs, AtFs
  <2>2. UNCHANGED state
    BY <1>6 DEF ImportFs
  <2>3. CASE imported' = imported /\ pc' \notin {"export", "close", "remove"}
    BY <2>1, <2>2, <2>3, PoolFrame
  <2>4. CASE ZpoolImport(Fs.src) /\ pc' = "record" /\ i' = i
    <3>1. \A n \in HeldPools' : n \in HeldPools \/ n = Fs.src
      BY <2>4 DEF ZpoolImport, HeldPools, TypeOK
    <3>2. Fs' = Fs /\ Fs.kind = "zfs"
      BY <1>6, <2>2, <2>4 DEF Fs, ImportFs, AtFs
    <3>. QED
      BY <2>1, <2>2, <2>4, <3>1, <3>2 DEF PoolInv
  <2>. QED
    BY <1>6, <2>3, <2>4 DEF ImportFs, Goto, Fail, disks
<1>7. CASE RecordImport
  <2>1. PICK n \in PoolNames :
          /\ state' = [state EXCEPT !.pools = Append(@, n)]
          /\ \/ pc = "record" /\ Fs.kind = "zfs" /\ Fs.src = n
             \/ pc = "recordExtra" /\ ExtraPools[state.host][i] = n
    BY <1>7, SaveKeeps, EntryTypes DEF RecordImport, RecordPool, Saved
  <2>2. state' # None /\ state \in SavedState
    BY <1>7, SaveKeeps, ConstantTypes
  <2>3. state'.pools = Append(state.pools, n) /\ state.pools \in Seq(PoolNames)
    BY <2>1, <2>2 DEF SavedState
  <2>4. \A x : InList(x, state.pools) => InList(x, state'.pools)
    BY <2>3 DEF InList
  <2>5. InList(n, state'.pools)
    <3>1. state'.pools[Len(state.pools) + 1] = n /\ Len(state.pools) + 1 \in 1..Len(state'.pools)
      BY <2>3
    <3>. QED
      BY <3>1 DEF InList
  <2>6. UNCHANGED imported /\ pc' \notin {"export", "close", "remove"}
    BY <1>7 DEF RecordImport, RecordPool, Goto, disks
  <2>7. \A m \in HeldPools : InList(m, state'.pools)
    BY <2>1, <2>4, <2>5 DEF PoolInv
  <2>. QED
    BY <2>2, <2>6, <2>7 DEF PoolInv
<1>8. CASE LoadKey
  BY <1>8 DEF LoadKey
<1>9. CASE OpenLuks
  <2>1. UNCHANGED <<imported, state>> /\ pc \notin {"record", "recordExtra"}
        /\ pc' \notin {"export", "close", "remove"}
    BY <1>9 DEF OpenLuks, AtFs
  <2>. QED
    BY <2>1, PoolFrame
<1>10. CASE RecordLuks
  <2>1. state' # None /\ state'.pools = state.pools
    BY <1>10, SaveKeeps DEF RecordImport, RecordPool, RecordLuks
  <2>2. UNCHANGED imported /\ pc = "record" /\ Fs.kind # "zfs" /\ pc' \in {"mount", "load"}
    BY <1>10 DEF RecordLuks
  <2>. QED
    BY <2>1, <2>2, PoolFrame
<1>11. CASE ResolvePartition
  <2>1. UNCHANGED <<imported, opened, state>> /\ pc \notin {"record", "recordExtra"}
        /\ pc' \notin {"export", "close", "remove"}
    BY <1>11 DEF ResolvePartition, AtFs
  <2>. QED
    BY <2>1, PoolFrame
<1>12. CASE Mount
  BY <1>12 DEF Mount, MountAt
<1>13. CASE MountLower
  BY <1>13 DEF MountLower, MountAt
<1>14. CASE MountUpper
  BY <1>14 DEF MountUpper, MountAt
<1>15. CASE MountOverlay
  BY <1>15 DEF MountOverlay, MountAt
<1>16. CASE ImportExtra
  <2>1. state # None /\ pc = "extra"
    BY <1>16 DEF ImportExtra, AtExtra
  <2>2. UNCHANGED state
    BY <1>16 DEF ImportExtra
  <2>3. CASE imported' = imported /\ pc' \notin {"export", "close", "remove"}
    BY <2>1, <2>2, <2>3, PoolFrame
  <2>4. CASE ZpoolImport(ExtraPools[state.host][i]) /\ pc' = "recordExtra" /\ i' = i
    <3>1. \A n \in HeldPools' : n \in HeldPools \/ n = ExtraPools[state.host][i]
      BY <2>4 DEF ZpoolImport, HeldPools, TypeOK
    <3>. QED
      BY <2>1, <2>2, <2>4, <3>1 DEF PoolInv
  <2>. QED
    BY <1>16, <2>3, <2>4 DEF ImportExtra, Goto
<1>17. CASE MountDatasets
  BY <1>17 DEF MountDatasets
<1>18. CASE BindPersistence
  BY <1>18 DEF BindPersistence
<1>19. CASE CheckIdentity
  <2>1. state' # None /\ state'.pools = state.pools
    BY <1>19, SaveKeeps DEF CheckIdentity, RecordImport, RecordPool, RecordLuks
  <2>2. UNCHANGED <<imported, opened>> /\ pc \notin {"record", "recordExtra"}
        /\ pc' \notin {"export", "close", "remove"}
    BY <1>19 DEF CheckIdentity
  <2>. QED
    BY <2>1, <2>2, PoolFrame
<1>20. CASE DecryptSecrets
  BY <1>20 DEF DecryptSecrets
<1>21. CASE SaveDecrypted
  <2>1. state' # None /\ state'.pools = state.pools
    BY <1>21, SaveKeeps DEF SaveDecrypted, RecordImport, RecordPool, RecordLuks
  <2>2. UNCHANGED <<imported, opened>> /\ pc \notin {"record", "recordExtra"}
        /\ pc' \notin {"export", "close", "remove"}
    BY <1>21 DEF SaveDecrypted
  <2>. QED
    BY <2>1, <2>2, PoolFrame
<1>22. CASE WipeSecrets
  BY <1>22 DEF WipeSecrets
<1>23. CASE UnlinkKey
  BY <1>23 DEF UnlinkKey
<1>24. CASE UmountRoot
  BY <1>24 DEF UmountRoot
<1>25. CASE UmountLower
  BY <1>25 DEF UmountLower, UmountLayer
<1>26. CASE UmountUpper
  BY <1>26 DEF UmountUpper, UmountLayer
<1>27. CASE ExportPool
  BY <1>27 DEF ExportPool
<1>28. CASE CloseLuks
  BY <1>28 DEF CloseLuks
<1>29. CASE RestoreHostId
  BY <1>29 DEF RestoreHostId
<1>30. CASE RemoveState
  BY <1>30 DEF RemoveState
<1>31. CASE LoopDone
  BY <1>31 DEF LoopDone
<1>32. CASE PowerLoss
  BY <1>32 DEF PowerLoss
<1>35. CASE Load
  BY <1>35 DEF Load
<1>33. ASSUME NEW n \in PoolNames, SyncLabel(n)
      PROVE  PoolInv'
  BY <1>33 DEF SyncLabel
<1>34. CASE UNCHANGED vars
  BY <1>34
<1>. QED
  BY <1>1, <1>2, <1>3, <1>4, <1>5, <1>6, <1>7, <1>8, <1>9, <1>10, <1>11, <1>12, <1>13, <1>14, <1>15, <1>16, <1>17, <1>18, <1>19, <1>20, <1>21, <1>22, <1>23, <1>24, <1>25, <1>26, <1>27, <1>28, <1>29, <1>30, <1>31, <1>32, <1>33, <1>34, <1>35
  DEF Next, Command, Step, UnlockStep, LockStep, Environment

\* The LUKS devices (LuksInv), step by step.
LEMMA LuksStep ==
  ASSUME TypeOK, ControlInv, FileInv, LuksInv, [Next]_vars
  PROVE  LuksInv'
<1>. SUFFICES ASSUME saves' # "lost" PROVE LuksInv'
  BY DEF LuksInv
<1>. saves # "lost" /\ (Load => state' = state)
  BY LostStays
<1>0. USE ConstantTypes DEF TypeOK, ControlInv, LuksInv, HeldLuks, InList, Goto, Finish, Fail, Fs,
                            memory, disks, ram, control, vars, SavedPcs, LockPcs, FsPcs,
                            MountedPcs
<1>1. ASSUME NEW h \in Hosts, NEW m \in Modes,
             UnlockFresh(h, m) \/ UnlockAgain(h, m) \/ UnlockOther(h, m)
      PROVE  LuksInv'
  <2>1. pc = "idle" /\ UNCHANGED <<imported, opened, state>>
        /\ pc' \notin {"export", "close", "remove"}
    BY <1>1 DEF UnlockFresh, UnlockAgain, UnlockOther
  <2>. QED
    BY <2>1, LuksFrame
<1>2. CASE LockCommand
  BY <1>2 DEF LockCommand
<1>3. CASE SaveFirst
  BY <1>3 DEF SaveFirst, Saved
<1>4. CASE SaveHostId
  <2>1. state' # None /\ state'.luks = state.luks
    BY <1>4, SaveKeeps DEF SaveHostId, RecordImport, RecordPool, RecordLuks
  <2>2. UNCHANGED <<imported, opened>> /\ pc \notin {"record", "recordExtra"}
        /\ pc' \notin {"export", "close", "remove"}
    BY <1>4 DEF SaveHostId
  <2>. QED
    BY <2>1, <2>2, LuksFrame
<1>5. CASE AdoptHostId
  BY <1>5 DEF AdoptHostId
<1>6. CASE ImportFs
  <2>1. UNCHANGED <<opened, state>> /\ pc \notin {"record", "recordExtra"}
        /\ pc' \notin {"export", "close", "remove"}
    BY <1>6 DEF ImportFs, AtFs
  <2>. QED
    BY <2>1, LuksFrame
<1>7. CASE RecordImport
  <2>1. state' # None /\ state'.luks = state.luks
    BY <1>7, SaveKeeps DEF RecordImport, RecordPool, RecordLuks
  <2>2. /\ UNCHANGED opened
        /\ pc = "recordExtra" \/ (pc = "record" /\ Fs.kind # "luks")
        /\ pc' \notin {"export", "close", "remove"}
    BY <1>7 DEF RecordImport, RecordPool
  <2>. QED
    BY <2>1, <2>2, LuksFrame
<1>8. CASE LoadKey
  BY <1>8 DEF LoadKey
<1>9. CASE OpenLuks
  <2>1. state # None /\ pc = "fs"
    BY <1>9 DEF OpenLuks, AtFs
  <2>2. UNCHANGED state
    BY <1>9 DEF OpenLuks
  <2>3. CASE opened' = opened /\ pc' \notin {"export", "close", "remove"}
    BY <2>1, <2>2, <2>3, LuksFrame
  <2>4. CASE opened' = [opened EXCEPT ![Fs.src] = state.mode] /\ pc' = "record" /\ i' = i
    <3>1. \A n \in HeldLuks' : n \in HeldLuks \/ n = Fs.src
      BY <2>4 DEF HeldLuks, TypeOK
    <3>2. Fs' = Fs /\ Fs.kind = "luks"
      BY <1>9, <2>2, <2>4 DEF Fs, OpenLuks, AtFs
    <3>. QED
      BY <2>1, <2>2, <2>4, <3>1, <3>2 DEF LuksInv
  <2>. QED
    BY <1>9, <2>3, <2>4 DEF OpenLuks, Goto, Fail
<1>10. CASE RecordLuks
  <2>1. state' # None /\ state \in SavedState /\ state' = [state EXCEPT !.luks = Append(@, Fs.src)]
    BY <1>10, SaveKeeps, ConstantTypes DEF RecordLuks, Saved
  <2>2. Fs.src \in LuksNames
    BY <1>10, <2>1, EntryTypes DEF RecordLuks, ControlInv, FsPcs
  <2>3. state'.luks = Append(state.luks, Fs.src) /\ state.luks \in Seq(LuksNames)
    BY <2>1 DEF SavedState
  <2>4. \A x : InList(x, state.luks) => InList(x, state'.luks)
    BY <2>2, <2>3 DEF InList
  <2>5. InList(Fs.src, state'.luks)
    <3>1. state'.luks[Len(state.luks) + 1] = Fs.src /\ Len(state.luks) + 1 \in 1..Len(state'.luks)
      BY <2>2, <2>3
    <3>. QED
      BY <3>1 DEF InList
  <2>6. UNCHANGED opened /\ pc = "record" /\ pc' \in {"mount", "load"}
    BY <1>10 DEF RecordLuks, Goto, disks
  <2>. QED
    BY <2>1, <2>4, <2>5, <2>6 DEF LuksInv, HeldLuks
<1>11. CASE ResolvePartition
  <2>1. UNCHANGED <<imported, opened, state>> /\ pc \notin {"record", "recordExtra"}
        /\ pc' \notin {"export", "close", "remove"}
    BY <1>11 DEF ResolvePartition, AtFs
  <2>. QED
    BY <2>1, LuksFrame
<1>12. CASE Mount
  BY <1>12 DEF Mount, MountAt
<1>13. CASE MountLower
  BY <1>13 DEF MountLower, MountAt
<1>14. CASE MountUpper
  BY <1>14 DEF MountUpper, MountAt
<1>15. CASE MountOverlay
  BY <1>15 DEF MountOverlay, MountAt
<1>16. CASE ImportExtra
  <2>1. UNCHANGED <<opened, state>> /\ pc \notin {"record", "recordExtra"}
        /\ pc' \notin {"export", "close", "remove"}
    BY <1>16 DEF ImportExtra, AtExtra
  <2>. QED
    BY <2>1, LuksFrame
<1>17. CASE MountDatasets
  BY <1>17 DEF MountDatasets
<1>18. CASE BindPersistence
  BY <1>18 DEF BindPersistence
<1>19. CASE CheckIdentity
  <2>1. state' # None /\ state'.luks = state.luks
    BY <1>19, SaveKeeps DEF CheckIdentity, RecordImport, RecordPool, RecordLuks
  <2>2. UNCHANGED <<imported, opened>> /\ pc \notin {"record", "recordExtra"}
        /\ pc' \notin {"export", "close", "remove"}
    BY <1>19 DEF CheckIdentity
  <2>. QED
    BY <2>1, <2>2, LuksFrame
<1>20. CASE DecryptSecrets
  BY <1>20 DEF DecryptSecrets
<1>21. CASE SaveDecrypted
  <2>1. state' # None /\ state'.luks = state.luks
    BY <1>21, SaveKeeps DEF SaveDecrypted, RecordImport, RecordPool, RecordLuks
  <2>2. UNCHANGED <<imported, opened>> /\ pc \notin {"record", "recordExtra"}
        /\ pc' \notin {"export", "close", "remove"}
    BY <1>21 DEF SaveDecrypted
  <2>. QED
    BY <2>1, <2>2, LuksFrame
<1>22. CASE WipeSecrets
  BY <1>22 DEF WipeSecrets
<1>23. CASE UnlinkKey
  BY <1>23 DEF UnlinkKey
<1>24. CASE UmountRoot
  BY <1>24 DEF UmountRoot
<1>25. CASE UmountLower
  BY <1>25 DEF UmountLower, UmountLayer
<1>26. CASE UmountUpper
  BY <1>26 DEF UmountUpper, UmountLayer
<1>27. CASE ExportPool
  BY <1>27 DEF ExportPool
<1>28. CASE CloseLuks
  BY <1>28 DEF CloseLuks
<1>29. CASE RestoreHostId
  BY <1>29 DEF RestoreHostId
<1>30. CASE RemoveState
  BY <1>30 DEF RemoveState
<1>31. CASE LoopDone
  BY <1>31 DEF LoopDone
<1>32. CASE PowerLoss
  BY <1>32 DEF PowerLoss
<1>35. CASE Load
  BY <1>35 DEF Load
<1>33. ASSUME NEW n \in PoolNames, SyncLabel(n)
      PROVE  LuksInv'
  BY <1>33 DEF SyncLabel
<1>34. CASE UNCHANGED vars
  BY <1>34
<1>. QED
  BY <1>1, <1>2, <1>3, <1>4, <1>5, <1>6, <1>7, <1>8, <1>9, <1>10, <1>11, <1>12, <1>13, <1>14, <1>15, <1>16, <1>17, <1>18, <1>19, <1>20, <1>21, <1>22, <1>23, <1>24, <1>25, <1>26, <1>27, <1>28, <1>29, <1>30, <1>31, <1>32, <1>33, <1>34, <1>35
  DEF Next, Command, Step, UnlockStep, LockStep, Environment

-----------------------------------------------------------------------------
\* CoreInv and RecordInv hold in every reachable state of commands that are
\* not killed.
THEOREM RecordInvariance == Spec => [](CoreInv /\ RecordInv)
<1>1. Init => RecordInv
  BY DEF Init, RecordInv, PoolInv, LuksInv, HeldPools, HeldLuks
<1>2. CoreInv /\ RecordInv /\ [Next]_vars => RecordInv'
  BY PoolStep, LuksStep DEF CoreInv, RecordInv
<1>. QED
  BY <1>1, <1>2, NoKill, CoreInvariance, PTL DEF Spec

\* A lock, a rollback and a change of target leave nothing of the host behind
\* (LockedMeansReleased), whatever failed before.
THEOREM LockReleases == Spec => []LockedMeansReleased
<1>1. CoreInv /\ RecordInv => LockedMeansReleased
  BY DEF CoreInv, FileInv, MountInv, HostIdInv, RecordInv, PoolInv, LuksInv,
         LockedMeansReleased
<1>. QED
  BY <1>1, RecordInvariance, PTL

\* Between commands every pool and device held is named by the state file
\* (LockCanUndo), whatever failed before.
THEOREM LockKnowsAll == Spec => []LockCanUndo
<1>1. CoreInv /\ RecordInv => LockCanUndo
  BY DEF CoreInv, FileInv, SavedPcs, FsPcs, MountedPcs, RecordInv, PoolInv, LuksInv,
         LockCanUndo
<1>. QED
  BY <1>1, RecordInvariance, PTL

-----------------------------------------------------------------------------
\* The host id in the labels.

UnlockPcs == {"fs"} \cup FsPcs \cup MountedPcs

\* Whoever has a pool in hand, or is about to import one, runs under the host
\* id of the installed system.
LabelInv ==
  saves # "lost" =>
    /\ LabelsKeepHostId
    /\ pc \in UnlockPcs /\ NeedsHostId(state.host) => spl # BootId
    /\ HeldPools # {} => spl # BootId

\* A host with a pool has a host id.
LEMMA PoolsNeedHostId ==
  ASSUME state \in SavedState
  PROVE  /\ i \in 1..Len(FileSystems[state.host]) /\ Fs.kind = "zfs" => NeedsHostId(state.host)
         /\ i \in 1..Len(ExtraPools[state.host]) => NeedsHostId(state.host)
<1>1. state.host \in Hosts
  BY DEF SavedState
<1>2. ExtraPools[state.host] \in Seq(PoolNames) /\ FileSystems[state.host] \in Seq(FS)
  BY <1>1, ConstantTypes
<1>3. ASSUME i \in 1..Len(FileSystems[state.host]), Fs.kind = "zfs"
      PROVE  NeedsHostId(state.host)
  BY <1>1, <1>3, OwnHostIds DEF NeedsHostId, Fs
<1>4. ASSUME i \in 1..Len(ExtraPools[state.host]) PROVE NeedsHostId(state.host)
  <2>1. Len(ExtraPools[state.host]) > 0 /\ ExtraPools[state.host] # <<>>
    BY <1>2, <1>4
  <2>. QED
    BY <1>1, <2>1, OwnHostIds DEF NeedsHostId
<1>. QED
  BY <1>3, <1>4

LEMMA LabelFrame ==
  ASSUME LabelInv, saves # "lost", UNCHANGED <<label, spl>>, HeldPools' \subseteq HeldPools,
         pc' \in UnlockPcs => pc \in UnlockPcs /\ state'.host = state.host
  PROVE  LabelInv'
BY DEF LabelInv, LabelsKeepHostId, NeedsHostId

\* An import under a host id that is not the image's.
LEMMA LabelImport ==
  ASSUME TypeOK, LabelInv, saves # "lost", state \in SavedState, NEW n \in PoolNames, ZpoolImport(n),
         UNCHANGED <<spl, state>>, spl # BootId
  PROVE  LabelInv'
<1>1. PICK g \in Guids :
        label' = IF state.mode = "rw"
                 THEN [label EXCEPT ![g] = Written(FALSE)]
                 ELSE label
  BY DEF ZpoolImport, Selectable, Matches, Candidates
<1>2. LabelsKeepHostId'
  BY <1>1 DEF TypeOK, LabelInv, LabelsKeepHostId, Written
<1>. QED
  BY <1>2 DEF LabelInv

LEMMA LabelStep ==
  ASSUME CoreInv, RecordInv, LabelInv, [Next]_vars
  PROVE  LabelInv'
<1>. SUFFICES ASSUME saves' # "lost" PROVE LabelInv'
  BY DEF LabelInv
<1>. TypeOK /\ ControlInv /\ FileInv /\ HostIdInv /\ PoolInv
  BY DEF CoreInv, RecordInv
<1>. saves # "lost"
  BY LostStays
<1>0. USE DEF Goto, Finish, Fail, memory, disks, ram, control, vars, UnlockPcs, FsPcs, MountedPcs
<1>1. CASE Command
  <2>1. UNCHANGED <<label, spl, imported>> /\ pc' \in {"save", "idle", "lockSecrets"}
    BY <1>1 DEF Command, UnlockFresh, UnlockAgain, UnlockOther, LockCommand
  <2>. QED
    BY <2>1, LabelFrame DEF HeldPools
<1>2. CASE SaveFirst
  <2>1. UNCHANGED <<label, spl, imported>>
    BY <1>2 DEF SaveFirst
  <2>2. CASE pc' = "load"
    BY <2>1, <2>2, LabelFrame DEF HeldPools
  <2>3. CASE pc' # "load"
    <3>1. /\ state'.host = goal.host
          /\ pc' = IF NeedsHostId(goal.host) THEN "saveHostId" ELSE "fs"
      BY <1>2, <2>3 DEF SaveFirst, Saved
    <3>2. NeedsHostId(state'.host) <=> NeedsHostId(goal.host)
      BY <3>1
    <3>. QED
      BY <2>1, <3>1, <3>2 DEF LabelInv, LabelsKeepHostId, HeldPools, NeedsHostId
  <2>. QED
    BY <2>2, <2>3
<1>3. CASE SaveHostId \/ SaveDecrypted \/ CheckIdentity
  <2>1. UNCHANGED <<label, spl, imported>> /\ state'.host = state.host
        /\ (pc' \in UnlockPcs => pc \in UnlockPcs)
    BY <1>3, SaveKeeps DEF SaveHostId, SaveDecrypted, CheckIdentity
  <2>. QED
    BY <2>1, LabelFrame DEF HeldPools
<1>4. CASE AdoptHostId
  <2>1. state \in SavedState /\ state.host \in Hosts
    BY <1>4 DEF AdoptHostId, ControlInv, SavedPcs, SavedState
  <2>2. CASE spl' = HostId[state.host]
    <3>1. spl' # BootId /\ label' = label
      BY <1>4, <2>1, <2>2, OwnHostIds DEF AdoptHostId
    <3>. QED
      BY <3>1 DEF LabelInv, LabelsKeepHostId
  <2>3. CASE Fail
    <3>1. UNCHANGED <<label, spl, imported>>
      BY <1>4, <2>3 DEF AdoptHostId
    <3>. QED
      BY <2>3, <3>1, LabelFrame DEF HeldPools
  <2>. QED
    BY <1>4, <2>2, <2>3 DEF AdoptHostId
<1>5. CASE ImportFs
  <2>1. /\ state \in SavedState /\ pc = "fs" /\ i \in 1..Len(FileSystems[state.host])
        /\ Fs.kind = "zfs" /\ UNCHANGED <<spl, state>>
    BY <1>5 DEF ImportFs, AtFs, TypeOK, ControlInv, SavedPcs
  <2>2. spl # BootId /\ Fs.src \in PoolNames
    BY <2>1, PoolsNeedHostId, EntryTypes DEF LabelInv
  <2>3. CASE ZpoolImport(Fs.src)
    BY <2>1, <2>2, <2>3, LabelImport
  <2>4. CASE UNCHANGED <<label, imported>>
    BY <2>1, <2>4, LabelFrame DEF HeldPools
  <2>. QED
    BY <1>5, <2>3, <2>4 DEF ImportFs
<1>6. CASE ImportExtra
  <2>1. /\ state \in SavedState /\ pc = "extra" /\ i \in 1..Len(ExtraPools[state.host])
        /\ UNCHANGED <<spl, state>>
    BY <1>6 DEF ImportExtra, AtExtra, TypeOK, ControlInv, SavedPcs
  <2>2. spl # BootId /\ ExtraPools[state.host][i] \in PoolNames
    BY <2>1, PoolsNeedHostId, EntryTypes DEF LabelInv
  <2>3. CASE ZpoolImport(ExtraPools[state.host][i])
    BY <2>1, <2>2, <2>3, LabelImport
  <2>4. CASE UNCHANGED <<label, imported>>
    BY <2>1, <2>4, LabelFrame DEF HeldPools
  <2>. QED
    BY <1>6, <2>3, <2>4 DEF ImportExtra
<1>7. CASE RecordImport \/ RecordLuks
  <2>1. UNCHANGED <<label, spl, imported>> /\ pc \in {"record", "recordExtra"}
        /\ state'.host = state.host
    BY <1>7, SaveKeeps DEF RecordImport, RecordPool, RecordLuks
  <2>. QED
    BY <2>1, LabelFrame DEF HeldPools
<1>8. CASE \/ LoadKey \/ OpenLuks \/ ResolvePartition
           \/ Mount \/ MountLower \/ MountUpper \/ MountOverlay
           \/ MountDatasets \/ BindPersistence \/ DecryptSecrets
  <2>1. UNCHANGED <<label, spl, imported, state>> /\ pc \in UnlockPcs
    BY <1>8 DEF LoadKey, OpenLuks, ResolvePartition, AtFs, Mount, MountLower, MountUpper,
                MountOverlay, MountAt, MountDatasets, BindPersistence, DecryptSecrets
  <2>. QED
    BY <2>1, LabelFrame DEF HeldPools
<1>9. CASE WipeSecrets \/ UnlinkKey \/ UmountRoot \/ UmountLower \/ UmountUpper \/ CloseLuks
  <2>1. UNCHANGED <<label, spl, imported>> /\ pc' \notin UnlockPcs
    BY <1>9 DEF WipeSecrets, UnlinkKey, UmountRoot, UmountLower, UmountUpper, UmountLayer,
                CloseLuks
  <2>. QED
    BY <2>1, LabelFrame DEF HeldPools
<1>10. CASE ExportPool
  <2>1. state # None /\ pc = "export" /\ i > 0 /\ i <= Len(state.pools)
    BY <1>10 DEF ExportPool, ControlInv, LockPcs
  <2>2. state.pools[i] \in PoolNames
    BY <2>1, LoadedTypes DEF TypeOK
  <2>3. CASE UNCHANGED <<label, imported>>
    BY <1>10, <2>3, LabelFrame DEF ExportPool, HeldPools
  <2>4. CASE /\ imported[state.pools[i]] # None /\ label' = LabelExported(state.pools[i])
             /\ imported' = [imported EXCEPT ![state.pools[i]] = None]
    <3>1. spl # BootId /\ spl' = spl /\ pc' \in {"export", "idle"}
      <4>1. state.pools[i] \in HeldPools
        BY <2>2, <2>4 DEF HeldPools
      <4>. QED
        BY <1>10, <4>1 DEF ExportPool, LabelInv
    <3>2. imported[state.pools[i]].guid \in Guids /\ label \in [Guids -> Label]
      BY <2>2, <2>4 DEF TypeOK, Opening
    <3>3. LabelsKeepHostId'
      BY <2>4, <3>1, <3>2 DEF LabelExported, Written, LabelInv, LabelsKeepHostId
    <3>. QED
      BY <3>1, <3>3 DEF LabelInv
  <2>. QED
    BY <1>10, <2>3, <2>4 DEF ExportPool
<1>11. CASE RestoreHostId
  <2>1. HeldPools = {} /\ HeldPools' = HeldPools /\ pc' \in {"remove", "idle"} /\ label' = label
    BY <1>11 DEF RestoreHostId, PoolInv, HeldPools
  <2>. QED
    BY <2>1 DEF LabelInv, LabelsKeepHostId
<1>12. CASE RemoveState
  <2>1. UNCHANGED <<label, spl, imported>> /\ pc' \notin UnlockPcs
    BY <1>12 DEF RemoveState
  <2>. QED
    BY <2>1, LabelFrame DEF HeldPools
<1>13. CASE LoopDone
  <2>1. UNCHANGED <<label, spl, imported, state>> /\ (pc' \in UnlockPcs => pc \in UnlockPcs)
    BY <1>13 DEF LoopDone
  <2>. QED
    BY <2>1, LabelFrame DEF HeldPools
<1>14. CASE PowerLoss
  <2>1. label' = label /\ HeldPools' = {} /\ pc' = "idle"
    BY <1>14 DEF PowerLoss, HeldPools
  <2>. QED
    BY <2>1 DEF LabelInv, LabelsKeepHostId
<1>15. ASSUME NEW n \in PoolNames, SyncLabel(n) PROVE LabelInv'
  <2>1. /\ imported[n].guid \in Guids /\ label \in [Guids -> Label] /\ spl # BootId
        /\ UNCHANGED <<spl, imported, state, pc>>
    BY <1>15 DEF SyncLabel, TypeOK, Opening, LabelInv, HeldPools
  <2>2. LabelsKeepHostId'
    BY <1>15, <2>1 DEF SyncLabel, Written, LabelInv, LabelsKeepHostId
  <2>. QED
    BY <2>1, <2>2 DEF LabelInv
<1>17. CASE Load
  <2>1. UNCHANGED <<label, spl, imported>> /\ pc' \notin UnlockPcs
    BY <1>17 DEF Load
  <2>. QED
    BY <2>1, LabelFrame DEF HeldPools
<1>16. CASE UNCHANGED vars
  BY <1>16, LabelFrame DEF HeldPools
<1>. QED
  BY <1>1, <1>2, <1>3, <1>4, <1>5, <1>6, <1>7, <1>8, <1>9, <1>10, <1>11, <1>12, <1>13, <1>14,
     <1>15, <1>16, <1>17
  DEF Next, Step, UnlockStep, LockStep, Environment

\* No label ever carries the image's host id, for every set of hosts and pools,
\* wherever a command fails or the machine loses power.
THEOREM LabelsKept == Spec => []LabelsKeepHostId
<1>1. Init => LabelInv
  BY OwnHostIds DEF Init, LabelInv, LabelsKeepHostId, HeldPools, UnlockPcs, FsPcs, MountedPcs
<1>2. CoreInv /\ RecordInv /\ LabelInv /\ [Next]_vars => LabelInv'
  BY LabelStep
<1>3. LabelInv => LabelsKeepHostId
  BY DEF LabelInv, LabelsKeepHostId
<1>. QED
  BY <1>1, <1>2, <1>3, RecordInvariance, PTL DEF Spec

-----------------------------------------------------------------------------
\* What an unlock has mounted.

Done(k) ==
  FileSystems[state.host][k].nofail \/ FileSystems[state.host][k].point \in mounted

\* The file systems before the one in hand are done, and all of them are when
\* the loop has ended, until the next command.
DoneInv ==
  /\ pc \in {"fs"} \cup FsPcs =>
       \A k \in 1..Len(FileSystems[state.host]) : k < i => Done(k)
  /\ pc \in {"upper", "overlay"} => Fs.point = Root
  /\ pc \in MountedPcs \/ (pc = "idle" /\ result = "unlocked") =>
       state # None /\ \A k \in 1..Len(FileSystems[state.host]) : Done(k)

\* Steps that leave the loop where it is, or leave it for good.
LEMMA DoneFrame ==
  ASSUME DoneInv, state # None, state'.host = state.host, state' # None, mounted \subseteq mounted',
         pc' \in {"fs"} \cup FsPcs => pc \in {"fs"} \cup FsPcs /\ i' = i,
         pc' \in {"upper", "overlay"} => pc \in {"upper", "overlay"},
         pc' \in MountedPcs \/ (pc' = "idle" /\ result' = "unlocked") => pc \in MountedPcs
  PROVE  DoneInv'
<1>1. FileSystems[state.host]' = FileSystems[state.host]
  BY Zenon
<1>2. \A k : Done(k) => Done(k)'
  BY <1>1 DEF Done
<1>3. pc' \in {"fs"} \cup FsPcs => \A k \in 1..Len(FileSystems[state.host]') : k < i' => Done(k)'
  BY <1>1, <1>2 DEF DoneInv
<1>4. pc' \in {"upper", "overlay"} => Fs' = Fs
  BY <1>1 DEF Fs, FsPcs
<1>5. pc' \in MountedPcs \/ (pc' = "idle" /\ result' = "unlocked") =>
        \A k \in 1..Len(FileSystems[state.host]') : Done(k)'
  BY <1>1, <1>2 DEF DoneInv
<1>. QED
  BY <1>3, <1>4, <1>5 DEF DoneInv

LEMMA DoneAway ==
  ASSUME pc' \notin {"fs"} \cup FsPcs \cup MountedPcs, pc' = "idle" => result' # "unlocked"
  PROVE  DoneInv'
BY DEF DoneInv, FsPcs

\* The i-th file system is done, and the loop goes on to the next.
LEMMA DoneOne ==
  ASSUME TypeOK, DoneInv, pc \in {"fs"} \cup FsPcs, state' = state, mounted \subseteq mounted',
         pc' = "fs", i' = i + 1,
         i \in 1..Len(FileSystems[state.host]) => Fs.nofail \/ Fs.point \in mounted'
  PROVE  DoneInv'
<1>1. ASSUME NEW k \in 1..Len(FileSystems[state.host]), k < i' PROVE Done(k)'
  <2>1. k < i \/ k = i
    BY <1>1 DEF TypeOK
  <2>. QED
    BY <1>1, <2>1 DEF DoneInv, Done, Fs
<1>. QED
  BY <1>1 DEF DoneInv, FsPcs, MountedPcs

LEMMA DoneStep ==
  ASSUME TypeOK, ControlInv, DoneInv, [Next]_vars
  PROVE  DoneInv'
<1>. pc \in SavedPcs => state \in SavedState /\ state # None
  BY ConstantTypes DEF ControlInv
<1>0. USE DEF Goto, Finish, Fail, memory, disks, ram, control, vars
<1>1. CASE Command
  <2>1. CASE \E h \in Hosts, m \in Modes : UnlockAgain(h, m)
    BY <2>1, DoneAway DEF UnlockAgain, FsPcs, MountedPcs
  <2>2. CASE LockCommand \/ \E h \in Hosts, m \in Modes : UnlockFresh(h, m) \/ UnlockOther(h, m)
    <3>1. pc' \in {"save", "lockSecrets"}
      BY <2>2 DEF UnlockFresh, UnlockOther, LockCommand
    <3>. QED
      BY <3>1, DoneAway DEF FsPcs, MountedPcs
  <2>. QED
    BY <1>1, <2>1, <2>2 DEF Command
<1>2. CASE SaveFirst \/ AdoptHostId
  <2>1. i' = 1 /\ pc' \in {"saveHostId", "fs", "load"}
    BY <1>2 DEF SaveFirst, AdoptHostId
  <2>. QED
    BY <2>1 DEF DoneInv, FsPcs, MountedPcs
<1>3. CASE SaveHostId
  <2>1. pc' \in {"adopt", "load"}
    BY <1>3 DEF SaveHostId
  <2>. QED
    BY <2>1, DoneAway DEF FsPcs, MountedPcs
<1>4. CASE ImportFs
  <2>1. /\ UNCHANGED <<state, mounted>> /\ pc = "fs"
        /\ (pc' \in {"key", "record"} /\ i' = i) \/ pc' = "load"
    BY <1>4 DEF ImportFs, AtFs
  <2>. QED
    BY <2>1, DoneFrame DEF SavedPcs, FsPcs, MountedPcs
<1>5. CASE RecordImport \/ RecordLuks \/ SaveDecrypted
  <2>1. state' \in SavedState /\ state'.host = state.host
    BY <1>5, SaveKeeps
  <2>2. /\ mounted' = mounted
        /\ \/ pc = "record" /\ pc' \in {"key", "mount"} /\ i' = i
           \/ pc = "record" /\ pc' = "load"
           \/ pc = "recordExtra" /\ pc' = "extra"
           \/ pc \in {"decrypted", "failed"} /\ pc' \in {"idle", "load"}
    BY <1>5 DEF RecordImport, RecordPool, RecordLuks, SaveDecrypted
  <2>. QED
    BY <2>1, <2>2, DoneFrame, ConstantTypes DEF SavedPcs, FsPcs, MountedPcs
<1>6. CASE LoadKey \/ OpenLuks
  <2>1. /\ UNCHANGED <<state, mounted>> /\ pc \in {"key", "fs"}
        /\ (pc' \in {"mount", "record"} /\ i' = i) \/ pc' = "load"
    BY <1>6 DEF LoadKey, OpenLuks, AtFs
  <2>. QED
    BY <2>1, DoneFrame DEF SavedPcs, FsPcs, MountedPcs
<1>7. CASE ResolvePartition
  <2>1. /\ UNCHANGED <<state, mounted>> /\ pc = "fs"
        /\ \/ pc' = "mount" /\ i' = i
           \/ pc' = "fs" /\ i' = i + 1 /\ Fs.nofail
           \/ pc' = "load"
    BY <1>7 DEF ResolvePartition, AtFs
  <2>2. CASE pc' = "fs"
    BY <2>1, <2>2, DoneOne
  <2>3. CASE pc' # "fs"
    BY <2>1, <2>3, DoneFrame DEF SavedPcs, FsPcs, MountedPcs
  <2>. QED
    BY <2>2, <2>3
<1>8. CASE Mount \/ MountOverlay
  <2>1. /\ state' = state /\ pc \in {"mount", "overlay"} /\ mounted \subseteq mounted'
        /\ (pc' = "fs" /\ i' = i + 1 /\ Fs.point \in mounted') \/ pc' = "load"
    BY <1>8 DEF Mount, MountOverlay, MountAt, DoneInv
  <2>2. CASE pc' = "fs"
    BY <2>1, <2>2, DoneOne DEF FsPcs
  <2>3. CASE pc' # "fs"
    BY <2>1, <2>3, DoneAway DEF FsPcs, MountedPcs
  <2>. QED
    BY <2>2, <2>3
<1>9. CASE MountLower
  <2>1. /\ state' = state /\ pc = "mount" /\ mounted \subseteq mounted' /\ Fs.point = Root
        /\ (pc' = "upper" /\ i' = i) \/ pc' = "load"
    BY <1>9 DEF MountLower, MountAt, Overlaid
  <2>. QED
    BY <2>1 DEF DoneInv, Done, Fs, FsPcs, MountedPcs
<1>10. CASE MountUpper
  <2>1. /\ state' = state /\ pc = "upper" /\ mounted \subseteq mounted'
        /\ (pc' = "overlay" /\ i' = i) \/ pc' = "load"
    BY <1>10 DEF MountUpper, MountAt
  <2>. QED
    BY <2>1, DoneFrame DEF SavedPcs, FsPcs, MountedPcs
<1>11. CASE ImportExtra \/ MountDatasets \/ BindPersistence \/ DecryptSecrets
  <2>1. /\ state' = state /\ pc \in MountedPcs /\ mounted \subseteq mounted'
        /\ pc' \in MountedPcs \cup {"load"}
    BY <1>11 DEF ImportExtra, AtExtra, MountDatasets, BindPersistence, DecryptSecrets, MountedPcs
  <2>. QED
    BY <2>1, DoneFrame DEF SavedPcs, FsPcs, MountedPcs
<1>12. CASE CheckIdentity
  <2>1. state' \in SavedState /\ state'.host = state.host
    BY <1>12, SaveKeeps
  <2>2. mounted' = mounted /\ pc = "identity" /\ pc' \in {"load", "idle", "sops"}
    BY <1>12 DEF CheckIdentity
  <2>. QED
    BY <2>1, <2>2, DoneFrame, ConstantTypes DEF SavedPcs, FsPcs, MountedPcs
<1>13. CASE LockStep
  <2>1. /\ pc' \in {"unlink", "idle", "umountRoot", "umountLower", "umountUpper", "export",
                    "close", "remove", "save"}
        /\ pc' = "idle" => result' \in {"error", "locked"}
    BY <1>13 DEF LockStep, WipeSecrets, UnlinkKey, UmountRoot, UmountLower, UmountUpper,
                 UmountLayer, ExportPool, CloseLuks, RestoreHostId, RemoveState
  <2>. QED
    BY <2>1, DoneAway DEF FsPcs, MountedPcs
<1>14. CASE LoopDone
  <2>1. CASE pc = "fs"
    <3>1. i > Len(FileSystems[state.host]) /\ pc' = "extra" /\ UNCHANGED <<state, mounted>>
      BY <1>14, <2>1 DEF LoopDone
    <3>2. state \in SavedState /\ state # None
      BY <2>1 DEF SavedPcs
    <3>3. FileSystems[state.host] \in Seq(FS)
      BY <3>2, ConstantTypes DEF SavedState
    <3>4. \A k \in 1..Len(FileSystems[state.host]) : Done(k)
      BY <2>1, <3>1, <3>3 DEF DoneInv, TypeOK
    <3>. QED
      BY <3>1, <3>2, <3>4 DEF DoneInv, Done, FsPcs, MountedPcs
  <2>2. CASE pc = "extra"
    BY <1>14, <2>2, DoneFrame DEF LoopDone, SavedPcs, FsPcs, MountedPcs
  <2>3. CASE pc = "export"
    BY <1>14, <2>3, DoneAway DEF LoopDone, FsPcs, MountedPcs
  <2>. QED
    BY <1>14, <2>1, <2>2, <2>3 DEF LoopDone
<1>18. CASE Load
  BY <1>18, DoneAway DEF Load, FsPcs, MountedPcs
<1>15. CASE PowerLoss
  BY <1>15, DoneAway DEF PowerLoss, FsPcs, MountedPcs
<1>16. ASSUME NEW n \in PoolNames, SyncLabel(n) PROVE DoneInv'
  BY <1>16 DEF SyncLabel, DoneInv, Done, Fs
<1>17. CASE UNCHANGED vars
  BY <1>17 DEF DoneInv, Done, Fs
<1>. QED
  BY <1>1, <1>2, <1>3, <1>4, <1>5, <1>6, <1>7, <1>8, <1>9, <1>10, <1>11, <1>12, <1>13, <1>14,
     <1>15, <1>16, <1>17, <1>18
  DEF Next, Step, UnlockStep, Environment

\* A successful unlock has mounted every file system that is not optional, for
\* every list of file systems, wherever an earlier command failed.
THEOREM UnlockMounts == Spec => []UnlockedMeansMounted
<1>1. Init => DoneInv
  BY DEF Init, DoneInv, FsPcs, MountedPcs
<1>2. CoreInv /\ DoneInv /\ [Next]_vars => DoneInv'
  BY DoneStep DEF CoreInv
<1>3. DoneInv => UnlockedMeansMounted
  BY DEF DoneInv, Done, UnlockedMeansMounted
<1>. QED
  BY <1>1, <1>2, <1>3, RecordInvariance, PTL DEF Spec

-----------------------------------------------------------------------------
\* The refinement of module Session.

\* What of the claim and of the resources the comparison looks at.
Claimed ==
  IF state = None \/ saves = "lost" THEN None ELSE [host |-> state.host, mode |-> state.mode]
Counted == IF saves = "lost" THEN {} ELSE Held

Resource ==
  ({"pool"} \X PoolNames) \cup ({"luks"} \X LuksNames) \cup ({"mount"} \X Mounts)
    \cup ({"ram"} \X {"secrets", "keyLink", "hostid"})

Stays ==
  /\ saves # "lost" /\ saves' # "lost" /\ state # None /\ state' # None
  /\ Claimed' = Claimed /\ Claimed \in [host : Hosts, mode : Modes]

\* The steps of Session, as the steps of this module make them.
LEMMA SessionStays ==
  ASSUME UNCHANGED <<Claimed, Held>>
  PROVE  [Promise!Next]_<<Claimed, Held>>
OBVIOUS

LEMMA SessionTakes ==
  ASSUME Stays, NEW r \in Resource, Held' = Held \cup {r}
  PROVE  Promise!Next
BY DEF Stays, Resource, Claimed, Promise!Next, Promise!Take

LEMMA SessionReleases ==
  ASSUME Stays, Held' \subseteq Held
  PROVE  Promise!Next
BY DEF Stays, Claimed, Promise!Next, Promise!Release

\* What the steps do to what is held.
LEMMA HeldFrame ==
  ASSUME UNCHANGED <<spl, imported, opened, mounted, ram>>
  PROVE  Held' = Held
BY DEF Held, HeldPools, HeldLuks, ram

LEMMA HeldShrinks ==
  ASSUME HeldPools' \subseteq HeldPools, HeldLuks' \subseteq HeldLuks, mounted' \subseteq mounted,
         secrets' => secrets, keyLink' => keyLink, spl' = BootId \/ spl' = spl
  PROVE  Held' \subseteq Held
BY DEF Held

LEMMA HeldPool ==
  ASSUME NEW n \in PoolNames, HeldPools' = HeldPools \cup {n},
         UNCHANGED <<spl, opened, mounted, ram>>
  PROVE  Held' = Held \cup {<<"pool", n>>}
BY DEF Held, HeldLuks, ram

LEMMA HeldDevice ==
  ASSUME NEW n \in LuksNames, HeldLuks' = HeldLuks \cup {n},
         UNCHANGED <<spl, imported, mounted, ram>>
  PROVE  Held' = Held \cup {<<"luks", n>>}
BY DEF Held, HeldPools, ram

LEMMA HeldMount ==
  ASSUME NEW x, mounted' = mounted \cup {x}, UNCHANGED <<spl, imported, opened, ram>>
  PROVE  Held' = Held \cup {<<"mount", x>>}
BY DEF Held, HeldPools, HeldLuks, ram

\* save_state within a command keeps the claim.
LEMMA ClaimKept ==
  ASSUME saves # "lost", saves' # "lost", state \in SavedState, state # None, state' # None,
         state'.host = state.host, state'.mode = state.mode
  PROVE  Stays
BY DEF Stays, Claimed, SavedState

\* An import takes one pool.
LEMMA ImportTakes ==
  ASSUME TypeOK, state \in SavedState, NEW n \in PoolNames, ZpoolImport(n)
  PROVE  HeldPools' = HeldPools \cup {n}
<1>1. PICK g \in Guids : imported' = [imported EXCEPT ![n] = [guid |-> g, mode |-> state.mode]]
  BY DEF ZpoolImport, Selectable, Matches, Candidates
<1>2. [guid |-> g, mode |-> state.mode] # None
  BY ConstantTypes DEF SavedState, Opening
<1>. QED
  BY <1>1, <1>2 DEF TypeOK, HeldPools

LEMMA SessionStep ==
  ASSUME CoreInv, RecordInv, CoreInv', [Next]_vars, saves # "lost", saves' # "lost"
  PROVE  [Promise!Next]_<<Claimed, Held>>
<1>0. USE DEF Goto, Finish, Fail, memory, disks, ram, control, vars
<1>. TypeOK /\ ControlInv /\ FileInv /\ HostIdInv /\ MountInv /\ PoolInv /\ LuksInv
  BY DEF CoreInv, RecordInv
<1>. state # None => state \in SavedState
  BY DEF TypeOK, FileInv
<1>. pc \in SavedPcs \cup LockPcs => state # None
  BY ConstantTypes DEF ControlInv
<1>. Load => state' = state
  BY LostStays
<1>s. state' = state /\ state # None => Stays
  BY ClaimKept
<1>1. CASE Command \/ Load \/ LoadKey \/ ResolvePartition \/ LoopDone
  <2>1. UNCHANGED <<state, spl, imported, opened, mounted, ram>>
    BY <1>1 DEF Command, UnlockFresh, UnlockAgain, UnlockOther, LockCommand, Load, LoadKey,
                ResolvePartition, LoopDone
  <2>. QED
    BY <2>1, HeldFrame, SessionStays DEF Claimed
<1>2. CASE SaveFirst /\ ~Fail
  <2>1. /\ state = None /\ goal \in [host : Hosts, mode : Modes] /\ state' # None
        /\ state'.host = goal.host /\ state'.mode = goal.mode
    <3>1. state' = [host |-> goal.host, mode |-> goal.mode, hostid |-> None,
                    identity |-> "locked", pools |-> <<>>, luks |-> <<>>]
      BY <1>2 DEF SaveFirst, Saved
    <3>2. state = None /\ goal \in [host : Hosts, mode : Modes]
      BY <1>2 DEF SaveFirst, ControlInv, TypeOK
    <3>3. state' \in SavedState
      BY <3>1, <3>2 DEF SavedState, Identities
    <3>. QED
      BY <3>1, <3>2, <3>3, ConstantTypes
  <2>2. Held = {} /\ Held' = Held
    <3>1. UNCHANGED <<spl, imported, opened, mounted, ram>>
      BY <1>2 DEF SaveFirst
    <3>2. HeldPools = {} /\ HeldLuks = {} /\ mounted = {} /\ ~secrets /\ ~keyLink /\ spl = BootId
      BY <2>1 DEF PoolInv, LuksInv, MountInv, HostIdInv
    <3>. QED
      BY <3>1, <3>2, HeldFrame DEF Held
  <2>3. Claimed = None /\ Claimed' = [host |-> goal.host, mode |-> goal.mode]
    BY <2>1 DEF Claimed
  <2>. QED
    BY <2>1, <2>2, <2>3 DEF Promise!Next, Promise!Claim, Claimed
<1>3. CASE SaveHostId \/ RecordImport \/ RecordLuks \/ SaveDecrypted
  <2>1. state # None /\ state' # None /\ state'.host = state.host /\ state'.mode = state.mode
    BY <1>3, SaveKeeps, ConstantTypes
  <2>2. UNCHANGED <<spl, imported, opened, mounted, ram>>
    BY <1>3 DEF SaveHostId, RecordImport, RecordPool, RecordLuks, SaveDecrypted
  <2>. QED
    BY <2>1, <2>2, HeldFrame, ClaimKept, SessionStays DEF Stays
<1>4. CASE AdoptHostId /\ ~Fail
  <2>1. state' = state /\ state # None /\ HostId[state.host] # BootId
    BY <1>4, OwnHostIds DEF AdoptHostId, SavedPcs, SavedState
  <2>2. Held' = Held \cup {<<"ram", "hostid">>}
    BY <1>4, <2>1 DEF AdoptHostId, Held, HeldPools, HeldLuks
  <2>. QED
    BY <1>s, <2>1, <2>2, SessionTakes DEF Resource
<1>5. CASE ImportFs
  <2>1. state' = state /\ state # None /\ state \in SavedState
    BY <1>5 DEF ImportFs, AtFs, SavedPcs
  <2>2. CASE UNCHANGED <<spl, imported, opened, mounted, ram>>
    BY <2>1, <2>2, HeldFrame, SessionStays DEF Claimed
  <2>3. CASE ZpoolImport(Fs.src) /\ UNCHANGED <<spl, opened, mounted, ram>>
    <3>1. Fs.src \in PoolNames
      BY <1>5, <2>1, EntryTypes DEF ImportFs, AtFs, TypeOK, ControlInv
    <3>2. Held' = Held \cup {<<"pool", Fs.src>>}
      BY <2>1, <2>3, <3>1, ImportTakes, HeldPool
    <3>. QED
      BY <1>s, <2>1, <3>1, <3>2, SessionTakes DEF Resource
  <2>. QED
    BY <1>5, <2>2, <2>3 DEF ImportFs
<1>6. CASE ImportExtra
  <2>1. state' = state /\ state # None /\ state \in SavedState
    BY <1>6 DEF ImportExtra, AtExtra, SavedPcs, MountedPcs
  <2>2. CASE UNCHANGED <<spl, imported, opened, mounted, ram>>
    BY <2>1, <2>2, HeldFrame, SessionStays DEF Claimed
  <2>3. CASE ZpoolImport(ExtraPools[state.host][i]) /\ UNCHANGED <<spl, opened, mounted, ram>>
    <3>1. ExtraPools[state.host][i] \in PoolNames
      BY <1>6, <2>1, EntryTypes, ConstantTypes
      DEF ImportExtra, AtExtra, TypeOK, ControlInv, SavedState
    <3>2. Held' = Held \cup {<<"pool", ExtraPools[state.host][i]>>}
      BY <2>1, <2>3, <3>1, ImportTakes, HeldPool
    <3>. QED
      BY <1>s, <2>1, <3>1, <3>2, SessionTakes DEF Resource
  <2>. QED
    BY <1>6, <2>2, <2>3 DEF ImportExtra
<1>7. CASE OpenLuks
  <2>1. state' = state /\ state # None /\ state \in SavedState /\ Fs.src \in LuksNames
    BY <1>7, EntryTypes DEF OpenLuks, AtFs, SavedPcs, TypeOK, ControlInv
  <2>2. CASE UNCHANGED <<spl, imported, opened, mounted, ram>>
    BY <2>1, <2>2, HeldFrame, SessionStays DEF Claimed
  <2>3. CASE /\ opened' = [opened EXCEPT ![Fs.src] = state.mode]
             /\ UNCHANGED <<spl, imported, mounted, ram>>
    <3>1. HeldLuks' = HeldLuks \cup {Fs.src}
      BY <2>1, <2>3, ConstantTypes DEF HeldLuks, TypeOK, SavedState
    <3>. QED
      BY <1>s, <2>1, <2>3, <3>1, HeldDevice, SessionTakes DEF Resource
  <2>. QED
    BY <1>7, <2>2, <2>3 DEF OpenLuks
<1>8. CASE Mount \/ MountLower \/ MountUpper \/ MountOverlay \/ MountDatasets \/ BindPersistence
  <2>1. state' = state /\ state # None /\ UNCHANGED <<spl, imported, opened, ram>>
    BY <1>8 DEF Mount, MountLower, MountUpper, MountOverlay, MountAt, MountDatasets,
                BindPersistence, SavedPcs, FsPcs, MountedPcs
  <2>2. mounted' = mounted \/ \E x \in Mounts : mounted' = mounted \cup {x}
    <3>1. CASE Mount
      <4>1. Fs.point \in Mounts
        BY <1>8, <2>1, <3>1, EntryTypes DEF Mount, ControlInv, FsPcs, TypeOK, FS, Mounts
      <4>. QED
        BY <3>1, <4>1 DEF Mount, MountAt
    <3>. QED
      BY <1>8, <3>1 DEF MountLower, MountUpper, MountOverlay, MountAt, MountDatasets,
                        BindPersistence, Mounts
  <2>3. CASE mounted' = mounted
    BY <2>1, <2>3, HeldFrame, SessionStays DEF Claimed
  <2>4. ASSUME NEW x \in Mounts, mounted' = mounted \cup {x}
        PROVE  Promise!Next
    <3>1. Held' = Held \cup {<<"mount", x>>}
      BY <2>1, <2>4, HeldMount
    <3>. QED
      BY <1>s, <2>1, <3>1, SessionTakes DEF Resource
  <2>. QED
    BY <2>2, <2>3, <2>4
<1>9. CASE CheckIdentity
  <2>1. state # None /\ state' # None /\ state'.host = state.host /\ state'.mode = state.mode
    BY <1>9, SaveKeeps, ConstantTypes
  <2>2. Stays /\ UNCHANGED <<spl, imported, opened, mounted, secrets>>
    BY <1>9, <2>1, ClaimKept DEF CheckIdentity
  <2>3. CASE keyLink' = keyLink
    BY <2>2, <2>3, HeldFrame, SessionStays DEF Stays
  <2>4. CASE keyLink' = TRUE
    <3>1. Held' = Held \cup {<<"ram", "keyLink">>}
      BY <2>2, <2>4 DEF Held, HeldPools, HeldLuks
    <3>. QED
      BY <2>2, <3>1, SessionTakes DEF Resource
  <2>. QED
    BY <1>9, <2>3, <2>4 DEF CheckIdentity
<1>10. CASE DecryptSecrets
  <2>1. state' = state /\ state # None /\ UNCHANGED <<spl, imported, opened, mounted, keyLink>>
    BY <1>10 DEF DecryptSecrets, SavedPcs, MountedPcs
  <2>2. CASE secrets' = secrets
    BY <2>1, <2>2, HeldFrame, SessionStays DEF Claimed
  <2>3. CASE secrets' = TRUE
    <3>1. Held' = Held \cup {<<"ram", "secrets">>}
      BY <2>1, <2>3 DEF Held, HeldPools, HeldLuks
    <3>. QED
      BY <1>s, <2>1, <3>1, SessionTakes DEF Resource
  <2>. QED
    BY <1>10, <2>2, <2>3 DEF DecryptSecrets
<1>11. CASE WipeSecrets \/ UnlinkKey \/ UmountRoot \/ UmountLower \/ UmountUpper
  <2>1. /\ state' = state /\ state # None /\ UNCHANGED <<spl, imported, opened>>
        /\ mounted' \subseteq mounted
    BY <1>11 DEF WipeSecrets, UnlinkKey, UmountRoot, UmountLower, UmountUpper, UmountLayer,
                 LockPcs
  <2>2. (secrets' => secrets) /\ (keyLink' => keyLink)
    <3>1. CASE WipeSecrets
      BY <3>1, Zenon DEF WipeSecrets
    <3>2. CASE UnlinkKey
      <4>1. secrets' = secrets
        BY <3>2 DEF UnlinkKey
      <4>2. keyLink' => keyLink
        BY <3>2, Zenon DEF UnlinkKey
      <4>. QED
        BY <4>1, <4>2
    <3>3. CASE UmountRoot \/ UmountLower \/ UmountUpper
      <4>1. ram' = ram
        BY <3>3 DEF UmountRoot, UmountLower, UmountUpper, UmountLayer
      <4>. QED
        BY <4>1 DEF ram
    <3>. QED
      BY <1>11, <3>1, <3>2, <3>3
  <2>3. HeldPools' = HeldPools /\ HeldLuks' = HeldLuks
    BY <2>1 DEF HeldPools, HeldLuks
  <2>. QED
    BY <1>s, <2>1, <2>2, <2>3, HeldShrinks, SessionReleases
<1>12. CASE ExportPool
  <2>1. /\ state' = state /\ state # None /\ UNCHANGED <<spl, opened, mounted, ram>>
        /\ imported' = imported \/ imported' = [imported EXCEPT ![state.pools[i]] = None]
    BY <1>12 DEF ExportPool, LockPcs
  <2>2. HeldPools' \subseteq HeldPools /\ HeldLuks' = HeldLuks
    BY <2>1 DEF HeldPools, HeldLuks, TypeOK
  <2>. QED
    BY <1>s, <2>1, <2>2, HeldShrinks, SessionReleases
<1>13. CASE CloseLuks
  <2>1. /\ state' = state /\ state # None /\ UNCHANGED <<spl, imported, mounted, ram>>
        /\ opened' = opened \/ opened' = [opened EXCEPT ![state.luks[i]] = None]
    BY <1>13 DEF CloseLuks, LockPcs
  <2>2. HeldPools' = HeldPools /\ HeldLuks' \subseteq HeldLuks
    BY <2>1 DEF HeldPools, HeldLuks, TypeOK
  <2>. QED
    BY <1>s, <2>1, <2>2, HeldShrinks, SessionReleases
<1>14. CASE RestoreHostId
  <2>1. /\ state' = state /\ state # None /\ UNCHANGED <<imported, opened, mounted, ram>>
        /\ spl' = BootId \/ spl' = spl
    BY <1>14 DEF RestoreHostId, LockPcs, HostIdInv
  <2>2. HeldPools' = HeldPools /\ HeldLuks' = HeldLuks
    BY <2>1 DEF HeldPools, HeldLuks
  <2>. QED
    BY <1>s, <2>1, <2>2, HeldShrinks, SessionReleases
<1>18. CASE (SaveFirst /\ Fail) \/ (AdoptHostId /\ Fail) \/ (RemoveState /\ UNCHANGED <<state, file>>)
  <2>1. UNCHANGED <<spl, imported, opened, mounted, ram, state>>
    BY <1>18 DEF SaveFirst, Saved, AdoptHostId, RemoveState
  <2>. QED
    BY <2>1, HeldFrame, SessionStays DEF Claimed
<1>15. CASE RemoveState /\ state' = None
  <2>1. pc = "remove" /\ state' = None /\ UNCHANGED <<spl, imported, opened, mounted, ram>>
    BY <1>15 DEF RemoveState
  <2>2. HeldPools = {} /\ HeldLuks = {} /\ mounted = {} /\ ~secrets /\ ~keyLink /\ spl = BootId
    BY <2>1 DEF PoolInv, LuksInv, MountInv, HostIdInv, LockPcs
  <2>3. Held = {} /\ Held' = {} /\ Claimed' = None
    BY <2>1, <2>2, HeldFrame DEF Held, Claimed
  <2>. QED
    BY <2>3 DEF Promise!Next, Promise!GiveUp, Claimed
<1>16. CASE PowerLoss
  <2>1. Held' = {} /\ Claimed' = None
    BY <1>16 DEF PowerLoss, Held, HeldPools, HeldLuks, Claimed
  <2>. QED
    BY <2>1 DEF Promise!Next, Promise!Reboot, Claimed
<1>17. CASE (\E n \in PoolNames : SyncLabel(n)) \/ UNCHANGED vars
  <2>1. UNCHANGED <<state, spl, imported, opened, mounted, ram>>
    BY <1>17 DEF SyncLabel
  <2>. QED
    BY <2>1, HeldFrame, SessionStays DEF Claimed
<1>. QED
  BY <1>1, <1>2, <1>3, <1>4, <1>5, <1>6, <1>7, <1>8, <1>9, <1>10, <1>11, <1>12, <1>13, <1>14,
     <1>15, <1>16, <1>17, <1>18
  DEF Next, Step, UnlockStep, LockStep, Environment, RemoveState

\* A lost save ends the comparison; until then the steps are those of Session.
LEMMA CountedStep ==
  ASSUME CoreInv, RecordInv, CoreInv', [Next]_vars
  PROVE  [Promise!Next]_<<Claimed, Counted>>
<1>1. CASE saves' = "lost"
  <2>1. Claimed' = None /\ Counted' = {}
    BY <1>1 DEF Claimed, Counted
  <2>. QED
    BY <2>1 DEF Promise!Next, Promise!Reboot, Claimed, Counted
<1>2. CASE saves' # "lost"
  <2>1. saves # "lost"
    BY <1>2, LostStays DEF CoreInv
  <2>2. Counted = Held /\ Counted' = Held'
    BY <1>2, <2>1 DEF Counted
  <2>. QED
    BY <1>2, <2>1, <2>2, SessionStep
<1>. QED
  BY <1>1, <1>2

\* The commands implement the session: whatever fails, nothing of a host is
\* taken outside a claim, and no claim ends or changes while anything is held,
\* until a command has ended behind a save that failed.
THEOREM ImplementsClaims == Spec => ImplementsSession
<1>1. Init => Promise!Init
  BY DEF Init, Promise!Init, Held, HeldPools, HeldLuks
<1>2. CoreInv /\ RecordInv /\ CoreInv' /\ [Next]_vars => [Promise!Next]_<<Claimed, Counted>>
  BY CountedStep
<1>. QED
  BY <1>1, <1>2, RecordInvariance, PTL DEF Spec, ImplementsSession, Promise!Spec, Claimed, Counted

-----------------------------------------------------------------------------
\* That a command ends, as far as it can be said without fairness.

\* How far a command is from its end: its stages, last first; `rescue unlock`
\* of another target has those of a lock before those of an unlock.
Stage ==
  IF pc = "idle" THEN 0 ELSE IF pc = "remove" THEN 1 ELSE IF pc = "close" THEN 2
  ELSE IF pc = "export" THEN 3 ELSE IF pc = "umountUpper" THEN 4
  ELSE IF pc = "umountLower" THEN 5 ELSE IF pc = "umountRoot" THEN 6
  ELSE IF pc = "unlink" THEN 7 ELSE IF pc = "lockSecrets" THEN 8
  ELSE IF pc = "load" THEN 9
  ELSE IF pc \in {"decrypted", "failed"} THEN 10 ELSE IF pc = "sops" THEN 11
  ELSE IF pc = "identity" THEN 12 ELSE IF pc = "datasets" THEN 13
  ELSE IF pc \in {"extra", "recordExtra"} THEN 14
  ELSE IF pc \in {"fs"} \cup FsPcs THEN 15
  ELSE IF pc = "adopt" THEN 16 ELSE IF pc = "saveHostId" THEN 17 ELSE 18

StagesLeft == IF cmd = "relock" THEN Stage + 19 ELSE Stage

\* The turns of a loop over n things that are not over, and the steps left of
\* the turn of a file system.
Turns(n) == IF i <= n THEN n + 1 - i ELSE 0

FsSteps ==
  IF pc = "fs" THEN 5 ELSE IF pc = "record" THEN 4 ELSE IF pc = "key" THEN 3
  ELSE IF pc = "mount" THEN 2 ELSE IF pc = "upper" THEN 1 ELSE 0

StepsLeft ==
  IF pc \in {"fs"} \cup FsPcs THEN 6 * Turns(Len(FileSystems[state.host])) + FsSteps
  ELSE IF pc = "extra" THEN 2 * Turns(Len(ExtraPools[state.host])) + 1
  ELSE IF pc = "recordExtra" THEN 2 * Turns(Len(ExtraPools[state.host]))
  ELSE IF pc = "datasets" THEN Turns(Len(state.pools))
  ELSE IF pc \in {"export", "close"} THEN i
  ELSE 0

\* A command is in an unlock only as an unlock: what fails there rolls back and
\* is not tried again.
CommandInv == pc \notin {"idle", "load"} \cup LockPcs => cmd = "unlock"

Distance == <<StagesLeft, StepsLeft>>

LessThan == {p \in Nat \X Nat : p[1] < p[2]}

\* Fewer stages left, or as many and fewer steps in this one.
Shorter == LexPairOrdering(LessThan, LessThan, Nat, Nat)

LEMMA CommandStep == ControlInv /\ CommandInv /\ [Next \/ Kill]_vars => CommandInv'
<1> SUFFICES ASSUME ControlInv, CommandInv, [Next \/ Kill]_vars PROVE CommandInv'
  OBVIOUS
<1> USE DEF CommandInv, LockPcs, Goto, Finish, Fail, control, vars
<1>1. CASE Command
  BY <1>1 DEF Command, UnlockFresh, UnlockAgain, UnlockOther, LockCommand
<1>2. CASE LockStep
  BY <1>2 DEF LockStep, WipeSecrets, UnlinkKey, UmountRoot, UmountLower, UmountUpper, UmountLayer,
              ExportPool, CloseLuks, RestoreHostId, RemoveState
<1>3. CASE UnlockStep
  BY <1>3 DEF UnlockStep, SaveFirst, SaveHostId, AdoptHostId, ImportFs, RecordImport, RecordPool,
              LoadKey, OpenLuks, RecordLuks, ResolvePartition, AtFs, Mount, MountLower, MountUpper,
              MountOverlay, MountAt, ImportExtra, AtExtra, MountDatasets, BindPersistence,
              CheckIdentity, DecryptSecrets, SaveDecrypted
<1>4. CASE Load \/ LoopDone \/ Environment \/ Kill \/ UNCHANGED vars
  BY <1>4 DEF Load, LoopDone, Environment, PowerLoss, SyncLabel, Kill
<1> QED BY <1>1, <1>2, <1>3, <1>4 DEF Next, Step

LoopPcs == {"fs"} \cup FsPcs

LEMMA DistanceTypes ==
  ASSUME TypeOK, ControlInv
  PROVE  /\ StagesLeft \in Nat /\ StepsLeft \in Nat
         /\ pc \in LoopPcs => /\ Len(FileSystems[state.host]) \in Nat
                              /\ StepsLeft = 6 * Turns(Len(FileSystems[state.host])) + FsSteps
<1>1. StagesLeft \in Nat
  BY DEF StagesLeft, Stage
<1>2. pc \in SavedPcs =>
        /\ Len(FileSystems[state.host]) \in Nat /\ Len(ExtraPools[state.host]) \in Nat
        /\ Len(state.pools) \in Nat
  <2>1. pc \in SavedPcs => state \in SavedState
    BY DEF ControlInv
  <2>2. ASSUME state \in SavedState
        PROVE  /\ FileSystems[state.host] \in Seq(FS) /\ ExtraPools[state.host] \in Seq(PoolNames)
               /\ state.pools \in Seq(PoolNames)
    BY <2>2, ConstantTypes DEF SavedState
  <2> QED BY <2>1, <2>2
<1>3. i \in Nat /\ FsSteps \in 0..5
  BY DEF TypeOK, FsSteps
<1>4. \A n \in Nat : Turns(n) \in Nat
  BY <1>3 DEF Turns
<1>5. pc \in LoopPcs => StepsLeft = 6 * Turns(Len(FileSystems[state.host])) + FsSteps
  BY DEF LoopPcs, StepsLeft
<1>6. StepsLeft \in Nat
  <2>1. CASE pc \in LoopPcs
    <3>1. Len(FileSystems[state.host]) \in Nat
      BY <1>2, <2>1 DEF LoopPcs, SavedPcs
    <3>2. Turns(Len(FileSystems[state.host])) \in Nat
      BY <1>4, <3>1
    <3> QED BY <1>3, <1>5, <2>1, <3>2
  <2>2. CASE pc \in {"extra", "recordExtra", "datasets"}
    <3>1. /\ Len(ExtraPools[state.host]) \in Nat /\ Len(state.pools) \in Nat
          /\ pc \notin LoopPcs
      BY <1>2, <2>2 DEF LoopPcs, SavedPcs, FsPcs, MountedPcs
    <3>2. Turns(Len(ExtraPools[state.host])) \in Nat /\ Turns(Len(state.pools)) \in Nat
      BY <1>4, <3>1
    <3> QED BY <2>2, <3>1, <3>2 DEF StepsLeft, LoopPcs
  <2>3. CASE pc \notin LoopPcs \cup {"extra", "recordExtra", "datasets"}
    BY <1>3, <2>3 DEF StepsLeft, LoopPcs
  <2> QED BY <2>1, <2>2, <2>3
<1> QED BY <1>1, <1>2, <1>5, <1>6 DEF LoopPcs, SavedPcs

Nearer == StagesLeft' < StagesLeft \/ (StagesLeft' = StagesLeft /\ StepsLeft' < StepsLeft)

\* A step of a file system's turn, or the last of them.
LEMMA TurnShortens ==
  ASSUME TypeOK, ControlInv, TypeOK', ControlInv', pc \in LoopPcs, pc' \in LoopPcs, cmd' = cmd,
         state'.host = state.host, i <= Len(FileSystems[state.host]),
         (i' = i /\ FsSteps' < FsSteps) \/ (i' = i + 1 /\ pc' = "fs")
  PROVE  Nearer
<1> DEFINE n == Len(FileSystems[state.host])
<1>1. n' = n /\ i <= n
  OBVIOUS
<1>2. n \in Nat /\ i \in Nat /\ FsSteps \in 0..5 /\ FsSteps' \in 0..5
  BY DistanceTypes DEF TypeOK, FsSteps
<1>3. StepsLeft = 6 * Turns(n) + FsSteps /\ StepsLeft' = 6 * Turns(n)' + FsSteps'
  BY DEF LoopPcs, StepsLeft
<1>4. StagesLeft' = StagesLeft
  BY DEF StagesLeft, Stage, LoopPcs, FsPcs
<1> HIDE DEF n
<1>5. Turns(n) = n + 1 - i
  BY <1>1, <1>2 DEF Turns
<1>6. CASE i' = i /\ FsSteps' < FsSteps
  <2>1. Turns(n)' = n + 1 - i
    BY <1>1, <1>2, <1>6 DEF Turns
  <2>2. StepsLeft' < StepsLeft
    <3>1. Turns(n) \in Nat /\ Turns(n)' = Turns(n)
      BY <1>1, <1>2, <1>5, <2>1
    <3> QED BY <1>2, <1>3, <1>6, <3>1
  <2> QED BY <1>4, <2>2 DEF Nearer
<1>7. CASE i' = i + 1 /\ pc' = "fs"
  <2>1. Turns(n)' = n - i
    BY <1>1, <1>2, <1>7 DEF Turns
  <2>2. StepsLeft' < StepsLeft
    <3>1. Turns(n) \in Nat /\ Turns(n)' \in Nat /\ Turns(n)' + 1 = Turns(n)
      BY <1>1, <1>2, <1>5, <2>1
    <3> QED BY <1>2, <1>3, <3>1, SMTT(30)
  <2> QED BY <1>4, <2>2 DEF Nearer
<1> QED BY <1>6, <1>7

\* A stage is over, or the command.
LEMMA StageShortens ==
  ASSUME ControlInv, CommandInv, Fail \/ (Stage' < Stage /\ cmd' = cmd), pc \notin {"idle", "load"} \cup LockPcs
  PROVE  Nearer
BY DEF Nearer, StagesLeft, Stage, Fail, CommandInv, LockPcs, FsPcs

LEMMA StageTypes == Stage \in 0..18 /\ (Stage = 0 <=> pc = "idle")
BY DEF Stage

LEMMA EndShortens == pc # "idle" /\ pc' = "idle" /\ cmd' # "relock" => Nearer
<1>1. Stage \in 0..18 /\ (Stage = 0 <=> pc = "idle")
  BY StageTypes
<1>2. pc' = "idle" => Stage' = 0
  BY DEF Stage
<1> QED BY <1>1, <1>2 DEF Nearer, StagesLeft

\* A step of a loop other than that of the file systems.
LEMMA LoopShortens ==
  ASSUME TypeOK, ControlInv, TypeOK', ControlInv', cmd' = cmd,
         \/ /\ pc \in {"extra", "recordExtra"} /\ state'.host = state.host
            /\ i <= Len(ExtraPools[state.host])
            /\ (pc = "extra" /\ pc' = "recordExtra" /\ i' = i) \/ (pc' = "extra" /\ i' = i + 1)
         \/ /\ pc = "datasets" /\ pc' = pc /\ state' = state
            /\ i <= Len(state.pools) /\ i' = i + 1
         \/ pc \in {"export", "close"} /\ pc' = pc /\ i > 0 /\ i' = i - 1
  PROVE  Nearer
<1>1. StagesLeft' = StagesLeft
  BY DEF StagesLeft, Stage, FsPcs
<1>2. i \in Nat
  BY DEF TypeOK
<1>3. CASE /\ pc \in {"extra", "recordExtra"} /\ state'.host = state.host
           /\ i <= Len(ExtraPools[state.host])
           /\ (pc = "extra" /\ pc' = "recordExtra" /\ i' = i) \/ (pc' = "extra" /\ i' = i + 1)
  <2> DEFINE n == Len(ExtraPools[state.host])
  <2>1. n' = n /\ i <= n /\ n \in Nat
    <3>1. state \in SavedState
      BY <1>3 DEF ControlInv, SavedPcs, MountedPcs
    <3>2. ExtraPools[state.host] \in Seq(PoolNames)
      BY <3>1, ConstantTypes DEF SavedState
    <3> QED BY <1>3, <3>2
  <2>2. /\ StepsLeft = 2 * Turns(n) + (IF pc = "extra" THEN 1 ELSE 0)
        /\ StepsLeft' = 2 * Turns(n)' + (IF pc' = "extra" THEN 1 ELSE 0)
    <3>1. Turns(n) \in Nat /\ Turns(n)' \in Nat
      BY <1>2, <1>3, <2>1 DEF Turns
    <3> QED BY <1>3, <3>1 DEF StepsLeft, FsPcs
  <2> HIDE DEF n
  <2>3. Turns(n) = n + 1 - i
    BY <1>2, <2>1 DEF Turns
  <2>4. CASE i' = i
    BY <1>1, <1>2, <1>3, <2>1, <2>2, <2>3, <2>4 DEF Nearer, Turns
  <2>5. CASE i' = i + 1 /\ pc' = "extra"
    <3>1. Turns(n)' = n - i
      BY <1>2, <2>1, <2>5 DEF Turns
    <3>2. StepsLeft' < StepsLeft
      BY <1>2, <1>3, <2>1, <2>2, <2>3, <2>5, <3>1
    <3> QED BY <1>1, <3>2 DEF Nearer
  <2> QED BY <1>3, <2>4, <2>5
<1>4. CASE /\ pc = "datasets" /\ pc' = pc /\ state' = state
           /\ i <= Len(state.pools) /\ i' = i + 1
  <2> DEFINE n == Len(state.pools)
  <2>1. n \in Nat /\ n' = n /\ i <= n
    BY <1>4 DEF ControlInv, SavedPcs, MountedPcs, SavedState
  <2>2. StepsLeft = Turns(n) /\ StepsLeft' = Turns(n)'
    BY <1>4 DEF StepsLeft, FsPcs
  <2> HIDE DEF n
  <2>3. Turns(n) = n + 1 - i /\ Turns(n)' = n - i
    BY <1>2, <1>4, <2>1 DEF Turns
  <2>4. StepsLeft' < StepsLeft
    BY <1>2, <2>1, <2>2, <2>3
  <2> QED BY <1>1, <2>4 DEF Nearer
<1>5. CASE pc \in {"export", "close"} /\ pc' = pc /\ i > 0 /\ i' = i - 1
  BY <1>1, <1>2, <1>5 DEF Nearer, StepsLeft, FsPcs
<1> QED BY <1>3, <1>4, <1>5

LEMMA UnlockShortens ==
  ASSUME TypeOK, ControlInv, TypeOK', ControlInv', CommandInv, UnlockStep
  PROVE  Nearer
<1>1. pc \notin {"idle", "load"} \cup LockPcs
  BY DEF LockPcs, UnlockStep, SaveFirst, SaveHostId, AdoptHostId, ImportFs, RecordImport,
         RecordPool, LoadKey, OpenLuks, RecordLuks, ResolvePartition, AtFs, Mount, MountLower,
         MountUpper, MountOverlay, ImportExtra, AtExtra, MountDatasets, BindPersistence,
         CheckIdentity, DecryptSecrets, SaveDecrypted
<1>2. CASE SaveFirst \/ SaveHostId \/ AdoptHostId \/ BindPersistence \/ DecryptSecrets
  <2>1. Fail \/ (Stage' < Stage /\ cmd' = cmd)
    <3>1. \/ Fail
          \/ cmd' = cmd /\ pc = "save" /\ pc' \in {"saveHostId", "fs"}
          \/ cmd' = cmd /\ pc = "saveHostId" /\ pc' = "adopt"
          \/ cmd' = cmd /\ pc = "adopt" /\ pc' = "fs"
          \/ cmd' = cmd /\ pc = "datasets" /\ pc' = "identity"
          \/ cmd' = cmd /\ pc = "sops" /\ pc' \in {"decrypted", "failed"}
      BY <1>2 DEF SaveFirst, SaveHostId, AdoptHostId, BindPersistence, DecryptSecrets, Goto
    <3> QED BY <3>1 DEF Stage, FsPcs
  <2> QED BY <1>1, <2>1, StageShortens
<1>3. CASE CheckIdentity \/ SaveDecrypted
  <2>1. \/ Fail \/ (Stage' < Stage /\ cmd' = cmd)
        \/ pc' = "idle" /\ cmd' = "none"
    BY <1>3 DEF CheckIdentity, SaveDecrypted, Finish, Goto, Stage, FsPcs
  <2> QED BY <1>1, <2>1, StageShortens, EndShortens
<1>4. CASE ImportFs \/ OpenLuks \/ ResolvePartition
  <2>1. pc = "fs" /\ i <= Len(FileSystems[state.host]) /\ state' = state
    BY <1>4 DEF ImportFs, OpenLuks, ResolvePartition, AtFs, memory
  <2>2. \/ Fail
        \/ cmd' = cmd /\ pc' \in {"record", "key", "mount"} /\ i' = i
        \/ cmd' = cmd /\ pc' = "fs" /\ i' = i + 1
    BY <1>4 DEF ImportFs, OpenLuks, ResolvePartition, Goto
  <2>3. pc' \in {"record", "key", "mount"} => FsSteps' < FsSteps
    BY <2>1 DEF FsSteps
  <2> QED BY <1>1, <2>1, <2>2, <2>3, StageShortens, TurnShortens DEF LoopPcs, FsPcs
<1>5. CASE LoadKey \/ RecordLuks \/ (RecordImport /\ pc = "record")
           \/ Mount \/ MountLower \/ MountUpper \/ MountOverlay
  <2>1. pc \in FsPcs /\ i <= Len(FileSystems[state.host]) /\ state'.host = state.host
    BY <1>5, SaveKeeps DEF LoadKey, RecordLuks, Mount, MountLower, MountUpper, MountOverlay, MountAt,
                           memory, ControlInv, FsPcs
  <2>2. \/ Fail
        \/ cmd' = cmd /\ pc = "record" /\ pc' \in {"key", "mount"} /\ i' = i
        \/ cmd' = cmd /\ pc = "key" /\ pc' = "mount" /\ i' = i
        \/ cmd' = cmd /\ pc = "mount" /\ pc' = "upper" /\ i' = i
        \/ cmd' = cmd /\ pc = "upper" /\ pc' = "overlay" /\ i' = i
        \/ cmd' = cmd /\ pc' = "fs" /\ i' = i + 1
    BY <1>5 DEF LoadKey, RecordLuks, RecordImport, RecordPool, Mount, MountLower, MountUpper,
                MountOverlay, MountAt, Goto
  <2>3. Fail \/ (cmd' = cmd /\ pc' \in LoopPcs
                 /\ ((i' = i /\ FsSteps' < FsSteps) \/ (i' = i + 1 /\ pc' = "fs")))
    BY <2>2 DEF FsSteps, LoopPcs, FsPcs
  <2> QED BY <1>1, <2>1, <2>3, StageShortens, TurnShortens DEF LoopPcs
<1>6. CASE ImportExtra \/ (RecordImport /\ pc # "record")
  <2>1. \/ Fail
        \/ /\ pc \in {"extra", "recordExtra"} /\ state'.host = state.host /\ cmd' = cmd
           /\ i <= Len(ExtraPools[state.host])
           /\ (pc = "extra" /\ pc' = "recordExtra" /\ i' = i) \/ (pc' = "extra" /\ i' = i + 1)
    BY <1>6, SaveKeeps DEF ImportExtra, AtExtra, RecordImport, RecordPool, Goto, ControlInv, memory
  <2> QED BY <1>1, <2>1, StageShortens, LoopShortens
<1>7. CASE MountDatasets
  <2>1. \/ Fail
        \/ /\ pc = "datasets" /\ pc' = pc /\ state' = state /\ cmd' = cmd
           /\ i <= Len(state.pools) /\ i' = i + 1
    BY <1>7 DEF MountDatasets, Goto, memory
  <2> QED BY <1>1, <2>1, StageShortens, LoopShortens
<1> QED BY <1>2, <1>3, <1>4, <1>5, <1>6, <1>7 DEF UnlockStep

LEMMA LockShortens ==
  ASSUME TypeOK, ControlInv, TypeOK', ControlInv', CommandInv, Load \/ LockStep \/ LoopDone
  PROVE  Nearer
<1>1. CASE WipeSecrets \/ UnlinkKey \/ UmountRoot \/ UmountLower \/ UmountUpper \/ RestoreHostId
           \/ Load \/ LoopDone
  <2>1. pc # "idle" /\ ((pc' = "idle" /\ cmd' = "none") \/ (Stage' < Stage /\ cmd' = cmd))
    BY <1>1 DEF WipeSecrets, UnlinkKey, UmountRoot, UmountLower, UmountUpper, UmountLayer,
                RestoreHostId, Load, LoopDone, Finish, Goto, Stage, FsPcs
  <2>2. CASE pc # "idle" /\ pc' = "idle" /\ cmd' = "none"
    BY <2>2, EndShortens
  <2>3. CASE Stage' < Stage /\ cmd' = cmd
    BY <2>3 DEF Nearer, StagesLeft, Stage
  <2> QED BY <2>1, <2>2, <2>3
<1>2. CASE ExportPool \/ CloseLuks
  <2>1. \/ pc # "idle" /\ pc' = "idle" /\ cmd' = "none"
        \/ pc \in {"export", "close"} /\ pc' = pc /\ i > 0 /\ i' = i - 1 /\ cmd' = cmd
    BY <1>2 DEF ExportPool, CloseLuks, Finish, Goto
  <2> QED BY <2>1, EndShortens, LoopShortens
<1>3. CASE RemoveState
  BY <1>3 DEF RemoveState, Finish, Nearer, StagesLeft, Stage, FsPcs
<1> QED BY <1>1, <1>2, <1>3 DEF LockStep

\* Nothing precedes for ever: no command has infinitely many steps left.
THEOREM DistanceFounded == IsWellFoundedOn(Shorter, Nat \X Nat)
<1>1. IsWellFoundedOn(LessThan, Nat)
  BY Zenon, NatLessThanWellFounded DEF LessThan, OpToRel
<1> QED BY <1>1, WFLexPairOrdering DEF Shorter

\* Every step of a command brings it nearer to its end, whatever fails in it,
\* and what comes in between never sets it back (do_unlock, do_lock and their
\* loops); with the steps of a started command taken, that is CommandEnds.
THEOREM CommandsShorten ==
  KillSpec => [][/\ Step => <<Distance', Distance>> \in Shorter
                 /\ Environment \/ Kill => pc' = "idle" \/ Distance' = Distance]_vars
<1>1. Init => CommandInv
  BY DEF Init, CommandInv
<1>2. CoreInv /\ CommandInv /\ [Next \/ Kill]_vars => CommandInv'
  BY CommandStep DEF CoreInv
<1>t. CoreInv' => (StagesLeft \in Nat /\ StepsLeft \in Nat)'
  <2>1. CoreInv => StagesLeft \in Nat /\ StepsLeft \in Nat
    BY DistanceTypes DEF CoreInv
  <2> QED BY <2>1, PTL
<1>3. ASSUME CoreInv, CoreInv', CommandInv, Step
      PROVE  <<Distance', Distance>> \in Shorter
  <2>1. Nearer
    BY <1>3, UnlockShortens, LockShortens DEF Step, CoreInv
  <2>2. StagesLeft \in Nat /\ StepsLeft \in Nat
    BY <1>3, DistanceTypes DEF CoreInv
  <2>3. StagesLeft' \in Nat /\ StepsLeft' \in Nat
    BY <1>3, <1>t
  <2>4. Distance \in Nat \X Nat /\ Distance' \in Nat \X Nat
    BY <2>2, <2>3 DEF Distance
  <2>5. \A a, b \in Nat : a < b => <<a, b>> \in LessThan
    BY DEF LessThan
  <2> QED BY <2>1, <2>2, <2>3, <2>4, <2>5 DEF Nearer, Shorter, LexPairOrdering, Distance
<1>4. ASSUME Environment \/ Kill PROVE pc' = "idle" \/ Distance' = Distance
  <2>1. CASE PowerLoss \/ Kill
    BY <2>1 DEF PowerLoss, Kill, Finish
  <2>2. ASSUME NEW n \in PoolNames, SyncLabel(n) PROVE Distance' = Distance
    BY <2>2 DEF SyncLabel, memory, control, Distance, StagesLeft, Stage, StepsLeft, FsSteps, Turns, FsPcs
  <2> QED BY <1>4, <2>1, <2>2 DEF Environment
<1>5. CoreInv /\ CoreInv' /\ CommandInv /\ [Next \/ Kill]_vars =>
        [/\ Step => <<Distance', Distance>> \in Shorter
         /\ Environment \/ Kill => pc' = "idle" \/ Distance' = Distance]_vars
  BY <1>3, <1>4
<1> QED BY <1>1, <1>2, <1>5, CoreInvariance, PTL DEF KillSpec

-----------------------------------------------------------------------------
\* WipeRoot.

\* The root in its turn.
TurnInv ==
  machine = "wiping" => \A v \in at :
    /\ step \in {"restore", "copy"} => snap[v] = "empty"
    /\ step = "copy" /\ Present(v) => v \in stuck
    /\ step = "snapshot" => root[v] = "empty"

\* The roots whose turn is over are wiped, passed over or stuck.
LoopInv ==
  machine \in {"wiping", "ended"} =>
    \A v \in Volumes \ (todo \cup at \cup skipped) :
      snap[v] = "empty" /\ (v \in stuck \/ root[v] = "empty")

EndInv == machine = "ended" => todo = {} /\ at = {}

WipeInv == WipeTypeOK /\ EmptyIsEmpty /\ TurnInv /\ LoopInv /\ EndInv

LEMMA WipeBegins == WipeInit => WipeInv
<1> SUFFICES ASSUME WipeInit PROVE WipeInv
  OBVIOUS
<1>1. /\ \A v \in Volumes : root[v] \in {"empty", "dirty"} /\ snap[v] = "absent"
      /\ snap = [v \in Volumes |-> snap[v]] /\ root \in [Volumes -> {"empty", "dirty"}]
  BY Zenon DEF WipeInit
<1>2. machine = "up" /\ todo = {} /\ at = {} /\ step = "turn" /\ skipped = {} /\ stuck = {}
  BY DEF WipeInit
<1>3. WipeTypeOK
  <2>1. snap \in [Volumes -> Contents] /\ root \in [Volumes -> Contents]
    BY <1>1 DEF Contents
  <2>2. btrfs \in BOOLEAN
    BY Zenon DEF WipeInit
  <2> QED BY <1>2, <2>1, <2>2 DEF WipeTypeOK
<1> QED BY <1>1, <1>2, <1>3
  DEF WipeInv, EmptyIsEmpty, TurnInv, LoopInv, EndInv

\* Around the script.
LEMMA WipeAround ==
  ASSUME WipeInv,
         (\E v \in Volumes : Use(v) \/ Remake(v)) \/ Shutdown \/ PowerCut \/ Boot
           \/ Ends \/ CommandFails
  PROVE  WipeInv'
<1>1. ASSUME NEW v \in Volumes, Use(v) PROVE WipeInv'
  BY <1>1 DEF Use, WipeInv, WipeTypeOK, EmptyIsEmpty, TurnInv, LoopInv, EndInv,
              Present, Contents
<1>2. ASSUME NEW v \in Volumes, Remake(v) PROVE WipeInv'
  BY <1>2 DEF Remake, WipeInv, WipeTypeOK, EmptyIsEmpty, TurnInv, LoopInv, EndInv,
              Present, Contents
<1>3. CASE Shutdown
  BY <1>3 DEF Shutdown, WipeInv, WipeTypeOK, EmptyIsEmpty, TurnInv, LoopInv, EndInv,
              Present
<1>4. CASE PowerCut \/ Boot \/ CommandFails
  BY <1>4 DEF PowerCut, Boot, CommandFails, WipeInv, WipeTypeOK, EmptyIsEmpty,
              TurnInv, LoopInv, EndInv, Present
<1>5. CASE Ends
  BY <1>5 DEF Ends, WipeInv, WipeTypeOK, EmptyIsEmpty, TurnInv, LoopInv, EndInv,
              Present
<1> QED BY <1>1, <1>2, <1>3, <1>4, <1>5

\* A turn begins or is passed over.
LEMMA WipeTurn ==
  ASSUME WipeInv, NEW v \in Volumes, Turn(v) \/ Skip(v)
  PROVE  WipeInv'
<1>1. CASE Turn(v)
  <2>1. snap[v] # "absent" => snap[v] = "empty"
    BY DEF WipeInv, EmptyIsEmpty
  <2>2. /\ machine = "wiping" /\ at = {} /\ todo' = todo \ {v} /\ at' = {v}
        /\ \/ snap[v] # "absent" /\ step' = "restore"
           \/ step' = IF btrfs THEN "clear" ELSE "destroy"
        /\ UNCHANGED <<btrfs, root, snap, machine, skipped, stuck>>
    BY <1>1 DEF Turn
  <2>3. WipeTypeOK' /\ EmptyIsEmpty' /\ EndInv'
    BY <2>2 DEF WipeInv, WipeTypeOK, EmptyIsEmpty, EndInv, Present
  <2>4. TurnInv' BY <2>1, <2>2 DEF TurnInv
  <2>5. LoopInv' BY <2>2 DEF WipeInv, LoopInv, Present
  <2> QED BY <2>3, <2>4, <2>5 DEF WipeInv
<1>2. CASE Skip(v)
  BY <1>2 DEF Skip, WipeInv, WipeTypeOK, EmptyIsEmpty, TurnInv, LoopInv, EndInv,
              Present
<1> QED BY <1>1, <1>2

\* The steps of a turn: what each makes of its root, at most one being in turn.
LEMMA WipeSteps ==
  ASSUME WipeInv, NEW v \in Volumes,
         Rollback(v) \/ Destroy(v) \/ Delete(v) \/ Copy(v) \/ Create(v) \/ Snapshot(v)
  PROVE  WipeInv'
<1>1. /\ v \in at /\ machine = "wiping" /\ \A w \in at : w = v
      /\ root \in [Volumes -> Contents] /\ snap \in [Volumes -> Contents]
      /\ snap[v] \in {"absent", "empty"}
  BY DEF WipeInv, WipeTypeOK, EmptyIsEmpty, Rollback, Destroy, Delete, Copy, Create, Snapshot
<1>2. /\ step \in {"restore", "copy"} => snap[v] = "empty"
      /\ step = "copy" /\ Present(v) => v \in stuck
      /\ step = "snapshot" => root[v] = "empty"
  BY <1>1 DEF WipeInv, TurnInv
<1>3. CASE Rollback(v)
  BY <1>1, <1>2, <1>3 DEF Rollback, NextTurn, WipeInv, WipeTypeOK, EmptyIsEmpty,
                          TurnInv, LoopInv, EndInv, Present, Contents
<1>4. CASE Destroy(v)
  BY <1>1, <1>2, <1>4 DEF Destroy, WipeInv, WipeTypeOK, EmptyIsEmpty,
                          TurnInv, LoopInv, EndInv, Present, Contents
<1>5. CASE Delete(v)
  BY <1>1, <1>2, <1>5 DEF Delete, WipeInv, WipeTypeOK, EmptyIsEmpty,
                          TurnInv, LoopInv, EndInv, Present, Contents
<1>6. CASE Copy(v)
  BY <1>1, <1>2, <1>6 DEF Copy, NextTurn, WipeInv, WipeTypeOK, EmptyIsEmpty,
                          TurnInv, LoopInv, EndInv, Present, Contents
<1>7. CASE Create(v)
  BY <1>1, <1>2, <1>7 DEF Create, WipeInv, WipeTypeOK, EmptyIsEmpty,
                          TurnInv, LoopInv, EndInv, Present, Contents
<1>8. CASE Snapshot(v)
  BY <1>1, <1>2, <1>8 DEF Snapshot, NextTurn, WipeInv, WipeTypeOK, EmptyIsEmpty,
                          TurnInv, LoopInv, EndInv, Present, Contents
<1> QED BY <1>3, <1>4, <1>5, <1>6, <1>7, <1>8

LEMMA WipeStep == WipeInv /\ [WipeNext]_wipeVars => WipeInv'
<1> SUFFICES ASSUME WipeInv, [WipeNext]_wipeVars PROVE WipeInv'
  OBVIOUS
<1>1. CASE UNCHANGED wipeVars
  BY <1>1 DEF wipeVars, WipeInv, WipeTypeOK, EmptyIsEmpty, TurnInv, LoopInv, EndInv, Present
<1>2. CASE WipeNext
  BY <1>2, WipeAround, WipeTurn, WipeSteps DEF WipeNext, Script
<1> QED BY <1>1, <1>2

THEOREM WipeInvariance == WipeSpec => []WipeInv
BY WipeBegins, WipeStep, PTL DEF WipeSpec

\* Nothing of a past run gets into @empty, for any number of roots, failures
\* and power losses.
THEOREM SnapshotsEmpty == WipeSpec => []EmptyIsEmpty
<1>1. WipeInv => EmptyIsEmpty BY DEF WipeInv
<1> QED BY <1>1, WipeInvariance, PTL

\* A script that ends has wiped every root that it neither passed over nor failed
\* to delete (Wiped).
THEOREM EndsWiped == WipeSpec => []Wiped
<1>1. WipeInv => Wiped
  BY DEF WipeInv, LoopInv, EndInv, Wiped
<1> QED BY <1>1, WipeInvariance, PTL

\* A script that ends leaves an @empty for the next shutdown to restore, of
\* every root it did not pass over (EmptyMade).
THEOREM EndsWithEmpty == WipeSpec => []EmptyMade
<1>1. WipeInv => EmptyMade
  BY DEF WipeInv, LoopInv, EndInv, EmptyMade
<1> QED BY <1>1, WipeInvariance, PTL
=============================================================================
