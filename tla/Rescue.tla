------------------------------- MODULE Rescue -------------------------------
(***************************************************************************)
(* The `rescue` CLI of the installer ISO (packages/installer-iso/rescue):  *)
(* `rescue unlock [--rw] <host>` mounts an installed host, `rescue lock`   *)
(* undoes it.  One operator types commands; a command is a sequence of     *)
(* external programs (zpool, cryptsetup, mount, systemctl) any of which    *)
(* can fail, and the machine can lose power at any time.                   *)
(*                                                                         *)
(* One step of this module is one external program, or one rewrite of      *)
(* state.json, and each of them may fail.  `state` is the shell variables  *)
(* host, mode, hostid_orig, identity, pools and luks; `file` is what       *)
(* load_state makes of state.json.  save_state may fail between the two,   *)
(* and whether that ends the command depends on where the shell heeds an   *)
(* error: errexit is off inside `import_pool ... ||`.                      *)
(***************************************************************************)
EXTENDS Naturals, Sequences

CONSTANTS
  Hosts,        \* entries of RESCUE_MANIFEST
  PoolNames,    \* zpool names; they repeat across hosts
  Guids,        \* the pools attached to the machine
  LuksNames,    \* names under /dev/mapper
  Points,       \* mount points below /mnt
  Ids,          \* host ids a pool label can carry
  BootId,       \* the host id of the rescue image itself
  None,         \* an absent value
  NameOf,       \* [Guids -> PoolNames]
  HostId,       \* [Hosts -> Ids \cup {None}]: networking.hostId
  FileSystems,  \* [Hosts -> Seq(FS)], in the order they are mounted
  ExtraPools,   \* [Hosts -> Seq(PoolNames)]: boot.zfs.extraPools
  InitLabels,   \* the labels the attached pools may carry at boot
  GoesOn        \* bound: whether commands are typed after a lost save

Modes == {"ro", "rw"}
Root  == "/"        \* $root, the host's own root file system
Lower == "lower"    \* the read-only root under the overlay
Upper == "upper"    \* the RAM layer over it
Below == "below"    \* a mount below $root that no fileSystems entry names
Mounts == Points \cup {Root, Lower, Upper, Below}

Sources == PoolNames \cup LuksNames \cup {None}
FS == [point : Points \cup {Root}, kind : {"zfs", "luks", "part", "none"},
       src : Sources, nofail : BOOLEAN]
Label == [id : Ids, name : Hosts \cup {None}, exported : BOOLEAN]
Opening == [guid : Guids, mode : Modes]
Identities == {"locked", "missing", "mismatch", "none", "unlocked", "failed"}

SavedState ==
  [host : Hosts, mode : Modes, hostid : {None} \cup Ids,
   identity : Identities, pools : Seq(PoolNames), luks : Seq(LuksNames)]

\* What load_state makes of a state.json that jq left empty or cut off.
Blank == [host |-> None, mode |-> None, hostid |-> None, identity |-> "none",
          pools |-> <<>>, luks |-> <<>>]

ASSUME ConstantTypes ==
  /\ NameOf \in [Guids -> PoolNames]
  /\ HostId \in [Hosts -> Ids \cup {None}]
  /\ FileSystems \in [Hosts -> Seq(FS)]
  /\ ExtraPools \in [Hosts -> Seq(PoolNames)]
  /\ InitLabels \subseteq [Guids -> Label]
  /\ BootId \in Ids /\ None \notin Ids
  /\ None \notin Opening /\ None \notin Modes /\ None \notin SavedState
  /\ GoesOn \in BOOLEAN
  /\ None # Blank /\ None \notin Hosts
  /\ None \notin [host : Hosts, mode : Modes]
  /\ {Root, Lower, Upper, Below} \cap Points = {}

\* What a kind of file system is mounted from.
ASSUME Devices ==
  \A h \in Hosts : \A k \in 1..Len(FileSystems[h]) :
    LET f == FileSystems[h][k] IN
      /\ f.kind = "zfs" => f.src \in PoolNames
      /\ f.kind = "luks" => f.src \in LuksNames

\* host.nix sorts by mount point and filters nothing but unsupported types:
\* the root comes first, once, and is never optional.
ASSUME RootFirst ==
  \A h \in Hosts :
    /\ Len(FileSystems[h]) > 0
    /\ FileSystems[h][1].point = Root
    /\ ~FileSystems[h][1].nofail
    /\ \A k \in 2..Len(FileSystems[h]) : FileSystems[h][k].point # Root

\* A NixOS host with ZFS pools has a networking.hostId of its own, and no
\* attached pool was last imported by the rescue image.
ASSUME OwnHostIds ==
  /\ \A h \in Hosts : HostId[h] # BootId
  /\ \A h \in Hosts : HostId[h] = None =>
       /\ ExtraPools[h] = <<>>
       /\ \A k \in 1..Len(FileSystems[h]) : FileSystems[h][k].kind # "zfs"
  /\ \A l \in InitLabels : \A g \in Guids : l[g].id # BootId

VARIABLES
  state,     \* the variables of the running command; else what it would load
  file,      \* $state_file as load_state reads it, or None when there is none
  saves,     \* history: "good", or a save failed and the file is "behind" the
             \* variables, or those were dropped and it stays behind, "lost"
  spl,       \* $spl_hostid, the host id zfs imports under
  label,     \* per pool: the host id and host name in its label, and whether
             \* it is exported; None is a name no host of the manifest has
  imported,  \* per pool name: the pool imported under it, or None
  opened,    \* per LUKS name: how it is open, or None
  mounted,   \* what is mounted
  secrets,   \* $secrets_mount is mounted: decrypted secrets are in RAM
  keyLink,   \* $host_key_link points at a host's SSH key
  pc,        \* the next step of the running command, "idle" when none runs
  i,         \* the loop variable of that step
  cmd,       \* why the command is where it is
  goal,      \* the arguments of `rescue unlock`
  result     \* what the last command told the operator

memory  == <<state, file, saves>>
disks   == <<label, imported, opened, mounted>>
ram     == <<secrets, keyLink>>
control == <<pc, i, cmd, goal, result>>
vars    == <<memory, spl, disks, ram, control>>

-----------------------------------------------------------------------------
\* Helpers.

InList(x, s) == \E k \in 1..Len(s) : s[k] = x

Fs == FileSystems[state.host][i]

\* One step of a command that goes on at `where`, loop variable at `n`.
Goto(where, n) ==
  /\ pc' = where /\ i' = n
  /\ UNCHANGED <<cmd, goal, result>>

\* The command ends and the operator reads `what`.
Finish(what) ==
  /\ pc' = "idle" /\ i' = 1 /\ cmd' = "none" /\ goal' = None /\ result' = what

\* Any failed step of the do_unlock subshell ends it.
Fail ==
  /\ pc' = "load" /\ i' = 1 /\ cmd' = "rollback"
  /\ UNCHANGED <<goal, result>>

\* save_state to its end.
Saved(rec) ==
  /\ state' = rec /\ file' = rec
  /\ saves' = IF saves = "behind" THEN "good" ELSE saves

\* save_state fails, and the file now names less than the variables.
FallBehind == saves' = IF saves = "lost" THEN "lost" ELSE "behind"

\* The variables are gone and the file is all there is.
Forget == state' = file /\ saves' = IF saves = "behind" THEN "lost" ELSE saves

\* The parent rolls back with `load_state && do_lock`, if there is a file.
Load ==
  /\ pc = "load"
  /\ Forget /\ UNCHANGED file
  /\ \/ file = None /\ Finish("error")
     \/ file # None /\ Goto("lockSecrets", 1)
  /\ UNCHANGED <<spl, disks, ram>>

\* The loops of do_unlock and do_lock that have run to their end.
LoopDone ==
  /\ \/ pc = "fs" /\ i > Len(FileSystems[state.host]) /\ Goto("extra", 1)
     \/ pc = "extra" /\ i > Len(ExtraPools[state.host]) /\ Goto("datasets", 1)
     \/ pc = "export" /\ i = 0 /\ Goto("close", Len(state.luks))
  /\ UNCHANGED <<memory, spl, disks, ram>>

-----------------------------------------------------------------------------
\* The operator's commands.

\* cmd_unlock when nothing is unlocked.
UnlockFresh(h, m) ==
  /\ pc = "idle" /\ state = None
  /\ pc' = "save" /\ i' = 1 /\ cmd' = "unlock"
  /\ goal' = [host |-> h, mode |-> m]
  /\ UNCHANGED <<memory, spl, disks, ram, result>>

\* cmd_unlock of what the state file names: nothing is done.
UnlockAgain(h, m) ==
  /\ pc = "idle" /\ state # None
  /\ state.host = h /\ state.mode = m
  /\ Finish("already")
  /\ UNCHANGED <<memory, spl, disks, ram>>

\* Mutant: another mode of the same host starts without do_lock.
UnlockWithoutLock(h, m) ==
  /\ pc = "idle" /\ state # None
  /\ ~(state.host = h /\ state.mode = m)
  /\ pc' = "save" /\ i' = 1 /\ cmd' = "unlock"
  /\ goal' = [host |-> h, mode |-> m]
  /\ UNCHANGED <<memory, spl, disks, ram, result>>

\* cmd_unlock of anything else locks first.
UnlockOther(h, m) ==
  /\ pc = "idle" /\ state # None
  /\ ~(state.host = h /\ state.mode = m)
  /\ pc' = "lockSecrets" /\ i' = 1 /\ cmd' = "relock"
  /\ goal' = [host |-> h, mode |-> m]
  /\ UNCHANGED <<memory, spl, disks, ram, result>>

\* cmd_lock; without a state file it only says so.
LockCommand ==
  /\ pc = "idle" /\ state # None
  /\ pc' = "lockSecrets" /\ i' = 1 /\ cmd' = "lock"
  /\ UNCHANGED <<memory, spl, disks, ram, goal, result>>

-----------------------------------------------------------------------------
\* do_unlock: the state file, and the host id to import under.

NeedsHostId(h) ==
  /\ HostId[h] # None
  /\ \/ Len(ExtraPools[h]) > 0
     \/ \E k \in 1..Len(FileSystems[h]) : FileSystems[h][k].kind = "zfs"

SaveFirst ==
  /\ pc = "save"
  /\ \/ /\ Saved([host |-> goal.host, mode |-> goal.mode, hostid |-> None,
                   identity |-> "locked", pools |-> <<>>, luks |-> <<>>])
        /\ Goto(IF NeedsHostId(goal.host) THEN "saveHostId" ELSE "fs", 1)
     \/ UNCHANGED memory /\ Fail
  /\ UNCHANGED <<spl, disks, ram>>

\* Mutant: the save_state between reading and writing the host id is missing.
HostIdUnsaved ==
  /\ pc = "saveHostId" /\ Goto("adopt", 1)
  /\ UNCHANGED <<memory, spl, disks, ram>>

SaveHostId ==
  /\ pc = "saveHostId"
  /\ \/ Saved([state EXCEPT !.hostid = spl]) /\ Goto("adopt", 1)
     \/ UNCHANGED memory /\ Fail               \* modprobe zfs or the save
  /\ UNCHANGED <<spl, disks, ram>>

\* Mutant: the host id is never written.
HostIdNotAdopted ==
  /\ pc = "adopt" /\ Goto("fs", 1)
  /\ UNCHANGED <<memory, spl, disks, ram>>

AdoptHostId ==
  /\ pc = "adopt"
  /\ \/ spl' = HostId[state.host] /\ Goto("fs", 1)
     \/ UNCHANGED spl /\ Fail
  /\ UNCHANGED <<memory, disks, ram>>

-----------------------------------------------------------------------------
\* import_pool.

\* pool_labels: every attached pool of that name, imported or not.
Candidates(n) == {g \in Guids : NameOf[g] = n}
Matches(n) ==
  {g \in Candidates(n) :
     label[g].id = HostId[state.host] \/ label[g].name = state.host}

\* select_pool: the only candidate, else the only one whose label names the
\* host, else the operator's answer.
Selectable(n) ==
  IF \E g \in Candidates(n) : Matches(n) = {g}
  THEN Matches(n)
  ELSE Candidates(n)

\* The operator is asked, and an answer that is none ends the unlock.
Ambiguous(n) ==
  /\ \E g, h \in Candidates(n) : g # h
  /\ \A g \in Candidates(n) : Matches(n) # {g}

\* zpool import without -f: the pool was exported, or last used under the
\* host id we run with; and no pool of that name is imported.
Importable(n, g) ==
  /\ imported[n] = None
  /\ label[g].exported \/ label[g].id = spl

\* What ZFS writes into a label: the host id in force and the image's own name.
Written(away) == [id |-> spl, name |-> None, exported |-> away]

\* `zpool import`; only a read-write import writes the label.
ZpoolImport(n) ==
  \E g \in Selectable(n) :
    /\ Importable(n, g)
    /\ imported' = [imported EXCEPT ![n] = [guid |-> g, mode |-> state.mode]]
    /\ label' = IF state.mode = "rw"
                THEN [label EXCEPT ![g] = Written(FALSE)]
                ELSE label

\* Mutant: the pool is appended in the shell and not saved.
PoolUnsaved(n, where, next, k) ==
  /\ pc = where /\ Goto(next, k)
  /\ state' = [state EXCEPT !.pools = Append(@, n)]
  /\ UNCHANGED <<file, saves, spl, disks, ram>>

\* pools+=("$pool"); save_state, after either import and with errexit off.  A
\* jq that fails leaves nothing for mv to install, and the unlock goes on; a mv
\* that fails is a pool that could not be imported.
RecordPool(n, where, next, k) ==
  /\ pc = where
  /\ LET more == [state EXCEPT !.pools = Append(@, n)] IN
     \/ Saved(more) /\ Goto(next, k)
     \/ state' = more /\ file' = Blank /\ FallBehind /\ Goto(next, k)
     \/ /\ state' = more /\ UNCHANGED file /\ FallBehind
        /\ IF where = "record" THEN Fail ELSE Goto(next, k)
  /\ UNCHANGED <<spl, disks, ram>>

RecordImport ==
  \/ pc = "record" /\ Fs.kind = "zfs" /\ RecordPool(Fs.src, "record", "key", i)
  \/ RecordPool(ExtraPools[state.host][i], "recordExtra", "extra", i + 1)

-----------------------------------------------------------------------------
\* mount_fs for the file system Fs.

AtFs(kind) ==
  pc = "fs" /\ i <= Len(FileSystems[state.host]) /\ Fs.kind = kind

ImportFs ==
  /\ AtFs("zfs")
  /\ \/ /\ InList(Fs.src, state.pools)
        /\ Goto("key", i) /\ UNCHANGED disks
     \/ /\ ~InList(Fs.src, state.pools)
        /\ \/ ZpoolImport(Fs.src) /\ Goto("record", i)
           \/ UNCHANGED <<label, imported>> /\ Fail
        /\ UNCHANGED <<opened, mounted>>
  /\ UNCHANGED <<memory, spl, ram>>

\* load_zfs_key: a key file on the host or three prompts.
LoadKey ==
  /\ pc = "key"
  /\ Goto("mount", i) \/ Fail
  /\ UNCHANGED <<memory, spl, disks, ram>>

\* open_luks: a device that is open already is used as it is.
OpenLuks ==
  /\ AtFs("luks")
  /\ \/ /\ opened[Fs.src] # None
        /\ Goto("mount", i) /\ UNCHANGED opened
     \/ /\ opened[Fs.src] = None
        /\ \/ /\ opened' = [opened EXCEPT ![Fs.src] = state.mode]
              /\ Goto("record", i)
           \/ UNCHANGED opened /\ Fail
  /\ UNCHANGED <<memory, spl, label, imported, mounted, ram>>

\* luks+=("$name"); save_state, with errexit on.
RecordLuks ==
  /\ pc = "record" /\ Fs.kind = "luks"
  /\ LET more == [state EXCEPT !.luks = Append(@, Fs.src)] IN
     \/ Saved(more) /\ Goto("mount", i)
     \/ state' = more /\ UNCHANGED file /\ FallBehind /\ Fail
  /\ UNCHANGED <<spl, disks, ram>>

\* Mutant: every missing partition is skipped.
AnyPartitionOptional ==
  /\ AtFs("part") \/ AtFs("none")
  /\ Goto("mount", i) \/ Goto("fs", i + 1)
  /\ UNCHANGED <<memory, spl, disks, ram>>

\* A partition that is missing is skipped only with nofail; a file system
\* without a device (tmpfs) needs nothing.
ResolvePartition ==
  /\ AtFs("part") \/ AtFs("none")
  /\ \/ Goto("mount", i)
     \/ Fs.kind = "part" /\ Fs.nofail /\ Goto("fs", i + 1)
     \/ Fs.kind = "part" /\ ~Fs.nofail /\ Fail
  /\ UNCHANGED <<memory, spl, disks, ram>>

\* The root of a read-only unlock is a RAM overlay over the real one.
Overlaid == Fs.point = Root /\ state.mode = "ro"

MountAt(what, next, n) ==
  /\ \/ mounted' = mounted \cup {what} /\ Goto(next, n)
     \/ UNCHANGED mounted /\ Fail
  /\ UNCHANGED <<memory, spl, label, imported, opened, ram>>

Mount        == pc = "mount" /\ ~Overlaid /\ MountAt(Fs.point, "fs", i + 1)
MountLower   == pc = "mount" /\ Overlaid /\ MountAt(Lower, "upper", i)
MountUpper   == pc = "upper" /\ MountAt(Upper, "overlay", i)
MountOverlay == pc = "overlay" /\ MountAt(Root, "fs", i + 1)

-----------------------------------------------------------------------------
\* The rest of do_unlock.

AtExtra == pc = "extra" /\ i <= Len(ExtraPools[state.host])

\* A pool of boot.zfs.extraPools that cannot be imported is skipped, unless the
\* operator was asked for it and gave no answer.
ImportExtra ==
  /\ AtExtra
  /\ \/ ~InList(ExtraPools[state.host][i], state.pools)
        /\ ZpoolImport(ExtraPools[state.host][i])
        /\ Goto("recordExtra", i)
     \/ UNCHANGED <<label, imported>> /\ Goto("extra", i + 1)
     \/ /\ ~InList(ExtraPools[state.host][i], state.pools)
        /\ Ambiguous(ExtraPools[state.host][i])
        /\ UNCHANGED <<label, imported>> /\ Fail
  /\ UNCHANGED <<memory, spl, opened, mounted, ram>>

\* mount_pool_datasets of the i-th pool: a key that cannot be loaded ends the
\* unlock, a dataset that cannot be mounted does not.
MountDatasets ==
  /\ pc = "datasets" /\ i <= Len(state.pools)
  /\ \/ mounted' \in {mounted, mounted \cup {Below}} /\ Goto("datasets", i + 1)
     \/ UNCHANGED mounted /\ Fail
  /\ UNCHANGED <<memory, spl, label, imported, opened, ram>>

\* bind_persistence never fails; the /etc/NIXOS marker of a read-write unlock
\* can.
BindPersistence ==
  /\ pc = "datasets" /\ i > Len(state.pools)
  /\ mounted' \in {mounted, mounted \cup {Below}}
  /\ Goto("identity", 1) \/ (state.mode = "rw" /\ Fail)
  /\ UNCHANGED <<memory, spl, label, imported, opened, ram>>

SaveIdentity(what) == Saved([state EXCEPT !.identity = what])

\* A key of another host refuses a read-write unlock.
Refused(what) == what = "mismatch" /\ state.mode = "rw"

\* unlock_identity: what the key on the disks is decides whether the secrets
\* are decrypted with it.  ssh-keygen, ln and save_state can fail.
CheckIdentity ==
  /\ pc = "identity"
  /\ \/ \E what \in {"missing", "mismatch", "none"} :
          /\ SaveIdentity(what)
          /\ \/ Refused(what) /\ Fail
             \/ ~Refused(what) /\ Finish("unlocked")
          /\ UNCHANGED keyLink
     \/ keyLink' = TRUE /\ UNCHANGED memory /\ Goto("sops", 1)
     \/ UNCHANGED <<memory, keyLink>> /\ Fail
  /\ UNCHANGED <<spl, disks, secrets>>

\* systemctl restart sops-install-secrets.service; it mounts before it
\* decrypts, so a failure can leave the mount behind.
DecryptSecrets ==
  /\ pc = "sops"
  /\ \/ secrets' = TRUE /\ Goto("decrypted", 1)
     \/ secrets' \in {secrets, TRUE} /\ Goto("failed", 1)
  /\ UNCHANGED <<memory, spl, disks, keyLink>>

SaveDecrypted ==
  /\ pc \in {"decrypted", "failed"}
  /\ \/ /\ SaveIdentity(IF pc = "decrypted" THEN "unlocked" ELSE "failed")
        /\ Finish("unlocked")
     \/ UNCHANGED memory /\ Fail
  /\ UNCHANGED <<spl, disks, ram>>

-----------------------------------------------------------------------------
\* do_lock.  A failing step ends the command with the state file in place, so
\* that `rescue lock` can be run again.

\* Mutant: a busy secrets mount does not stop the lock.
WipeBestEffort ==
  /\ pc = "lockSecrets"
  /\ secrets' \in {FALSE, secrets} /\ Goto("unlink", 1)
  /\ UNCHANGED <<memory, spl, disks, keyLink>>

WipeSecrets ==
  /\ pc = "lockSecrets"
  /\ \/ secrets' = FALSE /\ Goto("unlink", 1)
     \/ secrets /\ UNCHANGED secrets /\ Finish("error")
  /\ UNCHANGED <<memory, spl, disks, keyLink>>

UnlinkKey ==
  /\ pc = "unlink"
  /\ \/ keyLink' = FALSE /\ Goto("umountRoot", 1)
     \/ UNCHANGED keyLink /\ Finish("error")
  /\ UNCHANGED <<memory, spl, disks, secrets>>

BelowRoot == mounted \ {Root, Lower, Upper}

\* umount -R works from the leaves up and stops at the first busy one.
UmountRoot ==
  /\ pc = "umountRoot"
  /\ \/ Root \notin mounted /\ UNCHANGED mounted /\ Goto("umountLower", 1)
     \/ /\ Root \in mounted
        /\ mounted' = mounted \cap {Lower, Upper}
        /\ Goto("umountLower", 1)
     \/ /\ Root \in mounted
        /\ \E gone \in SUBSET BelowRoot : mounted' = mounted \ gone
        /\ Finish("error")
  /\ UNCHANGED <<memory, spl, label, imported, opened, ram>>

UmountLayer(where, layer, next) ==
  /\ pc = where
  /\ \/ mounted' = mounted \ {layer} /\ Goto(next, Len(state.pools))
     \/ layer \in mounted /\ UNCHANGED mounted /\ Finish("error")
  /\ UNCHANGED <<memory, spl, label, imported, opened, ram>>

UmountLower == UmountLayer("umountLower", Lower, "umountUpper")
UmountUpper == UmountLayer("umountUpper", Upper, "export")

\* zpool export writes the labels of a pool that was imported read-write.
LabelExported(n) ==
  IF imported[n].mode = "rw"
  THEN [label EXCEPT ![imported[n].guid] = Written(TRUE)]
  ELSE label

\* Mutant: a pool that is gone already is not stepped over.
ExportStuck ==
  /\ pc = "export" /\ i > 0
  /\ LET n == state.pools[i] IN
     \/ /\ imported[n] = None /\ UNCHANGED <<label, imported>>
        /\ Goto("export", i)
     \/ /\ imported[n] # None
        /\ imported' = [imported EXCEPT ![n] = None]
        /\ label' = LabelExported(n)
        /\ Goto("export", i - 1)
     \/ /\ imported[n] # None
        /\ Finish("error") /\ UNCHANGED <<label, imported>>
  /\ UNCHANGED <<memory, spl, opened, mounted, ram>>

\* The recorded pools, last imported first.
ExportPool ==
  /\ pc = "export" /\ i > 0
  /\ LET n == state.pools[i] IN
     \/ /\ imported[n] = None
        /\ Goto("export", i - 1) /\ UNCHANGED <<label, imported>>
     \/ /\ imported[n] # None
        /\ imported' = [imported EXCEPT ![n] = None]
        /\ label' = LabelExported(n)
        /\ Goto("export", i - 1)
     \/ /\ imported[n] # None
        /\ Finish("error") /\ UNCHANGED <<label, imported>>
  /\ UNCHANGED <<memory, spl, opened, mounted, ram>>

\* Mutant: `cryptsetup close ... || true`.
CloseBestEffort ==
  /\ pc = "close" /\ i > 0
  /\ opened' \in {opened, [opened EXCEPT ![state.luks[i]] = None]}
  /\ Goto("close", i - 1)
  /\ UNCHANGED <<memory, spl, label, imported, mounted, ram>>

CloseLuks ==
  /\ pc = "close" /\ i > 0
  /\ LET n == state.luks[i] IN
     \/ opened' = [opened EXCEPT ![n] = None] /\ Goto("close", i - 1)
     \/ opened[n] # None /\ UNCHANGED opened /\ Finish("error")
  /\ UNCHANGED <<memory, spl, label, imported, mounted, ram>>

\* Mutant: the host id stays.
HostIdNotRestored ==
  /\ pc = "close" /\ i = 0 /\ Goto("remove", 1)
  /\ UNCHANGED <<memory, spl, disks, ram>>

RestoreHostId ==
  /\ pc = "close" /\ i = 0
  /\ \/ /\ spl' = IF state.hostid # None THEN state.hostid ELSE spl
        /\ Goto("remove", 1)
     \/ state.hostid # None /\ UNCHANGED spl /\ Finish("error")
  /\ UNCHANGED <<memory, disks, ram>>

\* rm -f "$state_file"; then `rescue unlock` of another target goes on.
RemoveState ==
  /\ pc = "remove"
  /\ \/ /\ state' = None /\ file' = None
        /\ \/ /\ cmd = "relock"
              /\ pc' = "save" /\ i' = 1 /\ cmd' = "unlock"
              /\ UNCHANGED <<goal, result>>
           \/ cmd = "lock" /\ Finish("locked")
           \/ cmd = "rollback" /\ Finish("error")
     \/ UNCHANGED <<state, file>> /\ Finish("error")
  /\ UNCHANGED <<saves, spl, disks, ram>>

-----------------------------------------------------------------------------
\* The environment.

\* ZFS rewrites the label of a pool it has open for writing now and then.
SyncLabel(n) ==
  /\ imported[n] # None /\ imported[n].mode = "rw"
  /\ label' = [label EXCEPT ![imported[n].guid] = Written(FALSE)]
  /\ UNCHANGED <<memory, spl, imported, opened, mounted, ram, control>>

\* The rescue system runs from RAM: all but the labels is gone after a reboot.
PowerLoss ==
  /\ state' = None /\ file' = None /\ spl' = BootId
  /\ saves' = IF saves = "behind" THEN "good" ELSE saves
  /\ imported' = [n \in PoolNames |-> None]
  /\ opened' = [n \in LuksNames |-> None]
  /\ mounted' = {} /\ secrets' = FALSE /\ keyLink' = FALSE
  /\ Finish("none")
  /\ UNCHANGED label

\* Ctrl-C at a prompt, a closed terminal, SIGKILL: the command stops between
\* two of its steps, and nothing rolls back.
Kill ==
  /\ pc # "idle"
  /\ Forget /\ Finish("none")
  /\ UNCHANGED <<file, spl, disks, ram>>

-----------------------------------------------------------------------------
Init ==
  /\ state = None /\ file = None /\ saves = "good" /\ spl = BootId
  /\ label \in InitLabels
  /\ imported = [n \in PoolNames |-> None]
  /\ opened = [n \in LuksNames |-> None]
  /\ mounted = {} /\ secrets = FALSE /\ keyLink = FALSE
  /\ pc = "idle" /\ i = 1 /\ cmd = "none" /\ goal = None /\ result = "none"

Command ==
  /\ saves = "lost" => GoesOn
  /\ \/ \E h \in Hosts, m \in Modes :
          UnlockFresh(h, m) \/ UnlockAgain(h, m) \/ UnlockOther(h, m)
     \/ LockCommand

UnlockStep ==
  \/ SaveFirst \/ SaveHostId \/ AdoptHostId
  \/ ImportFs \/ RecordImport \/ LoadKey
  \/ OpenLuks \/ RecordLuks \/ ResolvePartition
  \/ Mount \/ MountLower \/ MountUpper \/ MountOverlay
  \/ ImportExtra \/ MountDatasets
  \/ BindPersistence \/ CheckIdentity \/ DecryptSecrets \/ SaveDecrypted

LockStep ==
  \/ WipeSecrets \/ UnlinkKey \/ UmountRoot \/ UmountLower \/ UmountUpper
  \/ ExportPool \/ CloseLuks \/ RestoreHostId \/ RemoveState

Step == UnlockStep \/ Load \/ LockStep \/ LoopDone
Environment == PowerLoss \/ \E n \in PoolNames : SyncLabel(n)

Next == Command \/ Step \/ Environment

\* A started command is run by the shell until it ends.
Fairness == WF_vars(Step)

Spec == Init /\ [][Next]_vars /\ Fairness

\* The same, with the command killed at any point.
KillSpec == Init /\ [][Next \/ Kill]_vars /\ Fairness

-----------------------------------------------------------------------------
\* Properties.

\* Every variable keeps its type.
TypeOK ==
  /\ state \in SavedState \cup {Blank, None}
  /\ file \in SavedState \cup {Blank, None}
  /\ saves \in {"good", "behind", "lost"}
  /\ spl \in Ids
  /\ label \in [Guids -> Label]
  /\ imported \in [PoolNames -> Opening \cup {None}]
  /\ opened \in [LuksNames -> Modes \cup {None}]
  /\ mounted \subseteq Mounts
  /\ secrets \in BOOLEAN /\ keyLink \in BOOLEAN
  /\ pc \in {"idle", "save", "saveHostId", "adopt", "fs", "record", "key",
             "mount", "upper", "overlay", "extra", "recordExtra", "datasets",
             "identity", "sops", "decrypted", "failed", "load",
             "lockSecrets", "unlink", "umountRoot", "umountLower", "umountUpper", "export",
             "close", "remove"}
  /\ i \in Nat
  /\ cmd \in {"none", "unlock", "relock", "lock", "rollback"}
  /\ goal \in [host : Hosts, mode : Modes] \cup {None}
  /\ result \in {"none", "unlocked", "already", "locked", "error"}

HeldPools == {n \in PoolNames : imported[n] # None}
HeldLuks  == {n \in LuksNames : opened[n] # None}

\* Without a state file nothing of a host is left behind: no pool, no LUKS
\* device, no mount, no secret, no host key, and the image runs under its own
\* host id (docs/nixos-recovery.md: `rescue lock` wipes decrypted secrets,
\* unmounts everything, exports pools, closes LUKS devices, and restores the
\* ISO's host ID).  A rollback and a change of target release as much.  Only
\* what a lost save never named (LockUndoesAll) can stay.
LockedMeansReleased ==
  file = None =>
    /\ mounted = {} /\ ~secrets /\ ~keyLink
    /\ saves = "lost" \/ (HeldPools = {} /\ HeldLuks = {} /\ spl = BootId)

\* When no command runs, the state file names every imported pool and open LUKS
\* device, so that `rescue lock` finds them, however the last unlock ended.  This
\* holds as long as no command ended behind a save_state that failed; one whose
\* later save succeeds has caught up.
LockCanUndo ==
  pc = "idle" /\ saves # "lost" =>
    /\ \A n \in HeldPools : file # None /\ InList(n, file.pools)
    /\ \A n \in HeldLuks : file # None /\ InList(n, file.luks)

\* What rescue.sh:58 promises, "Every mutation is recorded before the next one,
\* so `lock` can undo a partial unlock": a lock or rollback that has come to its
\* end and removed the file has left no pool and no LUKS device open.
LockUndoesAll ==
  pc = "idle" /\ file = None => HeldPools = {} /\ HeldLuks = {}

\* The image's own host id is not lost: while another one is in force the state
\* file holds it.  save_state comes before the write for that reason.  The
\* exception is a file that a failed save left blank.
HostIdRecoverable ==
  spl # BootId /\ saves = "good" => file # None /\ file.hostid = BootId

\* Secrets are in RAM only while the disks their key came from are mounted
\* and recorded: they are decrypted last and wiped first.
SecretsOnlyWhileUnlocked ==
  secrets => file # None /\ Root \in mounted /\ keyLink

\* No pool label ever carries the image's host id, not even after a power loss
\* in the middle of a read-write unlock or a lock (rescue.sh:380).  A pool that
\* a lost save never named is still imported after the host id is restored.
LabelsKeepHostId == saves # "lost" => \A g \in Guids : label[g].id # BootId

\* A successful unlock has mounted every file system that is not optional.
UnlockedMeansMounted ==
  pc = "idle" /\ result = "unlocked" =>
    \A k \in 1..Len(FileSystems[state.host]) :
      FileSystems[state.host][k].nofail
        \/ FileSystems[state.host][k].point \in mounted

\* A command that runs ends: with a result, or with the machine.
CommandEnds == pc # "idle" ~> pc = "idle"

-----------------------------------------------------------------------------
\* What is held of a host, one element per resource.
Held ==
  ({"pool"} \X HeldPools) \cup ({"luks"} \X HeldLuks) \cup ({"mount"} \X mounted)
  \cup (IF secrets THEN {<<"ram", "secrets">>} ELSE {})
  \cup (IF keyLink THEN {<<"ram", "keyLink">>} ELSE {})
  \cup (IF spl # BootId THEN {<<"ram", "hostid">>} ELSE {})

Promise == INSTANCE Session WITH
  Claims    <- [host : Hosts, mode : Modes],
  Resources <- ({"pool"} \X PoolNames) \cup ({"luks"} \X LuksNames)
                 \cup ({"mount"} \X Mounts)
                 \cup ({"ram"} \X {"secrets", "keyLink", "hostid"}),
  NoClaim   <- None,
  claim     <- IF state = None \/ saves = "lost" THEN None
               ELSE [host |-> state.host, mode |-> state.mode],
  held      <- IF saves = "lost" THEN {} ELSE Held

\* The commands implement the session of module Session: whatever fails, no
\* resource is taken outside a claim, and no claim ends or changes hands while
\* one is held.  A lost save ends the comparison, as the file then knows less
\* than is held.
ImplementsSession == Promise!Spec

=============================================================================
