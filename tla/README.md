# A verification of serenitea-pot

The repository is a Nix flake: the declarations of a dozen machines, and a
number of programs written for them (shell and Python scripts, C and C++ audio
plugins, kernel patches). The declarations are evaluated once and have no
behaviour of their own; this project is about the programs that change state
over time, can be interrupted, or run next to others.

Run `tlc -config X.cfg M` for a row of the table of runs, and `tlapm XProofs.tla`
for the proofs. `PROJECT.json` has the same information in machine-readable
form, with the source lines of every definition.

## 1. The system

### Components with behaviour of their own

| component | state it keeps | operations | what is hard | what makes it correct |
|---|---|---|---|---|
| Rescue CLI (`packages/installer-iso/rescue`) | `state.json`, the image's host id, imported pools, open LUKS devices, mounts, decrypted secrets | `unlock [--rw] host`, `lock` | every step is an external program that fails; rollback that fails; kills; power loss with pools imported read-write | a lock releases all; what is held is recorded, unless recording fails; labels keep the host's id; one mode at a time; secrets never outlive their disks |
| EFI / OP-TEE serialisation (`hosts/nixos/sandrone/kernel/efi-optee-serialize.patch`) | a rw_semaphore between the OP-TEE driver and the EFI firmware | `efi_runtime_tee_lock_shared`, `__efi_queue_work`, the driver's three call loops | threads suspended in the secure world, wake-ups that travel through whoever calls for it, starvation | the two clients never overlap; no wake-up and no freed thread is lost; a queued EFI call returns |
| Redrix speaker gain (`overlays/24-redrix-firmware/redrix-cras-dsp.c`) | per channel: gain, target, step, frames left, percentage | instantiate, activate, run, deactivate, cleanup, two volume ports | ramps interrupted by ramps, rounded steps, NaN controls | never boosted, no jump at the end of a ramp, a steady volume is reached |
| Redrix CRAS DSP (same file) | an instance and two filters on the heap, five ports | instantiate, connect, activate, run in chunks, deactivate, cleanup | an allocation fails half way; ports that share memory; a host that is not told | nothing leaks or dangles; a stream starts on clean filters; each frame is filtered once |
| Redrix microphone APM (`redrix-mic-apm.cpp`) | two 10 ms blocks, an offset, volumes, a latency port | instantiate, activate, run, deactivate, cleanup | calls of any length, ports that share memory, failures inside a call | the host gets the stream one block later, silence after a failure |
| Plugin check (`check-plugin.c`) | the arrays of a test host | `main`: every test, call by call | three plugins under one host; failures that a test may not see | it refuses no plugin that works, and passes over no failure it could see |
| Stock topology check (`check-stock-topology.c`) | a position in a binary file, three counts | headers, records, skipped blocks | sizes and counts that disagree, a file that is cut | what passes was read from end to end and has each route once |
| Microphone route check (`check-microphone-route.c`) | none | sets and reads elements of one ALSA control | decided by the sound library | as declared |
| Redrix firmware updater (`apps/redrix-flash`) | a lock file, a fwupd drop-in, flash contents, a queued EC reset | `ec-rw`, `coreboot`, the EXIT trap | signals, an orphaned programmer, D-Bus activation, answers that are stale after a prompt | one programmer at a time; fwupd stays out; no reset into a torn image; the operator is told |
| Impermanence wipe (`modules/nixos/system/impermanence`) | ZFS datasets or btrfs subvolumes and their `@empty` | the shutdown scripts | power loss between any two commands, commands that fail | `@empty` is empty; a run that ends has wiped, and has left an `@empty`, wherever it took a turn |
| USB4 mode entry (`hosts/nixos/odette/kernel`) | requested mode, mux flags, a delayed work | mux event, time-out, partner and driver removal | a time-out racing the event that confirms; a controller that drops requests in silence; a driver that goes | a request ends once, in USB4 or in mode selection, and only after its full time |
| ZFS TPM unlock, Clevis (`modules/nixos/system/{zfs-unlock,clevis}`) | PCR 15, key status of each dataset | extend, TPM unlock, password, extend again | order of extensions over several devices, each of which fails | a failure ends at the prompt; a boot that goes on has all datasets unlocked |
| Secrets app (`apps/secrets`) | `.sops.yaml`, encrypted documents, git index | sync, check, create, edit, rekey | a stage of a pipeline fails after a later one has written | a document is never replaced by an empty or half-written one |
| NVIDIA idle quirk (`hosts/nixos/paimon`) | per GPU: idle timer, clock lock | polling loop, SIGTERM | a signal at any line | a lock is always released |
| DBX manager (`apps/dbxmgr`) | the dbx EFI variable and its immutable flag | status, apply, update | failure between clearing and restoring the flag | the flag ends as it began; records are only added |
| Intune registration (`modules/nixos/services/intune`) | the broker's registration | query, token, register, verify, stop sessions | a call that times out after it took effect | no second registration; sessions are stopped after a success |
| LiteLLM hook, Codex merge, model updaters | none, or one file | a pure function and an atomic replace | nested data, retries that reuse the input | the input is not mutated; the file is old or new |

### Everything else

Image and key tools (`mkimg`, `mkjwe`, `mkzfscreds`, `chkexp`) are straight-line
wrappers. The service modules, the hosts, the home and darwin modules, the
Terraform configuration, the secrets registry, UPS, Open vSwitch, the PipeWire
graphs, the library, the overlays and the CI workflows are declarations: what
runs is NixOS, systemd, NUT, Open vSwitch, PipeWire, none of which is here.
`acpi-power-state.patch` and `kernel-fixes.patch` touch drivers whose control
flow is not in the repository.

### How components interact

Most components run on different machines or at different times, and share
nothing but the disks: *rescue* mounts what the *impermanence* wipe has left and
must leave pools that *zfs-unlock* can import at the next boot (the host id in
the label is the only state that passes, and it is part of module `Rescue`).
*redrix-flash* meets fwupd, systemd and D-Bus, the OP-TEE patch meets the
firmware, and the USB4 patches meet the embedded controller, the work queues and
the rest of the driver; these partners are external and are part of the modules.

The three audio plugins meet in one place of the repository, `check-plugin`,
which is built with them and drives all three through every call they have. Module
`CheckPlugin` is that composition: it instantiates `CrasDsp`, `SpeakerGain` and
`MicApm` and steps each through its own actions. `Rescue` implements the abstract
`Session`, `TypecUsb4` the abstract `ModeEntry`.

## 2. Modules

One module per component, an `MC` module and a configuration per run, and a
`Proofs` module that extends the component's. Two of these are about two
components: `KernelProofs` about both kernel patches (`OpteeEfi`, `TypecUsb4`),
`ShellProofs` about both shell programs (`Rescue`, `WipeRoot`); names that both
would have are prefixed in one (`Usb4Spec`, `WipeSpec`).

### Rescue, Session

One step is one external program or one rewrite of `state.json`. `pc` is the
place in the script, `i` the index of its current loop; `state` stands for the
shell variables and `file` for what `load_state` makes of `state.json`: `Saved` is
`save_state` to its end, `Forget` the loss of the variables when the subshell or
the command ends, `Blank` what is loaded from an empty file. The machine is `spl`
(the host id in force), `label` (what each pool carries on disk), `imported`,
`opened`, `mounted`, `secrets`, `keyLink`. Every program that acts may fail, which is `Fail` (an unlock rolls back by the code of `lock`) or the end of
the command (a lock stops where it is and may be run again). `PowerLoss` clears
the RAM and leaves the labels; `SyncLabel` is ZFS rewriting a label at any time.
`Kill` is in `KillSpec` only.

`save_state` is `jq` and `mv` and fails like any program. Where errexit is on
(`RecordLuks` and the saves of `do_unlock`) that ends the unlock, which rolls back
from the file as it is. Inside `import_pool ... ||` (287, 393) it is off: after a
`jq` that fails, `mv` installs an empty file, and the unlock goes on
(`RecordPool`). `saves` remembers this: "behind" while the variables know more than
the file, "good" again once a later save succeeds, "lost" for good when the
variables are dropped first. What a state with a lost save no longer promises is
said by each property, and finding 1 is what can follow.

`Session` says what an operator may rely on: a claim on one host in one mode,
resources taken only under a claim, and a claim that ends only when nothing is
held.

Not modelled: two concurrent `rescue` commands (one console, one operator; the
script claims nothing for it), the wording of messages, the choice of a
partition by label. Queries (`zpool list`, `mountpoint -q`, the `jq` that reads the
manifest and the state file) are taken to answer: the script takes one that fails
for an answer too, and a lock may then pass over what is held.

### OpteeEfi

A client (a driver caller or an EFI service) goes from `idle` through the line
of the semaphore into the secure world, may wait for a lock that another thread
holds there, and comes out. The three call loops the patch brackets are one kind
of caller. The line is fair, as that of the kernel's rw_semaphore. Services in
`Atomic` are the non-blocking ones, which the patch leaves out: their `CallAtomic`
bypasses the semaphore. OP-TEE itself, its lock and its notifications are
external and modelled from how the driver loops use them: a wake-up is delivered
through the client whose call releases the lock, and lost if that is firmware.

`bypassed` remembers that a non-blocking service was called. From then on
callers may be stranded, which is a limit the patch states (the non-blocking paths
"cannot sleep and stay as they are") and not a disagreement.

### TypecUsb4, ModeEntry

The port work runs in the steps in which others can come between: it reads the
port, reads the mux, adds or removes the partner, asks for the first step
(`RegisterAltmodes`) and settles the request (`UpdateUsbMode`). `usb_mode_req`
and `mux_flags` are the driver's. A delayed work item is `armed`, then `queued`
on a workqueue that may be frozen, then its handler runs; `Pending` is
`delayed_work_pending`. The controller obeys, refuses (`RequestFails`) or drops
(`EcActs`) what it is asked for, and changes modes by itself. The driver's life
is the order of `probe`, with the notifier registered before the first update,
and of `remove`. A read that fails ends the update (`ReadFails`): a request then
waits for the next notification, which is what the code does and what
`NeverStranded` and `PartnerServed` except.

`ModeEntry` is what the patch promises of a partner, without reads, timers and work
items: it is asked for USB4 at most once, never while the mux was last seen in
another high-speed mode, and gets one outcome that lasts until it goes.
`EntryStage` maps the driver's variables to its stages.

`asked`, `armed` and `due` number the requests and the timers set for them,
`confirmed` and `selected` count outcomes of the present partner; nothing but the
properties reads them.

### SpeakerGain

`Retargeted`, `Advanced` and `Frame` are `speaker_set_target`,
`advance_speaker_gain` and one iteration of `speaker_run`. A gain is an integer,
`Full` of them are unity. The rounding of `float` is coarser here than in the
code: a step is a whole number, so that a gain may miss its target by less than a
unit a frame (`Slack`) until the last frame assigns the target. The curve is a
constant function of 0..100; the samples are left out. `frames` counts the
frames left of a call.

### CrasDsp

`heap` maps the addresses in use to the frames the filter there has processed;
`drc_new`, `eq2_new` and `eq2_append_biquad` fail at any call, which leaves
`newDrc` and `newEq` to be freed. `ports` is what the host connected, null
included, `mem` the host's buffers, several ports to one of which is how a host
processes in place. A frame in `mem` is the host's, or names what each filter had
seen when it came out, so that a frame filtered twice, out of order or across
channels shows. `call` remembers the call that has returned, for `StreamFiltered`.

### MicApm

`buf` is the host's memory: ports are references to buffers, several of which
may be the same, and null ones. A sample is the triple of its stream, channel and
number, so that a block shows where each of its samples comes from. APM maps a
block to the block of its processed samples, or fails; the reset of `activate`
fails too. `dead` remembers when.

### CheckPlugin

`Script` is the program as a sequence of calls and assertions, built from one
operator per function of the source (`TestDspLifecycle`, `TestSpeakerRamps`,
`RunMic`, ...), and `at` the next of them. A call is an action of the plugin's own
module; the plugin's further steps come before the next line. The arrays of the
program are cut into the window a call may see (`View`, `Back`). Allocations,
filters, resets and blocks may fail; `faults` and `deaths` remember which did.
Assertions are those of the source, on what the modules know of a signal: where it
comes from and its gain; `AssertRate` is the one that APM is refused at 44100. How
loud a signal is after APM or CRAS is external, and the assertions on that are left
out.

Lengths go through `Scale`, which keeps their order (a quantum of one frame, below,
at and above a block and the compressor's room). One of the three rates is
tried; the curve test's 48000 is 2000 frames a second here.

The comment at `check-plugin.c:428` ("A broken/missing processor must not pass by
silencing.") holds up to what `FaultsAreSeen` states: APM that stops
after its first block, at the same frame of every stream that is compared, makes
reference and output equally silent from there on and passes.

### StockTopology

A file is a row of cells, one per structure the reader takes in one piece. What a
cell holds is chosen when it is read: a header with any count and payload, right
or wrong, a record that fits its route or not, something else. `pos` moves as
`fread` and `fseek` move it, past the end of the file included, and `cut` says
that part of a cell follows the whole ones. A file cut inside data the reader
seeks over passes when the sizes agree: the code has no test for it, and the
model allows it.

### RedrixFlash

One element of `Apps` per invocation, `pc` its place in the script, `child` the
programmer it waits for (and that a SIGKILL leaves behind with the lock), `tee`
the writer of its log: a Ctrl-C kills that first. fwupd is up or down and may be
started by D-Bus unless a start condition is loaded. An operator may queue an EC
reset at any time before a prompt is answered. An invocation ends as `done`,
`dead` (SIGKILL) or `cut` (a signal ended it in its trap).

Not modelled: `status` (it writes nothing), the preparation of the image (which
bytes of which region are kept), and loss of power, against which the README
asks for AC.

### WipeRoot

The roots are dealt with in any order; `at` is the one in its turn and `step` its
place in the script. `btrfs` chooses the script and never changes. `stuck` are
the subvolumes whose deletion failed, which `|| true` swallows; `skipped` are the
roots the script passed over. Both scripts ask with a command in a condition, so
that a query that fails reads as "not there": `Skip` may pass over a dataset that
is present, `Turn` may bootstrap a root that has its `@empty`. Around it: the
running system writes to its roots, power goes, the machine boots if its `Needed`
roots are there, an operator makes a missing one again.

What is lost differs. A btrfs root that is gone between its deletion and its
restore is made again by the next shutdown that ends. A ZFS dataset that is gone
between `zfs destroy` and `zfs create` is not found by `zfs list`
(`default.nix:213`) and passed over from then on; nothing but `Remake` brings it
back, and nothing in the repository says otherwise. No property speaks of roots that
were passed over.

## 3. Runs

| run | configuration | question | result |
|---|---|---|---|
| `rescue` | MCRescue.cfg | unlock and lock in any order with failures, those of `save_state` included, and power loss, until a save is lost: six invariants, `CommandEnds`, `ImplementsSession` | holds, 863 443 states |
| `rescue_undo_all` | MCRescueUndoAll.cfg | with kills, and saves that fail, does a lock that ends undo all (`LockUndoesAll`)? | no, see findings |
| `optee_efi` | MCOpteeEfi.cfg | `OneClient`, `OneService`, `NoLostWakeup`, `NoLostThread`, `QueuedCallReturns` | holds, 6 103 states |
| `typec_usb4` | MCTypecUsb4.cfg | `NeverStranded`, `NothingAfterCancel`, `FullTime`, `ImplementsModeEntry`, `PartnerServed` | holds, 337 655 states |
| `speaker_gain` | MCSpeakerGain.cfg | gains and ramps of one channel, and `VolumeSettles` | holds, 163 680 states |
| `cras_dsp` | MCCrasDsp.cfg | `NothingLeaked`, `CleanStart` and `StreamFiltered` over five wirings | holds, 170 618 states |
| `mic_apm` | MCMicApm.cfg | `BlocksHoldStream`, `StreamDelayed` over every wiring and cut of two streams | holds, 53 352 states |
| `check_plugin` | MCCheckPlugin.cfg | `NoFalseAlarm`, `FaultsAreSeen`: the test program against the three plugins | holds, 6 109 states |
| `stock_topology` | MCStockTopology.cfg | `BlocksTile`, `RoutesOnce` over every file of up to six cells | holds, about 1.6 million states |
| `redrix_flash` | MCRedrixFlash.cfg | two invocations with failures, Ctrl-C, signals in the trap, SIGKILL | holds, 181 786 states |
| `redrix_ctrl_c` | MCRedrixCtrlC.cfg | is the drop-in removed "including on failure"? | no, see findings |
| `wipe_root` | MCWipeRoot.cfg | two roots of either kind: `EmptyIsEmpty`, `Wiped`, `EmptyMade` | holds, 4 423 states |

Every property of a passing run has a mutant in `PROJECT.json`: a definition
next to the original (`UnlockWithoutLock`, `HostIdNotAdopted`, `WaitForEvent`,
...) that changes it as a plausible bug would, and under which TLC finds the
property violated. Type correctness is proved, not run.

### Bounds, and why they are enough

* `MCRescue`: two hosts, one with an encrypted ZFS root, an optional partition, a
  LUKS disk and an extra pool, one with a LUKS root and no host id. Three pools
  of which two share a name, since choosing between them is the point of
  `select_pool`. Every branch of `do_unlock` and `do_lock` is taken by one of the
  two hosts; the number of file systems only makes the loops longer. In `rescue` no
  command is typed after a save is lost (`GoesOn` is FALSE): until then every
  property holds in full, and afterwards most except such states. What holds even
  then (`LockedMeansReleased`, `SecretsOnlyWhileUnlocked`, `CommandsShorten`) is
  proved whatever `GoesOn` is. `rescue_undo_all`, where it is TRUE, has one pool, as
  many as its scenario needs.
* `MCOpteeEfi`: three callers on two threads, so that one sleeps for want of a
  thread while another waits for the lock; two queued services, so that they
  compete for `efi_runtime_lock`; one non-blocking one.
* `MCSpeakerGain`: one channel, since channels share only the frame counter.
  `SampleRate` 20 gives ramps of 1, 2 and 10 frames; the controls 504 and 505 lie
  on two sides of a rounding boundary. The invariants are proved for every rate.
* `MCTypecUsb4`: a partner that was there at probe and one that replaces it
  (`MaxAttach` 1), which is what it takes for a late event to meet another
  partner's request. The proofs are for any number.
* `MCCrasDsp`: four addresses for an instance and two filters, so that a freed
  address is given again or not; chunks of two in calls of up to four frames;
  outputs that are separate, in place, crossed, one of each, or missing;
  `MaxStreams` 2 activations and `MaxPlayed` 5 frames stop the counters.
* `MCStockTopology`: six cells hold the three routes in two or three blocks with
  private data or one duplicate; at most three records to a block. A run ends with
  its verdict, hence no deadlock check.
* `MCCheckPlugin`: seven frames for 16385, a block of three, a compressor room of
  four. The script is finite and runs to its end.
* `MCMicApm`: blocks of three frames and calls of up to four, so that calls end
  inside, at and after a block's end. `MaxStreams` 2 and `MaxPlayed` 10 give a
  second stream over the remains of a first. At the bound the run stops, hence no
  deadlock check.
* `MCRedrixFlash`: two invocations, which is as many as can overlap (the lock
  admits one, the second meets its orphan). A machine whose BIOS is torn stops
  for good at a power cycle, hence no deadlock check.
* `MCWipeRoot`: one root the machine needs to boot and one it does not.
* `MCOpteeEfi` has no deadlock check because of the callers stranded after a
  non-blocking call.

### Fairness

* `Rescue`: `WF(Step)`: a shell that runs a command goes on to the next. Commands
  themselves and the environment are under no obligation. Programs that never
  return are not modelled; one that fails is a step.
* `OpteeEfi`: weak fairness of each client that can go on and of `Admit`: the
  kernel schedules runnable threads, and a rw_semaphore that is free is given to
  the head of its line. Arrivals are not fair, so the driver may be idle or busy
  for ever, and `QueuedCallReturns` holds against both.
* `TypecUsb4`: queued work runs to its end, an armed timer expires, its handler
  starts when the workqueue is not frozen, an event is delivered and a probe goes
  on: what the kernel guarantees. The controller owes nothing, and neither does
  whoever freezes the system or unplugs the partner; `PartnerServed` is about a
  partner that stays while the driver is bound, awake and able to read.
* `SpeakerGain`: `WF(Run)`: an active node of the graph is called again and again.
  `VolumeSettles` asks for no fairness of the volume itself: it speaks of streams
  in which it stays put.
* The other modules make safety claims only.

## 4. What is proved

All theorems are for every value of the constants, under the assumptions the
component's module states by name (and that TLC evaluates on the run's values).

* **Rescue** (`ConstantTypes`, `Devices`, `RootFirst`, `OwnHostIds`: the order and
  shape of the manifest as `host.nix` builds it, and that no pool was last
  imported by the image). `CoreInv` is inductive with kills. `HostIdRecoverable`
  alone is not inductive: `FileInv` says that the file and the variables agree
  except while a save is behind, and that such a state is either in the unlock
  or about to load the file, `HostIdInv` that the saved id is the image's own
  and is saved *before* the write, `ControlInv` that the script stands where its
  variables say, and `MountInv` that the root is mounted first and unmounted last,
  from which `SecretsOnlyWhileUnlocked` follows. Without kills `RecordInv` adds
  that what is held is in the variables or is the entry being recorded, and that a
  lock has released what its loops have passed, as long as no save is lost; with
  `FileInv`, hence `LockedMeansReleased` and `LockCanUndo`. `LostStays` is that a lost
  save stays one, which is all that is to be shown of a step behind it. `LabelInv` adds that whoever has a pool in hand or is about to
  import one runs under the installed system's host id (`LabelsKeepHostId`), and
  `DoneInv` that the loop over the file systems has mounted what it has passed
  (`UnlockedMeansMounted`). `ImplementsClaims` is the refinement: each step is one of
  `Session`'s or changes neither claim nor what is held; that a lock ends holding
  nothing is `RecordInv`. The step lemmas have one case per action.
  Of `CommandEnds` the part without fairness is proved, for any number of file
  systems, pools and devices: `Distance` is the stages a command has before it and
  the steps left in the present one, `DistanceFounded` says that such pairs are
  well-founded in the lexicographic order, and `CommandsShorten` that every step of
  a command, one that fails and rolls back included, lessens the distance, while
  whatever comes in between leaves it alone or ends the command. That a command
  under way always has a next step is left to TLC (`CommandEnds`).
* **OpteeEfi**: `TeeInv` ties the holder of the semaphore to the place of each
  client, and says that the line holds each waiting client once. `OneClient` and
  `OneService` follow for any number of each. `NoLostWakeup` and `NoLostThread` are
  inductive relative to it: the lemmas follow the wake-up from the client that
  releases the lock to the one that takes it. `NeverStalls` puts them together: with
  a call under way, either the head of the semaphore's line can be admitted or some
  client stands where its next step is enabled (`Admissible` and `Movable` are the
  guards of those steps, written out), so that the line, the driver's call queue and
  the lock inside OP-TEE never wait for each other. `InLine` is the other half of
  the line: whoever waits for the semaphore is in it.
* **TypecUsb4** (`MaxAttach` is a number): `NeverStranded` and `OneOutcome` are not
  inductive. `TypecInv` adds `RequestOpen` (an open request belongs to a
  registered partner whose modes are known and that has had no outcome),
  `TimerOwned` (the timer is the one set for this request, and is due once it has
  expired) and `Stopped` (what removal has stopped stays so). `FullTime`, an action
  property, follows from `TimerOwned` in the states it is taken from.
  `ImplementsEntry` is the refinement of `ModeEntry`: `Settled` (a known partner for
  whom nothing is requested has had its outcome) makes its stages well-defined, and
  one lemma has a case for each step that touches what a stage is made of. It
  implies `OneOutcome`, which is part of `TypecInv`.
* **SpeakerGain**: `RampInv` bounds, for each channel, the distance that the steps
  left will cover against the distance to go. The lemma `StepError` is the
  arithmetic of one rounded division, `StepBetween` that a ramp on its way lies
  between its ends. `FramesExact` and `PercentNearest` are about the two
  conversions.
* **CrasDsp** (`CrasAssumption`: the two inputs of a wiring are different buffers,
  and so are the two outputs). `Owned` ties each object on the heap to one pointer
  through the phases of an initialisation; `Unused` says that filters not processed
  since `activate` have seen nothing, from which `CleanStart` follows. For
  `StreamFiltered` the invariant splits a call at the frames still to do: ahead they
  are the host's, although outputs may share their memory, behind they are the
  filters'. The lemmas are about one chunk: the copy, then each filter in place.
* **MicApm**: `MicInv` splits each call at the current frame: ahead of it the
  inputs are untouched (although outputs may lie in the same memory), behind it
  the outputs are what the host is owed. `MicTypes` is that the offset, kept from
  call to call, stays in the block.
* **RedrixFlash**: `Base` says that whoever lives or has a programmer at work has
  the lock, so that what is said of one invocation is safe from the others;
  `Orderly` adds what the script's variables say of the flash. `EcBootable`,
  `TornIsKnown` and `FwupdReleased` follow. Nothing is assumed of the signals.
* **WipeRoot**: `WipeInv` says what the steps so far have made of the root in its
  turn and that the loop has dealt with the others or will. `EndsWiped` and
  `EndsWithEmpty` are read off it at the script's end, `SnapshotsEmpty` at any time.
* **StockTopology**, for files of any number of cells: `ChainInv` says that each
  block begins where the one before it ends and that those behind the position are
  closed and hold what their headers count, `OpenInv` how many records of the last
  one have been read, `RouteInv` that each counter is the number of cells read that
  declare its route. The lemmas are about one record (`RecordStep`), about the
  blocks that it does not touch (`ChainKept`) and about what a PCM or a link adds to
  the routes (`PcmRoutes`, `LinkRoutes`). `PassTiles` and `PassRoutes` are read off
  the invariant at the end of the file.
* **CheckPlugin** (`CheckAssumption`: lengths are positive; the frames of a stream
  are more than a block and do not end with one, since APM stopping at the very
  last frame could not be told from not stopping, 16385 being 34 blocks of 480
  and 65 frames; samples are not silence). `FaultsSeen` is `FaultsAreSeen`, and is a
  statement about a program of some thousand lines, cut into any number of
  pieces. The proof goes along *notes*: what is known before a line of the script, as
  the phase of the DSP's instance, the cells of latencies that no assertion has looked
  at, the phase of the microphone and how far its stream has come. `ScriptSteps`
  says that notes lead from the first line to the last (`Step` relates a line and the
  notes around it, `Runs` a piece of the script; concatenations are `RunsConcat`, and
  loops `RunsLoop`, whose induction takes the least turn that goes wrong).
  `CheckInv` says that what the note says is so, between lines and inside calls. For
  the DSP: a filter that fails leaves no DRC, so that the run after it reports a
  latency of zero, which is not what the assertion that is due expects
  (`LatencyPortFound` evaluates the search for the port). For the microphone:
  `Windows` describes the two blocks of the plugin, `Wanted` the samples of a stream
  as a function of the frame at which APM stopped; `FrameEffect` is one frame in
  memory that inputs and outputs share, `RunStreamStep` one call, and in
  `AssertComparedStep` two streams that agree stopped at the same frame.

### Only model-checked

* Liveness (`CommandEnds`, `QueuedCallReturns`, `VolumeSettles`, `PartnerServed`): what
  follows from fairness is not within reach of the prover, which knows nothing of
  when an action is enabled. `CommandsShorten` and `NeverStalls` are as close as
  safety comes to the first two.
* `NoFalseAlarm`: it is not true for every value of the constants. A gain of the
  model is a whole number and a step of a ramp is rounded to one, so that the
  expectations of `test_speaker_ramps` are met exactly only by gains that the
  ramps divide, as those of the run are; the code compares within a tolerance.

## 5. Findings

1. **What no record names** (`rescue_undo_all`). `rescue.sh:58` says "Every mutation
   is recorded before the next one, so `lock` can undo a partial unlock."
   `zpool import` (222) and `cryptsetup open` (263) run before the `save_state` that
   records them (224, 265), which may not be reached or may fail. A command killed in
   between leaves a pool or device that the file does not name. A save that fails
   at 265 makes the unlock roll back from a file that lacks the device, which is the
   trace TLC shows. One that fails at 224 in `jq` is passed over, since errexit is
   off there (287, 393): an empty `state.json` is installed, and the unlock goes on;
   unless a later save succeeds, the next lock finds neither pools nor host id in it.
   In each case a lock ends by removing the file with something still held.
2. **Ctrl-C and the drop-in** (`redrix_ctrl_c`). `apps/redrix-flash/README.md:52-54`
   says the app removes its drop-in and restarts fwupd, "including on failure".
   Output goes through `tee` (66), which the same Ctrl-C kills; the first `echo` of
   the trap (96) then ends the script with SIGPIPE. The warning not to reboot is
   lost with it, which is why `EcBootable` and `TornIsKnown` except invocations
   whose trap was cut short (`Untold`).

Three more places where code and documentation part were seen while modelling, in
behaviours that the modules have; no run is kept for them. A refused read-write
unlock whose rollback fails leaves host and mode in the state file, so that the
next `unlock --rw` says "already unlocked" (`rescue.sh:473`,
`docs/nixos-recovery.md:25`). Whether to restart fwupd is read at
`redrix-flash.sh:84`, before the pause, while its activation is prevented only from
line 90 on. When both deletes of a btrfs root fail (`|| true`, `default.nix:278`),
the snapshot of `@empty` lands inside the old root and the script ends without an
error with the data of the past run in place, although the option at line 98
promises that it is restored; this is why `Wiped` excepts what could not be deleted.

## 6. Not modelled

What is left has no order of steps of its own that the repository decides:

* **Secrets app**: pipelines of `jq` and `sops` over files; what can go wrong (a
  stage that fails after a later one has written) is decided by what these
  programs do with an empty input. Listed as a hazard.
* **ZFS TPM unlock**: one generated script, whose order (extend PCR 15 per device,
  unlock, ask, verify, extend again) is the repository's own and straight. What it
  leads to is decided by the policy of systemd-creds and by the TPM, which are not
  here. Listed as a hazard.
* **Clevis**: generated units, ordered by systemd.
* **NVIDIA idle quirk**: one polling loop with one window, seen by reading. Listed as
  a hazard.
* **DBX manager**: a straight line under a trap around a comparison of binary
  records.
* **Intune registration**: whether a call that timed out took effect is decided by a
  proprietary broker.
* **LiteLLM hook, Codex merge, model updaters**: pure functions of a few lines on
  foreign data, and one atomic replace each.
* **Microphone route check, image and key tools**: straight lines of calls to
  external libraries and programs.
* **Declarations** (hosts, service, home and darwin modules, Terraform, registry,
  UPS, Open vSwitch, audio graphs, library, overlays, workflows, other kernel
  patches): no transitions of their own.
* Inside modelled components: two `rescue` commands at once, `redrix-flash status`
  and the preparation of its image, the signal processing of CRAS and WebRTC, and
  the bind mounts of persisted paths.
