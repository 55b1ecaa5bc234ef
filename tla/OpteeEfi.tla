------------------------------ MODULE OpteeEfi ------------------------------
(***************************************************************************)
(* The kernel patch of host sandrone that serialises EFI runtime calls     *)
(* with OP-TEE calls (hosts/nixos/sandrone/kernel/                         *)
(* efi-optee-serialize.patch).  EFI variables live inside OP-TEE there, so *)
(* runtime firmware is a second client of the secure world, next to the    *)
(* optee driver.  The secure world wakes a thread that waits for one of    *)
(* its locks by a message to the caller of the thread that released it;    *)
(* firmware drops such messages.                                           *)
(*                                                                         *)
(* The patch holds a rw_semaphore shared around every call of the driver   *)
(* and exclusively around every queued EFI call.  The rw_semaphore (first  *)
(* come, first served), efi_runtime_lock, OP-TEE with one lock and a few   *)
(* threads, and the driver's call queue are external.                      *)
(***************************************************************************)
EXTENDS Naturals, Sequences, FiniteSets

CONSTANTS
  Callers,   \* kernel threads that call OP-TEE through the optee driver
  Services,  \* threads that call EFI runtime services
  Atomic,    \* those of them that use the non-blocking variants
  Threads,   \* threads of the secure world
  None

ASSUME OpteeAssumption ==
  /\ Atomic \subseteq Services /\ Callers \cap Services = {}
  /\ None \notin Callers \cup Services
  /\ Threads \in Nat \ {0}

VARIABLES
  line,     \* clients asleep on the rw_semaphore, first come first
  readers,  \* callers that hold it shared
  writer,   \* the service that holds it exclusively
  efiLock,  \* the holder of efi_runtime_lock
  pc,       \* where each client is
  holder,   \* the client whose secure thread holds the lock inside OP-TEE
  bypassed  \* history: a non-blocking service has been called

vars == <<line, readers, writer, efiLock, pc, holder, bypassed>>

Clients == Callers \cup Services

\* Clients whose call occupies a thread of the secure world.
Inside == {c \in Clients : pc[c] \in {"in", "waits", "woken", "holds"}}

\* Clients between the two ends of their call.
Calling == {c \in Clients : pc[c] \notin {"idle", "line"}}

-----------------------------------------------------------------------------
\* efi_runtime_tee_lock_shared.  (Every down is a place in the line; an empty
\* line and a free semaphore admit at once.)
LockShared(c) ==
  /\ c \in Callers /\ pc[c] = "idle"
  /\ pc' = [pc EXCEPT ![c] = "line"]
  /\ line' = Append(line, c)
  /\ UNCHANGED <<readers, writer, efiLock, holder, bypassed>>

\* Mutant: EFI work is queued as before the patch.
QueueUnserialised(s) ==
  /\ s \in Services \ Atomic /\ pc[s] = "idle" /\ efiLock = None
  /\ efiLock' = s
  /\ pc' = [pc EXCEPT ![s] = "enter"]
  /\ UNCHANGED <<line, readers, writer, holder, bypassed>>

\* __efi_queue_work, under efi_runtime_lock, up to its down_write.
QueueWork(s) ==
  /\ s \in Services \ Atomic /\ pc[s] = "idle" /\ efiLock = None
  /\ efiLock' = s
  /\ pc' = [pc EXCEPT ![s] = "line"]
  /\ line' = Append(line, s)
  /\ UNCHANGED <<readers, writer, holder, bypassed>>

\* Mutant: a non-blocking service does not try efi_runtime_lock.
CallAtomicAnyway(s) ==
  /\ s \in Atomic /\ pc[s] = "idle"
  /\ efiLock' = s
  /\ pc' = [pc EXCEPT ![s] = "enter"]
  /\ bypassed' = TRUE
  /\ UNCHANGED <<line, readers, writer, holder>>

\* A non-blocking service: efi_runtime_lock is tried, the semaphore is not.
CallAtomic(s) ==
  /\ s \in Atomic /\ pc[s] = "idle" /\ efiLock = None
  /\ efiLock' = s
  /\ pc' = [pc EXCEPT ![s] = "enter"]
  /\ bypassed' = TRUE
  /\ UNCHANGED <<line, readers, writer, holder>>

\* Mutant: a lock without a line, which lets callers in before a service that
\* waits for the callers to be gone.
AdmitCallersFirst ==
  /\ line # <<>> /\ writer = None
  /\ \E i \in 1..Len(line) : LET c == line[i] IN
       /\ IF c \in Callers
          THEN readers' = readers \cup {c} /\ writer' = writer
          ELSE readers = {} /\ writer' = c /\ readers' = readers
       /\ pc' = [pc EXCEPT ![c] = "enter"]
       /\ line' = SubSeq(line, 1, i - 1) \o SubSeq(line, i + 1, Len(line))
  /\ UNCHANGED <<efiLock, holder, bypassed>>

\* The semaphore admits the head of the line.
Admit ==
  /\ line # <<>> /\ writer = None
  /\ LET c == Head(line) IN
       /\ IF c \in Callers
          THEN readers' = readers \cup {c} /\ writer' = writer
          ELSE readers = {} /\ writer' = c /\ readers' = readers
       /\ pc' = [pc EXCEPT ![c] = "enter"]
  /\ line' = Tail(line)
  /\ UNCHANGED <<efiLock, holder, bypassed>>

\* The call enters the secure world if that has a thread left.
Enter(c) ==
  /\ pc[c] = "enter" /\ Cardinality(Inside) < Threads
  /\ pc' = [pc EXCEPT ![c] = "in"]
  /\ UNCHANGED <<line, readers, writer, efiLock, holder, bypassed>>

\* It has not: the driver sleeps in its call queue, the semaphore in hand.
\* (Firmware tries again at once.)
Busy(c) ==
  /\ c \in Callers /\ pc[c] = "enter" /\ Cardinality(Inside) >= Threads
  /\ pc' = [pc EXCEPT ![c] = "asleep"]
  /\ UNCHANGED <<line, readers, writer, efiLock, holder, bypassed>>

\* queue_work may find its work queued already; nothing is called then.
QueueFails(s) ==
  /\ s \in Services \ Atomic /\ pc[s] = "enter"
  /\ pc' = [pc EXCEPT ![s] = "out"]
  /\ UNCHANGED <<line, readers, writer, efiLock, holder, bypassed>>

\* Mutant: the driver gives the semaphore back while it waits in the RPC.
WaitUnlocked(c) ==
  /\ c \in Callers /\ pc[c] \in {"in", "woken"} /\ holder # None
  /\ pc' = [pc EXCEPT ![c] = "waits"] /\ readers' = readers \ {c}
  /\ UNCHANGED <<line, writer, efiLock, holder, bypassed>>

\* Inside OP-TEE: a call that needs no lock, one that gets it, and one that
\* waits for it, asleep in an RPC of its caller.  (Firmware resumes the RPC
\* unhandled and tries again.)
Plain(c) ==
  /\ pc[c] = "in"
  /\ pc' = [pc EXCEPT ![c] = "out"]
  /\ UNCHANGED <<line, readers, writer, efiLock, holder, bypassed>>

Take(c) ==
  /\ pc[c] \in {"in", "woken"} /\ holder = None
  /\ pc' = [pc EXCEPT ![c] = "holds"] /\ holder' = c
  /\ UNCHANGED <<line, readers, writer, efiLock, bypassed>>

Wait(c) ==
  /\ c \in Callers /\ pc[c] \in {"in", "woken"} /\ holder # None
  /\ pc' = [pc EXCEPT ![c] = "waits"]
  /\ UNCHANGED <<line, readers, writer, efiLock, holder, bypassed>>

Waiting == {w \in Clients : pc[w] = "waits"}

\* The lock is released; the notification for a waiter goes through the caller
\* of the releasing thread, and is lost in firmware.
Release(c) ==
  /\ pc[c] = "holds" /\ holder' = None
  /\ IF c \in Callers /\ Waiting # {}
     THEN \E w \in Waiting : pc' = [pc EXCEPT ![c] = "out", ![w] = "woken"]
     ELSE pc' = [pc EXCEPT ![c] = "out"]
  /\ UNCHANGED <<line, readers, writer, efiLock, bypassed>>

Asleep == {w \in Callers : pc[w] = "asleep"}

\* Mutant: the sleeper of the call queue is not woken.
FinalWithoutWake(c) ==
  /\ c \in Callers /\ pc[c] = "out"
  /\ pc' = [pc EXCEPT ![c] = "idle"]
  /\ readers' = readers \ {c}
  /\ UNCHANGED <<line, writer, efiLock, holder, bypassed>>

\* optee_cq_wait_final wakes a sleeper of the call queue, then the semaphore
\* is released.
Final(c) ==
  /\ c \in Callers /\ pc[c] = "out"
  /\ IF Asleep # {}
     THEN \E w \in Asleep : pc' = [pc EXCEPT ![c] = "idle", ![w] = "enter"]
     ELSE pc' = [pc EXCEPT ![c] = "idle"]
  /\ readers' = readers \ {c}
  /\ UNCHANGED <<line, writer, efiLock, holder, bypassed>>

\* The runtime call is over: up_write, and efi_runtime_lock after it.
Completed(s) ==
  /\ s \in Services /\ pc[s] = "out"
  /\ pc' = [pc EXCEPT ![s] = "idle"]
  /\ writer' = IF s \in Atomic THEN writer ELSE None
  /\ efiLock' = None
  /\ UNCHANGED <<line, readers, holder, bypassed>>

-----------------------------------------------------------------------------
Init ==
  /\ line = <<>> /\ readers = {} /\ writer = None /\ efiLock = None
  /\ pc = [c \in Clients |-> "idle"] /\ holder = None /\ bypassed = FALSE

Proceed(c) ==
  \/ Enter(c) \/ Busy(c) \/ QueueFails(c) \/ Plain(c) \/ Take(c) \/ Wait(c)
  \/ Release(c) \/ Final(c) \/ Completed(c)

Next ==
  \/ \E c \in Clients : LockShared(c) \/ QueueWork(c) \/ CallAtomic(c) \/ Proceed(c)
  \/ Admit

\* A thread that can run runs; a semaphore that is free is given away.
Fairness == WF_vars(Admit) /\ \A c \in Clients : WF_vars(Proceed(c))

Spec == Init /\ [][Next]_vars /\ Fairness

-----------------------------------------------------------------------------
\* Properties.

States == {"idle", "line", "enter", "asleep", "in", "waits", "woken", "holds", "out"}

\* Every variable keeps its type.
TypeOK ==
  /\ line \in Seq(Clients)
  /\ readers \subseteq Callers /\ writer \in Services \cup {None}
  /\ efiLock \in Services \cup {None}
  /\ pc \in [Clients -> States] /\ holder \in Clients \cup {None} /\ bypassed \in BOOLEAN

\* The secure world never sees both clients at once: no call of the driver is
\* under way, not even asleep, while a queued EFI call is.
OneClient ==
  \A c \in Callers, s \in Services \ Atomic : ~(c \in Calling /\ s \in Calling)

\* EFI runtime calls, the non-blocking ones included, are made one at a time.
OneService ==
  \A s, t \in Services : s \in Calling /\ t \in Calling => s = t

WakeupComing ==
  Waiting # {} => holder \in Callers \/ \E c \in Callers : pc[c] = "woken"

ThreadComing ==
  Asleep # {} => \E c \in Callers : pc[c] \in {"enter", "in", "waits", "woken", "holds", "out"}

\* Until a non-blocking service bypasses the semaphore: a caller that waits for a
\* lock of OP-TEE has a wake-up coming, since a caller holds the lock, or one that
\* has been woken is about to take it.
NoLostWakeup == bypassed \/ WakeupComing

\* As long, a caller asleep for want of a secure thread has one coming.
NoLostThread == bypassed \/ ThreadComing

\* As long, an EFI call that was queued comes back, however busy the driver is.
QueuedCallReturns ==
  \A s \in Services \ Atomic : pc[s] = "line" ~> (pc[s] = "idle" \/ bypassed)
=============================================================================
