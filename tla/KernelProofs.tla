---------------------------- MODULE KernelProofs ----------------------------
(***************************************************************************)
(* The two kernel patches, OpteeEfi and TypecUsb4.                         *)
(*                                                                         *)
(* The semaphore of OpteeEfi keeps the two clients of the secure world     *)
(* apart, for any number of callers, services and secure threads; until a  *)
(* non-blocking one is called, no wake-up or freed thread is lost, and     *)
(* with a call under way somebody can always go on.  The invariant ties    *)
(* who holds the semaphore to where each client is in its call; the line   *)
(* behind the semaphore holds each waiting client once.                    *)
(*                                                                         *)
(* The safety properties of TypecUsb4 hold for any number of partners, and *)
(* the driver implements module ModeEntry.  The invariant adds what the    *)
(* driver never writes down: a request is that of a partner whose modes    *)
(* are known and who has had no outcome yet, its timer was set when it was *)
(* made and not before, and a time-out that is disabled stays off.         *)
(***************************************************************************)
EXTENDS OpteeEfi, TypecUsb4, FiniteSetTheorems, TLAPS

Away == {"idle", "line"}

\* The line holds the clients that wait for the semaphore, each once.
LineInv ==
  \A i \in 1..Len(line) :
    /\ line[i] \in Callers \cup (Services \ Atomic)
    /\ pc[line[i]] = "line"
    /\ \A j \in 1..Len(line) : line[j] = line[i] => j = i

\* Who is in its call holds what its kind of call takes.
SemInv ==
  /\ \A c \in Callers : c \in readers <=> pc[c] \notin Away
  /\ \A s \in Services \ Atomic : pc[s] \notin Away <=> writer = s
  /\ writer # None => readers = {} /\ writer \notin Atomic
  /\ \A s \in Services : pc[s] # "idle" => efiLock = s

\* The secure lock has the holder it names, and only callers sleep.
LockInv ==
  \A c \in Clients :
    /\ pc[c] = "holds" <=> holder = c
    /\ pc[c] \in {"asleep", "waits", "woken"} => c \in Callers

TeeInv == TypeOK /\ LineInv /\ SemInv /\ LockInv

-----------------------------------------------------------------------------
LEMMA TeeInit == Init => TeeInv
<1> SUFFICES ASSUME Init PROVE TeeInv
  OBVIOUS
<1>1. /\ line = <<>> /\ readers = {} /\ writer = None /\ efiLock = None /\ holder = None
      /\ pc \in [Clients -> States]
  BY DEF Init, States
<1>2. \A c \in Clients : pc[c] = "idle"
  BY Zenon DEF Init
<1>3. bypassed \in BOOLEAN
  BY Zenon DEF Init
<1>7. TypeOK BY <1>1, <1>3 DEF TypeOK
<1>4. LineInv BY <1>1 DEF LineInv
<1>5. SemInv BY <1>1, <1>2, OpteeAssumption DEF SemInv, Away, Clients
<1>6. LockInv BY <1>1, <1>2, OpteeAssumption DEF LockInv, Clients
<1> QED BY <1>4, <1>5, <1>6, <1>7 DEF TeeInv

\* A step that leaves the line alone and moves no client into or out of it.
LEMMA LineKept ==
  ASSUME LineInv, line' = line, \A c \in Clients : pc[c] = "line" => pc'[c] = "line",
         Callers \cup (Services \ Atomic) \subseteq Clients
  PROVE  LineInv'
BY DEF LineInv

\* A client that joins the line was not in it.
LEMMA LineJoined ==
  ASSUME TypeOK, LineInv, NEW c \in Callers \cup (Services \ Atomic), pc[c] = "idle",
         line' = Append(line, c), pc' = [pc EXCEPT ![c] = "line"]
  PROVE  LineInv' /\ line' \in Seq(Clients)
<1>1. c \in Clients /\ line \in Seq(Clients) /\ pc \in [Clients -> States]
  BY DEF Clients, TypeOK
<1>2. /\ Len(line') = Len(line) + 1 /\ line'[Len(line) + 1] = c /\ Len(line) \in Nat
      /\ \A i \in 1..Len(line) : line'[i] = line[i] /\ line[i] \in Clients
  BY <1>1
<1>3. \A i \in 1..Len(line) : line[i] # c
  BY <1>1 DEF LineInv
<1>4. ASSUME NEW i \in 1..Len(line')
      PROVE  /\ line'[i] \in Callers \cup (Services \ Atomic)
             /\ pc'[line'[i]] = "line"
             /\ \A j \in 1..Len(line') : line'[j] = line'[i] => j = i
  <2>1. i \in 1..Len(line) \/ i = Len(line) + 1 BY <1>2
  <2>2. CASE i = Len(line) + 1
    BY <2>2, <1>1, <1>2, <1>3
  <2>3. CASE i \in 1..Len(line)
    BY <2>3, <1>1, <1>2, <1>3 DEF LineInv
  <2> QED BY <2>1, <2>2, <2>3
<1>5. LineInv' BY <1>4 DEF LineInv
<1> QED BY <1>1, <1>5

\* The head leaves the line, and is not in the rest of it.
LEMMA LineLeft ==
  ASSUME TypeOK, LineInv, line # <<>>, line' = Tail(line),
         pc' = [pc EXCEPT ![Head(line)] = "enter"]
  PROVE  /\ LineInv' /\ line' \in Seq(Clients)
         /\ Head(line) \in Callers \cup (Services \ Atomic) /\ pc[Head(line)] = "line"
<1>1. line \in Seq(Clients) /\ pc \in [Clients -> States]
  BY DEF TypeOK
<1>2. /\ Len(line) \in Nat \ {0} /\ Head(line) = line[1] /\ 1 \in 1..Len(line)
      /\ line' \in Seq(Clients) /\ Len(line') = Len(line) - 1
      /\ \A i \in 1..Len(line') : line'[i] = line[i + 1] /\ i + 1 \in 1..Len(line) /\ i + 1 # 1
  BY <1>1
<1>3. line[1] \in Callers \cup (Services \ Atomic) /\ pc[line[1]] = "line"
  BY <1>2 DEF LineInv
<1>4. ASSUME NEW i \in 1..Len(line')
      PROVE  /\ line'[i] \in Callers \cup (Services \ Atomic)
             /\ pc'[line'[i]] = "line"
             /\ \A j \in 1..Len(line') : line'[j] = line'[i] => j = i
  <2>1. line[i + 1] # line[1] BY <1>2 DEF LineInv
  <2>2. line[i + 1] \in Clients /\ pc[line[i + 1]] = "line"
    BY <1>2 DEF LineInv, Clients
  <2>3. pc'[line[i + 1]] = "line" BY <2>1, <2>2, <1>1, <1>2
  <2>4. \A j \in 1..Len(line') : line[j + 1] = line[i + 1] => j + 1 = i + 1
    BY <1>2 DEF LineInv
  <2> QED BY <2>2, <2>3, <2>4, <1>2 DEF LineInv
<1>5. LineInv' BY <1>4 DEF LineInv
<1> QED BY <1>2, <1>3, <1>5

-----------------------------------------------------------------------------
LEMMA TeeShared ==
  ASSUME TeeInv, NEW c \in Clients, LockShared(c)
  PROVE  TeeInv'
<1> USE DEF LockShared, TeeInv
<1>1. LineInv' /\ line' \in Seq(Clients) BY LineJoined
<1>2. pc \in [Clients -> States] BY DEF TypeOK
<1>3. TypeOK' BY <1>1, <1>2 DEF TypeOK, States
<1>4. SemInv' BY <1>2, OpteeAssumption DEF SemInv, Away, Clients
<1>5. LockInv' BY <1>2 DEF LockInv
<1> QED BY <1>1, <1>3, <1>4, <1>5

LEMMA TeeQueue ==
  ASSUME TeeInv, NEW s \in Clients, QueueWork(s)
  PROVE  TeeInv'
<1> USE DEF QueueWork, TeeInv
<1>1. LineInv' /\ line' \in Seq(Clients) BY LineJoined
<1>2. pc \in [Clients -> States] BY DEF TypeOK
<1>3. TypeOK' BY <1>1, <1>2 DEF TypeOK, States
<1>4. SemInv' BY <1>2, OpteeAssumption DEF SemInv, Away, Clients
<1>5. LockInv' BY <1>2 DEF LockInv
<1> QED BY <1>1, <1>3, <1>4, <1>5

LEMMA TeeAtomic ==
  ASSUME TeeInv, NEW s \in Clients, CallAtomic(s)
  PROVE  TeeInv'
<1> USE DEF CallAtomic, TeeInv
<1>1. pc \in [Clients -> States] BY DEF TypeOK
<1>2. LineInv' BY <1>1, LineKept DEF Clients
<1>3. TypeOK' BY <1>1, OpteeAssumption DEF TypeOK, States
<1>4. SemInv' BY <1>1, OpteeAssumption DEF SemInv, Away, Clients
<1>5. LockInv' BY <1>1 DEF LockInv
<1> QED BY <1>2, <1>3, <1>4, <1>5

LEMMA TeeAdmit == TeeInv /\ Admit => TeeInv'
<1> SUFFICES ASSUME TeeInv, Admit PROVE TeeInv'
  OBVIOUS
<1> USE DEF TeeInv
<1> DEFINE c == Head(line)
<1>1. /\ line # <<>> /\ writer = None /\ line' = Tail(line)
      /\ pc' = [pc EXCEPT ![c] = "enter"] /\ UNCHANGED <<efiLock, holder, bypassed>>
      /\ IF c \in Callers
         THEN readers' = readers \cup {c} /\ writer' = writer
         ELSE readers = {} /\ writer' = c /\ readers' = readers
  BY DEF Admit
<1>2. /\ LineInv' /\ line' \in Seq(Clients)
      /\ c \in Callers \cup (Services \ Atomic) /\ pc[c] = "line"
  BY <1>1, LineLeft
<1> HIDE DEF c
<1>3. pc \in [Clients -> States] BY DEF TypeOK
<1>4. TypeOK' BY <1>1, <1>2, <1>3 DEF TypeOK, States
<1>5. SemInv'
  <2>1. CASE c \in Callers
    BY <2>1, <1>1, <1>2, <1>3, OpteeAssumption DEF SemInv, Away, Clients
  <2>2. CASE c \notin Callers
    BY <2>2, <1>1, <1>2, <1>3, OpteeAssumption DEF SemInv, Away, Clients
  <2> QED BY <2>1, <2>2
<1>6. LockInv' BY <1>1, <1>2, <1>3 DEF LockInv
<1> QED BY <1>2, <1>4, <1>5, <1>6

\* Two clients move at once.
LEMMA TwoMoves ==
  ASSUME NEW f \in [Clients -> States], NEW c \in Clients, NEW w \in Clients, c # w,
         NEW x \in States, NEW y \in States
  PROVE  LET g == [f EXCEPT ![c] = x, ![w] = y]
         IN  /\ g \in [Clients -> States] /\ g[c] = x /\ g[w] = y
             /\ \A d \in Clients \ {c, w} : g[d] = f[d]
<1> DEFINE h == [f EXCEPT ![c] = x]
<1>1. h \in [Clients -> States] /\ h[c] = x /\ \A d \in Clients \ {c} : h[d] = f[d]
  OBVIOUS
<1> DEFINE k == [h EXCEPT ![w] = y]
<1>2. [f EXCEPT ![c] = x, ![w] = y] = k
  OBVIOUS
<1> HIDE DEF h
<1>3. k \in [Clients -> States] /\ k[w] = y /\ \A d \in Clients \ {w} : k[d] = h[d]
  BY <1>1
<1> QED BY <1>1, <1>2, <1>3

\* The steps of a call, from its entry to its end.
LEMMA TeeProceed ==
  ASSUME TeeInv, NEW c \in Clients, Proceed(c)
  PROVE  TeeInv'
<1> USE DEF TeeInv
<1>1. pc \in [Clients -> States] BY DEF TypeOK
<1>2. Callers \cup (Services \ Atomic) \subseteq Clients BY DEF Clients
<1>3. line' = line
  BY DEF Proceed, Enter, Busy, QueueFails, Plain, Take, Wait, Release, Final, Completed
<1>4. CASE Enter(c)
  <2>1. LineInv' BY <1>1, <1>2, <1>3, <1>4, LineKept DEF Enter
  <2>2. TypeOK' BY <1>1, <1>4 DEF TypeOK, States, Enter
  <2>3. SemInv' BY <1>1, <1>2, <1>4 DEF SemInv, Away, Enter, Clients
  <2>4. LockInv' BY <1>1, <1>4 DEF LockInv, Enter
  <2> QED BY <2>1, <2>2, <2>3, <2>4
<1>5. CASE Busy(c)
  <2>1. LineInv' BY <1>1, <1>2, <1>3, <1>5, LineKept DEF Busy
  <2>2. TypeOK' BY <1>1, <1>5 DEF TypeOK, States, Busy
  <2>3. SemInv' BY <1>1, <1>2, <1>5 DEF SemInv, Away, Busy, Clients
  <2>4. LockInv' BY <1>1, <1>5 DEF LockInv, Busy
  <2> QED BY <2>1, <2>2, <2>3, <2>4
<1>6. CASE QueueFails(c)
  <2>1. LineInv' BY <1>1, <1>2, <1>3, <1>6, LineKept DEF QueueFails
  <2>2. TypeOK' BY <1>1, <1>6 DEF TypeOK, States, QueueFails
  <2>3. SemInv' BY <1>1, <1>2, <1>6 DEF SemInv, Away, QueueFails, Clients
  <2>4. LockInv' BY <1>1, <1>6 DEF LockInv, QueueFails
  <2> QED BY <2>1, <2>2, <2>3, <2>4
<1>7. CASE Plain(c)
  <2>1. LineInv' BY <1>1, <1>2, <1>3, <1>7, LineKept DEF Plain
  <2>2. TypeOK' BY <1>1, <1>7 DEF TypeOK, States, Plain
  <2>3. SemInv' BY <1>1, <1>2, <1>7 DEF SemInv, Away, Plain, Clients
  <2>4. LockInv' BY <1>1, <1>7 DEF LockInv, Plain
  <2> QED BY <2>1, <2>2, <2>3, <2>4
<1>8. CASE Take(c)
  <2>1. LineInv' BY <1>1, <1>2, <1>3, <1>8, LineKept DEF Take
  <2>2. TypeOK' BY <1>1, <1>8 DEF TypeOK, States, Take
  <2>3. SemInv' BY <1>1, <1>2, <1>8 DEF SemInv, Away, Take, Clients
  <2>4. LockInv' BY <1>1, <1>8, OpteeAssumption DEF LockInv, Take, Clients
  <2> QED BY <2>1, <2>2, <2>3, <2>4
<1>9. CASE Wait(c)
  <2>1. LineInv' BY <1>1, <1>2, <1>3, <1>9, LineKept DEF Wait
  <2>2. TypeOK' BY <1>1, <1>9 DEF TypeOK, States, Wait
  <2>3. SemInv' BY <1>1, <1>2, <1>9 DEF SemInv, Away, Wait, Clients
  <2>4. LockInv' BY <1>1, <1>9 DEF LockInv, Wait
  <2> QED BY <2>1, <2>2, <2>3, <2>4
<1>10. CASE Release(c)
  <2>1. /\ pc[c] = "holds" /\ holder' = None /\ UNCHANGED <<line, readers, writer, efiLock>>
        /\ pc'[c] = "out" /\ pc' \in [Clients -> States]
        /\ \A d \in Clients \ {c} : pc'[d] = pc[d] \/ (pc[d] = "waits" /\ pc'[d] = "woken")
    <3>1. /\ pc[c] = "holds" /\ holder' = None
          /\ UNCHANGED <<line, readers, writer, efiLock>>
      BY <1>10 DEF Release
    <3>2. CASE c \in Callers /\ Waiting # {}
      <4>1. PICK w \in Waiting : pc' = [pc EXCEPT ![c] = "out", ![w] = "woken"]
        BY <1>10, <3>2 DEF Release
      <4>2. w \in Clients /\ pc[w] = "waits" BY DEF Waiting
      <4>3. c # w /\ "out" \in States /\ "woken" \in States
        BY <3>1, <4>2 DEF States
      <4>4. /\ pc' \in [Clients -> States] /\ pc'[c] = "out" /\ pc'[w] = "woken"
            /\ \A d \in Clients \ {c, w} : pc'[d] = pc[d]
        BY ONLY <4>1, <4>2, <4>3, <1>1, TwoMoves, c \in Clients
      <4> QED BY <4>2, <4>4, <3>1
    <3>3. CASE ~(c \in Callers /\ Waiting # {})
      <4>1. pc' = [pc EXCEPT ![c] = "out"] BY <3>3, <1>10 DEF Release
      <4> QED BY <4>1, <3>1, <1>1 DEF States
    <3> QED BY <3>2, <3>3
  <2>2. LineInv' BY <2>1, <1>2, LineKept
  <2>3. TypeOK' BY <1>10, <2>1 DEF Release, TypeOK
  <2>4. SemInv' BY <2>1, <1>1, <1>2 DEF SemInv, Away, Clients
  <2>5. LockInv' BY <2>1, <1>1, OpteeAssumption DEF LockInv, Clients
  <2> QED BY <2>2, <2>3, <2>4, <2>5
<1>11. CASE Final(c)
  <2>1. /\ c \in Callers /\ pc[c] = "out" /\ UNCHANGED <<line, writer, efiLock, holder>>
        /\ readers' = readers \ {c} /\ pc'[c] = "idle" /\ pc' \in [Clients -> States]
        /\ \A d \in Clients \ {c} : pc'[d] = pc[d] \/ (pc[d] = "asleep" /\ pc'[d] = "enter")
    <3>1. /\ c \in Callers /\ pc[c] = "out" /\ readers' = readers \ {c}
          /\ UNCHANGED <<line, writer, efiLock, holder>>
      BY <1>11 DEF Final
    <3>2. CASE Asleep # {}
      <4>1. PICK w \in Asleep : pc' = [pc EXCEPT ![c] = "idle", ![w] = "enter"]
        BY <1>11, <3>2 DEF Final
      <4>2. w \in Clients /\ pc[w] = "asleep" BY DEF Asleep, Clients
      <4>3. c # w /\ "idle" \in States /\ "enter" \in States
        BY <3>1, <4>2 DEF States
      <4>4. /\ pc' \in [Clients -> States] /\ pc'[c] = "idle" /\ pc'[w] = "enter"
            /\ \A d \in Clients \ {c, w} : pc'[d] = pc[d]
        BY ONLY <4>1, <4>2, <4>3, <1>1, TwoMoves, c \in Clients
      <4> QED BY <4>2, <4>4, <3>1
    <3>3. CASE Asleep = {}
      <4>1. pc' = [pc EXCEPT ![c] = "idle"] BY <3>3, <1>11 DEF Final
      <4> QED BY <4>1, <3>1, <1>1 DEF States
    <3> QED BY <3>2, <3>3
  <2>2. LineInv' BY <2>1, <1>2, LineKept
  <2>3. TypeOK' BY <1>11, <2>1 DEF Final, TypeOK
  <2>4. SemInv' BY <2>1, <1>1, <1>2, OpteeAssumption DEF SemInv, Away, Clients
  <2>5. LockInv' BY <2>1, <1>1 DEF LockInv, Clients
  <2> QED BY <2>2, <2>3, <2>4, <2>5
<1>12. CASE Completed(c)
  <2>1. LineInv' BY <1>1, <1>2, <1>3, <1>12, LineKept DEF Completed
  <2>2. TypeOK' BY <1>1, <1>12 DEF TypeOK, States, Completed
  <2>3. SemInv' BY <1>1, <1>2, <1>12, OpteeAssumption DEF SemInv, Away, Completed, Clients
  <2>4. LockInv' BY <1>1, <1>12 DEF LockInv, Completed
  <2> QED BY <2>1, <2>2, <2>3, <2>4
<1> QED BY <1>4, <1>5, <1>6, <1>7, <1>8, <1>9, <1>10, <1>11, <1>12 DEF Proceed

LEMMA TeeStep == TeeInv /\ [Next]_vars => TeeInv'
<1> SUFFICES ASSUME TeeInv, [Next]_vars PROVE TeeInv'
  OBVIOUS
<1>1. CASE UNCHANGED vars
  BY <1>1 DEF vars, TeeInv, TypeOK, LineInv, SemInv, LockInv
<1>2. CASE Next
  BY <1>2, TeeShared, TeeQueue, TeeAtomic, TeeAdmit, TeeProceed DEF Next
<1> QED BY <1>1, <1>2

THEOREM TeeInvariance == Spec => []TeeInv
BY TeeInit, TeeStep, PTL DEF Spec

\* The driver and a queued EFI call never overlap, with any number of callers,
\* services and secure threads, and though non-blocking services go their way.
THEOREM ClientsApart == Spec => []OneClient
<1>1. TeeInv => OneClient
  <2> SUFFICES ASSUME TeeInv, NEW c \in Callers, NEW s \in Services \ Atomic,
                      c \in Calling, s \in Calling
               PROVE  FALSE
    BY DEF OneClient
  <2>1. c \in readers /\ writer = s
    BY DEF TeeInv, SemInv, Calling, Away
  <2> QED BY <2>1, OpteeAssumption DEF TeeInv, SemInv
<1> QED BY <1>1, TeeInvariance, PTL

\* EFI runtime calls are made one at a time.
THEOREM ServicesApart == Spec => []OneService
<1>1. TeeInv => OneService
  BY DEF TeeInv, SemInv, OneService, Calling
<1> QED BY <1>1, TeeInvariance, PTL

-----------------------------------------------------------------------------
\* No non-blocking service is under way.
NoneAtomic == \A s \in Atomic : pc[s] = "idle"

\* Only its own call moves a non-blocking service out of idleness.
LEMMA AtomicIdle ==
  ASSUME TeeInv, [Next]_vars, ~bypassed'
  PROVE  ~bypassed /\ (NoneAtomic => NoneAtomic')
<1>1. pc \in [Clients -> States] /\ Atomic \subseteq Clients /\ Callers \cap Atomic = {}
  BY OpteeAssumption DEF TeeInv, TypeOK, Clients
<1>2. CASE UNCHANGED vars
  BY <1>2 DEF vars, NoneAtomic
<1>3. CASE Admit
  <2>1. Head(line) \in Clients /\ pc[Head(line)] = "line"
    BY <1>3, LineLeft, <1>1 DEF TeeInv, Admit, Clients
  <2>2. pc' = [pc EXCEPT ![Head(line)] = "enter"] /\ bypassed' = bypassed
    BY <1>3 DEF Admit
  <2> QED BY <1>1, <2>1, <2>2 DEF NoneAtomic
<1>4. ASSUME NEW c \in Clients, LockShared(c) \/ QueueWork(c) \/ CallAtomic(c)
      PROVE  ~bypassed /\ (NoneAtomic => NoneAtomic')
  BY <1>1, <1>4 DEF LockShared, QueueWork, CallAtomic, NoneAtomic
<1>5. ASSUME NEW c \in Clients, Enter(c) \/ Busy(c) \/ QueueFails(c) \/ Plain(c) \/ Take(c)
                               \/ Wait(c) \/ Completed(c)
      PROVE  ~bypassed /\ (NoneAtomic => NoneAtomic')
  BY <1>1, <1>5 DEF Enter, Busy, QueueFails, Plain, Take, Wait, Completed, NoneAtomic
<1>6. ASSUME NEW c \in Clients, Release(c)
      PROVE  ~bypassed /\ (NoneAtomic => NoneAtomic')
  BY <1>1, <1>6 DEF Release, Waiting, NoneAtomic
<1>7. ASSUME NEW c \in Clients, Final(c)
      PROVE  ~bypassed /\ (NoneAtomic => NoneAtomic')
  BY <1>1, <1>7 DEF Final, Asleep, NoneAtomic
<1> QED BY <1>2, <1>3, <1>4, <1>5, <1>6, <1>7 DEF Next, Proceed

\* Then a caller in its call has the secure world to the driver alone.
LEMMA DriverAlone ==
  ASSUME TeeInv, NoneAtomic, NEW c \in Callers, pc[c] \notin Away,
         NEW d \in Clients, pc[d] \notin Away
  PROVE  d \in Callers
BY OpteeAssumption DEF TeeInv, SemInv, Clients, NoneAtomic, Away

\* A step that moves no caller to sleep on the secure lock, wakes none up from
\* it and leaves the lock alone.
LEMMA WakeupKept ==
  ASSUME WakeupComing, holder' = holder,
         \A d \in Clients : /\ pc'[d] = "waits" => pc[d] = "waits"
                            /\ pc[d] = "woken" => pc'[d] = "woken"
  PROVE  WakeupComing'
BY DEF WakeupComing, Waiting, Clients

LEMMA WakeupStep ==
  ASSUME TeeInv, NoneAtomic, WakeupComing, [Next]_vars
  PROVE  WakeupComing'
<1>1. pc \in [Clients -> States] /\ Callers \subseteq Clients /\ Services \subseteq Clients
  BY DEF TeeInv, TypeOK, Clients
<1>2. \A d \in Clients : pc[d] = "waits" => d \in Callers
  BY DEF TeeInv, LockInv
<1>3. CASE UNCHANGED vars
  BY <1>3 DEF vars, WakeupComing, Waiting
<1>4. ASSUME NEW c \in Clients, LockShared(c) \/ QueueWork(c) \/ CallAtomic(c)
      PROVE  WakeupComing'
  BY <1>1, <1>4, WakeupKept DEF LockShared, QueueWork, CallAtomic
<1>5. CASE Admit
  <2>1. Head(line) \in Clients /\ pc[Head(line)] = "line"
    BY <1>5, LineLeft, <1>1 DEF TeeInv, Admit
  <2>2. pc' = [pc EXCEPT ![Head(line)] = "enter"] /\ holder' = holder
    BY <1>5 DEF Admit
  <2> QED BY <1>1, <2>1, <2>2, WakeupKept
<1>6. ASSUME NEW c \in Clients, Enter(c) \/ Busy(c) \/ QueueFails(c) \/ Plain(c) \/ Completed(c)
      PROVE  WakeupComing'
  BY <1>1, <1>6, WakeupKept DEF Enter, Busy, QueueFails, Plain, Completed
<1>7. ASSUME NEW c \in Clients, Final(c) PROVE WakeupComing'
  <2>1. \A d \in Clients : \/ pc'[d] = pc[d]
                          \/ (pc'[d] \in {"idle", "enter"} /\ pc[d] \in {"out", "asleep"})
    <3>1. CASE Asleep # {}
      <4>1. PICK w \in Asleep : pc' = [pc EXCEPT ![c] = "idle", ![w] = "enter"]
        BY <1>7, <3>1 DEF Final
      <4>2. w \in Clients /\ pc[w] = "asleep" /\ pc[c] = "out" BY <1>1, <1>7 DEF Asleep, Final
      <4>3. c # w /\ "idle" \in States /\ "enter" \in States
        BY <4>2 DEF States
      <4>4. /\ pc'[c] = "idle" /\ pc'[w] = "enter"
            /\ \A d \in Clients \ {c, w} : pc'[d] = pc[d]
        BY ONLY <4>1, <4>2, <4>3, <1>1, TwoMoves, c \in Clients
      <4> QED BY ONLY <4>2, <4>4
    <3>2. CASE Asleep = {}
      <4>1. pc' = [pc EXCEPT ![c] = "idle"] /\ pc[c] = "out" BY <3>2, <1>7 DEF Final
      <4> QED BY <4>1, <1>1
    <3> QED BY <3>1, <3>2
  <2>2. holder' = holder BY <1>7 DEF Final
  <2> QED BY <2>1, <2>2, WakeupKept
<1>8. ASSUME NEW c \in Clients, Wait(c) PROVE WakeupComing'
  <2>1. c \in Callers /\ pc[c] \notin Away /\ holder # None /\ holder' = holder
    BY <1>8 DEF Wait, Away
  <2>2. holder \in Clients /\ pc[holder] \notin Away
    BY <2>1 DEF TeeInv, TypeOK, LockInv, Away
  <2> QED BY <2>1, <2>2, DriverAlone DEF WakeupComing
<1>9. ASSUME NEW c \in Clients, Take(c) PROVE WakeupComing'
  <2>1. /\ pc[c] \notin Away /\ holder' = c
        /\ \A d \in Clients : pc'[d] = "waits" => pc[d] = "waits"
    BY <1>1, <1>9 DEF Take, Away
  <2>2. ASSUME NEW d \in Clients, pc[d] = "waits" PROVE c \in Callers
    BY <2>1, <2>2, <1>2, DriverAlone DEF Away
  <2> QED BY <2>1, <2>2 DEF WakeupComing, Waiting
<1>10. ASSUME NEW c \in Clients, Release(c) PROVE WakeupComing'
  <2>1. pc[c] = "holds" BY <1>10 DEF Release
  <2>2. CASE c \in Callers /\ Waiting # {}
    <3>1. PICK w \in Waiting : pc' = [pc EXCEPT ![c] = "out", ![w] = "woken"]
      BY <1>10, <2>2 DEF Release
    <3>2. w \in Clients /\ pc[w] = "waits" BY DEF Waiting
    <3>3. c # w /\ "out" \in States /\ "woken" \in States
      BY <2>1, <3>2 DEF States
    <3>4. pc'[w] = "woken"
      BY ONLY <3>1, <3>2, <3>3, <1>1, TwoMoves, c \in Clients
    <3> QED BY <3>2, <3>4, <1>2 DEF WakeupComing
  <2>3. CASE ~(c \in Callers /\ Waiting # {})
    <3>1. pc' = [pc EXCEPT ![c] = "out"] BY <1>10, <2>3 DEF Release
    <3>2. Waiting = {}
      BY <2>1, <2>3, <1>2, DriverAlone DEF Waiting, Away
    <3> QED BY <3>1, <3>2, <1>1 DEF WakeupComing, Waiting
  <2> QED BY <2>2, <2>3
<1> QED BY <1>3, <1>4, <1>5, <1>6, <1>7, <1>8, <1>9, <1>10 DEF Next, Proceed

\* Until a non-blocking service is called, whoever waits for a lock inside OP-TEE
\* has a wake-up coming: the reason the patch exists.
THEOREM WakeupsKept == Spec => []NoLostWakeup
<1> DEFINE Inv == bypassed \/ (NoneAtomic /\ WakeupComing)
<1>1. Init => Inv
  BY Zenon, OpteeAssumption DEF Init, NoneAtomic, WakeupComing, Waiting, Clients
<1>2. TeeInv /\ Inv /\ [Next]_vars => Inv'
  BY WakeupStep, AtomicIdle
<1>3. Inv => NoLostWakeup
  BY DEF NoLostWakeup
<1> QED BY <1>1, <1>2, <1>3, TeeInvariance, PTL DEF Spec

Live == {"enter", "in", "waits", "woken", "holds", "out"}

LEMMA ThreadStep ==
  ASSUME TeeInv, NoneAtomic, ThreadComing, [Next]_vars
  PROVE  ThreadComing'
<1>1. pc \in [Clients -> States] /\ Callers \subseteq Clients /\ Services \subseteq Clients
  BY DEF TeeInv, TypeOK, Clients
<1> DEFINE Kept == /\ \A d \in Callers : pc'[d] = "asleep" => pc[d] = "asleep"
                   /\ \A d \in Callers : pc[d] \in Live => pc'[d] \in Live
<1>2. ASSUME Kept PROVE ThreadComing'
  BY <1>2 DEF ThreadComing, Asleep, Live
<1>3. CASE UNCHANGED vars
  BY <1>3 DEF vars, ThreadComing, Asleep
<1>4. ASSUME NEW c \in Clients, LockShared(c) \/ QueueWork(c) \/ CallAtomic(c)
      PROVE  ThreadComing'
  <2>1. Kept BY <1>1, <1>4 DEF LockShared, QueueWork, CallAtomic, Live
  <2> QED BY <2>1, <1>2
<1>5. CASE Admit
  <2>1. Head(line) \in Clients /\ pc[Head(line)] = "line"
    BY <1>5, LineLeft, <1>1 DEF TeeInv, Admit
  <2>2. pc' = [pc EXCEPT ![Head(line)] = "enter"]
    BY <1>5 DEF Admit
  <2>3. Kept BY <1>1, <2>1, <2>2 DEF Live
  <2> QED BY <2>3, <1>2
<1>6. ASSUME NEW c \in Clients, Enter(c) \/ Plain(c) \/ Take(c) \/ Wait(c)
      PROVE  ThreadComing'
  <2>1. Kept BY <1>1, <1>6 DEF Enter, Plain, Take, Wait, Live
  <2> QED BY <2>1, <1>2
<1>7. ASSUME NEW c \in Clients, QueueFails(c) \/ Completed(c)
      PROVE  ThreadComing'
  <2>1. Kept BY <1>1, <1>7, OpteeAssumption DEF QueueFails, Completed, Live
  <2> QED BY <2>1, <1>2
<1>8. ASSUME NEW c \in Clients, Release(c) PROVE ThreadComing'
  <2>1. pc[c] = "holds" BY <1>8 DEF Release
  <2>2. CASE c \in Callers /\ Waiting # {}
    <3>1. PICK w \in Waiting : pc' = [pc EXCEPT ![c] = "out", ![w] = "woken"]
      BY <1>8, <2>2 DEF Release
    <3>2. w \in Clients /\ pc[w] = "waits" BY DEF Waiting
    <3>3. c # w /\ "out" \in States /\ "woken" \in States
      BY <2>1, <3>2 DEF States
    <3>4. /\ pc'[c] = "out" /\ pc'[w] = "woken"
          /\ \A d \in Clients \ {c, w} : pc'[d] = pc[d]
      BY ONLY <3>1, <3>2, <3>3, <1>1, TwoMoves, c \in Clients
    <3>5. Kept BY <3>4, <1>1 DEF Live
    <3> QED BY <3>5, <1>2
  <2>3. CASE ~(c \in Callers /\ Waiting # {})
    <3>1. pc' = [pc EXCEPT ![c] = "out"] BY <1>8, <2>3 DEF Release
    <3>2. Kept BY <3>1, <1>1 DEF Live
    <3> QED BY <3>2, <1>2
  <2> QED BY <2>2, <2>3
<1>9. ASSUME NEW c \in Clients, Final(c) PROVE ThreadComing'
  <2>1. pc[c] = "out" BY <1>9 DEF Final
  <2>2. CASE Asleep # {}
    <3>1. PICK w \in Asleep : pc' = [pc EXCEPT ![c] = "idle", ![w] = "enter"]
      BY <1>9, <2>2 DEF Final
    <3>2. w \in Callers /\ w \in Clients /\ pc[w] = "asleep" BY <1>1 DEF Asleep
    <3>3. c # w /\ "idle" \in States /\ "enter" \in States
      BY <2>1, <3>2 DEF States
    <3>4. pc'[w] = "enter"
      BY ONLY <3>1, <3>2, <3>3, <1>1, TwoMoves, c \in Clients
    <3> QED BY <3>2, <3>4 DEF ThreadComing
  <2>3. CASE Asleep = {}
    <3>1. pc' = [pc EXCEPT ![c] = "idle"] BY <1>9, <2>3 DEF Final
    <3>2. Asleep' = {} BY <3>1, <2>3, <1>1 DEF Asleep
    <3> QED BY <3>2 DEF ThreadComing
  <2> QED BY <2>2, <2>3
<1>10. ASSUME NEW c \in Clients, Busy(c) PROVE ThreadComing'
  <2>1. /\ c \in Callers /\ pc[c] = "enter" /\ Cardinality(Inside) >= Threads
        /\ pc' = [pc EXCEPT ![c] = "asleep"]
    BY <1>10 DEF Busy
  <2>2. Inside # {}
    BY <2>1, FS_EmptySet, OpteeAssumption
  <2>3. PICK d \in Clients : pc[d] \in {"in", "waits", "woken", "holds"}
    BY <2>2 DEF Inside
  <2>4. d \in Callers
    BY <2>1, <2>3, DriverAlone DEF Away
  <2>5. pc'[d] = pc[d] BY <2>1, <2>3, <1>1
  <2> QED BY <2>3, <2>4, <2>5 DEF ThreadComing
<1> QED BY <1>3, <1>4, <1>5, <1>6, <1>7, <1>8, <1>9, <1>10 DEF Next, Proceed

\* Until then, a caller asleep in the driver's call queue is never the last one
\* there: a caller that will wake it is still in its call.
THEOREM ThreadsKept == Spec => []NoLostThread
<1> DEFINE Inv == bypassed \/ (NoneAtomic /\ ThreadComing)
<1>1. Init => Inv
  BY Zenon, OpteeAssumption DEF Init, NoneAtomic, ThreadComing, Asleep, Clients
<1>2. TeeInv /\ Inv /\ [Next]_vars => Inv'
  BY ThreadStep, AtomicIdle
<1>3. Inv => NoLostThread
  BY DEF NoLostThread
<1> QED BY <1>1, <1>2, <1>3, TeeInvariance, PTL DEF Spec

-----------------------------------------------------------------------------
\* Who waits for the semaphore is in its line.
InLine == \A c \in Clients : pc[c] = "line" => \E k \in 1..Len(line) : line[k] = c

\* A step that leaves the line alone and sends nobody to it.
LEMMA InLineKept ==
  ASSUME InLine, line' = line, \A d \in Clients : pc'[d] = "line" => pc[d] = "line"
  PROVE  InLine'
BY DEF InLine, Clients

LEMMA InLineStep ==
  ASSUME TeeInv, InLine, [Next]_vars
  PROVE  InLine'
<1>1. /\ pc \in [Clients -> States] /\ line \in Seq(Clients)
      /\ Callers \subseteq Clients /\ Services \subseteq Clients
  BY DEF TeeInv, TypeOK, Clients
<1>2. CASE UNCHANGED vars
  BY <1>2 DEF vars, InLine
<1>3. ASSUME NEW c \in Clients, LockShared(c) \/ QueueWork(c) PROVE InLine'
  <2>1. line' = Append(line, c) /\ pc' = [pc EXCEPT ![c] = "line"]
    BY <1>3 DEF LockShared, QueueWork
  <2>2. /\ Len(line) \in Nat /\ Len(line') = Len(line) + 1 /\ line'[Len(line) + 1] = c
        /\ \A k \in 1..Len(line) : line'[k] = line[k]
    BY <1>1, <2>1
  <2>3. ASSUME NEW d \in Clients, pc'[d] = "line"
        PROVE  \E k \in 1..Len(line') : line'[k] = d
    <3>1. CASE d = c
      <4>1. Len(line) + 1 \in 1..Len(line') BY <2>2
      <4> QED BY <4>1, <3>1, <2>2
    <3>2. CASE d # c
      <4>1. pc[d] = "line" BY <3>2, <2>1, <2>3, <1>1
      <4>2. PICK k \in 1..Len(line) : line[k] = d BY <4>1 DEF InLine
      <4>3. k \in 1..Len(line') BY <2>2
      <4> QED BY <4>2, <4>3, <2>2
    <3> QED BY <3>1, <3>2
  <2> QED BY <2>3 DEF InLine
<1>4. CASE Admit
  <2>1. /\ line # <<>> /\ line' = Tail(line)
        /\ pc' = [pc EXCEPT ![Head(line)] = "enter"]
    BY <1>4 DEF Admit
  <2>2. /\ Len(line) \in Nat /\ Head(line) = line[1] /\ Len(line') = Len(line) - 1
        /\ \A k \in 1..Len(line') : line'[k] = line[k + 1]
    BY <1>1, <2>1
  <2>3. ASSUME NEW d \in Clients, pc'[d] = "line"
        PROVE  \E k \in 1..Len(line') : line'[k] = d
    <3>1. d # Head(line) /\ pc[d] = "line" BY <2>1, <2>3, <1>1
    <3>2. PICK k \in 1..Len(line) : line[k] = d BY <3>1 DEF InLine
    <3>3. k # 1 BY <3>1, <3>2, <2>2
    <3>4. k - 1 \in 1..Len(line') /\ (k - 1) + 1 = k BY <3>3, <2>2
    <3>5. line'[k - 1] = d BY <3>2, <3>4, <2>2
    <3> QED BY <3>4, <3>5
  <2> QED BY <2>3 DEF InLine
<1>5. ASSUME NEW c \in Clients,
             CallAtomic(c) \/ Enter(c) \/ Busy(c) \/ QueueFails(c) \/ Plain(c) \/ Take(c)
               \/ Wait(c) \/ Completed(c)
      PROVE  InLine'
  BY <1>1, <1>5, InLineKept
  DEF CallAtomic, Enter, Busy, QueueFails, Plain, Take, Wait, Completed
<1>6. ASSUME NEW c \in Clients, Release(c) PROVE InLine'
  <2>1. line' = line BY <1>6 DEF Release
  <2>2. \A d \in Clients : pc'[d] = "line" => pc[d] = "line"
    BY <1>1, <1>6 DEF Release
  <2> QED BY <2>1, <2>2, InLineKept
<1>7. ASSUME NEW c \in Clients, Final(c) PROVE InLine'
  <2>1. line' = line BY <1>7 DEF Final
  <2>2. \A d \in Clients : pc'[d] = "line" => pc[d] = "line"
    BY <1>1, <1>7 DEF Final
  <2> QED BY <2>1, <2>2, InLineKept
<1> QED BY <1>2, <1>3, <1>4, <1>5, <1>6, <1>7 DEF Next, Proceed

\* The guards of the steps of a call, and of the admission to the semaphore.
Movable(c) ==
  \/ pc[c] = "enter" /\ (c \notin Atomic \/ Cardinality(Inside) < Threads)
  \/ pc[c] \in {"in", "woken", "holds", "out"}

Admissible == line # <<>> /\ writer = None /\ (Head(line) \in Callers \/ readers = {})

\* Where anybody waits for the semaphore, for a lock of OP-TEE or for one of its
\* threads, somebody can take a step that is not a new call.
NoStall ==
  \/ bypassed
  \/ \A c \in Clients : pc[c] = "idle"
  \/ Admissible
  \/ \E c \in Clients : Movable(c)

LEMMA SomebodyMoves ==
  ASSUME TeeInv, InLine, NoneAtomic, WakeupComing, ThreadComing,
         \A c \in Clients : ~Movable(c), NEW d \in Clients, pc[d] # "idle"
  PROVE  Admissible
<1>1. /\ pc \in [Clients -> States] /\ line \in Seq(Clients) /\ holder \in Clients \cup {None}
      /\ readers \subseteq Callers /\ writer \in Services \cup {None}
      /\ Callers \subseteq Clients /\ Services \subseteq Clients /\ None \notin Callers
  BY OpteeAssumption DEF TeeInv, TypeOK, Clients
<1>2. \A c \in Clients : pc[c] \in {"idle", "line", "asleep", "waits"}
  BY <1>1, OpteeAssumption DEF Movable, NoneAtomic, States
<1>3. Waiting = {}
  <2>1. holder \notin Callers BY <1>1, <1>2 DEF TeeInv, LockInv
  <2> QED BY <2>1, <1>1, <1>2 DEF WakeupComing
<1>4. Asleep = {}
  BY <1>1, <1>2, <1>3 DEF ThreadComing, Waiting
<1>5. \A c \in Clients : pc[c] \in Away
  BY <1>2, <1>3, <1>4 DEF TeeInv, LockInv, Waiting, Asleep, Away
<1>6. line # <<>>
  <2>1. PICK k \in 1..Len(line) : line[k] = d BY <1>5 DEF InLine, Away
  <2> QED BY <2>1, <1>1
<1>7. readers = {} BY <1>1, <1>5 DEF TeeInv, SemInv
<1>8. writer = None
  BY <1>1, <1>5 DEF TeeInv, SemInv
<1> QED BY <1>6, <1>7, <1>8 DEF Admissible

\* Until a non-blocking service is called, the line of the semaphore, the queue of
\* the driver and the lock inside OP-TEE never wait for each other: whenever a call
\* is under way, one of them can take its next step (efi_runtime_tee_lock_shared,
\* __efi_queue_work).
THEOREM NeverStalls == Spec => []NoStall
<1> DEFINE Inv == bypassed \/ (NoneAtomic /\ WakeupComing /\ ThreadComing)
<1>1. Init => Inv
  BY Zenon, OpteeAssumption
  DEF Init, NoneAtomic, WakeupComing, ThreadComing, Waiting, Asleep, Clients
<1>2. TeeInv /\ Inv /\ [Next]_vars => Inv'
  BY WakeupStep, ThreadStep, AtomicIdle
<1>3. Init => InLine
  BY Zenon DEF Init, InLine
<1>4. TeeInv /\ InLine /\ [Next]_vars => InLine'
  BY InLineStep
<1>5. TeeInv /\ InLine /\ Inv => NoStall
  BY SomebodyMoves DEF NoStall
<1> QED BY <1>1, <1>2, <1>3, <1>4, <1>5, TeeInvariance, PTL DEF Spec

-----------------------------------------------------------------------------
\* The mode entry of TypecUsb4.

\* An unsettled request belongs to a known partner without an outcome.
RequestOpen ==
  /\ usb_mode_req # "none" => partner /\ known /\ confirmed + selected = 0
  /\ partner /\ ~known => confirmed + selected = 0
  /\ step = "usb" /\ ~partner => usb_mode_req = "none"

\* The timer is that of the present request, and overdue once it has expired.
TimerOwned ==
  usb_mode_req # "none" /\ ~Disabled =>
    armed = asked /\ (timer # "armed" => due = asked)

\* What has been stopped on the way out stays stopped.
Stopped ==
  /\ Disabled => ~Pending /\ ~handler
  /\ driver \in {"cancelled", "removed"} => ~queued /\ step = "none"

TypecInv == Usb4TypeOK /\ RequestOpen /\ TimerOwned /\ NeverStranded /\ OneOutcome /\ Stopped

LEMMA TypecInit == Usb4Init => TypecInv
<1> SUFFICES ASSUME Usb4Init PROVE TypecInv
  OBVIOUS
<1>1. Usb4TypeOK BY DEF Usb4Init, Usb4TypeOK, Flags, Values, Modes, HsModes
<1>2. RequestOpen /\ TimerOwned /\ NeverStranded /\ OneOutcome /\ Stopped
  BY DEF Usb4Init, RequestOpen, TimerOwned, NeverStranded, OneOutcome, Stopped, Disabled
<1> QED BY <1>1, <1>2 DEF TypecInv

\* The steps of the port work that touch neither request nor timer.
LEMMA StepReading ==
  ASSUME TypecInv,
         StartWork \/ ReadPort \/ ReadMux \/ ReadFails \/ SamePartner \/ NoDiscovery
  PROVE  TypecInv'
<1>1. Flags'
  BY Zenon
  DEF StartWork, ReadPort, ReadMux, ReadFails, SamePartner, NoDiscovery, TypecInv, Usb4TypeOK, Flags,
      controller, work, port, timeout, history
<1>2. Values'
  BY DEF StartWork, ReadPort, ReadMux, ReadFails, SamePartner, NoDiscovery, TypecInv, Usb4TypeOK,
         Values, HsModes, Modes, controller, work, port, timeout, history
<1>3. RequestOpen' /\ TimerOwned' /\ OneOutcome'
  BY DEF StartWork, ReadPort, ReadMux, ReadFails, SamePartner, NoDiscovery, TypecInv, Usb4TypeOK,
         Values, RequestOpen, TimerOwned, OneOutcome, Disabled, Pending, controller, work, port,
         timeout, history
<1>4. NeverStranded' /\ Stopped'
  BY DEF StartWork, ReadPort, ReadMux, ReadFails, SamePartner, NoDiscovery, TypecInv, Usb4TypeOK,
         Values, RequestOpen, NeverStranded, Stopped, Disabled, Pending, controller, work, port,
         timeout, history
<1> QED BY <1>1, <1>2, <1>3, <1>4 DEF TypecInv, Usb4TypeOK

LEMMA StepPartner ==
  ASSUME TypecInv,
         AddPartner \/ RemovePartner
  PROVE  TypecInv'
<1>1. Flags'
  BY Zenon
  DEF AddPartner, RemovePartner, Remove, TypecInv, Usb4TypeOK, Flags, controller, work, port, timeout,
      history
<1>2. Values'
  BY DEF AddPartner, RemovePartner, Remove, TypecInv, Usb4TypeOK, Values, HsModes, Modes, controller, work,
         port, timeout, history
<1>3. RequestOpen' /\ TimerOwned' /\ OneOutcome'
  BY DEF AddPartner, RemovePartner, Remove, TypecInv, Usb4TypeOK, Values, RequestOpen, TimerOwned,
         OneOutcome, Disabled, Pending, controller, work, port, timeout, history
<1>4. NeverStranded' /\ Stopped'
  BY DEF AddPartner, RemovePartner, Remove, TypecInv, Usb4TypeOK, Values, RequestOpen, NeverStranded,
         Stopped, Disabled, Pending, controller, work, port, timeout, history
<1> QED BY <1>1, <1>2, <1>3, <1>4 DEF TypecInv, Usb4TypeOK

LEMMA StepRegister == TypecInv /\ RegisterAltmodes => TypecInv'
BY DEF RegisterAltmodes, RequestUsbMode, Request, RequestFails, FirstStep, StartModeSelection,
       TypecInv, Usb4TypeOK, Flags, Values, RequestOpen, TimerOwned, NeverStranded, OneOutcome, Stopped,
       Disabled, Pending, Modes, HsModes, controller, work, port, timeout, history

LEMMA StepUpdate == TypecInv /\ UpdateUsbMode => TypecInv'
BY DEF UpdateUsbMode, Exited, Confirmed, TimedOut, Waits, RequestUsbMode, Request, RequestFails,
       StartModeSelection, TypecInv, Usb4TypeOK, Flags, Values, RequestOpen, TimerOwned, NeverStranded,
       OneOutcome, Stopped, Disabled, Pending, Modes, HsModes, controller, work, port, timeout, history

LEMMA StepTimeout ==
  ASSUME TypecInv,
         Expire \/ StartTimeout \/ UsbModeTimeout \/ Freeze \/ Thaw
  PROVE  TypecInv'
<1>1. Flags'
  BY Zenon
  DEF Expire, StartTimeout, UsbModeTimeout, Freeze, Thaw, TypecInv, Usb4TypeOK, Flags, controller, work,
      port, timeout, history
<1>2. Values'
  BY DEF Expire, StartTimeout, UsbModeTimeout, Freeze, Thaw, TypecInv, Usb4TypeOK, Values, HsModes, Modes,
         controller, work, port, timeout, history
<1>3. RequestOpen' /\ TimerOwned' /\ OneOutcome'
  BY DEF Expire, StartTimeout, UsbModeTimeout, Freeze, Thaw, TypecInv, Usb4TypeOK, Values, RequestOpen,
         TimerOwned, OneOutcome, Disabled, Pending, controller, work, port, timeout, history
<1>4. NeverStranded' /\ Stopped'
  BY DEF Expire, StartTimeout, UsbModeTimeout, Freeze, Thaw, TypecInv, Usb4TypeOK, Values, RequestOpen,
         NeverStranded, Stopped, Disabled, Pending, controller, work, port, timeout, history
<1> QED BY <1>1, <1>2, <1>3, <1>4 DEF TypecInv, Usb4TypeOK

LEMMA StepController ==
  ASSUME TypecInv,
         Attach \/ Detach \/ Discover \/ EcActs \/ EcEntersAlt \/ Notify
  PROVE  TypecInv'
<1>1. Flags'
  BY Zenon
  DEF Attach, Detach, Discover, EcActs, EcEntersAlt, Notify, Listening, TypecInv, Usb4TypeOK, Flags,
      controller, work, port, timeout, history
<1>2. Values'
  BY DEF Attach, Detach, Discover, EcActs, EcEntersAlt, Notify, Listening, TypecInv, Usb4TypeOK, Values,
         HsModes, Modes, controller, work, port, timeout, history
<1>3. RequestOpen' /\ TimerOwned' /\ OneOutcome'
  BY DEF Attach, Detach, Discover, EcActs, EcEntersAlt, Notify, Listening, TypecInv, Usb4TypeOK, Values,
         RequestOpen, TimerOwned, OneOutcome, Disabled, Pending, controller, work, port,
         timeout, history
<1>4. queued' = queued \/ queued' = (queued \/ Listening)
  BY DEF Attach, Detach, Discover, EcActs, EcEntersAlt, Notify, work
<1>5. (queued => queued') /\ (queued' => queued \/ driver \in {"listening", "bound"})
  <2>1. CASE queued' = queued
    BY Zenon, <2>1
  <2>2. CASE queued' = (queued \/ Listening)
    BY Zenon, <2>2 DEF Listening
  <2> QED BY <1>4, <2>1, <2>2
<1>6. UNCHANGED <<driver, step, failed, usb_mode_req, timer, handler>>
  BY DEF Attach, Detach, Discover, EcActs, EcEntersAlt, Notify, work, port, timeout
<1>7. NeverStranded' /\ Stopped'
  BY <1>5, <1>6 DEF TypecInv, NeverStranded, Stopped, Disabled, Pending
<1> QED BY <1>1, <1>2, <1>3, <1>7 DEF TypecInv, Usb4TypeOK

LEMMA StepDriver ==
  ASSUME TypecInv,
         RegisterNotifier \/ ScheduleInitial \/ UnregisterNotifier \/ DisableTimeout \/
           CancelWork \/ UnregisterPorts
  PROVE  TypecInv'
<1>1. Flags'
  BY Zenon
  DEF RegisterNotifier, ScheduleInitial, UnregisterNotifier, DisableTimeout, CancelWork,
      UnregisterPorts, Remove, TypecInv, Usb4TypeOK, Flags, controller, work, port, timeout,
      history
<1>2. Values'
  BY DEF RegisterNotifier, ScheduleInitial, UnregisterNotifier, DisableTimeout, CancelWork,
         UnregisterPorts, Remove, TypecInv, Usb4TypeOK, Values, HsModes, Modes, controller, work,
         port, timeout, history
<1>3. RequestOpen' /\ TimerOwned' /\ OneOutcome'
  BY DEF RegisterNotifier, ScheduleInitial, UnregisterNotifier, DisableTimeout, CancelWork,
         UnregisterPorts, Remove, TypecInv, Usb4TypeOK, Values, RequestOpen, TimerOwned,
         OneOutcome, Disabled, Pending, controller, work, port, timeout, history
<1>4. NeverStranded' /\ Stopped'
  BY DEF RegisterNotifier, ScheduleInitial, UnregisterNotifier, DisableTimeout, CancelWork,
         UnregisterPorts, Remove, TypecInv, Usb4TypeOK, Values, RequestOpen, NeverStranded,
         Stopped, Disabled, Pending, controller, work, port, timeout, history
<1> QED BY <1>1, <1>2, <1>3, <1>4 DEF TypecInv, Usb4TypeOK

LEMMA TypecStep == TypecInv /\ [Usb4Next]_usb4Vars => TypecInv'
<1> SUFFICES ASSUME TypecInv, [Usb4Next]_usb4Vars PROVE TypecInv'
  OBVIOUS
<1>1. CASE Usb4Next
  BY <1>1, StepReading, StepPartner, StepRegister, StepUpdate, StepTimeout, StepController,
     StepDriver DEF Usb4Next, PortWork
<1>2. CASE UNCHANGED usb4Vars
  BY <1>2 DEF usb4Vars, controller, work, port, timeout, history, TypecInv, Usb4TypeOK, Flags, Values,
     RequestOpen, TimerOwned, NeverStranded, OneOutcome, Stopped, Disabled, Pending, Modes, HsModes
<1> QED BY <1>1, <1>2

LEMMA TypecInvariance == Usb4Spec => []TypecInv
BY TypecInit, TypecStep, PTL DEF Usb4Spec

\* Every variable of the driver, its work items and the controller keeps its
\* type (cros_typec_port and the stages of probe and remove).
THEOREM TypecTypes == Usb4Spec => []Usb4TypeOK
BY TypecInvariance, PTL DEF TypecInv

\* No request is ever left without something that will wake the port update
\* (cros_typec_request_usb_mode, cros_typec_usb_mode_timeout).
THEOREM NoneStranded == Usb4Spec => []NeverStranded
BY TypecInvariance, PTL DEF TypecInv

\* A partner gets one outcome (cros_typec_update_usb_mode).
THEOREM OneEach == Usb4Spec => []OneOutcome
BY TypecInvariance, PTL DEF TypecInv

\* Nothing runs once the port work is cancelled (cros_typec_remove).
THEOREM NothingLeft == Usb4Spec => []NothingAfterCancel
<1>1. TypecInv => NothingAfterCancel
  BY DEF TypecInv, Stopped, NothingAfterCancel, Disabled
<1> QED BY <1>1, TypecInvariance, PTL

\* A request that is given up had its full time (mod_delayed_work in
\* cros_typec_request_usb_mode).
THEOREM FullTimes == Usb4Spec => FullTime
<1>1. ASSUME TypecInv, [Usb4Next]_usb4Vars, step = "usb", selected' # selected, ~Disabled,
             ~(usb_mode_req = "usb3" /\ mux_flags \notin HsModes)
      PROVE  due = asked
  <2>1. UpdateUsbMode
    BY <1>1 DEF Usb4Next, PortWork, StartWork, ReadPort, ReadMux, ReadFails, SamePartner, NoDiscovery,
       AddPartner, RemovePartner, RegisterAltmodes, Expire, StartTimeout, UsbModeTimeout, Freeze,
       Thaw, Attach, Detach, Discover, EcActs, EcEntersAlt, Notify, RegisterNotifier,
       ScheduleInitial, UnregisterNotifier, DisableTimeout, CancelWork, UnregisterPorts, usb4Vars,
       history
  <2>2. TimedOut
    BY <1>1, <2>1 DEF UpdateUsbMode, Exited, Confirmed, Waits, history
  <2> QED BY <1>1, <2>2 DEF TypecInv, TimerOwned, TimedOut, Pending
<1>2. TypecInv /\ [Usb4Next]_usb4Vars
        => [/\ step = "usb" /\ selected' # selected /\ ~Disabled
            /\ ~(usb_mode_req = "usb3" /\ mux_flags \notin HsModes)
            => due = asked]_usb4Vars
  BY <1>1
<1> QED BY <1>2, TypecInvariance, PTL DEF Usb4Spec, FullTime

-----------------------------------------------------------------------------
\* The refinement of module ModeEntry.

\* A known partner for whom nothing is requested has had its outcome.
Settled == partner /\ known /\ usb_mode_req = "none" => confirmed + selected = 1

\* What a stage is made of.
entry == <<partner, known, usb_mode_req, confirmed, selected, mux_flags>>

\* The steps that touch none of it.
LEMMA EntryFrame ==
  ASSUME [Usb4Next]_usb4Vars,
         ~ReadMux, ~AddPartner, ~RemovePartner, ~RegisterAltmodes, ~UpdateUsbMode,
         ~UnregisterPorts
  PROVE  UNCHANGED entry
BY DEF Usb4Next, PortWork, StartWork, ReadPort, SamePartner, NoDiscovery, ReadFails, Expire,
       StartTimeout, UsbModeTimeout, Freeze, Thaw, Attach, Detach, Discover, EcActs, EcEntersAlt,
       Notify, RegisterNotifier, ScheduleInitial, UnregisterNotifier, DisableTimeout, CancelWork,
       controller, work, port, timeout, history, usb4Vars, entry

LEMMA SettledStep == TypecInv /\ Settled /\ [Usb4Next]_usb4Vars => Settled'
<1> SUFFICES ASSUME TypecInv, Settled, [Usb4Next]_usb4Vars PROVE Settled'
  OBVIOUS
<1>1. CASE ReadMux
  BY <1>1 DEF ReadMux, Settled, history
<1>2. CASE AddPartner
  BY <1>2 DEF AddPartner, Settled
<1>3. CASE RemovePartner \/ UnregisterPorts
  BY <1>3 DEF RemovePartner, UnregisterPorts, Remove, Settled
<1>4. CASE RegisterAltmodes
  BY <1>4 DEF RegisterAltmodes, RequestUsbMode, Request, RequestFails, StartModeSelection, FirstStep,
     Settled, TypecInv, RequestOpen, Usb4TypeOK, Values
<1>5. CASE UpdateUsbMode
  BY <1>5 DEF UpdateUsbMode, Exited, Confirmed, TimedOut, Waits, RequestUsbMode, Request, RequestFails,
     StartModeSelection, Settled, TypecInv, RequestOpen, Usb4TypeOK, Values
<1>6. CASE UNCHANGED entry
  BY <1>6 DEF entry, Settled
<1> QED BY <1>1, <1>2, <1>3, <1>4, <1>5, <1>6, EntryFrame

\* Each step is one of ModeEntry's, or changes neither stage nor mux.
LEMMA EntryStep ==
  ASSUME TypecInv, Settled, [Usb4Next]_usb4Vars
  PROVE  [Entry!Next]_<<EntryStage, mux_flags>>
<1> USE DEF EntryStage
<1>1. CASE ReadMux
  <2>1. mux_flags' \in {"none"} \cup HsModes
    BY <1>1 DEF ReadMux, TypecInv, Usb4TypeOK, Values
  <2>2. EntryStage' = EntryStage
    BY <1>1 DEF ReadMux, history
  <2>3. Entry!ReadMux BY <2>1, <2>2 DEF Entry!ReadMux
  <2> QED BY <2>3 DEF Entry!Next
<1>2. CASE AddPartner
  <2>1. Entry!Arrive BY <1>2 DEF AddPartner, Entry!Arrive
  <2> QED BY <2>1 DEF Entry!Next
<1>3. CASE RemovePartner \/ UnregisterPorts
  <2>1. Entry!Go BY <1>3 DEF RemovePartner, UnregisterPorts, Remove, Entry!Go
  <2> QED BY <2>1 DEF Entry!Next
<1>4. CASE RegisterAltmodes
  <2>1. /\ partner /\ ~known /\ partner' /\ known' /\ mux_flags' = mux_flags /\ confirmed' = confirmed
        /\ usb_mode_req = "none" /\ confirmed = 0 /\ selected = 0
    BY <1>4 DEF RegisterAltmodes, TypecInv, RequestOpen, Usb4TypeOK, Values
  <2>2. CASE RequestUsbMode(FirstStep)
    <3>1. CASE Request(FirstStep)
      <4>1. Entry!Begin
        BY <2>1, <3>1 DEF Request, FirstStep, Entry!Begin
      <4> QED BY <4>1 DEF Entry!Next
    <3>2. CASE RequestFails(FirstStep)
      <4>1. Entry!Select
        BY <2>1, <3>2 DEF RequestFails, StartModeSelection, Entry!Select
      <4> QED BY <4>1 DEF Entry!Next
    <3> QED BY <2>2, <3>1, <3>2 DEF RequestUsbMode
  <2>3. CASE StartModeSelection /\ UNCHANGED usb_mode_req
    <3>1. Entry!Select BY <2>1, <2>3 DEF StartModeSelection, Entry!Select
    <3> QED BY <3>1 DEF Entry!Next
  <2> QED BY <1>4, <2>2, <2>3 DEF RegisterAltmodes
<1>5. CASE UpdateUsbMode
  <2>1. UNCHANGED <<partner, known, mux_flags>>
    BY <1>5 DEF UpdateUsbMode
  <2>2. usb_mode_req # "none" => partner /\ known /\ confirmed = 0 /\ selected = 0
    BY DEF TypecInv, RequestOpen, Usb4TypeOK, Values
  <2>3. CASE Exited
    <3>1. CASE Request("usb4")
      <4>1. Entry!Left
        BY <2>1, <2>2, <2>3, <3>1 DEF Exited, Request, Entry!Left
      <4> QED BY <4>1 DEF Entry!Next
    <3>2. CASE RequestFails("usb4")
      <4>1. Entry!Select
        BY <2>1, <2>2, <2>3, <3>2 DEF Exited, RequestFails, StartModeSelection, Entry!Select
      <4> QED BY <4>1 DEF Entry!Next
    <3> QED BY <2>3, <3>1, <3>2 DEF Exited, RequestUsbMode
  <2>4. CASE Confirmed
    <3>1. Entry!Entered
      BY <2>1, <2>2, <2>4 DEF Confirmed, Entry!Entered
    <3> QED BY <3>1 DEF Entry!Next
  <2>5. CASE TimedOut
    <3>1. Entry!Select
      BY <2>1, <2>2, <2>5
      DEF TimedOut, StartModeSelection, Entry!Select, TypecInv, Usb4TypeOK, Values, Modes
    <3> QED BY <3>1 DEF Entry!Next
  <2>6. CASE Waits
    <3>1. UNCHANGED <<EntryStage, mux_flags>>
      BY <2>1, <2>6 DEF Waits
    <3> QED BY <3>1
  <2> QED BY <1>5, <2>3, <2>4, <2>5, <2>6 DEF UpdateUsbMode
<1>6. CASE UNCHANGED entry
  BY <1>6 DEF entry
<1> QED BY <1>1, <1>2, <1>3, <1>4, <1>5, <1>6, EntryFrame

\* The driver implements ModeEntry for any number of partners: one request for
\* USB4, made out of no other mode, and one outcome that lasts
\* (cros_typec_register_altmodes, cros_typec_update_usb_mode).
THEOREM ImplementsEntry == Usb4Spec => ImplementsModeEntry
<1>1. Usb4Init => Entry!Init /\ Settled
  BY DEF Usb4Init, Entry!Init, EntryStage, Settled
<1>2. TypecInv /\ Settled /\ [Usb4Next]_usb4Vars => Settled'
  BY SettledStep
<1>3. TypecInv /\ Settled /\ [Usb4Next]_usb4Vars => [Entry!Next]_<<EntryStage, mux_flags>>
  BY EntryStep
<1> QED BY <1>1, <1>2, <1>3, TypecInvariance, PTL DEF Usb4Spec, ImplementsModeEntry, Entry!Spec
=============================================================================
