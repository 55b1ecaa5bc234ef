----------------------------- MODULE CrasProofs -----------------------------
(***************************************************************************)
(* What CrasDsp promises for every set of addresses and buffers, every way *)
(* to wire the ports, every room of the compressor and every cut of a      *)
(* stream into calls.  The invariant has a part on what is allocated, one  *)
(* on what the filters have seen, and one on the memory of a call: the     *)
(* frames still to do are the host's, those done are the filters'.         *)
(***************************************************************************)
EXTENDS CrasDsp, SequenceTheorems, TLAPS

\* Allocated is what is pointed to, each object from one place.
Owned ==
  /\ DOMAIN heap = {self, drc, eq, newDrc, newEq} \ {Nil}
  /\ self # Nil => self \notin {drc, eq, newDrc, newEq}
  /\ drc # Nil => drc \notin {eq, newDrc, newEq}
  /\ eq # Nil => eq \notin {newDrc, newEq}
  /\ newDrc # Nil => newDrc # newEq
  /\ drc = Nil <=> eq = Nil

\* How far an initialisation has come, and what exists then.
Phases ==
  /\ pc = "none" => self = Nil /\ drc = Nil /\ ~running
  /\ pc # "none" => self # Nil
  /\ pc \in {"drc", "eq", "bands"} => drc = Nil /\ (running => played = 0)
  /\ newDrc # Nil <=> pc \in {"eq", "bands"}
  /\ newEq # Nil <=> pc = "bands"
  /\ active => pc \in {"idle", "run"} /\ running
  /\ pc # "run" => todo = 0

\* New filters, and those not processed since activate, have seen nothing.
Unused ==
  /\ newDrc # Nil => heap[newDrc] = <<>>
  /\ newEq # Nil => heap[newEq] = <<>>
  /\ drc # Nil /\ ~processed => heap[drc] = <<>> /\ heap[eq] = <<>>

Numbers ==
  /\ active \in BOOLEAN /\ processed \in BOOLEAN /\ running \in BOOLEAN
  /\ pc \in {"none", "drc", "eq", "bands", "idle", "run"}
  /\ stream \in Nat /\ played \in Nat
  /\ call \in [frames : 0..MaxFrames, base : Nat, live : BOOLEAN,
               out : [Channels -> Buffers \cup {Nil}]]
  /\ todo \in 0..call.frames

Wired ==
  /\ DOMAIN ports = Ports
  /\ \A c \in Channels : Input(c) \in Buffers \cup {Nil} /\ Output(c) \in Buffers \cup {Nil}
  /\ Input(0) # Input(1) \/ Input(0) = Nil
  /\ Output(0) # Output(1) \/ Output(0) = Nil

\* A call of run under way: what is done and what is to be done.
Halfway ==
  pc = "run" =>
    /\ active /\ call.live /\ played = call.base + Done
    /\ \A c \in Channels : /\ Input(c) \in Buffers /\ Output(c) \in Buffers
                           /\ call.out[c] = Output(c)
    /\ \A c \in Channels, k \in (Done + 1)..call.frames :
         mem[Input(c)][k] = <<stream, c, call.base + k>>
    /\ \A c \in Channels, k \in 1..Done :
         mem[Output(c)][k] = <<c, StreamFrames(call.base + k), StreamFrames(call.base + k)>>

\* After a call of run, as long as the stream lasts.
Delivered ==
  pc # "run" => \A c \in Channels, k \in 1..call.frames :
    call.out[c] # Nil =>
      mem[call.out[c]][k] =
        IF call.live THEN <<c, StreamFrames(call.base + k), StreamFrames(call.base + k)>>
        ELSE Silence

HeapInv == Numbers /\ Owned /\ Phases /\ Unused /\ CleanStart
CallInv == Wired /\ Halfway /\ Delivered
CrasInv == HeapInv /\ CallInv

-----------------------------------------------------------------------------
\* Sequences of frames.

LEMMA StreamGrows ==
  ASSUME NEW n \in Nat, NEW m \in Nat
  PROVE  StreamFrames(n) \o [k \in 1..m |-> StreamFrame(n + k)] = StreamFrames(n + m)
<1> DEFINE a == StreamFrames(n)
           b == [k \in 1..m |-> StreamFrame(n + k)]
           S == {StreamFrame(j) : j \in Nat}
<1>1. a \in Seq(S) /\ Len(a) = n /\ \A j \in 1..n : a[j] = StreamFrame(j)
  BY DEF StreamFrames
<1>2. b \in Seq(S) /\ Len(b) = m /\ \A k \in 1..m : b[k] = StreamFrame(n + k)
  OBVIOUS
<1>3. StreamFrames(n + m) \in Seq(S) /\ Len(StreamFrames(n + m)) = n + m
      /\ \A j \in 1..(n + m) : StreamFrames(n + m)[j] = StreamFrame(j)
  BY DEF StreamFrames
<1> HIDE DEF a, b, S
<1>4. a \o b \in Seq(S) /\ Len(a \o b) = n + m
      /\ \A i \in 1..(n + m) : (a \o b)[i] = IF i <= n THEN a[i] ELSE b[i - n]
  BY <1>1, <1>2, ConcatProperties
<1>5. \A i \in 1..(n + m) : (a \o b)[i] = StreamFrames(n + m)[i]
  BY <1>1, <1>2, <1>3, <1>4
<1>6. a \o b = StreamFrames(n + m)
  BY <1>3, <1>4, <1>5, SeqEqual
<1> QED BY <1>6 DEF a, b

LEMMA StreamPrefix ==
  ASSUME NEW n \in Nat, NEW m \in Nat, NEW i \in 0..m
  PROVE  SubSeq([k \in 1..m |-> StreamFrame(n + k)], 1, i) = [k \in 1..i |-> StreamFrame(n + k)]
OBVIOUS

LEMMA EmptyStream == StreamFrames(0) = <<>>
BY DEF StreamFrames


-----------------------------------------------------------------------------
\* Everything but Chunk: the heap and the filters.

LEMMA HeapInit == Init => HeapInv
<1> SUFFICES ASSUME Init PROVE HeapInv
  OBVIOUS
<1>1. Numbers
  <2>1. MaxFrames \in Nat /\ [c \in Channels |-> Nil] \in [Channels -> Buffers \cup {Nil}]
    BY CrasAssumption
  <2>2. call \in [frames : 0..MaxFrames, base : Nat, live : BOOLEAN,
                  out : [Channels -> Buffers \cup {Nil}]]
    BY <2>1 DEF Init
  <2>3. /\ call.frames = 0 /\ todo = 0 /\ active = FALSE /\ processed = FALSE
        /\ running = FALSE /\ pc = "none" /\ stream = 0 /\ played = 0
    BY DEF Init
  <2>4. active \in BOOLEAN /\ processed \in BOOLEAN /\ running \in BOOLEAN
    BY <2>3
  <2>5. todo \in 0..call.frames /\ stream \in Nat /\ played \in Nat
    BY <2>3
  <2> QED BY <2>2, <2>3, <2>4, <2>5 DEF Numbers
<1>2. Owned /\ Phases /\ Unused /\ CleanStart
  BY DEF Init, Owned, Phases, Unused, CleanStart
<1> QED BY <1>1, <1>2 DEF HeapInv

LEMMA InstantiateHeap == ASSUME HeapInv, Instantiate PROVE HeapInv'
<1> USE DEF HeapInv
<1>1. PICK o \in Objects \ DOMAIN heap : heap' = With(heap, o) /\ self' = o
  BY DEF Instantiate
<1>2. /\ o # Nil /\ DOMAIN heap' = DOMAIN heap \cup {o}
      /\ \A x \in DOMAIN heap : heap'[x] = heap[x]
  BY <1>1, CrasAssumption DEF With
<1>3. Numbers'
  BY DEF Instantiate, Numbers, flags, host, progress
<1>4. Owned' /\ Phases' /\ Unused' /\ CleanStart'
  BY <1>1, <1>2 DEF Instantiate, Owned, Phases, Unused, CleanStart, flags, host, progress
<1> QED BY <1>3, <1>4

LEMMA NewDrcHeap == ASSUME HeapInv, NewDrc PROVE HeapInv'
<1> USE DEF HeapInv
<1>1. PICK o \in Objects \ DOMAIN heap : heap' = With(heap, o) /\ newDrc' = o
  BY DEF NewDrc
<1>2. /\ o # Nil /\ DOMAIN heap' = DOMAIN heap \cup {o} /\ heap'[o] = <<>>
      /\ \A x \in DOMAIN heap : heap'[x] = heap[x]
  BY <1>1, CrasAssumption DEF With
<1>3. Numbers'
  BY DEF NewDrc, Numbers, flags, host, progress
<1>4. Owned' /\ Phases' /\ Unused' /\ CleanStart'
  BY <1>1, <1>2 DEF NewDrc, Owned, Phases, Unused, CleanStart, flags, host, progress
<1> QED BY <1>3, <1>4

LEMMA NewEqHeap == ASSUME HeapInv, NewEq PROVE HeapInv'
<1> USE DEF HeapInv
<1>1. PICK o \in Objects \ DOMAIN heap : heap' = With(heap, o) /\ newEq' = o
  BY DEF NewEq
<1>2. /\ o # Nil /\ DOMAIN heap' = DOMAIN heap \cup {o} /\ heap'[o] = <<>>
      /\ \A x \in DOMAIN heap : heap'[x] = heap[x]
  BY <1>1, CrasAssumption DEF With
<1>3. Numbers'
  BY DEF NewEq, Numbers, flags, host, progress
<1>4. Owned' /\ Phases' /\ Unused' /\ CleanStart'
  BY <1>1, <1>2 DEF NewEq, Owned, Phases, Unused, CleanStart, flags, host, progress
<1> QED BY <1>3, <1>4

LEMMA BandsHeap == ASSUME HeapInv, Bands PROVE HeapInv'
<1> USE DEF HeapInv
<1>1. Numbers'
  BY DEF Bands, Numbers, host, progress
<1>2. Owned' /\ Phases' /\ Unused'
  BY DEF Bands, Owned, Phases, Unused, host, progress
<1>3. CleanStart'
  BY EmptyStream DEF Bands, CleanStart, Unused, Phases, Numbers, host, progress, StreamFrames
<1> QED BY <1>1, <1>2, <1>3

\* A failed initialisation frees what it made, and before the first one the
\* instance as well.
LEMMA FailedHeap ==
  ASSUME HeapInv, NEW new, Failed(new), new = {newDrc, newEq} \ {Nil},
         pc \in {"drc", "eq", "bands"}
  PROVE  HeapInv'
<1> USE DEF HeapInv
<1>1. /\ DOMAIN heap' = DOMAIN heap \ (new \cup (IF running THEN {} ELSE {self}))
      /\ \A x \in DOMAIN heap' : heap'[x] = heap[x]
  BY DEF Failed, Free
<1>2. Numbers'
  BY DEF Failed, Numbers, host, progress
<1>3. /\ drc = Nil /\ eq = Nil /\ drc' = Nil /\ eq' = Nil /\ newDrc' = Nil /\ newEq' = Nil
      /\ self # Nil /\ self \notin new /\ DOMAIN heap = {self} \cup new
      /\ active' = FALSE /\ pc # "run"
  BY DEF Failed, Owned, Phases
<1>4. CASE running
  <2>1. self' = self /\ pc' = "idle" /\ running' /\ DOMAIN heap' = {self}
    BY <1>1, <1>3, <1>4 DEF Failed, host
  <2>2. Owned' /\ Unused' /\ CleanStart'
    BY <1>3, <2>1 DEF Owned, Unused, CleanStart
  <2>3. Phases'
    BY <1>3, <2>1 DEF Failed, Phases, progress
  <2> QED BY <1>2, <2>2, <2>3
<1>5. CASE ~running
  <2>1. self' = Nil /\ pc' = "none" /\ ~running' /\ DOMAIN heap' = {}
    BY <1>1, <1>3, <1>5 DEF Failed, host
  <2>2. Owned' /\ Unused' /\ CleanStart'
    BY <1>3, <2>1 DEF Owned, Unused, CleanStart
  <2>3. Phases'
    BY <1>3, <2>1 DEF Failed, Phases, progress
  <2> QED BY <1>2, <2>2, <2>3
<1> QED BY <1>4, <1>5

LEMMA InitializeHeap == ASSUME HeapInv, Initialize PROVE HeapInv'
<1>1. CASE NewDrc BY <1>1, NewDrcHeap
<1>2. CASE NewEq BY <1>2, NewEqHeap
<1>3. CASE Bands BY <1>3, BandsHeap
<1>4. CASE NewDrcFails
  <2>1. Failed({}) /\ {} = {newDrc, newEq} \ {Nil} /\ pc = "drc"
    BY <1>4 DEF NewDrcFails, HeapInv, Phases
  <2> QED BY <2>1, FailedHeap
<1>5. CASE NewEqFails
  <2>1. Failed({newDrc}) /\ {newDrc} = {newDrc, newEq} \ {Nil} /\ pc = "eq"
    BY <1>5 DEF NewEqFails, HeapInv, Phases
  <2> QED BY <2>1, FailedHeap
<1>6. CASE BandFails
  <2>1. Failed({newDrc, newEq}) /\ {newDrc, newEq} = {newDrc, newEq} \ {Nil} /\ pc = "bands"
    BY <1>6 DEF BandFails, HeapInv, Phases
  <2> QED BY <2>1, FailedHeap
<1> QED BY <1>1, <1>2, <1>3, <1>4, <1>5, <1>6 DEF Initialize

LEMMA DestroyHeap ==
  ASSUME NEW others, Destroy(others)
  PROVE  /\ DOMAIN heap' = DOMAIN heap \ ({drc, eq} \cup others)
         /\ \A x \in DOMAIN heap' : heap'[x] = heap[x]
         /\ drc' = Nil /\ eq' = Nil
BY DEF Destroy, Free

LEMMA CallReset ==
  ASSUME Numbers
  PROVE  /\ [call EXCEPT !.frames = 0] \in
              [frames : 0..MaxFrames, base : Nat, live : BOOLEAN,
               out : [Channels -> Buffers \cup {Nil}]]
         /\ [call EXCEPT !.frames = 0].frames = 0
BY CrasAssumption DEF Numbers

LEMMA ActivateHeap == ASSUME HeapInv, Activate PROVE HeapInv'
<1> USE DEF HeapInv
<1>1. CASE Fresh /\ active' = TRUE /\ processed' = FALSE /\ UNCHANGED <<filters, pc>>
  <2>1. Numbers'
    <3>1. /\ active' = TRUE /\ processed' = FALSE /\ running' = TRUE /\ pc' = pc
          /\ stream' = stream + 1 /\ played' = 0 /\ todo' = 0
          /\ call' = [call EXCEPT !.frames = 0]
      BY <1>1 DEF Activate, Phases
    <3>2. /\ call'.frames = 0
          /\ call' \in [frames : 0..MaxFrames, base : Nat, live : BOOLEAN,
                        out : [Channels -> Buffers \cup {Nil}]]
      BY <3>1, CallReset
    <3>3. active' \in BOOLEAN /\ processed' \in BOOLEAN /\ running' \in BOOLEAN
      BY <3>1
    <3>4. todo' \in 0..call'.frames /\ stream' \in Nat /\ played' \in Nat
      BY <3>1, <3>2 DEF Numbers
    <3> QED BY <3>1, <3>2, <3>3, <3>4 DEF Numbers
  <2>2. Owned' /\ Phases' /\ Unused'
    BY <1>1 DEF Activate, Owned, Phases, Unused, Fresh, filters
  <2>3. CleanStart'
    BY <1>1, EmptyStream DEF Activate, CleanStart, Unused, Fresh, filters, StreamFrames
  <2> QED BY <2>1, <2>2, <2>3
<1>2. CASE Reset /\ UNCHANGED <<self, newDrc, newEq, flags>>
  <2>1. /\ DOMAIN heap' = DOMAIN heap \ {drc, eq} /\ drc' = Nil /\ eq' = Nil /\ pc' = "drc"
        /\ \A x \in DOMAIN heap' : heap'[x] = heap[x]
    BY <1>2, DestroyHeap DEF Reset
  <2>2. Numbers'
    BY <1>2, <2>1, CallReset DEF Activate, Numbers, Phases, flags
  <2>3. Owned' /\ Phases' /\ Unused' /\ CleanStart'
    BY <1>2, <2>1 DEF Activate, Owned, Phases, Unused, CleanStart, flags
  <2> QED BY <2>2, <2>3
<1> QED BY <1>1, <1>2 DEF Activate

LEMMA CleanupHeap == ASSUME HeapInv, Cleanup PROVE HeapInv'
<1> USE DEF HeapInv
<1>1. /\ DOMAIN heap' = DOMAIN heap \ {drc, eq, self} /\ drc' = Nil /\ eq' = Nil
      /\ \A x \in DOMAIN heap' : heap'[x] = heap[x]
  BY DestroyHeap DEF Cleanup
<1>2. Numbers'
  BY DEF Cleanup, Numbers, host, progress
<1>3. Owned' /\ Phases' /\ Unused' /\ CleanStart'
  BY <1>1 DEF Cleanup, Owned, Phases, Unused, CleanStart, host, progress
<1> QED BY <1>2, <1>3

\* The calls that leave the filters alone.
LEMMA FrozenHeap ==
  ASSUME HeapInv, UNCHANGED <<filters, stream, played, processed>>, Numbers', Phases',
         active' => active /\ running' = running
  PROVE  HeapInv'
BY DEF HeapInv, Owned, Unused, CleanStart, filters, StreamFrames, StreamFrame

LEMMA OtherHeap ==
  ASSUME HeapInv, Wired,
         \/ Deactivate \/ Return
         \/ \E w \in Wirings : Connect(w)
         \/ \E n \in 0..MaxFrames : StartRun(n, Filled)
  PROVE  HeapInv'
<1> USE DEF HeapInv
<1>1. CASE Deactivate
  <2>1. Numbers' /\ Phases'
    BY <1>1 DEF Deactivate, Numbers, Phases, filters, progress
  <2> QED BY <1>1, <2>1, FrozenHeap DEF Deactivate, progress
<1>2. CASE Return
  <2>1. Numbers' /\ Phases'
    BY <1>2 DEF Return, Numbers, Phases, filters, flags, host, progress
  <2> QED BY <1>2, <2>1, FrozenHeap DEF Return, flags, host, progress
<1>3. CASE \E w \in Wirings : Connect(w)
  <2>1. Numbers' /\ Phases'
    BY <1>3 DEF Connect, Numbers, Phases, filters, flags, host, progress
  <2> QED BY <1>3, <2>1, FrozenHeap DEF Connect, flags, host, progress
<1>4. ASSUME NEW n \in 0..MaxFrames, StartRun(n, Filled) PROVE HeapInv'
  <2>1. /\ UNCHANGED <<filters, active, processed, running, stream, played>>
        /\ \/ Live /\ todo' = n /\ pc' = "run"
           \/ ~Live /\ UNCHANGED <<todo, pc>>
        /\ running /\ pc = "idle"
        /\ call' = [frames |-> n, base |-> played, live |-> Live,
                    out |-> [c \in Channels |-> Output(c)]]
    BY <1>4 DEF StartRun, flags, host
  <2>2. Live \in BOOLEAN /\ (Live => active)
    BY DEF Live, Numbers
  <2>3. [c \in Channels |-> Output(c)] \in [Channels -> Buffers \cup {Nil}]
    BY DEF Wired
  <2>4. /\ call'.frames = n
        /\ call' \in [frames : 0..MaxFrames, base : Nat, live : BOOLEAN,
                      out : [Channels -> Buffers \cup {Nil}]]
    BY <2>1, <2>2, <2>3 DEF Numbers
  <2>5. todo = 0 /\ todo' \in 0..n
    BY <2>1 DEF Phases
  <2>6. Numbers'
    BY <2>1, <2>4, <2>5 DEF Numbers
  <2>7. Phases'
    BY <2>1, <2>2, <2>5 DEF Phases, filters
  <2> QED BY <2>1, <2>6, <2>7, FrozenHeap
<1> QED BY <1>1, <1>2, <1>3, <1>4

-----------------------------------------------------------------------------
\* One chunk.

\* The chunk as Copied leaves it in the outputs: the host's next frames.
LEMMA ChunkSource ==
  ASSUME HeapInv, CallInv, Chunk
  PROVE  /\ Count \in 1..todo /\ Count <= ProcessMax /\ Done \in Nat
         /\ Done + todo = call.frames /\ call.frames <= MaxFrames
         /\ \A c \in Channels : Output(c) \in Buffers /\ Input(c) \in Buffers
         /\ \A c, d \in Channels : Output(c) = Output(d) => c = d
         /\ \A c, d \in Channels : Input(c) = Input(d) => c = d
         /\ \A c \in Channels, k \in 1..Count :
              Copied(mem)[Output(c)][Done + k] = <<stream, c, played + k>>
         /\ \A b \in Buffers, k \in 1..MaxFrames \ Slice : Copied(mem)[b][k] = mem[b][k]
<1>1. /\ todo \in Nat /\ todo > 0 /\ call.frames \in 0..MaxFrames /\ todo <= call.frames
      /\ MaxFrames \in Nat /\ ProcessMax \in Nat \ {0} /\ played \in Nat /\ call.base \in Nat
  BY CrasAssumption DEF Chunk, HeapInv, Numbers
<1>2. /\ Count \in 1..todo /\ Count <= ProcessMax /\ Done \in Nat
      /\ Done + todo = call.frames /\ call.frames <= MaxFrames
  BY <1>1 DEF Count, Done
<1>3. /\ \A c \in Channels : Output(c) \in Buffers /\ Input(c) \in Buffers
      /\ played = call.base + Done
      /\ \A c \in Channels, k \in (Done + 1)..call.frames :
           mem[Input(c)][k] = <<stream, c, call.base + k>>
  BY DEF Chunk, CallInv, Halfway
<1>4. /\ \A c, d \in Channels : Output(c) = Output(d) => c = d
      /\ \A c, d \in Channels : Input(c) = Input(d) => c = d
  BY <1>3, CrasAssumption DEF CallInv, Wired, Channels
<1>5. CASE \A c \in Channels : Output(c) = Input(c)
  <2>1. Copied(mem) = mem
    BY <1>5 DEF Copied
  <2>2. \A c \in Channels, k \in 1..Count : mem[Output(c)][Done + k] = <<stream, c, played + k>>
    BY <1>1, <1>2, <1>3, <1>5
  <2> QED BY <1>2, <1>3, <1>4, <2>1, <2>2
<1>6. CASE ~ \A c \in Channels : Output(c) = Input(c)
  <2>1. \A b \in Buffers, k \in 1..MaxFrames :
          Copied(mem)[b][k] =
            IF k \in Slice /\ \E c \in Channels : Output(c) = b
            THEN mem[Input(CHOOSE c \in Channels : Output(c) = b)][k] ELSE mem[b][k]
    BY <1>6 DEF Copied
  <2>2. ASSUME NEW c \in Channels, NEW k \in 1..Count
        PROVE  Copied(mem)[Output(c)][Done + k] = <<stream, c, played + k>>
    <3>1. Done + k \in Slice /\ Done + k \in 1..MaxFrames /\ Done + k \in (Done + 1)..call.frames
      BY <1>1, <1>2 DEF Slice
    <3>2. (CHOOSE d \in Channels : Output(d) = Output(c)) = c
      BY <1>4
    <3>3. Copied(mem)[Output(c)][Done + k] = mem[Input(c)][Done + k]
      BY <1>3, <2>1, <3>1, <3>2
    <3> QED BY <1>1, <1>2, <1>3, <3>1, <3>3
  <2>3. \A b \in Buffers, k \in 1..MaxFrames \ Slice : Copied(mem)[b][k] = mem[b][k]
    BY <2>1
  <2> QED BY <1>2, <1>3, <1>4, <2>2, <2>3
<1> QED BY <1>5, <1>6

\* What the filters have seen after it, and what they have made of it.
LEMMA ChunkFilters ==
  ASSUME HeapInv, CallInv, Chunk
  PROVE  /\ DOMAIN heap' = DOMAIN heap
         /\ heap'[drc] = StreamFrames(played + Count)
         /\ heap'[eq] = StreamFrames(played + Count)
         /\ \A c \in Channels, k \in Slice :
              mem'[Output(c)][k] = <<c, StreamFrames(call.base + k), StreamFrames(call.base + k)>>
         /\ \A b \in Buffers, k \in 1..MaxFrames \ Slice : mem'[b][k] = mem[b][k]
<1> DEFINE copied == Copied(mem)
           frames == NextFrames(copied)
           next == [k \in 1..Count |-> StreamFrame(played + k)]
<1>1. /\ Count \in 1..todo /\ Count <= ProcessMax /\ Done \in Nat
      /\ Done + todo = call.frames /\ call.frames <= MaxFrames
      /\ \A c \in Channels : Output(c) \in Buffers /\ Input(c) \in Buffers
      /\ \A c, d \in Channels : Output(c) = Output(d) => c = d
      /\ \A c \in Channels, k \in 1..Count : copied[Output(c)][Done + k] = <<stream, c, played + k>>
      /\ \A b \in Buffers, k \in 1..MaxFrames \ Slice : copied[b][k] = mem[b][k]
  BY ChunkSource
<1>2. frames = next
  BY <1>1 DEF NextFrames, StreamFrame
<1>3. heap' = Fed(heap, frames) /\ mem' = Filtered(copied, frames)
  BY DEF Chunk
<1>4. /\ active /\ played = call.base + Done /\ played \in Nat /\ call.base \in Nat
      /\ todo \in Nat /\ ProcessMax \in Nat /\ MaxFrames \in Nat
  BY CrasAssumption DEF Chunk, CallInv, Halfway, HeapInv, Numbers
<1>5. /\ heap[drc] = StreamFrames(played) /\ heap[eq] = StreamFrames(played)
      /\ drc \in DOMAIN heap /\ eq \in DOMAIN heap
  BY <1>4 DEF HeapInv, CleanStart, Owned
<1> HIDE DEF copied, frames
<1>6. StreamFrames(played) \o frames = StreamFrames(played + Count)
  <2>1. Count \in Nat
    BY <1>1, <1>4
  <2> QED BY <1>2, <1>4, <2>1, StreamGrows
<1>7. /\ DOMAIN heap' = DOMAIN heap
      /\ heap'[drc] = StreamFrames(played + Count)
      /\ heap'[eq] = StreamFrames(played + Count)
  BY <1>3, <1>5, <1>6 DEF Fed
<1>8. ASSUME NEW c \in Channels, NEW k \in Slice
      PROVE  mem'[Output(c)][k] = <<c, StreamFrames(call.base + k), StreamFrames(call.base + k)>>
  <2>1. k \in 1..MaxFrames /\ k - Done \in 1..Count /\ k - Done <= ProcessMax
    BY <1>1, <1>4 DEF Slice
  <2>2. (CHOOSE d \in Channels : Output(d) = Output(c)) = c
    BY <1>1
  <2>3. mem'[Output(c)][k] =
          <<c, heap[drc] \o SubSeq(frames, 1, k - Done), heap[eq] \o SubSeq(frames, 1, k - Done)>>
    <3>1. \A b \in Buffers, i \in 1..MaxFrames :
            mem'[b][i] =
              IF i \in Slice /\ \E d \in Channels : Output(d) = b
              THEN IF i - Done > ProcessMax THEN Garbage
                   ELSE <<CHOOSE d \in Channels : Output(d) = b,
                          heap[drc] \o SubSeq(frames, 1, i - Done),
                          heap[eq] \o SubSeq(frames, 1, i - Done)>>
              ELSE copied[b][i]
      BY <1>3 DEF Filtered
    <3>2. ~(k - Done > ProcessMax)
      BY <1>4, <2>1
    <3>3. Output(c) \in Buffers /\ k \in Slice /\ \E d \in Channels : Output(d) = Output(c)
      BY <1>1
    <3> QED BY <2>1, <2>2, <3>1, <3>2, <3>3
  <2>4. SubSeq(frames, 1, k - Done) = [i \in 1..(k - Done) |-> StreamFrame(played + i)]
    <3>1. k - Done \in 0..Count /\ Count \in Nat
      BY <1>1, <1>4, <2>1
    <3> QED BY <1>2, <1>4, <3>1, StreamPrefix
  <2>5. StreamFrames(played) \o [i \in 1..(k - Done) |-> StreamFrame(played + i)]
          = StreamFrames(played + (k - Done))
    <3>1. k - Done \in Nat
      BY <1>1, <2>1
    <3> QED BY <1>4, <3>1, StreamGrows
  <2>6. played + (k - Done) = call.base + k
    BY <1>1, <1>4, <2>1
  <2> QED BY <1>5, <2>3, <2>4, <2>5, <2>6
<1>9. ASSUME NEW b \in Buffers, NEW k \in 1..MaxFrames \ Slice
      PROVE  mem'[b][k] = mem[b][k]
  <2>1. mem'[b][k] = copied[b][k]
    BY <1>3 DEF Filtered
  <2> QED BY <1>1, <2>1
<1> QED BY <1>7, <1>8, <1>9

LEMMA ChunkKeeps == ASSUME HeapInv, CallInv, Chunk PROVE HeapInv' /\ CallInv'
<1>1. /\ Count \in 1..todo /\ Done \in Nat /\ Done + todo = call.frames
      /\ call.frames <= MaxFrames /\ call.frames \in Nat /\ todo \in Nat /\ MaxFrames \in Nat
      /\ \A c \in Channels : Output(c) \in Buffers /\ Input(c) \in Buffers
  BY ChunkSource, CrasAssumption DEF HeapInv, Numbers
<1>2. /\ processed' = TRUE /\ played' = played + Count /\ todo' = todo - Count
      /\ UNCHANGED <<self, drc, eq, newDrc, newEq, active, ports, pc, running, stream, call>>
      /\ pc = "run"
  BY DEF Chunk, host
<1>3. Done' = Done + Count
  BY <1>1, <1>2 DEF Done
<1>4. HeapInv'
  <2>1. Numbers'
    BY <1>1, <1>2 DEF HeapInv, Numbers
  <2>2. Owned' /\ Phases'
    BY <1>2, ChunkFilters DEF HeapInv, Owned, Phases
  <2>3. Unused'
    BY <1>2 DEF HeapInv, Phases, Unused
  <2>4. CleanStart'
    BY <1>2, ChunkFilters DEF HeapInv, CleanStart, StreamFrames, StreamFrame
  <2> QED BY <2>1, <2>2, <2>3, <2>4 DEF HeapInv
<1>5. CallInv'
  <2>1. Wired' /\ \A c \in Channels : Input(c)' = Input(c) /\ Output(c)' = Output(c)
    BY <1>2 DEF CallInv, Wired, Input, Output
  <2>2. /\ active /\ call.live /\ played = call.base + Done
        /\ \A c \in Channels : call.out[c] = Output(c)
        /\ \A c \in Channels, k \in (Done + 1)..call.frames :
             mem[Input(c)][k] = <<stream, c, call.base + k>>
        /\ \A c \in Channels, k \in 1..Done :
             mem[Output(c)][k] = <<c, StreamFrames(call.base + k), StreamFrames(call.base + k)>>
    BY <1>2 DEF CallInv, Halfway
  <2>3. played' = call.base + Done'
    BY <1>1, <1>2, <1>3, <2>2 DEF HeapInv, Numbers
  <2>4. ASSUME NEW c \in Channels, NEW k \in (Done' + 1)..call.frames
        PROVE  mem'[Input(c)][k] = <<stream, c, call.base + k>>
    <3>1. k \in 1..MaxFrames \ Slice /\ k \in (Done + 1)..call.frames
      BY <1>1, <1>3 DEF Slice
    <3> QED BY <1>1, <2>2, <3>1, ChunkFilters
  <2>5. ASSUME NEW c \in Channels, NEW k \in 1..Done'
        PROVE  mem'[Output(c)][k] =
                 <<c, StreamFrames(call.base + k), StreamFrames(call.base + k)>>
    <3>1. CASE k \in Slice
      BY <3>1, ChunkFilters
    <3>2. CASE k \notin Slice
      <4>1. k \in 1..MaxFrames \ Slice /\ k \in 1..Done
        BY <1>1, <1>3, <3>2 DEF Slice
      <4> QED BY <1>1, <2>2, <4>1, ChunkFilters
    <3> QED BY <3>1, <3>2
  <2>6. \A n \in Nat : StreamFrames(n)' = StreamFrames(n)
    BY <1>2 DEF StreamFrames, StreamFrame
  <2>7. Halfway'
    BY <1>1, <1>2, <2>1, <2>2, <2>3, <2>4, <2>5 DEF Halfway, StreamFrames, StreamFrame
  <2>8. Delivered'
    BY <1>2 DEF Delivered
  <2> QED BY <2>1, <2>7, <2>8 DEF CallInv
<1> QED BY <1>4, <1>5

-----------------------------------------------------------------------------
\* The memory of the calls, in the other actions.

LEMMA CallInit == Init => CallInv
BY DEF Init, CallInv, Wired, Halfway, Delivered, Input, Output, InputPort, OutputPort,
       Ports, PortCount, Channels

\* The steps between two calls of run.
LEMMA CallFrozen ==
  ASSUME CallInv, UNCHANGED <<mem, call, stream>>, Wired', pc # "run", pc' # "run"
  PROVE  CallInv'
BY DEF CallInv, Halfway, Delivered, StreamFrames, StreamFrame

LEMMA WiredFrozen == ASSUME Wired, UNCHANGED ports PROVE Wired'
BY DEF Wired, Input, Output

LEMMA ConnectWired == ASSUME NEW w \in Wirings, Connect(w) PROVE Wired'
BY CrasAssumption DEF Connect, Wired, Input, Output

LEMMA InstantiateWired == ASSUME Instantiate PROVE Wired'
BY DEF Instantiate, Wired, Input, Output, InputPort, OutputPort, Ports, PortCount, Channels

LEMMA ReturnCall == ASSUME HeapInv, CallInv, Return PROVE CallInv'
<1>1. /\ UNCHANGED <<ports, mem, call, stream, todo>> /\ pc = "run" /\ pc' = "idle" /\ todo = 0
      /\ call.frames \in Nat
  BY CrasAssumption DEF Return, host, progress, HeapInv, Numbers
<1>2. Done = call.frames
  BY <1>1 DEF Done
<1>3. Wired'
  BY <1>1, WiredFrozen DEF CallInv
<1>4. Halfway'
  BY <1>1 DEF Halfway
<1>5. Delivered'
  BY <1>1, <1>2 DEF CallInv, Halfway, Delivered, StreamFrames, StreamFrame
<1> QED BY <1>3, <1>4, <1>5 DEF CallInv

LEMMA StartRunCall ==
  ASSUME HeapInv, CallInv, NEW n \in 0..MaxFrames, StartRun(n, Filled)
  PROVE  CallInv'
<1>1. /\ UNCHANGED <<ports, active, stream, played>> /\ pc = "idle"
      /\ call'.frames = n /\ call'.base = played /\ call'.live = Live
      /\ \A c \in Channels : call'.out[c] = Output(c)
  BY DEF StartRun, flags, host
<1>2. Wired' /\ \A c \in Channels : Input(c)' = Input(c) /\ Output(c)' = Output(c)
  BY <1>1, WiredFrozen DEF CallInv, Input, Output
<1>3. n \in Nat /\ n <= MaxFrames /\ MaxFrames \in Nat /\ played \in Nat
  BY CrasAssumption DEF HeapInv, Numbers
<1>4. CASE Live
  <2>1. mem' = Filled /\ todo' = n /\ pc' = "run"
    BY <1>4 DEF StartRun
  <2>2. Done' = 0
    BY <1>1, <1>3, <2>1 DEF Done
  <2>3. /\ active /\ \A c \in Channels : Input(c) \in Buffers /\ Output(c) \in Buffers
        /\ \A c, d \in Channels : Input(c) = Input(d) => c = d
    BY <1>4 DEF Live, CallInv, Wired, Channels
  <2>4. ASSUME NEW c \in Channels, NEW k \in 1..n
        PROVE  mem'[Input(c)][k] = <<stream, c, played + k>>
    <3>1. k \in 1..MaxFrames
      BY <1>3
    <3>2. (CHOOSE d \in Channels : Input(d) = Input(c)) = c
      BY <2>3
    <3> QED BY <2>1, <2>3, <3>1, <3>2 DEF Filled
  <2>5. Halfway'
    <3>1. active' /\ call'.live /\ played' = call'.base + Done'
      BY <1>1, <1>3, <1>4, <2>2, <2>3
    <3>2. \A c \in Channels : /\ Input(c)' \in Buffers /\ Output(c)' \in Buffers
                              /\ call'.out[c] = Output(c)'
      BY <1>1, <1>2, <2>3
    <3>3. \A c \in Channels, k \in (Done' + 1)..call'.frames :
            mem'[Input(c)'][k] = <<stream', c, call'.base + k>>
      BY <1>1, <1>2, <2>2, <2>4
    <3>4. 1..Done' = {}
      BY <2>2
    <3> QED BY <3>1, <3>2, <3>3, <3>4 DEF Halfway
  <2>6. Delivered'
    BY <2>1 DEF Delivered
  <2> QED BY <1>2, <2>5, <2>6 DEF CallInv
<1>5. CASE ~Live
  <2>2. mem' = Silenced(Filled, n) /\ pc' = pc
    BY <1>5 DEF StartRun
  <2>3. ASSUME NEW c \in Channels, NEW k \in 1..n, Output(c) # Nil
        PROVE  mem'[Output(c)][k] = Silence
    <3>1. k \in 1..MaxFrames /\ k <= n /\ Output(c) \in Buffers
      BY <1>3, <2>3 DEF CallInv, Wired
    <3> QED BY <2>2, <3>1 DEF Silenced
  <2>4. Halfway'
    BY <1>1, <2>2 DEF Halfway
  <2>5. Delivered'
    BY <1>1, <1>5, <2>3 DEF Delivered
  <2> QED BY <1>2, <2>4, <2>5 DEF CallInv
<1> QED BY <1>4, <1>5

LEMMA CrasInit == Init => CrasInv
BY HeapInit, CallInit DEF CrasInv

\* Every step keeps the invariant.
LEMMA CrasStep == CrasInv /\ [Next]_vars => CrasInv'
<1> SUFFICES ASSUME CrasInv, [Next]_vars PROVE CrasInv'
  OBVIOUS
<1>0. HeapInv /\ CallInv /\ Wired
  BY DEF CrasInv, CallInv
<1>1. CASE Instantiate
  <2>1. UNCHANGED <<mem, call, stream>> /\ pc # "run" /\ pc' # "run"
    BY <1>1 DEF Instantiate, host, progress
  <2> QED BY <1>0, <1>1, <2>1, InstantiateHeap, InstantiateWired, CallFrozen DEF CrasInv
<1>2. CASE Initialize
  <2>1. UNCHANGED <<mem, call, stream, ports>> /\ pc # "run" /\ pc' # "run"
    BY <1>2 DEF Initialize, NewDrc, NewEq, Bands, NewDrcFails, NewEqFails, BandFails, Failed,
                host, progress
  <2> QED BY <1>0, <1>2, <2>1, InitializeHeap, WiredFrozen, CallFrozen DEF CrasInv
<1>3. CASE Activate
  <2>1. /\ UNCHANGED <<ports, mem>> /\ pc' # "run"
        /\ call' = [call EXCEPT !.frames = 0]
    BY <1>3 DEF Activate, Reset
  <2>2. call'.frames = 0
    BY <1>0, <2>1, CallReset DEF HeapInv
  <2>3. CallInv'
    BY <1>0, <2>1, <2>2, WiredFrozen DEF CallInv, Halfway, Delivered
  <2> QED BY <1>0, <1>3, <2>3, ActivateHeap DEF CrasInv
<1>4. CASE Deactivate
  <2>1. UNCHANGED <<mem, call, stream, ports>> /\ pc # "run" /\ pc' # "run"
    BY <1>4 DEF Deactivate, progress
  <2> QED BY <1>0, <1>4, <2>1, OtherHeap, WiredFrozen, CallFrozen DEF CrasInv
<1>5. ASSUME NEW w \in Wirings, Connect(w) PROVE CrasInv'
  <2>1. UNCHANGED <<mem, call, stream>> /\ pc # "run" /\ pc' # "run"
    BY <1>5 DEF Connect, host, progress
  <2> QED BY <1>0, <1>5, <2>1, OtherHeap, ConnectWired, CallFrozen DEF CrasInv
<1>6. ASSUME NEW n \in 0..MaxFrames, StartRun(n, Filled) PROVE CrasInv'
  BY <1>0, <1>6, OtherHeap, StartRunCall DEF CrasInv
<1>7. CASE Chunk
  BY <1>0, <1>7, ChunkKeeps DEF CrasInv
<1>8. CASE Return
  BY <1>0, <1>8, OtherHeap, ReturnCall DEF CrasInv
<1>9. CASE Cleanup
  <2>1. UNCHANGED <<mem, call, stream, ports>> /\ pc # "run" /\ pc' # "run"
    BY <1>9 DEF Cleanup, host, progress
  <2> QED BY <1>0, <1>9, <2>1, CleanupHeap, WiredFrozen, CallFrozen DEF CrasInv
<1>10. CASE UNCHANGED vars
  <2>1. /\ UNCHANGED <<filters, stream, played, processed, active, running>>
        /\ UNCHANGED <<ports, mem, call, todo, pc>>
    BY <1>10 DEF vars, filters, flags, host, progress
  <2>2. Numbers' /\ Phases'
    BY <1>0, <2>1 DEF filters, HeapInv, Numbers, Phases
  <2>3. HeapInv'
    BY <1>0, <2>1, <2>2, FrozenHeap
  <2>4. Halfway'
    <3>1. pc' = pc /\ mem' = mem /\ call' = call /\ ports' = ports /\ stream' = stream
          /\ todo' = todo /\ active' = active /\ played' = played /\ Done' = Done
      BY <2>1 DEF filters, Done
    <3>2. \A c \in Channels : Input(c)' = Input(c) /\ Output(c)' = Output(c)
      BY <3>1 DEF Input, Output
    <3>3. \A j : StreamFrames(j)' = StreamFrames(j)
      BY <3>1 DEF StreamFrames, StreamFrame
    <3> QED BY <1>0, <3>1, <3>2, <3>3 DEF CallInv, Halfway
  <2>5. Delivered'
    BY <1>0, <2>1 DEF filters, CallInv, Delivered, StreamFrames, StreamFrame
  <2> QED BY <1>0, <2>1, <2>3, <2>4, <2>5, WiredFrozen DEF CallInv, CrasInv
<1> QED BY <1>1, <1>2, <1>3, <1>4, <1>5, <1>6, <1>7, <1>8, <1>9, <1>10 DEF Next

THEOREM CrasInvariance == Spec => []CrasInv
<1> QED BY CrasInit, CrasStep, PTL DEF Spec

\* The plugin leaks nothing and keeps no pointer to what it has freed, whichever
\* of its allocations fails, at instantiate or at any activate: destroy_cras_dsp
\* and initialize_cras_dsp together.
THEOREM NoLeak == Spec => []NothingLeaked
<1>1. CrasInv => NothingLeaked
  <2> SUFFICES ASSUME CrasInv PROVE NothingLeaked
    OBVIOUS
  <2>1. Owned /\ Phases
    BY DEF CrasInv, HeapInv
  <2>2. /\ Owners[1] = self /\ Owners[2] = drc /\ Owners[3] = eq
        /\ Owners[4] = newDrc /\ Owners[5] = newEq
    BY DEF Owners
  <2>3. {Owners[i] : i \in 1..5} = {self, drc, eq, newDrc, newEq}
    BY <2>2
  <2>4. \A i, j \in 1..5 : Owners[i] = Owners[j] => i = j \/ Owners[i] = Nil
    BY <2>1, <2>2 DEF Owned
  <2>5. pc = "none" => DOMAIN heap = {}
    BY <2>1 DEF Owned, Phases
  <2> QED BY <2>1, <2>3, <2>4, <2>5 DEF NothingLeaked, Owned
<1> QED BY <1>1, CrasInvariance, PTL

\* Every stream starts on filters without a past, and they see each of its
\* frames once: cras_activate and the copy in cras_run.
THEOREM StreamsClean == Spec => []CleanStart
<1>1. CrasInv => CleanStart BY DEF CrasInv, HeapInv
<1> QED BY <1>1, CrasInvariance, PTL

\* The host gets its stream filtered, over any wiring, chunk by chunk.
THEOREM OutputFiltered == Spec => []StreamFiltered
<1>1. CrasInv => StreamFiltered BY DEF CrasInv, CallInv, Delivered, StreamFiltered
<1> QED BY <1>1, CrasInvariance, PTL
=============================================================================
