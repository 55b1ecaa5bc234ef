------------------------------ MODULE CrasDsp ------------------------------
(***************************************************************************)
(* redrix_cras_dsp, the LADSPA plugin that runs ChromeOS' compressor (DRC) *)
(* and equaliser (EQ) for the speakers                                     *)
(* (overlays/24-redrix-firmware/redrix-cras-dsp.c).  Both filters remember *)
(* what they have processed, so activate replaces used ones.  They work in *)
(* place, so run first copies the inputs to the outputs, which may be the  *)
(* same memory.                                                            *)
(*                                                                         *)
(* The CRAS library and malloc are external: an allocation succeeds or     *)
(* not, a filter is the sequence of frames it has processed, and the       *)
(* output of a frame is known by what both filters had seen by then.  A    *)
(* frame is a pair of samples.                                             *)
(***************************************************************************)
EXTENDS Integers, Sequences, FiniteSets

CONSTANTS
  Objects,     \* addresses malloc can give
  Buffers,     \* the host's audio buffers
  Cells,       \* the host's variables a latency port can point to
  Nil,         \* the null pointer
  Silence,     \* a sample of 0.0
  Garbage,     \* what a buffer holds that nobody filled
  Wirings,     \* the host's choices of what the ports point to
  ProcessMax,  \* DRC_PROCESS_MAX_FRAMES
  PreDelay,    \* last_pre_delay_frames of a new DRC
  MaxFrames,   \* bound: frames of one call of run
  MaxPlayed,   \* bound: frames of a stream
  MaxStreams   \* bound: activations

Channels == {0, 1}

\* enum redrix_cras_ports
InputPort(c) == c
OutputPort(c) == 2 + c
LatencyPort == 4
PortCount == 5
Ports == 0..(PortCount - 1)

ASSUME CrasAssumption ==
  /\ Nil \notin Objects /\ Nil \notin Buffers /\ Nil \notin Cells
  /\ ProcessMax \in Nat \ {0} /\ PreDelay \in Nat
  /\ MaxFrames \in Nat /\ MaxPlayed \in Nat /\ MaxStreams \in Nat
  /\ \A w \in Wirings :
       /\ DOMAIN w = Ports
       /\ \A c \in Channels : {w[InputPort(c)], w[OutputPort(c)]} \subseteq Buffers \cup {Nil}
       /\ w[LatencyPort] \in Cells \cup {Nil}
       /\ w[InputPort(0)] # w[InputPort(1)] \/ w[InputPort(0)] = Nil
       /\ w[OutputPort(0)] # w[OutputPort(1)] \/ w[OutputPort(0)] = Nil

VARIABLES
  heap,            \* what is allocated: [some objects -> frames seen]
  self,            \* the instance
  drc, eq,         \* the instance's filters
  newDrc, newEq,   \* initialize_cras_dsp's filters, not yet the instance's
  active, processed,
  ports,           \* [Ports -> what the host connected]
  mem,             \* [Buffers -> [1..MaxFrames -> cell]]: the frames of a call
  latency,         \* [Cells -> number]: the values behind latency ports
  pc,              \* where the plugin is: "none" before instantiate
  running,         \* the host has activated the plugin
  stream, played,  \* the host's stream, and its frames so far
  call,            \* the current or last call of run: frames, base, live, out
  todo             \* frames the call of run still has to do

filters == <<heap, self, drc, eq, newDrc, newEq>>
flags == <<active, processed>>
host == <<running, stream>>
progress == <<played, call, todo>>
vars == <<filters, flags, ports, mem, latency, pc, host, progress>>

-----------------------------------------------------------------------------
Free(h, objects) == [o \in DOMAIN h \ objects |-> h[o]]
With(h, o) == [x \in DOMAIN h \cup {o} |-> IF x = o THEN <<>> ELSE h[x]]

Input(c) == ports[InputPort(c)]
Output(c) == ports[OutputPort(c)]

\* silence() on every connected output.
Silenced(m, n) ==
  [b \in Buffers |-> [k \in 1..MaxFrames |->
     IF k <= n /\ \E c \in Channels : Output(c) = b THEN Silence ELSE m[b][k]]]

\* Mutant: the rest of the call in one piece.
CountUncapped == todo

Count == IF todo > ProcessMax THEN ProcessMax ELSE todo

Done == call.frames - todo
Slice == (Done + 1)..(Done + Count)

\* Mutant: no copy as soon as one channel is in place.
CopiedUnlessAny(m) ==
  IF \E c \in Channels : Output(c) = Input(c) THEN m
  ELSE [b \in Buffers |-> [k \in 1..MaxFrames |->
          IF k \in Slice /\ \E c \in Channels : Output(c) = b
          THEN m[Input(CHOOSE c \in Channels : Output(c) = b)][k] ELSE m[b][k]]]

\* The chunk copied from the inputs to the outputs, unless both channels are
\* in place; a frame is read as a whole before it is written.
Copied(m) ==
  IF \A c \in Channels : Output(c) = Input(c) THEN m
  ELSE [b \in Buffers |-> [k \in 1..MaxFrames |->
          IF k \in Slice /\ \E c \in Channels : Output(c) = b
          THEN m[Input(CHOOSE c \in Channels : Output(c) = b)][k] ELSE m[b][k]]]

\* The frames of the chunk as the filters find them in the outputs.
NextFrames(m) == [k \in 1..Count |-> [c \in Channels |-> m[Output(c)][Done + k]]]

Fed(h, frames) ==
  [o \in DOMAIN h |-> IF o \in {drc, eq} THEN h[o] \o frames ELSE h[o]]

\* What the filters leave in the outputs.  Frames they have no room for are lost.
Filtered(m, frames) ==
  [b \in Buffers |-> [k \in 1..MaxFrames |->
     IF k \in Slice /\ \E c \in Channels : Output(c) = b
     THEN LET now == SubSeq(frames, 1, k - Done)
          IN  IF k - Done > ProcessMax THEN Garbage
              ELSE <<CHOOSE c \in Channels : Output(c) = b, heap[drc] \o now, heap[eq] \o now>>
     ELSE m[b][k]]]

\* What run needs to play: an active plugin with filters and four audio ports.
Live ==
  active /\ drc # Nil /\ eq # Nil /\ \A c \in Channels : Input(c) # Nil /\ Output(c) # Nil

-----------------------------------------------------------------------------
\* instantiate: the instance, still without filters.  (Without a sample rate
\* or memory it returns null and nothing has happened.)
Instantiate ==
  /\ pc = "none"
  /\ \E o \in Objects \ DOMAIN heap : heap' = With(heap, o) /\ self' = o
  /\ ports' = [p \in Ports |-> Nil]
  /\ pc' = "drc"
  /\ UNCHANGED <<drc, eq, newDrc, newEq, flags, mem, latency, host, progress>>

\* initialize_cras_dsp, allocation by allocation.
NewDrc ==
  /\ pc = "drc"
  /\ \E o \in Objects \ DOMAIN heap : heap' = With(heap, o) /\ newDrc' = o
  /\ pc' = "eq"
  /\ UNCHANGED <<self, drc, eq, newEq, flags, ports, mem, latency, host, progress>>

NewEq ==
  /\ pc = "eq"
  /\ \E o \in Objects \ DOMAIN heap : heap' = With(heap, o) /\ newEq' = o
  /\ pc' = "bands"
  /\ UNCHANGED <<self, drc, eq, newDrc, flags, ports, mem, latency, host, progress>>

\* All bands are in: both filters become the instance's.
Bands ==
  /\ pc = "bands"
  /\ drc' = newDrc /\ eq' = newEq /\ newDrc' = Nil /\ newEq' = Nil
  /\ active' = running /\ processed' = FALSE
  /\ pc' = "idle"
  /\ UNCHANGED <<heap, self, ports, mem, latency, host, progress>>

\* A failed initialisation, which frees the new filters: instantiate gives up
\* the instance, after activate it stays, inactive and without filters.
Failed(new) ==
  /\ heap' = Free(heap, new \cup (IF running THEN {} ELSE {self}))
  /\ self' = IF running THEN self ELSE Nil
  /\ newDrc' = Nil /\ newEq' = Nil
  /\ active' = FALSE /\ processed' = FALSE
  /\ pc' = IF running THEN "idle" ELSE "none"
  /\ UNCHANGED <<drc, eq, ports, mem, latency, host, progress>>

NewDrcFails == pc = "drc" /\ Failed({})
NewEqFails == pc = "eq" /\ Failed({newDrc})

\* Mutant: a band that fails frees the compressor only.
BandFailsLeaking == pc = "bands" /\ Failed({newDrc})

BandFails == pc = "bands" /\ Failed({newDrc, newEq})

Initialize == NewDrc \/ NewEq \/ Bands \/ NewDrcFails \/ NewEqFails \/ BandFails

\* Mutant: the instance keeps pointers to what it freed.
DestroyDangling(others) == heap' = Free(heap, {drc, eq} \cup others) /\ UNCHANGED <<drc, eq>>

\* destroy_cras_dsp, and what the caller frees after it.
Destroy(others) == heap' = Free(heap, {drc, eq} \cup others) /\ drc' = Nil /\ eq' = Nil

\* reset_cras_dsp: filters without a history, made allocation by allocation.
Reset == Destroy({}) /\ pc' = "drc"

\* Mutant: whatever filters there are will do.
FreshIfAny == drc # Nil /\ eq # Nil

\* The filters have not been used since they were made.
Fresh == drc # Nil /\ eq # Nil /\ ~processed

\* activate keeps fresh filters and replaces the others.
Activate ==
  /\ pc = "idle" /\ ~running /\ stream < MaxStreams
  /\ running' = TRUE /\ stream' = stream + 1 /\ played' = 0
  /\ call' = [call EXCEPT !.frames = 0]
  /\ \/ /\ Fresh
        /\ active' = TRUE /\ processed' = FALSE
        /\ UNCHANGED <<filters, pc>>
     \/ /\ ~Fresh
        /\ Reset
        /\ UNCHANGED <<self, newDrc, newEq, flags>>
  /\ UNCHANGED <<ports, mem, latency, todo>>

Deactivate ==
  /\ pc = "idle" /\ running
  /\ active' = FALSE /\ running' = FALSE
  /\ UNCHANGED <<filters, processed, ports, mem, latency, pc, stream, progress>>

\* connect_port for every port of wiring w.
Connect(w) ==
  /\ pc = "idle"
  /\ ports' = w
  /\ latency' = IF w[LatencyPort] # Nil /\ drc # Nil
                THEN [latency EXCEPT ![w[LatencyPort]] = PreDelay] ELSE latency
  /\ UNCHANGED <<filters, flags, mem, pc, host, progress>>

\* run on n frames that the host has put into memory m: the latency, then
\* silence if anything is missing, else the frames.
StartRun(n, m) ==
  /\ pc = "idle" /\ running /\ played + n <= MaxPlayed
  /\ latency' = IF ports[LatencyPort] = Nil THEN latency
                ELSE [latency EXCEPT ![ports[LatencyPort]] = IF drc # Nil THEN PreDelay ELSE 0]
  /\ call' = [frames |-> n, base |-> played, live |-> Live,
              out |-> [c \in Channels |-> Output(c)]]
  /\ IF Live THEN mem' = m /\ todo' = n /\ pc' = "run"
     ELSE mem' = Silenced(m, n) /\ UNCHANGED <<todo, pc>>
  /\ UNCHANGED <<filters, flags, ports, host, played>>

\* One chunk: copied, then through both filters.
Chunk ==
  /\ pc = "run" /\ todo > 0
  /\ LET copied == Copied(mem)
         frames == NextFrames(copied)
     IN  heap' = Fed(heap, frames) /\ mem' = Filtered(copied, frames)
  /\ processed' = TRUE
  /\ played' = played + Count /\ todo' = todo - Count
  /\ UNCHANGED <<self, drc, eq, newDrc, newEq, active, ports, latency, pc, host, call>>

Return ==
  /\ pc = "run" /\ todo = 0
  /\ pc' = "idle"
  /\ UNCHANGED <<filters, flags, ports, mem, latency, host, progress>>

Cleanup ==
  /\ pc = "idle" /\ ~running
  /\ Destroy({self})
  /\ self' = Nil
  /\ active' = FALSE /\ processed' = FALSE
  /\ pc' = "none"
  /\ UNCHANGED <<newDrc, newEq, ports, mem, latency, host, progress>>

-----------------------------------------------------------------------------
Blank == [b \in Buffers |-> [k \in 1..MaxFrames |-> Garbage]]

\* The host's next frames of the stream, in the buffers of the inputs.
Filled ==
  [b \in Buffers |-> [k \in 1..MaxFrames |->
     IF \E c \in Channels : Input(c) = b
     THEN <<stream, CHOOSE c \in Channels : Input(c) = b, played + k>> ELSE Garbage]]

Init ==
  /\ heap = [o \in {} |-> <<>>] /\ self = Nil
  /\ drc = Nil /\ eq = Nil /\ newDrc = Nil /\ newEq = Nil
  /\ active = FALSE /\ processed = FALSE
  /\ ports = [p \in Ports |-> Nil] /\ mem = Blank /\ latency = [c \in Cells |-> 0]
  /\ pc = "none" /\ running = FALSE /\ stream = 0 /\ played = 0 /\ todo = 0
  /\ call = [frames |-> 0, base |-> 0, live |-> FALSE, out |-> [c \in Channels |-> Nil]]

Next ==
  \/ Instantiate \/ Initialize \/ Activate \/ Deactivate
  \/ \E w \in Wirings : Connect(w)
  \/ \E n \in 0..MaxFrames : StartRun(n, Filled)
  \/ Chunk \/ Return \/ Cleanup

Spec == Init /\ [][Next]_vars

-----------------------------------------------------------------------------
\* Properties.

Pointer == DOMAIN heap \cup {Nil}
Frame == [Channels -> Nat \X Channels \X Nat]

\* Every variable keeps its type; every pointer is null or points to something
\* allocated.
TypeOK ==
  /\ DOMAIN heap \subseteq Objects /\ \A o \in DOMAIN heap : heap[o] \in Seq(Frame)
  /\ self \in Pointer /\ drc \in Pointer /\ eq \in Pointer
  /\ newDrc \in Pointer /\ newEq \in Pointer
  /\ active \in BOOLEAN /\ processed \in BOOLEAN
  /\ DOMAIN ports = Ports
  /\ pc \in {"none", "drc", "eq", "bands", "idle", "run"}
  /\ running \in BOOLEAN /\ stream \in Nat /\ played \in Nat
  /\ call.frames \in Nat /\ call.base \in Nat /\ call.live \in BOOLEAN /\ todo \in 0..call.frames

Owners == <<self, drc, eq, newDrc, newEq>>

\* Nothing is leaked or freed twice, whichever allocation fails: what exists is
\* the instance and its two filters, or those being made, each under one
\* pointer, and after a cleanup or a failed instantiate nothing.
NothingLeaked ==
  /\ DOMAIN heap = {Owners[i] : i \in 1..5} \ {Nil}
  /\ \A i, j \in 1..5 : Owners[i] = Owners[j] => i = j \/ Owners[i] = Nil
  /\ drc = Nil <=> eq = Nil
  /\ pc = "none" => DOMAIN heap = {}

\* Frame j of the present stream, and its first n frames.
StreamFrame(j) == [c \in Channels |-> <<stream, c, j>>]
StreamFrames(n) == [j \in 1..n |-> StreamFrame(j)]

\* An active plugin's filters have seen the frames of this stream, each once
\* and in order, and nothing of an earlier stream.
CleanStart ==
  active => /\ drc # Nil /\ eq # Nil /\ running
            /\ heap[drc] = StreamFrames(played)
            /\ heap[eq] = StreamFrames(played)

\* When run returns, every connected output holds what the filters make of the
\* stream up to that frame, channel by channel, however the calls cut the
\* stream and the ports share buffers, and silence after a call that was not
\* live.
StreamFiltered ==
  pc = "idle" => \A c \in Channels, k \in 1..call.frames :
    call.out[c] # Nil =>
      mem[call.out[c]][k] =
        IF call.live THEN <<c, StreamFrames(call.base + k), StreamFrames(call.base + k)>>
        ELSE Silence
=============================================================================
