----------------------------- MODULE MicProofs -----------------------------
(***************************************************************************)
(* redrix_mic_apm gives the stream back one block later, for every size of *)
(* a block, every set of buffers and wirings and every way the host cuts   *)
(* the stream into calls.  Inside a call the invariant splits each buffer  *)
(* at the current frame: behind it the outputs are what the host is owed,  *)
(* ahead of it the inputs have not been touched.                           *)
(***************************************************************************)
EXTENDS MicApm, TLAPS

Memory == [Buffers -> [1..MaxFrames -> Cell]]

\* How the plugin's and the call's records agree.
Bookkeeping ==
  /\ running => made
  /\ active => running /\ dead = NoFailure
  /\ \A c \in Channels : percent[c] # -1 => gain[c] = percent[c]
  /\ ~Idle => /\ active /\ call.live
              /\ played = call.base + frame - 1 /\ call.base + call.frames <= MaxPlayed
              /\ \A c \in Channels : call.wiring.in[c] # Null /\ gain[c] = call.volume[c]

\* Ahead of the current frame the inputs are as the host filled them.
InputsAhead ==
  ~Idle => \A c \in Channels, i \in frame..call.frames :
             buf[call.wiring.in[c]][i] = <<stream, c, call.base + i - 1>>

\* Behind it the outputs are what the host is owed.
OutputsBehind ==
  \A c \in Channels, i \in 1..(frame - 1) :
    call.wiring.out[c] # Null =>
      buf[call.wiring.out[c]][i] = IF call.live THEN Owed(c, call.base + i - 1) ELSE Silence

MicInv == TypeOK /\ BlocksHoldStream /\ Bookkeeping /\ InputsAhead /\ OutputsBehind

-----------------------------------------------------------------------------
\* Between calls everything is behind the current frame.
LEMMA DelayedFromBehind == OutputsBehind /\ TypeOK => StreamDelayed
<1> SUFFICES ASSUME OutputsBehind, TypeOK, Idle,
                    NEW c \in Channels, NEW i \in 1..call.frames,
                    call.wiring.out[c] # Null
             PROVE  buf[call.wiring.out[c]][i]
                      = IF call.live THEN Owed(c, call.base + i - 1) ELSE Silence
  BY DEF StreamDelayed
<1>1. call.frames \in Nat BY DEF TypeOK
<1>2. i \in 1..(frame - 1) BY <1>1 DEF Idle
<1> QED BY <1>2 DEF OutputsBehind

\* A wiring connects buffers, and no two channels to the same output.
LEMMA WiringFacts ==
  ASSUME NEW w \in Wirings, NEW c \in Channels
  PROVE  /\ w.in[c] \in Buffers \cup {Null} /\ w.out[c] \in Buffers \cup {Null}
         /\ \A d \in Channels : w.out[d] = w.out[c] /\ w.out[c] # Null => d = c
         /\ \A d \in Channels : w.in[d] = w.in[c] /\ w.in[c] # Null => d = c
BY MicAssumption

\* A control becomes a percentage, whatever the host connected.
LEMMA PercentType ==
  ASSUME NEW v \in Controls
  PROVE  PercentOf(v) \in Volumes
BY MicAssumption DEF PercentOf, Volumes

LEMMA ScaledType ==
  ASSUME NEW s \in Sample, NEW v \in Volumes \cup {0}
  PROVE  Scaled(s, v) \in Cell
BY DEF Scaled, Cell

\* Writing one frame changes that frame of the connected outputs only.
LEMMA WrittenFacts ==
  ASSUME TypeOK, NEW b \in Memory, NEW w \in Wirings, NEW i \in 1..MaxFrames
  PROVE  /\ Written(b, w, i) \in Memory
         /\ \A c \in Channels : w.out[c] # Null =>
              Written(b, w, i)[w.out[c]][i] = Scaled(output[c][offset], gain[c])
         /\ \A x \in Buffers, k \in 1..MaxFrames : k # i => Written(b, w, i)[x][k] = b[x][k]
<1>1. ASSUME NEW c \in Channels
      PROVE  Scaled(output[c][offset], gain[c]) \in Cell
  <2>1. output[c][offset] \in Sample /\ gain[c] \in Volumes \cup {0} BY DEF TypeOK
  <2> QED BY <2>1, ScaledType
<1>2. ASSUME NEW x \in Buffers, NEW k \in 1..MaxFrames
      PROVE  /\ Written(b, w, i)[x][k] \in Cell
             /\ k # i => Written(b, w, i)[x][k] = b[x][k]
  <2>1. CASE k = i /\ \E c \in Channels : w.out[c] = x
    <3> DEFINE d == CHOOSE c \in Channels : w.out[c] = x
    <3>1. d \in Channels BY <2>1
    <3>2. Written(b, w, i)[x][k] = Scaled(output[d][offset], gain[d]) BY <2>1 DEF Written
    <3> HIDE DEF d
    <3> QED BY <3>1, <3>2, <1>1, <2>1
  <2>2. CASE ~(k = i /\ \E c \in Channels : w.out[c] = x)
    <3>1. Written(b, w, i)[x][k] = b[x][k] BY <2>2 DEF Written
    <3> QED BY <3>1 DEF Memory
  <2> QED BY <2>1, <2>2
<1>3. ASSUME NEW c \in Channels, w.out[c] # Null
      PROVE  Written(b, w, i)[w.out[c]][i] = Scaled(output[c][offset], gain[c])
  <2> DEFINE d == CHOOSE d \in Channels : w.out[d] = w.out[c]
  <2>1. d \in Channels /\ w.out[d] = w.out[c] OBVIOUS
  <2>2. w.out[c] \in Buffers BY <1>3, WiringFacts
  <2>3. Written(b, w, i)[w.out[c]][i] = Scaled(output[d][offset], gain[d])
    BY <2>2 DEF Written
  <2>4. d = c BY <2>1, <1>3, WiringFacts
  <2> QED BY <2>3, <2>4
<1>4. Written(b, w, i) \in Memory
  <2>1. Written(b, w, i) = [x \in Buffers |-> [k \in 1..MaxFrames |-> Written(b, w, i)[x][k]]]
    BY DEF Written
  <2> QED BY <2>1, <1>2 DEF Memory
<1> QED BY <1>2, <1>3, <1>4

\* Silencing changes the rest of the connected outputs only.
LEMMA SilencedFacts ==
  ASSUME NEW b \in Memory, NEW w \in Wirings, NEW i \in Nat, call'.frames \in Nat
  PROVE  /\ SilencedFrom(b, w, i) \in Memory
         /\ \A c \in Channels, k \in 1..MaxFrames :
              w.out[c] # Null /\ i <= k /\ k <= call'.frames =>
                SilencedFrom(b, w, i)[w.out[c]][k] = Silence
         /\ \A x \in Buffers, k \in 1..MaxFrames :
              k < i => SilencedFrom(b, w, i)[x][k] = b[x][k]
<1>1. ASSUME NEW x \in Buffers, NEW k \in 1..MaxFrames
      PROVE  /\ SilencedFrom(b, w, i)[x][k] \in {Silence, b[x][k]}
             /\ k < i => SilencedFrom(b, w, i)[x][k] = b[x][k]
             /\ (\E c \in Channels : w.out[c] = x) /\ i <= k /\ k <= call'.frames
                  => SilencedFrom(b, w, i)[x][k] = Silence
  <2>1. k \in Int /\ MaxFrames \in Nat BY MicAssumption
  <2>2. CASE \E c \in Channels : w.out[c] = x
    <3>1. SilencedFrom(b, w, i)[x][k] = IF i <= k /\ k <= call'.frames THEN Silence ELSE b[x][k]
      BY <2>2 DEF SilencedFrom
    <3> QED BY <3>1, <2>1
  <2>3. CASE ~\E c \in Channels : w.out[c] = x
    <3>1. SilencedFrom(b, w, i)[x][k] = b[x][k]
      BY <2>3 DEF SilencedFrom
    <3> QED BY <3>1, <2>3
  <2> QED BY <2>2, <2>3
<1>2. SilencedFrom(b, w, i) \in Memory
  <2>1. /\ SilencedFrom(b, w, i) \in [Buffers -> {SilencedFrom(b, w, i)[x] : x \in Buffers}]
        /\ \A x \in Buffers : SilencedFrom(b, w, i)[x] \in [1..MaxFrames -> Cell]
    <3>1. ASSUME NEW x \in Buffers PROVE SilencedFrom(b, w, i)[x] \in [1..MaxFrames -> Cell]
      <4>1. b[x] \in [1..MaxFrames -> Cell] /\ Silence \in Cell BY DEF Memory, Cell
      <4>2. CASE \E c \in Channels : w.out[c] = x
        BY <4>1, <4>2 DEF SilencedFrom
      <4>3. CASE ~\E c \in Channels : w.out[c] = x
        BY <4>1, <4>3 DEF SilencedFrom
      <4> QED BY <4>2, <4>3
    <3> QED BY <3>1 DEF SilencedFrom
  <2> QED BY <2>1 DEF Memory
<1>3. ASSUME NEW c \in Channels, NEW k \in 1..MaxFrames,
             w.out[c] # Null, i <= k, k <= call'.frames
      PROVE  SilencedFrom(b, w, i)[w.out[c]][k] = Silence
  <2>1. w.out[c] \in Buffers BY <1>3, WiringFacts
  <2> QED BY <2>1, <1>1, <1>3
<1> QED BY <1>1, <1>2, <1>3

-----------------------------------------------------------------------------
LEMMA MicInit == Init => MicInv
<1> SUFFICES ASSUME Init PROVE MicInv
  OBVIOUS
<1>1. TypeOK
  <2>1. Quiet \in [Channels -> [Slots -> Sample]] BY DEF Quiet, Sample
  <2>2. buf \in [Buffers -> [1..MaxFrames -> Cell]]
    BY DEF Init, Cell
  <2>3. percent \in [Channels -> Volumes \cup {-1}] /\ gain \in [Channels -> Volumes \cup {0}]
    BY DEF Init
  <2>4. PICK w \in Wirings : call = [frames |-> 0, wiring |-> w, volume |-> percent,
                                    base |-> 0, live |-> FALSE]
    BY DEF Init
  <2>5. 0 \in 0..MaxFrames /\ percent \in [Channels -> Volumes \cup {-1}]
    BY <2>3, MicAssumption
  <2>6. /\ call \in [frames : 0..MaxFrames, wiring : Wirings,
                     volume : [Channels -> Volumes \cup {-1}], base : Nat, live : BOOLEAN]
        /\ call.frames = 0
    BY <2>4, <2>5
  <2>7. /\ input = Quiet /\ output = Quiet /\ offset = 0 /\ active = FALSE /\ frame = 1
        /\ running = FALSE /\ stream = 0 /\ played = 0 /\ dead = NoFailure
        /\ made = FALSE /\ latency = 0
    BY DEF Init
  <2>8. 0 \in Slots /\ NoFailure \in Nat BY MicAssumption DEF Slots, NoFailure
  <2>9. /\ input \in [Channels -> [Slots -> Sample]] /\ output \in [Channels -> [Slots -> Sample]]
        /\ offset \in Slots
    BY <2>1, <2>7, <2>8
  <2>10. frame \in 1..(call.frames + 1) /\ stream \in Nat /\ played \in Nat
    BY <2>6, <2>7
  <2>11. /\ active \in BOOLEAN /\ running \in BOOLEAN /\ dead \in Nat
         /\ made \in BOOLEAN /\ latency \in {0, Block}
    BY Zenon, <2>7, <2>8
  <2> QED BY Zenon, <2>2, <2>3, <2>6, <2>9, <2>10, <2>11 DEF TypeOK
<1>2. active = FALSE /\ running = FALSE /\ frame = 1 /\ call.frames = 0 /\ Idle
  BY DEF Init, Idle
<1>3. \A c \in Channels : percent[c] = -1
  BY Zenon DEF Init
<1>4. BlocksHoldStream BY <1>2 DEF BlocksHoldStream
<1>5. Bookkeeping BY <1>2, <1>3 DEF Bookkeeping
<1>6. InputsAhead BY <1>2 DEF InputsAhead
<1>7. OutputsBehind BY <1>2 DEF OutputsBehind
<1> QED BY <1>1, <1>4, <1>5, <1>6, <1>7 DEF MicInv

\* What one frame of a live call reads and writes, wherever it is in its block.
LEMMA FrameFacts ==
  ASSUME MicInv, ~Idle
  PROVE  LET b == Written(buf, call.wiring, frame)
             x == Collected(buf, call.wiring, frame)
         IN  /\ frame \in 1..call.frames /\ frame \in 1..MaxFrames /\ played \in Nat
             /\ b \in Memory
             /\ \A y \in Buffers, k \in 1..MaxFrames : k # frame => b[y][k] = buf[y][k]
             /\ \A c \in Channels, i \in 1..frame : call.wiring.out[c] # Null =>
                  b[call.wiring.out[c]][i] = Owed(c, call.base + i - 1)
             /\ x \in [Channels -> [Slots -> Sample]]
             /\ \A c \in Channels, j \in 0..offset : x[c][j] = Source(c, played - offset + j)
<1> DEFINE w == call.wiring
           b == Written(buf, w, frame)
           x == Collected(buf, w, frame)
<1>1. /\ call.frames \in 0..MaxFrames /\ w \in Wirings /\ call.base \in Nat
      /\ frame \in 1..(call.frames + 1) /\ offset \in Slots /\ played \in Nat
      /\ stream \in Nat /\ buf \in Memory /\ MaxFrames \in Nat /\ MaxPlayed \in Nat
  BY MicAssumption DEF MicInv, TypeOK, Memory
<1>2. frame \in 1..call.frames /\ frame \in 1..MaxFrames
  BY <1>1 DEF Idle
<1>3. /\ active /\ call.live /\ dead = NoFailure
      /\ played = call.base + frame - 1 /\ call.base + call.frames <= MaxPlayed
      /\ \A c \in Channels : w.in[c] # Null /\ gain[c] = call.volume[c]
  BY DEF MicInv, Bookkeeping
<1>4. /\ b \in Memory
      /\ \A c \in Channels : w.out[c] # Null => b[w.out[c]][frame] = Scaled(output[c][offset], gain[c])
      /\ \A y \in Buffers, k \in 1..MaxFrames : k # frame => b[y][k] = buf[y][k]
  BY <1>1, <1>2, WrittenFacts DEF MicInv
<1>5. ASSUME NEW c \in Channels
      PROVE  buf[w.in[c]][frame] = <<stream, c, played>>
  <2>1. buf[w.in[c]][frame] = <<stream, c, call.base + frame - 1>>
    BY <1>1, <1>2 DEF MicInv, InputsAhead
  <2> QED BY <2>1, <1>3
<1>6. ASSUME NEW c \in Channels, NEW i \in 1..frame, w.out[c] # Null
      PROVE  b[w.out[c]][i] = Owed(c, call.base + i - 1)
  <2>1. w.out[c] \in Buffers BY <1>1, <1>6, WiringFacts
  <2>2. CASE i = frame
    <3>1. output[c][offset] = Source(c, played - Block)
      <4>1. output[c][offset] = Source(c, played - offset + offset - Block)
        BY <1>1, <1>3 DEF MicInv, BlocksHoldStream, Slots
      <4>2. played - offset + offset - Block = played - Block
        BY <1>1, MicAssumption DEF Slots
      <4> QED BY <4>1, <4>2
    <3>2. ~(played >= dead)
      BY <1>1, <1>2, <1>3, MicAssumption DEF NoFailure
    <3>3. Owed(c, played) = Scaled(Source(c, played - Block), call.volume[c])
      BY <3>2 DEF Owed
    <3>4. call.base + i - 1 = played BY <1>3, <2>2
    <3>5. b[w.out[c]][i] = Scaled(output[c][offset], gain[c]) BY <1>4, <1>6, <2>2
    <3> QED BY <3>1, <3>3, <3>4, <3>5, <1>3
  <2>3. CASE i # frame
    <3>1. i \in 1..(frame - 1) /\ i \in 1..MaxFrames BY <2>3, <1>1, <1>2
    <3>2. buf[w.out[c]][i] = Owed(c, call.base + i - 1)
      BY <3>1, <1>3, <1>6 DEF MicInv, OutputsBehind
    <3> QED BY <3>1, <3>2, <2>1, <2>3, <1>4
  <2> QED BY <2>2, <2>3
<1>7. ASSUME NEW c \in Channels
      PROVE  /\ x[c] = [input[c] EXCEPT ![offset] = <<stream, c, played>>]
             /\ x[c] \in [Slots -> Sample]
  <2>1. x[c] = [input[c] EXCEPT ![offset] = <<stream, c, played>>]
    BY <1>5 DEF Collected
  <2>2. input[c] \in [Slots -> Sample] /\ <<stream, c, played>> \in Sample
    BY <1>1 DEF MicInv, TypeOK, Sample
  <2> QED BY <2>1, <2>2
<1>8. ASSUME NEW c \in Channels, NEW j \in 0..offset
      PROVE  x[c][j] = Source(c, played - offset + j)
  <2>1. input[c] \in [Slots -> Sample] /\ j \in Slots /\ j \in Int /\ offset \in Int
    BY <1>1, MicAssumption DEF MicInv, TypeOK, Slots
  <2>2. CASE j = offset
    <3>1. x[c][j] = <<stream, c, played>> BY <1>7, <2>1, <2>2
    <3>2. played - offset + j = played /\ ~(played < 0) BY <2>1, <2>2, <1>1
    <3> QED BY <3>1, <3>2 DEF Source
  <2>3. CASE j # offset
    <3>1. x[c][j] = input[c][j] BY <1>7, <2>1, <2>3
    <3>2. j < offset BY <2>1, <2>3
    <3>3. input[c][j] = Source(c, played - offset + j)
      BY <3>2, <2>1, <1>3 DEF MicInv, BlocksHoldStream
    <3> QED BY <3>1, <3>3
  <2> QED BY <2>2, <2>3
<1>9. x \in [Channels -> [Slots -> Sample]]
  BY <1>7 DEF Collected
<1> QED BY <1>1, <1>2, <1>4, <1>6, <1>8, <1>9

-----------------------------------------------------------------------------
LEMMA StepFrame == MicInv /\ Frame => MicInv'
<1> SUFFICES ASSUME MicInv, Frame PROVE MicInv'
  OBVIOUS
<1>1. ~Idle /\ offset + 1 < Block
  BY DEF Frame
<1>2. /\ input' = Collected(buf, call.wiring, frame) /\ buf' = Written(buf, call.wiring, frame)
      /\ offset' = offset + 1 /\ frame' = frame + 1 /\ played' = played + 1
      /\ UNCHANGED <<output, active, percent, gain, dead, made, latency, call, running, stream>>
  BY DEF Frame, host
<1>3. /\ frame \in 1..call.frames /\ frame \in 1..MaxFrames /\ played \in Nat
      /\ buf' \in Memory
      /\ \A y \in Buffers, k \in 1..MaxFrames : k # frame => buf'[y][k] = buf[y][k]
      /\ \A c \in Channels, i \in 1..frame : call.wiring.out[c] # Null =>
           buf'[call.wiring.out[c]][i] = Owed(c, call.base + i - 1)
      /\ input' \in [Channels -> [Slots -> Sample]]
      /\ \A c \in Channels, j \in 0..offset : input'[c][j] = Source(c, played - offset + j)
  BY <1>1, <1>2, FrameFacts
<1>4. /\ call.frames \in 0..MaxFrames /\ call.wiring \in Wirings /\ call.base \in Nat
      /\ offset \in Slots /\ MaxFrames \in Nat /\ Block \in Nat
  BY MicAssumption DEF MicInv, TypeOK
<1>5. TypeOK'
  <2>1. offset' \in Slots /\ frame' \in 1..(call.frames + 1) /\ played' \in Nat
    BY <1>1, <1>2, <1>3, <1>4 DEF Slots
  <2> QED BY <2>1, <1>2, <1>3 DEF MicInv, TypeOK, Memory
<1>6. BlocksHoldStream'
  <2> SUFFICES ASSUME active', NEW c \in Channels, NEW j \in Slots
               PROVE  /\ j < offset' => input'[c][j] = Source(c, played - offset + j)'
                      /\ j >= offset' => output'[c][j] = Source(c, played - offset + j - Block)'
    BY DEF BlocksHoldStream
  <2>1. /\ Source(c, played - offset + j)' = Source(c, played - offset + j)
        /\ Source(c, played - offset + j - Block)' = Source(c, played - offset + j - Block)
    <3>1. played' - offset' = played - offset BY <1>2, <1>3, <1>4 DEF Slots
    <3> QED BY <3>1, <1>2 DEF Source
  <2>2. CASE j < offset'
    <3>1. j \in 0..offset /\ ~(j >= offset') BY <2>2, <1>2, <1>4 DEF Slots
    <3> QED BY <2>1, <3>1, <1>3
  <2>3. CASE j >= offset'
    <3>1. j >= offset /\ ~(j < offset') BY <2>3, <1>2, <1>4 DEF Slots
    <3>2. output[c][j] = Source(c, played - offset + j - Block)
      BY <3>1, <1>2 DEF MicInv, BlocksHoldStream
    <3> QED BY <3>1, <3>2, <2>1, <1>2
  <2>4. j < offset' \/ j >= offset' BY <1>2, <1>4 DEF Slots
  <2> QED BY <2>2, <2>3, <2>4
<1>7. Bookkeeping'
  <2>1. ~Idle' => played' = call.base + frame' - 1
    BY <1>1, <1>2, <1>3, <1>4 DEF MicInv, Bookkeeping
  <2> QED BY <2>1, <1>1, <1>2 DEF MicInv, Bookkeeping
<1>8. InputsAhead'
  <2> SUFFICES ASSUME ~Idle', NEW c \in Channels, NEW i \in frame'..call.frames
               PROVE  buf'[call.wiring.in[c]][i] = <<stream, c, call.base + i - 1>>
    BY <1>2 DEF InputsAhead
  <2>1. i # frame /\ i \in frame..call.frames /\ i \in 1..MaxFrames
    BY <1>2, <1>3, <1>4
  <2>2. call.wiring.in[c] \in Buffers
    BY <1>1, <1>4, WiringFacts DEF MicInv, Bookkeeping
  <2>3. buf[call.wiring.in[c]][i] = <<stream, c, call.base + i - 1>>
    BY <2>1, <1>1 DEF MicInv, InputsAhead
  <2> QED BY <2>1, <2>2, <2>3, <1>3
<1>9. OutputsBehind'
  <2> SUFFICES ASSUME NEW c \in Channels, NEW i \in 1..(frame' - 1), call.wiring.out[c] # Null
               PROVE  buf'[call.wiring.out[c]][i] = IF call.live THEN Owed(c, call.base + i - 1)'
                                                    ELSE Silence
    BY <1>2 DEF OutputsBehind
  <2>1. i \in 1..frame BY <1>2, <1>3, <1>4
  <2>2. call.live BY <1>1 DEF MicInv, Bookkeeping
  <2>3. Owed(c, call.base + i - 1)' = Owed(c, call.base + i - 1)
    BY <1>2 DEF Owed, Source, Scaled
  <2> QED BY <2>1, <2>2, <2>3, <1>3
<1> QED BY <1>5, <1>6, <1>7, <1>8, <1>9 DEF MicInv

\* The block that was collected is the one played next: the windows move by a block.
LEMMA StepProcess == MicInv /\ Process => MicInv'
<1> SUFFICES ASSUME MicInv, Process PROVE MicInv'
  OBVIOUS
<1>1. ~Idle /\ offset + 1 = Block
  BY DEF Process
<1>2. /\ input' = Collected(buf, call.wiring, frame) /\ buf' = Written(buf, call.wiring, frame)
      /\ output' = input'
      /\ offset' = 0 /\ frame' = frame + 1 /\ played' = played + 1
      /\ UNCHANGED <<active, percent, gain, dead, made, latency, call, running, stream>>
  BY DEF Process, host
<1>3. /\ frame \in 1..call.frames /\ frame \in 1..MaxFrames /\ played \in Nat
      /\ buf' \in Memory
      /\ \A y \in Buffers, k \in 1..MaxFrames : k # frame => buf'[y][k] = buf[y][k]
      /\ \A c \in Channels, i \in 1..frame : call.wiring.out[c] # Null =>
           buf'[call.wiring.out[c]][i] = Owed(c, call.base + i - 1)
      /\ input' \in [Channels -> [Slots -> Sample]]
      /\ \A c \in Channels, j \in 0..offset : input'[c][j] = Source(c, played - offset + j)
  BY <1>1, <1>2, FrameFacts
<1>4. /\ call.frames \in 0..MaxFrames /\ call.wiring \in Wirings /\ call.base \in Nat
      /\ offset \in Slots /\ MaxFrames \in Nat /\ Block \in Nat \ {0}
  BY MicAssumption DEF MicInv, TypeOK
<1>5. TypeOK'
  <2>1. offset' \in Slots /\ frame' \in 1..(call.frames + 1) /\ played' \in Nat
    BY <1>1, <1>2, <1>3, <1>4 DEF Slots
  <2> QED BY <2>1, <1>2, <1>3 DEF MicInv, TypeOK, Memory
<1>6. BlocksHoldStream'
  <2> SUFFICES ASSUME active', NEW c \in Channels, NEW j \in Slots
               PROVE  /\ j < offset' => input'[c][j] = Source(c, played - offset + j)'
                      /\ j >= offset' => output'[c][j] = Source(c, played - offset + j - Block)'
    BY DEF BlocksHoldStream
  <2>1. ~(j < offset') BY <1>2, <1>4 DEF Slots
  <2>2. Source(c, played - offset + j - Block)' = Source(c, played - offset + j)
    <3>1. played' - offset' + j - Block = played - offset + j
      BY <1>1, <1>2, <1>3, <1>4 DEF Slots
    <3> QED BY <3>1, <1>2 DEF Source
  <2>3. j \in 0..offset BY <1>1, <1>4 DEF Slots
  <2>4. output'[c][j] = Source(c, played - offset + j) BY <2>3, <1>2, <1>3
  <2> QED BY <2>1, <2>2, <2>4
<1>7. Bookkeeping'
  <2>1. ~Idle' => played' = call.base + frame' - 1
    BY <1>1, <1>2, <1>3, <1>4 DEF MicInv, Bookkeeping
  <2> QED BY <2>1, <1>1, <1>2 DEF MicInv, Bookkeeping
<1>8. InputsAhead'
  <2> SUFFICES ASSUME ~Idle', NEW c \in Channels, NEW i \in frame'..call.frames
               PROVE  buf'[call.wiring.in[c]][i] = <<stream, c, call.base + i - 1>>
    BY <1>2 DEF InputsAhead
  <2>1. i # frame /\ i \in frame..call.frames /\ i \in 1..MaxFrames
    BY <1>2, <1>3, <1>4
  <2>2. call.wiring.in[c] \in Buffers
    BY <1>1, <1>4, WiringFacts DEF MicInv, Bookkeeping
  <2>3. buf[call.wiring.in[c]][i] = <<stream, c, call.base + i - 1>>
    BY <2>1, <1>1 DEF MicInv, InputsAhead
  <2> QED BY <2>1, <2>2, <2>3, <1>3
<1>9. OutputsBehind'
  <2> SUFFICES ASSUME NEW c \in Channels, NEW i \in 1..(frame' - 1), call.wiring.out[c] # Null
               PROVE  buf'[call.wiring.out[c]][i] = IF call.live THEN Owed(c, call.base + i - 1)'
                                                    ELSE Silence
    BY <1>2 DEF OutputsBehind
  <2>1. i \in 1..frame BY <1>2, <1>3, <1>4
  <2>2. call.live BY <1>1 DEF MicInv, Bookkeeping
  <2>3. Owed(c, call.base + i - 1)' = Owed(c, call.base + i - 1)
    BY <1>2 DEF Owed, Source, Scaled
  <2> QED BY <2>1, <2>2, <2>3, <1>3
<1> QED BY <1>5, <1>6, <1>7, <1>8, <1>9 DEF MicInv

\* A failure settles the whole call: what was written stays, the rest is silent.
LEMMA StepFails == MicInv /\ ProcessFails => MicInv'
<1> SUFFICES ASSUME MicInv, ProcessFails PROVE MicInv'
  OBVIOUS
<1> DEFINE b == Written(buf, call.wiring, frame)
<1>1. ~Idle /\ offset + 1 = Block
  BY DEF ProcessFails
<1>2. /\ input' = Collected(buf, call.wiring, frame) /\ output' = Quiet
      /\ offset' = 0 /\ active' = FALSE
      /\ buf' = SilencedFrom(b, call.wiring, frame + 1)
      /\ frame' = call.frames + 1 /\ played' = played + 1 /\ dead' = played + 1
      /\ UNCHANGED <<percent, gain, made, latency, call, running, stream>>
  BY DEF ProcessFails
<1>3. /\ frame \in 1..call.frames /\ frame \in 1..MaxFrames /\ played \in Nat
      /\ b \in Memory
      /\ \A c \in Channels, i \in 1..frame : call.wiring.out[c] # Null =>
           b[call.wiring.out[c]][i] = Owed(c, call.base + i - 1)
      /\ input' \in [Channels -> [Slots -> Sample]]
  BY <1>1, <1>2, FrameFacts
<1>4. /\ call.frames \in 0..MaxFrames /\ call.wiring \in Wirings /\ call.base \in Nat
      /\ MaxFrames \in Nat /\ Block \in Nat \ {0} /\ 0 \in Slots
  BY MicAssumption DEF MicInv, TypeOK, Slots
<1> HIDE DEF b
<1>5. /\ buf' \in Memory
      /\ \A c \in Channels, k \in 1..MaxFrames :
           call.wiring.out[c] # Null /\ frame + 1 <= k /\ k <= call.frames =>
             buf'[call.wiring.out[c]][k] = Silence
      /\ \A x \in Buffers, k \in 1..MaxFrames : k < frame + 1 => buf'[x][k] = b[x][k]
  <2>1. frame + 1 \in Nat /\ call'.frames = call.frames /\ call'.frames \in Nat
    BY <1>2, <1>3, <1>4
  <2>2. b \in Memory /\ call.wiring \in Wirings BY <1>3, <1>4
  <2>3. LET r == SilencedFrom(b, call.wiring, frame + 1)
        IN  /\ r \in Memory
            /\ \A c \in Channels, k \in 1..MaxFrames :
                 call.wiring.out[c] # Null /\ frame + 1 <= k /\ k <= call'.frames =>
                   r[call.wiring.out[c]][k] = Silence
            /\ \A x \in Buffers, k \in 1..MaxFrames : k < frame + 1 => r[x][k] = b[x][k]
    BY <2>1, <2>2, SilencedFacts
  <2> QED BY <2>1, <2>3, <1>2
<1>6. TypeOK'
  <2>1. Quiet \in [Channels -> [Slots -> Sample]] BY DEF Quiet, Sample
  <2>2. frame' \in 1..(call.frames + 1) /\ played' \in Nat /\ dead' \in Nat
    BY <1>2, <1>3, <1>4
  <2> QED BY <2>1, <2>2, <1>2, <1>3, <1>4, <1>5 DEF MicInv, TypeOK, Memory
<1>7. Idle' BY <1>2 DEF Idle
<1>8. BlocksHoldStream' BY <1>2 DEF BlocksHoldStream
<1>9. Bookkeeping' BY <1>2, <1>7 DEF MicInv, Bookkeeping
<1>10. InputsAhead' BY <1>7 DEF InputsAhead
<1>11. OutputsBehind'
  <2> SUFFICES ASSUME NEW c \in Channels, NEW i \in 1..(frame' - 1), call.wiring.out[c] # Null
               PROVE  buf'[call.wiring.out[c]][i] = IF call.live THEN Owed(c, call.base + i - 1)'
                                                    ELSE Silence
    BY <1>2 DEF OutputsBehind
  <2>1. /\ call.live /\ played = call.base + frame - 1 /\ dead = NoFailure
        /\ call.base + call.frames <= MaxPlayed
    BY <1>1 DEF MicInv, Bookkeeping
  <2>2. i \in 1..call.frames /\ i \in 1..MaxFrames BY <1>2, <1>3, <1>4
  <2>3. call.wiring.out[c] \in Buffers BY <1>4, WiringFacts
  <2>4. CASE i <= frame
    <3>1. buf'[call.wiring.out[c]][i] = Owed(c, call.base + i - 1)
      BY <2>2, <2>3, <2>4, <1>3, <1>5
    <3>2. /\ ~(call.base + i - 1 >= dead) /\ ~(call.base + i - 1 >= dead')
      BY <2>1, <2>2, <2>4, <1>2, <1>3, <1>4, MicAssumption DEF NoFailure
    <3>3. Owed(c, call.base + i - 1)' = Owed(c, call.base + i - 1)
      BY <3>2, <1>2 DEF Owed, Source, Scaled
    <3> QED BY <3>1, <3>3, <2>1
  <2>5. CASE i > frame
    <3>1. buf'[call.wiring.out[c]][i] = Silence BY <2>2, <2>5, <1>3, <1>4, <1>5
    <3>2. call.base + i - 1 >= dead' BY <2>1, <2>2, <2>5, <1>2, <1>3, <1>4
    <3>3. Owed(c, call.base + i - 1)' = Silence BY <3>2, <1>2 DEF Owed
    <3> QED BY <3>1, <3>3, <2>1
  <2> QED BY <2>2, <2>4, <2>5, <1>3
<1> QED BY <1>6, <1>8, <1>9, <1>10, <1>11 DEF MicInv

\* A new call has everything ahead of it, or, when it is not live, behind it.
LEMMA StepStart ==
  ASSUME MicInv, NEW n \in 1..MaxFrames, NEW w \in Wirings, NEW v \in [Channels -> Controls],
         StartRun(n, w, v, Filled(w))
  PROVE  MicInv'
<1> DEFINE filled == Filled(w)
           volume == [c \in Channels |-> PercentOf(v[c])]
           lives == active /\ \A c \in Channels : w.in[c] # Null
<1>1. /\ Idle /\ running /\ played + n <= MaxPlayed
      /\ call' = [frames |-> n, wiring |-> w, volume |-> volume, base |-> played, live |-> lives]
      /\ percent' = volume
      /\ gain' = [c \in Channels |-> IF volume[c] # percent[c] THEN volume[c] ELSE gain[c]]
      /\ latency' = Block
      /\ call'.live => buf' = filled /\ frame' = 1
      /\ ~call'.live => buf' = SilencedFrom(filled, w, 1) /\ frame' = n + 1
      /\ UNCHANGED <<made, input, output, offset, active, running, stream, played, dead>>
  BY DEF StartRun
<1>2. /\ call'.frames = n /\ call'.wiring = w /\ call'.volume = volume /\ call'.base = played
      /\ call'.live = lives
  BY <1>1
<1>3. lives \in BOOLEAN /\ active \in BOOLEAN
  BY DEF MicInv, TypeOK
<1>4. /\ played \in Nat /\ stream \in Nat /\ n \in Nat /\ MaxFrames \in Nat
      /\ n \in 0..MaxFrames
  BY MicAssumption DEF MicInv, TypeOK
<1>5. ASSUME NEW c \in Channels
      PROVE  /\ volume[c] \in Volumes /\ volume[c] # -1
             /\ gain'[c] = volume[c] /\ gain'[c] \in Volumes
  <2>1. volume[c] \in Volumes /\ volume[c] # -1 BY PercentType DEF Volumes
  <2>2. percent[c] # -1 => gain[c] = percent[c] BY DEF MicInv, Bookkeeping
  <2> QED BY <2>1, <2>2, <1>1
<1>6. filled \in Memory
  <2>1. ASSUME NEW x \in Buffers, NEW k \in 1..MaxFrames
        PROVE  filled[x][k] \in Cell
    <3>1. CASE \E c \in Channels : w.in[c] = x
      <4> DEFINE d == CHOOSE c \in Channels : w.in[c] = x
      <4>1. d \in Channels BY <3>1
      <4>2. filled[x][k] = <<stream, d, played + k - 1>> BY <3>1 DEF Filled
      <4>3. played + k - 1 \in Nat BY <1>4
      <4> HIDE DEF d, filled
      <4> QED BY <4>1, <4>2, <4>3, <1>4 DEF Cell
    <3>2. CASE ~\E c \in Channels : w.in[c] = x
      BY <3>2 DEF Cell, Filled
    <3> QED BY <3>1, <3>2
  <2>2. filled = [x \in Buffers |-> [k \in 1..MaxFrames |-> filled[x][k]]]
    BY DEF Filled
  <2> HIDE DEF filled
  <2> QED BY <2>1, <2>2 DEF Memory
<1>7. ASSUME NEW c \in Channels, NEW k \in 1..MaxFrames, w.in[c] # Null
      PROVE  filled[w.in[c]][k] = <<stream, c, played + k - 1>>
  <2> DEFINE d == CHOOSE d \in Channels : w.in[d] = w.in[c]
  <2>1. w.in[c] \in Buffers BY <1>7, WiringFacts
  <2>2. d \in Channels /\ w.in[d] = w.in[c] OBVIOUS
  <2>3. d = c BY <2>2, <1>7, WiringFacts
  <2>4. filled[w.in[c]][k] = <<stream, d, played + k - 1>> BY <2>1 DEF Filled
  <2> HIDE DEF d, filled
  <2> QED BY <2>3, <2>4
<1>70. volume \in [Channels -> Volumes]
  BY <1>5
<1> HIDE DEF filled, lives, volume
<1>8. /\ SilencedFrom(filled, w, 1) \in Memory
      /\ \A c \in Channels, k \in 1..MaxFrames :
           w.out[c] # Null /\ 1 <= k /\ k <= n => SilencedFrom(filled, w, 1)[w.out[c]][k] = Silence
  <2>1. call'.frames \in Nat /\ 1 \in Nat BY <1>2, <1>4
  <2>2. /\ SilencedFrom(filled, w, 1) \in Memory
        /\ \A c \in Channels, k \in 1..MaxFrames :
             w.out[c] # Null /\ 1 <= k /\ k <= call'.frames =>
               SilencedFrom(filled, w, 1)[w.out[c]][k] = Silence
    BY <2>1, <1>6, SilencedFacts
  <2> QED BY <2>2, <1>2
<1>9. TypeOK'
  <2>1. call' \in [frames : 0..MaxFrames, wiring : Wirings,
                   volume : [Channels -> Volumes \cup {-1}], base : Nat, live : BOOLEAN]
    BY <1>1, <1>3, <1>4, <1>70
  <2>2. buf' \in Memory /\ frame' \in 1..(n + 1)
    BY <1>1, <1>4, <1>6, <1>8
  <2>3. percent' \in [Channels -> Volumes \cup {-1}] /\ gain' \in [Channels -> Volumes \cup {0}]
    <3>1. gain' = [c \in Channels |-> gain'[c]] BY <1>1
    <3> QED BY <3>1, <1>1, <1>5, <1>70
  <2> QED BY <2>1, <2>2, <2>3, <1>1, <1>2 DEF MicInv, TypeOK, Memory
<1>10. BlocksHoldStream'
  BY <1>1 DEF MicInv, BlocksHoldStream, Source
<1>11. ~Idle' => call'.live
  BY <1>1, <1>2, <1>4 DEF Idle
<1>12. call'.live => active /\ frame' = 1 /\ buf' = filled /\ \A c \in Channels : w.in[c] # Null
  BY <1>1, <1>2 DEF lives
<1>13. Bookkeeping'
  <2>1. (active' => running' /\ dead' = NoFailure) /\ (running' => made')
    BY <1>1 DEF MicInv, Bookkeeping
  <2>2. \A c \in Channels : percent'[c] # -1 => gain'[c] = percent'[c] BY <1>1, <1>5
  <2>3. ASSUME ~Idle'
        PROVE  /\ active' /\ call'.live
               /\ played' = call'.base + frame' - 1 /\ call'.base + call'.frames <= MaxPlayed
               /\ \A c \in Channels : call'.wiring.in[c] # Null /\ gain'[c] = call'.volume[c]
    <3>1. active' /\ call'.live BY Zenon, <2>3, <1>11, <1>12, <1>1
    <3>2. played' = call'.base + frame' - 1 /\ call'.base + call'.frames <= MaxPlayed
      BY <2>3, <1>1, <1>2, <1>4, <1>11, <1>12
    <3>3. \A c \in Channels : call'.wiring.in[c] # Null /\ gain'[c] = call'.volume[c]
      BY <2>3, <1>2, <1>5, <1>11, <1>12
    <3> QED BY <3>1, <3>2, <3>3
  <2> QED BY <2>1, <2>2, <2>3 DEF Bookkeeping
<1>14. InputsAhead'
  <2> SUFFICES ASSUME ~Idle', NEW c \in Channels, NEW i \in 1..n
               PROVE  buf'[w.in[c]][i] = <<stream, c, played + i - 1>>
    BY <1>1, <1>2, <1>11, <1>12 DEF InputsAhead
  <2>1. i \in 1..MaxFrames BY <1>4
  <2> QED BY <2>1, <1>7, <1>11, <1>12
<1>15. OutputsBehind'
  <2>1. CASE call'.live
    BY <2>1, <1>12 DEF OutputsBehind
  <2>2. CASE ~call'.live
    <3> SUFFICES ASSUME NEW c \in Channels, NEW i \in 1..n, w.out[c] # Null
                 PROVE  buf'[w.out[c]][i] = Silence
      BY <2>2, <1>1, <1>2, <1>4 DEF OutputsBehind
    <3>1. i \in 1..MaxFrames /\ 1 <= i /\ i <= n BY <1>4
    <3> QED BY <3>1, <2>2, <1>1, <1>8
  <2> QED BY <2>1, <2>2
<1> QED BY <1>9, <1>10, <1>13, <1>14, <1>15 DEF MicInv

LEMMA StepActivate == MicInv /\ Activate => MicInv'
<1> SUFFICES ASSUME MicInv, Activate PROVE MicInv'
  OBVIOUS
<1>1. /\ made /\ running' = TRUE /\ stream' = stream + 1
      /\ input' = Quiet /\ output' = Quiet /\ offset' = 0
      /\ percent' = [c \in Channels |-> -1] /\ active' \in BOOLEAN
      /\ played' = 0 /\ dead' = NoFailure /\ latency' = Block
      /\ call' = [call EXCEPT !.live = FALSE, !.frames = 0] /\ frame' = 1
      /\ UNCHANGED <<made, gain, buf>>
  BY DEF Activate, Cleared
<1>2. /\ call' \in [frames : 0..MaxFrames, wiring : Wirings,
                    volume : [Channels -> Volumes \cup {-1}], base : Nat, live : BOOLEAN]
      /\ call'.frames = 0 /\ call'.live = FALSE
  <2>1. 0 \in 0..MaxFrames BY MicAssumption
  <2> QED BY <2>1, <1>1 DEF MicInv, TypeOK
<1>3. TypeOK'
  <2>1. Quiet \in [Channels -> [Slots -> Sample]] BY DEF Quiet, Sample
  <2>2. 0 \in Slots /\ NoFailure \in Nat BY MicAssumption DEF Slots, NoFailure
  <2>3. percent' \in [Channels -> Volumes \cup {-1}] BY <1>1
  <2>4. stream' \in Nat /\ played' \in Nat /\ frame' \in 1..(call'.frames + 1)
    BY <1>1, <1>2 DEF MicInv, TypeOK
  <2>5. active' \in BOOLEAN /\ running' \in BOOLEAN BY Zenon, <1>1
  <2>6. /\ input' \in [Channels -> [Slots -> Sample]] /\ output' \in [Channels -> [Slots -> Sample]]
        /\ offset' \in Slots /\ dead' \in Nat
    BY <2>1, <2>2, <1>1
  <2>7. /\ gain' \in [Channels -> Volumes \cup {0}] /\ buf' \in [Buffers -> [1..MaxFrames -> Cell]]
        /\ made' \in BOOLEAN /\ latency' \in {0, Block}
    BY Zenon, <1>1 DEF MicInv, TypeOK
  <2> QED BY Zenon, <2>3, <2>4, <2>5, <2>6, <2>7, <1>2 DEF TypeOK
<1>4. Idle' BY <1>1, <1>2 DEF Idle
<1>5. BlocksHoldStream'
  <2> SUFFICES ASSUME NEW c \in Channels, NEW j \in Slots
               PROVE  /\ ~(j < 0)
                      /\ output'[c][j] = Silence
                      /\ Source(c, 0 - 0 + j - Block)' = Silence
    BY <1>1 DEF BlocksHoldStream
  <2>1. j \in Int /\ j >= 0 /\ 0 - 0 + j - Block < 0
    BY MicAssumption DEF Slots
  <2>2. output'[c][j] = Silence BY <1>1 DEF Quiet
  <2> QED BY <2>1, <2>2 DEF Source
<1>6. Bookkeeping'
  <2>1. \A c \in Channels : ~(percent'[c] # -1) BY Zenon, <1>1
  <2> QED BY <2>1, <1>1, <1>4 DEF Bookkeeping
<1>7. InputsAhead' BY <1>4 DEF InputsAhead
<1>8. OutputsBehind' BY <1>1 DEF OutputsBehind
<1> QED BY <1>3, <1>5, <1>6, <1>7, <1>8 DEF MicInv

LEMMA StepDeactivate == MicInv /\ Deactivate => MicInv'
<1> SUFFICES ASSUME MicInv, Deactivate PROVE MicInv'
  OBVIOUS
<1>1. /\ Idle /\ running' = FALSE /\ active' = FALSE
      /\ UNCHANGED <<made, input, output, offset, percent, gain, buf, frame, played, dead,
                     latency, call, stream>>
  BY DEF Deactivate
<1>2. Idle' BY <1>1 DEF Idle
<1>3. TypeOK' BY <1>1 DEF MicInv, TypeOK
<1>4. BlocksHoldStream' BY <1>1 DEF BlocksHoldStream
<1>5. Bookkeeping' BY <1>1, <1>2 DEF MicInv, Bookkeeping
<1>6. InputsAhead' BY <1>2 DEF InputsAhead
<1>7. OutputsBehind' BY <1>1 DEF MicInv, OutputsBehind, Owed, Source, Scaled
<1> QED BY <1>3, <1>4, <1>5, <1>6, <1>7 DEF MicInv

\* A new instance is silent and has no call under way.
LEMMA StepInstantiate == MicInv /\ Instantiate => MicInv'
<1> SUFFICES ASSUME MicInv, Instantiate PROVE MicInv'
  OBVIOUS
<1>1. /\ made' = TRUE /\ input' = Quiet /\ output' = Quiet /\ offset' = 0 /\ active' = FALSE
      /\ percent' = [c \in Channels |-> -1] /\ gain' = [c \in Channels |-> 0]
      /\ UNCHANGED <<buf, frame, played, dead, latency, call, running, stream>>
  BY DEF Instantiate
<1>2. Idle' = Idle BY <1>1 DEF Idle
<1>3. Idle BY DEF MicInv, Bookkeeping, Instantiate
<1>4. TypeOK'
  <2>1. Quiet \in [Channels -> [Slots -> Sample]] BY DEF Quiet, Sample
  <2>2. 0 \in Slots BY MicAssumption DEF Slots
  <2>3. percent' \in [Channels -> Volumes \cup {-1}] /\ gain' \in [Channels -> Volumes \cup {0}]
    BY <1>1
  <2>4. /\ input' \in [Channels -> [Slots -> Sample]] /\ output' \in [Channels -> [Slots -> Sample]]
        /\ offset' \in Slots
    BY <2>1, <2>2, <1>1
  <2>5. active' \in BOOLEAN /\ made' \in BOOLEAN BY Zenon, <1>1
  <2> QED BY Zenon, <2>3, <2>4, <2>5, <1>1 DEF MicInv, TypeOK
<1>5. BlocksHoldStream' BY <1>1 DEF BlocksHoldStream
<1>6. Bookkeeping'
  <2>1. \A c \in Channels : ~(percent'[c] # -1) BY Zenon, <1>1
  <2> QED BY <2>1, <1>1, <1>2, <1>3 DEF Bookkeeping
<1>7. InputsAhead' BY <1>2, <1>3 DEF InputsAhead
<1>8. OutputsBehind' BY <1>1 DEF MicInv, OutputsBehind, Owed, Source, Scaled
<1> QED BY <1>4, <1>5, <1>6, <1>7, <1>8 DEF MicInv

LEMMA StepCleanup == MicInv /\ Cleanup => MicInv'
<1> SUFFICES ASSUME MicInv, Cleanup PROVE MicInv'
  OBVIOUS
<1>1. /\ made' = FALSE
      /\ UNCHANGED <<input, output, offset, active, percent, gain, buf, frame, played, dead,
                     latency, call, running, stream>>
      /\ ~running
  BY DEF Cleanup, plugin
<1>2. TypeOK' BY <1>1 DEF MicInv, TypeOK
<1>3. BlocksHoldStream' BY <1>1 DEF MicInv, BlocksHoldStream, Source
<1>4. Bookkeeping' BY <1>1 DEF MicInv, Bookkeeping, Idle
<1>5. InputsAhead' BY <1>1 DEF MicInv, InputsAhead, Idle
<1>6. OutputsBehind' BY <1>1 DEF MicInv, OutputsBehind, Owed, Source, Scaled
<1> QED BY <1>2, <1>3, <1>4, <1>5, <1>6 DEF MicInv

LEMMA StepStutter == MicInv /\ UNCHANGED vars => MicInv'
<1> SUFFICES ASSUME MicInv, UNCHANGED vars PROVE MicInv'
  OBVIOUS
<1>1. UNCHANGED <<input, output, offset, active, percent, gain, buf, frame, played, dead,
                  made, latency, call, running, stream>>
  BY DEF vars, plugin, host
<1>2. TypeOK' BY <1>1 DEF MicInv, TypeOK
<1>3. BlocksHoldStream' BY <1>1 DEF MicInv, BlocksHoldStream, Source
<1>4. Bookkeeping' BY <1>1 DEF MicInv, Bookkeeping, Idle
<1>5. InputsAhead' BY <1>1 DEF MicInv, InputsAhead, Idle
<1>6. OutputsBehind' BY <1>1 DEF MicInv, OutputsBehind, Owed, Source, Scaled
<1> QED BY <1>2, <1>3, <1>4, <1>5, <1>6 DEF MicInv

-----------------------------------------------------------------------------
LEMMA MicStep == MicInv /\ [Next]_vars => MicInv'
BY StepStart, StepFrame, StepProcess, StepFails, StepActivate, StepDeactivate,
   StepInstantiate, StepCleanup, StepStutter DEF Next

THEOREM MicInvariance == Spec => []MicInv
BY MicInit, MicStep, PTL DEF Spec

\* Whatever the size of a block, the cut of the stream into calls and the
\* sharing of buffers, the host gets its stream back exactly one block later,
\* at the volume of the call, and silence where it is owed silence.
THEOREM MicDelays == Spec => []StreamDelayed
<1>1. MicInv => StreamDelayed BY DelayedFromBehind DEF MicInv
<1> QED BY <1>1, MicInvariance, PTL

\* The two blocks are windows of one stream; nothing of an earlier one is left.
THEOREM MicWindows == Spec => []BlocksHoldStream
<1>1. MicInv => BlocksHoldStream BY DEF MicInv
<1> QED BY <1>1, MicInvariance, PTL

\* The offset stays inside the blocks, and the percentages and every sample
\* keep their types.
THEOREM MicTypes == Spec => []TypeOK
<1>1. MicInv => TypeOK BY DEF MicInv
<1> QED BY <1>1, MicInvariance, PTL
=============================================================================
