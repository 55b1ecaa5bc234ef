------------------------------- MODULE MicApm -------------------------------
(***************************************************************************)
(* redrix_mic_apm, the LADSPA plugin that puts WebRTC's audio processing   *)
(* behind the microphones (overlays/24-redrix-firmware/redrix-mic-apm.cpp).*)
(* The host hands run any number of frames; APM takes blocks of Block of   *)
(* them, so the plugin collects a block while it plays the one before.     *)
(*                                                                         *)
(* A sample is known by where it came from, <<stream, channel, frame>>,    *)
(* and what the plugin plays is such a sample at a volume.  APM itself is  *)
(* external: it makes of a block the block of its processed samples, or    *)
(* fails.  The host's audio buffers are memory: ports may share them.      *)
(***************************************************************************)
EXTENDS Integers

CONSTANTS
  Channels,     \* left and right
  Block,        \* frames APM takes at a time (480: 10 ms)
  Buffers,      \* the host's audio buffers
  Null,         \* a port that is not connected
  Controls,     \* the values a volume control can take
  NaN,          \* a control that is not a finite number
  Silence,      \* a sample of 0.0
  Garbage,      \* what a buffer holds that the host did not fill
  Wirings,      \* the host's choices of [in |-> , out |-> ] buffers per channel
  MaxFrames,    \* bound: frames of one call of run
  MaxStreams,   \* bound: activations
  MaxPlayed     \* bound: frames of a stream

ASSUME MicAssumption ==
  /\ Block \in Nat \ {0} /\ MaxFrames \in Nat /\ MaxStreams \in Nat /\ MaxPlayed \in Nat
  /\ Controls \subseteq Int \cup {NaN, Null} /\ NaN \notin Int /\ Null \notin Int
  /\ Null \notin Buffers
  /\ \A w \in Wirings :
       /\ w.in \in [Channels -> Buffers \cup {Null}] /\ w.out \in [Channels -> Buffers \cup {Null}]
       /\ \A c, d \in Channels :
            c # d => /\ w.in[c] # w.in[d] \/ w.in[c] = Null
                     /\ w.out[c] # w.out[d] \/ w.out[c] = Null

VARIABLES
  made,           \* the instance exists
  input, output,  \* [Channels -> [0..Block-1 -> sample]]
  offset, active,
  percent, gain,  \* per channel: the volume last read, and its gain
  buf,            \* [Buffers -> [1..MaxFrames -> cell]]: the host's memory
  latency,        \* the value behind the latency port
  call,           \* the current or last call of run: frames, wiring, volumes
  frame,          \* the next frame of the call; call.frames + 1 when it is over
  running,        \* the host has activated the plugin
  stream,         \* activations so far
  played,         \* frames the plugin took in this stream
  dead            \* the frame at which APM failed in this stream, or none

plugin == <<input, output, offset, active, percent, gain>>
host == <<made, latency, call, running, stream>>
vars == <<plugin, buf, frame, played, dead, host>>

-----------------------------------------------------------------------------
Slots == 0..(Block - 1)
NoFailure == MaxPlayed + MaxFrames
Idle == frame = call.frames + 1

Volumes == 0..100

\* What run makes of a volume control: a missing port or no number is mute.
PercentOf(v) ==
  IF v \in {NaN, Null} THEN 0 ELSE IF v < 0 THEN 0 ELSE IF v > 100 THEN 100 ELSE v

Quiet == [c \in Channels |-> [j \in Slots |-> Silence]]

\* A sample scaled by a volume.
Scaled(s, v) == IF s = Silence \/ v = 0 THEN Silence ELSE <<s, v>>

\* std::fill_n on every connected output, from frame i on.
SilencedFrom(b, w, i) ==
  [x \in Buffers |-> IF \E c \in Channels : w.out[c] = x
                     THEN [k \in 1..MaxFrames |-> IF i <= k /\ k <= call'.frames
                                                  THEN Silence ELSE b[x][k]]
                     ELSE b[x]]

\* The outputs of one frame, written to the connected ports.
Written(b, w, i) ==
  [x \in Buffers |-> [k \in 1..MaxFrames |->
     IF k = i /\ \E c \in Channels : w.out[c] = x
     THEN LET c == CHOOSE c \in Channels : w.out[c] = x
          IN  Scaled(output[c][offset], gain[c])
     ELSE b[x][k]]]

\* Mutant: each channel is read after the outputs have been written.
CollectedLate(b, w, i) ==
  [c \in Channels |-> [input[c] EXCEPT ![offset] = Written(b, w, i)[w.in[c]][i]]]

\* The block with this frame's samples, all read before any output is written.
Collected(b, w, i) ==
  [c \in Channels |-> [input[c] EXCEPT ![offset] = b[w.in[c]][i]]]

-----------------------------------------------------------------------------
\* The rates at which instantiate makes an instance.
Accepted(rate) == rate = 48000

\* instantiate: a new instance, with APM initialised.  (At a rate that is not
\* accepted, or when that fails, it returns null and nothing has happened.)
Instantiate ==
  /\ ~made
  /\ made' = TRUE
  /\ input' = Quiet /\ output' = Quiet /\ offset' = 0 /\ active' = FALSE
  /\ percent' = [c \in Channels |-> -1] /\ gain' = [c \in Channels |-> 0]
  /\ UNCHANGED <<buf, frame, played, dead, latency, call, running, stream>>

Cleanup ==
  /\ made /\ Idle /\ ~running
  /\ made' = FALSE
  /\ UNCHANGED <<plugin, buf, frame, played, dead, latency, call, running, stream>>

\* run on n frames that the host has put into memory m, over wiring w and
\* controls v.  run reads the volumes; a plugin that is not active, or lacks an
\* input, plays silence and takes nothing.
StartRun(n, w, v, m) ==
  /\ Idle /\ running /\ played + n <= MaxPlayed
  /\ LET volume == [c \in Channels |-> PercentOf(v[c])] IN
       /\ call' = [frames |-> n, wiring |-> w, volume |-> volume, base |-> played,
                   live |-> active /\ \A c \in Channels : w.in[c] # Null]
       /\ percent' = volume
       /\ gain' = [c \in Channels |-> IF volume[c] # percent[c] THEN volume[c] ELSE gain[c]]
  /\ latency' = Block
  /\ IF call'.live
     THEN buf' = m /\ frame' = 1
     ELSE buf' = SilencedFrom(m, w, 1) /\ frame' = n + 1
  /\ UNCHANGED <<made, input, output, offset, active, running, stream, played, dead>>

\* One frame inside a block.
Frame ==
  /\ ~Idle /\ offset + 1 < Block
  /\ input' = Collected(buf, call.wiring, frame)
  /\ buf' = Written(buf, call.wiring, frame)
  /\ offset' = offset + 1
  /\ frame' = frame + 1 /\ played' = played + 1
  /\ UNCHANGED <<output, active, percent, gain, dead, host>>

\* The last frame of a block, which ProcessStream turns into the next output.
Process ==
  /\ ~Idle /\ offset + 1 = Block
  /\ input' = Collected(buf, call.wiring, frame)
  /\ output' = input'
  /\ buf' = Written(buf, call.wiring, frame)
  /\ offset' = 0
  /\ frame' = frame + 1 /\ played' = played + 1
  /\ UNCHANGED <<active, percent, gain, dead, host>>

\* ProcessStream fails: nothing more is played until the next activation.
ProcessFails ==
  /\ ~Idle /\ offset + 1 = Block
  /\ input' = Collected(buf, call.wiring, frame)
  /\ output' = Quiet
  /\ offset' = 0 /\ active' = FALSE
  /\ call' = call
  /\ buf' = SilencedFrom(Written(buf, call.wiring, frame), call.wiring, frame + 1)
  /\ frame' = call.frames + 1 /\ played' = played + 1
  /\ dead' = played + 1
  /\ UNCHANGED <<percent, gain, made, latency, running, stream>>

\* Mutant: activate forgets the block that is waiting to be played.
ClearedInputOnly == input' = Quiet /\ output' = output /\ offset' = 0

\* What activate does to the blocks of the last stream.
Cleared == input' = Quiet /\ output' = Quiet /\ offset' = 0

\* activate; the reset of APM can fail.
Activate ==
  /\ made /\ Idle /\ ~running /\ stream < MaxStreams
  /\ running' = TRUE /\ stream' = stream + 1
  /\ Cleared
  /\ percent' = [c \in Channels |-> -1]
  /\ active' \in BOOLEAN
  /\ played' = 0 /\ dead' = NoFailure /\ latency' = Block
  /\ call' = [call EXCEPT !.live = FALSE, !.frames = 0] /\ frame' = 1
  /\ UNCHANGED <<made, gain, buf>>

Deactivate ==
  /\ Idle /\ running
  /\ running' = FALSE /\ active' = FALSE
  /\ UNCHANGED <<made, input, output, offset, percent, gain, buf, frame, played, dead,
                 latency, call, stream>>

\* The host's next frames of the stream, in the buffers of the inputs.
Filled(w) ==
  [x \in Buffers |-> [k \in 1..MaxFrames |->
     IF \E c \in Channels : w.in[c] = x
     THEN <<stream, CHOOSE c \in Channels : w.in[c] = x, played + k - 1>>
     ELSE Garbage]]

Init ==
  /\ made = FALSE /\ latency = 0
  /\ input = Quiet /\ output = Quiet /\ offset = 0 /\ active = FALSE
  /\ percent = [c \in Channels |-> -1] /\ gain = [c \in Channels |-> 0]
  /\ buf = [x \in Buffers |-> [k \in 1..MaxFrames |-> Garbage]]
  /\ call \in {[frames |-> 0, wiring |-> w, volume |-> percent, base |-> 0, live |-> FALSE] : w \in Wirings}
  /\ frame = 1 /\ running = FALSE
  /\ stream = 0 /\ played = 0 /\ dead = NoFailure

Next ==
  \/ \E n \in 1..MaxFrames, w \in Wirings, v \in [Channels -> Controls] :
       StartRun(n, w, v, Filled(w))
  \/ Frame \/ Process \/ ProcessFails
  \/ Instantiate \/ Activate \/ Deactivate \/ Cleanup

Spec == Init /\ [][Next]_vars

-----------------------------------------------------------------------------
\* Properties.

Sample == {Silence} \cup (Nat \X Channels \X Nat)
Cell == {Silence, Garbage} \cup (Nat \X Channels \X Nat) \cup (Sample \X Volumes)

\* Every variable keeps its type.
TypeOK ==
  /\ input \in [Channels -> [Slots -> Sample]] /\ output \in [Channels -> [Slots -> Sample]]
  /\ made \in BOOLEAN /\ offset \in Slots /\ active \in BOOLEAN /\ latency \in {0, Block}
  /\ percent \in [Channels -> Volumes \cup {-1}] /\ gain \in [Channels -> Volumes \cup {0}]
  /\ buf \in [Buffers -> [1..MaxFrames -> Cell]]
  /\ call \in [frames : 0..MaxFrames, wiring : Wirings, volume : [Channels -> Volumes \cup {-1}],
              base : Nat, live : BOOLEAN]
  /\ frame \in 1..(call.frames + 1)
  /\ running \in BOOLEAN /\ stream \in Nat /\ played \in Nat /\ dead \in Nat

\* Sample k of channel c of this stream, with silence before the stream.
Source(c, k) == IF k < 0 THEN Silence ELSE <<stream, c, k>>

\* The plugin's blocks are windows of the one stream: the collected part of
\* `input` is its newest samples, the part of `output` still to be played lies
\* exactly Block frames behind, and nothing of an earlier stream is in either.
BlocksHoldStream ==
  active => \A c \in Channels, j \in Slots :
    /\ j < offset => input[c][j] = Source(c, played - offset + j)
    /\ j >= offset => output[c][j] = Source(c, played - offset + j - Block)

\* What the host is owed in frame k of the stream.
Owed(c, k) ==
  IF k >= dead THEN Silence ELSE Scaled(Source(c, k - Block), call.volume[c])

\* When run returns, every connected output holds the input of exactly Block
\* frames before, at the volume of this call, channel by channel, however the
\* calls cut the stream and the ports share buffers; silence before the first
\* block, after a failure of APM to the end of the stream, and in a call that
\* is not live.
StreamDelayed ==
  Idle => \A c \in Channels, i \in 1..call.frames :
    call.wiring.out[c] # Null =>
      buf[call.wiring.out[c]][i] = IF call.live THEN Owed(c, call.base + i - 1) ELSE Silence
=============================================================================
