---------------------------- MODULE CheckPlugin ----------------------------
(***************************************************************************)
(* check-plugin, the program that every build of the Redrix DSP runs       *)
(* (overlays/24-redrix-firmware/check-plugin.c), as a host of the three    *)
(* LADSPA plugins of CrasDsp, SpeakerGain and MicApm.  The program is the  *)
(* constant Script: the calls and assertions in the order main makes them. *)
(* A call takes its plugin through the steps of the plugin's own module    *)
(* before the next one; anything the plugin allocates, and APM, can fail.  *)
(*                                                                         *)
(* Numbers of frames go through Scale, which keeps their order.  Signals   *)
(* are known by where they came from, as in the plugins' modules, so two   *)
(* samples are close when they are equal; a gain is a whole number.        *)
(***************************************************************************)
EXTENDS Integers, Sequences, SequencesExt

CONSTANTS
  Objects, Nil, NaN, Silence, Garbage,  \* see CrasDsp, MicApm
  PreDelay,      \* what a DRC reports at the rate Rate
  Gain, Full,    \* see SpeakerGain
  Scale(_),      \* the model's length for a number of frames
  Rate,          \* of rates[], the one the DSP is tried at
  CurveRate,     \* stands for the 48000 of test_speaker_curve
  NoiseBlocks    \* stands for BLOCKS

Channels == {0, 1}
FRAMES == Scale(16385)
Block == Scale(480)
SpeakerFrames == 700

Arrays == {"input", "output", "reference"}
Buffers == Arrays \X Channels
Cells == {"latency", "first_latency", "second_latency"}

VARIABLES
  \* redrix_cras_dsp
  heap, self, drc, eq, newDrc, newEq, dspActive, processed, ports, mem, dspLatency,
  pc, dspRunning, dspStream, dspPlayed, dspCall, todo,
  \* redrix_speaker_gain
  speakerMade, current, target, step, remaining, speakerPercent, control,
  speakerActive, frames,
  \* redrix_mic_apm
  micMade, micInput, micOutput, offset, micActive, micPercent, micGain, buf,
  micLatency, micCall, frame, micRunning, micStream, micPlayed, dead,
  \* check-plugin
  at,       \* the next line of Script
  arrays,   \* [Buffers -> [1..FRAMES -> sample]]
  heard,    \* [Channels -> [1..SpeakerFrames -> gain]]: the speaker's output
  outcome,  \* "running", "pass" or "abort"
  faults,   \* what has failed underneath the plugins so far
  deaths    \* the frames at which APM stopped in the streams compared so far

dspRest == <<heap, self, drc, eq, newDrc, newEq, dspActive, processed, ports, mem,
             pc, dspRunning, dspStream, dspPlayed, dspCall, todo>>
dspVars == <<dspRest, dspLatency>>
speakerRest == <<speakerMade, current, target, step, remaining, speakerPercent,
                 speakerActive, frames>>
speakerVars == <<speakerRest, control>>
micVars == <<micMade, micInput, micOutput, offset, micActive, micPercent, micGain, buf,
             micLatency, micCall, frame, micRunning, micStream, micPlayed, dead>>
checkVars == <<arrays, heard, outcome, faults, deaths>>
vars == <<dspVars, speakerVars, micVars, at, checkVars>>

Dsp == INSTANCE CrasDsp WITH
  active <- dspActive, latency <- dspLatency, running <- dspRunning, stream <- dspStream,
  played <- dspPlayed, call <- dspCall, Wirings <- {}, ProcessMax <- Scale(2048),
  MaxFrames <- FRAMES, MaxPlayed <- FRAMES, MaxStreams <- 100

SpeakerControls == {10 * p : p \in 0..100} \cup {504, 505, 10000, -10, NaN}

Speaker(SampleRate) == INSTANCE SpeakerGain WITH
  made <- speakerMade, percent <- speakerPercent, active <- speakerActive,
  Controls <- SpeakerControls, MaxFrames <- SpeakerFrames

MicWiring(i, o) == [in |-> [c \in Channels |-> <<i, c>>], out |-> [c \in Channels |-> <<o, c>>]]

Mic == INSTANCE MicApm WITH
  made <- micMade, input <- micInput, output <- micOutput, active <- micActive,
  percent <- micPercent, gain <- micGain, latency <- micLatency, call <- micCall,
  running <- micRunning, stream <- micStream, played <- micPlayed, Null <- Nil,
  Controls <- {0, 50, 75, 100, 1000, NaN},
  Wirings <- {MicWiring("input", "reference"), MicWiring("input", "output"),
              MicWiring("output", "output")},
  MaxFrames <- FRAMES, MaxPlayed <- 2 * FRAMES, MaxStreams <- 100

\* The stream of the microphone does not end with a block: a stop at its last
\* frame could not be told from none.
ASSUME CheckAssumption ==
  /\ \A n \in {1, 31, 113, 256, 480, 2048, 2049, 8192, 16385} : Scale(n) \in Nat \ {0}
  /\ Block < FRAMES /\ \A m \in 0..FRAMES : m * Block # FRAMES
  /\ Rate \in Nat /\ CurveRate \in Nat /\ NoiseBlocks \in Nat
  /\ Nil \notin Cells \cup Buffers \cup Int /\ NaN \notin Int
  /\ \A c \in Channels, k \in 1..FRAMES :
       /\ <<0, c, k>> # Silence
       /\ \A v \in 1..100 : <<<<0, c, k>>, v>> # Silence

-----------------------------------------------------------------------------
\* The descriptors the library exports, and what main makes of them.

Port(name, flags, low, high) == [name |-> name, flags |-> flags, low |-> low, high |-> high]
AudioPorts ==
  LET Audio(name, direction) == Port(name, {direction, "audio"}, Nil, Nil)
  IN  <<Audio("Input Left", "input"), Audio("Input Right", "input"),
        Audio("Output Left", "output"), Audio("Output Right", "output")>>
VolumePorts ==
  LET Volume(name) == Port(name, {"input", "control"}, 0, 100)
  IN  <<Volume("Volume Left"), Volume("Volume Right")>>

\* The names, flags and bounds of the ports of the three plugins.
CrasPorts == AudioPorts \o <<Port("latency", {"output", "control"}, 0, 1024)>>
SpeakerPorts == AudioPorts \o VolumePorts
MicPorts == AudioPorts \o VolumePorts \o <<Port("latency", {"output", "control"}, 0, Nil)>>

\* ladspa_descriptor
Descriptor(index) ==
  CASE index = 0 -> [label |-> "redrix_cras_dsp", ports |-> CrasPorts]
    [] index = 1 -> [label |-> "redrix_speaker_gain", ports |-> SpeakerPorts]
    [] index = 2 -> [label |-> "redrix_mic_apm", ports |-> MicPorts]
    [] OTHER     -> Nil

\* find_port: the first port of that name, if it has the flags, or none.
FindPort(d, name, flags) ==
  LET p == SelectInSeq(d.ports, LAMBDA q : q.name = name)
  IN  IF p # 0 /\ flags \subseteq d.ports[p].flags THEN p - 1 ELSE Nil

FindStereoPorts(d) ==
  <<FindPort(d, "Input Left", {"input", "audio"}), FindPort(d, "Input Right", {"input", "audio"}),
    FindPort(d, "Output Left", {"output", "audio"}), FindPort(d, "Output Right", {"output", "audio"})>>

FindVolumePorts(d) ==
  <<FindPort(d, "Volume Left", {"input", "control"}), FindPort(d, "Volume Right", {"input", "control"})>>

FindLatencyPort(d) == FindPort(d, "latency", {"output", "control"})

\* assert_percent_range
PercentRange(d, port) == d.ports[port + 1].low = 0 /\ d.ports[port + 1].high = 100

\* require_descriptor
Required(index, label) == Descriptor(index) # Nil /\ Descriptor(index).label = label

DescriptorsHold ==
  /\ Required(0, "redrix_cras_dsp") /\ Required(1, "redrix_speaker_gain")
  /\ Required(2, "redrix_mic_apm") /\ Descriptor(3) = Nil
  /\ \A i \in 0..2 : \A p \in 1..4 : FindStereoPorts(Descriptor(i))[p] # Nil
  /\ \A i \in 1..2 : \A p \in 1..2 :
       LET port == FindVolumePorts(Descriptor(i))[p]
       IN  port # Nil /\ PercentRange(Descriptor(i), port)
  /\ \A i \in {0, 2} : FindLatencyPort(Descriptor(i)) # Nil
  /\ Descriptor(0).ports[FindLatencyPort(Descriptor(0)) + 1].low = 0

\* connect_dsp: what the ports that find_port found point to.
DspWiring(i, o, cell) ==
  LET d == Descriptor(0)
      audio == FindStereoPorts(d)
  IN  [p \in 0..4 |-> CASE p = audio[1] -> <<i, 0>> [] p = audio[2] -> <<i, 1>>
                        [] p = audio[3] -> <<o, 0>> [] p = audio[4] -> <<o, 1>>
                        [] p = FindLatencyPort(d) -> cell]

\* expected_drc_delay
ExpectedDrcDelay ==
  LET n == (6 * Rate) \div 1000
      k == IF n > 1023 THEN 1023 ELSE n
      m == (k \div 32) * 32
  IN  IF m < 32 THEN 32 ELSE m

-----------------------------------------------------------------------------
\* The script.

Do(what) == <<[do |-> what]>>

\* The pieces of a quantum that FRAMES frames are cut into.
Pieces(quantum) ==
  [i \in 1..((FRAMES + quantum - 1) \div quantum) |->
    LET from == (i - 1) * quantum
    IN  [from |-> from, n |-> IF FRAMES - from > quantum THEN quantum ELSE FRAMES - from]]

ConnectDsp(i, o, cell) == <<[do |-> "dsp_connect", in |-> i, out |-> o, cell |-> cell]>>

RunDsp(i, o, cell, quantum) ==
  LET P == Pieces(quantum)
  IN  FlattenSeq([k \in DOMAIN P |->
        ConnectDsp(i, o, cell) \o <<[do |-> "dsp_run", from |-> P[k].from, n |-> P[k].n]>>])
    \o <<[do |-> "dsp_run", from |-> 0, n |-> 0]>>

AssertLatency(cell) == <<[do |-> "assert_latency", cell |-> cell]>>
AssertDspOutput(a, r) == <<[do |-> "assert_dsp_output", actual |-> a, reference |-> r]>>

DspStream(i, o, cell, quantum) ==
  ConnectDsp(i, o, cell) \o Do("dsp_activate") \o RunDsp(i, o, cell, quantum)
    \o Do("dsp_deactivate")

\* process_dsp, and the assertion on the latency it returns.
ProcessDsp(i, o, quantum) ==
  Do("latencies") \o Do("dsp_instantiate") \o Do("dsp_handle")
    \o DspStream(i, o, "latency", quantum)
    \o Do("dsp_cleanup") \o AssertLatency("latency")

TestDspLifecycle ==
  Do("latencies") \o Do("dsp_instantiate") \o Do("dsp_handle")
    \o DspStream("input", "reference", "first_latency", Scale(256))
    \o DspStream("input", "output", "second_latency", Scale(256))
    \o Do("dsp_cleanup")
    \o AssertLatency("first_latency") \o AssertLatency("second_latency")
    \o AssertDspOutput("output", "reference")

\* One turn of the loop over rates.
TestDsp ==
  Do("fill") \o ProcessDsp("input", "reference", Scale(256))
    \o FlattenSeq([q \in 1..7 |->
         ProcessDsp("input", "output", Scale(<<1, 31, 256, 2048, 2049, 8192, 16385>>[q]))
           \o AssertDspOutput("output", "reference")])
    \o TestDspLifecycle
    \o ProcessDsp("input", "input", Scale(8192)) \o AssertDspOutput("input", "reference")

Volumes(left, right) == <<[do |-> "volumes", left |-> left, right |-> right]>>
RunSpeaker(rate, from, n) == <<[do |-> "speaker_run", rate |-> rate, from |-> from, n |-> n]>>

\* assert_close of frames from..from + Len - 1 of a channel to expected gains.
AssertHeard(c, from, expected) ==
  <<[do |-> "assert_heard", channel |-> c, from |-> from, expected |-> expected]>>
AssertBoth(from, expected) == AssertHeard(0, from, expected) \o AssertHeard(1, from, expected)

\* n times the gain g, and a line of n gains.
Flat(g, n) == [k \in 1..n |-> g]
Line(g, distance, duration, n) == [k \in 1..n |-> g + ((k - 1) * distance) \div duration]

\* expected_speaker_gain
ExpectedSpeakerGain(percent) == IF percent <= 0 THEN 0 ELSE Gain[IF percent > 100 THEN 100 ELSE percent]

StartSpeaker(left, right) ==
  Volumes(left, right) \o Do("speaker_instantiate") \o Do("speaker_activate")
StopSpeaker == Do("speaker_deactivate") \o Do("speaker_cleanup")

SpeakerSettledGain(value, expected) ==
  StartSpeaker(value, value) \o RunSpeaker(1000, 0, 11) \o StopSpeaker
    \o AssertHeard(0, 0, <<0>>) \o AssertBoth(10, <<expected>>)

TestSpeakerCurve ==
  LET startup == CurveRate \div 100
      G(p) == ExpectedSpeakerGain(p)
  IN  FlattenSeq([i \in 1..101 |->
        StartSpeaker(10 * (i - 1), 10 * (i - 1)) \o RunSpeaker(CurveRate, 0, startup + 1)
          \o StopSpeaker \o AssertBoth(0, <<0>>) \o AssertBoth(startup, <<G(i - 1)>>)])
      \o SpeakerSettledGain(504, G(50)) \o SpeakerSettledGain(505, G(51))
      \o SpeakerSettledGain(10000, G(100)) \o SpeakerSettledGain(-10, 0)
      \o SpeakerSettledGain(NaN, 0) \o SpeakerSettledGain(NaN, 0)

TestSpeakerRamps ==
  LET G(p) == ExpectedSpeakerGain(p)
      interrupted == G(100) + (20 * (G(50) - G(100))) \div 100
      Ramp(from, n) == RunSpeaker(1000, from, n)
  IN  StartSpeaker(1000, 1000)
      \o Ramp(0, 3) \o AssertHeard(0, 0, Line(0, G(100), 10, 3))
      \o Ramp(3, 2) \o AssertHeard(0, 3, Line((3 * G(100)) \div 10, G(100), 10, 2))
      \o Ramp(5, 5)
      \o Volumes(500, 1000) \o Ramp(10, 20)
      \o AssertHeard(0, 10, Line(G(100), G(50) - G(100), 100, 20))
      \o AssertHeard(1, 10, Flat(G(100), 20))
      \o Volumes(750, 1000) \o Ramp(30, 2)
      \o AssertHeard(0, 30, Line(interrupted, G(75) - interrupted, 100, 2))
      \o AssertHeard(1, 30, Flat(G(100), 2)) \o StopSpeaker
      \o StartSpeaker(1000, 1000) \o Ramp(0, 10)
      \o Volumes(0, 1000) \o Ramp(10, 101)
      \o AssertHeard(0, 10, Line(G(100), -G(100), 100, 101))
      \o AssertHeard(1, 10, Flat(G(100), 101))
      \o Volumes(1000, 1000) \o Ramp(111, 501)
      \o AssertHeard(0, 111, Line(0, G(100), 500, 501))
      \o AssertHeard(1, 111, Flat(G(100), 501)) \o StopSpeaker

Controls(left, right) == [c \in Channels |-> IF c = 0 THEN left ELSE right]

RunMic(i, o, volume, quantum) ==
  LET P == Pieces(quantum)
  IN  [k \in DOMAIN P |->
        [do |-> "mic_run", wiring |-> MicWiring(i, o), volume |-> volume,
         from |-> P[k].from, n |-> P[k].n]]

RestartMic == Do("mic_deactivate") \o Do("mic_activate")
AssertMic(volume) == <<[do |-> "assert_mic", volume |-> volume]>>

TestMicApm ==
  LET loud == Controls(100, 100)
      low == Controls(50, 75)
  IN  Do("calloc") \o Do("fill") \o Do("mic_instantiate") \o Do("mic_rate") \o Do("mic_activate")
      \o RunMic("input", "reference", loud, Scale(256)) \o Do("assert_reference")
      \o FlattenSeq([q \in 1..5 |->
           RestartMic
             \o RunMic("input", "output", loud, Scale(<<1, 31, 480, 2049, 16385>>[q]))
             \o AssertMic(loud)])
      \o RestartMic \o RunMic("input", "output", low, Scale(113)) \o AssertMic(low)
      \o RunMic("input", "output", Controls(0, NaN), Scale(31)) \o Do("assert_muted")
      \o RestartMic \o Do("memcpy")
      \o RunMic("output", "output", Controls(1000, 100), Scale(8192)) \o AssertMic(loud)
      \o Do("mic_deactivate") \o Do("mic_cleanup")

\* What it asserts is about the signals that APM makes and not in the model.
TestMicNoiseSuppression ==
  Do("mic_instantiate") \o Do("mic_activate")
    \o FlattenSeq([b \in 1..NoiseBlocks |->
         <<[do |-> "mic_run", wiring |-> MicWiring("input", "output"),
            volume |-> Controls(100, 100), from |-> 0, n |-> Block]>>])
    \o Do("mic_deactivate") \o Do("mic_cleanup")

\* main
Script ==
  Do("descriptors") \o Do("calloc") \o TestDsp \o TestSpeakerCurve \o TestSpeakerRamps
    \o TestMicApm \o TestMicNoiseSuppression

-----------------------------------------------------------------------------
\* The host.

here == Script[at]
last == Script[at - 1]

\* The call under way has returned, and `what` is next.
Returned == pc \in {"none", "idle"} /\ frames = 0 /\ Mic!Idle
Turn(what) ==
  /\ outcome = "running" /\ Returned /\ at <= Len(Script) /\ here.do = what
  /\ at' = at + 1

\* What a plugin sees of the arrays in a call, and what the call makes of them.
View(op) ==
  [b \in Buffers |-> [k \in 1..FRAMES |->
     IF k <= op.n THEN arrays[b][op.from + k] ELSE Garbage]]
Back(op, m) ==
  [b \in Buffers |-> [k \in 1..FRAMES |->
     IF k \in (op.from + 1)..(op.from + op.n) THEN m[b][k - op.from] ELSE arrays[b][k]]]

Holds(what, condition) ==
  /\ Turn(what)
  /\ outcome' = IF condition THEN outcome ELSE "abort"

\* An assertion that changes nothing else.
Asserted(what, condition) ==
  /\ Holds(what, condition)
  /\ UNCHANGED <<dspVars, speakerVars, micVars, arrays, heard, faults, deaths>>

\* The arrays of the program: allocated, filled with the test signal, copied.
Filling(what, A) ==
  /\ Turn(what)
  /\ arrays' = [b \in Buffers |-> A[b]]
  /\ UNCHANGED <<dspVars, speakerVars, micVars, heard, outcome, faults, deaths>>

Signal == [b \in Buffers |->
             IF b[1] = "input" THEN [k \in 1..FRAMES |-> <<0, b[2], k>>] ELSE arrays[b]]
Copied == [b \in Buffers |-> IF b[1] = "output" THEN arrays[<<"input", b[2]>>] ELSE arrays[b]]

Prepare ==
  \/ Filling("calloc", [b \in Buffers |-> [k \in 1..FRAMES |-> Silence]])
  \/ Filling("fill", Signal)
  \/ Filling("memcpy", Copied)

\* An instance or an array that there is no memory for.
NoMemory ==
  /\ \E what \in {"calloc", "dsp_instantiate", "speaker_instantiate", "mic_instantiate"} :
       Turn(what)
  /\ outcome' = "abort" /\ faults' = faults \cup {"memory"}
  /\ UNCHANGED <<dspVars, speakerVars, micVars, arrays, heard, deaths>>

-----------------------------------------------------------------------------
\* The DSP.

Latencies ==
  /\ Turn("latencies")
  /\ dspLatency' = [c \in Cells |-> NaN]
  /\ UNCHANGED <<dspRest, speakerVars, micVars, checkVars>>

CallDsp ==
  /\ \/ Turn("dsp_instantiate") /\ Dsp!Instantiate
     \/ Turn("dsp_connect") /\ Dsp!Connect(DspWiring(here.in, here.out, here.cell))
     \/ Turn("dsp_activate") /\ Dsp!Activate
     \/ Turn("dsp_deactivate") /\ Dsp!Deactivate
     \/ Turn("dsp_cleanup") /\ Dsp!Cleanup
  /\ UNCHANGED <<speakerVars, micVars, checkVars>>

CallDspRun ==
  /\ Turn("dsp_run") /\ Dsp!StartRun(here.n, View(here))
  /\ arrays' = Back(here, mem')
  /\ UNCHANGED <<speakerVars, micVars, heard, outcome, faults, deaths>>

\* The steps of its calls.
InsideDsp ==
  /\ \/ (Dsp!NewDrc \/ Dsp!NewEq \/ Dsp!Bands) /\ UNCHANGED <<arrays, faults>>
     \/ /\ Dsp!NewDrcFails \/ Dsp!NewEqFails \/ Dsp!BandFails
        /\ faults' = faults \cup {"filters"} /\ arrays' = arrays
     \/ (Dsp!Chunk \/ Dsp!Return) /\ arrays' = Back(last, mem') /\ faults' = faults
  /\ UNCHANGED <<speakerVars, micVars, at, heard, outcome, deaths>>

\* assert_dsp_output: equal, and neither channel silent.
OutputHolds(a, r) ==
  \A c \in Channels :
    /\ arrays[<<a, c>>] = arrays[<<r, c>>]
    /\ \E k \in 1..FRAMES : arrays[<<a, c>>][k] # Silence

AssertDsp ==
  \/ Asserted("dsp_handle", self # Nil)
  \/ Asserted("assert_latency", dspLatency[here.cell] = ExpectedDrcDelay)
  \/ Asserted("assert_dsp_output", OutputHolds(here.actual, here.reference))

-----------------------------------------------------------------------------
\* The speaker.

SetVolumes ==
  /\ Turn("volumes")
  /\ control' = [c \in Channels |-> IF c = 0 THEN here.left ELSE here.right]
  /\ UNCHANGED <<dspVars, speakerRest, micVars, checkVars>>

CallSpeaker ==
  /\ \/ Turn("speaker_instantiate") /\ Speaker(1000)!Instantiate
     \/ Turn("speaker_activate") /\ Speaker(1000)!Activate
     \/ /\ Turn("speaker_run")
        /\ \E rate \in {1000, CurveRate} : rate = here.rate /\ Speaker(rate)!StartRun(here.n)
     \/ Turn("speaker_deactivate") /\ Speaker(1000)!Deactivate
     \/ Turn("speaker_cleanup") /\ Speaker(1000)!Cleanup
  /\ UNCHANGED <<dspVars, micVars, checkVars>>

\* One frame of run, whose input is 1.0: the output is the gain.
InsideSpeaker ==
  /\ Speaker(1000)!Frame
  /\ heard' = [c \in Channels |->
                 [heard[c] EXCEPT ![last.from + last.n - frames + 1] = current[c]]]
  /\ UNCHANGED <<dspVars, micVars, at, arrays, outcome, faults, deaths>>

AssertSpeaker ==
  Asserted("assert_heard",
    \A k \in DOMAIN here.expected : heard[here.channel][here.from + k] = here.expected[k])

-----------------------------------------------------------------------------
\* The microphone.

CallMic ==
  /\ \/ Turn("mic_instantiate") /\ Mic!Instantiate
     \/ Turn("mic_deactivate") /\ Mic!Deactivate
     \/ Turn("mic_cleanup") /\ Mic!Cleanup
  /\ UNCHANGED <<dspVars, speakerVars, checkVars>>

\* An instance at 48000 samples a second, and none at 44100.
AssertRate == Asserted("mic_rate", Mic!Accepted(48000) /\ ~Mic!Accepted(44100))

CallMicActivate ==
  /\ Turn("mic_activate") /\ Mic!Activate
  /\ faults' = IF micActive' THEN faults ELSE faults \cup {"apm"}
  /\ UNCHANGED <<dspVars, speakerVars, arrays, heard, outcome, deaths>>

CallMicRun ==
  /\ Turn("mic_run") /\ Mic!StartRun(here.n, here.wiring, here.volume, View(here))
  /\ arrays' = Back(here, buf')
  /\ UNCHANGED <<dspVars, speakerVars, heard, outcome, faults, deaths>>

InsideMic ==
  /\ \/ (Mic!Frame \/ Mic!Process) /\ faults' = faults
     \/ Mic!ProcessFails /\ faults' = faults \cup {"apm"}
  /\ arrays' = Back(last, buf')
  /\ UNCHANGED <<dspVars, speakerVars, at, heard, outcome, deaths>>

\* Mutant: an energy of zero will do.
ReferenceHoldsSilent ==
  /\ micLatency = Block
  /\ \A c \in Channels, k \in 1..Block : arrays[<<"reference", c>>][k] = Silence

\* The first stream is late by one block, and not silent.
ReferenceHolds ==
  /\ micLatency = Block
  /\ \A c \in Channels, k \in 1..Block : arrays[<<"reference", c>>][k] = Silence
  /\ \E c \in Channels, k \in 1..FRAMES : arrays[<<"reference", c>>][k] # Silence

\* The output is the reference, attenuated from full volume to v.
Attenuated(v) ==
  \A c \in Channels, k \in 1..FRAMES :
    LET r == arrays[<<"reference", c>>][k]
    IN  arrays[<<"output", c>>][k] = IF r = Silence THEN Silence ELSE <<r[1], v[c]>>

Muted == \A c \in Channels, k \in 1..FRAMES : arrays[<<"output", c>>][k] = Silence

\* Where APM stopped in this stream: at once, at a frame, or never.
Stopped == IF ~micActive /\ dead = Mic!NoFailure THEN 0 ELSE dead

AssertCompared ==
  /\ \/ Holds("assert_reference", ReferenceHolds)
     \/ Holds("assert_mic", Attenuated(here.volume))
  /\ deaths' = deaths \cup {Stopped}
  /\ UNCHANGED <<dspVars, speakerVars, micVars, arrays, heard, faults>>

AssertMuted == Asserted("assert_muted", Muted)

-----------------------------------------------------------------------------
Init ==
  /\ Dsp!Init
  /\ control = [c \in Channels |-> 0] /\ Speaker(1000)!Init
  /\ micCall = [frames |-> 0, wiring |-> MicWiring("input", "output"), base |-> 0,
                volume |-> [c \in Channels |-> -1], live |-> FALSE]
  /\ Mic!Init
  /\ at = 1 /\ outcome = "running" /\ faults = {} /\ deaths = {}
  /\ arrays = [b \in Buffers |-> [k \in 1..FRAMES |-> Garbage]]
  /\ heard = [c \in Channels |-> [k \in 1..SpeakerFrames |-> 0]]

AssertDescriptors == Asserted("descriptors", DescriptorsHold)

\* main returns 0.
Pass ==
  /\ outcome = "running" /\ Returned /\ at = Len(Script) + 1
  /\ outcome' = "pass"
  /\ UNCHANGED <<dspVars, speakerVars, micVars, at, arrays, heard, faults, deaths>>

Ended == outcome # "running" /\ UNCHANGED vars

Next ==
  \/ Prepare \/ NoMemory \/ AssertDescriptors
  \/ Latencies \/ CallDsp \/ CallDspRun \/ InsideDsp \/ AssertDsp
  \/ SetVolumes \/ CallSpeaker \/ InsideSpeaker \/ AssertSpeaker
  \/ CallMic \/ AssertRate \/ CallMicActivate \/ CallMicRun \/ InsideMic \/ AssertCompared \/ AssertMuted
  \/ Pass \/ Ended

Spec == Init /\ [][Next]_vars

-----------------------------------------------------------------------------
\* Properties.

\* The check refuses no plugin that works: it aborts only after an allocation
\* or APM has failed.  Every assertion it makes, on every quantum, restart and
\* buffer it tries, is one the three plugins keep.
NoFalseAlarm == outcome = "abort" => faults # {}

\* What fails is seen: a check that passes has lost no filter and no memory,
\* and APM has processed its first block and then stopped at the same frame in
\* each stream that is compared, or in none.  (Streams that are muted, or whose
\* noise must go, would hide a stop.)
FaultsAreSeen ==
  outcome = "pass" =>
    /\ faults \subseteq {"apm"}
    /\ \E d \in deaths : deaths = {d} /\ d > Block
=============================================================================
