---------------------------- MODULE SpeakerGain ----------------------------
(***************************************************************************)
(* redrix_speaker_gain, the LADSPA plugin that applies the ChromeOS volume *)
(* curve (overlays/24-redrix-firmware/redrix-cras-dsp.c).  The host calls  *)
(* activate, run and deactivate and moves the volume controls; run applies *)
(* one gain per channel to each frame and ramps it sample by sample.       *)
(*                                                                         *)
(* A gain is a whole number of units out of Full.  The float step of a     *)
(* ramp, and the sums of it, are rounded: the model rounds the step to a   *)
(* whole unit either way.  A control is in tenths of a percent.            *)
(***************************************************************************)
EXTENDS Integers

CONSTANTS
  Channels,    \* left and right
  SampleRate,  \* frames per second
  Full,        \* unity gain
  Gain,        \* [0..100 -> 0..Full]: speaker_gain_for_percent
  Controls,    \* values a volume control can take
  NaN,         \* a control that is not a finite number
  MaxFrames    \* bound: frames of one call of run

ASSUME SpeakerAssumption ==
  /\ SampleRate \in Nat \ {0} /\ Full \in Nat /\ MaxFrames \in Nat
  /\ Gain \in [0..100 -> 0..Full] /\ Gain[0] = 0
  /\ Controls \subseteq Int \cup {NaN} /\ NaN \notin Int

VARIABLES
  made,      \* the instance exists
  current, target, step, remaining,  \* per channel: the ramp
  percent,   \* per channel: target_percent, -1 before the first run
  control,   \* per channel: the value behind the volume port
  active,
  frames     \* frames the current call of run still has to do, 0 outside

ramp == <<current, target, step, remaining, percent>>
vars == <<made, ramp, control, active, frames>>

-----------------------------------------------------------------------------
\* frames_for_milliseconds
FramesFor(ms) ==
  LET n == (SampleRate \div 1000) * ms + ((SampleRate % 1000) * ms) \div 1000
  IN  IF n = 0 THEN 1 ELSE n

\* Mutant: the cast truncates.
PercentTruncated(v) ==
  IF v = NaN THEN 0 ELSE IF v <= 0 THEN 0 ELSE IF v >= 1000 THEN 100 ELSE v \div 10

\* speaker_percent_from_control
PercentOf(v) ==
  IF v = NaN THEN 0
  ELSE IF v <= 0 THEN 0
  ELSE IF v >= 1000 THEN 100
  ELSE (v + 5) \div 10

\* The step of a ramp over `distance` in `duration` frames, rounded `up` or down.
StepFor(distance, duration, up) ==
  IF up THEN -((-distance) \div duration) ELSE distance \div duration

\* How long speaker_set_target ramps channel c to p percent: short after a
\* start, long out of silence.
Duration(c, p) ==
  IF percent[c] < 0 THEN FramesFor(10)
  ELSE IF p # 0 /\ target[c] = 0 THEN FramesFor(500)
  ELSE FramesFor(100)

\* Mutant: the step of the new ramp starts from the old target, not from the
\* gain an interrupted ramp has reached.
RetargetedFromTarget(c, p, up) ==
  LET now == [target |-> target[c], step |-> step[c],
              remaining |-> remaining[c], percent |-> percent[c]]
      t == Gain[p]
      n == Duration(c, p)
  IN  IF percent[c] = p THEN now
      ELSE IF percent[c] >= 0 /\ t = target[c] THEN [now EXCEPT !.percent = p]
      ELSE [target |-> t, step |-> StepFor(t - target[c], n, up),
            remaining |-> n, percent |-> p]

\* Mutant: a new ramp keeps the step of the one it interrupts.
RetargetedStaleStep(c, p, up) ==
  LET now == [target |-> target[c], step |-> step[c],
              remaining |-> remaining[c], percent |-> percent[c]]
      t == Gain[p]
      n == Duration(c, p)
  IN  IF percent[c] = p THEN now
      ELSE [target |-> t, remaining |-> n, percent |-> p,
            step |-> IF step[c] # 0 THEN step[c] ELSE StepFor(t - current[c], n, up)]

\* What speaker_set_target makes of the ramp of channel c: nothing when the
\* percentage is the one in force, a new percentage on the same gain, no ramp
\* when the gain is already there, else a ramp from the present gain.
Retargeted(c, p, up) ==
  LET now == [target |-> target[c], step |-> step[c],
              remaining |-> remaining[c], percent |-> percent[c]]
      t == Gain[p]
      n == Duration(c, p)
  IN  IF percent[c] = p THEN now
      ELSE IF percent[c] >= 0 /\ t = target[c] THEN [now EXCEPT !.percent = p]
      ELSE IF t = current[c]
      THEN [target |-> t, step |-> 0, remaining |-> 0, percent |-> p]
      ELSE [target |-> t, step |-> StepFor(t - current[c], n, up),
            remaining |-> n, percent |-> p]

\* Mutant: the last step is added instead of the target being reached.
AdvancedWithoutSnap(c) ==
  IF remaining[c] = 0 THEN current[c] ELSE current[c] + step[c]

\* What advance_speaker_gain makes of the gain of channel c in one frame.
Advanced(c) ==
  CASE remaining[c] = 0 -> current[c]
    [] remaining[c] = 1 -> target[c]
    [] OTHER            -> current[c] + step[c]

\* The frames left to channel c's ramp after one frame.
Ticked(c) == IF remaining[c] = 0 THEN 0 ELSE remaining[c] - 1

-----------------------------------------------------------------------------
\* The host's calls.

\* Mutant: activate leaves the percentage of the last stream in force.
ResetGainOnly ==
  /\ current' = [c \in Channels |-> 0] /\ target' = [c \in Channels |-> 0]
  /\ step' = [c \in Channels |-> 0] /\ remaining' = [c \in Channels |-> 0]
  /\ percent' = percent

Reset ==
  /\ current' = [c \in Channels |-> 0] /\ target' = [c \in Channels |-> 0]
  /\ step' = [c \in Channels |-> 0] /\ remaining' = [c \in Channels |-> 0]
  /\ percent' = [c \in Channels |-> -1]

\* instantiate: a zeroed instance before its first run.  (Without a sample rate
\* or memory it returns null and nothing has happened.)
Instantiate ==
  /\ ~made /\ made' = TRUE
  /\ Reset /\ active' = FALSE
  /\ UNCHANGED <<control, frames>>

Cleanup ==
  /\ made /\ frames = 0 /\ ~active
  /\ made' = FALSE
  /\ UNCHANGED <<ramp, control, active, frames>>

Activate ==
  /\ made /\ frames = 0 /\ ~active
  /\ Reset /\ active' = TRUE
  /\ UNCHANGED <<made, control, frames>>

Deactivate ==
  /\ frames = 0 /\ active
  /\ active' = FALSE
  /\ UNCHANGED <<made, ramp, control, frames>>

\* The volume moves; the plugin reads it at the start of run only.
SetVolume(c, v) ==
  /\ control' = [control EXCEPT ![c] = v]
  /\ UNCHANGED <<made, ramp, active, frames>>

\* run on an active, connected plugin: the targets first.  (Otherwise it
\* writes silence and changes nothing.)
StartRun(n) ==
  /\ frames = 0 /\ active
  /\ \E up \in [Channels -> BOOLEAN] :
       LET r == [c \in Channels |-> Retargeted(c, PercentOf(control[c]), up[c])] IN
         /\ target' = [c \in Channels |-> r[c].target]
         /\ step' = [c \in Channels |-> r[c].step]
         /\ remaining' = [c \in Channels |-> r[c].remaining]
         /\ percent' = [c \in Channels |-> r[c].percent]
  /\ frames' = n
  /\ UNCHANGED <<made, current, control, active>>

\* One frame of run: its output is scaled by `current`, then both ramps move.
Frame ==
  /\ frames > 0
  /\ current' = [c \in Channels |-> Advanced(c)]
  /\ remaining' = [c \in Channels |-> Ticked(c)]
  /\ step' = [c \in Channels |-> IF remaining[c] = 1 THEN 0 ELSE step[c]]
  /\ frames' = frames - 1
  /\ UNCHANGED <<made, target, percent, control, active>>

\* Nothing yet; the volume controls are whatever the host connects.
Init ==
  /\ made = FALSE
  /\ current = [c \in Channels |-> 0] /\ target = [c \in Channels |-> 0]
  /\ step = [c \in Channels |-> 0] /\ remaining = [c \in Channels |-> 0]
  /\ percent = [c \in Channels |-> -1]
  /\ control \in [Channels -> Controls]
  /\ active = FALSE /\ frames = 0

Run == Frame \/ \E n \in 1..MaxFrames : StartRun(n)

Next ==
  \/ Instantiate \/ Cleanup \/ Activate \/ Deactivate \/ Run
  \/ \E c \in Channels, v \in Controls : SetVolume(c, v)

\* An active stream is driven: the audio graph calls run again and again.
Fairness == WF_vars(Run)

Spec == Init /\ [][Next]_vars /\ Fairness

-----------------------------------------------------------------------------
\* Properties.

\* Every variable keeps its type.
TypeOK ==
  /\ current \in [Channels -> Int] /\ target \in [Channels -> 0..Full]
  /\ step \in [Channels -> Int] /\ remaining \in [Channels -> Nat]
  /\ percent \in [Channels -> -1..100]
  /\ control \in [Channels -> Controls]
  /\ made \in BOOLEAN /\ active \in BOOLEAN /\ frames \in Nat

\* A channel that is not ramping has exactly the gain it was asked for, on the
\* curve of the percentage in force; before the first run it is silent.
SettledOnCurve ==
  \A c \in Channels :
    /\ remaining[c] = 0 => current[c] = target[c] /\ step[c] = 0
    /\ target[c] = IF percent[c] < 0 THEN 0 ELSE Gain[percent[c]]

\* Rounding of the step may miss the target by less than a unit a frame.
Slack == FramesFor(500) - 1

\* The gain stays between silence and unity, up to the rounding of one ramp,
\* however many ramps are interrupted: errors do not add up, and the speakers
\* are never boosted.
NeverBoosted == \A c \in Channels : current[c] \in -Slack..(Full + Slack)

\* The steps a ramp has left take the gain to its target, up to rounding: no
\* jump is left for the last frame (a click in the speaker).
RampLandsOnTarget ==
  \A c \in Channels : target[c] - current[c] - step[c] * remaining[c] \in -Slack..Slack

\* A run plays at the percentage nearest to each control, whatever ramp it
\* finds under way.
NearestPercent ==
  [][frames = 0 /\ frames' > 0 =>
       \A c \in Channels : control[c] # NaN /\ control[c] \in 0..1000 =>
         10 * percent'[c] - control[c] \in -4..5]_vars

\* A volume that stays put while the stream plays is reached for good.
VolumeSettles ==
  \A c \in Channels, v \in Controls :
    <>[](active /\ control[c] = v) => <>[](current[c] = Gain[PercentOf(v)])

=============================================================================
