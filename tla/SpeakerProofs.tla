--------------------------- MODULE SpeakerProofs ---------------------------
(***************************************************************************)
(* What SpeakerGain promises for every sample rate, curve, set of controls *)
(* and length of a run.  The invariant couples the position of a ramp with *)
(* the steps it has left: `current` and the place the steps lead to are    *)
(* both in range, so every gain in between is.                             *)
(***************************************************************************)
EXTENDS SpeakerGain, TLAPS

\* A floor of a division is within one divisor of the number divided.
LEMMA FloorDivision ==
  ASSUME NEW d \in Int, NEW n \in Nat \ {0}
  PROVE  d \div n \in Int /\ d - (d \div n) * n \in 0..(n - 1)
OBVIOUS

\* The step of a ramp, multiplied out, misses the distance by less than a unit
\* for each frame.
LEMMA StepError ==
  ASSUME NEW d \in Int, NEW n \in Nat \ {0}, NEW up \in BOOLEAN
  PROVE  /\ StepFor(d, n, up) \in Int
         /\ d - StepFor(d, n, up) * n \in -(n - 1)..(n - 1)
<1>1. CASE up
  <2>1. (-d) \div n \in Int /\ (-d) - ((-d) \div n) * n \in 0..(n - 1)
    BY FloorDivision
  <2>2. StepFor(d, n, up) = -((-d) \div n)
    BY <1>1 DEF StepFor
  <2> QED BY <2>1, <2>2
<1>2. CASE ~up
  <2>1. StepFor(d, n, up) = d \div n
    BY <1>2 DEF StepFor
  <2> QED BY <2>1, FloorDivision
<1> QED BY <1>1, <1>2

\* One step of a ramp stays between where it is and where its steps lead.
LEMMA StepBetween ==
  ASSUME NEW a \in Int, NEW s \in Int, NEW n \in Nat \ {0}, NEW lo \in Int, NEW hi \in Int,
         a \in lo..hi, a + s * n \in lo..hi
  PROVE  a + s \in lo..hi
<1>1. CASE s >= 0
  <2>1. s * (n - 1) >= 0 BY <1>1
  <2> QED BY <1>1, <2>1
<1>2. CASE s < 0
  <2>1. (-s) * (n - 1) >= 0 BY <1>2
  <2> QED BY <1>2, <2>1
<1> QED BY <1>1, <1>2

\* Splitting the rate into thousands and a rest (which keeps the product within
\* a machine word) loses nothing: the length of a ramp is the rounded-down
\* number of frames, and never zero.
THEOREM FramesExact ==
  ASSUME NEW ms \in Nat
  PROVE  FramesFor(ms) = IF (SampleRate * ms) \div 1000 = 0 THEN 1
                         ELSE (SampleRate * ms) \div 1000
<1> DEFINE q == SampleRate \div 1000
           r == SampleRate % 1000
<1>1. SampleRate \in Nat BY SpeakerAssumption
<1>2. q \in Nat /\ r \in 0..999 /\ SampleRate = 1000 * q + r BY <1>1
<1> HIDE DEF q, r
<1>3. q * ms \in Nat /\ r * ms \in Nat BY <1>2
<1>4. SampleRate * ms = 1000 * (q * ms) + r * ms BY <1>2, <1>3
<1>5. (SampleRate * ms) \div 1000 = q * ms + (r * ms) \div 1000 BY <1>3, <1>4
<1> QED BY <1>5 DEF FramesFor, q, r

LEMMA FramesBounds ==
  /\ FramesFor(10) \in 1..FramesFor(500)
  /\ FramesFor(100) \in 1..FramesFor(500)
  /\ FramesFor(500) \in Nat \ {0}
  /\ Slack \in Nat
BY SpeakerAssumption DEF FramesFor, Slack

\* The conversion of a control stays inside the table of the curve.
LEMMA PercentInTable ==
  ASSUME NEW v \in Controls
  PROVE  PercentOf(v) \in 0..100
BY SpeakerAssumption DEF PercentOf

\* It is the nearest percentage.
LEMMA PercentNear ==
  ASSUME NEW v \in Controls, v # NaN, v \in 0..1000
  PROVE  10 * PercentOf(v) - v \in -4..5
BY SpeakerAssumption DEF PercentOf

-----------------------------------------------------------------------------
\* The inductive invariant: TypeOK without what the environment moves, and the
\* three facts about ramps.
RampInv ==
  /\ TypeOK
  /\ SettledOnCurve
  /\ RampLandsOnTarget
  /\ NeverBoosted

\* What speaker_set_target returns, by the four ways through it.
LEMMA RetargetedKeeps ==
  ASSUME RampInv, NEW c \in Channels, NEW p \in 0..100, NEW up \in BOOLEAN
  PROVE  LET r == Retargeted(c, p, up) IN
         /\ r.target \in 0..Full /\ r.step \in Int /\ r.remaining \in Nat
         /\ r.percent \in 0..100
         /\ r.remaining = 0 => current[c] = r.target /\ r.step = 0
         /\ r.target = Gain[r.percent]
         /\ r.target - current[c] - r.step * r.remaining \in -Slack..Slack
<1> DEFINE r == Retargeted(c, p, up)
           n == Duration(c, p)
           d == Gain[p] - current[c]
<1>1. /\ current[c] \in Int /\ target[c] \in 0..Full /\ step[c] \in Int
      /\ remaining[c] \in Nat /\ percent[c] \in -1..100
  BY DEF RampInv, TypeOK
<1>2. /\ remaining[c] = 0 => current[c] = target[c] /\ step[c] = 0
      /\ target[c] = IF percent[c] < 0 THEN 0 ELSE Gain[percent[c]]
      /\ target[c] - current[c] - step[c] * remaining[c] \in -Slack..Slack
  BY DEF RampInv, SettledOnCurve, RampLandsOnTarget
<1>3. Gain[p] \in 0..Full /\ Full \in Nat
  BY SpeakerAssumption
<1>4. n \in 1..FramesFor(500) /\ Slack = FramesFor(500) - 1 /\ FramesFor(500) \in Nat
  BY FramesBounds DEF Duration, Slack
<1>5. CASE percent[c] = p
  BY <1>1, <1>2, <1>5 DEF Retargeted
<1>6. CASE percent[c] # p /\ percent[c] >= 0 /\ Gain[p] = target[c]
  <2>1. /\ r.percent = p /\ r.target = target[c]
        /\ r.step = step[c] /\ r.remaining = remaining[c]
    BY <1>6 DEF Retargeted
  <2> QED BY <2>1, <1>1, <1>2, <1>6
<1>7. CASE percent[c] # p /\ ~(percent[c] >= 0 /\ Gain[p] = target[c]) /\ Gain[p] = current[c]
  <2>1. r.percent = p /\ r.target = Gain[p] /\ r.step = 0 /\ r.remaining = 0
    BY <1>7 DEF Retargeted
  <2> QED BY <2>1, <1>1, <1>3, <1>4, <1>7
<1>8. CASE percent[c] # p /\ ~(percent[c] >= 0 /\ Gain[p] = target[c]) /\ Gain[p] # current[c]
  <2>1. r.percent = p /\ r.target = Gain[p] /\ r.step = StepFor(d, n, up) /\ r.remaining = n
    BY <1>8 DEF Retargeted
  <2>2. d \in Int /\ n \in Nat \ {0}
    BY <1>1, <1>3, <1>4
  <2>3. StepFor(d, n, up) \in Int /\ d - StepFor(d, n, up) * n \in -(n - 1)..(n - 1)
    BY <2>2, StepError
  <2> HIDE DEF n, d
  <2>4. d - r.step * r.remaining \in -Slack..Slack
    <3> DEFINE e == d - StepFor(d, n, up) * n
    <3>1. e \in -(n - 1)..(n - 1) BY <2>3
    <3>2. e = d - r.step * r.remaining BY <2>1
    <3> HIDE DEF e
    <3> QED BY <3>1, <3>2, <1>4
  <2> QED BY <2>1, <2>2, <2>3, <2>4, <1>3 DEF d
<1> QED BY <1>5, <1>6, <1>7, <1>8

LEMMA RampInit == Init => RampInv
<1> SUFFICES ASSUME Init PROVE RampInv
  OBVIOUS
<1>1. Slack \in Nat /\ Full \in Nat /\ 0 \in 0..Full
  BY FramesBounds, SpeakerAssumption
<1>2. ASSUME NEW c \in Channels
      PROVE  /\ current[c] \in Int /\ target[c] \in 0..Full /\ step[c] \in Int
             /\ remaining[c] \in Nat /\ percent[c] \in -1..100
             /\ remaining[c] = 0 => current[c] = target[c] /\ step[c] = 0
             /\ target[c] = IF percent[c] < 0 THEN 0 ELSE Gain[percent[c]]
             /\ target[c] - current[c] - step[c] * remaining[c] \in -Slack..Slack
             /\ current[c] \in -Slack..(Full + Slack)
  <2>1. /\ current[c] = 0 /\ target[c] = 0 /\ step[c] = 0 /\ remaining[c] = 0
        /\ percent[c] = -1
    BY Zenon DEF Init
  <2> QED BY <2>1, <1>1
<1>3. TypeOK
  <2>1. /\ current = [c \in Channels |-> current[c]] /\ target = [c \in Channels |-> target[c]]
        /\ step = [c \in Channels |-> step[c]] /\ remaining = [c \in Channels |-> remaining[c]]
        /\ percent = [c \in Channels |-> percent[c]]
    BY Zenon DEF Init
  <2>2. /\ control \in [Channels -> Controls] /\ active \in BOOLEAN /\ frames = 0
        /\ made \in BOOLEAN
    BY Zenon DEF Init
  <2> QED BY <2>1, <2>2, <1>2 DEF TypeOK
<1>4. SettledOnCurve
  BY <1>2 DEF SettledOnCurve
<1>5. RampLandsOnTarget
  BY <1>2 DEF RampLandsOnTarget
<1>6. NeverBoosted
  BY <1>2 DEF NeverBoosted
<1> QED BY <1>3, <1>4, <1>5, <1>6 DEF RampInv

\* The calls that leave the ramps alone.
LEMMA RampFrozen ==
  ASSUME RampInv, UNCHANGED ramp,
         made' \in BOOLEAN, control' \in [Channels -> Controls], active' \in BOOLEAN,
         frames' \in Nat
  PROVE  RampInv'
<1>1. TypeOK'
  BY DEF ramp, RampInv, TypeOK
<1>2. SettledOnCurve'
  BY DEF ramp, RampInv, SettledOnCurve
<1>3. RampLandsOnTarget'
  BY DEF ramp, RampInv, RampLandsOnTarget, Slack, FramesFor
<1>4. NeverBoosted'
  BY DEF ramp, RampInv, NeverBoosted, Slack, FramesFor
<1> QED BY <1>1, <1>2, <1>3, <1>4 DEF RampInv

\* The calls that put the ramps back to silence.
LEMMA RampReset ==
  ASSUME RampInv, Reset, made' \in BOOLEAN, active' \in BOOLEAN, UNCHANGED <<control, frames>>
  PROVE  RampInv'
<1>1. Slack \in Nat /\ Full \in Nat /\ 0 \in 0..Full
  BY FramesBounds, SpeakerAssumption
<1>2. TypeOK'
  BY <1>1 DEF Reset, RampInv, TypeOK
<1>3. SettledOnCurve'
  BY <1>1 DEF Reset, SettledOnCurve
<1>4. RampLandsOnTarget'
  BY <1>1 DEF Reset, RampLandsOnTarget, Slack, FramesFor
<1>5. NeverBoosted'
  BY <1>1 DEF Reset, NeverBoosted, Slack, FramesFor
<1> QED BY <1>2, <1>3, <1>4, <1>5 DEF RampInv

LEMMA RampStart ==
  ASSUME RampInv, NEW n \in 1..MaxFrames, StartRun(n)
  PROVE  RampInv'
<1>1. PICK up \in [Channels -> BOOLEAN] :
        LET r == [c \in Channels |-> Retargeted(c, PercentOf(control[c]), up[c])] IN
          /\ target' = [c \in Channels |-> r[c].target]
          /\ step' = [c \in Channels |-> r[c].step]
          /\ remaining' = [c \in Channels |-> r[c].remaining]
          /\ percent' = [c \in Channels |-> r[c].percent]
  BY DEF StartRun
<1> DEFINE R(c) == Retargeted(c, PercentOf(control[c]), up[c])
<1>2. \A c \in Channels :
         /\ target'[c] = R(c).target /\ step'[c] = R(c).step
         /\ remaining'[c] = R(c).remaining /\ percent'[c] = R(c).percent
  BY <1>1
<1>3. UNCHANGED <<made, current, control, active>> /\ frames' = n
  BY DEF StartRun
<1>4. \A c \in Channels :
         /\ R(c).target \in 0..Full /\ R(c).step \in Int /\ R(c).remaining \in Nat
         /\ R(c).percent \in 0..100
         /\ R(c).remaining = 0 => current[c] = R(c).target /\ R(c).step = 0
         /\ R(c).target = Gain[R(c).percent]
         /\ R(c).target - current[c] - R(c).step * R(c).remaining \in -Slack..Slack
  <2> TAKE c \in Channels
  <2>1. PercentOf(control[c]) \in 0..100 /\ up[c] \in BOOLEAN
    BY PercentInTable, <1>1 DEF RampInv, TypeOK
  <2> QED BY <2>1, RetargetedKeeps
<1> HIDE DEF R
<1>5. TypeOK'
  <2>1. /\ target' \in [Channels -> 0..Full] /\ step' \in [Channels -> Int]
        /\ remaining' \in [Channels -> Nat] /\ percent' \in [Channels -> -1..100]
    BY <1>1, <1>4 DEF R
  <2> QED BY <2>1, <1>3 DEF RampInv, TypeOK
<1>6. SettledOnCurve'
  BY <1>2, <1>3, <1>4 DEF SettledOnCurve
<1>7. RampLandsOnTarget'
  BY <1>2, <1>3, <1>4 DEF RampLandsOnTarget, Slack, FramesFor
<1>8. NeverBoosted'
  BY <1>3 DEF RampInv, NeverBoosted, Slack, FramesFor
<1> QED BY <1>5, <1>6, <1>7, <1>8 DEF RampInv

LEMMA RampFrame ==
  ASSUME RampInv, Frame
  PROVE  RampInv'
<1>1. ASSUME NEW c \in Channels
      PROVE  /\ current'[c] \in -Slack..(Full + Slack)
             /\ step'[c] \in Int /\ remaining'[c] \in Nat /\ target'[c] = target[c]
             /\ percent'[c] = percent[c]
             /\ remaining'[c] = 0 => current'[c] = target[c] /\ step'[c] = 0
             /\ target[c] - current'[c] - step'[c] * remaining'[c] \in -Slack..Slack
  <2>1. /\ current[c] \in -Slack..(Full + Slack) /\ target[c] \in 0..Full /\ step[c] \in Int
        /\ remaining[c] \in Nat
        /\ remaining[c] = 0 => current[c] = target[c] /\ step[c] = 0
        /\ target[c] - current[c] - step[c] * remaining[c] \in -Slack..Slack
    BY DEF RampInv, TypeOK, SettledOnCurve, RampLandsOnTarget, NeverBoosted
  <2>2. /\ current'[c] = Advanced(c)
        /\ remaining'[c] = IF remaining[c] = 0 THEN 0 ELSE remaining[c] - 1
        /\ step'[c] = IF remaining[c] = 1 THEN 0 ELSE step[c]
        /\ target' = target /\ percent' = percent
    BY DEF Frame, Ticked
  <2>3. Slack \in Nat /\ Full \in Nat
    BY FramesBounds, SpeakerAssumption
  <2>4. CASE remaining[c] = 0
    BY <2>1, <2>2, <2>3, <2>4 DEF Advanced
  <2>5. CASE remaining[c] = 1
    BY <2>1, <2>2, <2>3, <2>5 DEF Advanced
  <2>6. CASE remaining[c] > 1
    <3>1. /\ current'[c] = current[c] + step[c] /\ step'[c] = step[c]
          /\ remaining'[c] = remaining[c] - 1
      BY <2>1, <2>2, <2>6 DEF Advanced
    <3>2. step[c] * (remaining[c] - 1) = step[c] * remaining[c] - step[c]
      BY <2>1
    <3>3. target[c] - current'[c] - step'[c] * remaining'[c]
            = target[c] - current[c] - step[c] * remaining[c]
      BY <2>1, <3>1, <3>2
    <3>4. current[c] + step[c] * remaining[c] \in -Slack..(Full + Slack)
      BY <2>1, <2>3
    <3>5. current[c] + step[c] \in -Slack..(Full + Slack)
      BY <2>1, <2>3, <2>6, <3>4, StepBetween
    <3> QED BY <2>1, <2>2, <2>6, <3>1, <3>3, <3>5
  <2>7. remaining[c] = 0 \/ remaining[c] = 1 \/ remaining[c] > 1
    BY <2>1
  <2> QED BY <2>4, <2>5, <2>6, <2>7
<1>2. TypeOK'
  <2>1. /\ current' \in [Channels -> Int] /\ step' \in [Channels -> Int]
        /\ remaining' \in [Channels -> Nat]
    <3>1. /\ DOMAIN current' = Channels /\ DOMAIN step' = Channels /\ DOMAIN remaining' = Channels
          /\ current' = [c \in Channels |-> current'[c]]
          /\ step' = [c \in Channels |-> step'[c]]
          /\ remaining' = [c \in Channels |-> remaining'[c]]
      BY DEF Frame
    <3>2. \A c \in Channels : current'[c] \in Int /\ step'[c] \in Int /\ remaining'[c] \in Nat
      BY <1>1, FramesBounds, SpeakerAssumption
    <3> QED BY <3>1, <3>2
  <2>2. UNCHANGED <<made, target, percent, control, active>> /\ frames' = frames - 1 /\ frames > 0
    BY DEF Frame
  <2> QED BY <2>1, <2>2 DEF RampInv, TypeOK
<1>3. SettledOnCurve'
  BY <1>1 DEF RampInv, SettledOnCurve
<1>4. RampLandsOnTarget'
  BY <1>1 DEF RampLandsOnTarget, Slack, FramesFor
<1>5. NeverBoosted'
  BY <1>1 DEF NeverBoosted, Slack, FramesFor
<1> QED BY <1>2, <1>3, <1>4, <1>5 DEF RampInv

\* Every step keeps the invariant.
LEMMA RampStep == RampInv /\ [Next]_vars => RampInv'
<1> SUFFICES ASSUME RampInv, [Next]_vars PROVE RampInv'
  OBVIOUS
<1>1. CASE Activate
  BY <1>1, RampReset DEF Activate, RampInv, TypeOK
<1>2. CASE Deactivate \/ Cleanup
  <2>1. UNCHANGED <<ramp, control, frames>> /\ active' \in BOOLEAN /\ made' \in BOOLEAN
    BY <1>2 DEF Deactivate, Cleanup, RampInv, TypeOK
  <2> QED BY <2>1, RampFrozen DEF RampInv, TypeOK
<1>3. CASE Frame
  BY <1>3, RampFrame
<1>4. CASE \E n \in 1..MaxFrames : StartRun(n)
  BY <1>4, RampStart
<1>5. CASE \E c \in Channels, v \in Controls : SetVolume(c, v)
  <2>1. UNCHANGED <<made, ramp, active, frames>> /\ control' \in [Channels -> Controls]
    BY <1>5 DEF SetVolume, RampInv, TypeOK
  <2> QED BY <2>1, RampFrozen DEF RampInv, TypeOK
<1>6. CASE UNCHANGED vars
  BY <1>6, RampFrozen DEF vars, RampInv, TypeOK
<1>7. CASE Instantiate
  BY <1>7, RampReset DEF Instantiate
<1> QED BY <1>1, <1>2, <1>3, <1>4, <1>5, <1>6, <1>7 DEF Next, Run

THEOREM RampInvariance == Spec => []RampInv
<1> QED BY RampInit, RampStep, PTL DEF Spec

\* The speakers are never driven past unity, but for rounding, whatever ramps
\* are interrupted: speaker_set_target and advance_speaker_gain together.
THEOREM NoBoost == Spec => []NeverBoosted
<1>1. RampInv => NeverBoosted BY DEF RampInv
<1> QED BY <1>1, RampInvariance, PTL

\* No ramp leaves a jump for its last frame.
THEOREM RampsLand == Spec => []RampLandsOnTarget
<1>1. RampInv => RampLandsOnTarget BY DEF RampInv
<1> QED BY <1>1, RampInvariance, PTL

\* A gain at rest is on the curve of the percentage in force.
THEOREM RestOnCurve == Spec => []SettledOnCurve
<1>1. RampInv => SettledOnCurve BY DEF RampInv
<1> QED BY <1>1, RampInvariance, PTL

\* Counters do not wrap, and the percentage stays inside the table of the
\* curve.
THEOREM SpeakerTypes == Spec => []TypeOK
<1>1. RampInv => TypeOK BY DEF RampInv
<1> QED BY <1>1, RampInvariance, PTL

\* Every run plays at the nearest percentage.
THEOREM PercentNearest == Spec => NearestPercent
<1>1. ASSUME RampInv, [Next]_vars, frames = 0, frames' > 0, NEW c \in Channels,
             control[c] # NaN, control[c] \in 0..1000
      PROVE  10 * percent'[c] - control[c] \in -4..5
  <2>1. PICK n \in 1..MaxFrames : StartRun(n)
    <3>1. ~UNCHANGED vars BY <1>1 DEF vars
    <3>2. Next BY <1>1, <3>1
    <3> QED BY <1>1, <3>2
            DEF Next, Run, Frame, Instantiate, Cleanup, Activate, Deactivate, SetVolume
  <2>2. PICK up \in [Channels -> BOOLEAN] :
          percent' = [d \in Channels |-> Retargeted(d, PercentOf(control[d]), up[d]).percent]
    BY <2>1 DEF StartRun
  <2>3. percent'[c] = Retargeted(c, PercentOf(control[c]), up[c]).percent
    BY <2>2
  <2>4. Retargeted(c, PercentOf(control[c]), up[c]).percent = PercentOf(control[c])
    BY DEF Retargeted
  <2> QED BY <2>3, <2>4, <1>1, PercentNear DEF RampInv, TypeOK
<1>2. RampInv /\ [Next]_vars
        => [frames = 0 /\ frames' > 0 =>
              \A c \in Channels : control[c] # NaN /\ control[c] \in 0..1000 =>
                10 * percent'[c] - control[c] \in -4..5]_vars
  BY <1>1
<1> QED BY <1>2, RampInvariance, PTL DEF Spec, NearestPercent
=============================================================================
