---------------------------- MODULE CheckProofs ----------------------------
(***************************************************************************)
(* That a check which passes has seen what failed, for every set of        *)
(* lengths, rates, gains and numbers of blocks (CheckPlugin).              *)
(*                                                                         *)
(* The program is a script of many hundred lines, so what holds between    *)
(* two lines depends on where in the script they are.  A note says it: the *)
(* phase of the DSP's instance, the latencies that no assertion has looked *)
(* at yet, the phase of the microphone, and how far its stream has come.   *)
(* The first part knows nothing of the plugins: Step says what a line      *)
(* makes of a note, and ScriptSteps that notes lead through the whole      *)
(* script, loops over quanta, pieces and blocks included.  The second part *)
(* is about the plugins: CheckInv says that what the note says is so, in   *)
(* the middle of a call too.  A filter that is lost turns up as a latency  *)
(* of zero behind the port the note names; the frame at which APM stopped  *)
(* can be read off the samples of the stream.                              *)
(***************************************************************************)
EXTENDS CheckPlugin, SequenceTheorems, WellFoundedInduction, TLAPS

\* The notes: what is known before a line of the script.
NoRun == [in |-> Nil, out |-> Nil, volume |-> Nil, done |-> 0]
D(dsp, cell, pending) ==
  [dsp |-> dsp, cell |-> cell, pending |-> pending, mic |-> "off", ref |-> 0, run |-> NoRun]
M(mic, ref, run) ==
  [dsp |-> "out", cell |-> Nil, pending |-> {}, mic |-> mic, ref |-> ref, run |-> run]

Calm == {"descriptors", "assert_dsp_output", "volumes", "speaker_instantiate",
         "speaker_activate", "speaker_run", "speaker_deactivate", "speaker_cleanup",
         "assert_heard", "assert_muted", "mic_rate"}

DspStep(q, l, r) ==
  \/ l.do = "latencies" /\ q.dsp = "out" /\ q.pending = {} /\ r = q
  \/ l.do = "dsp_instantiate" /\ q.dsp = "out" /\ q.pending = {} /\ r = D("new", Nil, {})
  \/ l.do = "dsp_handle" /\ q.dsp = "new" /\ r = D("out", Nil, {})
  \/ /\ l.do = "dsp_connect" /\ l.cell \in Cells \ q.pending
     /\ \/ q.dsp = "out" /\ r = D("wired", l.cell, q.pending)
        \/ q.dsp = "stream" /\ q.cell = l.cell /\ r = q
  \/ l.do = "dsp_activate" /\ q.dsp = "wired" /\ r = D("stream", q.cell, q.pending)
  \/ l.do = "dsp_run" /\ q.dsp = "stream" /\ (r = q \/ r = D("ran", q.cell, q.pending))
  \/ /\ l.do = "dsp_deactivate" /\ q.dsp = "ran"
     /\ r = D("out", Nil, q.pending \cup {q.cell})
  \/ l.do = "dsp_cleanup" /\ q.dsp = "out" /\ r = q
  \/ /\ l.do = "assert_latency" /\ q.dsp = "out"
     /\ r = D("out", Nil, q.pending \ {l.cell})

\* The piece of a stream that line l runs, after which the note is r.
RunStep(q, l, r) ==
  /\ l.from \in Nat /\ l.n \in Nat /\ l.from + l.n <= FRAMES
  /\ \/ q.mic = "ready" /\ l.wiring = MicWiring("input", "output") /\ r = q
     \/ q.mic = "done" /\ r = q
     \/ \E i, o \in Arrays :
          /\ l.wiring = MicWiring(i, o)
          /\ r = M("stream", q.ref, [in |-> i, out |-> o, volume |-> l.volume,
                                       done |-> l.from + l.n])
          /\ \/ q.mic = "open" /\ i = "input" /\ l.from = 0
                /\ (o = "output" \/ (o = "reference" /\ q.ref = 0))
             \/ q.mic = "copied" /\ i = "output" /\ o = "output" /\ l.from = 0
             \/ /\ q.mic = "stream" /\ i = q.run.in /\ o = q.run.out
                /\ l.volume = q.run.volume /\ l.from = q.run.done

MicStep(q, l, r) ==
  \/ l.do = "calloc" /\ q.mic = "off" /\ r = q
  \/ l.do = "fill" /\ q.mic = "off" /\ (r = q \/ r = M("ready", 0, NoRun))
  \/ /\ l.do \in {"mic_instantiate", "mic_deactivate", "mic_cleanup"}
     /\ q.mic \in {"ready", "done"} /\ r = q
  \/ l.do = "mic_cleanup" /\ q.mic = "ready" /\ q.ref = 1 /\ r = M("done", 1, NoRun)
  \/ /\ l.do = "mic_activate"
     /\ \/ q.mic = "ready" /\ r = M("open", q.ref, NoRun)
        \/ q.mic = "done" /\ r = q
  \/ l.do = "memcpy" /\ q.mic = "open" /\ r = M("copied", q.ref, NoRun)
  \/ l.do = "mic_run" /\ RunStep(q, l, r)
  \/ /\ l.do = "assert_reference" /\ q.mic = "stream" /\ q.ref = 0
     /\ q.run.out = "reference" /\ q.run.done = FRAMES /\ q.run.volume = Controls(100, 100)
     /\ r = M("ready", 1, NoRun)
  \/ /\ l.do = "assert_mic" /\ q.mic = "stream" /\ q.ref = 1
     /\ q.run.out = "output" /\ q.run.done = FRAMES
     /\ \A c \in Channels : /\ l.volume[c] \in 1..100
                            /\ Mic!PercentOf(q.run.volume[c]) = l.volume[c]
     /\ r = M("ready", 1, NoRun)

Step(q, l, r) ==
  \/ l.do \in Calm /\ r = q
  \/ q.mic = "off" /\ DspStep(q, l, r)
  \/ q.dsp = "out" /\ q.pending = {} /\ MicStep(q, l, r)

\* From note q the lines s lead to note r.
Runs(q, s, r) ==
  /\ \E S : s \in Seq(S)
  /\ \E f : /\ f[0] = q /\ f[Len(s)] = r
            /\ \A k \in 1..Len(s) : Step(f[k - 1], s[k], f[k])

\* A set of numbers has a least one: the loops of the script are taken by it.
LEMMA NatLeast ==
  ASSUME NEW T, T \subseteq Nat, T # {}
  PROVE  \E x \in T : \A y \in T : x <= y
<1>1. PICK x \in T : \A y \in T : ~ (<<y, x>> \in OpToRel(<, Nat))
  BY Zenon, NatLessThanWellFounded, WFMin
<1>2. ASSUME NEW y \in T PROVE ~(y < x)
  <2>1. <<y, x>> \notin OpToRel(<, Nat) BY <1>1
  <2>2. y \in Nat /\ x \in Nat OBVIOUS
  <2> QED BY Zenon, <2>1, <2>2 DEF OpToRel
<1>3. \A y \in T : x <= y BY <1>2
<1> QED BY <1>3

\* Lines one after the other.
LEMMA RunsOne ==
  ASSUME NEW q, NEW l, NEW r, Step(q, l, r)
  PROVE  Runs(q, <<l>>, r)
<1>1. <<l>> \in Seq({l}) /\ Len(<<l>>) = 1 /\ <<l>>[1] = l
  OBVIOUS
<1> DEFINE f == [k \in 0..1 |-> IF k = 0 THEN q ELSE r]
<1>2. f[0] = q /\ f[1] = r OBVIOUS
<1> HIDE DEF f
<1>3. \A k \in 1..Len(<<l>>) : Step(f[k - 1], <<l>>[k], f[k])
  <2> SUFFICES ASSUME NEW k \in 1..1 PROVE Step(f[k - 1], <<l>>[k], f[k])
    BY <1>1
  <2>1. k = 1 /\ k - 1 = 0 OBVIOUS
  <2> QED BY <2>1, <1>1, <1>2
<1> QED BY <1>1, <1>2, <1>3 DEF Runs

LEMMA RunsConcat ==
  ASSUME NEW q, NEW s, NEW r, NEW t, NEW u, Runs(q, s, r), Runs(r, t, u)
  PROVE  Runs(q, s \o t, u)
<1>1. PICK S : s \in Seq(S) BY DEF Runs
<1>2. PICK T : t \in Seq(T) BY DEF Runs
<1>3. s \in Seq(S \cup T) /\ t \in Seq(S \cup T)
  BY <1>1, <1>2
<1>4. /\ s \o t \in Seq(S \cup T) /\ Len(s \o t) = Len(s) + Len(t)
      /\ \A i \in 1..(Len(s) + Len(t)) : (s \o t)[i] = IF i <= Len(s) THEN s[i] ELSE t[i - Len(s)]
  BY <1>3, ConcatProperties
<1>5. PICK f : /\ f[0] = q /\ f[Len(s)] = r
               /\ \A k \in 1..Len(s) : Step(f[k - 1], s[k], f[k])
  BY DEF Runs
<1>6. PICK g : /\ g[0] = r /\ g[Len(t)] = u
               /\ \A k \in 1..Len(t) : Step(g[k - 1], t[k], g[k])
  BY DEF Runs
<1> DEFINE m == Len(s)
           n == Len(t)
           h == [k \in 0..(m + n) |-> IF k <= m THEN f[k] ELSE g[k - m]]
<1>7. m \in Nat /\ n \in Nat BY <1>3, LenProperties
<1>70. \A i \in 1..(m + n) : (s \o t)[i] = IF i <= m THEN s[i] ELSE t[i - m]
  BY <1>4
<1> HIDE DEF m, n
<1>8. h[0] = q BY <1>5, <1>7
<1>9. h[m + n] = u
  <2>1. CASE n = 0 BY <2>1, <1>5, <1>6, <1>7 DEF m, n
  <2>2. CASE n # 0
    <3>1. m + n \in 0..(m + n) /\ ~(m + n <= m) /\ m + n - m = n BY <2>2, <1>7
    <3>2. h[m + n] = g[n] BY <3>1, <1>7
    <3> QED BY <3>2, <1>6 DEF n
  <2> QED BY <2>1, <2>2
<1>10. ASSUME NEW k \in 1..(m + n)
       PROVE  Step(h[k - 1], (s \o t)[k], h[k])
  <2>0. k \in Int /\ k \in 0..(m + n) /\ k - 1 \in 0..(m + n) BY <1>7
  <2>1. CASE k <= m
    <3>1. h[k] = f[k] /\ h[k - 1] = f[k - 1] /\ k \in 1..m BY <2>0, <2>1, <1>7
    <3>2. (s \o t)[k] = s[k] BY <2>1, <1>70
    <3> QED BY <3>1, <3>2, <1>5 DEF m
  <2>2. CASE k > m
    <3>1. h[k] = g[k - m] /\ k - m \in 1..n BY <2>0, <2>2, <1>7
    <3>2. h[k - 1] = g[(k - m) - 1]
      <4>1. CASE k - 1 = m
        <5>1. h[k - 1] = f[m] /\ (k - m) - 1 = 0 BY <4>1, <2>0, <1>7
        <5> QED BY <5>1, <1>5, <1>6 DEF m
      <4>2. CASE k - 1 # m
        <5>1. ~(k - 1 <= m) /\ k - 1 - m = (k - m) - 1 BY <4>2, <2>0, <2>2, <1>7
        <5> QED BY <5>1, <2>0
      <4> QED BY <4>1, <4>2
    <3>3. (s \o t)[k] = t[k - m]
      <4>1. ~(k <= m) BY <2>0, <2>2, <1>7
      <4> QED BY <4>1, <1>70
    <3> HIDE DEF h
    <3> QED BY <3>1, <3>2, <3>3, <1>6 DEF n
  <2> HIDE DEF h
  <2>3. k <= m \/ k > m BY <2>0, <1>7
  <2> QED BY <2>1, <2>2, <2>3
<1> HIDE DEF h
<1> QED BY <1>4, <1>8, <1>9, <1>10 DEF Runs, m, n

\* FlattenSeq as a recursion that has a value.
LEMMA FlattenStep ==
  ASSUME NEW S, NEW T \in Seq(Seq(S)), Len(T) # 0
  PROVE  \E f : /\ f[1] = T[1] /\ FlattenSeq(T) = f[Len(T)]
                /\ \A i \in 2..Len(T) : f[i] = f[i - 1] \o T[i]
<1> DEFINE n == Len(T)
           Def(f, m) == f = [i \in 1..m |-> IF i = 1 THEN T[i] ELSE f[i - 1] \o T[i]]
           Bad == {m \in 1..n : ~\E f : Def(f, m)}
<1>1. n \in Nat /\ n >= 1 BY LenProperties
<1> HIDE DEF n
<1>2. Bad = {}
  <2> SUFFICES ASSUME Bad # {} PROVE FALSE
    OBVIOUS
  <2>1. Bad \subseteq Nat
    <3> HIDE DEF Def
    <3> QED BY <1>1
  <2>2. PICK m \in Bad : \A y \in Bad : m <= y
    <3> HIDE DEF Bad
    <3> QED BY <2>1, NatLeast
  <2>3. m \in 1..n /\ ~\E f : Def(f, m) OBVIOUS
  <2>4. CASE m = 1
    <3> DEFINE f == [i \in 1..m |-> T[i]]
    <3>1. Def(f, m) BY <2>4
    <3> QED BY <3>1, <2>3
  <2>5. CASE m # 1
    <3>1. m - 1 \in 1..n /\ ~(m <= m - 1) /\ m \in Nat BY <2>3, <2>5, <1>1
    <3>2. m - 1 \notin Bad BY <3>1, <2>2
    <3>3. PICK f : Def(f, m - 1) BY <3>1, <3>2
    <3> DEFINE g == [i \in 1..m |-> IF i = m THEN f[m - 1] \o T[m] ELSE f[i]]
    <3>4. ASSUME NEW i \in 1..m PROVE g[i] = IF i = 1 THEN T[i] ELSE g[i - 1] \o T[i]
      <4>0. i \in Int OBVIOUS
      <4>1. CASE i = m
        <5>0. m \in 1..m /\ m - 1 \in 1..m /\ m - 1 # m BY <2>3, <2>5, <1>1
        <5>1. g[m] = f[m - 1] \o T[m] /\ g[m - 1] = f[m - 1] BY <5>0
        <5> HIDE DEF g
        <5> QED BY <5>1, <4>1, <2>5
      <4>2. CASE i # m
        <5>1. i \in 1..(m - 1) BY <4>2, <3>1
        <5>2. g[i] = f[i] BY <4>2
        <5>3. f[i] = IF i = 1 THEN T[i] ELSE f[i - 1] \o T[i] BY <5>1, <3>3
        <5>4. i # 1 => g[i - 1] = f[i - 1]
          <6>1. i # 1 => i - 1 \in 1..m /\ i - 1 # m BY <5>1, <3>1
          <6> QED BY <6>1
        <5> HIDE DEF g
        <5> QED BY <5>2, <5>3, <5>4
      <4> QED BY <4>1, <4>2
    <3>5. Def(g, m)
      <4>1. g = [i \in 1..m |-> g[i]] OBVIOUS
      <4> HIDE DEF g
      <4> QED BY <3>4, <4>1
    <3> QED BY <3>5, <2>3
  <2> QED BY <2>4, <2>5
<1>3. PICK h : Def(h, n)
  <2>1. n \in 1..n BY <1>1
  <2> QED BY <1>2, <2>1
<1> DEFINE f == CHOOSE f : Def(f, n)
<1>4. Def(f, n) BY <1>3
<1>5. FlattenSeq(T) = f[n] BY DEF FlattenSeq, n
<1> HIDE DEF f
<1>6. f[1] = T[1] BY <1>1, <1>4
<1>7. ASSUME NEW i \in 2..n PROVE f[i] = f[i - 1] \o T[i]
  <2>1. i \in 1..n /\ i # 1 BY <1>1
  <2> QED BY <2>1, <1>4
<1> QED BY <1>5, <1>6, <1>7 DEF n

\* A loop every turn of which leads back to the same note.
LEMMA RunsLoop ==
  ASSUME NEW q, NEW n \in Nat, NEW T, T = [i \in 1..n |-> T[i]],
         \A i \in 1..n : Runs(q, T[i], q)
  PROVE  Runs(q, FlattenSeq(T), q)
<1> DEFINE S == UNION {{T[i][j] : j \in 1..Len(T[i])} : i \in 1..n}
<1>1. ASSUME NEW i \in 1..n PROVE T[i] \in Seq(S)
  <2>1. PICK R : T[i] \in Seq(R) BY DEF Runs
  <2>2. Len(T[i]) \in Nat /\ T[i] \in [1..Len(T[i]) -> R] BY <2>1, LenProperties
  <2>3. \A j \in 1..Len(T[i]) : T[i][j] \in S OBVIOUS
  <2> HIDE DEF S
  <2>4. T[i] \in [1..Len(T[i]) -> S] BY <2>2, <2>3
  <2> QED BY <2>2, <2>4
<1> HIDE DEF S
<1>2. T \in Seq(Seq(S)) /\ Len(T) = n
  <2>1. T \in [1..n -> Seq(S)] BY <1>1
  <2> QED BY <2>1, LenProperties
<1>3. CASE n = 0
  <2>1. FlattenSeq(T) = T BY <1>2, <1>3 DEF FlattenSeq
  <2> DEFINE f == [k \in {0} |-> q]
  <2>2. f[0] = q /\ f[Len(T)] = q /\ \A k \in 1..Len(T) : Step(f[k - 1], T[k], f[k])
    BY <1>2, <1>3
  <2> QED BY <2>1, <2>2, <1>2 DEF Runs
<1>4. CASE n # 0
  <2>1. PICK f : /\ f[1] = T[1] /\ FlattenSeq(T) = f[n]
                 /\ \A i \in 2..n : f[i] = f[i - 1] \o T[i]
    BY <1>2, <1>4, FlattenStep
  <2> DEFINE Bad == {i \in 1..n : ~Runs(q, f[i], q)}
  <2>2. Bad = {}
    <3> SUFFICES ASSUME Bad # {} PROVE FALSE
      OBVIOUS
    <3>1. Bad \subseteq Nat OBVIOUS
    <3>2. PICK m \in Bad : \A y \in Bad : m <= y
      <4> HIDE DEF Bad
      <4> QED BY <3>1, NatLeast
    <3>3. m \in 1..n /\ ~Runs(q, f[m], q) OBVIOUS
    <3>4. CASE m = 1 BY <3>3, <3>4, <2>1
    <3>5. CASE m # 1
      <4>1. m - 1 \in 1..n /\ ~(m <= m - 1) /\ m \in 2..n BY <3>3, <3>5
      <4>2. Runs(q, f[m - 1], q) BY <4>1, <3>2
      <4>3. Runs(q, T[m], q) BY <3>3
      <4>4. f[m] = f[m - 1] \o T[m] BY <4>1, <2>1
      <4> QED BY <4>2, <4>3, <4>4, <3>3, RunsConcat
    <3> QED BY <3>4, <3>5
  <2>3. n \in 1..n BY <1>4
  <2> QED BY <2>1, <2>2, <2>3
<1> QED BY <1>3, <1>4

-----------------------------------------------------------------------------
LEMMA RunsDo ==
  ASSUME NEW q, NEW what, NEW r, Step(q, [do |-> what], r)
  PROVE  Runs(q, Do(what), r)
BY RunsOne DEF Do

\* The pieces of a quantum follow each other from frame 0 to the last.
LEMMA PiecesFacts ==
  ASSUME NEW quantum \in Nat \ {0}
  PROVE  \E N \in Nat \ {0} :
           /\ Pieces(quantum) = [i \in 1..N |-> Pieces(quantum)[i]]
           /\ \A i \in 1..N : /\ Pieces(quantum)[i].from \in Nat /\ Pieces(quantum)[i].n \in Nat
                              /\ Pieces(quantum)[i].from + Pieces(quantum)[i].n <= FRAMES
           /\ Pieces(quantum)[1].from = 0
           /\ \A i \in 1..(N - 1) :
                Pieces(quantum)[i + 1].from = Pieces(quantum)[i].from + Pieces(quantum)[i].n
           /\ Pieces(quantum)[N].from + Pieces(quantum)[N].n = FRAMES
<1> DEFINE P == Pieces(quantum)
           N == (FRAMES + quantum - 1) \div quantum
<1>0. FRAMES \in Nat \ {0} BY CheckAssumption DEF FRAMES
<1>1. N \in Nat /\ N * quantum <= FRAMES + quantum - 1 /\ FRAMES + quantum - 1 < N * quantum + quantum
  BY <1>0
<1> HIDE DEF N
<1>2. N # 0
  BY <1>0, <1>1
<1>3. ASSUME NEW i \in 1..N
      PROVE  /\ (i - 1) * quantum \in Nat /\ (i - 1) * quantum < FRAMES
             /\ i < N => i * quantum < FRAMES
             /\ i = N => i * quantum >= FRAMES
             /\ i * quantum = (i - 1) * quantum + quantum
  <2>1. i * quantum = (i - 1) * quantum + quantum /\ i \in Nat OBVIOUS
  <2>2. (i - 1) * quantum \in Nat OBVIOUS
  <2>3. i * quantum <= N * quantum
    <3>1. N - i \in Nat BY <1>1
    <3>2. (N - i) * quantum \in Nat BY <3>1
    <3>3. N * quantum = i * quantum + (N - i) * quantum BY <1>1
    <3>4. i * quantum \in Nat /\ N * quantum \in Nat BY <1>1
    <3> QED BY <3>2, <3>3, <3>4
  <2>4. i < N => (i + 1) * quantum <= N * quantum BY <1>1
  <2>5. (i + 1) * quantum = i * quantum + quantum OBVIOUS
  <2> QED BY <1>0, <1>1, <2>1, <2>2, <2>3, <2>4, <2>5
<1>4. P = [i \in 1..N |-> [from |-> (i - 1) * quantum,
             n |-> IF FRAMES - (i - 1) * quantum > quantum THEN quantum
                   ELSE FRAMES - (i - 1) * quantum]]
  BY DEF Pieces, N
<1> HIDE DEF P
<1>5. ASSUME NEW i \in 1..N
      PROVE  /\ P[i].from \in Nat /\ P[i].n \in Nat /\ P[i].from + P[i].n <= FRAMES
             /\ P[i].from = (i - 1) * quantum
             /\ i < N => P[i].from + P[i].n = i * quantum
             /\ i = N => P[i].from + P[i].n = FRAMES
  <2> DEFINE a == (i - 1) * quantum
  <2>1. /\ a \in Nat /\ a < FRAMES /\ (i < N => a + quantum < FRAMES)
        /\ (i = N => a + quantum >= FRAMES) /\ i * quantum = a + quantum
    BY <1>3
  <2>2. /\ P[i].from = a
        /\ P[i].n = IF FRAMES - a > quantum THEN quantum ELSE FRAMES - a
    BY <1>4
  <2> HIDE DEF a
  <2>3. i \in Int /\ (i < N \/ i = N) BY <1>1
  <2>4. i * quantum = a + quantum BY <2>1
  <2>5. /\ P[i].from \in Nat /\ P[i].n \in Nat /\ P[i].from + P[i].n <= FRAMES
        /\ i < N => P[i].from + P[i].n = a + quantum
        /\ i = N => P[i].from + P[i].n = FRAMES
    BY <1>0, <2>1, <2>2, <2>3
  <2> QED BY <2>2, <2>4, <2>5 DEF a
<1>6. P = [i \in 1..N |-> P[i]] BY <1>4
<1>7. P[1].from = 0
  BY <1>1, <1>2, <1>5
<1>8. ASSUME NEW i \in 1..(N - 1) PROVE P[i + 1].from = P[i].from + P[i].n
  BY <1>1, <1>5
<1>9. P[N].from + P[N].n = FRAMES BY <1>1, <1>2, <1>5
<1> QED BY <1>1, <1>2, <1>5, <1>6, <1>7, <1>8, <1>9 DEF P

-----------------------------------------------------------------------------
\* The lines of the DSP.
LEMMA ConnectSteps ==
  ASSUME NEW pending \in SUBSET Cells, NEW c \in Cells \ pending, NEW i, NEW o
  PROVE  /\ Runs(D("out", Nil, pending), ConnectDsp(i, o, c), D("wired", c, pending))
         /\ Runs(D("stream", c, pending), ConnectDsp(i, o, c), D("stream", c, pending))
<1> DEFINE l == [do |-> "dsp_connect", in |-> i, out |-> o, cell |-> c]
<1>1. Step(D("out", Nil, pending), l, D("wired", c, pending))
  BY DEF Step, DspStep, D
<1>2. Step(D("stream", c, pending), l, D("stream", c, pending))
  BY DEF Step, DspStep, D
<1> QED BY <1>1, <1>2, RunsOne DEF ConnectDsp

\* run_dsp: pieces, each with the ports connected anew, and a run of no frames.
LEMMA RunDspSteps ==
  ASSUME NEW pending \in SUBSET Cells, NEW c \in Cells \ pending, NEW i, NEW o,
         NEW quantum \in Nat \ {0}
  PROVE  Runs(D("stream", c, pending), RunDsp(i, o, c, quantum), D("ran", c, pending))
<1> DEFINE q == D("stream", c, pending)
           P == Pieces(quantum)
           T == [k \in DOMAIN P |->
                   ConnectDsp(i, o, c) \o <<[do |-> "dsp_run", from |-> P[k].from, n |-> P[k].n]>>]
<1>1. ASSUME NEW from, NEW n
      PROVE  /\ Runs(q, <<[do |-> "dsp_run", from |-> from, n |-> n]>>, q)
             /\ Runs(q, <<[do |-> "dsp_run", from |-> from, n |-> n]>>, D("ran", c, pending))
  <2>1. Step(q, [do |-> "dsp_run", from |-> from, n |-> n], q)
    BY DEF Step, DspStep, D
  <2>2. Step(q, [do |-> "dsp_run", from |-> from, n |-> n], D("ran", c, pending))
    BY DEF Step, DspStep, D
  <2> QED BY <2>1, <2>2, RunsOne
<1>2. PICK N \in Nat : DOMAIN P = 1..N
  <2>1. PICK N \in Nat \ {0} : P = [k \in 1..N |-> P[k]] BY PiecesFacts
  <2> HIDE DEF P
  <2>2. DOMAIN P = 1..N BY <2>1
  <2> QED BY <2>2
<1>3. Runs(q, ConnectDsp(i, o, c), q) BY ConnectSteps
<1> HIDE DEF P, q
<1>4. T = [k \in 1..N |-> T[k]] BY <1>2
<1>5. ASSUME NEW k \in 1..N PROVE Runs(q, T[k], q)
  <2>1. T[k] = ConnectDsp(i, o, c) \o <<[do |-> "dsp_run", from |-> P[k].from, n |-> P[k].n]>>
    BY <1>2
  <2> QED BY <2>1, <1>1, <1>3, RunsConcat
<1> HIDE DEF T
<1>6. Runs(q, FlattenSeq(T), q) BY <1>4, <1>5, RunsLoop
<1>7. RunDsp(i, o, c, quantum) = FlattenSeq(T) \o <<[do |-> "dsp_run", from |-> 0, n |-> 0]>>
  BY DEF RunDsp, T, P
<1> QED BY <1>1, <1>6, <1>7, RunsConcat DEF q

\* A stream of the DSP leaves the latency in its cell to be asserted.
LEMMA DspStreamSteps ==
  ASSUME NEW pending \in SUBSET Cells, NEW c \in Cells \ pending, NEW i, NEW o,
         NEW quantum \in Nat \ {0}
  PROVE  Runs(D("out", Nil, pending), DspStream(i, o, c, quantum),
              D("out", Nil, pending \cup {c}))
<1>1. Runs(D("out", Nil, pending), ConnectDsp(i, o, c), D("wired", c, pending))
  BY ConnectSteps
<1>2. Runs(D("wired", c, pending), Do("dsp_activate"), D("stream", c, pending))
  <2>1. Step(D("wired", c, pending), [do |-> "dsp_activate"], D("stream", c, pending))
    BY DEF Step, DspStep, D
  <2> QED BY <2>1, RunsDo
<1>3. Runs(D("stream", c, pending), RunDsp(i, o, c, quantum), D("ran", c, pending))
  BY RunDspSteps
<1>4. Runs(D("ran", c, pending), Do("dsp_deactivate"), D("out", Nil, pending \cup {c}))
  <2>1. Step(D("ran", c, pending), [do |-> "dsp_deactivate"], D("out", Nil, pending \cup {c}))
    BY DEF Step, DspStep, D
  <2> QED BY <2>1, RunsDo
<1>5. Runs(D("out", Nil, pending), ConnectDsp(i, o, c) \o Do("dsp_activate"), D("stream", c, pending))
  BY <1>1, <1>2, RunsConcat
<1>6. Runs(D("out", Nil, pending),
           ConnectDsp(i, o, c) \o Do("dsp_activate") \o RunDsp(i, o, c, quantum),
           D("ran", c, pending))
  BY <1>3, <1>5, RunsConcat
<1> QED BY <1>4, <1>6, RunsConcat DEF DspStream

\* Between the tests of the DSP nothing is pending.
DspDone == D("out", Nil, {})

\* The calls around the streams.
LEMMA NewDspSteps ==
  /\ Runs(DspDone, Do("latencies") \o Do("dsp_instantiate") \o Do("dsp_handle"), DspDone)
  /\ \A pending \in SUBSET Cells :
       Runs(D("out", Nil, pending), Do("dsp_cleanup"), D("out", Nil, pending))
  /\ \A pending \in SUBSET Cells, c \in Cells :
       Runs(D("out", Nil, pending), AssertLatency(c), D("out", Nil, pending \ {c}))
  /\ \A what : what \in Calm => \A q : Runs(q, Do(what), q)
  /\ \A a, r, q : Runs(q, AssertDspOutput(a, r), q)
<1>1. Step(DspDone, [do |-> "latencies"], DspDone)
  BY DEF Step, DspStep, D, DspDone
<1>2. Step(DspDone, [do |-> "dsp_instantiate"], D("new", Nil, {}))
  BY DEF Step, DspStep, D, DspDone
<1>3. Step(D("new", Nil, {}), [do |-> "dsp_handle"], DspDone)
  BY DEF Step, DspStep, D, DspDone
<1>4. Runs(DspDone, Do("latencies") \o Do("dsp_instantiate"), D("new", Nil, {}))
  BY <1>1, <1>2, RunsDo, RunsConcat
<1>5. Runs(DspDone, Do("latencies") \o Do("dsp_instantiate") \o Do("dsp_handle"), DspDone)
  BY <1>3, <1>4, RunsDo, RunsConcat
<1>6. ASSUME NEW pending \in SUBSET Cells
      PROVE  Runs(D("out", Nil, pending), Do("dsp_cleanup"), D("out", Nil, pending))
  <2>1. Step(D("out", Nil, pending), [do |-> "dsp_cleanup"], D("out", Nil, pending))
    BY DEF Step, DspStep, D
  <2> QED BY <2>1, RunsDo
<1>7. ASSUME NEW pending \in SUBSET Cells, NEW c \in Cells
      PROVE  Runs(D("out", Nil, pending), AssertLatency(c), D("out", Nil, pending \ {c}))
  <2>1. Step(D("out", Nil, pending), [do |-> "assert_latency", cell |-> c], D("out", Nil, pending \ {c}))
    BY DEF Step, DspStep, D
  <2> QED BY <2>1, RunsOne DEF AssertLatency
<1>8. ASSUME NEW what, what \in Calm, NEW q PROVE Runs(q, Do(what), q)
  <2>1. Step(q, [do |-> what], q) BY <1>8 DEF Step
  <2> QED BY <2>1, RunsDo
<1>9. ASSUME NEW a, NEW r, NEW q PROVE Runs(q, AssertDspOutput(a, r), q)
  <2>1. Step(q, [do |-> "assert_dsp_output", actual |-> a, reference |-> r], q)
    BY DEF Step, Calm
  <2> QED BY <2>1, RunsOne DEF AssertDspOutput
<1> QED BY <1>5, <1>6, <1>7, <1>8, <1>9

\* process_dsp asserts the one latency it leaves.
LEMMA ProcessDspSteps ==
  ASSUME NEW i, NEW o, NEW quantum \in Nat \ {0}
  PROVE  Runs(DspDone, ProcessDsp(i, o, quantum), DspDone)
<1> DEFINE c == "latency"
           late == D("out", Nil, {c})
<1>0. c \in Cells /\ {} \in SUBSET Cells /\ {c} \in SUBSET Cells BY DEF Cells
<1>1. Runs(DspDone, DspStream(i, o, c, quantum), late)
  BY <1>0, DspStreamSteps DEF DspDone
<1>2. Runs(late, Do("dsp_cleanup"), late) BY <1>0, NewDspSteps
<1>3. Runs(late, AssertLatency(c), DspDone)
  <2>1. {c} \ {c} = {} OBVIOUS
  <2> QED BY <1>0, <2>1, NewDspSteps DEF DspDone
<1> HIDE DEF c, late
<1>4. Runs(DspDone, Do("latencies") \o Do("dsp_instantiate") \o Do("dsp_handle")
                      \o DspStream(i, o, c, quantum), late)
  BY <1>1, NewDspSteps, RunsConcat
<1>5. Runs(DspDone, Do("latencies") \o Do("dsp_instantiate") \o Do("dsp_handle")
                      \o DspStream(i, o, c, quantum) \o Do("dsp_cleanup"), late)
  BY <1>2, <1>4, RunsConcat
<1> QED BY <1>3, <1>5, RunsConcat DEF ProcessDsp, c

\* test_dsp_lifecycle asserts both of its latencies.
LEMMA LifecycleSteps == Runs(DspDone, TestDspLifecycle, DspDone)
<1> DEFINE one == "first_latency"
           two == "second_latency"
           A == DspStream("input", "reference", one, Scale(256))
           B == DspStream("input", "output", two, Scale(256))
           start == Do("latencies") \o Do("dsp_instantiate") \o Do("dsp_handle")
<1>0. /\ one \in Cells /\ two \in Cells /\ one # two /\ {one} \in SUBSET Cells
      /\ {one, two} \in SUBSET Cells /\ {two} \in SUBSET Cells /\ {} \in SUBSET Cells
      /\ two \in Cells \ {one} /\ {one, two} \ {one} = {two} /\ {two} \ {two} = {}
      /\ {} \cup {one} = {one} /\ {one} \cup {two} = {one, two} /\ one \in Cells \ {}
  BY DEF Cells
<1>q. Scale(256) \in Nat \ {0} BY CheckAssumption
<1> HIDE DEF one, two
<1>1. Runs(DspDone, A, D("out", Nil, {one}))
  <2>1. Runs(D("out", Nil, {}), A, D("out", Nil, {} \cup {one}))
    BY <1>0, <1>q, DspStreamSteps
  <2> QED BY <2>1, <1>0 DEF DspDone
<1>2. Runs(D("out", Nil, {one}), B, D("out", Nil, {one, two}))
  <2>1. Runs(D("out", Nil, {one}), B, D("out", Nil, {one} \cup {two}))
    BY <1>0, <1>q, DspStreamSteps
  <2> QED BY <2>1, <1>0
<1>3. Runs(D("out", Nil, {one, two}), Do("dsp_cleanup"), D("out", Nil, {one, two}))
  BY <1>0, NewDspSteps
<1>4. Runs(D("out", Nil, {one, two}), AssertLatency(one), D("out", Nil, {two}))
  <2>1. Runs(D("out", Nil, {one, two}), AssertLatency(one), D("out", Nil, {one, two} \ {one}))
    BY <1>0, NewDspSteps
  <2> QED BY <2>1, <1>0
<1>5. Runs(D("out", Nil, {two}), AssertLatency(two), DspDone)
  <2>1. Runs(D("out", Nil, {two}), AssertLatency(two), D("out", Nil, {two} \ {two}))
    BY <1>0, NewDspSteps
  <2> QED BY <2>1, <1>0 DEF DspDone
<1>6. Runs(DspDone, AssertDspOutput("output", "reference"), DspDone) BY NewDspSteps
<1>7. Runs(DspDone, start, DspDone) BY NewDspSteps
<1>8. TestDspLifecycle = start \o A \o B \o Do("dsp_cleanup") \o AssertLatency(one)
                           \o AssertLatency(two) \o AssertDspOutput("output", "reference")
  BY DEF TestDspLifecycle, one, two
<1> HIDE DEF A, B, start
<1>9. Runs(DspDone, start \o A \o B, D("out", Nil, {one, two}))
  <2>1. Runs(DspDone, start \o A, D("out", Nil, {one})) BY <1>1, <1>7, RunsConcat
  <2> QED BY <2>1, <1>2, RunsConcat
<1>10. Runs(DspDone, start \o A \o B \o Do("dsp_cleanup") \o AssertLatency(one), D("out", Nil, {two}))
  <2>1. Runs(DspDone, start \o A \o B \o Do("dsp_cleanup"), D("out", Nil, {one, two}))
    BY <1>3, <1>9, RunsConcat
  <2> QED BY <2>1, <1>4, RunsConcat
<1>11. Runs(DspDone, start \o A \o B \o Do("dsp_cleanup") \o AssertLatency(one)
                       \o AssertLatency(two), DspDone)
  BY <1>5, <1>10, RunsConcat
<1> QED BY <1>6, <1>8, <1>11, RunsConcat

LEMMA TestDspSteps == Runs(DspDone, TestDsp, DspDone)
<1> DEFINE quanta == <<1, 31, 256, 2048, 2049, 8192, 16385>>
           T == [q \in 1..7 |-> ProcessDsp("input", "output", Scale(<<1, 31, 256, 2048, 2049, 8192, 16385>>[q]))
                                  \o AssertDspOutput("output", "reference")]
           A == ProcessDsp("input", "reference", Scale(256))
           B == ProcessDsp("input", "input", Scale(8192))
<1>1. Runs(DspDone, Do("fill"), DspDone)
  <2>1. Step(DspDone, [do |-> "fill"], DspDone) BY DEF Step, MicStep, DspDone, D
  <2> QED BY <2>1, RunsDo
<1>2. Runs(DspDone, A, DspDone) /\ Runs(DspDone, B, DspDone)
  <2>1. Scale(256) \in Nat \ {0} /\ Scale(8192) \in Nat \ {0} BY CheckAssumption
  <2> QED BY <2>1, ProcessDspSteps
<1>3. Runs(DspDone, AssertDspOutput("output", "reference"), DspDone)
      /\ Runs(DspDone, AssertDspOutput("input", "reference"), DspDone)
  BY NewDspSteps
<1>4. ASSUME NEW q \in 1..7 PROVE Runs(DspDone, T[q], DspDone)
  <2>1. quanta[q] \in {1, 31, 256, 2048, 2049, 8192, 16385}
    BY q \in {1, 2, 3, 4, 5, 6, 7}
  <2>2. Scale(quanta[q]) \in Nat \ {0} BY <2>1, CheckAssumption
  <2>3. T[q] = ProcessDsp("input", "output", Scale(quanta[q])) \o AssertDspOutput("output", "reference")
    OBVIOUS
  <2> HIDE DEF quanta, T
  <2>4. Runs(DspDone, ProcessDsp("input", "output", Scale(quanta[q])), DspDone)
    BY <2>2, ProcessDspSteps
  <2> QED BY <2>3, <2>4, <1>3, RunsConcat
<1>5. TestDsp = Do("fill") \o A \o FlattenSeq(T) \o TestDspLifecycle \o B
                  \o AssertDspOutput("input", "reference")
  BY DEF TestDsp
<1>t. T = [q \in 1..7 |-> T[q]] OBVIOUS
<1> HIDE DEF A, B, T
<1>6. Runs(DspDone, FlattenSeq(T), DspDone)
  BY <1>4, <1>t, RunsLoop
<1>7. Runs(DspDone, Do("fill") \o A, DspDone) BY <1>1, <1>2, RunsConcat
<1>8. Runs(DspDone, Do("fill") \o A \o FlattenSeq(T), DspDone) BY <1>6, <1>7, RunsConcat
<1>9. Runs(DspDone, Do("fill") \o A \o FlattenSeq(T) \o TestDspLifecycle, DspDone)
  BY <1>8, LifecycleSteps, RunsConcat
<1>10. Runs(DspDone, Do("fill") \o A \o FlattenSeq(T) \o TestDspLifecycle \o B, DspDone)
  BY <1>2, <1>9, RunsConcat
<1> QED BY <1>3, <1>5, <1>10, RunsConcat

-----------------------------------------------------------------------------
\* The lines of the speaker change no note.
Keeps(q, s) == Runs(q, s, q)

LEMMA KeepsConcat ==
  \A q, s, t : Keeps(q, s) /\ Keeps(q, t) => Keeps(q, s \o t)
BY RunsConcat DEF Keeps

LEMMA KeepsLines ==
  ASSUME NEW q
  PROVE  /\ \A left, right : Keeps(q, Volumes(left, right))
         /\ \A rate, from, n : Keeps(q, RunSpeaker(rate, from, n))
         /\ \A c, from, expected : Keeps(q, AssertHeard(c, from, expected))
         /\ \A from, expected : Keeps(q, AssertBoth(from, expected))
         /\ \A left, right : Keeps(q, StartSpeaker(left, right))
         /\ Keeps(q, StopSpeaker)
<1>1. ASSUME NEW left, NEW right PROVE Keeps(q, Volumes(left, right))
  <2>1. Step(q, [do |-> "volumes", left |-> left, right |-> right], q) BY DEF Step, Calm
  <2> QED BY <2>1, RunsOne DEF Volumes, Keeps
<1>2. ASSUME NEW rate, NEW from, NEW n PROVE Keeps(q, RunSpeaker(rate, from, n))
  <2>1. Step(q, [do |-> "speaker_run", rate |-> rate, from |-> from, n |-> n], q)
    BY DEF Step, Calm
  <2> QED BY <2>1, RunsOne DEF RunSpeaker, Keeps
<1>3. ASSUME NEW c, NEW from, NEW expected PROVE Keeps(q, AssertHeard(c, from, expected))
  <2>1. Step(q, [do |-> "assert_heard", channel |-> c, from |-> from, expected |-> expected], q)
    BY DEF Step, Calm
  <2> QED BY <2>1, RunsOne DEF AssertHeard, Keeps
<1>4. ASSUME NEW from, NEW expected PROVE Keeps(q, AssertBoth(from, expected))
  BY <1>3, KeepsConcat DEF AssertBoth
<1>5. ASSUME NEW what, what \in Calm PROVE Keeps(q, Do(what))
  BY <1>5, NewDspSteps DEF Keeps
<1>6. /\ Keeps(q, Do("speaker_instantiate")) /\ Keeps(q, Do("speaker_activate"))
      /\ Keeps(q, Do("speaker_deactivate")) /\ Keeps(q, Do("speaker_cleanup"))
  BY <1>5 DEF Calm
<1>7. ASSUME NEW left, NEW right PROVE Keeps(q, StartSpeaker(left, right))
  <2>1. Keeps(q, Volumes(left, right) \o Do("speaker_instantiate"))
    BY <1>1, <1>6, KeepsConcat
  <2> QED BY <2>1, <1>6, KeepsConcat DEF StartSpeaker
<1>8. Keeps(q, StopSpeaker) BY <1>6, KeepsConcat DEF StopSpeaker
<1> QED BY <1>1, <1>2, <1>3, <1>4, <1>7, <1>8

LEMMA SpeakerSteps ==
  ASSUME NEW q
  PROVE  Keeps(q, TestSpeakerCurve) /\ Keeps(q, TestSpeakerRamps)
<1>1. ASSUME NEW value, NEW expected PROVE Keeps(q, SpeakerSettledGain(value, expected))
  BY SMT, KeepsLines, KeepsConcat DEF SpeakerSettledGain
<1>2. Keeps(q, TestSpeakerCurve)
  <2> DEFINE startup == CurveRate \div 100
             G(p) == ExpectedSpeakerGain(p)
             T == [i \in 1..101 |->
                     StartSpeaker(10 * (i - 1), 10 * (i - 1)) \o RunSpeaker(CurveRate, 0, startup + 1)
                       \o StopSpeaker \o AssertBoth(0, <<0>>) \o AssertBoth(startup, <<G(i - 1)>>)]
  <2>1. ASSUME NEW i \in 1..101 PROVE Keeps(q, T[i])
    <3>1. T[i] = StartSpeaker(10 * (i - 1), 10 * (i - 1)) \o RunSpeaker(CurveRate, 0, startup + 1)
                   \o StopSpeaker \o AssertBoth(0, <<0>>) \o AssertBoth(startup, <<G(i - 1)>>)
      OBVIOUS
    <3> DEFINE a == StartSpeaker(10 * (i - 1), 10 * (i - 1))
               b == RunSpeaker(CurveRate, 0, startup + 1)
               c == AssertBoth(0, <<0>>)
               d == AssertBoth(startup, <<G(i - 1)>>)
    <3>2. Keeps(q, a) /\ Keeps(q, b) /\ Keeps(q, StopSpeaker) /\ Keeps(q, c) /\ Keeps(q, d)
      BY KeepsLines
    <3>3. T[i] = a \o b \o StopSpeaker \o c \o d BY <3>1
    <3> HIDE DEF T, a, b, c, d
    <3> QED BY SMT, <3>2, <3>3, KeepsConcat
  <2>2. T = [i \in 1..101 |-> T[i]] OBVIOUS
  <2>3. TestSpeakerCurve =
          FlattenSeq(T) \o SpeakerSettledGain(504, G(50)) \o SpeakerSettledGain(505, G(51))
            \o SpeakerSettledGain(10000, G(100)) \o SpeakerSettledGain(-10, 0)
            \o SpeakerSettledGain(NaN, 0) \o SpeakerSettledGain(NaN, 0)
    BY DEF TestSpeakerCurve
  <2> HIDE DEF T
  <2>4. Keeps(q, FlattenSeq(T)) BY <2>1, <2>2, RunsLoop DEF Keeps
  <2> QED BY SMT, <2>3, <2>4, <1>1, KeepsConcat
<1>3. Keeps(q, TestSpeakerRamps)
  BY SMT, KeepsLines, KeepsConcat DEF TestSpeakerRamps
<1> QED BY <1>2, <1>3

-----------------------------------------------------------------------------
\* The lines of the microphone.
Streamed(i, o, volume, done) == [in |-> i, out |-> o, volume |-> volume, done |-> done]

RunLine(i, o, volume, from, n) ==
  [do |-> "mic_run", wiring |-> MicWiring(i, o), volume |-> volume, from |-> from, n |-> n]

\* The pieces of a stream of the microphone.
LEMMA FirstPiece ==
  ASSUME NEW mic, NEW ref, NEW i \in Arrays, NEW o \in Arrays, NEW volume,
         NEW n \in Nat, n <= FRAMES,
         \/ mic = "open" /\ i = "input" /\ (o = "output" \/ (o = "reference" /\ ref = 0))
         \/ mic = "copied" /\ i = "output" /\ o = "output"
  PROVE  Step(M(mic, ref, NoRun), RunLine(i, o, volume, 0, n), M("stream", ref, Streamed(i, o, volume, n)))
<1> DEFINE q == M(mic, ref, NoRun)
           l == RunLine(i, o, volume, 0, n)
<1>1. /\ l.do = "mic_run" /\ l.wiring = MicWiring(i, o) /\ l.volume = volume
      /\ l.from = 0 /\ l.n = n
  BY DEF RunLine
<1>2. q.dsp = "out" /\ q.pending = {} /\ q.mic = mic /\ q.ref = ref BY DEF M
<1>3. 0 + n = n OBVIOUS
<1>4. M("stream", ref, Streamed(i, o, volume, n))
        = M("stream", q.ref, [in |-> i, out |-> o, volume |-> l.volume, done |-> l.from + l.n])
  BY <1>1, <1>2, <1>3 DEF Streamed
<1> HIDE DEF q, l
<1>5. RunStep(q, l, M("stream", ref, Streamed(i, o, volume, n)))
  <2>1. l.from \in Nat /\ l.n \in Nat /\ l.from + l.n <= FRAMES BY <1>1, <1>3
  <2>2. \/ q.mic = "open" /\ i = "input" /\ l.from = 0
           /\ (o = "output" \/ (o = "reference" /\ q.ref = 0))
        \/ q.mic = "copied" /\ i = "output" /\ o = "output" /\ l.from = 0
    BY <1>1, <1>2
  <2> QED BY <1>1, <1>4, <2>1, <2>2 DEF RunStep
<1> QED BY <1>1, <1>2, <1>5 DEF Step, MicStep, q, l

LEMMA NextPiece ==
  ASSUME NEW ref, NEW i \in Arrays, NEW o \in Arrays, NEW volume,
         NEW from \in Nat, NEW n \in Nat, from + n <= FRAMES
  PROVE  Step(M("stream", ref, Streamed(i, o, volume, from)), RunLine(i, o, volume, from, n),
              M("stream", ref, Streamed(i, o, volume, from + n)))
<1> DEFINE q == M("stream", ref, Streamed(i, o, volume, from))
           l == RunLine(i, o, volume, from, n)
<1>1. /\ l.do = "mic_run" /\ l.wiring = MicWiring(i, o) /\ l.volume = volume
      /\ l.from = from /\ l.n = n
  BY DEF RunLine
<1>2. /\ q.dsp = "out" /\ q.pending = {} /\ q.mic = "stream" /\ q.ref = ref
      /\ q.run.in = i /\ q.run.out = o /\ q.run.volume = volume /\ q.run.done = from
  BY DEF M, Streamed
<1>4. M("stream", ref, Streamed(i, o, volume, from + n))
        = M("stream", q.ref, [in |-> i, out |-> o, volume |-> l.volume, done |-> l.from + l.n])
  BY <1>1, <1>2 DEF Streamed
<1> HIDE DEF q, l
<1>5. RunStep(q, l, M("stream", ref, Streamed(i, o, volume, from + n)))
  BY <1>1, <1>2, <1>4 DEF RunStep
<1> QED BY <1>1, <1>2, <1>5 DEF Step, MicStep, q, l

\* run_mic: a stream is opened by its first piece and carried on by the others.
LEMMA RunMicSteps ==
  ASSUME NEW mic, NEW ref, NEW i \in Arrays, NEW o \in Arrays, NEW volume,
         NEW quantum \in Nat \ {0},
         \/ mic = "open" /\ i = "input" /\ (o = "output" \/ (o = "reference" /\ ref = 0))
         \/ mic = "copied" /\ i = "output" /\ o = "output"
  PROVE  Runs(M(mic, ref, NoRun), RunMic(i, o, volume, quantum),
              M("stream", ref, Streamed(i, o, volume, FRAMES)))
<1> DEFINE P == Pieces(quantum)
           s == RunMic(i, o, volume, quantum)
           L(k) == RunLine(i, o, volume, P[k].from, P[k].n)
<1>1. PICK N \in Nat \ {0} :
           /\ P = [k \in 1..N |-> P[k]]
           /\ \A k \in 1..N : P[k].from \in Nat /\ P[k].n \in Nat /\ P[k].from + P[k].n <= FRAMES
           /\ P[1].from = 0
           /\ \A k \in 1..(N - 1) : P[k + 1].from = P[k].from + P[k].n
           /\ P[N].from + P[N].n = FRAMES
  BY PiecesFacts
<1> HIDE DEF P
<1>2. s = [k \in 1..N |-> L(k)]
  BY <1>1 DEF RunMic, P, RunLine
<1> DEFINE X == {L(k) : k \in 1..N}
<1>3. s \in Seq(X) /\ Len(s) = N
  <2>0. \A k \in 1..N : L(k) \in X OBVIOUS
  <2> HIDE DEF s, L, X
  <2>1. s \in [1..N -> X] BY <1>2, <2>0
  <2> QED BY <2>1, LenProperties
<1> DEFINE f == [k \in 0..N |-> IF k = 0 THEN M(mic, ref, NoRun)
                                ELSE M("stream", ref, Streamed(i, o, volume, P[k].from + P[k].n))]
<1>4. f[0] = M(mic, ref, NoRun) /\ f[N] = M("stream", ref, Streamed(i, o, volume, FRAMES))
  BY <1>1
<1>5. ASSUME NEW k \in 1..N PROVE Step(f[k - 1], s[k], f[k])
  <2>1. s[k] = L(k) BY <1>2
  <2>2. f[k] = M("stream", ref, Streamed(i, o, volume, P[k].from + P[k].n)) OBVIOUS
  <2>3. P[k].from \in Nat /\ P[k].n \in Nat /\ P[k].from + P[k].n <= FRAMES BY <1>1
  <2>4. CASE k = 1
    <3>1. f[k - 1] = M(mic, ref, NoRun) /\ P[k].from = 0 /\ 0 + P[k].n = P[k].n /\ P[k].n <= FRAMES
      BY <2>3, <2>4, <1>1
    <3> HIDE DEF f, s
    <3> QED BY <3>1, <2>1, <2>2, <2>3, FirstPiece
  <2>5. CASE k # 1
    <3>1. k - 1 \in 1..(N - 1) /\ k - 1 \in 0..N /\ k - 1 # 0 /\ (k - 1) + 1 = k BY <2>5
    <3>2. f[k - 1] = M("stream", ref, Streamed(i, o, volume, P[k - 1].from + P[k - 1].n))
      BY <3>1
    <3>3. P[k].from = P[k - 1].from + P[k - 1].n BY <3>1, <1>1
    <3> HIDE DEF f, s
    <3> QED BY <3>2, <3>3, <2>1, <2>2, <2>3, NextPiece
  <2> QED BY <2>4, <2>5
<1> HIDE DEF f, s
<1> QED BY <1>3, <1>4, <1>5 DEF Runs, s

Loud == Controls(100, 100)
MicReady(ref) == M("ready", ref, NoRun)

\* The other lines of the microphone, and the assertions that close a stream.
LEMMA MicLines ==
  ASSUME NEW ref
  PROVE  /\ Runs(MicReady(ref), Do("mic_instantiate"), MicReady(ref))
         /\ Runs(MicReady(ref), Do("mic_deactivate"), MicReady(ref))
         /\ Runs(MicReady(ref), Do("mic_activate"), M("open", ref, NoRun))
         /\ Runs(MicReady(ref), RestartMic, M("open", ref, NoRun))
<1>1. Step(MicReady(ref), [do |-> "mic_instantiate"], MicReady(ref))
      /\ Step(MicReady(ref), [do |-> "mic_deactivate"], MicReady(ref))
  BY DEF Step, MicStep, M, MicReady
<1>2. Step(MicReady(ref), [do |-> "mic_activate"], M("open", ref, NoRun))
  BY DEF Step, MicStep, M, MicReady
<1>3. Runs(MicReady(ref), RestartMic, M("open", ref, NoRun))
  BY <1>1, <1>2, RunsDo, RunsConcat DEF RestartMic
<1> QED BY <1>1, <1>2, <1>3, RunsDo

LEMMA MicLinesOnce ==
  /\ Runs(DspDone, Do("calloc"), DspDone)
  /\ Runs(DspDone, Do("fill"), MicReady(0))
  /\ Runs(M("open", 1, NoRun), Do("memcpy"), M("copied", 1, NoRun))
  /\ Runs(MicReady(1), Do("mic_cleanup"), M("done", 1, NoRun))
  /\ Runs(M("stream", 0, Streamed("input", "reference", Loud, FRAMES)),
          Do("assert_reference"), MicReady(1))
<1>1. Step(DspDone, [do |-> "calloc"], DspDone)
      /\ Step(DspDone, [do |-> "fill"], MicReady(0))
  BY DEF Step, MicStep, DspDone, D, M, MicReady
<1>2. Step(M("open", 1, NoRun), [do |-> "memcpy"], M("copied", 1, NoRun))
  BY DEF Step, MicStep, M
<1>3. Step(MicReady(1), [do |-> "mic_cleanup"], M("done", 1, NoRun))
  BY DEF Step, MicStep, M, MicReady
<1>4. Step(M("stream", 0, Streamed("input", "reference", Loud, FRAMES)),
           [do |-> "assert_reference"], MicReady(1))
  BY DEF Step, MicStep, M, MicReady, Streamed, Loud
<1> QED BY <1>1, <1>2, <1>3, <1>4, RunsDo

LEMMA AssertMicStep ==
  ASSUME NEW i, NEW given, NEW volume,
         \A c \in Channels : volume[c] \in 1..100 /\ Mic!PercentOf(given[c]) = volume[c]
  PROVE  Runs(M("stream", 1, Streamed(i, "output", given, FRAMES)), AssertMic(volume),
              MicReady(1))
<1>1. Step(M("stream", 1, Streamed(i, "output", given, FRAMES)),
           [do |-> "assert_mic", volume |-> volume], MicReady(1))
  BY DEF Step, MicStep, M, MicReady, Streamed
<1> QED BY <1>1, RunsOne DEF AssertMic

\* What the volumes of the test are to the plugin.
LEMMA VolumesHeard ==
  ASSUME NEW left \in 1..100, NEW right \in 1..100, NEW c \in Channels
  PROVE  /\ Controls(left, right)[c] \in 1..100
         /\ Mic!PercentOf(Controls(left, right)[c]) = Controls(left, right)[c]
<1>1. \A v \in 1..100 : Mic!PercentOf(v) = v
  BY CheckAssumption DEF Mic!PercentOf
<1>2. Controls(left, right)[c] \in 1..100 BY DEF Controls
<1> QED BY <1>1, <1>2

LEMMA LoudHeard ==
  ASSUME NEW c \in Channels
  PROVE  Mic!PercentOf(Controls(1000, 100)[c]) = Loud[c] /\ Loud[c] = 100
<1>1. Mic!PercentOf(1000) = 100 /\ Mic!PercentOf(100) = 100
  BY CheckAssumption DEF Mic!PercentOf
<1>2. Controls(1000, 100)[c] \in {1000, 100} /\ Loud[c] = 100 BY DEF Controls, Loud
<1> QED BY <1>1, <1>2

\* A whole stream of the microphone, with or without the assertion after it.
LEMMA TestMicSteps == Runs(DspDone, TestMicApm, M("done", 1, NoRun))
<1> DEFINE low == Controls(50, 75)
           ready == MicReady(1)
           open == M("open", 1, NoRun)
           R(q) == RunMic("input", "output", Loud, Scale(<<1, 31, 480, 2049, 16385>>[q]))
           T == [q \in 1..5 |-> RestartMic \o R(q) \o AssertMic(Loud)]
           first == RunMic("input", "reference", Loud, Scale(256))
           quiet == RunMic("input", "output", low, Scale(113))
           muted == RunMic("input", "output", Controls(0, NaN), Scale(31))
           place == RunMic("output", "output", Controls(1000, 100), Scale(8192))
           start == Do("calloc") \o Do("fill") \o Do("mic_instantiate") \o Do("mic_rate") \o Do("mic_activate")
<1>0. /\ \A n \in {1, 31, 113, 256, 480, 2049, 8192, 16385} : Scale(n) \in Nat \ {0}
      /\ "input" \in Arrays /\ "output" \in Arrays /\ "reference" \in Arrays
  BY CheckAssumption DEF Arrays
<1>v. \A c \in Channels :
        /\ Loud[c] \in 1..100 /\ Mic!PercentOf(Loud[c]) = Loud[c]
        /\ low[c] \in 1..100 /\ Mic!PercentOf(low[c]) = low[c]
        /\ Mic!PercentOf(Controls(1000, 100)[c]) = Loud[c]
  <2> TAKE c \in Channels
  <2>1. 100 \in 1..100 /\ 50 \in 1..100 /\ 75 \in 1..100 OBVIOUS
  <2>2. Controls(100, 100)[c] \in 1..100 /\ Mic!PercentOf(Controls(100, 100)[c]) = Controls(100, 100)[c]
    BY <2>1, VolumesHeard
  <2>3. Controls(50, 75)[c] \in 1..100 /\ Mic!PercentOf(Controls(50, 75)[c]) = Controls(50, 75)[c]
    BY <2>1, VolumesHeard
  <2>4. Mic!PercentOf(Controls(1000, 100)[c]) = Loud[c] BY LoudHeard
  <2> QED BY <2>2, <2>3, <2>4 DEF Loud
<1>1. Runs(DspDone, start, M("open", 0, NoRun))
  <2>1. Runs(DspDone, Do("calloc") \o Do("fill"), MicReady(0))
    BY MicLinesOnce, RunsConcat
  <2>2. Runs(DspDone, Do("calloc") \o Do("fill") \o Do("mic_instantiate"), MicReady(0))
    BY <2>1, MicLines, RunsConcat
  <2>3. Runs(MicReady(0), Do("mic_rate"), MicReady(0)) BY NewDspSteps DEF Calm
  <2>4. Runs(DspDone, Do("calloc") \o Do("fill") \o Do("mic_instantiate") \o Do("mic_rate"), MicReady(0))
    BY <2>2, <2>3, RunsConcat
  <2> QED BY <2>4, MicLines, RunsConcat
<1>2. Runs(M("open", 0, NoRun), first, M("stream", 0, Streamed("input", "reference", Loud, FRAMES)))
  BY <1>0, RunMicSteps
<1>3. ASSUME NEW volume, NEW quantum \in Nat \ {0}
      PROVE  Runs(open, RunMic("input", "output", volume, quantum),
                  M("stream", 1, Streamed("input", "output", volume, FRAMES)))
  <2> DEFINE mic == "open"
             i == "input"
             o == "output"
  <2>1. /\ i \in Arrays /\ o \in Arrays
        /\ \/ mic = "open" /\ i = "input" /\ (o = "output" \/ (o = "reference" /\ 1 = 0))
           \/ mic = "copied" /\ i = "output" /\ o = "output"
    BY <1>0
  <2> HIDE DEF mic, i, o
  <2>2. Runs(M(mic, 1, NoRun), RunMic(i, o, volume, quantum), M("stream", 1, Streamed(i, o, volume, FRAMES)))
    BY <2>1, RunMicSteps
  <2> QED BY <2>2 DEF mic, i, o
<1>4. Runs(ready, RestartMic, open) BY MicLines
<1>5. Runs(ready, FlattenSeq(T), ready)
  <2>1. ASSUME NEW q \in 1..5 PROVE Runs(ready, T[q], ready)
    <3>1. <<1, 31, 480, 2049, 16385>>[q] \in {1, 31, 480, 2049, 16385}
      BY q \in {1, 2, 3, 4, 5}
    <3>2. Scale(<<1, 31, 480, 2049, 16385>>[q]) \in Nat \ {0} BY <3>1, <1>0
    <3>3. T[q] = RestartMic \o R(q) \o AssertMic(Loud) OBVIOUS
    <3>4. \A c \in Channels : Loud[c] \in 1..100 /\ Mic!PercentOf(Loud[c]) = Loud[c]
      BY <1>v
    <3>5. Runs(open, R(q), M("stream", 1, Streamed("input", "output", Loud, FRAMES)))
      BY <3>2, <1>3
    <3>6. Runs(M("stream", 1, Streamed("input", "output", Loud, FRAMES)), AssertMic(Loud), ready)
      BY <3>4, AssertMicStep
    <3> HIDE DEF R, T, open, ready
    <3>7. Runs(ready, RestartMic \o R(q), M("stream", 1, Streamed("input", "output", Loud, FRAMES)))
      BY <3>5, <1>4, RunsConcat
    <3> QED BY <3>3, <3>6, <3>7, RunsConcat
  <2>2. T = [q \in 1..5 |-> T[q]] OBVIOUS
  <2> HIDE DEF T
  <2> QED BY <2>1, <2>2, RunsLoop
<1>6. /\ Runs(open, quiet, M("stream", 1, Streamed("input", "output", low, FRAMES)))
      /\ Runs(M("stream", 1, Streamed("input", "output", low, FRAMES)), AssertMic(low), ready)
  <2>1. \A c \in Channels : low[c] \in 1..100 /\ Mic!PercentOf(low[c]) = low[c]
    BY <1>v
  <2>2. Runs(M("stream", 1, Streamed("input", "output", low, FRAMES)), AssertMic(low), ready)
    BY <2>1, AssertMicStep
  <2> QED BY <2>2, <1>0, <1>3
<1>7. Runs(ready, muted, ready)
  <2>0. Scale(31) \in Nat \ {0} BY <1>0
  <2> DEFINE P == Pieces(Scale(31))
             l(k) == RunLine("input", "output", Controls(0, NaN), P[k].from, P[k].n)
  <2>1. PICK N \in Nat \ {0} :
           /\ P = [k \in 1..N |-> P[k]]
           /\ \A k \in 1..N : P[k].from \in Nat /\ P[k].n \in Nat /\ P[k].from + P[k].n <= FRAMES
           /\ P[1].from = 0
           /\ \A k \in 1..(N - 1) : P[k + 1].from = P[k].from + P[k].n
           /\ P[N].from + P[N].n = FRAMES
    BY <2>0, PiecesFacts
  <2> HIDE DEF P
  <2>2. muted = [k \in 1..N |-> l(k)]
    BY <2>1 DEF RunMic, P, RunLine
  <2>3. ASSUME NEW k \in 1..N PROVE Step(ready, l(k), ready)
    <3>1. P[k].from \in Nat /\ P[k].n \in Nat /\ P[k].from + P[k].n <= FRAMES BY <2>1
    <3>2. l(k).wiring = MicWiring("input", "output") /\ l(k).do = "mic_run"
          /\ l(k).from = P[k].from /\ l(k).n = P[k].n
      BY DEF RunLine
    <3> HIDE DEF l
    <3> QED BY <3>1, <3>2 DEF Step, MicStep, RunStep, M, MicReady
  <2> DEFINE X == {l(k) : k \in 1..N}
  <2>4. muted \in Seq(X) /\ Len(muted) = N
    <3>0. \A k \in 1..N : l(k) \in X OBVIOUS
    <3> HIDE DEF muted, l, X
    <3>1. muted \in [1..N -> X] BY <2>2, <3>0
    <3> QED BY <3>1, LenProperties
  <2> DEFINE f == [k \in 0..N |-> ready]
  <2>5. \A k \in 0..N : f[k] = ready OBVIOUS
  <2>6. \A k \in 1..N : muted[k] = l(k) BY <2>2
  <2> HIDE DEF f, muted, ready, l
  <2>7. \A k \in 1..N : Step(f[k - 1], muted[k], f[k])
    <3> TAKE k \in 1..N
    <3>1. k - 1 \in 0..N /\ k \in 0..N OBVIOUS
    <3> QED BY <3>1, <2>3, <2>5, <2>6
  <2>8. f[0] = ready /\ f[N] = ready BY <2>5
  <2> QED BY <2>4, <2>7, <2>8 DEF Runs
<1>8. Runs(M("copied", 1, NoRun), place,
           M("stream", 1, Streamed("output", "output", Controls(1000, 100), FRAMES)))
  BY <1>0, RunMicSteps
<1>9. Runs(M("stream", 1, Streamed("output", "output", Controls(1000, 100), FRAMES)),
           AssertMic(Loud), ready)
  <2>1. \A c \in Channels : Loud[c] \in 1..100 /\ Mic!PercentOf(Controls(1000, 100)[c]) = Loud[c]
    BY <1>v
  <2> QED BY <2>1, AssertMicStep
<1>10. Runs(ready, Do("assert_muted"), ready) BY NewDspSteps DEF Calm
<1>11. TestMicApm = start \o first \o Do("assert_reference") \o FlattenSeq(T)
                      \o RestartMic \o quiet \o AssertMic(low)
                      \o muted \o Do("assert_muted") \o RestartMic \o Do("memcpy")
                      \o place \o AssertMic(Loud) \o Do("mic_deactivate") \o Do("mic_cleanup")
  BY DEF TestMicApm, Loud
<1>12. /\ Runs(M("stream", 0, Streamed("input", "reference", Loud, FRAMES)), Do("assert_reference"), ready)
       /\ Runs(open, Do("memcpy"), M("copied", 1, NoRun))
       /\ Runs(ready, Do("mic_cleanup"), M("done", 1, NoRun))
       /\ Runs(ready, Do("mic_deactivate"), ready)
  BY MicLines, MicLinesOnce
<1> HIDE DEF start, first, T, quiet, muted, place, ready, open, low
<1> DEFINE a == start \o first \o Do("assert_reference") \o FlattenSeq(T)
           b == a \o RestartMic \o quiet \o AssertMic(low)
           c == b \o muted \o Do("assert_muted") \o RestartMic \o Do("memcpy")
<1>13. Runs(DspDone, a, ready)
  <2>1. Runs(DspDone, start \o first, M("stream", 0, Streamed("input", "reference", Loud, FRAMES)))
    BY <1>1, <1>2, RunsConcat
  <2>2. Runs(DspDone, start \o first \o Do("assert_reference"), ready)
    BY <2>1, <1>12, RunsConcat
  <2> QED BY <2>2, <1>5, RunsConcat
<1>14. Runs(DspDone, b, ready)
  <2> HIDE DEF a
  <2>1. Runs(DspDone, a \o RestartMic, open) BY <1>4, <1>13, RunsConcat
  <2>2. Runs(DspDone, a \o RestartMic \o quiet,
             M("stream", 1, Streamed("input", "output", low, FRAMES)))
    BY <2>1, <1>6, RunsConcat
  <2> QED BY <2>2, <1>6, RunsConcat
<1>15. Runs(DspDone, c, M("copied", 1, NoRun))
  <2> HIDE DEF b
  <2>1. Runs(DspDone, b \o muted, ready) BY <1>7, <1>14, RunsConcat
  <2>2. Runs(DspDone, b \o muted \o Do("assert_muted"), ready) BY <2>1, <1>10, RunsConcat
  <2>3. Runs(DspDone, b \o muted \o Do("assert_muted") \o RestartMic, open)
    BY <2>2, <1>4, RunsConcat
  <2> QED BY <2>3, <1>12, RunsConcat
<1>16. TestMicApm = c \o place \o AssertMic(Loud) \o Do("mic_deactivate") \o Do("mic_cleanup")
  BY <1>11
<1> HIDE DEF a, b, c
<1>17. Runs(DspDone, c \o place \o AssertMic(Loud), ready)
  <2>1. Runs(DspDone, c \o place,
             M("stream", 1, Streamed("output", "output", Controls(1000, 100), FRAMES)))
    BY <1>15, <1>8, RunsConcat
  <2> QED BY <2>1, <1>9, RunsConcat
<1>18. Runs(DspDone, c \o place \o AssertMic(Loud) \o Do("mic_deactivate"), ready)
  BY <1>17, <1>12, RunsConcat
<1> QED BY <1>16, <1>18, <1>12, RunsConcat

\* The blocks of the noise test change no note.
LEMMA NoiseSteps == Runs(M("done", 1, NoRun), TestMicNoiseSuppression, M("done", 1, NoRun))
<1> DEFINE done == M("done", 1, NoRun)
           line == RunLine("input", "output", Controls(100, 100), 0, Block)
           T == [b \in 1..NoiseBlocks |-> <<line>>]
<1>1. /\ Runs(done, Do("mic_instantiate"), done) /\ Runs(done, Do("mic_activate"), done)
      /\ Runs(done, Do("mic_deactivate"), done) /\ Runs(done, Do("mic_cleanup"), done)
  <2>1. /\ Step(done, [do |-> "mic_instantiate"], done) /\ Step(done, [do |-> "mic_activate"], done)
        /\ Step(done, [do |-> "mic_deactivate"], done) /\ Step(done, [do |-> "mic_cleanup"], done)
    BY DEF Step, MicStep, M
  <2> QED BY <2>1, RunsDo
<1>2. Runs(done, FlattenSeq(T), done)
  <2>1. Block \in Nat /\ FRAMES \in Nat /\ Block < FRAMES BY CheckAssumption DEF Block, FRAMES
  <2>2. line.do = "mic_run" /\ line.from = 0 /\ line.n = Block BY DEF RunLine
  <2>3. Step(done, line, done)
    <3> HIDE DEF line
    <3> QED BY <2>1, <2>2 DEF Step, MicStep, RunStep, M
  <2> HIDE DEF line, done
  <2>4. \A b \in 1..NoiseBlocks : T[b] = <<line>> OBVIOUS
  <2>5. Runs(done, <<line>>, done) BY <2>3, RunsOne
  <2>6. T = [b \in 1..NoiseBlocks |-> T[b]] OBVIOUS
  <2>7. NoiseBlocks \in Nat BY CheckAssumption
  <2> HIDE DEF T
  <2>8. \A b \in 1..NoiseBlocks : Runs(done, T[b], done) BY <2>4, <2>5
  <2> QED BY <2>6, <2>7, <2>8, RunsLoop
<1>3. TestMicNoiseSuppression = Do("mic_instantiate") \o Do("mic_activate") \o FlattenSeq(T)
                                  \o Do("mic_deactivate") \o Do("mic_cleanup")
  BY DEF TestMicNoiseSuppression, RunLine
<1> HIDE DEF done, T
<1>4. Runs(done, Do("mic_instantiate") \o Do("mic_activate"), done) BY <1>1, RunsConcat
<1>5. Runs(done, Do("mic_instantiate") \o Do("mic_activate") \o FlattenSeq(T), done)
  BY <1>2, <1>4, RunsConcat
<1>6. Runs(done, Do("mic_instantiate") \o Do("mic_activate") \o FlattenSeq(T) \o Do("mic_deactivate"), done)
  BY <1>1, <1>5, RunsConcat
<1> QED BY <1>1, <1>3, <1>6, RunsConcat DEF done

\* The notes lead from the first line of the script to the last.
LEMMA ScriptSteps == Runs(DspDone, Script, M("done", 1, NoRun))
<1>1. Runs(DspDone, Do("descriptors"), DspDone) BY NewDspSteps DEF Calm
<1>2. Runs(DspDone, Do("descriptors") \o Do("calloc"), DspDone)
  BY <1>1, MicLinesOnce, RunsConcat
<1>3. Runs(DspDone, Do("descriptors") \o Do("calloc") \o TestDsp, DspDone)
  BY <1>2, TestDspSteps, RunsConcat
<1>4. Runs(DspDone, Do("descriptors") \o Do("calloc") \o TestDsp \o TestSpeakerCurve, DspDone)
  BY <1>3, SpeakerSteps, RunsConcat DEF Keeps
<1>5. Runs(DspDone, Do("descriptors") \o Do("calloc") \o TestDsp \o TestSpeakerCurve
                      \o TestSpeakerRamps, DspDone)
  BY <1>4, SpeakerSteps, RunsConcat DEF Keeps
<1>6. Runs(DspDone, Do("descriptors") \o Do("calloc") \o TestDsp \o TestSpeakerCurve
                      \o TestSpeakerRamps \o TestMicApm, M("done", 1, NoRun))
  BY <1>5, TestMicSteps, RunsConcat
<1> QED BY <1>6, NoiseSteps, RunsConcat DEF Script

-----------------------------------------------------------------------------
\* What the notes say of the plugins.

Lost == "filters" \in faults
Bad(c) == dspLatency[c] # ExpectedDrcDelay
Told(q) == \E c \in q.pending : Bad(c)
Making == pc \in {"drc", "eq", "bands"}

\* The instance of the DSP.
DspAt(q) ==
  /\ q.dsp \in {"out", "wired"} =>
       /\ pc \in {"none", "idle"} /\ ~dspRunning
       /\ Lost => Told(q)
  /\ q.dsp = "new" =>
       /\ pc \in {"drc", "eq", "bands", "idle", "none"} /\ ~dspRunning
       /\ Lost => self = Nil /\ pc = "none"
  /\ q.dsp \in {"wired", "stream"} => ports[4] = q.cell
  /\ q.dsp = "stream" =>
       /\ pc \in {"drc", "eq", "bands", "idle", "run"} /\ dspRunning
       /\ Making => drc = Nil
       /\ Lost => Told(q) \/ (drc = Nil /\ ~Making)
  /\ q.dsp = "ran" =>
       /\ pc \in {"idle", "run"}
       /\ Lost => Told(q) \/ Bad(q.cell)

\* The arrays and the streams of the microphone.
Blocks == {m * Block : m \in Nat}
Stops == {d \in Blocks : d <= FRAMES} \cup {Mic!NoFailure}
Percents(volume) == [c \in Channels |-> Mic!PercentOf(volume[c])]

\* The output of a stream that APM stopped at frame d, at volume v.
Want(d, v, c, k) ==
  IF k <= Block \/ k > d THEN Silence ELSE Mic!Scaled(<<0, c, k - Block>>, v[c])

Filled(a, from) == \A c \in Channels, k \in from..FRAMES : arrays[<<a, c>>][k] = <<0, c, k>>
Wanted(a, d, v, to) == \A c \in Channels, k \in 1..to : arrays[<<a, c>>][k] = Want(d, v, c, k)

\* The streams compared so far.
Compared(ref) ==
  /\ ref = 0 => deaths = {}
  /\ ref = 1 => \E d \in Stops : deaths = {d} /\ d > Block
                                 /\ Wanted("reference", d, Controls(100, 100), FRAMES)

\* A call of run under way: the line, the call and the plugin's memory agree.
Sync ==
  ~Mic!Idle =>
    /\ last.do = "mic_run" /\ micCall.wiring = last.wiring /\ micCall.frames = last.n
    /\ last.from \in Nat /\ last.n \in Nat /\ last.from + last.n <= FRAMES
    /\ frame \in 1..last.n
    /\ \A b \in Buffers, k \in 1..last.n : buf[b][k] = arrays[b][last.from + k]

\* Sample k of a stream, from 0, with silence before.
Source(c, k) == IF k < 0 THEN Silence ELSE <<0, c, k + 1>>

Windows ==
  /\ offset \in 0..(Block - 1)
  /\ \E m \in Nat : micPlayed = m * Block + offset
  /\ \A c \in Channels : DOMAIN micInput[c] = 0..(Block - 1)
  /\ \A c \in Channels, j \in 0..(Block - 1) :
       /\ j < offset => micInput[c][j] = Source(c, micPlayed - offset + j)
       /\ j >= offset => micOutput[c][j] = Source(c, micPlayed - offset + j - Block)

Opened ==
  /\ Mic!Idle /\ dead = Mic!NoFailure /\ micPlayed = 0 /\ Windows
  /\ \A c \in Channels : micPercent[c] = -1

\* A stream whose last line was or is being run.
Streaming(run) ==
  LET pos == run.done - (micCall.frames + 1 - frame)
      v == Percents(run.volume)
  IN  /\ ~Mic!Idle => /\ micActive /\ last.wiring = MicWiring(run.in, run.out)
                      /\ run.done = last.from + last.n
      /\ Wanted(run.out, Stopped, v, pos)
      /\ micActive => /\ micPlayed = pos /\ dead = Mic!NoFailure /\ Windows
                      /\ Filled(run.in, pos + 1)
                      /\ \A c \in Channels : micPercent[c] = v[c] /\ micGain[c] = v[c]
      /\ ~micActive => dead = Mic!NoFailure \/ (dead \in Blocks /\ dead <= run.done)

MicAt(q) ==
  /\ q.mic = "off" => Mic!Idle /\ deaths = {}
  /\ q.mic \in {"ready", "open", "copied", "stream"} => Filled("input", 1) /\ Compared(q.ref)
  /\ q.mic \in {"ready", "stream"} => Sync
  /\ q.mic = "ready" /\ ~Mic!Idle => last.wiring = MicWiring("input", "output")
  /\ q.mic \in {"open", "copied"} => Opened
  /\ q.mic = "copied" => Filled("output", 1)
  /\ q.mic = "stream" => Streaming(q.run)
  /\ q.mic = "done" => \E d \in Stops : deaths = {d} /\ d > Block

\* What a note says of itself.
NoteOK(q) ==
  /\ q.dsp \in {"out", "new", "wired", "stream", "ran"}
  /\ q.pending \subseteq Cells
  /\ q.dsp \in {"wired", "stream", "ran"} => q.cell \in Cells \ q.pending
  /\ q.mic \in {"off", "ready", "open", "copied", "stream", "done"} /\ q.ref \in {0, 1}
  /\ q.mic = "off" \/ (q.dsp = "out" /\ q.pending = {})
  /\ q.mic = "stream" =>
       /\ q.run.done \in 0..FRAMES
       /\ q.run.in = "input" \/ (q.run.in = "output" /\ q.run.out = "output")
       /\ q.run.out = "output" \/ (q.run.out = "reference" /\ q.ref = 0)

At(q) == NoteOK(q) /\ DspAt(q) /\ MicAt(q)

Rest ==
  /\ at \in 1..(Len(Script) + 1) /\ outcome \in {"running", "pass"}
  /\ outcome = "pass" => at = Len(Script) + 1
  /\ faults \subseteq {"apm", "filters"}
  /\ DOMAIN dspLatency = Cells
  /\ {"frames", "live"} \subseteq DOMAIN micCall /\ micCall.frames \in Nat

-----------------------------------------------------------------------------
Noted(f) ==
  /\ f[0] = DspDone /\ f[Len(Script)] = M("done", 1, NoRun)
  /\ \A k \in 1..Len(Script) : Step(f[k - 1], Script[k], f[k])
Notes == CHOOSE f : Noted(f)

CheckInv == outcome # "abort" => Rest /\ \A q : q = Notes[at - 1] => At(q)

\* There are such notes.
LEMMA NotesHold == Noted(Notes) /\ Len(Script) \in Nat
<1>1. PICK S : Script \in Seq(S) BY ScriptSteps DEF Runs
<1>2. Len(Script) \in Nat BY <1>1, LenProperties
<1>3. \E f : Noted(f) BY ScriptSteps DEF Runs, Noted
<1> QED BY Zenon, <1>2, <1>3 DEF Notes

\* What a line of the script is taken for, before the note and after.
LEMMA Turned ==
  ASSUME CheckInv, NEW what, Turn(what)
  PROVE  \E q, r :
           /\ q = Notes[at - 1] /\ At(q) /\ Step(q, here, r) /\ (\A x : (x = Notes[at - 1])' => x = r)
           /\ here.do = what /\ last' = here /\ at' = at + 1 /\ at' \in 1..(Len(Script) + 1)
<1> DEFINE q == Notes[at - 1]
           r == Notes[at]
<1>1. outcome = "running" /\ at \in 1..Len(Script) /\ here.do = what /\ at' = at + 1
  BY NotesHold DEF Turn, CheckInv, Rest
<1>2. At(q) /\ Step(q, here, r)
  BY <1>1, NotesHold DEF CheckInv, Noted, here
<1>3. (\A x : (x = Notes[at - 1])' => x = r) /\ last' = here
  <2>1. at' - 1 = at BY <1>1, NotesHold
  <2> QED BY <2>1 DEF here, last
<1>4. at' \in 1..(Len(Script) + 1) BY <1>1, NotesHold
<1> HIDE DEF q, r
<1> QED BY <1>1, <1>2, <1>3, <1>4 DEF q

\* A step that leaves the DSP alone, and one that leaves the microphone alone.
LEMMA DspFrame ==
  ASSUME NEW q, DspAt(q), UNCHANGED dspVars, Lost' = Lost
  PROVE  DspAt(q)'
BY DEF DspAt, Told, Bad, Making, dspVars, dspRest

LEMMA MicFrame ==
  ASSUME NEW q, MicAt(q), UNCHANGED <<micVars, arrays, deaths>>, Mic!Idle \/ UNCHANGED at
  PROVE  MicAt(q)'
<1>1. Mic!Idle' = Mic!Idle BY DEF micVars, Mic!Idle
<1>2. Mic!Idle \/ (last' = last /\ here' = here)
  BY DEF last, here
<1>3. /\ \A a, from : Filled(a, from)' = Filled(a, from)
      /\ \A a, d, v, to : Wanted(a, d, v, to)' = Wanted(a, d, v, to)
      /\ \A ref : Compared(ref)' = Compared(ref)
      /\ Windows' = Windows
  BY DEF Filled, Wanted, Compared, Windows, micVars
<1>4. Opened' = Opened
  BY <1>1, <1>3 DEF Opened, micVars
<1>5. Sync => Sync'
  BY <1>1, <1>2 DEF Sync, micVars
<1>6. \A run : Streaming(run) => Streaming(run)'
  BY <1>1, <1>2, <1>3 DEF Streaming, Stopped, micVars
<1>7. (q.mic = "ready" /\ ~Mic!Idle => last.wiring = MicWiring("input", "output"))'
  BY <1>1, <1>2 DEF MicAt
<1> QED BY <1>1, <1>3, <1>4, <1>5, <1>6, <1>7 DEF MicAt

\* A line makes of a note in order a note in order.
LEMMA NoteStep ==
  ASSUME NEW q, NEW l, NEW r, NoteOK(q), Step(q, l, r)
  PROVE  NoteOK(r)
<1>1. CASE r = q BY <1>1
<1>2. CASE q.mic = "off" /\ DspStep(q, l, r)
  <2>1. ASSUME NEW dsp \in {"out", "new", "wired", "stream", "ran"}, NEW cell, NEW pending \in SUBSET Cells,
               dsp \in {"wired", "stream", "ran"} => cell \in Cells \ pending
        PROVE  NoteOK(D(dsp, cell, pending))
    BY <2>1 DEF NoteOK, D
  <2>2. q.pending \subseteq Cells /\ (q.dsp \in {"wired", "stream", "ran"} => q.cell \in Cells \ q.pending)
    BY DEF NoteOK
  <2> QED BY <1>2, <2>1, <2>2 DEF DspStep, NoteOK
<1>3. CASE q.dsp = "out" /\ q.pending = {} /\ MicStep(q, l, r)
  <2>1. ASSUME NEW mic \in {"ready", "open", "copied", "done"}, NEW ref \in {0, 1}
        PROVE  NoteOK(M(mic, ref, NoRun))
    BY DEF NoteOK, M
  <2>2. q.ref \in {0, 1} BY DEF NoteOK
  <2>3. CASE RunStep(q, l, r)
    <3>1. ASSUME NEW i, NEW o, l.from \in Nat, l.n \in Nat, l.from + l.n <= FRAMES,
                 i = "input" \/ (i = "output" /\ o = "output"),
                 o = "output" \/ (o = "reference" /\ q.ref = 0),
                 r = M("stream", q.ref, [in |-> i, out |-> o, volume |-> l.volume, done |-> l.from + l.n])
          PROVE  NoteOK(r)
      <4>1. l.from + l.n \in 0..FRAMES BY <3>1
      <4>2. r.run.in = i /\ r.run.out = o /\ r.run.done = l.from + l.n /\ r.mic = "stream"
            /\ r.ref = q.ref /\ r.dsp = "out" /\ r.pending = {}
        BY <3>1 DEF M
      <4> QED BY <4>1, <4>2, <3>1, <2>2 DEF NoteOK
    <3>2. CASE r # q
      <4>1. PICK i \in Arrays, o \in Arrays :
              /\ r = M("stream", q.ref, [in |-> i, out |-> o, volume |-> l.volume, done |-> l.from + l.n])
              /\ \/ q.mic = "open" /\ i = "input" /\ l.from = 0
                    /\ (o = "output" \/ (o = "reference" /\ q.ref = 0))
                 \/ q.mic = "copied" /\ i = "output" /\ o = "output" /\ l.from = 0
                 \/ q.mic = "stream" /\ i = q.run.in /\ o = q.run.out
        BY <2>3, <3>2 DEF RunStep
      <4>2. l.from \in Nat /\ l.n \in Nat /\ l.from + l.n <= FRAMES BY <2>3 DEF RunStep
      <4>3. q.mic = "stream" =>
              /\ q.run.in = "input" \/ (q.run.in = "output" /\ q.run.out = "output")
              /\ q.run.out = "output" \/ (q.run.out = "reference" /\ q.ref = 0)
        BY DEF NoteOK
      <4>4. i = "input" \/ (i = "output" /\ o = "output") BY <4>1, <4>3
      <4>5. o = "output" \/ (o = "reference" /\ q.ref = 0) BY <4>1, <4>3
      <4> QED BY <3>1, <4>1, <4>2, <4>4, <4>5
    <3> QED BY <3>2, <1>1
  <2>4. CASE ~RunStep(q, l, r)
    BY <1>1, <1>3, <2>1, <2>2, <2>4 DEF MicStep
  <2> QED BY <2>3, <2>4
<1> QED BY <1>1, <1>2, <1>3 DEF Step

DspDo == {"latencies", "dsp_instantiate", "dsp_handle", "dsp_connect", "dsp_activate",
          "dsp_run", "dsp_deactivate", "dsp_cleanup", "assert_latency"}

\* A line of the DSP comes before the microphone's.
LEMMA DspLine ==
  ASSUME NEW q, NEW l, NEW r, Step(q, l, r), l.do \in DspDo
  PROVE  /\ q.mic = "off" /\ DspStep(q, l, r)
         /\ MicAt(q) => Mic!Idle /\ deaths = {}
         /\ \/ r.mic = "off"
            \/ r = q
<1>1. q.mic = "off" /\ DspStep(q, l, r)
  BY DEF Step, DspDo, Calm, MicStep
<1>2. r = q \/ \E dsp, cell, pending : r = D(dsp, cell, pending)
  BY <1>1 DEF DspStep
<1>3. r = q \/ r.mic = "off" BY <1>2 DEF D
<1> QED BY <1>1, <1>3 DEF MicAt

\* A line that says nothing of either leaves the note as it was.
LEMMA Calmly ==
  ASSUME NEW q, NEW l, NEW r, Step(q, l, r), l.do \in Calm
  PROVE  r = q
BY DEF Step, Calm, DspStep, MicStep, RunStep

\* The microphone before its first line.
LEMMA OffFrame ==
  ASSUME NEW q, MicAt(q), q.mic = "off", UNCHANGED <<micVars, deaths>>, NEW r, r.mic = "off" \/ r = q
  PROVE  MicAt(r)'
<1>1. Mic!Idle' /\ deaths' = {} BY DEF MicAt, Mic!Idle, micVars
<1>2. r.mic = "off" OBVIOUS
<1> QED BY <1>1, <1>2 DEF MicAt

-----------------------------------------------------------------------------
\* The DSP's lines.
LEMMA DelayBounds == ExpectedDrcDelay # 0
BY CheckAssumption DEF ExpectedDrcDelay

\* find_port finds the only port of a name.
LEMMA FirstPort ==
  ASSUME NEW d, Len(d.ports) \in Nat, NEW k \in 1..Len(d.ports),
         \A j \in 1..Len(d.ports) : d.ports[j].name = d.ports[k].name => j = k
  PROVE  FindPort(d, d.ports[k].name, d.ports[k].flags) = k - 1
<1>1. {j \in 1..Len(d.ports) : d.ports[j].name = d.ports[k].name} = {k} OBVIOUS
<1>2. Min({k}) = k BY DEF Min
<1>3. k # 0 /\ {k} # {} OBVIOUS
<1> QED BY <1>1, <1>2, <1>3 DEF FindPort, SelectInSeq

\* The DSP's ports, by name and flags.
LEMMA CrasPort ==
  /\ Len(CrasPorts) = 5
  /\ CrasPorts[1].name = "Input Left" /\ CrasPorts[1].flags = {"input", "audio"}
  /\ CrasPorts[2].name = "Input Right" /\ CrasPorts[2].flags = {"input", "audio"}
  /\ CrasPorts[3].name = "Output Left" /\ CrasPorts[3].flags = {"output", "audio"}
  /\ CrasPorts[4].name = "Output Right" /\ CrasPorts[4].flags = {"output", "audio"}
  /\ CrasPorts[5].name = "latency" /\ CrasPorts[5].flags = {"output", "control"}
<1>1. PICK a1, a2, a3, a4, l : 
      /\ a1 = Port("Input Left", {"input", "audio"}, Nil, Nil)
      /\ a2 = Port("Input Right", {"input", "audio"}, Nil, Nil)
      /\ a3 = Port("Output Left", {"output", "audio"}, Nil, Nil)
      /\ a4 = Port("Output Right", {"output", "audio"}, Nil, Nil)
      /\ l = Port("latency", {"output", "control"}, 0, 1024)
  OBVIOUS
<1>2. CrasPorts = <<a1, a2, a3, a4>> \o <<l>> BY Zenon, <1>1 DEF CrasPorts, AudioPorts
<1>3. PICK S : S = {a1, a2, a3, a4, l} OBVIOUS
<1>4. <<a1, a2, a3, a4>> \in Seq(S) /\ <<l>> \in Seq(S) BY <1>3
<1>5. /\ Len(<<a1, a2, a3, a4>>) = 4 /\ Len(<<l>>) = 1
      /\ <<a1, a2, a3, a4>>[1] = a1 /\ <<a1, a2, a3, a4>>[2] = a2
      /\ <<a1, a2, a3, a4>>[3] = a3 /\ <<a1, a2, a3, a4>>[4] = a4 /\ <<l>>[1] = l
  OBVIOUS
<1> DEFINE s == <<a1, a2, a3, a4>>
           t == <<l>>
<1>6. Len(s \o t) = 4 + 1 /\ \A j \in 1..5 : (s \o t)[j] = IF j <= 4 THEN s[j] ELSE t[j - 4]
  BY <1>4, <1>5, ConcatProperties
<1>7. CrasPorts = s \o t BY <1>2
<1>8. s[1] = a1 /\ s[2] = a2 /\ s[3] = a3 /\ s[4] = a4 /\ t[1] = l BY <1>5
<1> DEFINE st == s \o t
<1> HIDE DEF s, t
<1>9. st[1] = s[1] /\ st[2] = s[2] /\ st[3] = s[3] /\ st[4] = s[4]
  BY <1>6, 1 \in 1..5, 2 \in 1..5, 3 \in 1..5, 4 \in 1..5
<1>10. st[5] = t[1]
  <2>1. 5 \in 1..5 /\ ~(5 <= 4) /\ 5 - 4 = 1 OBVIOUS
  <2> QED BY <2>1, <1>6
<1>11. CrasPorts = st /\ Len(st) = 5 BY <1>6, <1>7
<1> HIDE DEF st
<1>12. a1.name = "Input Left" /\ a1.flags = {"input", "audio"} BY <1>1 DEF Port
<1>13. a2.name = "Input Right" /\ a2.flags = {"input", "audio"} BY <1>1 DEF Port
<1>14. a3.name = "Output Left" /\ a3.flags = {"output", "audio"} BY <1>1 DEF Port
<1>15. a4.name = "Output Right" /\ a4.flags = {"output", "audio"} BY <1>1 DEF Port
<1>16. l.name = "latency" /\ l.flags = {"output", "control"} BY <1>1 DEF Port
<1> QED BY Zenon, <1>8, <1>9, <1>10, <1>11, <1>12, <1>13, <1>14, <1>15, <1>16

\* Which ports the check finds on the DSP.
LEMMA PortsFound ==
  LET d == Descriptor(0)
  IN  /\ FindPort(d, "Input Left", {"input", "audio"}) = 0
      /\ FindPort(d, "Input Right", {"input", "audio"}) = 1
      /\ FindPort(d, "Output Left", {"output", "audio"}) = 2
      /\ FindPort(d, "Output Right", {"output", "audio"}) = 3
      /\ FindPort(d, "latency", {"output", "control"}) = 4
<1> DEFINE d == Descriptor(0)
<1>1. Descriptor(0) = [label |-> "redrix_cras_dsp", ports |-> CrasPorts] BY DEF Descriptor
<1>2. d.ports = CrasPorts BY <1>1
<1> HIDE DEF d
<1>3. Len(d.ports) = 5 BY <1>2, CrasPort
<1>4. /\ d.ports[1].name = "Input Left" /\ d.ports[1].flags = {"input", "audio"}
      /\ d.ports[2].name = "Input Right" /\ d.ports[2].flags = {"input", "audio"}
      /\ d.ports[3].name = "Output Left" /\ d.ports[3].flags = {"output", "audio"}
      /\ d.ports[4].name = "Output Right" /\ d.ports[4].flags = {"output", "audio"}
      /\ d.ports[5].name = "latency" /\ d.ports[5].flags = {"output", "control"}
  BY Zenon, <1>2, CrasPort
<1>5. ASSUME NEW k \in 1..5
      PROVE  FindPort(d, d.ports[k].name, d.ports[k].flags) = k - 1
  <2>1. \A j, l \in {1, 2, 3, 4, 5} : d.ports[j].name = d.ports[l].name => j = l
    <3>1. \A j \in {1, 2, 3, 4, 5} : /\ j = 1 <=> d.ports[j].name = "Input Left"
                                     /\ j = 2 <=> d.ports[j].name = "Input Right"
                                     /\ j = 3 <=> d.ports[j].name = "Output Left"
                                     /\ j = 4 <=> d.ports[j].name = "Output Right"
                                     /\ j = 5 <=> d.ports[j].name = "latency"
      BY <1>4
    <3> TAKE j, l \in {1, 2, 3, 4, 5}
    <3>2. l = 1 \/ l = 2 \/ l = 3 \/ l = 4 \/ l = 5 OBVIOUS
    <3>3. CASE l = 1 BY <3>1, <3>3
    <3>4. CASE l = 2 BY <3>1, <3>4
    <3>5. CASE l = 3 BY <3>1, <3>5
    <3>6. CASE l = 4 BY <3>1, <3>6
    <3>7. CASE l = 5 BY <3>1, <3>7
    <3> QED BY <3>2, <3>3, <3>4, <3>5, <3>6, <3>7
  <2>2. 1..5 = {1, 2, 3, 4, 5} OBVIOUS
  <2>4. Len(d.ports) \in Nat /\ k \in 1..Len(d.ports) BY <1>3
  <2>5. \A j \in 1..Len(d.ports) : d.ports[j].name = d.ports[k].name => j = k BY <1>3, <2>1, <2>2
  <2> QED BY Zenon, <2>4, <2>5, FirstPort
<1>6. /\ FindPort(d, d.ports[1].name, d.ports[1].flags) = 1 - 1
      /\ FindPort(d, d.ports[2].name, d.ports[2].flags) = 2 - 1
      /\ FindPort(d, d.ports[3].name, d.ports[3].flags) = 3 - 1
      /\ FindPort(d, d.ports[4].name, d.ports[4].flags) = 4 - 1
      /\ FindPort(d, d.ports[5].name, d.ports[5].flags) = 5 - 1
  BY <1>5, 1 \in 1..5, 2 \in 1..5, 3 \in 1..5, 4 \in 1..5, 5 \in 1..5
<1>7. 1 - 1 = 0 /\ 2 - 1 = 1 /\ 3 - 1 = 2 /\ 4 - 1 = 3 /\ 5 - 1 = 4 OBVIOUS
<1>8. /\ FindPort(d, "Input Left", {"input", "audio"}) = 0
      /\ FindPort(d, "Input Right", {"input", "audio"}) = 1
      /\ FindPort(d, "Output Left", {"output", "audio"}) = 2
      /\ FindPort(d, "Output Right", {"output", "audio"}) = 3
      /\ FindPort(d, "latency", {"output", "control"}) = 4
  BY Zenon, <1>4, <1>6, <1>7
<1> QED BY Zenon, <1>8 DEF d

\* connect_dsp connects the port of the latency to the cell of the line.
LEMMA LatencyPortFound ==
  ASSUME NEW i, NEW o, NEW cell
  PROVE  DspWiring(i, o, cell)[4] = cell
<1> DEFINE audio == FindStereoPorts(Descriptor(0))
<1>1. audio[1] = 0 /\ audio[2] = 1 /\ audio[3] = 2 /\ audio[4] = 3 BY PortsFound DEF FindStereoPorts
<1>2. FindLatencyPort(Descriptor(0)) = 4 BY PortsFound DEF FindLatencyPort
<1> HIDE DEF audio
<1>3. DspWiring(i, o, cell) =
        [p \in 0..4 |-> CASE p = audio[1] -> <<i, 0>> [] p = audio[2] -> <<i, 1>>
                          [] p = audio[3] -> <<o, 0>> [] p = audio[4] -> <<o, 1>>
                          [] p = FindLatencyPort(Descriptor(0)) -> cell]
  BY DEF DspWiring, audio
<1> QED BY <1>1, <1>2, <1>3

\* The steps of the DSP, each for the line it takes or the call it is in.
LEMMA LatenciesStep ==
  ASSUME NEW q, NEW r, At(q), Step(q, here, r), Latencies, outcome' # "abort"
  PROVE  At(r)' /\ (DOMAIN dspLatency = Cells)'
<1>1. here.do = "latencies" BY DEF Latencies, Turn
<1>2. r = q /\ q.dsp = "out" /\ q.pending = {} /\ q.mic = "off"
  <2>1. here.do \in DspDo BY <1>1 DEF DspDo
  <2>2. q.mic = "off" /\ DspStep(q, here, r) BY <2>1, DspLine
  <2> QED BY <1>1, <2>2 DEF DspStep
<1>3. MicAt(r)' BY <1>2, OffFrame DEF At, Latencies, checkVars
<1>4. DspAt(q)' BY <1>2 DEF At, DspAt, Latencies, dspRest, Told, Bad, Lost, checkVars
<1> QED BY <1>2, <1>3, <1>4 DEF At, NoteOK, Latencies

LEMMA CallDspStep ==
  ASSUME NEW q, NEW r, At(q), Step(q, here, r), CallDsp, DOMAIN dspLatency = Cells
  PROVE  At(r)' /\ (DOMAIN dspLatency = Cells)'
<1>0. Returned BY DEF CallDsp, Turn
<1>1. here.do \in DspDo BY DEF CallDsp, Turn, DspDo
<1>2. q.mic = "off" /\ DspStep(q, here, r) /\ (r.mic = "off" \/ r = q) BY <1>1, DspLine
<1>3. MicAt(r)' BY <1>2, OffFrame DEF At, CallDsp, checkVars
<1>4. NoteOK(r) BY NoteStep DEF At
<1>5. Lost' = Lost BY DEF CallDsp, checkVars, Lost
<1>6. DspAt(r)' /\ (DOMAIN dspLatency = Cells)'
  <2>1. CASE Turn("dsp_instantiate") /\ Dsp!Instantiate
    <3>1. q.dsp = "out" /\ q.pending = {} /\ r = D("new", Nil, {}) BY <1>2, <2>1 DEF Turn, DspStep
    <3>2. ~Lost BY <3>1 DEF At, DspAt, Told
    <3>3. pc' = "drc" /\ ~dspRunning' /\ dspLatency' = dspLatency
      BY <3>1, <2>1 DEF Dsp!Instantiate, Dsp!host, At, DspAt
    <3> QED BY <1>5, <3>1, <3>2, <3>3 DEF DspAt, D
  <2>2. CASE Turn("dsp_connect") /\ Dsp!Connect(DspWiring(here.in, here.out, here.cell))
    <3>1. /\ here.cell \in Cells \ q.pending
          /\ \/ q.dsp = "out" /\ r = D("wired", here.cell, q.pending)
             \/ q.dsp = "stream" /\ q.cell = here.cell /\ r = q
      BY <1>2, <2>2 DEF Turn, DspStep
    <3>2. ports'[4] = here.cell BY <2>2, LatencyPortFound DEF Dsp!Connect
    <3>3. /\ pc' = pc /\ dspRunning' = dspRunning /\ drc' = drc
          /\ \A c \in Cells : c # here.cell => dspLatency'[c] = dspLatency[c]
          /\ DOMAIN dspLatency' = DOMAIN dspLatency
      BY <2>2, LatencyPortFound DEF Dsp!Connect, Dsp!filters, Dsp!host, Dsp!LatencyPort
    <3>4. Told(q) => Told(q)'
      BY <3>1, <3>3 DEF Told, Bad, At, NoteOK
    <3>5. CASE q.dsp = "out" /\ r = D("wired", here.cell, q.pending)
      <4>1. Told(r)' = Told(q)' BY <3>5 DEF D, Told
      <4> QED BY <1>5, <3>2, <3>3, <3>4, <3>5, <4>1 DEF DspAt, D, At
    <3>6. CASE q.dsp = "stream" /\ q.cell = here.cell /\ r = q
      BY <1>5, <3>2, <3>3, <3>4, <3>6 DEF DspAt, At, Making
    <3> QED BY <3>1, <3>3, <3>5, <3>6
  <2>3. CASE Turn("dsp_activate") /\ Dsp!Activate
    <3>1. q.dsp = "wired" /\ r = D("stream", q.cell, q.pending) BY <1>2, <2>3 DEF Turn, DspStep
    <3>2. /\ dspRunning' /\ ports' = ports /\ dspLatency' = dspLatency
          /\ (pc' = pc /\ pc = "idle") \/ (pc' = "drc" /\ drc' = Nil)
      BY <2>3 DEF Dsp!Activate, Dsp!Reset, Dsp!Destroy
    <3>3. Told(r)' = Told(q) BY <3>1, <3>2 DEF D, Told, Bad
    <3> QED BY <1>5, <3>1, <3>2, <3>3 DEF DspAt, D, At, Making
  <2>4. CASE Turn("dsp_deactivate") /\ Dsp!Deactivate
    <3>1. q.dsp = "ran" /\ r = D("out", Nil, q.pending \cup {q.cell})
      BY <1>2, <2>4 DEF Turn, DspStep
    <3>2. pc' = "idle" /\ ~dspRunning' /\ dspLatency' = dspLatency
      BY <2>4 DEF Dsp!Deactivate
    <3>3. Told(q) \/ Bad(q.cell) => Told(r)' BY <3>1, <3>2 DEF D, Told, Bad
    <3> QED BY <1>5, <3>1, <3>2, <3>3 DEF DspAt, D, At
  <2>5. CASE Turn("dsp_cleanup") /\ Dsp!Cleanup
    <3>1. q.dsp = "out" /\ r = q BY <1>2, <2>5 DEF Turn, DspStep
    <3>2. pc' = "none" /\ dspRunning' = dspRunning /\ dspLatency' = dspLatency
      BY <2>5 DEF Dsp!Cleanup, Dsp!host
    <3>3. Told(r)' = Told(q) BY <3>1, <3>2 DEF Told, Bad
    <3> QED BY <1>5, <3>1, <3>2, <3>3 DEF DspAt, At
  <2> QED BY <2>1, <2>2, <2>3, <2>4, <2>5 DEF CallDsp
<1> QED BY <1>3, <1>4, <1>6 DEF At, NoteOK

LEMMA CallDspRunStep ==
  ASSUME NEW q, NEW r, At(q), Step(q, here, r), CallDspRun, DOMAIN dspLatency = Cells
  PROVE  At(r)' /\ (DOMAIN dspLatency = Cells)'
<1>0. pc = "idle" BY DEF CallDspRun, Dsp!StartRun
<1>1. here.do = "dsp_run" BY DEF CallDspRun, Turn
<1>2. q.mic = "off" /\ (r.mic = "off" \/ r = q) /\ q.dsp = "stream" /\ (r = q \/ r = D("ran", q.cell, q.pending))
  <2>1. here.do \in DspDo BY <1>1 DEF DspDo
  <2>2. q.mic = "off" /\ (r.mic = "off" \/ r = q) /\ DspStep(q, here, r) BY <2>1, DspLine
  <2> QED BY <1>1, <2>2 DEF DspStep
<1>3. MicAt(r)' BY <1>2, OffFrame DEF At, CallDspRun
<1>4. NoteOK(r) BY NoteStep DEF At
<1>5. Lost' = Lost BY DEF CallDspRun, Lost
<1>6. /\ pc' \in {"idle", "run"} /\ dspRunning' = dspRunning /\ drc' = drc /\ ports' = ports
      /\ ports[4] # Nil => dspLatency' = [dspLatency EXCEPT ![ports[4]] = IF drc # Nil THEN PreDelay ELSE 0]
  BY <1>0 DEF CallDspRun, Dsp!StartRun, Dsp!filters, Dsp!host, Dsp!LatencyPort
<1>7. ports[4] = q.cell /\ q.cell \in Cells \ q.pending /\ q.cell # Nil
  BY <1>2, CheckAssumption DEF At, DspAt, NoteOK
<1>8. /\ DOMAIN dspLatency' = Cells
      /\ \A c \in Cells : c # q.cell => dspLatency'[c] = dspLatency[c]
      /\ drc = Nil => dspLatency'[q.cell] = 0
  BY <1>6, <1>7
<1>9. Told(q) => Told(q)'
  BY <1>7, <1>8 DEF Told, Bad, At, NoteOK
<1>10. drc = Nil => Bad(q.cell)' BY <1>8, DelayBounds DEF Bad
<1>11. DspAt(r)'
  <2>1. CASE r = q
    BY <2>1, <1>0, <1>2, <1>5, <1>6, <1>9 DEF DspAt, At, Making
  <2>2. CASE r = D("ran", q.cell, q.pending)
    <3>1. Told(r)' = Told(q)' BY <2>2 DEF D, Told
    <3>2. Lost => Told(q) \/ drc = Nil BY <1>2 DEF At, DspAt
    <3> QED BY <2>2, <3>1, <3>2, <1>5, <1>6, <1>9, <1>10 DEF DspAt, D
  <2> QED BY <2>1, <2>2, <1>2
<1> QED BY <1>3, <1>4, <1>8, <1>11 DEF At, NoteOK

\* A filter that fails leaves no DRC, so the call reports no latency.
LEMMA InsideDspStep ==
  ASSUME NEW q, At(q), InsideDsp, DOMAIN dspLatency = Cells
  PROVE  At(q)' /\ (DOMAIN dspLatency = Cells)' /\ faults' \subseteq faults \cup {"filters"}
<1>1. pc \in {"drc", "eq", "bands", "run"}
  BY DEF InsideDsp, Dsp!NewDrc, Dsp!NewEq, Dsp!Bands, Dsp!NewDrcFails, Dsp!NewEqFails,
         Dsp!BandFails, Dsp!Chunk, Dsp!Return
<1>2. q.dsp \in {"new", "stream", "ran"} /\ q.mic = "off" BY <1>1 DEF At, DspAt, NoteOK
<1>3. MicAt(q)' BY <1>2, OffFrame DEF At, InsideDsp
<1>4. UNCHANGED <<dspLatency, ports, dspRunning>>
  BY DEF InsideDsp, Dsp!NewDrc, Dsp!NewEq, Dsp!Bands, Dsp!NewDrcFails, Dsp!NewEqFails,
         Dsp!BandFails, Dsp!Chunk, Dsp!Return, Dsp!Failed, Dsp!host
<1>5. Told(q)' = Told(q) BY <1>4 DEF Told, Bad
<1>6. DspAt(q)' /\ faults' \subseteq faults \cup {"filters"}
  <2>1. CASE (Dsp!NewDrc \/ Dsp!NewEq) /\ UNCHANGED <<arrays, faults>>
    <3>1. /\ pc \in {"drc", "eq"} /\ pc' \in {"eq", "bands"} /\ drc' = drc /\ self' = self
      BY <2>1 DEF Dsp!NewDrc, Dsp!NewEq
    <3> QED BY <1>2, <1>4, <1>5, <2>1, <3>1 DEF DspAt, At, Making, Lost
  <2>2. CASE Dsp!Bands /\ UNCHANGED <<arrays, faults>>
    <3>1. pc = "bands" /\ pc' = "idle" BY <2>2 DEF Dsp!Bands
    <3> QED BY <1>2, <1>4, <1>5, <2>2, <3>1 DEF DspAt, At, Making, Lost
  <2>3. CASE (Dsp!NewDrcFails \/ Dsp!NewEqFails \/ Dsp!BandFails) /\ faults' = faults \cup {"filters"}
    <3>1. /\ pc \in {"drc", "eq", "bands"} /\ pc' = (IF dspRunning THEN "idle" ELSE "none")
          /\ drc' = drc /\ (~dspRunning => self' = Nil)
      BY <2>3 DEF Dsp!NewDrcFails, Dsp!NewEqFails, Dsp!BandFails, Dsp!Failed
    <3> QED BY <1>2, <1>4, <1>5, <2>3, <3>1 DEF DspAt, At, Making, Lost
  <2>4. CASE (Dsp!Chunk \/ Dsp!Return) /\ faults' = faults
    <3>1. pc = "run" /\ pc' \in {"idle", "run"} /\ drc' = drc
      BY <2>4 DEF Dsp!Chunk, Dsp!Return, Dsp!filters
    <3>2. Lost' = Lost /\ faults' \subseteq faults \cup {"filters"} BY <2>4 DEF Lost
    <3>3. ports' = ports /\ dspRunning' = dspRunning /\ dspLatency' = dspLatency BY <1>4
    <3>4. ~Making /\ ~Making' BY <3>1 DEF Making
    <3>5. CASE q.dsp = "stream"
      BY <1>5, <3>1, <3>2, <3>3, <3>4, <3>5 DEF DspAt, At
    <3>6. CASE q.dsp = "ran"
      BY <1>5, <3>1, <3>2, <3>3, <3>6 DEF DspAt, At, Bad
    <3>7. q.dsp # "new" BY <3>1 DEF DspAt, At
    <3> QED BY <1>2, <3>5, <3>6, <3>7
  <2> QED BY <2>1, <2>2, <2>3, <2>4 DEF InsideDsp
<1> QED BY <1>3, <1>4, <1>6 DEF At, NoteOK

\* assert_latency finds a cell that is not as expected, unless there is none.
LEMMA AssertDspStep ==
  ASSUME NEW q, NEW r, At(q), Step(q, here, r), AssertDsp, outcome' # "abort"
  PROVE  At(r)'
<1>1. UNCHANGED <<dspVars, micVars, arrays, faults, deaths>> /\ Mic!Idle
  BY DEF AssertDsp, Asserted, Holds, Turn, Returned
<1>2. NoteOK(r) /\ NoteOK(r)' BY NoteStep DEF At, NoteOK
<1>3. CASE Asserted("assert_dsp_output", OutputHolds(here.actual, here.reference))
  <2>1. here.do \in Calm BY <1>3 DEF Asserted, Holds, Turn, Calm
  <2>2. r = q BY <2>1, Calmly
  <2> QED BY <2>2, <1>1, <1>2, DspFrame, MicFrame DEF At, Lost
<1>4. ASSUME here.do \in {"dsp_handle", "assert_latency"}
      PROVE  q.mic = "off" /\ DspStep(q, here, r) /\ MicAt(r)' /\ UNCHANGED <<dspLatency, pc, self, dspRunning, Lost>>
  <2>1. here.do \in DspDo BY <1>4 DEF DspDo
  <2>2. q.mic = "off" /\ (r.mic = "off" \/ r = q) /\ DspStep(q, here, r) BY <2>1, DspLine
  <2> QED BY <2>2, <1>1, OffFrame DEF At, Lost, dspVars, dspRest
<1>5. CASE Asserted("dsp_handle", self # Nil)
  <2>1. here.do = "dsp_handle" /\ self # Nil /\ pc \in {"none", "idle"}
    BY <1>5 DEF Asserted, Holds, Turn, Returned
  <2>2. q.dsp = "new" /\ r = D("out", Nil, {}) BY <2>1, <1>4 DEF DspStep
  <2>3. DspAt(r)' BY <2>1, <2>2, <1>4 DEF DspAt, D, At
  <2> QED BY <1>2, <2>1, <2>3, <1>4 DEF At
<1>6. CASE Asserted("assert_latency", dspLatency[here.cell] = ExpectedDrcDelay)
  <2>1. here.do = "assert_latency" /\ ~Bad(here.cell)
    BY <1>6 DEF Asserted, Holds, Turn, Bad
  <2>2. q.dsp = "out" /\ r = D("out", Nil, q.pending \ {here.cell}) BY <2>1, <1>4 DEF DspStep
  <2>3. Told(q) => Told(r)' BY <2>1, <2>2, <1>4 DEF Told, Bad, D
  <2>4. DspAt(r)' BY <2>2, <2>3, <2>1, <1>4 DEF DspAt, D, At
  <2> QED BY <1>2, <2>1, <2>4, <1>4 DEF At
<1> QED BY <1>3, <1>5, <1>6 DEF AssertDsp

-----------------------------------------------------------------------------
\* Lines that change neither the DSP nor the microphone.
LEMMA CalmStep ==
  ASSUME NEW q, NEW r, At(q), Step(q, here, r), here.do \in Calm, Mic!Idle,
         UNCHANGED <<dspVars, micVars, arrays, faults, deaths>>
  PROVE  At(r)'
<1>1. r = q BY Calmly
<1>2. DspAt(q)' BY DspFrame DEF At, Lost
<1>3. MicAt(q)' BY MicFrame DEF At
<1>4. NoteOK(q)' BY DEF At, NoteOK
<1> QED BY <1>1, <1>2, <1>3, <1>4 DEF At

LEMMA CalmSteps ==
  ASSUME NEW q, NEW r, At(q), Step(q, here, r), outcome' # "abort",
         AssertDescriptors \/ SetVolumes \/ CallSpeaker \/ AssertSpeaker \/ AssertMuted \/ AssertRate
  PROVE  At(r)' /\ UNCHANGED <<dspVars, faults>>
<1>1. Mic!Idle /\ UNCHANGED <<dspVars, micVars, arrays, faults, deaths>>
  BY DEF AssertDescriptors, SetVolumes, CallSpeaker, AssertSpeaker, AssertMuted, AssertRate, Asserted,
         Holds, Turn, Returned, checkVars
<1>2. here.do \in Calm
  BY DEF AssertDescriptors, SetVolumes, CallSpeaker, AssertSpeaker, AssertMuted, AssertRate, Asserted,
         Holds, Turn, Calm
<1> QED BY <1>1, <1>2, CalmStep

LEMMA InsideSpeakerStep ==
  ASSUME NEW q, At(q), InsideSpeaker
  PROVE  At(q)'
<1>1. DspAt(q)' BY DspFrame DEF At, Lost, InsideSpeaker
<1>2. MicAt(q)' BY MicFrame DEF At, InsideSpeaker
<1> QED BY <1>1, <1>2 DEF At, NoteOK

MicDo == {"calloc", "fill", "memcpy", "mic_instantiate", "mic_activate", "mic_run",
          "mic_deactivate", "mic_cleanup", "assert_reference", "assert_mic"}

\* The lines of the microphone.
LEMMA MicLine ==
  ASSUME NEW q, NEW l, NEW r, Step(q, l, r), l.do \in MicDo
  PROVE  q.dsp = "out" /\ q.pending = {} /\ MicStep(q, l, r) /\ r.dsp = "out" /\ r.pending = {}
<1>1. q.dsp = "out" /\ q.pending = {} /\ MicStep(q, l, r)
  BY DEF Step, MicDo, Calm, DspStep
<1>2. r = q \/ \E mic, ref, run : r = M(mic, ref, run)
  BY <1>1 DEF MicStep, RunStep
<1> QED BY <1>1, <1>2 DEF M

LEMMA MicDspFrame ==
  ASSUME NEW q, NEW r, At(q), Step(q, here, r), here.do \in MicDo, UNCHANGED dspVars, Lost' = Lost
  PROVE  DspAt(r)' /\ NoteOK(r)' /\ MicStep(q, here, r)
<1>1. q.dsp = "out" /\ q.pending = {} /\ MicStep(q, here, r) /\ r.dsp = "out" /\ r.pending = {}
  BY MicLine
<1>2. pc' = pc /\ dspRunning' = dspRunning BY DEF dspVars, dspRest
<1>3. ~Lost BY <1>1 DEF At, DspAt, Told
<1>4. NoteOK(r) BY NoteStep DEF At
<1> QED BY <1>1, <1>2, <1>3, <1>4 DEF At, DspAt, NoteOK

LEMMA IdleMic == Mic!Idle => Sync BY DEF Sync

\* Arrays are filled while no call is under way.
LEMMA PrepareStep ==
  ASSUME NEW q, NEW r, At(q), Step(q, here, r), Prepare
  PROVE  At(r)'
<1>1. /\ here.do \in {"calloc", "fill", "memcpy"} /\ Mic!Idle
      /\ UNCHANGED <<dspVars, micVars, faults, deaths>>
  BY DEF Prepare, Filling, Turn, Returned
<1>2. DspAt(r)' /\ NoteOK(r)' /\ MicStep(q, here, r)
  BY <1>1, MicDspFrame DEF MicDo, Lost
<1>3. Mic!Idle' /\ Sync' BY <1>1 DEF Mic!Idle, micVars, Sync
<1>4. MicAt(r)'
  <2>1. CASE here.do = "calloc"
    <3>1. q.mic = "off" /\ r = q BY <1>2, <2>1 DEF MicStep, RunStep
    <3> QED BY <3>1, <1>1, OffFrame DEF At
  <2>2. CASE here.do = "fill" /\ r = q
    <3>1. q.mic = "off" BY <1>2, <2>2 DEF MicStep, RunStep
    <3> QED BY <2>2, <3>1, <1>1, OffFrame DEF At
  <2>3. CASE here.do = "fill" /\ r # q
    <3>1. q.mic = "off" /\ r = M("ready", 0, NoRun) BY <1>2, <2>3 DEF MicStep, RunStep
    <3>2. arrays' = [b \in Buffers |-> Signal[b]]
      BY <2>3 DEF Prepare, Filling, Turn
    <3>3. Filled("input", 1)'
      BY <3>2 DEF Filled, Signal, Buffers, Arrays
    <3>4. deaths' = {} BY <3>1, <1>1 DEF At, MicAt
    <3>5. Compared(0)' BY <3>4 DEF Compared
    <3> QED BY <3>1, <3>3, <3>5, <1>3 DEF MicAt, M
  <2>4. CASE here.do = "memcpy"
    <3>1. q.mic = "open" /\ r = M("copied", q.ref, NoRun) BY <1>2, <2>4 DEF MicStep, RunStep
    <3>2. arrays' = [b \in Buffers |-> Copied[b]]
      BY <2>4 DEF Prepare, Filling, Turn
    <3>3. \A c \in Channels : /\ arrays'[<<"input", c>>] = arrays[<<"input", c>>]
                              /\ arrays'[<<"output", c>>] = arrays[<<"input", c>>]
                              /\ arrays'[<<"reference", c>>] = arrays[<<"reference", c>>]
      BY <3>2 DEF Copied, Buffers, Arrays
    <3>4. Filled("input", 1) /\ Compared(q.ref) /\ Opened BY <3>1 DEF At, MicAt
    <3>5. Filled("input", 1)' /\ Filled("output", 1)' BY <3>3, <3>4 DEF Filled
    <3>6. Compared(q.ref)' BY <3>3, <3>4, <1>1 DEF Compared, Wanted
    <3>7. Opened' BY <3>4, <1>1, <1>3 DEF Opened, Windows, micVars
    <3> QED BY <3>1, <3>5, <3>6, <3>7, <1>3 DEF MicAt, M
  <2> QED BY <2>1, <2>2, <2>3, <2>4, <1>1
<1> QED BY <1>2, <1>4 DEF At

\* Instances of the microphone come and go between streams.
LEMMA CallMicStep ==
  ASSUME NEW q, NEW r, At(q), Step(q, here, r), CallMic
  PROVE  At(r)'
<1>1. /\ here.do \in {"mic_instantiate", "mic_deactivate", "mic_cleanup"} /\ Mic!Idle
      /\ UNCHANGED <<dspVars, arrays, faults, deaths>>
  BY DEF CallMic, Turn, Returned, checkVars
<1>2. DspAt(r)' /\ NoteOK(r)' /\ MicStep(q, here, r)
  BY <1>1, MicDspFrame DEF MicDo, Lost
<1>3. frame' = frame /\ micCall' = micCall
  BY DEF CallMic, Mic!Instantiate, Mic!Deactivate, Mic!Cleanup, Mic!plugin
<1>4. Mic!Idle' /\ Sync' BY <1>1, <1>3 DEF Mic!Idle, Sync
<1>5. \/ q.mic \in {"ready", "done"} /\ r = q
      \/ q.mic = "ready" /\ q.ref = 1 /\ r = M("done", 1, NoRun)
  BY <1>1, <1>2 DEF MicStep, RunStep
<1>6. MicAt(r)'
  <2>1. CASE q.mic = "ready" /\ r = q
    <3>1. Filled("input", 1)' /\ Compared(q.ref)'
      BY <2>1, <1>1 DEF At, MicAt, Filled, Compared, Wanted
    <3> QED BY <2>1, <3>1, <1>4 DEF MicAt
  <2>2. CASE q.mic = "done" /\ r = q
    BY <2>2, <1>1 DEF At, MicAt
  <2>3. CASE q.mic = "ready" /\ q.ref = 1 /\ r = M("done", 1, NoRun)
    BY <2>3, <1>1 DEF At, MicAt, Compared, M
  <2> QED BY <1>5, <2>1, <2>2, <2>3
<1> QED BY <1>2, <1>6 DEF At

-----------------------------------------------------------------------------
\* What the sizes give.
LEMMA Lengths ==
  /\ Block \in Nat \ {0} /\ FRAMES \in Nat \ {0} /\ Block < FRAMES
  /\ Mic!NoFailure \in Nat /\ Mic!NoFailure > FRAMES /\ Mic!NoFailure \in Stops
  /\ FRAMES \notin Blocks /\ Mic!NoFailure > 0 /\ 0 \in Blocks /\ Blocks \subseteq Nat
  /\ Stops \subseteq Nat
<1>1. Block \in Nat \ {0} /\ FRAMES \in Nat \ {0} /\ Block < FRAMES
  BY CheckAssumption DEF Block, FRAMES
<1>2. Mic!NoFailure = 2 * FRAMES + FRAMES BY DEF Mic!NoFailure
<1>3. \A m \in Nat : m * Block \in Nat BY <1>1
<1>4. Blocks \subseteq Nat BY <1>3 DEF Blocks
<1>5. ASSUME NEW m \in Nat PROVE FRAMES # m * Block
  <2>1. CASE m \in 0..FRAMES BY <2>1, CheckAssumption
  <2>2. CASE m > FRAMES
    <3>1. m * Block >= m BY <1>1
    <3>2. m * Block \in Nat /\ FRAMES \in Nat BY <1>1
    <3> QED BY <3>1, <3>2, <2>2
  <2> QED BY <2>1, <2>2, <1>1
<1>6. 0 \in Blocks
  <2>1. 0 = 0 * Block BY <1>1
  <2> QED BY <2>1 DEF Blocks
<1>7. FRAMES \notin Blocks BY <1>5 DEF Blocks
<1>8. Mic!NoFailure \in Stops BY DEF Stops
<1>9. Stops \subseteq Nat
  <2>1. Mic!NoFailure \in Nat BY <1>1, <1>2
  <2> QED BY <2>1, <1>4 DEF Stops
<1> QED BY <1>1, <1>2, <1>4, <1>6, <1>7, <1>8, <1>9

\* A stream opens with silent blocks and no failure.
LEMMA CallMicActivateStep ==
  ASSUME NEW q, NEW r, At(q), Step(q, here, r), CallMicActivate, Rest
  PROVE  At(r)' /\ micCall'.frames = 0 /\ DOMAIN micCall' = DOMAIN micCall
<1>1. /\ here.do = "mic_activate" /\ Mic!Idle
      /\ UNCHANGED <<dspVars, arrays, deaths>> /\ Lost' = Lost
  BY DEF CallMicActivate, Turn, Returned, Lost
<1>2. DspAt(r)' /\ NoteOK(r)' /\ MicStep(q, here, r)
  BY <1>1, MicDspFrame DEF MicDo
<1>3. /\ frame' = 1 /\ micCall' = [micCall EXCEPT !.live = FALSE, !.frames = 0]
      /\ micPlayed' = 0 /\ offset' = 0 /\ micInput' = Mic!Quiet /\ micOutput' = Mic!Quiet
      /\ dead' = Mic!NoFailure /\ micPercent' = [c \in Channels |-> -1]
  BY DEF CallMicActivate, Mic!Activate, Mic!Cleared
<1>4. micCall'.frames = 0 /\ DOMAIN micCall' = DOMAIN micCall BY <1>3 DEF Rest
<1>5. Mic!Idle' BY <1>3, <1>4 DEF Mic!Idle
<1>6. \/ q.mic = "done" /\ r = q
      \/ q.mic = "ready" /\ r = M("open", q.ref, NoRun)
  BY <1>1, <1>2 DEF MicStep, RunStep
<1>7. MicAt(r)'
  <2>1. CASE q.mic = "ready" /\ r = M("open", q.ref, NoRun)
    <3>1. Filled("input", 1)' /\ Compared(q.ref)'
      BY <2>1, <1>1 DEF At, MicAt, Filled, Compared, Wanted
    <3>2. Windows'
      <4>1. 0 \in 0..(Block - 1) /\ 0 = 0 * Block + 0 BY Lengths
      <4>2. \A c \in Channels, j \in 0..(Block - 1) :
              /\ Mic!Quiet[c][j] = Silence /\ DOMAIN Mic!Quiet[c] = 0..(Block - 1)
              /\ ~(j < 0) /\ Source(c, 0 - 0 + j - Block) = Silence
        BY Lengths DEF Mic!Quiet, Mic!Slots, Source
      <4>3. \A c \in Channels : DOMAIN Mic!Quiet[c] = 0..(Block - 1)
        BY DEF Mic!Quiet, Mic!Slots
      <4> QED BY <4>1, <4>2, <4>3, <1>3 DEF Windows
    <3>3. Opened' BY <1>3, <1>5, <3>2 DEF Opened
    <3> QED BY <2>1, <3>1, <3>3 DEF MicAt, M
  <2>2. CASE q.mic = "done" /\ r = q
    BY <2>2, <1>1 DEF At, MicAt
  <2> QED BY <1>6, <2>1, <2>2
<1> QED BY <1>2, <1>4, <1>7 DEF At

\* A stream that has ended stopped at the end of a block, at once, or never.
LEMMA StreamStopped ==
  ASSUME NEW run, Streaming(run), Mic!Idle, Rest, run.done = FRAMES
  PROVE  Stopped \in Stops /\ Wanted(run.out, Stopped, Percents(run.volume), FRAMES)
<1>1. run.done - (micCall.frames + 1 - frame) = FRAMES
  BY Lengths DEF Rest, Mic!Idle
<1>2. Wanted(run.out, Stopped, Percents(run.volume), FRAMES)
  BY <1>1 DEF Streaming
<1>3. CASE micActive
  <2>1. dead = Mic!NoFailure BY <1>3 DEF Streaming
  <2>2. Stopped = dead BY <1>3 DEF Stopped
  <2> QED BY <2>1, <2>2, <1>2, Lengths
<1>4. CASE ~micActive
  <2>1. dead = Mic!NoFailure \/ (dead \in Blocks /\ dead <= FRAMES) BY <1>4 DEF Streaming
  <2>2. Stopped = IF dead = Mic!NoFailure THEN 0 ELSE dead BY <1>4 DEF Stopped
  <2>3. Stopped \in Blocks /\ Stopped <= FRAMES BY <2>1, <2>2, Lengths
  <2>4. Stopped \in Stops BY <2>3 DEF Stops
  <2> QED BY <2>4, <1>2
<1> QED BY <1>2, <1>3, <1>4

\* Two streams that fall silent at the same frames stopped at the same frame.
LEMMA SameStop ==
  ASSUME NEW d \in Stops, NEW e \in Stops, d > Block,
         \A k \in 1..FRAMES : (k <= Block \/ k > d) <=> (k <= Block \/ k > e)
  PROVE  e = d
<1>1. /\ d \in Nat /\ e \in Nat
      /\ (d < FRAMES) \/ (d = Mic!NoFailure)
      /\ (e < FRAMES) \/ (e = Mic!NoFailure)
  BY Lengths DEF Stops
<1>2. CASE d < FRAMES
  <2>1. d \in 1..FRAMES /\ d + 1 \in 1..FRAMES BY <1>1, <1>2, Lengths
  <2>2. d <= e BY <2>1, <1>1, Lengths
  <2>3. d + 1 > e BY <2>1, <1>1, Lengths
  <2> QED BY <2>2, <2>3, <1>1
<1>3. CASE d = Mic!NoFailure
  <2>1. FRAMES \in 1..FRAMES BY Lengths
  <2>2. FRAMES <= e BY <2>1, <1>1, <1>3, Lengths
  <2> QED BY <2>2, <1>1, <1>3, Lengths
<1> QED BY <1>1, <1>2, <1>3

\* Where the sound of a stream is, whatever its volume.
LEMMA SoundOf ==
  ASSUME NEW d, NEW v, NEW c \in Channels, NEW k \in 1..FRAMES, v[c] \in 1..100
  PROVE  /\ Want(d, v, c, k) = Silence <=> (k <= Block \/ k > d)
         /\ ~(k <= Block \/ k > d) => Want(d, v, c, k) = <<<<0, c, k - Block>>, v[c]>>
<1>1. CASE k <= Block \/ k > d BY <1>1 DEF Want
<1>2. CASE ~(k <= Block \/ k > d)
  <2>1. k - Block \in 1..FRAMES BY <1>2, Lengths
  <2>2. <<0, c, k - Block>> # Silence /\ <<<<0, c, k - Block>>, v[c]>> # Silence
    BY <2>1, CheckAssumption
  <2>3. Want(d, v, c, k) = <<<<0, c, k - Block>>, v[c]>>
    BY <1>2, <2>2 DEF Want, Mic!Scaled
  <2> QED BY <1>2, <2>2, <2>3
<1> QED BY <1>1, <1>2

\* assert_reference and assert_mic, after a whole stream: silence where the
\* reference sounds, or the other way, is a stop at another frame.
LEMMA AssertComparedStep ==
  ASSUME NEW q, NEW r, At(q), Step(q, here, r), AssertCompared, outcome' # "abort", Rest
  PROVE  At(r)'
<1>1. /\ here.do \in {"assert_reference", "assert_mic"} /\ Mic!Idle
      /\ UNCHANGED <<dspVars, micVars, arrays, faults>> /\ deaths' = deaths \cup {Stopped}
  BY DEF AssertCompared, Holds, Turn, Returned
<1>2. DspAt(r)' /\ NoteOK(r)' /\ MicStep(q, here, r)
  BY <1>1, MicDspFrame DEF MicDo, Lost
<1>3. Mic!Idle' /\ Sync' BY <1>1 DEF Mic!Idle, micVars, Sync
<1>4. q.mic = "stream" /\ q.run.done = FRAMES /\ r = M("ready", 1, NoRun)
  BY <1>1, <1>2 DEF MicStep, RunStep
<1>5. Filled("input", 1) /\ Compared(q.ref) /\ Streaming(q.run) BY <1>4 DEF At, MicAt
<1>6. Stopped \in Stops /\ Wanted(q.run.out, Stopped, Percents(q.run.volume), FRAMES)
  BY <1>1, <1>4, <1>5, StreamStopped
<1>7. \E d \in Stops : deaths' = {d} /\ d > Block
                       /\ Wanted("reference", d, Controls(100, 100), FRAMES)
  <2>1. CASE here.do = "assert_reference"
    <3>1. q.ref = 0 /\ q.run.out = "reference" /\ q.run.volume = Controls(100, 100)
      BY <1>2, <2>1 DEF MicStep, RunStep
    <3>2. deaths' = {Stopped} BY <1>1, <1>5, <3>1 DEF Compared
    <3>3. \A c \in Channels : Percents(q.run.volume)[c] = 100 /\ Controls(100, 100)[c] = 100
      BY <3>1, LoudHeard, VolumesHeard DEF Percents, Loud, Controls
    <3>4. Wanted("reference", Stopped, Controls(100, 100), FRAMES)
      <4>1. ASSUME NEW c \in Channels, NEW k
            PROVE  Want(Stopped, Percents(q.run.volume), c, k) = Want(Stopped, Controls(100, 100), c, k)
        <5>1. Percents(q.run.volume)[c] = Controls(100, 100)[c] BY <3>3
        <5> QED BY <5>1 DEF Want
      <4>2. Wanted("reference", Stopped, Percents(q.run.volume), FRAMES) BY <1>6, <3>1
      <4> QED BY <4>1, <4>2 DEF Wanted
    <3>5. ReferenceHolds
      BY <2>1 DEF AssertCompared, Holds, Turn
    <3>6. PICK c \in Channels, k \in 1..FRAMES : arrays[<<"reference", c>>][k] # Silence
      BY <3>5 DEF ReferenceHolds
    <3>7. ~(k <= Block \/ k > Stopped)
      BY <3>3, <3>4, <3>6, SoundOf DEF Wanted
    <3>8. Stopped > Block BY <3>7, <1>6, Lengths
    <3> QED BY <1>6, <3>2, <3>4, <3>8
  <2>2. CASE here.do = "assert_mic"
    <3>1. /\ q.ref = 1 /\ q.run.out = "output"
          /\ \A c \in Channels : /\ here.volume[c] \in 1..100
                                 /\ Percents(q.run.volume)[c] = here.volume[c]
      BY <1>2, <2>2 DEF MicStep, RunStep, Percents
    <3>2. PICK d \in Stops : deaths = {d} /\ d > Block
                             /\ Wanted("reference", d, Controls(100, 100), FRAMES)
      BY <1>5, <3>1 DEF Compared
    <3>3. Attenuated(here.volume)
      BY <2>2 DEF AssertCompared, Holds, Turn
    <3>4. ASSUME NEW k \in 1..FRAMES
          PROVE  (k <= Block \/ k > d) <=> (k <= Block \/ k > Stopped)
      <4>1. 0 \in Channels BY DEF Channels
      <4> DEFINE one == arrays[<<"reference", 0>>][k]
                 two == arrays[<<"output", 0>>][k]
      <4>2. Controls(100, 100)[0] \in 1..100 /\ Percents(q.run.volume)[0] \in 1..100
        BY <3>1, <4>1 DEF Controls
      <4>3. one = Want(d, Controls(100, 100), 0, k)
            /\ two = Want(Stopped, Percents(q.run.volume), 0, k)
        BY <1>6, <3>1, <3>2, <4>1 DEF Wanted
      <4>4. one = Silence <=> (k <= Block \/ k > d)
        BY <4>1, <4>2, <4>3, SoundOf
      <4>5. two = Silence <=> (k <= Block \/ k > Stopped)
        BY <4>1, <4>2, <4>3, SoundOf
      <4>6. two = IF one = Silence THEN Silence ELSE <<one[1], here.volume[0]>>
        BY <3>3, <4>1 DEF Attenuated
      <4>7. one # Silence => one = <<<<0, 0, k - Block>>, Controls(100, 100)[0]>>
        BY <4>1, <4>2, <4>3, SoundOf
      <4>8. one # Silence => two = <<<<0, 0, k - Block>>, here.volume[0]>>
        BY <4>6, <4>7
      <4>9. one # Silence => two # Silence
        <5>1. one # Silence => k - Block \in 1..FRAMES BY <4>4, Lengths
        <5>2. here.volume[0] \in 1..100 BY <3>1, <4>1
        <5> QED BY <5>1, <5>2, <4>1, <4>8, CheckAssumption
      <4> QED BY <4>4, <4>5, <4>6, <4>9
    <3>5. Stopped = d BY <1>6, <3>2, <3>4, SameStop
    <3>6. deaths' = {d} BY <1>1, <3>2, <3>5
    <3> QED BY <3>2, <3>6
  <2> QED BY <1>1, <2>1, <2>2
<1>8. Compared(1)' BY <1>1, <1>7 DEF Compared, Wanted
<1>9. MicAt(r)'
  <2>1. Filled("input", 1)' BY <1>1, <1>5 DEF Filled
  <2> QED BY <2>1, <1>3, <1>4, <1>8 DEF MicAt, M
<1> QED BY <1>2, <1>9 DEF At

-----------------------------------------------------------------------------
\* run is called.
LEMMA WiringBuffers ==
  ASSUME NEW i \in Arrays, NEW o \in Arrays, NEW c \in Channels
  PROVE  /\ MicWiring(i, o).in[c] = <<i, c>> /\ MicWiring(i, o).out[c] = <<o, c>>
         /\ <<i, c>> \in Buffers /\ <<o, c>> \in Buffers /\ <<i, c>> # Nil
BY CheckAssumption DEF MicWiring, Buffers

LEMMA StartCall ==
  ASSUME CallMicRun
  PROVE  /\ micCall'.frames = here.n /\ micCall'.wiring = here.wiring
         /\ {"frames", "live"} \subseteq DOMAIN micCall'
         /\ micCall'.live = (micActive /\ \A c \in Channels : here.wiring.in[c] # Nil)
<1> DEFINE live == micActive /\ \A c \in Channels : here.wiring.in[c] # Nil
<1>1. micCall' = [frames |-> here.n, wiring |-> here.wiring,
                  volume |-> [c \in Channels |-> Mic!PercentOf(here.volume[c])],
                  base |-> micPlayed, live |-> live]
  BY DEF CallMicRun, Mic!StartRun
<1> HIDE DEF live
<1>2. micCall'.frames = here.n /\ micCall'.wiring = here.wiring /\ micCall'.live = live
  BY <1>1
<1>3. {"frames", "live"} \subseteq DOMAIN micCall' BY <1>1
<1> QED BY <1>2, <1>3 DEF live

\* What line l starts, over arrays i and o.
LEMMA StartEffect ==
  ASSUME NEW i \in Arrays, NEW o \in Arrays, CallMicRun, Rest,
         here.wiring = MicWiring(i, o), here.from \in Nat, here.n \in Nat,
         here.from + here.n <= FRAMES
  PROVE  /\ {"frames", "live"} \subseteq DOMAIN micCall'
         /\ micCall'.frames = here.n /\ micCall'.wiring = here.wiring
         /\ (micCall'.live <=> micActive)
         /\ micActive => frame' = 1 /\ \A b \in Buffers, k \in 1..here.n : buf'[b][k] = arrays'[b][here.from + k]
         /\ ~micActive => frame' = here.n + 1
         /\ \A a \in Arrays, c \in Channels, k \in 1..FRAMES :
              arrays'[<<a, c>>][k] = IF ~micActive /\ a = o /\ k \in (here.from + 1)..(here.from + here.n)
                                     THEN Silence ELSE arrays[<<a, c>>][k]
<1>1. /\ micCall'.frames = here.n /\ micCall'.wiring = here.wiring
      /\ {"frames", "live"} \subseteq DOMAIN micCall'
      /\ micCall'.live = (micActive /\ \A c \in Channels : here.wiring.in[c] # Nil)
  BY StartCall
<1>w. \A c \in Channels :
        /\ here.wiring.in[c] = <<i, c>> /\ here.wiring.out[c] = <<o, c>> /\ here.wiring.in[c] # Nil
  <2> TAKE c \in Channels
  <2>1. MicWiring(i, o).in[c] = <<i, c>> /\ MicWiring(i, o).out[c] = <<o, c>> /\ <<i, c>> # Nil
    BY WiringBuffers
  <2> QED BY Zenon, <2>1
<1>2. \A c \in Channels : here.wiring.in[c] # Nil BY <1>w
<1>3. micCall'.live <=> micActive BY <1>1, <1>2
<1>4. /\ micCall'.live => buf' = View(here) /\ frame' = 1
      /\ ~micCall'.live => buf' = Mic!SilencedFrom(View(here), here.wiring, 1) /\ frame' = here.n + 1
      /\ arrays' = Back(here, buf')
  BY DEF CallMicRun, Mic!StartRun
<1>5. \A b \in Buffers, k \in 1..FRAMES :
        /\ View(here)[b][k] = IF k <= here.n THEN arrays[b][here.from + k] ELSE Garbage
        /\ arrays'[b][k] = IF k \in (here.from + 1)..(here.from + here.n) THEN buf'[b][k - here.from]
                           ELSE arrays[b][k]
  BY <1>4 DEF View, Back
<1>6. ASSUME NEW k \in (here.from + 1)..(here.from + here.n)
      PROVE  k \in 1..FRAMES /\ k - here.from \in 1..FRAMES /\ k - here.from <= here.n
             /\ here.from + (k - here.from) = k /\ k - here.from \in 1..here.n
  BY Lengths
<1>7. ASSUME NEW k \in 1..here.n
      PROVE  k \in 1..FRAMES /\ here.from + k \in 1..FRAMES /\ (here.from + k) - here.from = k
             /\ here.from + k \in (here.from + 1)..(here.from + here.n)
  BY Lengths
<1>8. CASE micActive
  <2>1. buf' = View(here) /\ frame' = 1 BY <1>3, <1>4, <1>8
  <2>2. ASSUME NEW b \in Buffers, NEW k \in 1..FRAMES PROVE arrays'[b][k] = arrays[b][k]
    <3>1. CASE k \in (here.from + 1)..(here.from + here.n)
      <4>1. arrays'[b][k] = View(here)[b][k - here.from] BY <1>5, <2>1, <3>1
      <4> QED BY <4>1, <1>5, <1>6, <3>1
    <3>2. CASE k \notin (here.from + 1)..(here.from + here.n) BY <1>5, <3>2
    <3> QED BY <3>1, <3>2
  <2>3. \A b \in Buffers, k \in 1..here.n : buf'[b][k] = arrays'[b][here.from + k]
    <3> TAKE b \in Buffers, k \in 1..here.n
    <3>1. arrays'[b][here.from + k] = buf'[b][(here.from + k) - here.from] BY <1>5, <1>7
    <3> QED BY <3>1, <1>7
  <2>4. \A a \in Arrays, c \in Channels : <<a, c>> \in Buffers BY DEF Buffers
  <2> QED BY <1>1, <1>3, <1>8, <2>1, <2>2, <2>3, <2>4
<1>9. CASE ~micActive
  <2>1. buf' = Mic!SilencedFrom(View(here), here.wiring, 1) /\ frame' = here.n + 1 BY <1>3, <1>4, <1>9
  <2>2. ASSUME NEW a \in Arrays, NEW c \in Channels, NEW k \in 1..FRAMES
        PROVE  arrays'[<<a, c>>][k] = IF a = o /\ k \in (here.from + 1)..(here.from + here.n)
                                      THEN Silence ELSE arrays[<<a, c>>][k]
    <3>0. <<a, c>> \in Buffers /\ (a = o <=> \E d \in Channels : here.wiring.out[d] = <<a, c>>)
      <4>1. \A d \in Channels : here.wiring.out[d] = <<o, d>> BY <1>w
      <4> QED BY <4>1 DEF Buffers
    <3>1. CASE k \in (here.from + 1)..(here.from + here.n)
      <4> DEFINE j == k - here.from
      <4>1. arrays'[<<a, c>>][k] = buf'[<<a, c>>][j] BY <1>5, <3>0, <3>1
      <4>2. j \in 1..FRAMES /\ j <= here.n /\ here.from + j = k BY <1>6, <3>1
      <4> HIDE DEF j
      <4>3. View(here)[<<a, c>>][j] = arrays[<<a, c>>][k] BY <4>2, <3>0, <1>5
      <4>4. buf'[<<a, c>>][j] = IF a = o THEN Silence ELSE View(here)[<<a, c>>][j]
        BY <2>1, <3>0, <4>2, <1>1 DEF Mic!SilencedFrom
      <4> QED BY <4>1, <4>3, <4>4, <3>1
    <3>2. CASE k \notin (here.from + 1)..(here.from + here.n) BY <1>5, <3>0, <3>2
    <3> QED BY <3>1, <3>2
  <2> QED BY <1>1, <1>3, <1>9, <2>1, <2>2
<1> QED BY <1>8, <1>9

\* A stream that is written to array o leaves the others as they were.
LEMMA OthersKept ==
  ASSUME NEW o \in {"output", "reference"}, NEW ref, ref = 0 \/ o = "output", deaths' = deaths,
         \A a \in Arrays \ {o}, c \in Channels, k \in 1..FRAMES : arrays'[<<a, c>>][k] = arrays[<<a, c>>][k],
         Filled("input", 1), Compared(ref)
  PROVE  Filled("input", 1)' /\ Compared(ref)'
<1>1. \A c \in Channels, k \in 1..FRAMES : arrays'[<<"input", c>>][k] = arrays[<<"input", c>>][k]
  BY DEF Arrays
<1>2. Filled("input", 1)' BY <1>1 DEF Filled
<1>3. CASE ref = 0 BY <1>2, <1>3 DEF Compared
<1>4. CASE o = "output"
  <2>1. \A c \in Channels, k \in 1..FRAMES : arrays'[<<"reference", c>>][k] = arrays[<<"reference", c>>][k]
    BY <1>4 DEF Arrays
  <2> QED BY <1>2, <2>1 DEF Compared, Wanted
<1> QED BY <1>3, <1>4

\* A volume is read from the line.
LEMMA PercentHeard ==
  ASSUME NEW v
  PROVE  Mic!PercentOf(v) # -1
<1>1. CASE v = -1 BY <1>1, CheckAssumption DEF Mic!PercentOf
<1>2. CASE v # -1 BY <1>2 DEF Mic!PercentOf
<1> QED BY <1>1, <1>2

LEMMA StartSync ==
  ASSUME NEW i \in Arrays, NEW o \in Arrays, CallMicRun, Rest, last' = here,
         here.wiring = MicWiring(i, o), here.from \in Nat, here.n \in Nat,
         here.from + here.n <= FRAMES
  PROVE  Sync' /\ (~Mic!Idle => micActive)' /\ last'.wiring = MicWiring(i, o)
<1>1. here.do = "mic_run" BY DEF CallMicRun, Turn
<1>2. micActive' = micActive BY DEF CallMicRun, Mic!StartRun
<1>3. CASE ~micActive
  <2>1. Mic!Idle' BY <1>3, StartEffect DEF Mic!Idle
  <2> QED BY <2>1 DEF Sync
<1>4. CASE micActive
  <2>1. /\ micCall'.frames = here.n /\ micCall'.wiring = here.wiring /\ frame' = 1
        /\ \A b \in Buffers, k \in 1..here.n : buf'[b][k] = arrays'[b][here.from + k]
    BY <1>4, StartEffect
  <2>2. ~Mic!Idle' => here.n >= 1 BY <2>1 DEF Mic!Idle
  <2>3. Sync' BY <1>1, <2>1, <2>2 DEF Sync
  <2> QED BY <1>2, <1>4, <2>3
<1> QED BY <1>3, <1>4

\* The first piece of a stream, or the next.
LEMMA RunStreamStep ==
  ASSUME NEW q, NEW i \in Arrays, NEW o \in Arrays, NEW volume, NEW from \in Nat, NEW n \in Nat,
         here.volume = volume, here.from = from, here.n = n, CallMicRun, Rest, last'.wiring = MicWiring(i, o),
         last'.from = from, last'.n = n, (~Mic!Idle => micActive)', Mic!Idle,
         here.wiring = MicWiring(i, o), from + n <= FRAMES, MicAt(q),
         \/ q.mic = "open" /\ i = "input" /\ from = 0
         \/ q.mic = "copied" /\ i = "output" /\ from = 0
         \/ /\ q.mic = "stream" /\ i = q.run.in /\ o = q.run.out
            /\ volume = q.run.volume /\ from = q.run.done
  PROVE  Streaming([in |-> i, out |-> o, volume |-> volume, done |-> from + n])'
<1> DEFINE run == [in |-> i, out |-> o, volume |-> volume, done |-> from + n]
           v == Percents(volume)
<1>1. /\ micActive' = micActive /\ dead' = dead /\ micPlayed' = micPlayed /\ offset' = offset
      /\ micInput' = micInput /\ micOutput' = micOutput
      /\ \A c \in Channels : micPercent'[c] = v[c]
      /\ \A c \in Channels : micGain'[c] = IF v[c] # micPercent[c] THEN v[c] ELSE micGain[c]
  BY DEF CallMicRun, Mic!StartRun, Percents
<1>2. Stopped' = Stopped BY <1>1 DEF Stopped
<1>3. Windows' = Windows BY <1>1 DEF Windows
<1>p. /\ q.mic \in {"open", "copied"} => Opened
      /\ q.mic = "stream" => Streaming(q.run) /\ q.run.done - (micCall.frames + 1 - frame) = from
  <2>1. micCall.frames + 1 - frame = 0 BY DEF Rest, Mic!Idle
  <2> QED BY <2>1 DEF MicAt
<1>4. Wanted(o, Stopped, v, from)
  <2>1. CASE from = 0 BY <2>1 DEF Wanted
  <2>2. CASE q.mic = "stream" BY <2>2, <1>p DEF Streaming
  <2> QED BY <2>1, <2>2
<1>5. ~micActive => Stopped \in Nat /\ Stopped <= from
  <2>1. ~micActive => dead = Mic!NoFailure \/ (dead \in Nat /\ dead <= from)
    <3>1. CASE q.mic \in {"open", "copied"} BY <3>1, <1>p DEF Opened
    <3>2. CASE q.mic = "stream" BY <3>2, <1>p, Lengths DEF Streaming
    <3> QED BY <3>1, <3>2
  <2> QED BY <2>1 DEF Stopped
<1>6. /\ micActive => micPlayed = from /\ dead = Mic!NoFailure /\ Windows /\ Filled(i, from + 1)
      /\ ~micActive => dead = Mic!NoFailure \/ (dead \in Blocks /\ dead <= from)
      /\ \A c \in Channels : micPercent[c] = -1 \/ (micActive => micPercent[c] = v[c] /\ micGain[c] = v[c])
  <2>1. CASE q.mic \in {"open", "copied"}
    <3>1. Opened /\ from = 0 BY <2>1, <1>p
    <3>2. Filled(i, 1) BY <2>1 DEF MicAt
    <3> QED BY <3>1, <3>2 DEF Opened
  <2>2. CASE q.mic = "stream" BY <2>2, <1>p DEF Streaming
  <2> QED BY <2>1, <2>2
<1>7. ASSUME NEW c \in Channels, micActive PROVE micPercent'[c] = v[c] /\ micGain'[c] = v[c]
  <2>1. v[c] # -1 BY PercentHeard DEF Percents
  <2> QED BY <1>1, <1>6, <1>7, <2>1
<1>8. CASE micActive
  <2>1. /\ micCall'.frames = n /\ frame' = 1
        /\ \A a \in Arrays, c \in Channels, k \in 1..FRAMES : arrays'[<<a, c>>][k] = arrays[<<a, c>>][k]
    BY <1>8, StartEffect
  <2>2. from + n - (micCall'.frames + 1 - frame') = from
    BY <2>1
  <2>3. Filled(i, from + 1)'
    <3>1. \A k \in (from + 1)..FRAMES : k \in 1..FRAMES BY Lengths
    <3> QED BY <1>6, <1>8, <2>1, <3>1 DEF Filled
  <2>4. Wanted(o, Stopped, v, from)'
    <3>1. \A k \in 1..from : k \in 1..FRAMES BY Lengths
    <3>2. Wanted(o, Stopped', v, from) BY <1>4, <1>2
    <3> QED BY <2>1, <3>1, <3>2 DEF Wanted
  <2>5. run.in = i /\ run.out = o /\ run.volume = volume /\ run.done = from + n OBVIOUS
  <2>6. micActive' /\ dead' = Mic!NoFailure /\ micPlayed' = from /\ Windows'
    BY <1>1, <1>3, <1>6, <1>8
  <2>7. (~Mic!Idle => micActive /\ last.wiring = MicWiring(i, o) /\ run.done = last.from + last.n)'
    BY <2>5, <2>6
  <2>8. \A c \in Channels : micPercent'[c] = v[c] /\ micGain'[c] = v[c] BY <1>7, <1>8
  <2> HIDE DEF run
  <2>a. run.done - (micCall'.frames + 1 - frame') = from BY <2>1, <2>5
  <2>b. Wanted(run.out, Stopped, Percents(run.volume), run.done - (micCall.frames + 1 - frame))'
    BY <2>a, <2>4, <2>5 DEF Wanted
  <2>c. (micActive =>
           /\ micPlayed = run.done - (micCall.frames + 1 - frame) /\ dead = Mic!NoFailure /\ Windows
           /\ Filled(run.in, run.done - (micCall.frames + 1 - frame) + 1)
           /\ \A c \in Channels : micPercent[c] = Percents(run.volume)[c] /\ micGain[c] = Percents(run.volume)[c])'
    BY <2>a, <2>3, <2>5, <2>6, <2>8 DEF Filled
  <2>d. (~Mic!Idle => /\ micActive /\ last.wiring = MicWiring(run.in, run.out)
                      /\ run.done = last.from + last.n)'
    BY <2>5, <2>6, <2>7
  <2>e. (~micActive => dead = Mic!NoFailure \/ (dead \in Blocks /\ dead <= run.done))'
    BY <2>6
  <2>9. Streaming(run)'
    BY <2>b, <2>c, <2>d, <2>e DEF Streaming
  <2> QED BY <2>9 DEF run
<1>9. CASE ~micActive
  <2>1. /\ micCall'.frames = n /\ frame' = n + 1
        /\ \A c \in Channels, k \in 1..FRAMES :
             arrays'[<<o, c>>][k] = IF k \in (from + 1)..(from + n) THEN Silence
                                    ELSE arrays[<<o, c>>][k]
    BY <1>9, StartEffect
  <2>2. from + n - (micCall'.frames + 1 - frame') = from + n
    BY <2>1
  <2>4. Wanted(o, Stopped, v, from + n)'
    <3> SUFFICES ASSUME NEW c \in Channels, NEW k \in 1..(from + n)
                 PROVE  arrays'[<<o, c>>][k] = Want(Stopped', v, c, k)
      BY DEF Wanted
    <3>1. k \in 1..FRAMES BY Lengths
    <3>2. CASE k \in (from + 1)..(from + n)
      <4>1. k > Stopped' BY <1>2, <1>5, <1>9, <3>2
      <4> QED BY <2>1, <3>1, <3>2, <4>1 DEF Want
    <3>3. CASE k \in 1..from
      BY <1>2, <1>4, <2>1, <3>1, <3>3 DEF Wanted
    <3> QED BY <3>2, <3>3
  <2>5. run.in = i /\ run.out = o /\ run.volume = volume /\ run.done = from + n OBVIOUS
  <2>6. ~micActive' /\ Mic!Idle' BY <1>1, <1>9, <2>1 DEF Mic!Idle
  <2>7. dead' = Mic!NoFailure \/ (dead' \in Blocks /\ dead' <= from + n)
    <3>1. dead \in Blocks => dead \in Nat BY Lengths
    <3> QED BY <3>1, <1>1, <1>6, <1>9
  <2> HIDE DEF run
  <2>a. run.done - (micCall'.frames + 1 - frame') = from + n BY <2>1, <2>5
  <2>b. Wanted(run.out, Stopped, Percents(run.volume), run.done - (micCall.frames + 1 - frame))'
    BY <2>a, <2>4, <2>5 DEF Wanted
  <2>e. (~micActive => dead = Mic!NoFailure \/ (dead \in Blocks /\ dead <= run.done))'
    BY <2>5, <2>7
  <2>9. Streaming(run)'
    BY <2>b, <2>e, <2>6 DEF Streaming
  <2> QED BY <2>9 DEF run
<1> QED BY <1>8, <1>9

LEMMA CallMicRunStep ==
  ASSUME NEW q, NEW r, At(q), Step(q, here, r), CallMicRun, Rest, last' = here
  PROVE  At(r)' /\ {"frames", "live"} \subseteq DOMAIN micCall' /\ micCall'.frames \in Nat
<1>1. /\ here.do = "mic_run" /\ Mic!Idle /\ UNCHANGED <<dspVars, deaths>> /\ Lost' = Lost
  BY DEF CallMicRun, Turn, Returned, Lost
<1>2. DspAt(r)' /\ NoteOK(r)' /\ MicStep(q, here, r)
  BY <1>1, MicDspFrame DEF MicDo
<1>3. RunStep(q, here, r) BY <1>1, <1>2 DEF MicStep
<1>4. here.from \in Nat /\ here.n \in Nat /\ here.from + here.n <= FRAMES BY <1>3 DEF RunStep
<1>5. {"frames", "live"} \subseteq DOMAIN micCall' /\ micCall'.frames = here.n BY StartCall
<1>6. CASE q.mic = "ready" /\ here.wiring = MicWiring("input", "output") /\ r = q
  <2>1. "input" \in Arrays /\ "output" \in Arrays BY DEF Arrays
  <2>2. Sync' /\ last'.wiring = MicWiring("input", "output")
    BY <1>4, <1>6, <2>1, StartSync
  <2>3. Filled("input", 1) /\ Compared(q.ref) BY <1>6 DEF At, MicAt
  <2>4. Filled("input", 1)' /\ Compared(q.ref)'
    <3>0. \A a \in Arrays, c \in Channels, k \in 1..FRAMES :
              arrays'[<<a, c>>][k] = IF ~micActive /\ a = "output" /\ k \in (here.from + 1)..(here.from + here.n)
                                     THEN Silence ELSE arrays[<<a, c>>][k]
      BY <1>4, <1>6, <2>1, StartEffect
    <3>1. \A a \in Arrays \ {"output"}, c \in Channels, k \in 1..FRAMES : arrays'[<<a, c>>][k] = arrays[<<a, c>>][k]
      BY <3>0
    <3> QED BY <3>1, <2>3, <1>1, OthersKept
  <2>5. MicAt(q)' BY <1>6, <2>2, <2>4 DEF MicAt
  <2> QED BY <1>2, <1>4, <1>5, <1>6, <2>5 DEF At
<1>7. CASE q.mic = "done" /\ r = q
  <2>1. MicAt(q)' BY <1>1, <1>7 DEF At, MicAt
  <2> QED BY <1>2, <1>4, <1>5, <1>7, <2>1 DEF At
<1>8. ASSUME NEW i \in Arrays, NEW o \in Arrays,
             here.wiring = MicWiring(i, o),
             r = M("stream", q.ref, [in |-> i, out |-> o, volume |-> here.volume, done |-> here.from + here.n]),
             \/ q.mic = "open" /\ i = "input" /\ here.from = 0
                /\ (o = "output" \/ (o = "reference" /\ q.ref = 0))
             \/ q.mic = "copied" /\ i = "output" /\ o = "output" /\ here.from = 0
             \/ /\ q.mic = "stream" /\ i = q.run.in /\ o = q.run.out
                /\ here.volume = q.run.volume /\ here.from = q.run.done
      PROVE  MicAt(r)'
  <2>1. Sync' /\ last'.wiring = MicWiring(i, o) /\ (~Mic!Idle => micActive)'
    BY <1>4, <1>8, StartSync
  <2>2. PICK volume, from, n : volume = here.volume /\ from = here.from /\ n = here.n OBVIOUS
  <2>3. Streaming([in |-> i, out |-> o, volume |-> volume, done |-> from + n])'
    BY <1>1, <1>4, <1>8, <2>1, <2>2, RunStreamStep DEF At
  <2>4. q.mic \in {"open", "copied", "stream"} /\ Filled("input", 1) /\ Compared(q.ref)
    BY <1>8 DEF At, MicAt
  <2>5. o \in {"output", "reference"} /\ (q.ref = 0 \/ o = "output")
    BY <1>8 DEF At, NoteOK
  <2>6. Filled("input", 1)' /\ Compared(q.ref)'
    <3>0. \A a \in Arrays, c \in Channels, k \in 1..FRAMES :
              arrays'[<<a, c>>][k] = IF ~micActive /\ a = o /\ k \in (here.from + 1)..(here.from + here.n)
                                     THEN Silence ELSE arrays[<<a, c>>][k]
      BY <1>4, <1>8, StartEffect
    <3>1. \A a \in Arrays \ {o}, c \in Channels, k \in 1..FRAMES : arrays'[<<a, c>>][k] = arrays[<<a, c>>][k]
      BY <3>0
    <3> QED BY <3>1, <2>4, <2>5, <1>1, OthersKept
  <2>7. r = M("stream", q.ref, [in |-> i, out |-> o, volume |-> volume, done |-> from + n])
    BY <1>8, <2>2
  <2> QED BY <2>1, <2>3, <2>6, <2>7 DEF MicAt, M
<1>9. CASE \E i, o \in Arrays :
             /\ here.wiring = MicWiring(i, o)
             /\ r = M("stream", q.ref, [in |-> i, out |-> o, volume |-> here.volume,
                                        done |-> here.from + here.n])
             /\ \/ q.mic = "open" /\ i = "input" /\ here.from = 0
                   /\ (o = "output" \/ (o = "reference" /\ q.ref = 0))
                \/ q.mic = "copied" /\ i = "output" /\ o = "output" /\ here.from = 0
                \/ /\ q.mic = "stream" /\ i = q.run.in /\ o = q.run.out
                   /\ here.volume = q.run.volume /\ here.from = q.run.done
  BY <1>2, <1>4, <1>5, <1>8, <1>9 DEF At
<1> QED BY <1>3, <1>6, <1>7, <1>9 DEF RunStep

-----------------------------------------------------------------------------
\* A frame is written to the outputs of its call and nowhere else.
LEMMA WrittenTo ==
  ASSUME NEW i \in Arrays, NEW o \in Arrays, micCall.wiring = MicWiring(i, o), NEW j,
         NEW a \in Arrays, NEW c \in Channels, NEW k \in 1..FRAMES
  PROVE  Mic!Written(buf, micCall.wiring, j)[<<a, c>>][k]
           = IF k = j /\ a = o THEN Mic!Scaled(micOutput[c][offset], micGain[c]) ELSE buf[<<a, c>>][k]
<1>1. \A d \in Channels : micCall.wiring.out[d] = <<o, d>>
  <2> TAKE d \in Channels
  <2>1. MicWiring(i, o).out[d] = <<o, d>> BY WiringBuffers
  <2> QED BY Zenon, <2>1
<1>2. <<a, c>> \in Buffers BY DEF Buffers
<1>3. (\E d \in Channels : micCall.wiring.out[d] = <<a, c>>) <=> a = o BY <1>1
<1> DEFINE e == CHOOSE d \in Channels : micCall.wiring.out[d] = <<a, c>>
<1>4. a = o => e = c BY <1>1
<1>5. Mic!Written(buf, micCall.wiring, j)[<<a, c>>][k]
        = IF k = j /\ \E d \in Channels : micCall.wiring.out[d] = <<a, c>>
          THEN Mic!Scaled(micOutput[e][offset], micGain[e]) ELSE buf[<<a, c>>][k]
  BY <1>2 DEF Mic!Written
<1> HIDE DEF e
<1> QED BY <1>3, <1>4, <1>5

LEMMA BackTo ==
  ASSUME NEW m, arrays' = Back(last, m), last.from \in Nat, last.n \in Nat, last.from + last.n <= FRAMES,
         NEW b \in Buffers
  PROVE  /\ \A k \in 1..last.n : arrays'[b][last.from + k] = m[b][k] /\ k \in 1..FRAMES
         /\ \A k \in 1..FRAMES : k \notin (last.from + 1)..(last.from + last.n) => arrays'[b][k] = arrays[b][k]
<1>1. \A k \in 1..FRAMES :
        arrays'[b][k] = IF k \in (last.from + 1)..(last.from + last.n) THEN m[b][k - last.from] ELSE arrays[b][k]
  BY DEF Back
<1>2. ASSUME NEW k \in 1..last.n
      PROVE  k \in 1..FRAMES /\ last.from + k \in 1..FRAMES /\ (last.from + k) - last.from = k
             /\ last.from + k \in (last.from + 1)..(last.from + last.n)
  BY Lengths
<1>3. ASSUME NEW k \in 1..last.n PROVE arrays'[b][last.from + k] = m[b][k]
  BY <1>1, <1>2
<1> QED BY <1>1, <1>2, <1>3

\* What one frame does to the arrays.
LEMMA FrameEffect ==
  ASSUME NEW i \in Arrays, NEW o \in Arrays, InsideMic, Sync, ~Mic!Idle,
         last.wiring = MicWiring(i, o), NEW fails \in {0, 1},
         \/ fails = 0 /\ (Mic!Frame \/ Mic!Process)
         \/ fails = 1 /\ Mic!ProcessFails
  PROVE  /\ \A a \in Arrays, c \in Channels, k \in 1..FRAMES :
              arrays'[<<a, c>>][k] =
                IF a = o /\ k = last.from + frame THEN Mic!Scaled(micOutput[c][offset], micGain[c])
                ELSE IF a = o /\ fails = 1 /\ k \in (last.from + frame + 1)..(last.from + last.n) THEN Silence
                ELSE arrays[<<a, c>>][k]
         /\ \A a \in Arrays, c \in Channels, k \in 1..last.n :
              buf'[<<a, c>>][k] = arrays'[<<a, c>>][last.from + k]
<1> DEFINE n == last.n
           from == last.from
           sound(c) == Mic!Scaled(micOutput[c][offset], micGain[c])
<1>1. /\ micCall.wiring = MicWiring(i, o) /\ micCall.frames = n /\ from \in Nat /\ n \in Nat
      /\ from + n <= FRAMES /\ frame \in 1..n
      /\ \A b \in Buffers, k \in 1..n : buf[b][k] = arrays[b][from + k]
  BY DEF Sync
<1>2. arrays' = Back(last, buf') /\ micCall' = micCall
  BY DEF InsideMic, Mic!Frame, Mic!Process, Mic!ProcessFails, Mic!host
<1>3. \A a \in Arrays, c \in Channels : <<a, c>> \in Buffers BY DEF Buffers
<1>4. ASSUME NEW a \in Arrays, NEW c \in Channels, NEW k \in 1..n
      PROVE  /\ arrays'[<<a, c>>][from + k] = buf'[<<a, c>>][k]
             /\ k \in 1..FRAMES
             /\ buf[<<a, c>>][k] = arrays[<<a, c>>][from + k]
             /\ Mic!Written(buf, micCall.wiring, frame)[<<a, c>>][k]
                  = IF k = frame /\ a = o THEN sound(c) ELSE buf[<<a, c>>][k]
  <2>1. k \in 1..FRAMES BY <1>1, Lengths
  <2> QED BY <2>1, <1>1, <1>2, <1>3, BackTo, WrittenTo
<1>5. ASSUME NEW a \in Arrays, NEW c \in Channels, NEW k \in 1..n
      PROVE  buf'[<<a, c>>][k] =
               IF a = o /\ k = frame THEN sound(c)
               ELSE IF a = o /\ fails = 1 /\ k > frame THEN Silence
               ELSE arrays[<<a, c>>][from + k]
  <2>1. CASE fails = 0 /\ (Mic!Frame \/ Mic!Process)
    <3>1. buf' = Mic!Written(buf, micCall.wiring, frame) BY <2>1 DEF Mic!Frame, Mic!Process
    <3> QED BY <3>1, <2>1, <1>4
  <2>2. CASE fails = 1 /\ Mic!ProcessFails
    <3>1. buf' = Mic!SilencedFrom(Mic!Written(buf, micCall.wiring, frame), micCall.wiring, frame + 1)
      BY <2>2 DEF Mic!ProcessFails
    <3> DEFINE b == Mic!Written(buf, micCall.wiring, frame)
    <3>2. (\E d \in Channels : micCall.wiring.out[d] = <<a, c>>) <=> a = o
      <4>1. \A d \in Channels : micCall.wiring.out[d] = <<o, d>>
        <5> TAKE d \in Channels
        <5>1. MicWiring(i, o).out[d] = <<o, d>> BY WiringBuffers
        <5> QED BY Zenon, <5>1, <1>1
      <4> QED BY <4>1
    <3> HIDE DEF b
    <3>3. buf'[<<a, c>>][k] = IF a = o /\ frame + 1 <= k THEN Silence ELSE b[<<a, c>>][k]
      <4>1. buf' = Mic!SilencedFrom(b, micCall.wiring, frame + 1) BY <3>1 DEF b
      <4>2. micCall'.frames = n /\ k <= n /\ k \in 1..FRAMES /\ <<a, c>> \in Buffers BY <1>1, <1>2, <1>3, <1>4
      <4> QED BY <3>2, <4>1, <4>2 DEF Mic!SilencedFrom
    <3> QED BY <3>3, <1>1, <1>4, <2>2 DEF b
  <2> QED BY <2>1, <2>2
<1>6. ASSUME NEW a \in Arrays, NEW c \in Channels, NEW k \in 1..FRAMES
      PROVE  arrays'[<<a, c>>][k] =
               IF a = o /\ k = from + frame THEN sound(c)
               ELSE IF a = o /\ fails = 1 /\ k \in (from + frame + 1)..(from + n) THEN Silence
               ELSE arrays[<<a, c>>][k]
  <2>1. CASE k \in (from + 1)..(from + n)
    <3> DEFINE j == k - from
    <3>1. j \in 1..n /\ from + j = k BY <2>1, <1>1
    <3>2. (k = from + frame <=> j = frame) /\ (k \in (from + frame + 1)..(from + n) <=> j > frame)
      BY <2>1, <1>1
    <3> HIDE DEF j
    <3> QED BY <3>1, <3>2, <1>4, <1>5
  <2>2. CASE k \notin (from + 1)..(from + n)
    <3>1. arrays'[<<a, c>>][k] = arrays[<<a, c>>][k] BY <2>2, <1>1, <1>2, <1>3, BackTo
    <3>2. k # from + frame /\ k \notin (from + frame + 1)..(from + n) BY <2>2, <1>1
    <3> QED BY <3>1, <3>2
  <2> QED BY <2>1, <2>2
<1> QED BY <1>4, <1>6

\* The two cases of it: a frame that APM takes, and one that it fails on.
LEMMA FrameSounds ==
  ASSUME NEW i \in Arrays, NEW o \in Arrays, InsideMic, Sync, ~Mic!Idle,
         last.wiring = MicWiring(i, o), Mic!Frame \/ Mic!Process,
         NEW a \in Arrays, NEW c \in Channels, NEW k \in 1..FRAMES
  PROVE  /\ a = o /\ k = last.from + frame =>
              arrays'[<<a, c>>][k] = Mic!Scaled(micOutput[c][offset], micGain[c])
         /\ ~(a = o /\ k = last.from + frame) => arrays'[<<a, c>>][k] = arrays[<<a, c>>][k]
<1>1. PICK fails \in {0, 1} : fails = 0 OBVIOUS
<1>2. fails # 1 BY <1>1
<1>3. \/ fails = 0 /\ (Mic!Frame \/ Mic!Process)
      \/ fails = 1 /\ Mic!ProcessFails
  BY Zenon, <1>1
<1>4. arrays'[<<a, c>>][k] =
        IF a = o /\ k = last.from + frame THEN Mic!Scaled(micOutput[c][offset], micGain[c])
        ELSE IF a = o /\ fails = 1 /\ k \in (last.from + frame + 1)..(last.from + last.n) THEN Silence
        ELSE arrays[<<a, c>>][k]
  BY <1>3, FrameEffect
<1> QED BY Zenon, <1>2, <1>4

LEMMA FrameSilences ==
  ASSUME NEW i \in Arrays, NEW o \in Arrays, InsideMic, Sync, ~Mic!Idle,
         last.wiring = MicWiring(i, o), Mic!ProcessFails,
         NEW a \in Arrays, NEW c \in Channels, NEW k \in 1..FRAMES
  PROVE  /\ a = o /\ k = last.from + frame =>
              arrays'[<<a, c>>][k] = Mic!Scaled(micOutput[c][offset], micGain[c])
         /\ a = o /\ k # last.from + frame /\ k \in (last.from + frame + 1)..(last.from + last.n) =>
              arrays'[<<a, c>>][k] = Silence
         /\ ~(a = o /\ k = last.from + frame)
              /\ ~(a = o /\ k \in (last.from + frame + 1)..(last.from + last.n)) =>
              arrays'[<<a, c>>][k] = arrays[<<a, c>>][k]
<1>1. PICK fails \in {0, 1} : fails = 1 OBVIOUS
<1>3. \/ fails = 0 /\ (Mic!Frame \/ Mic!Process)
      \/ fails = 1 /\ Mic!ProcessFails
  BY Zenon, <1>1
<1>4. arrays'[<<a, c>>][k] =
        IF a = o /\ k = last.from + frame THEN Mic!Scaled(micOutput[c][offset], micGain[c])
        ELSE IF a = o /\ fails = 1 /\ k \in (last.from + frame + 1)..(last.from + last.n) THEN Silence
        ELSE arrays[<<a, c>>][k]
  BY <1>3, FrameEffect
<1> QED BY Zenon, <1>1, <1>4

\* What a frame sounds like is what the stream wants there.
LEMMA SoundWanted ==
  ASSUME Windows, micPlayed \in Nat, micPlayed < FRAMES, NEW v, NEW c \in Channels, micGain[c] = v[c],
         NEW d, d \in Nat, d > micPlayed
  PROVE  Mic!Scaled(micOutput[c][offset], micGain[c]) = Want(d, v, c, micPlayed + 1)
<1>1. offset \in 0..(Block - 1) /\ micOutput[c][offset] = Source(c, micPlayed - offset + offset - Block)
  BY Lengths DEF Windows
<1>2. micPlayed - offset + offset - Block = micPlayed - Block BY <1>1, Lengths
<1>3. CASE micPlayed + 1 <= Block
  <2>1. micPlayed - Block < 0 BY <1>3, Lengths
  <2>2. micOutput[c][offset] = Silence BY <1>1, <1>2, <2>1 DEF Source
  <2> QED BY <1>3, <2>2 DEF Want, Mic!Scaled
<1>4. CASE ~(micPlayed + 1 <= Block)
  <2> DEFINE k == micPlayed + 1
  <2>1. ~(micPlayed - Block < 0) /\ micPlayed - Block + 1 = k - Block BY <1>4, Lengths
  <2>2. micOutput[c][offset] = <<0, c, k - Block>> BY <1>1, <1>2, <2>1 DEF Source
  <2>3. ~(k <= Block \/ k > d) BY <1>4
  <2> HIDE DEF k
  <2>4. Want(d, v, c, k) = Mic!Scaled(<<0, c, k - Block>>, v[c]) BY <2>3 DEF Want
  <2> QED BY <2>2, <2>4 DEF k
<1> QED BY <1>3, <1>4

\* One frame more in the blocks.
LEMMA WindowsNext ==
  ASSUME NEW i \in Arrays, Windows, Sync, ~Mic!Idle, NEW o, last.wiring = MicWiring(i, o), o \in Arrays,
         micPlayed \in Nat, micPlayed + 1 <= FRAMES, last.from + frame = micPlayed + 1, Filled(i, micPlayed + 1),
         Mic!Frame \/ Mic!Process
  PROVE  Windows'
<1>1. /\ offset \in 0..(Block - 1)
      /\ \A c \in Channels : DOMAIN micInput[c] = 0..(Block - 1)
      /\ \A c \in Channels, j \in 0..(Block - 1) :
           /\ j < offset => micInput[c][j] = Source(c, micPlayed - offset + j)
           /\ j >= offset => micOutput[c][j] = Source(c, micPlayed - offset + j - Block)
  BY DEF Windows
<1>2. PICK m \in Nat : micPlayed = m * Block + offset BY DEF Windows
<1>3. /\ micInput' = Mic!Collected(buf, micCall.wiring, frame) /\ micPlayed' = micPlayed + 1
  BY DEF Mic!Frame, Mic!Process
<1>4. ASSUME NEW c \in Channels
      PROVE  /\ DOMAIN micInput'[c] = 0..(Block - 1)
             /\ \A j \in 0..(Block - 1) : j <= offset => micInput'[c][j] = Source(c, micPlayed - offset + j)
  <2>1. micCall.wiring.in[c] = <<i, c>>
    <3>1. micCall.wiring = MicWiring(i, o) BY DEF Sync
    <3>2. MicWiring(i, o).in[c] = <<i, c>> BY WiringBuffers
    <3> QED BY Zenon, <3>1, <3>2
  <2>2. buf[<<i, c>>][frame] = <<0, c, micPlayed + 1>>
    <3>1. frame \in 1..last.n /\ <<i, c>> \in Buffers BY DEF Sync, Buffers
    <3>2. buf[<<i, c>>][frame] = arrays[<<i, c>>][micPlayed + 1] BY <3>1 DEF Sync
    <3>3. micPlayed + 1 \in (micPlayed + 1)..FRAMES BY Lengths
    <3> QED BY <3>2, <3>3 DEF Filled
  <2>3. micInput'[c] = [micInput[c] EXCEPT ![offset] = <<0, c, micPlayed + 1>>]
    BY <1>3, <2>1, <2>2 DEF Mic!Collected
  <2>4. Source(c, micPlayed - offset + offset) = <<0, c, micPlayed + 1>>
    <3>1. micPlayed - offset + offset = micPlayed /\ ~(micPlayed < 0) BY <1>1, Lengths
    <3> QED BY <3>1 DEF Source
  <2>5. ASSUME NEW j \in 0..(Block - 1), j <= offset
        PROVE  micInput'[c][j] = Source(c, micPlayed - offset + j)
    <3>1. CASE j = offset BY <3>1, <1>1, <2>3, <2>4
    <3>2. CASE j # offset
      <4>1. j < offset BY <3>2, <2>5, <1>1, Lengths
      <4>2. micInput'[c][j] = micInput[c][j] BY <1>1, <2>3, <3>2
      <4> QED BY <1>1, <4>1, <4>2
    <3> QED BY <3>1, <3>2
  <2> QED BY <1>1, <2>3, <2>5
<1>5. CASE Mic!Frame
  <2>1. offset + 1 < Block /\ offset' = offset + 1 /\ micOutput' = micOutput BY <1>5 DEF Mic!Frame
  <2>2. /\ offset' \in 0..(Block - 1) /\ micPlayed' - offset' = micPlayed - offset
        /\ micPlayed' = m * Block + offset'
        /\ \A j \in 0..(Block - 1) : (j < offset' <=> j <= offset) /\ (j >= offset' => j >= offset)
    <3> DEFINE b == m * Block
    <3>1. b \in Nat BY <1>2, Lengths
    <3> HIDE DEF b
    <3> QED BY <3>1, <1>1, <1>2, <1>3, <2>1, Lengths DEF b
  <2>3. \A c \in Channels, j \in 0..(Block - 1) :
           /\ j < offset' => micInput'[c][j] = Source(c, micPlayed' - offset' + j)
           /\ j >= offset' => micOutput'[c][j] = Source(c, micPlayed' - offset' + j - Block)
    BY <1>1, <1>4, <2>1, <2>2
  <2> QED BY <1>2, <1>4, <2>2, <2>3 DEF Windows
<1>6. CASE Mic!Process
  <2>1. offset + 1 = Block /\ offset' = 0 /\ micOutput' = micInput' BY <1>6 DEF Mic!Process
  <2>2. micPlayed' = (m + 1) * Block + 0
    <3> DEFINE b == m * Block
    <3>1. b \in Nat /\ (m + 1) * Block = b + Block BY <1>2, Lengths
    <3>2. micPlayed = b + offset BY <1>2
    <3> HIDE DEF b
    <3> QED BY <3>1, <3>2, <1>1, <1>3, <2>1, Lengths
  <2>3. 0 \in 0..(Block - 1) /\ m + 1 \in Nat BY Lengths
  <2>4. \A j \in 0..(Block - 1) :
          /\ ~(j < 0) /\ j <= offset /\ micPlayed' - 0 + j - Block = micPlayed - offset + j
    BY <1>1, <1>3, <2>1, Lengths
  <2>5. \A c \in Channels, j \in 0..(Block - 1) :
           /\ j < offset' => micInput'[c][j] = Source(c, micPlayed' - offset' + j)
           /\ j >= offset' => micOutput'[c][j] = Source(c, micPlayed' - offset' + j - Block)
    BY <1>4, <2>1, <2>4
  <2> QED BY <1>4, <2>1, <2>2, <2>3, <2>5 DEF Windows
<1> QED BY <1>5, <1>6

\* A frame keeps the call, the line and the memory in agreement.
LEMMA InsideSync ==
  ASSUME NEW i \in Arrays, NEW o \in Arrays, InsideMic, Sync, last.wiring = MicWiring(i, o), Rest
  PROVE  /\ Sync' /\ last' = last /\ micCall' = micCall /\ ~Mic!Idle /\ UNCHANGED <<dspVars, deaths, at>>
         /\ faults' \subseteq faults \cup {"apm"} /\ Lost' = Lost
<1>1. /\ ~Mic!Idle /\ micCall' = micCall /\ frame' \in {frame + 1, micCall.frames + 1}
  BY DEF InsideMic, Mic!Frame, Mic!Process, Mic!ProcessFails, Mic!host
<1>2. UNCHANGED <<dspVars, deaths, at>> /\ faults' \in {faults, faults \cup {"apm"}} BY DEF InsideMic
<1>3. last' = last BY <1>2 DEF last
<1>4. \A a \in Arrays, c \in Channels, k \in 1..last.n :
        buf'[<<a, c>>][k] = arrays'[<<a, c>>][last.from + k]
  <2>1. CASE Mic!Frame \/ Mic!Process
    <3>1. PICK fails \in {0, 1} : fails = 0 OBVIOUS
    <3> QED BY <3>1, <2>1, <1>1, FrameEffect
  <2>2. CASE Mic!ProcessFails
    <3>1. PICK fails \in {0, 1} : fails = 1 OBVIOUS
    <3> QED BY <3>1, <2>2, <1>1, FrameEffect
  <2> QED BY <2>1, <2>2 DEF InsideMic
<1>5. \A b \in Buffers, k \in 1..last.n : buf'[b][k] = arrays'[b][last.from + k]
  <2> TAKE b \in Buffers, k \in 1..last.n
  <2>1. PICK a \in Arrays, c \in Channels : b = <<a, c>> BY DEF Buffers
  <2> QED BY <2>1, <1>4
<1>6. Sync'
  <2>1. frame \in 1..last.n /\ micCall.frames = last.n /\ last.n \in Nat BY <1>1 DEF Sync
  <2>2. ~Mic!Idle' => frame' \in 1..last.n BY <2>1, <1>1 DEF Mic!Idle
  <2> QED BY <1>1, <1>3, <1>5, <2>2 DEF Sync
<1> QED BY <1>1, <1>2, <1>3, <1>6 DEF Lost

\* A frame carries the stream on by one sample, or stops it there.
LEMMA InsideStreamStep ==
  ASSUME NEW run, NEW i \in Arrays, NEW o \in Arrays, run.in = i, run.out = o, InsideMic, Sync, Rest,
         Streaming(run)
  PROVE  Streaming(run)'
<1> DEFINE v == Percents(run.volume)
           n == last.n
           from == last.from
           p == micPlayed
<1>1. ~Mic!Idle
  BY DEF InsideMic, Mic!Frame, Mic!Process, Mic!ProcessFails
<1>2. /\ last.wiring = MicWiring(i, o) /\ run.done = from + n /\ micActive
      /\ dead = Mic!NoFailure /\ Windows
      /\ \A c \in Channels : micPercent[c] = v[c] /\ micGain[c] = v[c]
  BY <1>1 DEF Streaming
<1>3. /\ from \in Nat /\ n \in Nat /\ from + n <= FRAMES /\ frame \in 1..n /\ micCall.frames = n
  BY <1>1 DEF Sync
<1>4. run.done - (micCall.frames + 1 - frame) = from + frame - 1
  BY <1>2, <1>3
<1>5. /\ p = from + frame - 1 /\ p \in Nat /\ p < FRAMES /\ p + 1 = from + frame
      /\ p < from + n /\ p + 1 \in 1..FRAMES
  <2>1. p = run.done - (micCall.frames + 1 - frame) BY <1>2 DEF Streaming
  <2> QED BY <2>1, <1>3, <1>4, Lengths
<1>6. Filled(i, p + 1) /\ Wanted(o, Mic!NoFailure, v, p)
  <2>1. Stopped = Mic!NoFailure BY <1>2 DEF Stopped
  <2>2. Wanted(o, Stopped, v, run.done - (micCall.frames + 1 - frame))
        /\ Filled(i, run.done - (micCall.frames + 1 - frame) + 1)
    BY <1>2 DEF Streaming
  <2>3. run.done - (micCall.frames + 1 - frame) = p BY <1>4, <1>5
  <2> QED BY <2>1, <2>2, <2>3
<1>7. Sync' /\ last' = last /\ micCall' = micCall BY <1>2, InsideSync
<1>8. ASSUME NEW d \in Nat, d > p, NEW c \in Channels
      PROVE  Mic!Scaled(micOutput[c][offset], micGain[c]) = Want(d, v, c, p + 1)
  <2> HIDE DEF v
  <2> QED BY <1>2, <1>5, <1>8, SoundWanted
<1>9. CASE Mic!Frame \/ Mic!Process
  <2>2. \A a \in Arrays, c \in Channels, k \in 1..FRAMES :
           /\ a = o /\ k = p + 1 => arrays'[<<a, c>>][k] = Mic!Scaled(micOutput[c][offset], micGain[c])
           /\ a # o \/ k # p + 1 => arrays'[<<a, c>>][k] = arrays[<<a, c>>][k]
    <3> TAKE a \in Arrays, c \in Channels, k \in 1..FRAMES
    <3>1. k = last.from + frame <=> k = p + 1 BY <1>5
    <3> QED BY <1>1, <1>2, <1>9, <3>1, FrameSounds
  <2>3. /\ micActive' = micActive /\ dead' = dead /\ micPlayed' = p + 1 /\ frame' = frame + 1
        /\ micPercent' = micPercent /\ micGain' = micGain
    BY <1>9 DEF Mic!Frame, Mic!Process
  <2>4. Windows' BY <1>1, <1>2, <1>5, <1>6, <1>9, WindowsNext
  <2>5. run.done - (micCall'.frames + 1 - frame') = p + 1 BY <1>2, <1>3, <1>5, <1>7, <2>3
  <2>6. \A c \in Channels, k \in 1..(p + 1) : arrays'[<<o, c>>][k] = Want(Mic!NoFailure, v, c, k)
    <3> TAKE c \in Channels, k \in 1..(p + 1)
    <3>1. k \in 1..FRAMES BY <1>5, Lengths
    <3>2. CASE k = p + 1 BY <2>2, <3>1, <3>2, <1>5, <1>8, Lengths
    <3>3. CASE k \in 1..p BY <2>2, <3>1, <3>3, <1>5, <1>6 DEF Wanted
    <3> QED BY <3>2, <3>3, <1>5
  <2>7. \A c \in Channels, k \in (p + 1 + 1)..FRAMES : arrays'[<<i, c>>][k] = <<0, c, k>>
    <3> TAKE c \in Channels, k \in (p + 1 + 1)..FRAMES
    <3>1. k \in 1..FRAMES /\ k # p + 1 /\ k \in (p + 1)..FRAMES BY <1>5, Lengths
    <3> QED BY <2>2, <3>1, <1>6 DEF Filled
  <2>8. micActive' /\ Stopped' = Mic!NoFailure /\ dead' = Mic!NoFailure BY <1>2, <2>3 DEF Stopped
  <2>9. Wanted(run.out, Stopped, Percents(run.volume), run.done - (micCall.frames + 1 - frame))'
    BY <2>5, <2>6, <2>8 DEF Wanted
  <2>10. (micActive =>
           /\ micPlayed = run.done - (micCall.frames + 1 - frame) /\ dead = Mic!NoFailure /\ Windows
           /\ Filled(run.in, run.done - (micCall.frames + 1 - frame) + 1)
           /\ \A c \in Channels : micPercent[c] = Percents(run.volume)[c] /\ micGain[c] = Percents(run.volume)[c])'
    BY <1>2, <2>3, <2>4, <2>5, <2>7, <2>8 DEF Filled
  <2>11. (~Mic!Idle => /\ micActive /\ last.wiring = MicWiring(run.in, run.out)
                       /\ run.done = last.from + last.n)'
    BY <1>2, <1>7, <2>8
  <2> QED BY <2>8, <2>9, <2>10, <2>11 DEF Streaming
<1>10. CASE Mic!ProcessFails
  <2>2. \A a \in Arrays, c \in Channels, k \in 1..FRAMES :
           /\ a = o /\ k = p + 1 => arrays'[<<a, c>>][k] = Mic!Scaled(micOutput[c][offset], micGain[c])
           /\ a = o /\ k # p + 1 /\ k \in (p + 1 + 1)..(from + n) => arrays'[<<a, c>>][k] = Silence
           /\ a # o \/ (k # p + 1 /\ k \notin (p + 1 + 1)..(from + n)) =>
                arrays'[<<a, c>>][k] = arrays[<<a, c>>][k]
    <3> TAKE a \in Arrays, c \in Channels, k \in 1..FRAMES
    <3>1. k = last.from + frame <=> k = p + 1 BY <1>5
    <3>2. k \in (last.from + frame + 1)..(last.from + last.n) <=> k \in (p + 1 + 1)..(from + n)
      BY <1>3, <1>5
    <3> QED BY <1>1, <1>2, <1>10, <3>1, <3>2, FrameSilences
  <2>3. ~micActive' /\ dead' = p + 1 /\ frame' = n + 1 /\ offset + 1 = Block
    BY <1>3, <1>10 DEF Mic!ProcessFails
  <2>4. run.done - (micCall'.frames + 1 - frame') = from + n BY <1>2, <1>3, <1>7, <2>3
  <2>5. Stopped' = p + 1 BY <1>5, <2>3, Lengths DEF Stopped
  <2>6. \A c \in Channels, k \in 1..(from + n) : arrays'[<<o, c>>][k] = Want(p + 1, v, c, k)
    <3> TAKE c \in Channels, k \in 1..(from + n)
    <3>1. k \in 1..FRAMES BY <1>3, Lengths
    <3>2. CASE k = p + 1 BY <2>2, <3>1, <3>2, <1>5, <1>8
    <3>3. CASE k \in 1..p
      <4>1. arrays'[<<o, c>>][k] = Want(Mic!NoFailure, v, c, k)
        BY <2>2, <3>1, <3>3, <1>5, <1>6 DEF Wanted
      <4>2. ~(k > p + 1) /\ ~(k > Mic!NoFailure) BY <3>1, <3>3, <1>5, Lengths
      <4> QED BY <4>1, <4>2 DEF Want
    <3>4. CASE k \in (p + 1 + 1)..(from + n)
      <4>1. k > p + 1 /\ k # p + 1 BY <3>4, <1>5
      <4> QED BY <2>2, <3>1, <3>4, <4>1 DEF Want
    <3> QED BY <3>2, <3>3, <3>4, <1>3, <1>5
  <2>7. p + 1 \in Blocks /\ p + 1 <= run.done
    <3>1. PICK m \in Nat : p = m * Block + offset BY <1>2 DEF Windows
    <3> DEFINE b == m * Block
    <3>2. b \in Nat /\ (m + 1) * Block = b + Block /\ p = b + offset BY <3>1, Lengths
    <3>3. offset \in Nat BY <1>2, Lengths DEF Windows
    <3> HIDE DEF b
    <3>4. p + 1 = (m + 1) * Block BY <3>2, <3>3, <2>3, Lengths
    <3>5. m + 1 \in Nat OBVIOUS
    <3>6. p + 1 \in Blocks BY <3>4, <3>5 DEF Blocks
    <3> QED BY <3>6, <1>2, <1>3, <1>5
  <2>8. Wanted(run.out, Stopped, Percents(run.volume), run.done - (micCall.frames + 1 - frame))'
    BY <2>4, <2>5, <2>6 DEF Wanted
  <2>9. Mic!Idle' BY <1>3, <1>7, <2>3 DEF Mic!Idle
  <2>10. (~micActive => dead = Mic!NoFailure \/ (dead \in Blocks /\ dead <= run.done))'
    BY <2>3, <2>7
  <2> QED BY <2>3, <2>8, <2>9, <2>10 DEF Streaming
<1> QED BY <1>9, <1>10 DEF InsideMic

\* Frames of any call.
LEMMA InsideMicStep ==
  ASSUME NEW q, At(q), InsideMic, Rest
  PROVE  /\ At(q)' /\ micCall' = micCall /\ UNCHANGED dspVars
         /\ faults' \subseteq faults \cup {"apm"}
<1>1. /\ ~Mic!Idle /\ micCall' = micCall /\ UNCHANGED <<dspVars, deaths, at>>
      /\ faults' \subseteq faults \cup {"apm"} /\ Lost' = Lost
  BY DEF InsideMic, Mic!Frame, Mic!Process, Mic!ProcessFails, Mic!host, Lost
<1>2. q.mic \in {"ready", "stream", "done"} BY <1>1 DEF At, MicAt, NoteOK, Opened
<1>3. DspAt(q)' /\ NoteOK(q)' BY <1>1, DspFrame DEF At, NoteOK
<1>4. ASSUME NEW i \in Arrays, NEW o \in Arrays, last.wiring = MicWiring(i, o), Sync,
             o \in {"output", "reference"}, q.ref = 0 \/ o = "output", Filled("input", 1), Compared(q.ref)
      PROVE  Sync' /\ Filled("input", 1)' /\ Compared(q.ref)' /\ last' = last
  <2>1. Sync' /\ last' = last BY <1>4, InsideSync
  <2>2. \A a \in Arrays \ {o}, c \in Channels, k \in 1..FRAMES : arrays'[<<a, c>>][k] = arrays[<<a, c>>][k]
    <3> TAKE a \in Arrays \ {o}, c \in Channels, k \in 1..FRAMES
    <3> a \in Arrays /\ a # o OBVIOUS
    <3>1. CASE Mic!Frame \/ Mic!Process BY <1>1, <1>4, <3>1, FrameSounds
    <3>2. CASE Mic!ProcessFails BY <1>1, <1>4, <3>2, FrameSilences
    <3> QED BY <3>1, <3>2 DEF InsideMic
  <2> QED BY <2>1, <2>2, <1>1, <1>4, OthersKept
<1>5. CASE q.mic = "ready"
  <2>1. /\ Sync /\ last.wiring = MicWiring("input", "output") /\ Filled("input", 1) /\ Compared(q.ref)
    BY <1>1, <1>5 DEF At, MicAt
  <2>2. "input" \in Arrays /\ "output" \in Arrays BY DEF Arrays
  <2>3. Sync' /\ Filled("input", 1)' /\ Compared(q.ref)' /\ last' = last BY <1>4, <2>1, <2>2
  <2>4. MicAt(q)' BY <1>5, <2>1, <2>3 DEF MicAt
  <2> QED BY <1>1, <1>3, <2>4 DEF At
<1>6. CASE q.mic = "stream"
  <2>1. PICK i \in Arrays, o \in Arrays :
          i = q.run.in /\ o = q.run.out /\ o \in {"output", "reference"} /\ (q.ref = 0 \/ o = "output")
    BY <1>6 DEF At, NoteOK, Arrays
  <2>2. Sync /\ Streaming(q.run) /\ Filled("input", 1) /\ Compared(q.ref) BY <1>6 DEF At, MicAt
  <2>3. last.wiring = MicWiring(i, o) BY <1>1, <2>1, <2>2 DEF Streaming
  <2>4. Sync' /\ Filled("input", 1)' /\ Compared(q.ref)' BY <1>4, <2>1, <2>2, <2>3
  <2>5. PICK run : run = q.run OBVIOUS
  <2>6. Streaming(run)' BY <2>1, <2>2, <2>5, InsideStreamStep
  <2>7. MicAt(q)' BY <1>6, <2>4, <2>5, <2>6 DEF MicAt
  <2> QED BY <1>1, <1>3, <2>7 DEF At
<1>7. CASE q.mic = "done"
  <2>1. MicAt(q)' BY <1>1, <1>7 DEF At, MicAt
  <2> QED BY <1>1, <1>3, <2>1 DEF At
<1> QED BY <1>2, <1>5, <1>6, <1>7

-----------------------------------------------------------------------------
\* All together.

Plain == DOMAIN dspLatency = Cells /\ {"frames", "live"} \subseteq DOMAIN micCall /\ micCall.frames \in Nat

\* A call from the script that keeps what its line says.
LEMMA TurnKeeps ==
  ASSUME CheckInv, NEW what, Turn(what), outcome' = "running", faults' \subseteq {"apm", "filters"},
         \A q, r : At(q) /\ Step(q, here, r) /\ last' = here => At(r)' /\ Plain'
  PROVE  CheckInv'
<1>1. PICK q, r :
        /\ q = Notes[at - 1] /\ At(q) /\ Step(q, here, r) /\ (\A x : (x = Notes[at - 1])' => x = r)
        /\ here.do = what /\ last' = here /\ at' = at + 1 /\ at' \in 1..(Len(Script) + 1)
  BY Turned
<1>2. At(r)' /\ Plain' BY <1>1
<1>3. Rest' BY <1>1, <1>2 DEF Rest, Plain
<1>4. ASSUME NEW x, (x = Notes[at - 1])' PROVE At(x)'
  <2>1. x = r BY <1>1, <1>4
  <2> QED BY <2>1, <1>2
<1> QED BY <1>3, <1>4 DEF CheckInv

\* A step inside a call.
LEMMA InsideKeeps ==
  ASSUME CheckInv, outcome' # "abort", UNCHANGED <<at, outcome>>, faults' \subseteq faults \cup {"apm", "filters"},
         \A q : At(q) /\ Rest => At(q)' /\ Plain'
  PROVE  CheckInv'
<1>1. Rest /\ \A q : q = Notes[at - 1] => At(q) BY DEF CheckInv
<1>2. PICK q : q = Notes[at - 1] OBVIOUS
<1>3. At(q)' /\ Plain' BY <1>1, <1>2
<1>4. Rest' BY <1>1, <1>3 DEF Rest, Plain
<1>5. ASSUME NEW x, (x = Notes[at - 1])' PROVE At(x)'
  <2>1. x = q BY <1>2, <1>5
  <2> QED BY <2>1, <1>3
<1> QED BY <1>4, <1>5 DEF CheckInv

\* The invariant holds at first, is kept, and gives what a check that passes has seen.
LEMMA CheckInit == Init => CheckInv
<1> SUFFICES ASSUME Init PROVE CheckInv
  OBVIOUS
<1>1. /\ at = 1 /\ outcome = "running" /\ faults = {} /\ deaths = {}
      /\ pc = "none" /\ ~dspRunning /\ DOMAIN dspLatency = Cells
      /\ frame = 1 /\ {"frames", "live"} \subseteq DOMAIN micCall /\ micCall.frames = 0
  BY DEF Init, Dsp!Init, Mic!Init
<1>2. Rest BY <1>1, NotesHold DEF Rest
<1>3. PICK q : q = DspDone OBVIOUS
<1>4. Mic!Idle BY <1>1 DEF Mic!Idle
<1>5. /\ q.dsp = "out" /\ q.cell = Nil /\ q.pending = {} /\ q.mic = "off" /\ q.ref = 0
  BY <1>3 DEF DspDone, D
<1>6. At(q) BY <1>1, <1>4, <1>5 DEF At, NoteOK, DspAt, MicAt, Lost
<1>7. Notes[at - 1] = q BY <1>1, <1>3, NotesHold DEF Noted
<1> QED BY <1>2, <1>6, <1>7 DEF CheckInv

LEMMA CheckStep == CheckInv /\ [Next]_vars => CheckInv'
<1> SUFFICES ASSUME CheckInv, [Next]_vars, outcome' # "abort" PROVE CheckInv'
  BY DEF CheckInv
<1>0. outcome # "abort"
  BY DEF Next, Prepare, Filling, NoMemory, AssertDescriptors, Asserted, Holds, Turn, Latencies, CallDsp,
         CallDspRun, InsideDsp, AssertDsp, SetVolumes, CallSpeaker, InsideSpeaker, AssertSpeaker, CallMic,
         CallMicActivate, CallMicRun, InsideMic, AssertCompared, AssertMuted, AssertRate, Pass, Ended, vars, checkVars
<1>1. Rest /\ Plain BY <1>0 DEF CheckInv, Rest, Plain
<1>2. faults \subseteq {"apm", "filters"} BY <1>1 DEF Rest
<1>3. ASSUME UNCHANGED <<dspLatency, micCall>> PROVE Plain' BY <1>1, <1>3 DEF Plain
<1>4. CASE Prepare
  <2>1. PICK what : Turn(what) BY <1>4 DEF Prepare, Filling
  <2>2. outcome' = "running" /\ faults' = faults /\ Plain'
    BY <1>3, <1>4 DEF Prepare, Filling, Turn, dspVars, micVars
  <2> QED BY <2>1, <2>2, <1>2, <1>4, PrepareStep, TurnKeeps
<1>5. CASE AssertDescriptors \/ SetVolumes \/ CallSpeaker \/ AssertSpeaker \/ AssertMuted \/ AssertRate
  <2>1. PICK what : Turn(what)
    BY <1>5 DEF AssertDescriptors, SetVolumes, CallSpeaker, AssertSpeaker, AssertMuted, AssertRate, Asserted, Holds
  <2>2. outcome' = "running" /\ faults' = faults /\ UNCHANGED <<dspLatency, micCall>>
    BY <1>5 DEF AssertDescriptors, SetVolumes, CallSpeaker, AssertSpeaker, AssertMuted, AssertRate, Asserted, Holds, Turn,
                checkVars, dspVars, micVars
  <2> QED BY <2>1, <2>2, <1>2, <1>3, <1>5, CalmSteps, TurnKeeps
<1>6. CASE Latencies
  <2>1. Turn("latencies") /\ outcome' = "running" /\ faults' = faults /\ micCall' = micCall
    BY <1>6 DEF Latencies, Turn, checkVars, micVars
  <2>2. ASSUME NEW q, NEW r, At(q), Step(q, here, r) PROVE At(r)' /\ Plain'
    <3>1. At(r)' /\ (DOMAIN dspLatency = Cells)' BY <1>6, <2>2, LatenciesStep
    <3> QED BY <3>1, <2>1, <1>1 DEF Plain
  <2> QED BY <2>1, <2>2, <1>2, TurnKeeps
<1>7. CASE CallDsp
  <2>1. outcome' = "running" /\ faults' = faults /\ micCall' = micCall /\ \E what : Turn(what)
    BY <1>7 DEF CallDsp, Turn, checkVars, micVars
  <2>2. ASSUME NEW q, NEW r, At(q), Step(q, here, r) PROVE At(r)' /\ Plain'
    <3>1. At(r)' /\ (DOMAIN dspLatency = Cells)' BY <1>1, <1>7, <2>2, CallDspStep DEF Plain
    <3> QED BY <3>1, <2>1, <1>1 DEF Plain
  <2> QED BY <2>1, <2>2, <1>2, TurnKeeps
<1>8. CASE CallDspRun
  <2>1. Turn("dsp_run") /\ outcome' = "running" /\ faults' = faults /\ micCall' = micCall
    BY <1>8 DEF CallDspRun, Turn, micVars
  <2>2. ASSUME NEW q, NEW r, At(q), Step(q, here, r) PROVE At(r)' /\ Plain'
    <3>1. At(r)' /\ (DOMAIN dspLatency = Cells)' BY <1>1, <1>8, <2>2, CallDspRunStep DEF Plain
    <3> QED BY <3>1, <2>1, <1>1 DEF Plain
  <2> QED BY <2>1, <2>2, <1>2, TurnKeeps
<1>9. CASE InsideDsp
  <2>1. UNCHANGED <<at, outcome>> /\ micCall' = micCall BY <1>9 DEF InsideDsp, micVars
  <2>2. faults' \subseteq faults \cup {"apm", "filters"} BY <1>9 DEF InsideDsp
  <2>3. ASSUME NEW q, At(q) PROVE At(q)' /\ Plain'
    <3>1. At(q)' /\ (DOMAIN dspLatency = Cells)' BY <1>1, <1>9, <2>3, InsideDspStep DEF Plain
    <3> QED BY <3>1, <2>1, <1>1 DEF Plain
  <2> QED BY <2>1, <2>2, <2>3, InsideKeeps
<1>10. CASE AssertDsp
  <2>1. PICK what : Turn(what) BY <1>10 DEF AssertDsp, Asserted, Holds
  <2>2. outcome' = "running" /\ faults' = faults /\ UNCHANGED <<dspLatency, micCall>>
    BY <1>10 DEF AssertDsp, Asserted, Holds, Turn, dspVars, micVars
  <2> QED BY <2>1, <2>2, <1>2, <1>3, <1>10, AssertDspStep, TurnKeeps
<1>11. CASE InsideSpeaker
  <2>1. UNCHANGED <<at, outcome, faults, dspLatency, micCall>>
    BY <1>11 DEF InsideSpeaker, dspVars, micVars
  <2> QED BY <2>1, <1>3, <1>11, InsideSpeakerStep, InsideKeeps
<1>12. CASE CallMic
  <2>1. outcome' = "running" /\ faults' = faults /\ UNCHANGED <<dspLatency, micCall>> /\ \E what : Turn(what)
    BY <1>12 DEF CallMic, Turn, checkVars, dspVars, Mic!Instantiate, Mic!Deactivate, Mic!Cleanup
  <2> QED BY <2>1, <1>2, <1>3, <1>12, CallMicStep, TurnKeeps
<1>13. CASE CallMicActivate
  <2>1. Turn("mic_activate") /\ outcome' = "running" /\ dspLatency' = dspLatency
    BY <1>13 DEF CallMicActivate, Turn, dspVars
  <2>2. faults' \subseteq {"apm", "filters"} BY <1>2, <1>13 DEF CallMicActivate
  <2>3. ASSUME NEW q, NEW r, At(q), Step(q, here, r) PROVE At(r)' /\ Plain'
    <3>1. At(r)' /\ micCall'.frames = 0 /\ DOMAIN micCall' = DOMAIN micCall
      BY <1>1, <1>13, <2>3, CallMicActivateStep
    <3> QED BY <3>1, <2>1, <1>1 DEF Plain
  <2> QED BY <2>1, <2>2, <2>3, TurnKeeps
<1>14. CASE CallMicRun
  <2>1. Turn("mic_run") /\ outcome' = "running" /\ faults' = faults /\ dspLatency' = dspLatency
    BY <1>14 DEF CallMicRun, Turn, dspVars
  <2>2. ASSUME NEW q, NEW r, At(q), Step(q, here, r), last' = here PROVE At(r)' /\ Plain'
    <3>1. At(r)' /\ {"frames", "live"} \subseteq DOMAIN micCall' /\ micCall'.frames \in Nat
      BY <1>1, <1>14, <2>2, CallMicRunStep
    <3> QED BY <3>1, <2>1, <1>1 DEF Plain
  <2> QED BY <2>1, <2>2, <1>2, TurnKeeps
<1>15. CASE InsideMic
  <2>1. UNCHANGED <<at, outcome>> BY <1>15 DEF InsideMic
  <2>2. faults' \subseteq faults \cup {"apm", "filters"} BY <1>15 DEF InsideMic
  <2>3. ASSUME NEW q, At(q) PROVE At(q)' /\ Plain'
    <3>1. At(q)' /\ micCall' = micCall /\ UNCHANGED dspVars BY <1>1, <1>15, <2>3, InsideMicStep
    <3> QED BY <3>1, <1>3 DEF dspVars
  <2> QED BY <2>1, <2>2, <2>3, InsideKeeps
<1>16. CASE AssertCompared
  <2>1. PICK what : Turn(what) BY <1>16 DEF AssertCompared, Holds
  <2>2. outcome' = "running" /\ faults' = faults /\ UNCHANGED <<dspLatency, micCall>>
    BY <1>16 DEF AssertCompared, Holds, Turn, dspVars, micVars
  <2> QED BY <2>1, <2>2, <1>1, <1>2, <1>3, <1>16, AssertComparedStep, TurnKeeps
<1>17. CASE Pass \/ UNCHANGED vars
  <2>1. UNCHANGED <<at, faults, deaths, dspVars, micVars, arrays>>
    BY <1>17 DEF Pass, vars, checkVars
  <2>2. PICK q : q = Notes[at - 1] OBVIOUS
  <2>3. At(q) BY <1>0, <2>2 DEF CheckInv
  <2>4. At(q)'
    <3>1. Lost' = Lost BY <2>1 DEF Lost
    <3>2. DspAt(q)' /\ NoteOK(q)' BY <2>1, <2>3, <3>1, DspFrame DEF At
    <3>3. MicAt(q)' BY <2>1, <2>3, MicFrame DEF At
    <3> QED BY <3>2, <3>3 DEF At
  <2>5. \A x : (x = Notes[at - 1])' => x = q BY <2>1, <2>2
  <2>6. outcome' \in {"running", "pass"} /\ (outcome' = "pass" => at' = Len(Script) + 1)
    BY <1>1, <1>17, <2>1 DEF Pass, Rest, vars, checkVars
  <2>7. Rest' BY <2>1, <2>6, <1>1, <1>3 DEF Rest, Plain, dspVars, micVars
  <2>8. ASSUME NEW x, (x = Notes[at - 1])' PROVE At(x)'
    <3>1. x = q BY <2>5, <2>8
    <3> QED BY <3>1, <2>4
  <2> QED BY <2>7, <2>8 DEF CheckInv
<1> QED
  <2>1. ~NoMemory BY DEF NoMemory
  <2> QED BY <2>1, <1>4, <1>5, <1>6, <1>7, <1>8, <1>9, <1>10, <1>11, <1>12, <1>13, <1>14, <1>15, <1>16, <1>17
          DEF Next, Ended

LEMMA CheckSees == CheckInv => FaultsAreSeen
<1> SUFFICES ASSUME CheckInv, outcome = "pass"
             PROVE  faults \subseteq {"apm"} /\ \E d \in deaths : deaths = {d} /\ d > Block
  BY DEF FaultsAreSeen
<1>1. Rest /\ \A q : q = Notes[at - 1] => At(q) BY DEF CheckInv
<1>2. PICK q : q = M("done", 1, NoRun) OBVIOUS
<1>3. at - 1 = Len(Script) BY <1>1, NotesHold DEF Rest
<1>4. Notes[at - 1] = q BY <1>2, <1>3, NotesHold DEF Noted
<1>5. At(q) BY <1>1, <1>4
<1>6. q.dsp = "out" /\ q.pending = {} /\ q.mic = "done" BY <1>2 DEF M
<1>7. ~Lost BY <1>5, <1>6 DEF At, DspAt, Told
<1>8. \E d \in Stops : deaths = {d} /\ d > Block BY <1>5, <1>6 DEF At, MicAt
<1> QED BY <1>1, <1>7, <1>8 DEF Rest, Lost

\* A check that passes has lost no filter and no memory, and APM stopped at the
\* same frame in each of the streams that were compared, after its first block.
THEOREM FaultsSeen == Spec => []FaultsAreSeen
<1>1. Init => CheckInv BY CheckInit
<1>2. CheckInv /\ [Next]_vars => CheckInv' BY CheckStep
<1>3. CheckInv => FaultsAreSeen BY CheckSees
<1> QED BY <1>1, <1>2, <1>3, PTL DEF Spec
=============================================================================
