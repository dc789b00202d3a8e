-------------------------- MODULE DurableStepProofs --------------------------
(***************************************************************************)
(* The lifecycle ends, for every supported row, every barrier and any set  *)
(* of draws, in the outcome predict names.                                 *)
(***************************************************************************)
EXTENDS DurableStep, SequenceTheorems, TLAPS

PTE == row.persist_order = "persist_then_effect"

\* One effect has crossed, as this row's effects do.
OneCrossing(p) == <<[key |-> KeyFor(row, p), payload |-> p]>>

OwnPayload(p) == IF row.determinism = "deterministic" THEN p = Fixed ELSE p \in Drawn

CrossedOnce == \E p \in Payload : OwnPayload(p) /\ crossed = OneCrossing(p)

\* While the crash run lasts, and once it is down.
CrashRunInv ==
  /\ IF ran THEN CrossedOnce ELSE crossed = << >>
  /\ IF PTE THEN ran => persisted ELSE persisted => ran

\* What the crash left, as long as the recovery has not run the effect.
LeftByCrash ==
  /\ phase = "before" => crossed = << >> /\ ~ persisted
  /\ phase = "between" => IF PTE THEN crossed = << >> /\ persisted
                                 ELSE CrossedOnce /\ ~ persisted
  /\ phase = "after" => CrossedOnce /\ persisted

StepInv ==
  /\ StepTypeOK
  /\ stage \in {"running", "down"} => CrashRunInv
  /\ stage = "down" => AtBarrier
  /\ stage = "recovering" /\ ~ ran => LeftByCrash
  /\ stage = "recovering" /\ ran => Observed = Predict(row, phase)
  /\ stage = "done" => Observed = Predict(row, phase)

-----------------------------------------------------------------------------
\* The oracle's reading of a sequence of crossings, and of none, one and two.
Reading(s) ==
  CASE Len(s) = 0 -> "lost"
    [] Len(s) = 1 -> "exactly_once"
    [] OTHER -> IF \E m, n \in 1 .. Len(s) : s[m].payload # s[n].payload
                  THEN "diverged" ELSE "duplicated"

LEMMA ObservedIsReading == Observed = Reading(crossed)
  BY DEF Observed, Reading

LEMMA ReadingShort ==
  /\ Reading(<< >>) = "lost"
  /\ \A c : Reading(<<c>>) = "exactly_once"
  BY DEF Reading

LEMMA ReadingTwo ==
  ASSUME NEW c1, NEW c2
  PROVE  Reading(<<c1, c2>>) = IF c1.payload # c2.payload THEN "diverged" ELSE "duplicated"
<1> DEFINE s == <<c1, c2>>
<1>1. Len(s) = 2 /\ s[1] = c1 /\ s[2] = c2
  OBVIOUS
<1>2. 1 .. Len(s) = {1, 2}
  BY <1>1
<1> HIDE DEF s
<1>3. (\E m, n \in 1 .. Len(s) : s[m].payload # s[n].payload)
        <=> c1.payload # c2.payload
  BY <1>1, <1>2
<1>4. Reading(s) = IF c1.payload # c2.payload THEN "diverged" ELSE "duplicated"
  BY <1>1, <1>3 DEF Reading
<1>5. QED
  BY <1>4 DEF s

LEMMA AppendToOne ==
  ASSUME NEW a, NEW b
  PROVE  Append(<<a>>, b) = <<a, b>>
<1> DEFINE S == {a, b}
           s == Append(<<a>>, b)
           t == <<a, b>>
<1>1. <<a>> \in Seq(S) /\ Len(<<a>>) = 1 /\ <<a>>[1] = a
  OBVIOUS
<1>2. t \in Seq(S) /\ Len(t) = 2 /\ t[1] = a /\ t[2] = b
  OBVIOUS
<1> HIDE DEF t, S
<1>3. b \in S
  BY DEF S
<1>4. s \in Seq(S) /\ Len(s) = 2 /\ s[1] = a /\ s[2] = b
  BY <1>1, <1>3, AppendProperties
<1> HIDE DEF s
<1>5. \A i \in 1 .. Len(s) : s[i] = t[i]
  BY <1>2, <1>4
<1>6. s = t
  BY <1>2, <1>4, <1>5, SeqEqual
<1>7. QED
  BY <1>6 DEF s, t

LEMMA RowFields ==
  ASSUME NEW rt \in Rows
  PROVE  /\ rt.durability \in Durability
         /\ rt.persist_order \in PersistOrder
         /\ rt.effect_mode \in EffectMode
         /\ rt.determinism \in Determinism
         /\ SupportedRow(rt)
  BY RowsAssumption DEF RuntimeRow

LEMMA KeyForType ==
  ASSUME NEW rt \in Rows, NEW p \in Payload
  PROVE  KeyFor(rt, p) \in EffectKey
  BY RowFields DEF KeyFor, EffectKey, EffectMode

\* What telling the keys of two effects apart comes to, mode by mode.
LEMMA KeysCompared ==
  ASSUME NEW rt \in Rows, NEW p \in Payload, NEW q \in Payload
  PROVE  /\ rt.effect_mode = "naive" => KeyFor(rt, p) = Naive
         /\ rt.effect_mode = "idempotent" =>
              KeyFor(rt, p) # Naive /\ (KeyFor(rt, q) = KeyFor(rt, p) <=> p = q)
         /\ rt.effect_mode = "two_phase" =>
              KeyFor(rt, p) # Naive /\ KeyFor(rt, q) = KeyFor(rt, p)
<1>1. Naive # Prepared
  <2>1. DOMAIN Naive # DOMAIN Prepared \/ Naive.by # Prepared.by
    BY DEF Naive, Prepared
  <2>2. QED
    BY <2>1
<1>2. Naive # Derived(p) /\ (Derived(q) = Derived(p) <=> p = q)
  <2>1. Derived(p).by = "content" /\ Derived(p).of = p /\ Derived(q).of = q
    BY DEF Derived
  <2>2. Naive.by = "nothing"
    BY DEF Naive
  <2>3. QED
    BY <2>1, <2>2
<1>3. QED
  BY <1>1, <1>2 DEF KeyFor

\* An effect on an empty boundary crosses it.
LEMMA FirstEffectCrosses ==
  ASSUME row \in Rows, crossed = << >>, row' = row,
         NEW p \in Payload, FreshPayload(p), Cross(KeyFor(row, p), p)
  PROVE  CrossedOnce'
<1>1. crossed' = OneCrossing(p)
  BY DEF Cross, OneCrossing
<1>2. OwnPayload(p)
  BY RowFields DEF FreshPayload, OwnPayload, Determinism
<1>3. QED
  BY <1>1, <1>2 DEF CrossedOnce, OwnPayload, OneCrossing

\* A second effect is deduped, repeats the first or differs from it, and that is
\* what the prediction distinguishes.
Twice(rt) ==
  IF rt.effect_mode = "two_phase"
    THEN "exactly_once"
    ELSE IF rt.effect_mode = "idempotent" /\ rt.determinism = "deterministic"
           THEN "exactly_once"
           ELSE IF rt.determinism = "deterministic" THEN "duplicated" ELSE "diverged"

LEMMA SecondEffect ==
  ASSUME row \in Rows, CrossedOnce,
         NEW p \in Payload, FreshPayload(p), Cross(KeyFor(row, p), p)
  PROVE  Reading(crossed') = Twice(row)
<1>1. PICK q \in Payload : OwnPayload(q) /\ crossed = OneCrossing(q)
  BY DEF CrossedOnce
<1> DEFINE c1 == [key |-> KeyFor(row, q), payload |-> q]
           c2 == [key |-> KeyFor(row, p), payload |-> p]
<1>2. Len(crossed) = 1 /\ crossed[1] = c1 /\ 1 .. Len(crossed) = {1}
  BY <1>1 DEF OneCrossing
<1>3. (\E n \in 1 .. Len(crossed) : crossed[n].key = KeyFor(row, p))
        <=> KeyFor(row, q) = KeyFor(row, p)
  BY <1>2
<1>4. crossed' = IF KeyFor(row, p) # Naive /\ KeyFor(row, q) = KeyFor(row, p)
                   THEN <<c1>> ELSE <<c1, c2>>
  <2>1. Append(crossed, c2) = <<c1, c2>>
    <3>1. crossed = <<c1>>
      BY <1>1 DEF OneCrossing
    <3> HIDE DEF c1, c2
    <3>2. Append(<<c1>>, c2) = <<c1, c2>>
      BY AppendToOne
    <3>3. QED
      BY <3>1, <3>2
  <2>2. QED
    BY <1>1, <1>3, <2>1 DEF Cross, OneCrossing
<1>5. row.determinism = "deterministic" => p = q
  BY <1>1 DEF FreshPayload, OwnPayload
<1>6. row.determinism # "deterministic" => p # q
  BY <1>2 DEF FreshPayload
<1>7. /\ Reading(<<c1>>) = "exactly_once"
      /\ Reading(<<c1, c2>>) = IF q # p THEN "diverged" ELSE "duplicated"
  BY ReadingShort, ReadingTwo
<1> HIDE DEF c1, c2
<1>8. CASE row.effect_mode = "naive"
  BY <1>4, <1>5, <1>6, <1>7, <1>8, KeysCompared DEF Twice
<1>9. CASE row.effect_mode = "idempotent"
  BY <1>4, <1>5, <1>6, <1>7, <1>9, KeysCompared DEF Twice
<1>10. CASE row.effect_mode = "two_phase"
  BY <1>4, <1>7, <1>10, KeysCompared DEF Twice
<1>11. QED
  BY <1>8, <1>9, <1>10, RowFields DEF EffectMode

-----------------------------------------------------------------------------
\* Each action keeps the invariant.
LEMMA SeqClosed ==
  ASSUME NEW S
  PROVE  << >> \in Seq(S) /\ \A s \in Seq(S), e \in S : Append(s, e) \in Seq(S)
  OBVIOUS

LEMMA CrossType ==
  ASSUME StepTypeOK, NEW p \in Payload, Cross(KeyFor(row, p), p)
  PROVE  crossed' \in Crossings
<1>1. [key |-> KeyFor(row, p), payload |-> p] \in [key : EffectKey, payload : Payload]
  BY KeyForType DEF StepTypeOK
<1>2. crossed \in Seq([key : EffectKey, payload : Payload])
  BY DEF StepTypeOK, Crossings
<1> DEFINE Crossing == [key : EffectKey, payload : Payload]
<1> HIDE DEF Crossing
<1>3. Append(crossed, [key |-> KeyFor(row, p), payload |-> p]) \in Seq(Crossing)
  BY <1>1, <1>2, SeqClosed DEF Crossing
<1>4. QED
  BY <1>2, <1>3 DEF Cross, Crossings, Crossing

LEMMA NoCrossingsType == << >> \in Crossings
  BY SeqClosed DEF Crossings

LEMMA BeginKeeps == StepInv /\ Begin => StepInv'
<1> SUFFICES ASSUME Begin PROVE StepInv'
  OBVIOUS
<1>1. StepTypeOK'
  BY NoCrossingsType DEF Begin, StepTypeOK
<1>2. CrashRunInv'
  BY DEF Begin, CrashRunInv, PTE
<1>3. QED
  BY <1>1, <1>2 DEF Begin, StepInv

\* What one effect comes to at every barrier but the middle one, and what it
\* comes to twice.
LEMMA PredictedTwice ==
  ASSUME NEW rt \in Rows, NEW ph \in Phase
  PROVE  /\ ph = "before" => Predict(rt, ph) = "exactly_once"
         /\ ph = "between" /\ rt.persist_order # "persist_then_effect" =>
              Predict(rt, ph) = Twice(rt)
         /\ ph = "after" => Predict(rt, ph) = IF rt.durability = "none"
                                                THEN Twice(rt) ELSE "exactly_once"
         /\ ph = "between" /\ rt.persist_order = "persist_then_effect" =>
              rt.durability = "durable" /\ Predict(rt, ph) = "lost"
<1>1. /\ rt.durability \in {"durable", "none"}
      /\ rt.effect_mode \in {"naive", "idempotent", "two_phase"}
      /\ rt.determinism \in {"deterministic", "nondeterministic"}
  BY RowFields DEF Durability, EffectMode, Determinism
<1>2. rt.durability = "none" => /\ rt.effect_mode = "naive"
                                /\ rt.determinism = "deterministic"
                                /\ rt.persist_order # "persist_then_effect"
  BY RowFields DEF SupportedRow
<1>3. ASSUME rt.persist_order # "persist_then_effect"
      PROVE  PredictBetween(rt) = Twice(rt)
  BY <1>1, <1>3 DEF PredictBetween, Twice
<1>4. rt.persist_order = "persist_then_effect" => PredictBetween(rt) = "lost"
  BY DEF PredictBetween
<1>5. QED
  BY <1>1, <1>2, <1>3, <1>4 DEF Predict, Twice, Phase

LEMMA EffectKeeps == StepInv /\ Effect => StepInv'
<1> SUFFICES ASSUME StepInv, Effect PROVE StepInv'
  OBVIOUS
<1>1. PICK p \in Payload : FreshPayload(p) /\ Cross(KeyFor(row, p), p)
  BY DEF Effect
<1>2. /\ row \in Rows /\ phase \in Phase
      /\ row' = row /\ phase' = phase /\ stage' = stage /\ persisted' = persisted
      /\ ran = FALSE /\ ran' = TRUE
  BY DEF Effect, StepInv, StepTypeOK
<1>3. StepTypeOK'
  <2>1. crossed' \in Crossings
    BY <1>1, CrossType DEF StepInv
  <2>2. QED
    BY <1>2, <2>1 DEF StepInv, StepTypeOK
<1>4. CASE stage = "running"
  <2>1. crossed = << >>
    BY <1>2, <1>4 DEF StepInv, CrashRunInv
  <2>2. CrossedOnce'
    BY <1>1, <1>2, <2>1, FirstEffectCrosses
  <2>3. PTE' => persisted'
    BY <1>2, <1>4 DEF Effect, PersistsFirst, PTE
  <2>4. CrashRunInv'
    BY <1>2, <2>2, <2>3 DEF CrashRunInv
  <2>5. QED
    BY <1>2, <1>3, <1>4, <2>4 DEF StepInv
<1>5. CASE stage = "recovering"
  <2>1. LeftByCrash
    BY <1>2, <1>5 DEF StepInv
  <2>2. row.durability # "durable" \/ ~ persisted
    BY <1>2, <1>5 DEF Effect, Skips
  <2>3. CASE crossed = << >>
    <3>1. Observed' = "exactly_once"
      <4>1. crossed' = OneCrossing(p)
        BY <1>1, <2>3 DEF Cross, OneCrossing
      <4>2. Reading(crossed') = "exactly_once"
        BY <4>1, ReadingShort DEF OneCrossing
      <4>3. QED
        BY <4>2 DEF Observed, Reading
    <3>2. phase = "before"
      <4>1. ~ CrossedOnce
        BY <2>3 DEF CrossedOnce, OneCrossing
      <4>2. phase = "between" => PTE /\ persisted
        BY <2>1, <4>1 DEF LeftByCrash
      <4>3. phase # "between"
        BY <1>2, <2>2, <4>2, PredictedTwice DEF PTE
      <4>4. QED
        BY <1>2, <2>1, <4>1, <4>3 DEF LeftByCrash, Phase
    <3>3. QED
      BY <1>2, <1>3, <1>5, <3>1, <3>2, PredictedTwice DEF StepInv
  <2>4. CASE crossed # << >>
    <3>1. CrossedOnce /\ (phase = "after" \/ (phase = "between" /\ ~ PTE))
      BY <1>2, <2>1, <2>4 DEF LeftByCrash, Phase
    <3>2. phase = "after" => row.durability = "none"
      BY <1>2, <2>1, <2>2, RowFields DEF LeftByCrash, Durability
    <3>3. Reading(crossed') = Twice(row)
      BY <1>1, <1>2, <3>1, SecondEffect
    <3>4. Twice(row) = Predict(row, phase)
      BY <1>2, <3>1, <3>2, PredictedTwice DEF PTE
    <3>5. Observed' = Predict(row', phase')
      BY <1>2, <3>3, <3>4 DEF Observed, Reading
    <3>6. QED
      BY <1>2, <1>3, <1>5, <3>5 DEF StepInv
  <2>5. QED
    BY <2>3, <2>4
<1>6. QED
  BY <1>4, <1>5 DEF Effect

LEMMA PersistKeeps == StepInv /\ Persist => StepInv'
<1> SUFFICES ASSUME StepInv, Persist PROVE StepInv'
  OBVIOUS
<1>1. StepTypeOK'
  BY DEF Persist, StepInv, StepTypeOK
<1>2. CASE stage = "running"
  <2>1. CrashRunInv'
    BY <1>2 DEF Persist, StepInv, CrashRunInv, CrossedOnce, OneCrossing, OwnPayload, PTE,
                PersistsFirst
  <2>2. QED
    BY <1>1, <1>2, <2>1 DEF Persist, StepInv
<1>3. CASE stage = "recovering"
  <2>1. ran /\ ran'
    BY <1>3 DEF Persist, PersistsFirst, StepInv, StepTypeOK
  <2>2. Observed' = Observed
    BY DEF Persist, Observed
  <2>3. QED
    BY <1>1, <1>3, <2>1, <2>2 DEF Persist, StepInv
<1>4. QED
  BY <1>2, <1>3 DEF Persist

LEMMA CrashKeeps == StepInv /\ Crash => StepInv'
<1> SUFFICES ASSUME StepInv, Crash PROVE StepInv'
  OBVIOUS
<1>1. StepTypeOK'
  BY DEF StepInv, Crash, StepTypeOK
<1>2. CrashRunInv'
  BY DEF StepInv, Crash, CrashRunInv, CrossedOnce, OneCrossing, OwnPayload, PTE
<1>3. AtBarrier'
  <2>1. AtBarrier /\ phase' = phase /\ ran' = ran /\ persisted' = persisted
    BY DEF Crash
  <2>2. QED
    BY <2>1 DEF AtBarrier
<1>4. QED
  BY <1>1, <1>2, <1>3 DEF StepInv, Crash

LEMMA RecoverKeeps == StepInv /\ Recover => StepInv'
<1> SUFFICES ASSUME StepInv, Recover PROVE StepInv'
  OBVIOUS
<1>1. StepTypeOK'
  BY DEF StepInv, Recover, StepTypeOK
<1>2. LeftByCrash
  <2>1. CrashRunInv /\ AtBarrier
    BY DEF StepInv, Recover
  <2>2. ran \in BOOLEAN /\ persisted \in BOOLEAN
    BY DEF StepInv, StepTypeOK
  <2>3. phase = "before" => ~ ran /\ ~ persisted
    BY <2>1 DEF AtBarrier
  <2>4. phase = "between" => ran # persisted
    BY <2>1 DEF AtBarrier
  <2>5. phase = "after" => ran /\ persisted
    BY <2>1 DEF AtBarrier
  <2>6. QED
    BY <2>1, <2>2, <2>3, <2>4, <2>5 DEF CrashRunInv, LeftByCrash
<1>3. LeftByCrash'
  BY <1>2 DEF Recover, LeftByCrash, CrossedOnce, OneCrossing, OwnPayload, PTE
<1>4. QED
  BY <1>1, <1>3 DEF StepInv, Recover

LEMMA FinishKeeps == StepInv /\ Finish => StepInv'
<1> SUFFICES ASSUME StepInv, Finish PROVE StepInv'
  OBVIOUS
<1>1. StepTypeOK'
  BY DEF StepInv, Finish, StepTypeOK
<1>2. Observed = Predict(row, phase)
  <2>1. CASE ran
    BY <2>1 DEF StepInv, Finish
  <2>2. CASE ~ ran
    <3>1. LeftByCrash /\ row.durability = "durable" /\ persisted
      BY <2>2 DEF StepInv, Finish, Skips
    <3>2. row \in Rows /\ phase \in Phase
      BY DEF StepInv, StepTypeOK
    <3>3. CASE phase = "between"
      <4>1. PTE /\ crossed = << >>
        BY <3>1, <3>3 DEF LeftByCrash
      <4>2. Observed = "lost"
        BY <4>1, ReadingShort, ObservedIsReading
      <4>3. QED
        BY <3>2, <3>3, <4>1, <4>2, PredictedTwice DEF PTE
    <3>4. CASE phase = "after"
      <4>1. CrossedOnce
        BY <3>1, <3>4 DEF LeftByCrash
      <4>2. Observed = "exactly_once"
        BY <4>1, ReadingShort, ObservedIsReading DEF CrossedOnce, OneCrossing
      <4>3. QED
        BY <3>1, <3>2, <3>4, <4>2, PredictedTwice
    <3>5. QED
      BY <3>1, <3>2, <3>3, <3>4 DEF LeftByCrash, Phase
  <2>3. QED
    BY <2>1, <2>2
<1>3. Observed' = Observed
  BY DEF Finish, Observed
<1>4. QED
  BY <1>1, <1>2, <1>3 DEF StepInv, Finish

LEMMA AbortKeeps == StepInv /\ Abort => StepInv'
  BY DEF StepInv, Abort, StepTypeOK

LEMMA StutterKeeps == StepInv /\ UNCHANGED stepVars => StepInv'
<1> SUFFICES ASSUME StepInv, UNCHANGED stepVars PROVE StepInv'
  OBVIOUS
<1>1. Observed' = Observed
  BY DEF stepVars, Observed
<1>2. QED
  BY <1>1 DEF StepInv, stepVars, StepTypeOK, CrashRunInv, LeftByCrash, CrossedOnce,
              OneCrossing, OwnPayload, PTE, AtBarrier

LEMMA InitEstablishes == StepInit => StepInv
  BY NoCrossingsType DEF StepInit, StepInv, StepTypeOK

LEMMA StepInvAlways == StepSpec => []StepInv
<1>1. StepInv /\ [StepNext]_stepVars => StepInv'
  BY BeginKeeps, EffectKeeps, PersistKeeps, CrashKeeps, RecoverKeeps, FinishKeeps,
     AbortKeeps, StutterKeeps DEF StepNext
<1>2. QED
  BY <1>1, InitEstablishes, PTL DEF StepSpec

\* Type correctness of the lifecycle, for every set of supported rows and draws.
THEOREM StepTypeCorrect == StepSpec => []StepTypeOK
<1>1. StepInv => StepTypeOK
  BY DEF StepInv
<1>2. QED
  BY <1>1, StepInvAlways, PTL

\* Whatever the rows and the draws, a trial that comes to its end shows what
\* predict.py predicts of its row and barrier.
THEOREM PredictionAlwaysHolds == StepSpec => []PredictionHolds
<1>1. StepInv => PredictionHolds
  BY DEF StepInv, PredictionHolds
<1>2. QED
  BY <1>1, StepInvAlways, PTL
=============================================================================
