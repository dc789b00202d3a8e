---------------------------- MODULE TrialProofs ----------------------------
(***************************************************************************)
(* What holds of every sequence of control trials, for any memos, any      *)
(* number of requests and trials, kills at any step, samplers that fail,   *)
(* processes that time out and writes of the ledger that fail.             *)
(***************************************************************************)
EXTENDS ControlTrial, LedgerProofs

-----------------------------------------------------------------------------
(***************************************************************************)
(* What assumptions say of a control trial.                                *)
(***************************************************************************)
LEMMA ControlRow ==
  ASSUME NEW t \in Trials
  PROVE  /\ t.engine = "control" /\ t.mode \in DOMAIN ControlRows /\ t.barrier \in Barrier
         /\ t.mode \notin AdmissionArms
         /\ RowOf(t) = ControlRows[t.mode]
         /\ \A n : IntentOf(t, n) = SharedIntent
BY ControlAssumption
   DEF RowOf, Registry, ControlRows, AdmissionArms, Barrier, IntentOf, HarnessOf,
       HiddenPredictions

\* The harness and its process agree on where the trial is.
PhaseOK ==
  /\ exit = "running" => harness \in {"crash_run", "recovery_run"}
  /\ harness \in {"crash_run", "recovery_run"} => ~ sealed
  /\ harness \in {"dump", "classify", "classified"} => sealed

TrialTyped == TrialTypeOK /\ PhaseOK

\* Whatever a control adapter does to its own files or its program is no step of
\* the daemon's; every other step of a trial is one of the daemon's operations.
LEMMA KeysTyped ==
  ASSUME TrialTyped, NEW memo \in Draws
  PROVE  /\ memo \in Payloads \ Unhashable /\ memo \in Memos \cup {NoMemo}
         /\ EffectKeyOf(memo) \in Keys \cup {NoKey}
<1>1. memo \in Memos \cup {NoMemo}
  BY DEF Draws
<1>2. memo \in TrialPayloads /\ ContentKey(memo) \in EffectKeys /\ PreparedKey \in EffectKeys
  BY <1>1 DEF TrialPayloads, EffectKeys
<1>3. QED
  BY <1>1, <1>2, TrialAssumption DEF EffectKeyOf

LEMMA TrialStepRunsDaemon ==
  TrialTyped /\ [TrialNext]_allVars => [DaemonNext]_daemonVars
<1> SUFFICES ASSUME TrialTyped, [TrialNext]_allVars PROVE [DaemonNext]_daemonVars
  OBVIOUS
<1>1. CASE DrawnEffect
  <2>1. PICK memo \in Draws : SendExecute(Intent, EffectKeyOf(memo), memo)
    BY <1>1 DEF DrawnEffect, SendEffect, SendPayload
  <2>2. Intent \in Intents
    BY ControlRow, TrialAssumption DEF Intent, TrialTyped, TrialTypeOK, HarnessTypeOK
  <2>3. QED
    BY <2>1, <2>2, KeysTyped DEF DaemonNext
<1>2. CASE \E t \in Trials : StartTrial(t, NoFiles(t), CrashRun(t))
  BY <1>2 DEF StartTrial, DaemonNext
<1>3. CASE SealLedger
  BY <1>3 DEF SealLedger, DaemonNext
<1>4. CASE Daemon
  BY <1>4 DEF Daemon, DaemonNext
<1>5. CASE UNCHANGED daemonVars
  BY <1>5
<1>6. QED
  BY <1>1, <1>2, <1>3, <1>4, <1>5
     DEF TrialNext, Process, KillSelf, Return, CheckMarker, WriteFile, Persists, ReadIdentity,
         SamplerFails, Raise, ReceiveReply, StrayKill, Harness, Timeout, HarnessGoesOn,
         CrashRunEnds, RecoveryRunEnds, TrialFails, ReadDump, ClassifyTrial, allVars

\* What a step leaves of the adapter's program is a program.
LEMMA TailSeq ==
  ASSUME NEW S, NEW s \in Seq(S), s # << >>
  PROVE  Tail(s) \in Seq(S)
OBVIOUS

LEMMA Programs ==
  ASSUME NEW t \in Trials
  PROVE  CrashRun(t) \in Seq(StepName) /\ RecoveryRun \in Seq(StepName)
<1> DEFINE S == StepName
<1>1. /\ Prepare \in Seq(S) /\ PersistSteps \in Seq(S) /\ EffectSteps \in Seq(S)
      /\ << >> \in Seq(S) /\ <<"check">> \in Seq(S)
  BY DEF Prepare, PersistSteps, EffectSteps, StepName
<1>2. ASSUME NEW b \in Barrier PROVE CrashAt(b, t) \in Seq(S)
  <2>1. b \in S
    BY DEF StepName
  <2>2. <<b>> \in Seq(S) /\ << >> \in Seq(S)
    BY <2>1
  <2>3. QED
    BY <2>2 DEF CrashAt
<1>3. CrashAt("b0", t) \in Seq(S) /\ CrashAt("b1", t) \in Seq(S) /\ CrashAt("b2", t) \in Seq(S)
  BY <1>2 DEF Barrier
<1> HIDE DEF S
<1>4. ASSUME NEW u \in Seq(S), NEW v \in Seq(S) PROVE u \o v \in Seq(S)
  OBVIOUS
<1>5. CrashAt("b0", t) \o PersistSteps \o CrashAt("b1", t) \o EffectSteps
        \o CrashAt("b2", t) \in Seq(S)
  <2>1. CrashAt("b0", t) \o PersistSteps \in Seq(S)
    BY <1>1, <1>3, <1>4
  <2>2. CrashAt("b0", t) \o PersistSteps \o CrashAt("b1", t) \in Seq(S)
    BY <2>1, <1>3, <1>4
  <2>3. CrashAt("b0", t) \o PersistSteps \o CrashAt("b1", t) \o EffectSteps \in Seq(S)
    BY <2>2, <1>1, <1>4
  <2>4. QED
    BY <2>3, <1>3, <1>4
<1>6. (IF TwoPhase(t) THEN Prepare ELSE << >>) \o CrashAt("b0", t) \o EffectSteps
        \o CrashAt("b1", t) \o PersistSteps \o CrashAt("b2", t) \in Seq(S)
  <2> DEFINE P == IF TwoPhase(t) THEN Prepare ELSE << >>
  <2>1. P \in Seq(S)
    BY <1>1
  <2> HIDE DEF P
  <2>2. P \o CrashAt("b0", t) \in Seq(S)
    BY <2>1, <1>3, <1>4
  <2>3. P \o CrashAt("b0", t) \o EffectSteps \in Seq(S)
    BY <2>2, <1>1, <1>4
  <2>4. P \o CrashAt("b0", t) \o EffectSteps \o CrashAt("b1", t) \in Seq(S)
    BY <2>3, <1>3, <1>4
  <2>5. P \o CrashAt("b0", t) \o EffectSteps \o CrashAt("b1", t) \o PersistSteps \in Seq(S)
    BY <2>4, <1>1, <1>4
  <2>6. QED
    BY <2>5, <1>3, <1>4 DEF P
<1>7. <<"check">> \o EffectSteps \o PersistSteps \in Seq(S)
  BY <1>1, <1>4
<1>8. QED
  BY <1>5, <1>6, <1>7 DEF CrashRun, RecoveryRun, S

LEMMA TrialTypedStep == TrialTyped /\ [TrialNext]_allVars => TrialTyped'
<1> SUFFICES ASSUME TrialTyped, [TrialNext]_allVars PROVE TrialTyped'
  OBVIOUS
<1> USE DEF TrialTyped, TrialTypeOK, HarnessTypeOK, PhaseOK
<1>1. DaemonTypeOK'
  BY TrialStepRunsDaemon, DaemonTypeStep
<1>2. CASE KillSelf(TRUE) \/ Return \/ StrayKill \/ SamplerFails
  <2>1. exit' \in {"killed", "zero", "error"} /\ todo' = << >>
    BY <1>2 DEF KillSelf, Return, StrayKill, SamplerFails, Raise, ExitWith
  <2>2. UNCHANGED <<sealed, harnessVars, request, drawn, disk>>
    BY <1>2 DEF KillSelf, Return, StrayKill, SamplerFails, Raise, daemonVars
  <2>3. QED
    BY <1>1, <2>1, <2>2 DEF harnessVars
<1>3. CASE CheckMarker
  BY <1>1, <1>3, TailSeq, EmptySeq DEF CheckMarker, Running, harnessVars, daemonVars
<1>4. CASE WriteFile
  BY <1>1, <1>4, TailSeq DEF WriteFile, Persists, Running, Advance, harnessVars, daemonVars
<1>5. CASE ReadIdentity
  <2>1. todo # << >> /\ Tail(todo) \in Seq(StepName)
    BY <1>5, TailSeq DEF ReadIdentity, Running
  <2>2. Prepare \in Seq(StepName) /\ << >> \in Seq(StepName)
    BY DEF Prepare, StepName
  <2>3. todo' \in Seq(StepName)
    BY <1>5, <2>1, <2>2 DEF ReadIdentity
  <2>4. QED
    BY <1>1, <1>5, <2>3 DEF ReadIdentity, harnessVars, daemonVars
<1>6. CASE DrawnEffect
  <2>1. PICK memo \in Draws : /\ SendPayload("send", EffectKeyOf(memo), memo)
                             /\ drawn' = (drawn \cup {memo}) \ {NoMemo}
    BY <1>6 DEF DrawnEffect, SendEffect
  <2>2. request' \in 0 .. MaxRequests /\ sealed' = sealed
    BY <1>1, <2>1 DEF SendPayload, DaemonTypeOK, SendExecute, Send
  <2>3. drawn' \subseteq Memos
    BY <2>1, KeysTyped
  <2>4. QED
    BY <1>1, <2>1, <2>2, <2>3, TailSeq DEF SendPayload, Running, Advance, harnessVars
<1>7. CASE ReceiveReply
  BY <1>1, <1>7, TailSeq DEF ReceiveReply, Running, Advance, harnessVars, daemonVars
<1>8. ASSUME NEW t \in Trials, StartTrial(t, NoFiles(t), CrashRun(t))
      PROVE  TrialTyped'
  BY <1>1, <1>8, Programs, DaemonAssumption DEF StartTrial, Spawn, NoFiles, HandleReset
<1>9. CASE Timeout
  BY <1>1, <1>9, ControlRow, EmptySeq DEF Timeout, ExitWith, daemonVars
<1>10. CASE CrashRunEnds(RecoveryRun)
  BY <1>1, <1>10, Programs, DaemonAssumption DEF CrashRunEnds, Spawn, daemonVars
<1>11. CASE RecoveryRunEnds \/ TrialFails \/ ReadDump
  BY <1>1, <1>11
     DEF RecoveryRunEnds, TrialFails, ReadDump, Expected, processVars, daemonVars
<1>12. CASE SealLedger
  BY <1>1, <1>12 DEF SealLedger, HandleSeal, processVars
<1>13. CASE ClassifyTrial(Classify(Intent, dump, store))
  <2>1. Classify(Intent, dump, store) \in Outcome \cup {"raises"}
    BY DEF Classify, CrossingOutcome, Outcome
  <2>2. QED
    BY <1>1, <1>13, <2>1 DEF ClassifyTrial, processVars, daemonVars
<1>14. CASE Daemon
  <2>1. PICK req \in wire : Handle(req)
    BY <1>14 DEF Daemon
  <2>2. sealed' = sealed
    BY <2>1, HandleSplit DEF Reply
  <2>3. QED
    BY <1>1, <1>14, <2>2 DEF Daemon, trialVars
<1>15. CASE UNCHANGED allVars
  BY <1>1, <1>15 DEF allVars, trialVars, daemonVars
<1>16. QED
  BY <1>2, <1>3, <1>4, <1>5, <1>6, <1>7, <1>8, <1>9, <1>10, <1>11, <1>12, <1>13, <1>14, <1>15
     DEF TrialNext, Process, Harness, HarnessGoesOn

LEMMA TrialTypedInit == ControlInit => TrialTyped
<1>1. DaemonInit => LedgerTypeOK
  BY FreshStateType DEF DaemonInit
<1>2. 0 \in 0 .. MaxRequests /\ 0 \in 0 .. MaxEpochs
  BY DaemonAssumption
<1>3. DaemonInit => DaemonTypeOK
  BY <1>1, <1>2 DEF DaemonInit, DaemonTypeOK
<1>4. QED
  BY <1>2, <1>3, EmptySeq
     DEF ControlInit, TrialInit, TrialTyped, TrialTypeOK, HarnessTypeOK, PhaseOK, NoFiles

\* Through every sequence of control trials the adapter's files, the harness and
\* the daemon keep their types, and the harness and the process they agree on
\* where the trial is.
THEOREM TrialTypeCorrect == TrialSpec => []TrialTypeOK
<1>1. TrialSpec => []TrialTyped
  BY TrialTypedInit, TrialTypedStep, PTL DEF TrialSpec
<1>2. QED
  BY <1>1, PTL DEF TrialTyped

\* A control trial reaches the ledger through the daemon's operations alone, so
\* that whatever holds of the daemon holds in every trial (trial.py run_trial,
\* base.py effect).
THEOREM TrialRunsDaemon == TrialSpec => DaemonSpec
<1>1. ControlInit => DaemonInit
  BY DEF ControlInit, TrialInit
<1>2. TrialSpec => []TrialTyped
  BY TrialTypedInit, TrialTypedStep, PTL DEF TrialSpec
<1>3. QED
  BY <1>1, <1>2, TrialStepRunsDaemon, PTL DEF TrialSpec, DaemonSpec

-----------------------------------------------------------------------------
(***************************************************************************)
(* The verdict stands.                                                     *)
(***************************************************************************)
VerdictOK ==
  /\ harness \in {"classify", "classified"} => dump = Dump
  /\ harness = "classified" => outcome = Classify(Intent, Dump, store)
  /\ outcome # "raises"

\* Steps of an adapter or against one: the harness is still waiting for it.
AdapterStep == Process \/ StrayKill \/ Timeout

LEMMA AdapterStepEffect ==
  ASSUME TrialTyped, AdapterStep
  PROVE  /\ harness \in {"crash_run", "recovery_run"} /\ harness' \in {harness, "failed"}
         /\ exit = "running" /\ exit' \in {"running", "killed", "zero", "error"}
         /\ UNCHANGED <<trial, outcome, epoch, sealed, answers, ledgerVars, store>>
<1> USE DEF TrialTyped, TrialTypeOK, HarnessTypeOK, PhaseOK
<1>1. trial.engine = "control"
  BY ControlRow
<1>2. CASE DrawnEffect
  BY <1>2 DEF DrawnEffect, SendEffect, SendPayload, SendExecute, Send, Running, harnessVars
<1>3. CASE Timeout
  BY <1>1, <1>3 DEF Timeout, ExitWith, daemonVars
<1>4. CASE KillSelf(TRUE) \/ Return \/ SamplerFails \/ StrayKill
  BY <1>4 DEF KillSelf, Return, SamplerFails, Raise, StrayKill, ExitWith, Running,
              harnessVars, daemonVars
<1>5. CASE CheckMarker \/ WriteFile \/ ReadIdentity \/ ReceiveReply
  BY <1>5 DEF CheckMarker, WriteFile, Persists, ReadIdentity, ReceiveReply, Running,
              harnessVars, daemonVars
<1>6. QED
  BY <1>2, <1>3, <1>4, <1>5 DEF AdapterStep, Process

LEMMA VerdictStep ==
  TrialTyped /\ VerdictOK /\ [TrialNext]_allVars => VerdictOK'
<1> SUFFICES ASSUME TrialTyped, VerdictOK, [TrialNext]_allVars PROVE VerdictOK'
  OBVIOUS
<1>1. CASE AdapterStep
  BY <1>1, AdapterStepEffect DEF VerdictOK
<1>2. ASSUME NEW t \in Trials, StartTrial(t, NoFiles(t), CrashRun(t)) PROVE VerdictOK'
  BY <1>2 DEF StartTrial, VerdictOK
<1>3. CASE CrashRunEnds(RecoveryRun) \/ RecoveryRunEnds \/ TrialFails \/ SealLedger
  BY <1>3 DEF CrashRunEnds, RecoveryRunEnds, TrialFails, SealLedger, VerdictOK
<1>4. CASE ReadDump
  BY <1>4 DEF ReadDump, VerdictOK, Dump, daemonVars, ledgerVars
<1>5. CASE ClassifyTrial(Classify(Intent, dump, store))
  <2>1. dump = Dump /\ UNCHANGED <<Intent, Dump, store>>
    BY <1>5 DEF ClassifyTrial, VerdictOK, Dump, Intent, daemonVars, ledgerVars
  <2>2. QED
    BY <1>5, <2>1 DEF ClassifyTrial, VerdictOK
<1>6. CASE Daemon
  <2>1. PICK req \in wire : Handle(req)
    BY <1>6 DEF Daemon
  <2>2. UNCHANGED <<trial, epoch, harness, dump, outcome>>
    BY <1>6, <2>1, HandleSplit DEF Daemon, trialVars, Reply
  <2>3. CASE sealed
    <3>1. UNCHANGED <<ledgerVars, store>>
      BY <2>1, <2>3, HandleSplit DEF Ledger
    <3>2. UNCHANGED <<Intent, Dump, store>>
      BY <2>2, <3>1 DEF Intent, Dump, ledgerVars
    <3>3. QED
      BY <2>2, <3>2 DEF VerdictOK
  <2>4. CASE ~ sealed
    BY <2>2, <2>4 DEF VerdictOK, TrialTyped, PhaseOK
  <2>5. QED
    BY <2>3, <2>4
<1>7. CASE UNCHANGED allVars
  BY <1>7 DEF allVars, trialVars, daemonVars, ledgerVars, VerdictOK, Dump, Intent
<1>8. QED
  BY <1>1, <1>2, <1>3, <1>4, <1>5, <1>6, <1>7
     DEF TrialNext, Harness, HarnessGoesOn, AdapterStep

LEMMA TrialVerdictOK == TrialSpec => [](TrialTyped /\ VerdictOK)
<1>1. ControlInit => VerdictOK
  BY DEF ControlInit, TrialInit, VerdictOK
<1>2. QED
  BY <1>1, TrialTypedInit, TrialTypedStep, VerdictStep, PTL DEF TrialSpec

\* Once a trial is scored its verdict is what the ledger shows until the next
\* reset, whatever dead processes of this trial or earlier ones left on the wire
\* (trial.py run_trial seals the ledger before it reads it).
THEOREM VerdictAlwaysStands == TrialSpec => []VerdictStands
<1>1. VerdictOK => VerdictStands
  BY DEF VerdictOK, VerdictStands, Scored
<1>2. QED
  BY <1>1, TrialVerdictOK, PTL

-----------------------------------------------------------------------------
(***************************************************************************)
(* What a program has still to do, and in which order.                     *)
(***************************************************************************)
Has(s, x) == \E n \in 1 .. Len(s) : s[n] = x
Before(x, y, s) == \A n \in 1 .. Len(s) : s[n] = y => \E m \in 1 .. n - 1 : s[m] = x

LEMMA TailElements ==
  ASSUME NEW S, NEW s \in Seq(S), s # << >>
  PROVE  /\ Tail(s) \in Seq(S) /\ Len(s) \in Nat \ {0} /\ Len(Tail(s)) = Len(s) - 1
         /\ Head(s) = s[1]
         /\ \A n \in 1 .. Len(s) - 1 : Tail(s)[n] = s[n + 1]
OBVIOUS

LEMMA HasTail ==
  ASSUME NEW S, NEW s \in Seq(S), s # << >>, NEW x
  PROVE  Has(s, x) <=> Head(s) = x \/ Has(Tail(s), x)
<1>1. ASSUME NEW n \in 1 .. Len(s), s[n] = x, Head(s) # x PROVE Has(Tail(s), x)
  <2>1. n - 1 \in 1 .. Len(s) - 1 /\ Tail(s)[n - 1] = s[n]
    BY <1>1, TailElements
  <2>2. QED
    BY <1>1, <2>1, TailElements DEF Has
<1>2. Has(Tail(s), x) => Has(s, x)
  <2> SUFFICES ASSUME NEW n \in 1 .. Len(s) - 1, Tail(s)[n] = x PROVE Has(s, x)
    BY TailElements DEF Has
  <2>1. n + 1 \in 1 .. Len(s) /\ s[n + 1] = x
    BY TailElements
  <2>2. QED
    BY <2>1 DEF Has
<1>3. Head(s) = x => Has(s, x)
  BY TailElements DEF Has
<1>4. QED
  BY <1>1, <1>2, <1>3 DEF Has

LEMMA BeforeTail ==
  ASSUME NEW S, NEW s \in Seq(S), s # << >>, NEW x, NEW y, Before(x, y, s), Head(s) # x
  PROVE  Before(x, y, Tail(s))
<1> SUFFICES ASSUME NEW n \in 1 .. Len(s) - 1, Tail(s)[n] = y
             PROVE  \E m \in 1 .. n - 1 : Tail(s)[m] = x
  BY TailElements DEF Before
<1>1. n + 1 \in 1 .. Len(s) /\ s[n + 1] = y
  BY TailElements
<1>2. PICK m \in 1 .. (n + 1) - 1 : s[m] = x
  BY <1>1 DEF Before
<1>3. m - 1 \in 1 .. n - 1 /\ Tail(s)[m - 1] = s[m]
  BY <1>2, TailElements
<1>4. QED
  BY <1>2, <1>3

LEMMA ConcatElements ==
  ASSUME NEW S, NEW u \in Seq(S), NEW v \in Seq(S)
  PROVE  /\ u \o v \in Seq(S) /\ Len(u) \in Nat /\ Len(v) \in Nat
         /\ Len(u \o v) = Len(u) + Len(v)
         /\ \A n \in 1 .. Len(u) : (u \o v)[n] = u[n]
         /\ \A n \in 1 .. Len(v) : (u \o v)[Len(u) + n] = v[n]
OBVIOUS

LEMMA HasConcat ==
  ASSUME NEW S, NEW u \in Seq(S), NEW v \in Seq(S), NEW x
  PROVE  Has(u \o v, x) <=> Has(u, x) \/ Has(v, x)
<1> DEFINE w == u \o v
<1>1. /\ Len(u) \in Nat /\ Len(v) \in Nat /\ Len(w) = Len(u) + Len(v)
      /\ \A n \in 1 .. Len(u) : w[n] = u[n]
      /\ \A n \in 1 .. Len(v) : w[Len(u) + n] = v[n]
  BY ConcatElements
<1> HIDE DEF w
<1>2. ASSUME NEW n \in 1 .. Len(w), w[n] = x PROVE Has(u, x) \/ Has(v, x)
  <2>1. CASE n \in 1 .. Len(u)
    BY <1>1, <1>2, <2>1 DEF Has
  <2>2. CASE n \notin 1 .. Len(u)
    <3>1. n - Len(u) \in 1 .. Len(v) /\ w[Len(u) + (n - Len(u))] = w[n]
      BY <1>1, <1>2, <2>2
    <3>2. QED
      BY <1>1, <1>2, <3>1 DEF Has
  <2>3. QED
    BY <2>1, <2>2
<1>3. Has(u, x) => Has(w, x)
  BY <1>1 DEF Has
<1>4. Has(v, x) => Has(w, x)
  <2> SUFFICES ASSUME NEW n \in 1 .. Len(v), v[n] = x PROVE Has(w, x)
    BY DEF Has
  <2>1. Len(u) + n \in 1 .. Len(w) /\ w[Len(u) + n] = x
    BY <1>1
  <2>2. QED
    BY <2>1 DEF Has
<1>5. QED
  BY <1>2, <1>3, <1>4 DEF w, Has

LEMMA BeforeConcat ==
  ASSUME NEW S, NEW u \in Seq(S), NEW v \in Seq(S), NEW x, NEW y,
         Before(x, y, u), Has(u, x) \/ Before(x, y, v)
  PROVE  Before(x, y, u \o v)
<1> DEFINE w == u \o v
<1>1. /\ Len(u) \in Nat /\ Len(v) \in Nat /\ Len(w) = Len(u) + Len(v)
      /\ \A n \in 1 .. Len(u) : w[n] = u[n]
      /\ \A n \in 1 .. Len(v) : w[Len(u) + n] = v[n]
  BY ConcatElements
<1> HIDE DEF w
<1> SUFFICES ASSUME NEW n \in 1 .. Len(w), w[n] = y PROVE \E m \in 1 .. n - 1 : w[m] = x
  BY DEF Before, w
<1>2. CASE n \in 1 .. Len(u)
  <2>1. PICK m \in 1 .. n - 1 : u[m] = x
    BY <1>1, <1>2 DEF Before
  <2>2. QED
    BY <1>1, <1>2, <2>1
<1>3. CASE n \notin 1 .. Len(u)
  <2>1. n - Len(u) \in 1 .. Len(v) /\ v[n - Len(u)] = y
    <3>1. n - Len(u) \in 1 .. Len(v) /\ n = Len(u) + (n - Len(u))
      BY <1>1, <1>3
    <3>2. QED
      BY <1>1, <3>1
  <2>2. CASE Has(u, x)
    BY <1>1, <1>3, <2>2 DEF Has
  <2>3. CASE Before(x, y, v)
    <3>1. PICK m \in 1 .. (n - Len(u)) - 1 : v[m] = x
      BY <2>1, <2>3 DEF Before
    <3>2. Len(u) + m \in 1 .. n - 1 /\ w[Len(u) + m] = x
      BY <1>1, <1>3, <2>1, <3>1
    <3>3. QED
      BY <3>2
  <2>4. QED
    BY <2>2, <2>3
<1>4. QED
  BY <1>2, <1>3

-----------------------------------------------------------------------------
(***************************************************************************)
(* Every request of a trial is an execute under the shared intent, is      *)
(* answered once, and is told apart by its number and its trial.           *)
(***************************************************************************)
RequestsOK ==
  /\ \A r \in Issued : /\ r \in Request /\ r.id <= sent /\ r.epoch <= epoch
                       /\ r.op = "execute" /\ r.intent = SharedIntent
                       /\ r.payload \notin Unhashable
  /\ \A r, s \in Issued : r.id = s.id => r = s
  /\ \A r \in wire, a \in answers : a.req # r
  /\ \A r \in Issued : r.id = request => r.epoch = epoch

LEMMA SendRequest ==
  ASSUME TrialTyped, DrawnEffect
  PROVE  \E memo \in Draws, r \in Request :
           /\ r.id = sent + 1 /\ r.op = "execute" /\ r.intent = SharedIntent
           /\ r.key = EffectKeyOf(memo) /\ r.payload = memo /\ r.epoch = epoch
           /\ memo \notin Unhashable
           /\ sent' = sent + 1 /\ request' = sent + 1
           /\ wire' = wire \cup {r} /\ Issued' = Issued \cup {r}
           /\ UNCHANGED <<answers, epoch, harness, trial, disk, exit, ledgerVars>>
           /\ exit = "running" /\ Running("send") /\ todo' = Tail(todo)
           /\ drawn' = (drawn \cup {memo}) \ {NoMemo}
<1> USE DEF TrialTyped, TrialTypeOK, HarnessTypeOK
<1>1. PICK memo \in Draws : /\ SendPayload("send", EffectKeyOf(memo), memo)
                           /\ drawn' = (drawn \cup {memo}) \ {NoMemo}
  BY DEF DrawnEffect, SendEffect
<1> DEFINE r == [id |-> sent + 1, op |-> "execute", intent |-> SharedIntent,
                 key |-> EffectKeyOf(memo), payload |-> memo, epoch |-> epoch]
<1>2. Intent = SharedIntent
  BY ControlRow DEF Intent
<1>3. /\ sent < MaxRequests /\ sent' = sent + 1 /\ request' = sent' /\ wire' = wire \cup {r}
      /\ UNCHANGED <<ledgerVars, answers, epoch>>
  BY <1>1, <1>2 DEF SendPayload, SendExecute, Send
<1>4. r \in Request
  <2>1. sent + 1 \in RequestId
    BY <1>3, DaemonAssumption DEF DaemonTypeOK, RequestId
  <2>2. SharedIntent \in Intents /\ epoch \in 0 .. MaxEpochs
    BY TrialAssumption DEF DaemonTypeOK
  <2>3. memo \in Payloads /\ EffectKeyOf(memo) \in Keys \cup {NoKey}
    BY KeysTyped
  <2>4. QED
    BY <2>1, <2>2, <2>3 DEF Request
<1>5. Issued' = Issued \cup {r}
  BY <1>3 DEF Issued
<1>6. /\ UNCHANGED <<harness, trial, disk, exit>> /\ Running("send") /\ exit = "running"
      /\ todo' = Tail(todo)
  BY <1>1 DEF SendPayload, Running, Advance, harnessVars
<1>7. QED
  BY <1>1, <1>3, <1>4, <1>5, <1>6, KeysTyped

LEMMA IssuedKept ==
  ASSUME TrialTyped, RequestsOK, UNCHANGED <<sent, wire, answers, epoch>>, request' \in {0, request}
  PROVE  RequestsOK'
<1>1. Issued' = Issued
  BY DEF Issued
<1>2. \A r \in Issued : r.id # 0
  BY DEF RequestsOK, Request, RequestId
<1>3. QED
  BY <1>1, <1>2 DEF RequestsOK

LEMMA RequestsStep == TrialTyped /\ RequestsOK /\ [TrialNext]_allVars => RequestsOK'
<1> SUFFICES ASSUME TrialTyped, RequestsOK, [TrialNext]_allVars PROVE RequestsOK'
  OBVIOUS
<1>1. sent \in Nat /\ epoch \in Nat /\ \A r \in Issued : r.id \in Nat \ {0} /\ r.epoch \in Nat
  BY DaemonAssumption
     DEF RequestsOK, Request, RequestId, TrialTyped, TrialTypeOK, HarnessTypeOK, DaemonTypeOK
<1>2. CASE DrawnEffect
  <2>1. PICK memo \in Draws, r \in Request :
           /\ r.id = sent + 1 /\ r.op = "execute" /\ r.intent = SharedIntent
           /\ r.payload \notin Unhashable /\ r.epoch = epoch
           /\ sent' = sent + 1 /\ request' = sent + 1
           /\ wire' = wire \cup {r} /\ Issued' = Issued \cup {r}
           /\ UNCHANGED <<answers, epoch>>
    BY <1>2, SendRequest
  <2>2. \A s \in Issued : s.id # r.id
    BY <1>1, <2>1 DEF RequestsOK
  <2>3. r \notin Issued
    BY <2>2
  <2>4. \A s \in Issued' : /\ s \in Request /\ s.id <= sent' /\ s.epoch <= epoch'
                          /\ s.op = "execute" /\ s.intent = SharedIntent
                          /\ s.payload \notin Unhashable
    BY <1>1, <2>1 DEF RequestsOK
  <2>5. \A s, t \in Issued' : s.id = t.id => s = t
    BY <2>1, <2>2 DEF RequestsOK
  <2>6. \A s \in wire', a \in answers' : a.req # s
    BY <2>1, <2>3 DEF RequestsOK, Issued
  <2>7. \A s \in Issued' : s.id = request' => s.epoch = epoch'
    BY <2>1, <2>2
  <2>8. QED
    BY <2>4, <2>5, <2>6, <2>7 DEF RequestsOK
<1>3. CASE \E t \in Trials : StartTrial(t, NoFiles(t), CrashRun(t))
  <2>1. /\ epoch' = epoch + 1 /\ request' = 0 /\ UNCHANGED <<sent, wire, answers>>
    BY <1>3 DEF StartTrial, HandleReset, Spawn
  <2>2. Issued' = Issued
    BY <2>1 DEF Issued
  <2>3. QED
    BY <1>1, <2>1, <2>2 DEF RequestsOK
<1>4. CASE Daemon
  <2>1. PICK req \in wire : Handle(req)
    BY <1>4 DEF Daemon
  <2>2. request' = request
    BY <1>4 DEF Daemon, trialVars
  <2>3. PICK status : answers' = answers \cup {[req |-> req, status |-> status, epoch |-> epoch]}
    BY <2>1, DaemonMoves
  <2>4. wire' = wire \ {req} /\ Issued' = Issued /\ sent' = sent /\ epoch' = epoch
    BY <2>1, DaemonMoves
  <2>5. \A s \in wire', a \in answers' : a.req # s
    BY <2>3, <2>4 DEF RequestsOK
  <2>6. QED
    BY <2>2, <2>4, <2>5 DEF RequestsOK
<1>5. CASE UNCHANGED <<sent, wire, answers, epoch>> /\ request' \in {0, request}
  BY <1>5, IssuedKept
<1>6. QED
  BY <1>2, <1>3, <1>4, <1>5
     DEF TrialNext, Process, KillSelf, Return, CheckMarker, WriteFile, Persists, ReadIdentity,
         SamplerFails, Raise, ReceiveReply, StrayKill, Harness, Timeout, HarnessGoesOn,
         CrashRunEnds, Spawn, RecoveryRunEnds, TrialFails, SealLedger, HandleSeal, ReadDump,
         ClassifyTrial, allVars, trialVars, daemonVars, processVars

-----------------------------------------------------------------------------
(***************************************************************************)
(* An effect performed before it is persisted is never lost.               *)
(***************************************************************************)
EffectMade == effect_keys[SharedIntent] # << >>
EffectFirst == ~ PersistThenEffect(trial)
MarkerSteps == {"open_marker", "write_marker"}

LEMMA MarkerAfterAwait ==
  ASSUME NEW t \in Trials, NEW x \in MarkerSteps
  PROVE  /\ ~ PersistThenEffect(t) => Before("await", x, CrashRun(t))
         /\ Before("await", x, RecoveryRun) /\ Has(RecoveryRun, "await")
<1> DEFINE S == StepName
           P == IF TwoPhase(t) THEN Prepare ELSE << >>
<1>1. /\ EffectSteps \in Seq(S) /\ PersistSteps \in Seq(S) /\ <<"check">> \in Seq(S)
      /\ Prepare \in Seq(S) /\ << >> \in Seq(S)
  BY DEF Prepare, EffectSteps, PersistSteps, StepName
<1>2. P \in Seq(S)
  BY <1>1
<1>3. /\ ~ Has(P, x) /\ ~ Has(EffectSteps, x) /\ ~ Has(<<"check">>, x)
      /\ \A b \in Barrier : ~ Has(CrashAt(b, t), x)
  BY DEF Has, MarkerSteps, Prepare, EffectSteps, CrashAt, Barrier
<1>4. Has(EffectSteps, "await")
  BY DEF Has, EffectSteps
<1>5. ASSUME NEW b \in Barrier PROVE CrashAt(b, t) \in Seq(S)
  <2>1. b \in S
    BY DEF StepName
  <2>2. <<b>> \in Seq(S) /\ << >> \in Seq(S)
    BY <2>1
  <2>3. QED
    BY <2>2 DEF CrashAt
<1>6. /\ CrashAt("b0", t) \in Seq(S) /\ CrashAt("b1", t) \in Seq(S) /\ CrashAt("b2", t) \in Seq(S)
      /\ ~ Has(CrashAt("b0", t), x)
  BY <1>3, <1>5 DEF Barrier
<1> HIDE DEF S, P
<1>7. ASSUME NEW u \in Seq(S), NEW v \in Seq(S), ~ Has(u, x), ~ Has(v, x)
      PROVE  u \o v \in Seq(S) /\ ~ Has(u \o v, x)
  BY <1>7, ConcatElements, HasConcat
<1>8. ASSUME NEW u \in Seq(S), ~ Has(u, x), Has(u, "await")
      PROVE  Before("await", x, u)
  BY <1>8 DEF Has, Before
<1>9. ASSUME NEW u \in Seq(S), NEW v \in Seq(S), Has(u, "await"), Before("await", x, u)
      PROVE  /\ u \o v \in Seq(S) /\ Has(u \o v, "await") /\ Before("await", x, u \o v)
  BY <1>9, ConcatElements, HasConcat, BeforeConcat
<1>10. ASSUME NEW u \in Seq(S), ~ Has(u, x)
       PROVE  /\ u \o EffectSteps \in Seq(S) /\ Has(u \o EffectSteps, "await")
              /\ Before("await", x, u \o EffectSteps)
  <2>1. u \o EffectSteps \in Seq(S) /\ ~ Has(u \o EffectSteps, x)
    BY <1>1, <1>3, <1>7, <1>10
  <2>2. Has(u \o EffectSteps, "await")
    BY <1>1, <1>4, HasConcat
  <2>3. QED
    BY <1>8, <2>1, <2>2
<1>11. ASSUME ~ PersistThenEffect(t) PROVE Before("await", x, CrashRun(t))
  <2> DEFINE u == P \o CrashAt("b0", t) \o EffectSteps
  <2>1. P \o CrashAt("b0", t) \in Seq(S) /\ ~ Has(P \o CrashAt("b0", t), x)
    BY <1>2, <1>3, <1>6, <1>7
  <2>2. u \in Seq(S) /\ Has(u, "await") /\ Before("await", x, u)
    BY <1>10, <2>1
  <2> HIDE DEF u
  <2> DEFINE v == u \o CrashAt("b1", t)
  <2>3. v \in Seq(S) /\ Has(v, "await") /\ Before("await", x, v)
    BY <1>6, <1>9, <2>2
  <2> HIDE DEF v
  <2> DEFINE w == v \o PersistSteps
  <2>4. w \in Seq(S) /\ Has(w, "await") /\ Before("await", x, w)
    BY <1>1, <1>9, <2>3
  <2> HIDE DEF w
  <2>5. Before("await", x, w \o CrashAt("b2", t))
    BY <1>6, <1>9, <2>4
  <2>6. CrashRun(t) = w \o CrashAt("b2", t)
    BY <1>11 DEF CrashRun, w, v, u, P
  <2>7. QED
    BY <2>5, <2>6
<1>12. Before("await", x, RecoveryRun) /\ Has(RecoveryRun, "await")
  <2> DEFINE u == <<"check">> \o EffectSteps
  <2>1. u \in Seq(S) /\ Has(u, "await") /\ Before("await", x, u)
    BY <1>1, <1>3, <1>10
  <2> HIDE DEF u
  <2>2. Has(u \o PersistSteps, "await") /\ Before("await", x, u \o PersistSteps)
    BY <1>1, <1>9, <2>1
  <2>3. QED
    BY <2>2 DEF RecoveryRun, u
<1>13. QED
  BY <1>11, <1>12

\* In a ledger that is not sealed every request of a trial crosses, or finds that
\* its key has crossed, though its record may not be written.
LEMMA ExecutedMade ==
  ASSUME TrialTyped, CrossingsAgree, RequestsOK, NEW req \in wire, Handle(req), ~ sealed
  PROVE  /\ EffectMade'
         /\ CountEffect(SharedIntent, req.key, req.payload)
         /\ \E status \in {"ok", "no response"} :
              answers' = answers \cup {[req |-> req, status |-> status, epoch |-> epoch]}
<1>1. /\ req \in Request /\ req.op = "execute" /\ req.intent = SharedIntent
      /\ req.payload \notin Unhashable /\ SharedIntent \in Intents
  BY TrialAssumption DEF RequestsOK, Issued
<1>2. HandleExecute(req) \/ HandleAppendFails(req)
  BY <1>1 DEF Handle, HandleSealed, HandleUnhashable, HandleUnprivileged, ExecuteUnhashable
<1>3. /\ CountEffect(SharedIntent, req.key, req.payload)
      /\ Reply(req, "ok") \/ Reply(req, "no response")
  BY <1>1, <1>2 DEF HandleExecute, HandleAppendFails, Execute, ExecuteAppendFails
<1>4. /\ effect_keys \in [Intents -> Seq(Keys \cup {NoKey})]
      /\ req.key \in Keys \cup {NoKey}
  BY <1>1 DEF TrialTyped, TrialTypeOK, HarnessTypeOK, DaemonTypeOK, LedgerTypeOK, Request
<1>5. CASE Deduped(SharedIntent, req.key)
  <2>1. req.key \in {effect_keys[SharedIntent][n] : n \in 1 .. Len(effect_keys[SharedIntent])}
    BY <1>1, <1>5 DEF Deduped, CrossingsAgree
  <2>2. EffectMade
    BY <2>1 DEF EffectMade
  <2>3. QED
    BY <1>3, <1>5, <2>2 DEF CountEffect, EffectMade, Reply
<1>6. CASE ~ Deduped(SharedIntent, req.key)
  <2>1. effect_keys'[SharedIntent] = Append(effect_keys[SharedIntent], req.key)
    BY <1>1, <1>3, <1>4, <1>6 DEF CountEffect, Crossed
  <2>2. effect_keys[SharedIntent] \in Seq(Keys \cup {NoKey})
    BY <1>1, <1>4
  <2> DEFINE K == Keys \cup {NoKey}
  <2>3. Append(effect_keys[SharedIntent], req.key) # << >>
    BY <1>4, <2>2, AppendProperties
  <2>4. QED
    BY <1>3, <2>1, <2>3 DEF EffectMade, Reply
<1>7. QED
  BY <1>5, <1>6

LEMMA MadeStays ==
  ASSUME TrialTyped, CrossingsAgree, RequestsOK, [TrialNext]_allVars, epoch' = epoch, EffectMade
  PROVE  EffectMade'
<1>1. CASE UNCHANGED ledgerVars
  BY <1>1 DEF EffectMade, ledgerVars
<1>2. CASE Daemon
  <2>1. PICK req \in wire : Handle(req)
    BY <1>2 DEF Daemon
  <2>2. CASE sealed
    BY <1>1, <2>1, <2>2, HandleSplit DEF Ledger
  <2>3. QED
    BY <2>1, <2>2, ExecutedMade
<1>3. ASSUME NEW t \in Trials, StartTrial(t, NoFiles(t), CrashRun(t)) PROVE FALSE
  BY <1>3 DEF StartTrial, HandleReset, TrialTyped, TrialTypeOK, HarnessTypeOK, DaemonTypeOK
<1>4. CASE AdapterStep
  BY <1>1, <1>4, AdapterStepEffect
<1>5. QED
  BY <1>1, <1>2, <1>3, <1>4
     DEF TrialNext, Harness, HarnessGoesOn, AdapterStep, CrashRunEnds, RecoveryRunEnds,
         TrialFails, SealLedger, HandleSeal, ReadDump, ClassifyTrial, allVars, daemonVars

ProgressOK ==
  /\ exit # "stalled"
  /\ harness \in {"crash_run", "recovery_run"} =>
       \A a \in answers : a.req.epoch = epoch => EffectMade
  /\ EffectFirst /\ exit = "running" =>
       \A x \in MarkerSteps : EffectMade \/ Before("await", x, todo)
  /\ EffectFirst /\ disk.marker # "absent" => EffectMade
  /\ EffectFirst /\ harness = "recovery_run" /\ exit = "running" =>
       EffectMade \/ Has(todo, "await")
  /\ EffectFirst /\ harness = "recovery_run" /\ exit = "zero" => EffectMade
  /\ EffectFirst /\ harness \in {"seal", "dump", "classify", "classified"} => EffectMade

TrialSafe == TrialTyped /\ CrossingsAgree /\ RequestsOK

LEMMA ProgressStep == TrialSafe /\ ProgressOK /\ [TrialNext]_allVars => ProgressOK'
<1> SUFFICES ASSUME TrialSafe, ProgressOK, [TrialNext]_allVars PROVE ProgressOK'
  OBVIOUS
<1> USE DEF TrialSafe
<1>1. ASSUME NEW t \in Trials, StartTrial(t, NoFiles(t), CrashRun(t)) PROVE ProgressOK'
  <2>1. /\ trial' = t /\ harness' = "crash_run" /\ exit' = "running" /\ todo' = CrashRun(t)
        /\ disk'.marker = "absent" /\ answers' = answers /\ epoch' = epoch + 1
    BY <1>1 DEF StartTrial, Spawn, NoFiles, HandleReset
  <2>2. \A a \in answers' : a.req.epoch # epoch'
    <3>1. \A a \in answers : a.req \in Issued
      BY DEF Issued
    <3>2. epoch \in Nat /\ \A r \in Issued : r.epoch \in Nat /\ r.epoch <= epoch
      BY DaemonAssumption
         DEF RequestsOK, Request, TrialTyped, TrialTypeOK, HarnessTypeOK, DaemonTypeOK
    <3>3. QED
      BY <2>1, <3>1, <3>2
  <2>3. EffectFirst' => \A x \in MarkerSteps : Before("await", x, todo')
    BY <2>1, MarkerAfterAwait DEF EffectFirst
  <2>4. QED
    BY <2>1, <2>2, <2>3 DEF ProgressOK
<1>2. CASE epoch' = epoch /\ trial' = trial
  <2>1. EffectFirst' = EffectFirst /\ (EffectMade => EffectMade')
    BY <1>2, MadeStays DEF EffectFirst
  <2>2. CASE AdapterStep
    <3>1. /\ harness \in {"crash_run", "recovery_run"} /\ harness' \in {harness, "failed"}
          /\ exit = "running" /\ exit' \in {"running", "killed", "zero", "error"}
          /\ answers' = answers /\ EffectMade' = EffectMade
      BY <2>2, AdapterStepEffect DEF ledgerVars, EffectMade
    <3>2. CASE EffectMade
      BY <3>1, <3>2 DEF ProgressOK
    <3>3. CASE ~ EffectMade /\ EffectFirst
      <4>1. /\ \A x \in MarkerSteps : Before("await", x, todo)
            /\ disk.marker = "absent"
            /\ harness = "recovery_run" => Has(todo, "await")
            /\ \A a \in answers : a.req.epoch # epoch
        BY <3>1, <3>3 DEF ProgressOK
      <4>2. SUFFICES /\ exit' = "running" => \A x \in MarkerSteps : Before("await", x, todo')
                     /\ disk'.marker = "absent"
                     /\ harness' = "recovery_run" /\ exit' = "running" => Has(todo', "await")
                     /\ ~ (harness' = "recovery_run" /\ exit' = "zero")
        BY <1>2, <3>1, <3>3, <4>1, <2>1 DEF ProgressOK
      <4>3. ASSUME todo # << >>, Head(todo) # "await", todo' = Tail(todo)
            PROVE  /\ \A x \in MarkerSteps : Before("await", x, todo')
                   /\ harness = "recovery_run" => Has(todo', "await")
        BY <4>1, <4>3, HasTail, BeforeTail DEF TrialTyped, TrialTypeOK
      <4>4. CASE KillSelf(TRUE) \/ SamplerFails \/ StrayKill \/ Timeout
        <5>1. exit' \in {"killed", "error", "stalled"} /\ disk' = disk
          BY <4>4 DEF KillSelf, SamplerFails, Raise, StrayKill, Timeout, ExitWith
        <5>2. QED
          BY <4>1, <5>1
      <4>5. CASE Return
        <5>1. todo = << >> /\ exit' = "zero" /\ UNCHANGED <<harness, disk>>
          BY <4>5 DEF Return, ExitWith, harnessVars
        <5>2. ~ Has(todo, "await")
          BY <5>1 DEF Has
        <5>3. QED
          BY <4>1, <5>1, <5>2
      <4>6. CASE CheckMarker
        <5>1. /\ todo # << >> /\ Head(todo) = "check" /\ todo' = Tail(todo)
              /\ UNCHANGED <<harness, exit, disk>>
          BY <4>1, <4>6 DEF CheckMarker, Running, harnessVars
        <5>2. QED
          BY <3>1, <4>1, <4>3, <5>1
      <4>7. CASE WriteFile
        <5>1. /\ todo # << >> /\ todo' = Tail(todo) /\ UNCHANGED <<harness, exit>>
              /\ Head(todo) \in MarkerSteps \cup {"open_identity", "write_identity"}
          BY <4>7 DEF WriteFile, Persists, Running, Advance, MarkerSteps, harnessVars
        <5>2. ASSUME NEW x \in MarkerSteps PROVE Head(todo) # x
          <6>1. todo[1] = x => \E m \in 1 .. 1 - 1 : todo[m] = "await"
            BY <4>1, <5>1, TailElements DEF Before, TrialTyped, TrialTypeOK
          <6>2. QED
            BY <5>1, <6>1, TailElements DEF TrialTyped, TrialTypeOK
        <5>3. disk'.marker = disk.marker
          BY <4>7, <5>2
             DEF WriteFile, Persists, Running, MarkerSteps, TrialTyped, TrialTypeOK
        <5>4. Head(todo) # "await"
          BY <5>1 DEF MarkerSteps
        <5>5. QED
          BY <3>1, <4>1, <4>3, <5>1, <5>3, <5>4
      <4>8. CASE ReadIdentity
        <5>1. /\ todo # << >> /\ Head(todo) = "identity" /\ UNCHANGED <<harness, exit, disk>>
              /\ todo' = Prepare \o Tail(todo) \/ todo' = << >> \o Tail(todo)
          BY <4>8 DEF ReadIdentity, Running, harnessVars
        <5> DEFINE s == Tail(todo)
        <5>2. s \in Seq(StepName) /\ \A x \in MarkerSteps : Before("await", x, s)
          BY <4>1, <5>1, TailElements, BeforeTail DEF TrialTyped, TrialTypeOK
        <5>3. harness = "recovery_run" => Has(s, "await")
          BY <4>1, <5>1, HasTail DEF TrialTyped, TrialTypeOK
        <5> HIDE DEF s
        <5>4. Prepare \in Seq(StepName) /\ << >> \in Seq(StepName)
          BY DEF Prepare, StepName
        <5>5. \A x \in MarkerSteps : Before("await", x, Prepare) /\ Before("await", x, << >>)
          BY DEF Before, Prepare, MarkerSteps
        <5>6. \A x \in MarkerSteps : Before("await", x, Prepare \o s)
                                     /\ Before("await", x, << >> \o s)
          BY <5>2, <5>4, <5>5, BeforeConcat
        <5>7. harness = "recovery_run" => Has(Prepare \o s, "await") /\ Has(<< >> \o s, "await")
          BY <5>2, <5>3, <5>4, HasConcat
        <5>8. QED
          BY <3>1, <4>1, <5>1, <5>6, <5>7 DEF s
      <4>9. CASE DrawnEffect
        <5>1. /\ todo # << >> /\ Head(todo) = "send" /\ todo' = Tail(todo)
              /\ UNCHANGED <<harness, exit, disk>>
          BY <4>9, SendRequest DEF Running
        <5>2. QED
          BY <3>1, <4>1, <4>3, <5>1
      <4>10. CASE ReceiveReply
        <5>1. PICK a \in answers : a.req.id = request
          BY <4>10 DEF ReceiveReply
        <5>2. a.req.epoch = epoch
          BY <5>1 DEF RequestsOK, Issued
        <5>3. QED
          BY <4>1, <5>2
      <4>11. QED
        BY <2>2, <4>4, <4>5, <4>6, <4>7, <4>8, <4>9, <4>10 DEF AdapterStep, Process
    <3>4. CASE ~ EffectMade /\ ~ EffectFirst
      BY <1>2, <2>1, <3>1, <3>4 DEF ProgressOK
    <3>5. QED
      BY <3>2, <3>3, <3>4
  <2>3. CASE Daemon
    <3>1. PICK req \in wire : Handle(req)
      BY <2>3 DEF Daemon
    <3>2. UNCHANGED <<exit, harness, todo, disk>>
      BY <2>3 DEF Daemon, trialVars
    <3>3. CASE harness \in {"crash_run", "recovery_run"}
      <4>1. EffectMade'
        BY <3>1, <3>3, ExecutedMade DEF TrialTyped, PhaseOK
      <4>2. QED
        BY <3>2, <4>1 DEF ProgressOK
    <3>4. CASE harness \notin {"crash_run", "recovery_run"}
      BY <2>1, <3>2, <3>4 DEF ProgressOK
    <3>5. QED
      BY <3>3, <3>4
  <2>4. CASE CrashRunEnds(RecoveryRun)
    <3>1. /\ harness = "crash_run" /\ harness' = "recovery_run" /\ exit' = "running"
          /\ todo' = RecoveryRun /\ UNCHANGED <<disk, answers>>
      BY <2>4 DEF CrashRunEnds, Spawn, daemonVars
    <3>2. Has(todo', "await") /\ \A x \in MarkerSteps : Before("await", x, todo')
      <4>1. trial \in Trials /\ "open_marker" \in MarkerSteps
        BY DEF TrialTyped, TrialTypeOK, HarnessTypeOK, MarkerSteps
      <4>2. QED
        BY <3>1, <4>1, MarkerAfterAwait
    <3>3. QED
      BY <1>2, <2>1, <3>1, <3>2 DEF ProgressOK
  <2>5. CASE RecoveryRunEnds
    <3>1. /\ harness = "recovery_run" /\ exit = "zero" /\ harness' = "seal"
          /\ UNCHANGED <<exit, disk, answers>>
      BY <2>5 DEF RecoveryRunEnds, Expected, ProgressOK, processVars, daemonVars
    <3>2. QED
      BY <2>1, <3>1 DEF ProgressOK
  <2>6. CASE TrialFails
    <3>1. harness' = "failed" /\ exit # "running" /\ UNCHANGED <<exit, disk, answers>>
      BY <2>6 DEF TrialFails, processVars, daemonVars
    <3>2. QED
      BY <2>1, <3>1 DEF ProgressOK
  <2>7. CASE \/ SealLedger \/ ReadDump \/ ClassifyTrial(Classify(Intent, dump, store))
    <3>1. /\ harness \in {"seal", "dump", "classify"}
          /\ harness' \in {"dump", "classify", "classified", "failed"}
          /\ UNCHANGED <<exit, todo, disk>>
      BY <2>7 DEF SealLedger, ReadDump, ClassifyTrial, processVars
    <3>2. exit # "running"
      BY <3>1 DEF TrialTyped, PhaseOK
    <3>3. QED
      BY <2>1, <3>1, <3>2 DEF ProgressOK
  <2>8. CASE UNCHANGED allVars
    BY <2>8, <2>1 DEF allVars, trialVars, daemonVars, ProgressOK
  <2>9. QED
    BY <1>1, <2>2, <2>3, <2>4, <2>5, <2>6, <2>7, <2>8, <1>2
       DEF TrialNext, Harness, HarnessGoesOn, AdapterStep
<1>3. \/ \E t \in Trials : StartTrial(t, NoFiles(t), CrashRun(t))
      \/ epoch' = epoch /\ trial' = trial
  <2>1. CASE AdapterStep
    BY <2>1, AdapterStepEffect
  <2>2. CASE Daemon
    BY <2>2, HandleSplit DEF Daemon, Reply, trialVars
  <2>3. QED
    BY <2>1, <2>2
       DEF TrialNext, Harness, HarnessGoesOn, AdapterStep, CrashRunEnds, RecoveryRunEnds,
           TrialFails, SealLedger, HandleSeal, ReadDump, ClassifyTrial, allVars, trialVars,
           daemonVars
<1>4. QED
  BY <1>1, <1>2, <1>3

LEMMA TrialSafeAlways == TrialSpec => [](TrialSafe /\ ProgressOK /\ VerdictOK /\ StoreOnChain)
<1>1. ControlInit => RequestsOK /\ ProgressOK
  BY DEF ControlInit, TrialInit, DaemonInit, RequestsOK, Issued, ProgressOK, NoFiles
<1>2. TrialSpec => []CrossingsAgree /\ []StoreOnChain
  BY TrialRunsDaemon, CrossingsAlwaysAgree, StoreAlwaysOnChain, PTL
<1>3. TrialSpec => []RequestsOK
  BY <1>1, TrialVerdictOK, RequestsStep, PTL DEF TrialSpec
<1>4. TrialSpec => []TrialSafe
  BY <1>2, <1>3, TrialVerdictOK, PTL DEF TrialSafe
<1>5. TrialSpec => []ProgressOK
  BY <1>1, <1>4, ProgressStep, PTL DEF TrialSpec
<1>6. QED
  BY <1>2, <1>4, <1>5, TrialVerdictOK, PTL

\* Wherever the adapter is killed, for any memos and any number of trials, a step
\* that performs its effect before it persists is never scored lost: it writes its
\* marker only once the effect is made, and a recovery that finds none makes it
\* (controls.py run).
THEOREM NeverLostWhereverKilled == TrialSpec => []KilledAnywhereNotLost
<1>1. TrialSafe /\ ProgressOK /\ VerdictOK => KilledAnywhereNotLost
  <2> SUFFICES ASSUME TrialSafe, ProgressOK, VerdictOK, Scored, ~ PersistThenEffect(trial)
               PROVE  outcome # "lost"
    BY DEF KilledAnywhereNotLost
  <2>1. effect_keys[SharedIntent] # << >>
    BY DEF ProgressOK, EffectFirst, Scored, EffectMade
  <2>2. Intent = SharedIntent /\ SharedIntent \in Intents
    BY ControlRow, TrialAssumption
       DEF Intent, TrialSafe, TrialTyped, TrialTypeOK, HarnessTypeOK
  <2>3. outcome = Classify(Intent, Dump, store)
    BY DEF VerdictOK, Scored
  <2>4. QED
    BY <2>1, <2>2, <2>3, ClassifyCrossings
       DEF TrialSafe, TrialTyped, TrialTypeOK, HarnessTypeOK, DaemonTypeOK
<1>2. QED
  BY <1>1, TrialSafeAlways, PTL

-----------------------------------------------------------------------------
(***************************************************************************)
(* The keys of a trial: every request of one trial carries the same key, or *)
(* there is only one.                                                      *)
(***************************************************************************)
PrepareSteps == {"open_identity", "write_identity"}

\* The identity is opened and written first, or not at all.
Prepares(s, identity) ==
  \A n \in 1 .. Len(s) :
    /\ s[n] = "open_identity" => n = 1 /\ identity = "absent"
    /\ s[n] = "write_identity" => \/ n = 1 /\ identity = "empty"
                                  \/ n = 2 /\ s[1] = "open_identity"

SendsOnce(s) == \A m, n \in 1 .. Len(s) : s[m] = "send" /\ s[n] = "send" => m = n

Mine == {r \in Issued : r.epoch = epoch}

IdemKeys == trial.mode = "idem" => \A r \in Mine : r.key = ContentKey(NoMemo)

TwoPhaseProgram ==
  trial.mode = "twophase" /\ exit = "running" =>
    /\ Prepares(todo, disk.identity)
    /\ SendsOnce(todo)
    /\ harness = "crash_run" => disk.identity = "written" \/ Has(todo, "write_identity")

TwoPhaseKeys ==
  trial.mode = "twophase" =>
    \/ Mine = {}
    \/ disk.identity = "written" /\ \A r \in Mine : r.key = PreparedKey
    \/ /\ harness # "crash_run"
       /\ \A r \in Mine : r.id = request
       /\ ~ Has(todo, "send")

KeysOK == IdemKeys /\ TwoPhaseProgram /\ TwoPhaseKeys

LEMMA ModeKeys ==
  ASSUME TrialTyped
  PROVE  /\ trial.mode = "idem" =>
              \A memo \in Draws : memo = NoMemo /\ EffectKeyOf(memo) = ContentKey(NoMemo)
         /\ trial.mode = "twophase" =>
              \A memo : EffectKeyOf(memo) = IF disk.identity = "written" THEN PreparedKey ELSE NoKey
         /\ trial.mode \in {"idem", "twophase"} => EffectFirst
<1>1. RowOf(trial) = ControlRows[trial.mode] /\ trial.mode \in DOMAIN ControlRows
  BY ControlRow DEF TrialTyped, TrialTypeOK, HarnessTypeOK
<1>2. /\ trial.mode = "idem" => /\ RowOf(trial).effect_mode = "idempotent"
                                /\ RowOf(trial).determinism = "deterministic"
                                /\ RowOf(trial).persist_order = "effect_then_persist"
      /\ trial.mode = "twophase" => /\ RowOf(trial).effect_mode = "two_phase"
                                    /\ RowOf(trial).persist_order = "effect_then_persist"
  BY <1>1 DEF ControlRows, Row
<1>3. /\ trial.mode = "idem" => ~ TwoPhase(trial) /\ Idempotent(trial) /\ ~ Nondeterministic(trial)
      /\ trial.mode = "twophase" => TwoPhase(trial) /\ Idempotent(trial)
      /\ trial.mode \in {"idem", "twophase"} => EffectFirst
  BY <1>2 DEF TwoPhase, Idempotent, Nondeterministic, EffectFirst, PersistThenEffect
<1>4. trial.mode = "idem" =>
        \A memo \in Draws : memo = NoMemo /\ EffectKeyOf(memo) = ContentKey(NoMemo)
  BY <1>3 DEF Draws, EffectKeyOf
<1>5. trial.mode = "twophase" =>
        \A memo : EffectKeyOf(memo) = IF disk.identity = "written" THEN PreparedKey ELSE NoKey
  BY <1>3 DEF EffectKeyOf
<1>6. QED
  BY <1>3, <1>4, <1>5

LEMMA SendsOnceConcat ==
  ASSUME NEW S, NEW u \in Seq(S), NEW v \in Seq(S), SendsOnce(u), SendsOnce(v),
         ~ Has(u, "send") \/ ~ Has(v, "send")
  PROVE  SendsOnce(u \o v)
<1> DEFINE w == u \o v
<1>1. /\ Len(u) \in Nat /\ Len(v) \in Nat /\ Len(w) = Len(u) + Len(v)
      /\ \A n \in 1 .. Len(u) : w[n] = u[n]
      /\ \A n \in 1 .. Len(v) : w[Len(u) + n] = v[n]
  BY ConcatElements
<1> HIDE DEF w
<1>2. ASSUME NEW n \in 1 .. Len(w), n \notin 1 .. Len(u)
      PROVE  n - Len(u) \in 1 .. Len(v) /\ w[n] = v[n - Len(u)]
  <2>1. n - Len(u) \in 1 .. Len(v) /\ n = Len(u) + (n - Len(u))
    BY <1>1, <1>2
  <2>2. QED
    BY <1>1, <2>1
<1> SUFFICES ASSUME NEW m \in 1 .. Len(w), NEW n \in 1 .. Len(w), w[m] = "send", w[n] = "send"
             PROVE  m = n
  BY DEF SendsOnce, w
<1>3. CASE m \in 1 .. Len(u) /\ n \in 1 .. Len(u)
  BY <1>1, <1>3 DEF SendsOnce
<1>4. CASE m \notin 1 .. Len(u) /\ n \notin 1 .. Len(u)
  <2>1. m - Len(u) = n - Len(u)
    BY <1>2, <1>4 DEF SendsOnce
  <2>2. QED
    BY <1>1, <2>1
<1>5. CASE ~ (m \in 1 .. Len(u) <=> n \in 1 .. Len(u))
  <2>1. Has(u, "send") /\ Has(v, "send")
    BY <1>1, <1>2, <1>5 DEF Has
  <2>2. QED
    BY <2>1
<1>6. QED
  BY <1>3, <1>4, <1>5

\* The programs of a two-phase adapter.
LEMMA TwoPhasePrograms ==
  ASSUME NEW t \in Trials, t.mode = "twophase"
  PROVE  /\ Prepares(CrashRun(t), "absent") /\ SendsOnce(CrashRun(t))
         /\ Has(CrashRun(t), "write_identity")
         /\ \A identity : Prepares(RecoveryRun, identity)
         /\ SendsOnce(RecoveryRun)
<1> DEFINE S == StepName
           Neutral(v) == v \in Seq(S) /\ \A x \in PrepareSteps : ~ Has(v, x)
           Begins(u) == /\ u \in Seq(S) /\ u # << >> /\ u[1] = "open_identity"
                        /\ Has(u, "write_identity") /\ Prepares(u, "absent") /\ SendsOnce(u)
<1>1. /\ Neutral(EffectSteps) /\ Neutral(PersistSteps) /\ ~ Has(PersistSteps, "send")
      /\ SendsOnce(EffectSteps)
  BY DEF EffectSteps, PersistSteps, StepName, Has, PrepareSteps, SendsOnce
<1>2. ASSUME NEW b \in Barrier PROVE Neutral(CrashAt(b, t)) /\ ~ Has(CrashAt(b, t), "send")
  <2>1. b \in S /\ b # "send" /\ b \notin PrepareSteps
    BY DEF StepName, Barrier, PrepareSteps
  <2>2. <<b>> \in Seq(S) /\ << >> \in Seq(S)
    BY <2>1
  <2>3. QED
    BY <2>1, <2>2 DEF CrashAt, Has
<1>3. Begins(Prepare) /\ ~ Has(Prepare, "send")
  BY DEF Prepare, StepName, Prepares, SendsOnce, Has
<1>4. "b0" \in Barrier /\ "b1" \in Barrier /\ "b2" \in Barrier
  BY DEF Barrier
<1> HIDE DEF S
<1>5. ASSUME NEW u, NEW v, Begins(u), Neutral(v), SendsOnce(v), ~ Has(u, "send") \/ ~ Has(v, "send")
      PROVE  Begins(u \o v)
  <2> DEFINE w == u \o v
  <2>1. /\ w \in Seq(S) /\ Len(u) \in Nat \ {0} /\ Len(v) \in Nat /\ Len(w) = Len(u) + Len(v)
        /\ \A n \in 1 .. Len(u) : w[n] = u[n]
        /\ \A n \in 1 .. Len(v) : w[Len(u) + n] = v[n]
    BY <1>5, ConcatElements
  <2> HIDE DEF w
  <2>2. ASSUME NEW n \in 1 .. Len(w), n \notin 1 .. Len(u)
        PROVE  n - Len(u) \in 1 .. Len(v) /\ w[n] = v[n - Len(u)]
    <3>1. n - Len(u) \in 1 .. Len(v) /\ n = Len(u) + (n - Len(u))
      BY <2>1, <2>2
    <3>2. QED
      BY <2>1, <3>1
  <2>3. w[1] = u[1] /\ w # << >>
    BY <2>1
  <2>4. Prepares(w, "absent")
    <3> SUFFICES ASSUME NEW n \in 1 .. Len(w), w[n] \in PrepareSteps
                 PROVE  /\ w[n] = "open_identity" => n = 1
                        /\ w[n] = "write_identity" => n = 2
      BY <1>5, <2>3 DEF Prepares, PrepareSteps
    <3>1. n \in 1 .. Len(u)
      BY <1>5, <2>2 DEF Has
    <3>2. QED
      BY <1>5, <2>1, <3>1 DEF Prepares
  <2>5. SendsOnce(w)
    BY <1>5, SendsOnceConcat DEF w
  <2>6. Begins(w)
    <3>1. Has(w, "write_identity")
      BY <1>5, HasConcat DEF w
    <3>2. QED
      BY <1>5, <2>1, <2>3, <2>4, <2>5, <3>1
  <2>7. QED
    BY <2>6 DEF w
<1>6. ASSUME NEW v \in Seq(S), ~ Has(v, "send") PROVE SendsOnce(v)
  BY <1>6 DEF Has, SendsOnce
<1>7. ASSUME NEW b \in Barrier, NEW u, Begins(u) PROVE Begins(u \o CrashAt(b, t))
  BY <1>2, <1>5, <1>6, <1>7
<1>8. Begins(CrashRun(t))
  <2> DEFINE u == Prepare \o CrashAt("b0", t)
  <2>1. Begins(u) /\ ~ Has(u, "send")
    <3>1. Begins(u)
      BY <1>3, <1>4, <1>7
    <3>2. ~ Has(u, "send")
      BY <1>2, <1>3, <1>4, HasConcat
    <3>3. QED
      BY <3>1, <3>2
  <2> DEFINE v == u \o EffectSteps
             w == v \o CrashAt("b1", t)
             x == w \o PersistSteps
  <2> HIDE DEF u
  <2>2. Begins(v)
    BY <1>1, <1>5, <2>1
  <2> HIDE DEF v
  <2>3. Begins(w)
    BY <1>4, <1>7, <2>2
  <2> HIDE DEF w
  <2>4. Begins(x)
    BY <1>1, <1>5, <1>6, <2>3
  <2> HIDE DEF x
  <2>5. Begins(x \o CrashAt("b2", t))
    BY <1>4, <1>7, <2>4
  <2>6. ~ PersistThenEffect(t) /\ TwoPhase(t)
    BY ControlRow DEF PersistThenEffect, TwoPhase, ControlRows, Row
  <2>7. CrashRun(t) = x \o CrashAt("b2", t)
    BY <2>6 DEF CrashRun, x, w, v, u
  <2>8. QED
    BY <2>5, <2>7
<1>9. SendsOnce(RecoveryRun) /\ \A identity : Prepares(RecoveryRun, identity)
  <2> DEFINE u == <<"check">> \o EffectSteps
  <2>1. Neutral(<<"check">>) /\ ~ Has(<<"check">>, "send")
    BY DEF Has, PrepareSteps, StepName, S
  <2>2. ASSUME NEW v, NEW w, Neutral(v), Neutral(w) PROVE Neutral(v \o w)
    BY <2>2, ConcatElements, HasConcat
  <2>3. Neutral(u) /\ SendsOnce(u)
    BY <1>1, <1>6, <2>1, <2>2, SendsOnceConcat
  <2> HIDE DEF u
  <2>4. Neutral(u \o PersistSteps) /\ SendsOnce(u \o PersistSteps)
    BY <1>1, <1>6, <2>2, <2>3, SendsOnceConcat
  <2>5. RecoveryRun = u \o PersistSteps
    BY DEF RecoveryRun, u
  <2>6. QED
    BY <2>4, <2>5 DEF Prepares, Has, PrepareSteps
<1>10. QED
  BY <1>8, <1>9

\* One step taken off a program, or the identity prepared in its place.
LEMMA PreparesTail ==
  ASSUME NEW s \in Seq(StepName), s # << >>, NEW identity, Prepares(s, identity)
  PROVE  /\ Head(s) = "open_identity" => Prepares(Tail(s), "empty")
         /\ Head(s) = "write_identity" => identity = "empty" /\ Prepares(Tail(s), "written")
         /\ Head(s) \notin PrepareSteps => /\ Prepares(Tail(s), identity)
                                           /\ \A x \in PrepareSteps : ~ Has(Tail(s), x)
                                           /\ ~ Has(s, "write_identity")
<1>1. /\ Len(s) \in Nat \ {0} /\ Len(Tail(s)) = Len(s) - 1 /\ Head(s) = s[1]
      /\ \A n \in 1 .. Len(s) - 1 : Tail(s)[n] = s[n + 1] /\ n + 1 \in 1 .. Len(s)
  BY TailElements
<1>2. ASSUME NEW n \in 1 .. Len(s) - 1
      PROVE  /\ Tail(s)[n] # "open_identity"
             /\ Tail(s)[n] = "write_identity" => n = 1 /\ Head(s) = "open_identity"
  <2>1. s[n + 1] # "open_identity"
    BY <1>1, <1>2 DEF Prepares
  <2>2. s[n + 1] = "write_identity" => n + 1 = 2 /\ s[1] = "open_identity"
    BY <1>1, <1>2 DEF Prepares
  <2>3. QED
    BY <1>1, <2>1, <2>2
<1>3. Head(s) = "write_identity" => identity = "empty"
  BY <1>1 DEF Prepares
<1>4. Head(s) # "open_identity" =>
        /\ \A id : Prepares(Tail(s), id)
        /\ \A x \in PrepareSteps : ~ Has(Tail(s), x)
  BY <1>1, <1>2 DEF Prepares, Has, PrepareSteps
<1>5. Head(s) = "open_identity" => Prepares(Tail(s), "empty")
  <2> DEFINE v == Tail(s)
  <2>1. Len(v) = Len(s) - 1
    BY <1>1
  <2>2. \A n \in 1 .. Len(s) - 1 : v[n] # "open_identity" /\ (v[n] = "write_identity" => n = 1)
    BY <1>2
  <2> HIDE DEF v
  <2>3. Prepares(v, "empty")
    <3> SUFFICES ASSUME NEW n \in 1 .. Len(v)
                 PROVE  v[n] # "open_identity" /\ (v[n] = "write_identity" => n = 1)
      BY DEF Prepares
    <3>1. QED
      BY <2>1, <2>2
  <2>4. QED
    BY <2>3 DEF v
<1>6. Head(s) \notin PrepareSteps => ~ Has(s, "write_identity")
  BY <1>4, HasTail DEF PrepareSteps
<1>7. QED
  BY <1>3, <1>4, <1>5, <1>6 DEF PrepareSteps

LEMMA SendsOnceTail ==
  ASSUME NEW s \in Seq(StepName), s # << >>, SendsOnce(s)
  PROVE  SendsOnce(Tail(s)) /\ (Head(s) = "send" => ~ Has(Tail(s), "send"))
<1>1. /\ Len(s) \in Nat \ {0} /\ Len(Tail(s)) = Len(s) - 1 /\ Head(s) = s[1]
      /\ \A n \in 1 .. Len(s) - 1 : Tail(s)[n] = s[n + 1] /\ n + 1 \in 1 .. Len(s)
  BY TailElements
<1>2. ASSUME NEW m \in 1 .. Len(s) - 1, NEW n \in 1 .. Len(s) - 1,
             Tail(s)[m] = "send", Tail(s)[n] = "send"
      PROVE  m = n
  <2>1. m + 1 = n + 1
    BY <1>1, <1>2 DEF SendsOnce
  <2>2. QED
    BY <2>1
<1>3. ASSUME NEW n \in 1 .. Len(s) - 1, Tail(s)[n] = "send" PROVE Head(s) # "send"
  <2>1. n + 1 # 1 /\ 1 \in 1 .. Len(s)
    BY <1>1
  <2>2. QED
    BY <1>1, <1>3, <2>1 DEF SendsOnce
<1>4. QED
  BY <1>1, <1>2, <1>3 DEF SendsOnce, Has

LEMMA PrepareFirst ==
  ASSUME NEW s \in Seq(StepName), SendsOnce(s), \A x \in PrepareSteps : ~ Has(s, x)
  PROVE  /\ Prepares(Prepare \o s, "absent") /\ SendsOnce(Prepare \o s)
         /\ Head(Prepare \o s) = "open_identity" /\ Prepare \o s # << >>
         /\ Has(Prepare \o s, "send") => Has(s, "send")
<1> DEFINE w == Prepare \o s
<1>1. Prepare \in Seq(StepName) /\ ~ Has(Prepare, "send") /\ SendsOnce(Prepare)
      /\ Len(Prepare) = 2 /\ Prepare[1] = "open_identity" /\ Prepare[2] = "write_identity"
  BY DEF Prepare, StepName, Has, SendsOnce
<1>2. /\ Len(s) \in Nat /\ Len(w) = 2 + Len(s) /\ w \in Seq(StepName)
      /\ w[1] = "open_identity" /\ w[2] = "write_identity"
      /\ \A n \in 1 .. Len(s) : w[2 + n] = s[n]
  <2>1. /\ Len(s) \in Nat /\ Len(w) = Len(Prepare) + Len(s) /\ w \in Seq(StepName)
        /\ \A n \in 1 .. Len(Prepare) : w[n] = Prepare[n]
        /\ \A n \in 1 .. Len(s) : w[Len(Prepare) + n] = s[n]
    <3> DEFINE S == StepName
    <3>1. Prepare \in Seq(S) /\ s \in Seq(S)
      BY <1>1
    <3> HIDE DEF S
    <3>2. QED
      BY <3>1, ConcatElements DEF S
  <2> HIDE DEF w
  <2>2. 1 \in 1 .. Len(Prepare) /\ 2 \in 1 .. Len(Prepare)
    BY <1>1
  <2>3. QED
    BY <1>1, <2>1, <2>2
<1>3. SendsOnce(w) /\ (Has(w, "send") => Has(s, "send"))
  BY <1>1, SendsOnceConcat, HasConcat
<1> HIDE DEF w
<1>4. ASSUME NEW n \in 1 .. Len(w), n \notin {1, 2} PROVE w[n] \notin PrepareSteps
  <2>1. n - 2 \in 1 .. Len(s) /\ n = 2 + (n - 2)
    BY <1>2, <1>4
  <2>2. w[n] = s[n - 2]
    BY <1>2, <2>1
  <2>3. QED
    BY <2>1, <2>2 DEF Has
<1>5. Prepares(w, "absent")
  BY <1>2, <1>4 DEF Prepares, PrepareSteps
<1>6. Head(w) = "open_identity" /\ w # << >>
  BY <1>2
<1>7. QED
  BY <1>3, <1>5, <1>6 DEF w

\* A step of a two-phase adapter keeps to its program.
LEMMA TwoPhaseMoves ==
  ASSUME TrialTyped, TwoPhaseProgram, trial.mode = "twophase", AdapterStep
  PROVE  /\ TwoPhaseProgram'
         /\ Has(todo', "send") => Has(todo, "send")
         /\ disk.identity = "written" => disk'.identity = "written"
<1>1. /\ todo \in Seq(StepName) /\ exit = "running" /\ trial' = trial
      /\ Prepares(todo, disk.identity) /\ SendsOnce(todo)
      /\ harness = "crash_run" => disk.identity = "written" \/ Has(todo, "write_identity")
      /\ harness' \in {harness, "failed"}
  BY AdapterStepEffect DEF TwoPhaseProgram, TrialTyped, TrialTypeOK
<1>2. CASE todo' = << >> /\ exit' # "running" /\ disk' = disk
  BY <1>2 DEF TwoPhaseProgram, Has
<1>3. CASE /\ todo # << >> /\ Head(todo) \notin PrepareSteps
           /\ todo' \in {<< >>, Tail(todo)} /\ disk'.identity = disk.identity
  <2>0. harness = "crash_run" => disk.identity = "written"
    BY <1>1, <1>3, PreparesTail
  <2>1. CASE todo' = << >>
    <3>1. Prepares(todo', disk'.identity) /\ SendsOnce(todo') /\ ~ Has(todo', "send")
      BY <2>1 DEF Prepares, SendsOnce, Has
    <3>2. QED
      BY <1>1, <1>3, <2>0, <3>1 DEF TwoPhaseProgram
  <2>2. CASE todo' = Tail(todo)
    <3>1. Prepares(todo', disk'.identity)
      BY <1>1, <1>3, <2>2, PreparesTail
    <3>2. SendsOnce(todo')
      BY <1>1, <1>3, <2>2, SendsOnceTail
    <3>3. Has(todo', "send") => Has(todo, "send")
      BY <1>1, <1>3, <2>2, HasTail
    <3>4. QED
      BY <1>1, <1>3, <2>0, <3>1, <3>2, <3>3 DEF TwoPhaseProgram
  <2>3. QED
    BY <1>3, <2>1, <2>2
<1>4. CASE /\ todo # << >> /\ todo' = Tail(todo)
           /\ \/ Head(todo) = "open_identity" /\ disk'.identity = "empty"
              \/ Head(todo) = "write_identity" /\ disk'.identity = "written"
  <2>1. Prepares(todo', disk'.identity)
    BY <1>1, <1>4, PreparesTail
  <2>2. SendsOnce(todo')
    BY <1>1, <1>4, SendsOnceTail
  <2>3. Has(todo', "send") => Has(todo, "send")
    BY <1>1, <1>4, HasTail
  <2>4. disk.identity = "written" => Head(todo) = "write_identity"
    BY <1>1, <1>4, TailElements DEF Prepares
  <2>5. Head(todo) = "open_identity" /\ Has(todo, "write_identity") => Has(todo', "write_identity")
    BY <1>1, <1>4, HasTail
  <2>6. QED
    BY <1>1, <1>4, <2>1, <2>2, <2>3, <2>4, <2>5 DEF TwoPhaseProgram
<1>5. CASE ReadIdentity
  <2>1. /\ todo # << >> /\ Head(todo) = "identity" /\ disk' = disk /\ harness' = harness
        /\ \/ disk.identity = "absent" /\ todo' = Prepare \o Tail(todo)
           \/ todo' = << >> \o Tail(todo)
    BY <1>5 DEF ReadIdentity, Running, harnessVars
  <2> DEFINE s == Tail(todo)
  <2>2. s \in Seq(StepName) /\ Prepares(s, disk.identity) /\ \A x \in PrepareSteps : ~ Has(s, x)
    BY <1>1, <2>1, PreparesTail, TailElements DEF PrepareSteps
  <2>3. SendsOnce(s)
    BY <1>1, <2>1, SendsOnceTail
  <2>4. Has(s, "send") => Has(todo, "send")
    BY <1>1, <2>1, HasTail
  <2> HIDE DEF s
  <2>5. << >> \o s = s
    BY <2>2
  <2>6. /\ Prepares(Prepare \o s, "absent") /\ SendsOnce(Prepare \o s)
        /\ Has(Prepare \o s, "send") => Has(s, "send")
    BY <2>2, <2>3, PrepareFirst
  <2>7. /\ Prepares(todo', disk.identity) /\ SendsOnce(todo')
        /\ Has(todo', "send") => Has(todo, "send")
    BY <2>1, <2>2, <2>3, <2>4, <2>5, <2>6 DEF s
  <2>8. harness = "crash_run" => disk.identity = "written"
    BY <1>1, <2>1, PreparesTail DEF PrepareSteps
  <2>9. QED
    BY <1>1, <2>1, <2>7, <2>8 DEF TwoPhaseProgram
<1>6. CASE KillSelf(TRUE) \/ Return \/ SamplerFails \/ StrayKill \/ Timeout
  <2>1. todo' = << >> /\ exit' # "running" /\ disk' = disk
    BY <1>6 DEF KillSelf, Return, SamplerFails, Raise, StrayKill, Timeout, ExitWith
  <2>2. QED
    BY <1>2, <2>1
<1>7. CASE CheckMarker
  BY <1>3, <1>7 DEF CheckMarker, Running, PrepareSteps
<1>8. CASE ReceiveReply
  BY <1>3, <1>8 DEF ReceiveReply, Running, Advance, PrepareSteps
<1>9. CASE DrawnEffect
  BY <1>3, <1>9, SendRequest DEF Running, PrepareSteps
<1>10. CASE WriteFile
  <2>1. disk \in [marker : {"absent", "empty", "written"},
                 identity : {"absent", "empty", "written"}]
    BY DEF TrialTyped, TrialTypeOK
  <2>2. todo # << >> /\ todo' = Tail(todo)
    BY <1>10 DEF WriteFile, Persists, Running, Advance
  <2>3. \/ Head(todo) \in {"open_marker", "write_marker"} /\ disk'.identity = disk.identity
        \/ Head(todo) = "open_identity" /\ disk'.identity = "empty"
        \/ Head(todo) = "write_identity" /\ disk'.identity = "written"
    BY <1>10, <2>1 DEF WriteFile, Persists, Running
  <2>4. QED
    BY <1>3, <1>4, <2>2, <2>3 DEF PrepareSteps
<1>11. QED
  BY <1>5, <1>6, <1>7, <1>8, <1>9, <1>10 DEF AdapterStep, Process

\* Requests come from a send alone.
LEMMA IssuedStays ==
  ASSUME TrialTyped, [TrialNext]_allVars, ~ DrawnEffect
  PROVE  Issued' = Issued
<1>1. CASE Daemon
  BY <1>1, DaemonMoves DEF Daemon
<1>2. CASE UNCHANGED <<wire, answers>>
  BY <1>2 DEF Issued
<1>3. QED
  BY <1>1, <1>2
     DEF TrialNext, Process, KillSelf, Return, CheckMarker, WriteFile, Persists, ReadIdentity,
         SamplerFails, Raise, ReceiveReply, StrayKill, Harness, Timeout, HarnessGoesOn,
         CrashRunEnds, RecoveryRunEnds, TrialFails, SealLedger, HandleSeal, ReadDump,
         ClassifyTrial, StartTrial, HandleReset, allVars, daemonVars

\* Within a trial its row and its epoch stay.
LEMMA SameTrial ==
  ASSUME TrialTyped, [TrialNext]_allVars, ~ \E t \in Trials : StartTrial(t, NoFiles(t), CrashRun(t))
  PROVE  trial' = trial /\ epoch' = epoch
<1>1. CASE AdapterStep
  BY <1>1, AdapterStepEffect
<1>2. CASE Daemon
  BY <1>2, HandleSplit DEF Daemon, Reply, trialVars
<1>3. QED
  BY <1>1, <1>2
     DEF TrialNext, Harness, HarnessGoesOn, AdapterStep, CrashRunEnds, RecoveryRunEnds,
         TrialFails, SealLedger, HandleSeal, ReadDump, ClassifyTrial, allVars, trialVars,
         daemonVars

LEMMA KeysStep == TrialSafe /\ KeysOK /\ [TrialNext]_allVars => KeysOK'
<1> SUFFICES ASSUME TrialSafe, KeysOK, [TrialNext]_allVars PROVE KeysOK'
  OBVIOUS
<1> USE DEF TrialSafe
<1>1. /\ todo \in Seq(StepName) /\ epoch \in Nat
      /\ \A r \in Issued : r.epoch \in Nat /\ r.epoch <= epoch
  BY DaemonAssumption
     DEF TrialTyped, TrialTypeOK, HarnessTypeOK, DaemonTypeOK, RequestsOK, Request
<1>2. ASSUME NEW t \in Trials, StartTrial(t, NoFiles(t), CrashRun(t)) PROVE KeysOK'
  <2>1. /\ trial' = t /\ harness' = "crash_run" /\ exit' = "running" /\ todo' = CrashRun(t)
        /\ disk'.identity = "absent" /\ epoch' = epoch + 1
        /\ UNCHANGED <<wire, answers>>
    BY <1>2 DEF StartTrial, Spawn, NoFiles, HandleReset
  <2>2. Mine' = {}
    BY <1>1, <2>1 DEF Mine, Issued
  <2>3. t.mode = "twophase" =>
          /\ Prepares(todo', disk'.identity) /\ SendsOnce(todo')
          /\ Has(todo', "write_identity")
    BY <2>1, TwoPhasePrograms
  <2>4. QED
    BY <2>1, <2>2, <2>3 DEF KeysOK, IdemKeys, TwoPhaseProgram, TwoPhaseKeys
<1>3. CASE DrawnEffect
  <2>1. PICK memo \in Draws, r \in Request :
           /\ r.key = EffectKeyOf(memo) /\ r.epoch = epoch /\ r.id = sent + 1
           /\ request' = sent + 1 /\ Issued' = Issued \cup {r}
           /\ UNCHANGED <<epoch, trial, harness, disk, exit>> /\ Running("send")
           /\ todo' = Tail(todo)
    BY <1>3, SendRequest
  <2>2. Mine' = Mine \cup {r}
    BY <2>1 DEF Mine
  <2>3. IdemKeys'
    BY <2>1, <2>2, ModeKeys DEF KeysOK, IdemKeys
  <2>4. TwoPhaseProgram'
    <3>1. CASE trial.mode = "twophase"
      BY <1>3, <3>1, TwoPhaseMoves DEF KeysOK, AdapterStep, Process
    <3>2. CASE trial.mode # "twophase"
      BY <2>1, <3>2 DEF TwoPhaseProgram
    <3>3. QED
      BY <3>1, <3>2
  <2>5. ASSUME trial.mode = "twophase" PROVE TwoPhaseKeys'
    <3>1. /\ todo # << >> /\ Head(todo) = "send" /\ SendsOnce(todo)
          /\ harness = "crash_run" => disk.identity = "written"
      <4>1. /\ todo # << >> /\ Head(todo) = "send" /\ SendsOnce(todo)
            /\ Prepares(todo, disk.identity)
            /\ harness = "crash_run" => disk.identity = "written" \/ Has(todo, "write_identity")
        BY <2>1, <2>5 DEF Running, KeysOK, TwoPhaseProgram
      <4>2. QED
        BY <1>1, <4>1, PreparesTail DEF PrepareSteps
    <3>2. Has(todo, "send") /\ ~ Has(todo', "send")
      BY <1>1, <2>1, <3>1, HasTail, SendsOnceTail
    <3>3. Mine = {} \/ (disk.identity = "written" /\ \A s \in Mine : s.key = PreparedKey)
      BY <2>5, <3>2 DEF KeysOK, TwoPhaseKeys
    <3>4. r.key = IF disk.identity = "written" THEN PreparedKey ELSE NoKey
      BY <2>1, <2>5, ModeKeys
    <3>5. CASE disk.identity = "written"
      <4>1. disk'.identity = "written" /\ \A s \in Mine' : s.key = PreparedKey
        BY <2>1, <2>2, <3>3, <3>4, <3>5
      <4>2. QED
        BY <4>1 DEF TwoPhaseKeys
    <3>6. CASE disk.identity # "written"
      <4>1. harness' # "crash_run" /\ \A s \in Mine' : s.id = request'
        BY <2>1, <2>2, <3>1, <3>3, <3>6
      <4>2. QED
        BY <3>2, <4>1 DEF TwoPhaseKeys
    <3>7. QED
      BY <3>5, <3>6
  <2>6. QED
    BY <2>1, <2>3, <2>4, <2>5 DEF KeysOK, TwoPhaseKeys
<1>4. CASE /\ ~ \E t \in Trials : StartTrial(t, NoFiles(t), CrashRun(t))
           /\ ~ DrawnEffect
  <2>1. trial' = trial /\ Mine' = Mine
    BY <1>4, SameTrial, IssuedStays DEF Mine
  <2>2. IdemKeys'
    BY <2>1 DEF KeysOK, IdemKeys
  <2>3. CASE trial.mode # "twophase"
    BY <2>1, <2>2, <2>3 DEF KeysOK, TwoPhaseProgram, TwoPhaseKeys
  <2>4. CASE trial.mode = "twophase" /\ AdapterStep
    <3>1. /\ TwoPhaseProgram' /\ (Has(todo', "send") => Has(todo, "send"))
          /\ disk.identity = "written" => disk'.identity = "written"
      BY <2>4, TwoPhaseMoves DEF KeysOK
    <3>2. harness' \in {harness, "failed"}
      BY <2>4, AdapterStepEffect
    <3>3. request' = request
      BY <1>4, <2>4
         DEF AdapterStep, Process, KillSelf, Return, CheckMarker, WriteFile, Persists,
             ReadIdentity, SamplerFails, Raise, ReceiveReply, StrayKill, Timeout
    <3>4. TwoPhaseKeys'
      BY <2>1, <3>1, <3>2, <3>3 DEF KeysOK, TwoPhaseKeys
    <3>5. QED
      BY <2>2, <3>1, <3>4 DEF KeysOK
  <2>5. CASE trial.mode = "twophase" /\ CrashRunEnds(RecoveryRun)
    <3>1. /\ harness = "crash_run" /\ harness' = "recovery_run" /\ exit' = "running"
          /\ todo' = RecoveryRun /\ disk' = disk
      BY <2>5 DEF CrashRunEnds, Spawn
    <3>2. Prepares(todo', disk'.identity) /\ SendsOnce(todo')
      BY <2>5, <3>1, TwoPhasePrograms DEF TrialTyped, TrialTypeOK, HarnessTypeOK
    <3>3. TwoPhaseProgram' /\ TwoPhaseKeys'
      BY <2>1, <3>1, <3>2 DEF KeysOK, TwoPhaseProgram, TwoPhaseKeys
    <3>4. QED
      BY <2>2, <3>3 DEF KeysOK
  <2>6. CASE UNCHANGED <<todo, exit, disk, request, harness>>
    <3>1. TwoPhaseProgram' /\ TwoPhaseKeys'
      BY <2>1, <2>6 DEF KeysOK, TwoPhaseProgram, TwoPhaseKeys
    <3>2. QED
      BY <2>2, <3>1 DEF KeysOK
  <2>7. CASE /\ UNCHANGED <<todo, exit, disk, request>> /\ harness' # "crash_run"
             /\ exit # "running"
    <3>1. TwoPhaseProgram' /\ TwoPhaseKeys'
      BY <2>1, <2>7 DEF KeysOK, TwoPhaseProgram, TwoPhaseKeys
    <3>2. QED
      BY <2>2, <3>1 DEF KeysOK
  <2>8. CASE RecoveryRunEnds \/ TrialFails
    BY <2>7, <2>8 DEF RecoveryRunEnds, TrialFails, Expected, processVars
  <2>9. CASE SealLedger \/ ReadDump \/ ClassifyTrial(Classify(Intent, dump, store))
    <3>1. /\ UNCHANGED <<todo, exit, disk, request>> /\ harness' # "crash_run"
          /\ harness \in {"seal", "dump", "classify"}
      BY <2>9 DEF SealLedger, ReadDump, ClassifyTrial, processVars
    <3>2. QED
      BY <2>7, <3>1 DEF TrialTyped, PhaseOK
  <2>10. QED
    BY <1>4, <2>3, <2>4, <2>5, <2>6, <2>8, <2>9
       DEF TrialNext, Harness, HarnessGoesOn, AdapterStep, Daemon, allVars, trialVars
<1>5. QED
  BY <1>2, <1>3, <1>4

\* Two requests of one keyed trial, of which one was answered and one is under
\* way, carry one and the same key.
LEMMA OneKey ==
  ASSUME TrialSafe, KeysOK, trial.mode \in {"idem", "twophase"},
         NEW r \in Mine, NEW s \in Mine, r # s
  PROVE  r.key = s.key /\ r.key # NoKey
<1>1. ContentKey(NoMemo) # NoKey /\ PreparedKey # NoKey
  BY TrialAssumption, KeyAssumption DEF EffectKeys
<1>2. CASE trial.mode = "idem"
  BY <1>1, <1>2 DEF KeysOK, IdemKeys
<1>3. CASE trial.mode = "twophase"
  <2>1. r.id # s.id
    BY DEF TrialSafe, RequestsOK, Mine
  <2>2. r.key = PreparedKey /\ s.key = PreparedKey
    BY <1>3, <2>1 DEF KeysOK, TwoPhaseKeys
  <2>3. QED
    BY <1>1, <2>2
<1>4. QED
  BY <1>2, <1>3

\* The first effect of a keyed trial is the last: it was answered, and its key is
\* the key of whatever comes after.
CountOK ==
  trial.mode \in {"idem", "twophase"} /\ OwnTrial =>
    \/ effect_keys[SharedIntent] = << >>
    \/ /\ Len(effect_keys[SharedIntent]) = 1
       /\ \E a \in answers : /\ a.req.epoch = epoch
                             /\ a.req.key = effect_keys[SharedIntent][1]

\* A daemon that executes a keyed trial's request crosses once.
LEMMA CountExecuted ==
  ASSUME TrialSafe, KeysOK, CountOK, UNCHANGED trial,
         NEW req \in wire, Handle(req), ~ sealed,
         trial.mode \in {"idem", "twophase"}, OwnTrial'
  PROVE  \/ effect_keys'[SharedIntent] = << >>
         \/ /\ Len(effect_keys'[SharedIntent]) = 1
            /\ \E a \in answers' : /\ a.req.epoch = epoch'
                                   /\ a.req.key = effect_keys'[SharedIntent][1]
<1> DEFINE keys == effect_keys[SharedIntent]
<1> USE DEF TrialSafe
<1>1. /\ CountEffect(SharedIntent, req.key, req.payload)
      /\ \E status \in {"ok", "no response"} :
           answers' = answers \cup {[req |-> req, status |-> status, epoch |-> epoch]}
      /\ epoch' = epoch /\ wire' = wire \ {req}
  BY ExecutedMade, DaemonMoves
<1>2. PICK answer \in answers' : /\ answer.req = req /\ answer.status \in {"ok", "no response"}
                                 /\ answer.epoch = epoch
                                 /\ answers' = answers \cup {answer}
  BY <1>1
<1>3. SharedIntent \in Intents /\ Intent' = SharedIntent /\ req.intent = SharedIntent
  BY ControlRow, TrialAssumption
     DEF Intent, TrialTyped, TrialTypeOK, HarnessTypeOK, RequestsOK, Issued
<1>4. req.epoch = epoch /\ req \in Mine
  BY <1>1, <1>2, <1>3 DEF OwnTrial, Mine, Issued
<1>5. OwnTrial
  <2>1. Intent' = Intent
    BY <1>1 DEF Intent
  <2>2. QED
    BY <1>1, <1>2, <2>1 DEF OwnTrial
<1>6. /\ effect_keys \in [Intents -> Seq(Keys \cup {NoKey})] /\ req.key \in Keys \cup {NoKey}
  BY DEF TrialTyped, TrialTypeOK, HarnessTypeOK, DaemonTypeOK, LedgerTypeOK, RequestsOK,
         Issued, Request
<1>7. CASE keys = << >>
  <2>1. CASE Deduped(SharedIntent, req.key)
    BY <1>1, <1>7, <2>1 DEF CountEffect
  <2>2. CASE ~ Deduped(SharedIntent, req.key)
    <3>1. effect_keys'[SharedIntent] = Append(keys, req.key)
      BY <1>1, <1>3, <1>6, <2>2 DEF CountEffect, Crossed
    <3>2. effect_keys'[SharedIntent] = <<req.key>>
      BY <1>7, <3>1
    <3>3. /\ Len(effect_keys'[SharedIntent]) = 1
          /\ effect_keys'[SharedIntent][1] = req.key
      BY <3>2
    <3>4. answer.req.epoch = epoch' /\ answer.req.key = effect_keys'[SharedIntent][1]
      BY <1>1, <1>2, <1>4, <3>3
    <3>5. QED
      BY <1>2, <3>3, <3>4
  <2>3. QED
    BY <2>1, <2>2
<1>8. CASE keys # << >>
  <2>1. PICK a \in answers : a.req.epoch = epoch /\ a.req.key = keys[1] /\ Len(keys) = 1
    BY <1>5, <1>8 DEF CountOK
  <2>2. a.req \in Mine /\ a.req # req
    BY <2>1 DEF Mine, Issued, RequestsOK
  <2>3. req.key = keys[1] /\ req.key # NoKey
    BY <1>4, <2>1, <2>2, OneKey
  <2>4. Deduped(SharedIntent, req.key)
    <3>1. 1 \in 1 .. Len(keys)
      BY <2>1
    <3>2. QED
      BY <1>3, <2>3, <3>1 DEF Deduped, CrossingsAgree
  <2>5. effect_keys' = effect_keys
    BY <1>1, <2>4 DEF CountEffect
  <2>6. QED
    BY <1>1, <1>2, <2>1, <2>5
<1>9. QED
  BY <1>7, <1>8

LEMMA CountStep == TrialSafe /\ KeysOK /\ CountOK /\ [TrialNext]_allVars => CountOK'
<1> SUFFICES ASSUME TrialSafe, KeysOK, CountOK, [TrialNext]_allVars PROVE CountOK'
  OBVIOUS
<1>1. ASSUME NEW t \in Trials, StartTrial(t, NoFiles(t), CrashRun(t)) PROVE CountOK'
  <2>1. effect_keys' = [i \in Intents |-> << >>]
    BY <1>1 DEF StartTrial, HandleReset, NewState
  <2>2. effect_keys'[SharedIntent] = << >>
    BY <2>1, TrialAssumption
  <2>3. QED
    BY <2>2 DEF CountOK
<1>2. CASE UNCHANGED <<trial, effect_keys, answers, epoch>>
  BY <1>2 DEF CountOK, OwnTrial, Intent
<1>3. CASE Daemon
  <2>1. PICK req \in wire : Handle(req)
    BY <1>3 DEF Daemon
  <2>2. UNCHANGED <<trial, epoch>>
    BY <1>3, <2>1, DaemonMoves DEF Daemon, trialVars, TrialSafe
  <2>3. CASE ~ sealed
    <3> SUFFICES ASSUME trial'.mode \in {"idem", "twophase"}, OwnTrial'
                 PROVE  \/ effect_keys'[SharedIntent] = << >>
                        \/ /\ Len(effect_keys'[SharedIntent]) = 1
                           /\ \E a \in answers' : /\ a.req.epoch = epoch'
                                                  /\ a.req.key = effect_keys'[SharedIntent][1]
      BY DEF CountOK
    <3>1. QED
      BY <2>1, <2>2, <2>3, CountExecuted
  <2>4. CASE sealed
    <3>1. effect_keys' = effect_keys
      BY <2>1, <2>4, HandleSplit DEF Ledger, ledgerVars
    <3>2. answers \subseteq answers'
      BY <2>1, DaemonMoves DEF TrialSafe
    <3>3. OwnTrial' => OwnTrial
      BY <2>2, <3>2 DEF OwnTrial, Intent
    <3>4. QED
      BY <2>2, <3>1, <3>2, <3>3 DEF CountOK
  <2>5. QED
    BY <2>3, <2>4
<1>4. CASE AdapterStep
  BY <1>2, <1>4, AdapterStepEffect DEF TrialSafe, ledgerVars
<1>5. QED
  BY <1>1, <1>2, <1>3, <1>4
     DEF TrialNext, Harness, HarnessGoesOn, AdapterStep, CrashRunEnds, RecoveryRunEnds,
         TrialFails, SealLedger, HandleSeal, ReadDump, ClassifyTrial, allVars, trialVars,
         daemonVars, ledgerVars

\* Wherever the adapter is killed, for any memos, however often a draw repeats and
\* whichever writes of the ledger fail, a deterministic idempotent step and a
\* two-phase one cross exactly once if they are scored at all and no request of an
\* earlier trial interfered (controls.py idem, twophase): the requests of a trial
\* carry one key, or there is only one, and the ledger counts a key once.
THEOREM OnceWhereverKilled == TrialSpec => []KilledAnywhereOnce
<1>1. ControlInit => KeysOK /\ CountOK
  <2> SUFFICES ASSUME ControlInit PROVE KeysOK /\ CountOK
    OBVIOUS
  <2>1. Mine = {} /\ exit = "none"
    BY DEF ControlInit, TrialInit, DaemonInit, Mine, Issued
  <2>2. effect_keys[SharedIntent] = << >>
    BY TrialAssumption DEF ControlInit, TrialInit, DaemonInit, FreshState
  <2>3. QED
    BY <2>1, <2>2 DEF KeysOK, IdemKeys, TwoPhaseProgram, TwoPhaseKeys, CountOK
<1>2. TrialSpec => [](KeysOK /\ CountOK)
  BY <1>1, TrialSafeAlways, KeysStep, CountStep, PTL DEF TrialSpec
<1>3. TrialSafe /\ ProgressOK /\ VerdictOK /\ StoreOnChain /\ CountOK => KilledAnywhereOnce
  <2> SUFFICES ASSUME TrialSafe, ProgressOK, VerdictOK, StoreOnChain, CountOK,
                      Scored, OwnTrial, trial.mode \in {"idem", "twophase"}
               PROVE  outcome = "exactly_once"
    BY DEF KilledAnywhereOnce
  <2>1. effect_keys[SharedIntent] # << >>
    BY ModeKeys DEF ProgressOK, Scored, EffectMade, TrialSafe
  <2>2. Len(effect_keys[SharedIntent]) = 1
    BY <2>1 DEF CountOK
  <2>3. Intent = SharedIntent /\ SharedIntent \in Intents
    BY ControlRow, TrialAssumption
       DEF Intent, TrialSafe, TrialTyped, TrialTypeOK, HarnessTypeOK
  <2>4. outcome = Classify(Intent, Dump, store) /\ outcome # "raises"
    BY DEF VerdictOK, Scored
  <2>5. QED
    BY <2>1, <2>2, <2>3, <2>4, ClassifyCrossings
       DEF TrialSafe, TrialTyped, TrialTypeOK, HarnessTypeOK, DaemonTypeOK
<1>4. QED
  BY <1>2, <1>3, TrialSafeAlways, PTL

-----------------------------------------------------------------------------
(***************************************************************************)
(* A key derived from a draw: as many keys as draws.                       *)
(***************************************************************************)
One(S) == \A x, y \in S : x = y
Two(S) == \E x, y : S \subseteq {x, y}

\* Each process of the trial draws once, and its request carries the draw and the
\* key made from it.
DrawsOK ==
  trial.mode = "diverge" =>
    /\ \A r \in Mine : r.payload \in drawn /\ r.key = ContentKey(r.payload)
    /\ SendsOnce(todo)
    /\ harness = "crash_run" => One(drawn) /\ (drawn = {} \/ ~ Has(todo, "send"))
    /\ One(drawn) \/ (Two(drawn) /\ ~ Has(todo, "send"))

LEMMA DrawAdded ==
  ASSUME NEW S, NEW x
  PROVE  /\ S = {} => One(S \cup {x})
         /\ One(S) => Two(S \cup {x})
<1>1. S = {} => One(S \cup {x})
  BY DEF One
<1>2. ASSUME One(S) PROVE Two(S \cup {x})
  <2>1. CASE S = {}
    BY <2>1 DEF Two
  <2>2. CASE S # {}
    <3>1. PICK y : y \in S
      BY <2>2
    <3>2. S \cup {x} \subseteq {x, y}
      BY <1>2, <3>1 DEF One
    <3>3. QED
      BY <3>2 DEF Two
  <2>3. QED
    BY <2>1, <2>2
<1>3. QED
  BY <1>1, <1>2

LEMMA DrawnKeys ==
  ASSUME TrialTyped, trial.mode = "diverge"
  PROVE  /\ ~ TwoPhase(trial) /\ ~ PersistThenEffect(trial)
         /\ Draws \subseteq Memos
         /\ \A memo : EffectKeyOf(memo) = ContentKey(memo)
<1>1. RowOf(trial) = Row("durable", "effect_then_persist", "idempotent", "nondeterministic")
  BY ControlRow DEF ControlRows, TrialTyped, TrialTypeOK, HarnessTypeOK
<1>2. /\ ~ TwoPhase(trial) /\ Idempotent(trial) /\ Nondeterministic(trial)
      /\ ~ PersistThenEffect(trial)
  BY <1>1 DEF Row, TwoPhase, Idempotent, Nondeterministic, PersistThenEffect
<1>3. QED
  BY <1>2 DEF Draws, EffectKeyOf

\* The programs of an adapter that keeps no identity.
LEMMA SinglePrograms ==
  ASSUME NEW t \in Trials, ~ PersistThenEffect(t), ~ TwoPhase(t)
  PROVE  SendsOnce(CrashRun(t)) /\ SendsOnce(RecoveryRun)
<1> DEFINE S == StepName
           Silent(v) == v \in Seq(S) /\ ~ Has(v, "send")
           Single(v) == v \in Seq(S) /\ SendsOnce(v)
<1>1. Silent(<<"check">>) /\ Silent(PersistSteps) /\ Silent(<< >>)
  BY DEF PersistSteps, StepName, Has
<1>2. Single(EffectSteps)
  BY DEF EffectSteps, StepName, SendsOnce
<1>3. ASSUME NEW b \in Barrier PROVE Silent(CrashAt(b, t))
  <2>1. b \in S /\ b # "send"
    BY DEF StepName, Barrier
  <2>2. <<b>> \in Seq(S) /\ << >> \in Seq(S)
    BY <2>1
  <2>3. QED
    BY <2>1, <2>2 DEF CrashAt, Has
<1>4. Silent(CrashAt("b0", t)) /\ Silent(CrashAt("b1", t)) /\ Silent(CrashAt("b2", t))
  BY <1>3 DEF Barrier
<1> HIDE DEF S
<1>5. ASSUME NEW v, Silent(v) PROVE Single(v)
  BY <1>5 DEF Has, SendsOnce
<1>6. ASSUME NEW u, NEW v, Silent(u), Silent(v) PROVE Silent(u \o v)
  BY <1>6, ConcatElements, HasConcat
<1>7. ASSUME NEW u, NEW v, Silent(u), Single(v) PROVE Single(u \o v)
  BY <1>5, <1>7, ConcatElements, SendsOnceConcat
<1>8. ASSUME NEW u, NEW v, Single(u), Silent(v) PROVE Single(u \o v)
  BY <1>5, <1>8, ConcatElements, SendsOnceConcat
<1> HIDE DEF Silent, Single
<1>9. Single(<<"check">> \o EffectSteps \o PersistSteps)
  BY <1>1, <1>2, <1>7, <1>8
<1>10. Single(<< >> \o CrashAt("b0", t) \o EffectSteps \o CrashAt("b1", t)
                \o PersistSteps \o CrashAt("b2", t))
  <2>1. Single(<< >> \o CrashAt("b0", t) \o EffectSteps)
    BY <1>1, <1>2, <1>4, <1>6, <1>7
  <2>2. Single(<< >> \o CrashAt("b0", t) \o EffectSteps \o CrashAt("b1", t) \o PersistSteps)
    BY <1>1, <1>4, <1>8, <2>1
  <2>3. QED
    BY <1>4, <1>8, <2>2
<1>11. QED
  BY <1>9, <1>10 DEF CrashRun, RecoveryRun, Single

\* An adapter that keeps no identity takes its steps off its program.
LEMMA SingleMoves ==
  ASSUME TrialTyped, SendsOnce(todo), ~ TwoPhase(trial), AdapterStep
  PROVE  /\ SendsOnce(todo') /\ (Has(todo', "send") => Has(todo, "send"))
         /\ DrawnEffect => ~ Has(todo', "send") /\ Has(todo, "send")
         /\ ~ DrawnEffect => drawn' = drawn
<1>1. todo \in Seq(StepName)
  BY DEF TrialTyped, TrialTypeOK
<1>2. CASE todo' = << >> /\ ~ DrawnEffect /\ drawn' = drawn
  BY <1>2 DEF SendsOnce, Has
<1>3. CASE todo # << >> /\ todo' = Tail(todo) /\ (DrawnEffect => Head(todo) = "send")
           /\ (~ DrawnEffect => drawn' = drawn)
  BY <1>1, <1>3, SendsOnceTail, HasTail
<1>4. CASE DrawnEffect
  BY <1>3, <1>4, SendRequest DEF Running
<1>5. CASE KillSelf(TRUE) \/ Return \/ SamplerFails \/ StrayKill \/ Timeout
  <2>1. todo' = << >> /\ drawn' = drawn
    BY <1>5 DEF KillSelf, Return, SamplerFails, Raise, StrayKill, Timeout, ExitWith
  <2>2. QED
    BY <1>2, <1>4, <2>1
<1>6. CASE CheckMarker \/ WriteFile \/ ReceiveReply
  <2>1. /\ todo # << >> /\ todo' \in {<< >>, Tail(todo)} /\ drawn' = drawn
    BY <1>6 DEF CheckMarker, WriteFile, Persists, ReceiveReply, Running, Advance
  <2>2. QED
    BY <1>2, <1>3, <1>4, <2>1
<1>7. CASE ReadIdentity
  <2>1. todo # << >> /\ todo' = << >> \o Tail(todo) /\ drawn' = drawn
    BY <1>7 DEF ReadIdentity, Running
  <2>2. << >> \o Tail(todo) = Tail(todo)
    BY <1>1, <2>1, TailElements
  <2>3. QED
    BY <1>3, <1>4, <2>1, <2>2
<1>8. QED
  BY <1>4, <1>5, <1>6, <1>7 DEF AdapterStep, Process

LEMMA DrawsStep == TrialSafe /\ DrawsOK /\ [TrialNext]_allVars => DrawsOK'
<1> SUFFICES ASSUME TrialSafe, DrawsOK, [TrialNext]_allVars PROVE DrawsOK'
  OBVIOUS
<1> USE DEF TrialSafe
<1>1. ASSUME NEW t \in Trials, StartTrial(t, NoFiles(t), CrashRun(t)) PROVE DrawsOK'
  <2>1. /\ trial' = t /\ todo' = CrashRun(t) /\ drawn' = {} /\ epoch' = epoch + 1
        /\ UNCHANGED <<wire, answers>>
    BY <1>1 DEF StartTrial, Spawn, HandleReset
  <2>2. epoch \in Nat /\ \A r \in Issued : r.epoch \in Nat /\ r.epoch <= epoch
    BY DaemonAssumption
       DEF TrialTyped, TrialTypeOK, HarnessTypeOK, DaemonTypeOK, RequestsOK, Request
  <2>3. Mine' = {}
    BY <2>1, <2>2 DEF Mine, Issued
  <2>4. trial'.mode = "diverge" => SendsOnce(todo')
    <3>1. TrialTyped'
      BY TrialTypedStep
    <3>2. t.mode = "diverge" => ~ TwoPhase(t) /\ ~ PersistThenEffect(t)
      BY ControlRow DEF ControlRows, Row, TwoPhase, PersistThenEffect
    <3>3. QED
      BY <2>1, <3>2, SinglePrograms
  <2>5. QED
    BY <2>1, <2>3, <2>4 DEF DrawsOK, One
<1>2. CASE trial' = trial /\ epoch' = epoch /\ trial.mode = "diverge"
  <2>1. /\ \A r \in Mine : r.payload \in drawn /\ r.key = ContentKey(r.payload)
        /\ SendsOnce(todo)
        /\ harness = "crash_run" => One(drawn) /\ (drawn = {} \/ ~ Has(todo, "send"))
        /\ One(drawn) \/ (Two(drawn) /\ ~ Has(todo, "send"))
    BY <1>2 DEF DrawsOK
  <2>2. ~ TwoPhase(trial)
    BY <1>2, DrawnKeys
  <2>3. CASE DrawnEffect
    <3>1. PICK memo \in Draws, r \in Request :
             /\ r.key = EffectKeyOf(memo) /\ r.payload = memo /\ r.epoch = epoch
             /\ Issued' = Issued \cup {r} /\ harness' = harness
             /\ drawn' = (drawn \cup {memo}) \ {NoMemo}
      BY <2>3, SendRequest
    <3>2. drawn' = drawn \cup {memo} /\ r.key = ContentKey(r.payload)
      BY <1>2, <3>1, DrawnKeys, TrialAssumption DEF TrialTyped, TrialTypeOK, HarnessTypeOK
    <3>3. Mine' = Mine \cup {r}
      BY <1>2, <3>1 DEF Mine
    <3>4. SendsOnce(todo') /\ ~ Has(todo', "send") /\ Has(todo, "send")
      BY <2>1, <2>2, <2>3, SingleMoves DEF AdapterStep, Process
    <3>5. harness = "crash_run" => One(drawn')
      BY <2>1, <3>2, <3>4, DrawAdded
    <3>6. Two(drawn')
      BY <2>1, <3>2, <3>4, DrawAdded
    <3>7. \A s \in Mine' : s.payload \in drawn' /\ s.key = ContentKey(s.payload)
      BY <2>1, <3>1, <3>2, <3>3
    <3>8. QED
      BY <3>1, <3>4, <3>5, <3>6, <3>7 DEF DrawsOK
  <2>4. CASE ~ DrawnEffect
    <3>1. Mine' = Mine
      <4>1. Issued' = Issued
        BY <2>4, IssuedStays
      <4>2. QED
        BY <1>2, <4>1 DEF Mine
    <3>2. CASE AdapterStep
      <4>1. /\ SendsOnce(todo') /\ (Has(todo', "send") => Has(todo, "send"))
            /\ drawn' = drawn /\ harness' \in {harness, "failed"}
        BY <2>1, <2>2, <2>4, <3>2, SingleMoves, AdapterStepEffect
      <4>2. QED
        BY <2>1, <3>1, <4>1 DEF DrawsOK
    <3>3. CASE CrashRunEnds(RecoveryRun)
      <4>1. /\ harness = "crash_run" /\ harness' = "recovery_run" /\ todo' = RecoveryRun
            /\ drawn' = drawn
        BY <3>3 DEF CrashRunEnds, Spawn
      <4>2. SendsOnce(RecoveryRun)
        BY <1>2, SinglePrograms, DrawnKeys DEF TrialTyped, TrialTypeOK, HarnessTypeOK
      <4>3. QED
        BY <2>1, <3>1, <4>1, <4>2 DEF DrawsOK
    <3>4. CASE UNCHANGED <<todo, drawn>> /\ harness' \in {harness} \cup
                 {"seal", "dump", "classify", "classified", "failed"}
      BY <2>1, <3>1, <3>4 DEF DrawsOK
    <3>5. CASE \/ RecoveryRunEnds \/ TrialFails \/ SealLedger \/ ReadDump \/ Daemon
               \/ ClassifyTrial(Classify(Intent, dump, store)) \/ UNCHANGED allVars
      BY <3>4, <3>5
         DEF RecoveryRunEnds, TrialFails, SealLedger, ReadDump, ClassifyTrial, Daemon,
             allVars, trialVars, processVars
    <3>6. ASSUME NEW t \in Trials, StartTrial(t, NoFiles(t), CrashRun(t)) PROVE FALSE
      BY <1>2, <3>6 DEF StartTrial, HandleReset, TrialTyped, TrialTypeOK, HarnessTypeOK,
                        DaemonTypeOK
    <3>7. QED
      BY <3>2, <3>3, <3>5, <3>6 DEF TrialNext, Harness, HarnessGoesOn, AdapterStep
  <2>5. QED
    BY <2>3, <2>4
<1>3. CASE trial' = trial /\ trial.mode # "diverge"
  BY <1>3 DEF DrawsOK
<1>4. QED
  BY <1>1, <1>2, <1>3, SameTrial

\* Two crossings of a trial that keys its effect by its draw are two draws.
LEMMA CrossingsDrawn ==
  ASSUME TrialSafe, DrawsOK, CrossedAsAsked, OwnTrial, trial.mode = "diverge",
         NEW n \in 1 .. Len(effect_keys[SharedIntent])
  PROVE  /\ effect_digests[SharedIntent][n] \in drawn
         /\ effect_keys[SharedIntent][n] = ContentKey(effect_digests[SharedIntent][n])
         /\ effect_keys[SharedIntent][n] # NoKey
<1> USE DEF TrialSafe
<1>1. SharedIntent \in Intents /\ Intent = SharedIntent
  BY ControlRow, TrialAssumption DEF Intent, TrialTyped, TrialTypeOK, HarnessTypeOK
<1>2. PICK a \in answers :
         /\ a.epoch = epoch /\ Counts(a.req, a.status) /\ a.req.intent = SharedIntent
         /\ a.req.key = effect_keys[SharedIntent][n]
         /\ a.req.payload = effect_digests[SharedIntent][n]
  BY <1>1 DEF CrossedAsAsked, Asked, AskedFor
<1>3. a.req \in Mine
  BY <1>1, <1>2 DEF OwnTrial, Counts, Mine, Issued
<1>4. a.req.payload \in drawn /\ a.req.key = ContentKey(a.req.payload)
  BY <1>3 DEF DrawsOK
<1>5. ContentKey(a.req.payload) \in Keys
  BY <1>4, TrialAssumption DEF EffectKeys, TrialTyped, TrialTypeOK, HarnessTypeOK
<1>6. QED
  BY <1>2, <1>4, <1>5, KeyAssumption

LEMMA TwoDrawn ==
  ASSUME NEW S, NEW x \in S, NEW y \in S, x # y, Two(S)
  PROVE  Cardinality(S) = 2
<1>1. S = {x, y}
  BY DEF Two
<1>2. IsFiniteSet({x}) /\ Cardinality({x}) = 1
  BY FS_Singleton
<1>3. y \notin {x}
  OBVIOUS
<1>4. Cardinality({x} \cup {y}) = Cardinality({x}) + 1
  BY <1>2, <1>3, FS_AddElement
<1>5. S = {x} \cup {y}
  BY <1>1
<1>6. QED
  BY <1>2, <1>4, <1>5

\* Wherever the adapter is killed and however often a draw repeats, a trial whose
\* key is made from its draw, if scored and not disturbed by an earlier trial, crossed
\* once or diverged, and then drew two different memos: a drawn effect never shows
\* as duplicated (base.py draw_memo, controls.py diverge).
THEOREM RepeatedDrawAlwaysShown == TrialSpec => []RepeatedDrawShown
<1>1. ControlInit => DrawsOK
  <2> SUFFICES ASSUME ControlInit PROVE DrawsOK
    OBVIOUS
  <2>1. Mine = {} /\ todo = << >> /\ drawn = {}
    BY DEF ControlInit, TrialInit, DaemonInit, Mine, Issued
  <2>2. QED
    BY <2>1 DEF DrawsOK, SendsOnce, One
<1>2. TrialSpec => []DrawsOK
  BY <1>1, TrialSafeAlways, DrawsStep, PTL DEF TrialSpec
<1>3. TrialSpec => []CrossedAsAsked
  BY TrialRunsDaemon, CrossedAlwaysAsAsked, PTL
<1>4. TrialSafe /\ ProgressOK /\ VerdictOK /\ StoreOnChain /\ DrawsOK /\ CrossedAsAsked
        => RepeatedDrawShown
  <2> SUFFICES ASSUME TrialSafe, ProgressOK, VerdictOK, StoreOnChain, DrawsOK, CrossedAsAsked,
                      Scored, OwnTrial, trial.mode = "diverge"
               PROVE  \/ outcome = "exactly_once"
                      \/ outcome = "diverged" /\ Cardinality(drawn) = 2
    BY DEF RepeatedDrawShown
  <2> DEFINE keys == effect_keys[SharedIntent]
             digests == effect_digests[SharedIntent]
  <2>1. keys # << >>
    BY DrawnKeys DEF ProgressOK, Scored, EffectMade, EffectFirst, TrialSafe
  <2>2. /\ Intent = SharedIntent /\ SharedIntent \in Intents
        /\ LedgerTypeOK /\ CrossingsAgree
    BY ControlRow, TrialAssumption
       DEF Intent, TrialSafe, TrialTyped, TrialTypeOK, HarnessTypeOK, DaemonTypeOK
  <2>3. outcome = Classify(SharedIntent, Dump, store) /\ outcome # "raises"
    BY <2>2 DEF VerdictOK, Scored
  <2>4. Len(keys) \in Nat \ {0}
    BY <2>1, <2>2 DEF LedgerTypeOK
  <2>5. CASE Len(keys) = 1
    BY <2>1, <2>2, <2>3, <2>5, ClassifyCrossings
  <2>6. CASE Len(keys) >= 2
    <3>1. 1 \in 1 .. Len(keys) /\ 2 \in 1 .. Len(keys)
      BY <2>4, <2>6
    <3>2. /\ digests[1] \in drawn /\ keys[1] = ContentKey(digests[1]) /\ keys[1] # NoKey
          /\ digests[2] \in drawn /\ keys[2] = ContentKey(digests[2])
      BY <3>1, CrossingsDrawn
    <3>3. keys[1] # keys[2]
      BY <2>2, <3>1, <3>2 DEF CrossingsAgree
    <3>4. digests[1] # digests[2]
      BY <3>2, <3>3
    <3>5. Two(drawn)
      BY <3>2, <3>4 DEF DrawsOK, One
    <3>6. Cardinality(drawn) = 2
      BY <3>2, <3>4, <3>5, TwoDrawn
    <3>7. /\ Dump.side_effects[SharedIntent] = Len(digests) /\ Len(digests) = Len(keys)
          /\ Dump.effect_digests[SharedIntent] = digests
      BY <2>2 DEF Dump, CrossingsAgree
    <3> HIDE DEF digests, keys
    <3>8. CrossingOutcome(digests) = "diverged"
      <4>1. Len(digests) # 0 /\ Len(digests) # 1
        BY <2>4, <2>6, <3>7
      <4>2. \E m, n \in 1 .. Len(digests) : digests[m] # digests[n]
        BY <3>1, <3>4, <3>7
      <4>3. QED
        BY <4>1, <4>2, Zenon DEF CrossingOutcome
    <3>9. Verify(store) = "ok"
      BY <2>3, ChainNeverBroken DEF Classify
    <3>10. outcome = "diverged"
      BY <2>3, <2>6, <3>7, <3>8, <3>9 DEF Classify
    <3>11. QED
      BY <3>6, <3>10
  <2>7. \A n \in Nat \ {0} : n = 1 \/ n >= 2
    OBVIOUS
  <2>8. QED
    BY <2>4, <2>5, <2>6, <2>7, Zenon
<1>5. QED
  BY <1>2, <1>3, <1>4, TrialSafeAlways, PTL

-----------------------------------------------------------------------------
(***************************************************************************)
(* The trial implements the lifecycle that the prediction is derived from, *)
(* and so ends in the predicted outcome: as long as nobody but the barrier *)
(* kills, nothing fails but the ledger's writes, and no value is drawn     *)
(* twice.                                                                  *)
(***************************************************************************)
Orderly == ~ StrayKills /\ ~ Failures /\ UuidDraws

-----------------------------------------------------------------------------
(***************************************************************************)
(* Where a process is.  Its program is in the order of the ranks below,    *)
(* and what it has left is the end of it.                                  *)
(***************************************************************************)
\* The order of the steps, where the completion is persisted first or last.
Rank(first, x) ==
  CASE x = "check" -> 0
    [] x = "open_identity" -> 1
    [] x = "write_identity" -> 2
    [] x = "b0" -> 3
    [] x = "identity" -> 7
    [] x = "send" -> 8
    [] x = "await" -> 9
    [] x = "b1" -> IF first THEN 6 ELSE 10
    [] x = "open_marker" -> IF first THEN 4 ELSE 11
    [] x = "write_marker" -> IF first THEN 5 ELSE 12
    [] x = "b2" -> 13

CommonSteps == {"identity", "send", "await", "open_marker", "write_marker"}
CrashSteps(t) == CommonSteps \cup {t.barrier}
                   \cup (IF TwoPhase(t) THEN {"open_identity", "write_identity"} ELSE {})
RecoverySteps == CommonSteps \cup {"check"}

\* s is what is left of a program with the steps P.
EndOf(first, s, P) ==
  /\ s \in Seq(StepName)
  /\ \A n \in 1 .. Len(s) : s[n] \in P
  /\ \A m, n \in 1 .. Len(s) : m < n => Rank(first, s[m]) < Rank(first, s[n])
  /\ \A x \in P : Has(s, x) \/ \A n \in 1 .. Len(s) : Rank(first, x) < Rank(first, s[n])

LEMMA RankNat == \A first \in BOOLEAN, x \in StepName : Rank(first, x) \in Nat
BY DEF StepName, Barrier, Rank

\* What is left once the first step is taken, and what a step's being next says of
\* the others.
LEMMA Position ==
  ASSUME NEW first \in BOOLEAN, NEW P \in SUBSET StepName, NEW s,
         EndOf(first, s, P), s # << >>
  PROVE  /\ Head(s) \in P /\ EndOf(first, Tail(s), P)
         /\ \A x \in P : Has(s, x) <=> Rank(first, Head(s)) <= Rank(first, x)
         /\ \A x \in P : Has(Tail(s), x) <=> Rank(first, Head(s)) < Rank(first, x)
<1> DEFINE R(x) == Rank(first, x)
           t == Tail(s)
<1>1. /\ s \in Seq(StepName) /\ t \in Seq(StepName)
      /\ Len(s) \in Nat \ {0} /\ Len(t) = Len(s) - 1 /\ Head(s) = s[1]
      /\ \A n \in 1 .. Len(s) - 1 : t[n] = s[n + 1]
  BY TailElements DEF EndOf
<1>2. /\ \A n \in 1 .. Len(s) : s[n] \in P /\ R(s[n]) \in Nat
      /\ \A m, n \in 1 .. Len(s) : m < n => R(s[m]) < R(s[n])
      /\ \A x \in P : Has(s, x) \/ \A n \in 1 .. Len(s) : R(x) < R(s[n])
      /\ \A x \in P : R(x) \in Nat
  BY RankNat DEF EndOf
<1> HIDE DEF t, R
<1>3. 1 \in 1 .. Len(s) /\ \A n \in 1 .. Len(t) : n + 1 \in 1 .. Len(s) /\ 1 < n + 1
  BY <1>1
<1>4. Head(s) \in P /\ R(Head(s)) \in Nat
  BY <1>1, <1>2, <1>3
<1>5. \A n \in 1 .. Len(t) : t[n] \in P /\ R(Head(s)) < R(t[n])
  BY <1>1, <1>2, <1>3
<1>6. ASSUME NEW m \in 1 .. Len(t), NEW n \in 1 .. Len(t), m < n PROVE R(t[m]) < R(t[n])
  <2>1. m + 1 < n + 1 /\ t[m] = s[m + 1] /\ t[n] = s[n + 1]
    BY <1>1, <1>6
  <2>2. QED
    BY <1>2, <1>3, <2>1
<1>7. \A x : Has(s, x) <=> Head(s) = x \/ Has(t, x)
  BY <1>1, HasTail DEF t
<1>8. ASSUME NEW x \in P, ~ Has(t, x), NEW n \in 1 .. Len(t) PROVE R(x) < R(t[n])
  <2>1. CASE x = Head(s)
    BY <1>5, <2>1
  <2>2. CASE ~ Has(s, x)
    BY <1>1, <1>2, <1>3, <2>2
  <2>3. QED
    BY <1>7, <1>8, <2>1, <2>2
<1>9. EndOf(first, t, P)
  BY <1>1, <1>5, <1>6, <1>8 DEF EndOf, R
<1>10. ASSUME NEW x \in P PROVE Has(t, x) <=> R(Head(s)) < R(x)
  <2>1. Has(t, x) => R(Head(s)) < R(x)
    BY <1>5 DEF Has
  <2>2. CASE ~ Has(s, x)
    BY <1>1, <1>2, <1>3, <1>4, <1>7, <2>2
  <2>3. CASE x = Head(s)
    BY <1>4, <2>1, <2>3
  <2>4. QED
    BY <1>7, <2>1, <2>2, <2>3
<1>11. ASSUME NEW x \in P PROVE Has(s, x) <=> R(Head(s)) <= R(x)
  <2>1. CASE ~ Has(s, x)
    BY <1>1, <1>2, <1>3, <1>4, <2>1
  <2>2. CASE x = Head(s)
    BY <1>4, <1>7, <2>2
  <2>3. CASE Has(t, x)
    BY <1>2, <1>4, <1>7, <1>10, <2>3
  <2>4. QED
    BY <1>7, <2>1, <2>2, <2>3
<1>12. QED
  BY <1>4, <1>9, <1>10, <1>11 DEF t, R

\* A stretch of a program, in order, between two ranks.
Stretch(first, s, lo, hi) ==
  /\ s \in Seq(StepName)
  /\ \A n \in 1 .. Len(s) : lo <= Rank(first, s[n]) /\ Rank(first, s[n]) <= hi
  /\ \A m, n \in 1 .. Len(s) : m < n => Rank(first, s[m]) < Rank(first, s[n])

LEMMA StretchConcat ==
  ASSUME NEW first \in BOOLEAN, NEW lo \in Nat, NEW mid \in Nat, NEW hi \in Nat,
         lo <= mid, mid < hi,
         NEW u, NEW v, Stretch(first, u, lo, mid), Stretch(first, v, mid + 1, hi)
  PROVE  Stretch(first, u \o v, lo, hi)
<1> DEFINE R(x) == Rank(first, x)
           w == u \o v
<1>1. /\ u \in Seq(StepName) /\ v \in Seq(StepName) /\ w \in Seq(StepName)
      /\ Len(u) \in Nat /\ Len(v) \in Nat /\ Len(w) = Len(u) + Len(v)
      /\ \A n \in 1 .. Len(u) : w[n] = u[n]
      /\ \A n \in 1 .. Len(v) : w[Len(u) + n] = v[n]
  BY ConcatElements DEF Stretch
<1>2. /\ \A n \in 1 .. Len(u) : R(u[n]) \in Nat /\ lo <= R(u[n]) /\ R(u[n]) <= mid
      /\ \A n \in 1 .. Len(v) : R(v[n]) \in Nat /\ mid + 1 <= R(v[n]) /\ R(v[n]) <= hi
  BY <1>1, RankNat DEF Stretch
<1>3. /\ \A m, n \in 1 .. Len(u) : m < n => R(u[m]) < R(u[n])
      /\ \A m, n \in 1 .. Len(v) : m < n => R(v[m]) < R(v[n])
  BY DEF Stretch
<1> HIDE DEF w, R
<1>4. ASSUME NEW n \in 1 .. Len(w), n \notin 1 .. Len(u)
      PROVE  n - Len(u) \in 1 .. Len(v) /\ w[n] = v[n - Len(u)]
  <2>1. n - Len(u) \in 1 .. Len(v) /\ n = Len(u) + (n - Len(u))
    BY <1>1, <1>4
  <2>2. QED
    BY <1>1, <2>1
<1>5. ASSUME NEW n \in 1 .. Len(w) PROVE lo <= R(w[n]) /\ R(w[n]) <= hi
  <2>1. CASE n \in 1 .. Len(u)
    BY <1>1, <1>2, <2>1
  <2>2. CASE n \notin 1 .. Len(u)
    BY <1>2, <1>4, <2>2
  <2>3. QED
    BY <2>1, <2>2
<1>6. ASSUME NEW m \in 1 .. Len(w), NEW n \in 1 .. Len(w), m < n PROVE R(w[m]) < R(w[n])
  <2>1. CASE n \in 1 .. Len(u)
    <3>1. m \in 1 .. Len(u)
      BY <1>1, <1>6, <2>1
    <3>2. QED
      BY <1>1, <1>3, <1>6, <2>1, <3>1
  <2>2. CASE n \notin 1 .. Len(u) /\ m \in 1 .. Len(u)
    <3>1. R(w[m]) \in Nat /\ R(w[m]) <= mid
      BY <1>1, <1>2, <2>2
    <3>2. R(w[n]) \in Nat /\ mid + 1 <= R(w[n])
      BY <1>2, <1>4, <2>2
    <3>3. QED
      BY <3>1, <3>2
  <2>3. CASE n \notin 1 .. Len(u) /\ m \notin 1 .. Len(u)
    <3>1. m - Len(u) < n - Len(u)
      BY <1>1, <1>6
    <3>2. QED
      BY <1>3, <1>4, <2>3, <3>1
  <2>4. QED
    BY <2>1, <2>2, <2>3
<1>7. QED
  BY <1>1, <1>5, <1>6 DEF Stretch, w, R

LEMMA WholeProgram ==
  ASSUME NEW first \in BOOLEAN, NEW s, NEW P, NEW hi, Stretch(first, s, 0, hi),
         \A x : Has(s, x) <=> x \in P
  PROVE  EndOf(first, s, P) /\ \A x \in P : Has(s, x)
BY DEF Stretch, EndOf, Has

\* The pieces the programs are made of.
LEMMA Pieces ==
  ASSUME NEW t, NEW first \in BOOLEAN
  PROVE  /\ Stretch(first, <<"check">>, 0, 0)
         /\ Stretch(first, << >>, 0, 2)
         /\ Stretch(first, Prepare, 0, 2)
         /\ Stretch(first, EffectSteps, 7, 9)
         /\ Stretch(first, PersistSteps, IF first THEN 4 ELSE 11, IF first THEN 5 ELSE 12)
         /\ Stretch(first, CrashAt("b0", t), 3, 3)
         /\ Stretch(first, CrashAt("b1", t), IF first THEN 6 ELSE 10, IF first THEN 6 ELSE 10)
         /\ Stretch(first, CrashAt("b2", t), 13, 13)
<1>1. ASSUME NEW x \in StepName, NEW lo \in Nat, NEW hi \in Nat,
             lo <= Rank(first, x), Rank(first, x) <= hi
      PROVE  Stretch(first, <<x>>, lo, hi) /\ Stretch(first, << >>, lo, hi)
  BY <1>1 DEF Stretch
<1>2. ASSUME NEW x \in StepName, NEW y \in StepName, NEW lo \in Nat, NEW hi \in Nat,
             lo <= Rank(first, x), Rank(first, x) < Rank(first, y), Rank(first, y) <= hi
      PROVE  Stretch(first, <<x, y>>, lo, hi)
  <2>1. Rank(first, x) \in Nat /\ Rank(first, y) \in Nat
    BY RankNat
  <2>2. QED
    BY <1>2, <2>1 DEF Stretch
<1>3. Stretch(first, EffectSteps, 7, 9)
  <2>1. /\ EffectSteps \in Seq(StepName) /\ Len(EffectSteps) = 3 /\ EffectSteps[1] = "identity"
        /\ EffectSteps[2] = "send" /\ EffectSteps[3] = "await"
    BY DEF EffectSteps, StepName
  <2>2. Rank(first, "identity") = 7 /\ Rank(first, "send") = 8 /\ Rank(first, "await") = 9
    BY DEF Rank
  <2>3. QED
    BY <2>1, <2>2 DEF Stretch
<1>4. /\ Rank(first, "check") = 0 /\ "check" \in StepName
      /\ Rank(first, "open_identity") = 1 /\ "open_identity" \in StepName
      /\ Rank(first, "write_identity") = 2 /\ "write_identity" \in StepName
      /\ Rank(first, "b0") = 3 /\ "b0" \in StepName
      /\ Rank(first, "b1") = (IF first THEN 6 ELSE 10) /\ "b1" \in StepName
      /\ Rank(first, "b2") = 13 /\ "b2" \in StepName
      /\ Rank(first, "open_marker") = (IF first THEN 4 ELSE 11) /\ "open_marker" \in StepName
      /\ Rank(first, "write_marker") = (IF first THEN 5 ELSE 12) /\ "write_marker" \in StepName
  BY DEF Rank, StepName, Barrier
<1>5. Stretch(first, <<"check">>, 0, 0) /\ Stretch(first, << >>, 0, 2)
  BY <1>1, <1>4
<1>6. Stretch(first, Prepare, 0, 2)
  BY <1>2, <1>4 DEF Prepare
<1>7. Stretch(first, PersistSteps, IF first THEN 4 ELSE 11, IF first THEN 5 ELSE 12)
  BY <1>2, <1>4 DEF PersistSteps
<1>8. /\ Stretch(first, CrashAt("b0", t), 3, 3)
      /\ Stretch(first, CrashAt("b1", t), IF first THEN 6 ELSE 10, IF first THEN 6 ELSE 10)
      /\ Stretch(first, CrashAt("b2", t), 13, 13)
  BY <1>1, <1>4 DEF CrashAt
<1>9. QED
  BY <1>3, <1>5, <1>6, <1>7, <1>8

LEMMA WiderStretch ==
  ASSUME NEW first, NEW s, NEW lo \in Nat, NEW hi \in Nat, NEW low \in Nat, NEW high \in Nat,
         low <= lo, hi <= high, first \in BOOLEAN, Stretch(first, s, lo, hi)
  PROVE  Stretch(first, s, low, high)
<1>1. \A n \in 1 .. Len(s) : Rank(first, s[n]) \in Nat
  BY RankNat DEF Stretch
<1>2. QED
  BY <1>1 DEF Stretch

LEMMA PieceSteps ==
  ASSUME NEW t, NEW x
  PROVE  /\ Has(<<"check">>, x) <=> x = "check"
         /\ ~ Has(<< >>, x)
         /\ Has(Prepare, x) <=> x \in {"open_identity", "write_identity"}
         /\ Has(EffectSteps, x) <=> x \in {"identity", "send", "await"}
         /\ Has(PersistSteps, x) <=> x \in {"open_marker", "write_marker"}
         /\ \A b : Has(CrashAt(b, t), x) <=> x = b /\ t.barrier = b
BY DEF Has, Prepare, EffectSteps, PersistSteps, CrashAt

LEMMA RowKinds ==
  ASSUME NEW t \in Trials
  PROVE  /\ PersistThenEffect(t) \in BOOLEAN /\ TwoPhase(t) \in BOOLEAN
         /\ ~ (PersistThenEffect(t) /\ TwoPhase(t))
         /\ PersistThenEffect(t) => Durable(t)
         /\ t.barrier \in Barrier
BY ControlRow DEF ControlRows, Row, PersistThenEffect, TwoPhase, Durable

LEMMA WholeCrashRun ==
  ASSUME NEW t \in Trials
  PROVE  /\ EndOf(PersistThenEffect(t), CrashRun(t), CrashSteps(t))
         /\ \A x \in CrashSteps(t) : Has(CrashRun(t), x)
<1> DEFINE first == PersistThenEffect(t)
<1>0. first \in BOOLEAN /\ t.barrier \in Barrier
  BY RowKinds
<1>1. CASE first
  <2> DEFINE A == CrashAt("b0", t)
             B == A \o PersistSteps
             C == B \o CrashAt("b1", t)
             D == C \o EffectSteps
             E == D \o CrashAt("b2", t)
  <2>1. /\ Stretch(first, CrashAt("b0", t), 3, 3) /\ Stretch(first, PersistSteps, 4, 5)
        /\ Stretch(first, CrashAt("b1", t), 6, 6) /\ Stretch(first, EffectSteps, 7, 9)
        /\ Stretch(first, CrashAt("b2", t), 13, 13)
    BY <1>1, Pieces
  <2>2. /\ Stretch(first, A, 0, 3) /\ Stretch(first, CrashAt("b2", t), 10, 13)
    BY <1>0, <2>1, WiderStretch
  <2> HIDE DEF first
  <2>3. Stretch(first, B, 0, 5)
    <3> HIDE DEF A
    <3> QED
      BY <1>0, <2>1, <2>2, StretchConcat
  <2>4. Stretch(first, C, 0, 6)
    <3> HIDE DEF B
    <3> QED
      BY <1>0, <2>1, <2>3, StretchConcat
  <2>5. Stretch(first, D, 0, 9)
    <3> HIDE DEF C
    <3> QED
      BY <1>0, <2>1, <2>4, StretchConcat
  <2>6. Stretch(first, E, 0, 13)
    <3> HIDE DEF D
    <3> QED
      BY <1>0, <2>2, <2>5, StretchConcat
  <2>7. /\ A \in Seq(StepName) /\ B \in Seq(StepName) /\ C \in Seq(StepName)
        /\ D \in Seq(StepName) /\ CrashAt("b2", t) \in Seq(StepName)
        /\ PersistSteps \in Seq(StepName) /\ EffectSteps \in Seq(StepName)
        /\ CrashAt("b1", t) \in Seq(StepName)
    BY <2>1, <2>2, <2>3, <2>4, <2>5 DEF Stretch
  <2>8. ASSUME NEW x
        PROVE  Has(E, x) <=>
                 Has(A, x) \/ Has(PersistSteps, x) \/ Has(CrashAt("b1", t), x)
                   \/ Has(EffectSteps, x) \/ Has(CrashAt("b2", t), x)
    <3>1. Has(B, x) <=> Has(A, x) \/ Has(PersistSteps, x)
      BY <2>7, HasConcat
    <3>2. Has(C, x) <=> Has(B, x) \/ Has(CrashAt("b1", t), x)
      <4> HIDE DEF B
      <4> QED
        BY <2>7, HasConcat
    <3>3. Has(D, x) <=> Has(C, x) \/ Has(EffectSteps, x)
      <4> HIDE DEF C
      <4> QED
        BY <2>7, HasConcat
    <3>4. Has(E, x) <=> Has(D, x) \/ Has(CrashAt("b2", t), x)
      <4> HIDE DEF D
      <4> QED
        BY <2>7, HasConcat
    <3>5. QED
      BY <3>1, <3>2, <3>3, <3>4
  <2>9. ~ TwoPhase(t)
    BY <1>1, RowKinds DEF first
  <2>10. \A x : Has(E, x) <=> x \in CrashSteps(t)
    BY <1>0, <2>8, <2>9, PieceSteps DEF CrashSteps, CommonSteps, Barrier
  <2>11. E = CrashRun(t)
    BY <1>1 DEF CrashRun, first
  <2> HIDE DEF E
  <2>12. EndOf(first, E, CrashSteps(t)) /\ \A x \in CrashSteps(t) : Has(E, x)
    BY <1>0, <2>6, <2>10, WholeProgram
  <2>13. QED
    BY <2>11, <2>12 DEF first
<1>2. CASE ~ first
  <2> DEFINE Z == IF TwoPhase(t) THEN Prepare ELSE << >>
             A == Z \o CrashAt("b0", t)
             B == A \o EffectSteps
             C == B \o CrashAt("b1", t)
             D == C \o PersistSteps
             E == D \o CrashAt("b2", t)
  <2>1. /\ Stretch(first, CrashAt("b0", t), 3, 3) /\ Stretch(first, PersistSteps, 11, 12)
        /\ Stretch(first, CrashAt("b1", t), 10, 10) /\ Stretch(first, EffectSteps, 7, 9)
        /\ Stretch(first, CrashAt("b2", t), 13, 13)
        /\ Stretch(first, Prepare, 0, 2) /\ Stretch(first, << >>, 0, 2)
    <3> HIDE DEF first
    <3> QED
      BY <1>0, <1>2, Pieces
  <2>2. Stretch(first, EffectSteps, 4, 9) /\ Stretch(first, Z, 0, 2)
    <3> HIDE DEF first
    <3> QED
      BY <1>0, <2>1, WiderStretch
  <2> HIDE DEF first, Z
  <2>3. Stretch(first, A, 0, 3)
    BY <1>0, <2>1, <2>2, StretchConcat
  <2>4. Stretch(first, B, 0, 9)
    <3> HIDE DEF A
    <3> QED
      BY <1>0, <2>2, <2>3, StretchConcat
  <2>5. Stretch(first, C, 0, 10)
    <3> HIDE DEF B
    <3> QED
      BY <1>0, <2>1, <2>4, StretchConcat
  <2>6. Stretch(first, D, 0, 12)
    <3> HIDE DEF C
    <3> QED
      BY <1>0, <2>1, <2>5, StretchConcat
  <2>7. Stretch(first, E, 0, 13)
    <3> HIDE DEF D
    <3> QED
      BY <1>0, <2>1, <2>6, StretchConcat
  <2>8. /\ A \in Seq(StepName) /\ B \in Seq(StepName) /\ C \in Seq(StepName)
        /\ D \in Seq(StepName) /\ Z \in Seq(StepName)
        /\ CrashAt("b0", t) \in Seq(StepName) /\ CrashAt("b1", t) \in Seq(StepName)
        /\ CrashAt("b2", t) \in Seq(StepName)
        /\ PersistSteps \in Seq(StepName) /\ EffectSteps \in Seq(StepName)
    BY <2>1, <2>2, <2>3, <2>4, <2>5, <2>6 DEF Stretch
  <2>9. ASSUME NEW x
        PROVE  Has(E, x) <=>
                 \/ Has(Z, x) \/ Has(CrashAt("b0", t), x) \/ Has(EffectSteps, x)
                 \/ Has(CrashAt("b1", t), x) \/ Has(PersistSteps, x) \/ Has(CrashAt("b2", t), x)
    <3>1. Has(A, x) <=> Has(Z, x) \/ Has(CrashAt("b0", t), x)
      BY <2>8, HasConcat
    <3>2. Has(B, x) <=> Has(A, x) \/ Has(EffectSteps, x)
      <4> HIDE DEF A
      <4> QED
        BY <2>8, HasConcat
    <3>3. Has(C, x) <=> Has(B, x) \/ Has(CrashAt("b1", t), x)
      <4> HIDE DEF B
      <4> QED
        BY <2>8, HasConcat
    <3>4. Has(D, x) <=> Has(C, x) \/ Has(PersistSteps, x)
      <4> HIDE DEF C
      <4> QED
        BY <2>8, HasConcat
    <3>5. Has(E, x) <=> Has(D, x) \/ Has(CrashAt("b2", t), x)
      <4> HIDE DEF D
      <4> QED
        BY <2>8, HasConcat
    <3>6. QED
      BY <3>1, <3>2, <3>3, <3>4, <3>5
  <2>10. \A x : Has(Z, x) <=> TwoPhase(t) /\ x \in {"open_identity", "write_identity"}
    BY PieceSteps DEF Z
  <2>11. \A x : Has(E, x) <=> x \in CrashSteps(t)
    BY <1>0, <2>9, <2>10, PieceSteps DEF CrashSteps, CommonSteps, Barrier
  <2>12. E = CrashRun(t)
    BY <1>2 DEF CrashRun, first, Z
  <2> HIDE DEF E
  <2>13. EndOf(first, E, CrashSteps(t)) /\ \A x \in CrashSteps(t) : Has(E, x)
    BY <1>0, <2>7, <2>11, WholeProgram
  <2>14. QED
    BY <2>12, <2>13 DEF first
<1>3. QED
  BY <1>1, <1>2

LEMMA WholeRecoveryRun ==
  EndOf(FALSE, RecoveryRun, RecoverySteps) /\ \A x \in RecoverySteps : Has(RecoveryRun, x)
<1> DEFINE first == FALSE
           A == <<"check">>
           B == A \o EffectSteps
           C == B \o PersistSteps
<1>0. first \in BOOLEAN
  OBVIOUS
<1>1. /\ Stretch(first, A, 0, 0) /\ Stretch(first, EffectSteps, 7, 9)
      /\ Stretch(first, PersistSteps, 11, 12)
  BY Pieces
<1> HIDE DEF first
<1>2. /\ Stretch(first, EffectSteps, 1, 9) /\ Stretch(first, PersistSteps, 10, 12)
  BY <1>0, <1>1, WiderStretch
<1>3. Stretch(first, B, 0, 9)
  <2> HIDE DEF A
  <2> QED
    BY <1>0, <1>1, <1>2, StretchConcat
<1>4. Stretch(first, C, 0, 12)
  <2> HIDE DEF B
  <2> QED
    BY <1>0, <1>2, <1>3, StretchConcat
<1>5. /\ A \in Seq(StepName) /\ B \in Seq(StepName)
      /\ PersistSteps \in Seq(StepName) /\ EffectSteps \in Seq(StepName)
  BY <1>1, <1>3 DEF Stretch
<1>6. ASSUME NEW x PROVE Has(C, x) <=> x \in RecoverySteps
  <2>1. Has(B, x) <=> Has(A, x) \/ Has(EffectSteps, x)
    <3> HIDE DEF A
    <3> QED
      BY <1>5, HasConcat
  <2>2. Has(C, x) <=> Has(B, x) \/ Has(PersistSteps, x)
    <3> HIDE DEF B
    <3> QED
      BY <1>5, HasConcat
  <2>3. QED
    BY <2>1, <2>2, PieceSteps DEF RecoverySteps, CommonSteps
<1>7. C = RecoveryRun
  BY DEF RecoveryRun
<1> HIDE DEF C
<1>8. QED
  BY <1>0, <1>4, <1>6, <1>7, WholeProgram DEF first

LEMMA RankTable ==
  ASSUME NEW first \in BOOLEAN
  PROVE  /\ Rank(first, "check") = 0 /\ Rank(first, "open_identity") = 1
         /\ Rank(first, "write_identity") = 2 /\ Rank(first, "b0") = 3
         /\ Rank(first, "identity") = 7 /\ Rank(first, "send") = 8
         /\ Rank(first, "await") = 9 /\ Rank(first, "b2") = 13
         /\ Rank(first, "b1") = IF first THEN 6 ELSE 10
         /\ Rank(first, "open_marker") = IF first THEN 4 ELSE 11
         /\ Rank(first, "write_marker") = IF first THEN 5 ELSE 12
BY DEF Rank

-----------------------------------------------------------------------------
(***************************************************************************)
(* What an undisturbed process has done is what it has no longer to do.    *)
(***************************************************************************)
MarkerFirst == harness = "crash_run" /\ PersistThenEffect(trial)
Steps == IF harness = "crash_run" THEN CrashSteps(trial) ELSE RecoverySteps

\* The recovery found the completion.
Skipping == /\ harness = "recovery_run" /\ Durable(trial)
            /\ disk.marker # "absent" /\ request = 0

OnProgram ==
  /\ EndOf(MarkerFirst, todo, Steps)
  /\ Has(todo, "send") <=> request = 0
  /\ ~ Has(todo, "await") => AbstractRan
  /\ ~ Has(todo, "open_marker") => disk.marker # "absent"
  /\ Has(todo, "open_marker")
       /\ (harness = "recovery_run" => Durable(trial) /\ ~ Has(todo, "check"))
         => disk.marker = "absent"
  /\ TwoPhase(trial) => Has(todo, "write_identity") \/ disk.identity = "written"

WireOK == \A r \in wire : exit = "running" /\ r.id = request /\ Has(todo, "await")

ProcessOK ==
  /\ exit = "running" => (todo = << >> /\ Skipping) \/ OnProgram
  /\ harness = "crash_run" /\ exit = "killed" /\ TwoPhase(trial) => disk.identity = "written"
  /\ harness = "recovery_run" /\ exit = "zero" =>
       disk.marker # "absent" /\ (AbstractRan \/ Skipping)
  /\ WireOK

LEMMA StepsTyped ==
  ASSUME TrialTyped
  PROVE  /\ Steps \in SUBSET StepName /\ MarkerFirst \in BOOLEAN
         /\ CommonSteps \subseteq Steps
         /\ harness = "crash_run" => trial.barrier \in Steps /\ trial.barrier \in Barrier
         /\ TwoPhase(trial) \in BOOLEAN
<1>1. trial \in Trials
  BY DEF TrialTyped, TrialTypeOK, HarnessTypeOK
<1>2. QED
  BY <1>1, RowKinds
     DEF Steps, MarkerFirst, CrashSteps, RecoverySteps, CommonSteps, StepName, Barrier

\* A process about to take any step but await has no request out.
LEMMA NothingOut ==
  ASSUME TrialTyped, RequestsOK, ProcessOK, exit = "running",
         todo = << >> \/ Head(todo) # "await"
  PROVE  wire = {}
<1> SUFFICES ASSUME NEW r \in wire PROVE FALSE
  OBVIOUS
<1>1. r.id = request /\ Has(todo, "await") /\ request # 0
  BY DEF ProcessOK, WireOK, RequestsOK, Issued, Request, RequestId
<1>2. todo # << >>
  BY <1>1 DEF Has
<1>3. OnProgram /\ ~ Has(todo, "send")
  BY <1>1, <1>2 DEF ProcessOK, OnProgram
<1>4. Steps \in SUBSET StepName /\ MarkerFirst \in BOOLEAN /\ {"send", "await"} \subseteq Steps
  BY StepsTyped DEF CommonSteps
<1>5. /\ Head(todo) \in Steps
      /\ Has(todo, "send") <=> Rank(MarkerFirst, Head(todo)) <= 8
      /\ Has(todo, "await") <=> Rank(MarkerFirst, Head(todo)) <= 9
  BY <1>2, <1>3, <1>4, Position, RankTable DEF OnProgram
<1>6. Rank(MarkerFirst, Head(todo)) = 9
  BY <1>1, <1>3, <1>4, <1>5, RankNat
<1>7. \A first \in BOOLEAN, x \in StepName : Rank(first, x) = 9 => x = "await"
  BY DEF Rank, StepName, Barrier
<1>8. QED
  BY <1>2, <1>4, <1>5, <1>6, <1>7

\* What the next step says of what is left after it.
LEMMA NextStep ==
  ASSUME TrialTyped, OnProgram, todo # << >>
  PROVE  /\ Head(todo) \in Steps /\ EndOf(MarkerFirst, Tail(todo), Steps)
         /\ \A y \in Steps :
              /\ Has(todo, y) <=> Rank(MarkerFirst, Head(todo)) <= Rank(MarkerFirst, y)
              /\ Has(Tail(todo), y) <=> Rank(MarkerFirst, Head(todo)) < Rank(MarkerFirst, y)
         /\ \A y : y \notin Steps => ~ Has(todo, y) /\ ~ Has(Tail(todo), y)
<1>1. Steps \in SUBSET StepName /\ MarkerFirst \in BOOLEAN
  BY StepsTyped
<1>2. EndOf(MarkerFirst, todo, Steps)
  BY DEF OnProgram
<1>3. EndOf(MarkerFirst, Tail(todo), Steps)
  BY <1>1, <1>2, Position
<1>4. \A y : y \notin Steps => ~ Has(todo, y) /\ ~ Has(Tail(todo), y)
  BY <1>2, <1>3 DEF EndOf, Has
<1>5. QED
  BY <1>1, <1>2, <1>3, <1>4, Position


\* The same, as the table of what is left before a step and after it.
LEMMA LeftAround ==
  ASSUME TrialTyped, OnProgram, todo # << >>
  PROVE  LET f == MarkerFirst
             r == Rank(f, Head(todo)) IN
         /\ f \in BOOLEAN /\ r \in Nat
         /\ Has(todo, "identity") <=> r <= 7
         /\ Has(todo, "send") <=> r <= 8
         /\ Has(todo, "await") <=> r <= 9
         /\ Has(todo, "open_marker") <=> r <= (IF f THEN 4 ELSE 11)
         /\ Has(todo, "write_marker") <=> r <= (IF f THEN 5 ELSE 12)
         /\ Has(Tail(todo), "identity") <=> r < 7
         /\ Has(Tail(todo), "send") <=> r < 8
         /\ Has(Tail(todo), "await") <=> r < 9
         /\ Has(Tail(todo), "open_marker") <=> r < (IF f THEN 4 ELSE 11)
         /\ Has(Tail(todo), "write_marker") <=> r < (IF f THEN 5 ELSE 12)
         /\ "write_identity" \in Steps =>
              /\ Has(todo, "write_identity") <=> r <= 2
              /\ Has(Tail(todo), "write_identity") <=> r < 2
         /\ "write_identity" \notin Steps =>
              ~ Has(todo, "write_identity") /\ ~ Has(Tail(todo), "write_identity")
         /\ "check" \in Steps =>
              /\ Has(todo, "check") <=> r <= 0
              /\ ~ Has(Tail(todo), "check")
         /\ "check" \in Steps <=> harness # "crash_run"
<1>1. /\ MarkerFirst \in BOOLEAN /\ CommonSteps \subseteq Steps /\ Steps \in SUBSET StepName
      /\ harness = "crash_run" => trial.barrier \in Barrier
  BY StepsTyped
<1>2. Head(todo) \in StepName /\ Rank(MarkerFirst, Head(todo)) \in Nat
  BY <1>1, NextStep, RankNat
<1>3. "check" \in Steps <=> harness # "crash_run"
  BY <1>1 DEF Steps, CrashSteps, RecoverySteps, CommonSteps, Barrier
<1>4. QED
  BY <1>1, <1>2, <1>3, NextStep, RankTable DEF CommonSteps

LEMMA CheckGoesOn ==
  ASSUME TrialTyped, OnProgram, harness = "recovery_run", todo # << >>,
         Head(todo) = "check", todo' = Tail(todo), ~ (Durable(trial) /\ disk.marker # "absent"),
         UNCHANGED <<trial, harness, request, answers, disk>>
  PROVE  OnProgram'
<1>1. /\ MarkerFirst' = MarkerFirst /\ Steps' = Steps /\ AbstractRan' = AbstractRan
  BY DEF MarkerFirst, Steps, AbstractRan
<1>2. Rank(MarkerFirst, "check") = 0
  BY DEF Rank
<1>3. QED
  BY <1>1, <1>2, LeftAround, NextStep DEF OnProgram, MarkerFirst

\* The identity of a two-phase step is always there to be read.
LEMMA IdentityRead ==
  ASSUME TrialTyped, OnProgram, ReadIdentity
  PROVE  OnProgram' /\ todo' = Tail(todo)
<1>1. /\ todo # << >> /\ Head(todo) = "identity"
      /\ UNCHANGED <<trial, harness, request, answers, disk>>
  BY DEF ReadIdentity, Running, harnessVars, daemonVars
<1>2. /\ MarkerFirst' = MarkerFirst /\ Steps' = Steps /\ AbstractRan' = AbstractRan
  BY <1>1 DEF MarkerFirst, Steps, AbstractRan
<1>3. Rank(MarkerFirst, "identity") = 7
  BY DEF Rank
<1>4. ~ Has(todo, "write_identity")
  BY <1>1, <1>3, LeftAround
<1>5. todo' = << >> \o Tail(todo)
  BY <1>4 DEF ReadIdentity, OnProgram
<1>6. todo' = Tail(todo)
  <2>1. Tail(todo) \in Seq(StepName)
    BY <1>1, NextStep DEF EndOf
  <2>2. QED
    BY <1>5, <2>1
<1>7. QED
  BY <1>1, <1>2, <1>3, <1>6, LeftAround, NextStep DEF OnProgram, MarkerFirst

LEMMA FileWritten ==
  ASSUME TrialTyped, OnProgram, WriteFile
  PROVE  OnProgram'
<1>1. /\ todo # << >> /\ todo' = Tail(todo)
      /\ UNCHANGED <<trial, harness, request, answers>>
  BY DEF WriteFile, Running, Persists, Advance, harnessVars, daemonVars
<1>2. /\ MarkerFirst' = MarkerFirst /\ Steps' = Steps /\ AbstractRan' = AbstractRan
  BY <1>1 DEF MarkerFirst, Steps, AbstractRan
<1>3. MarkerFirst \in BOOLEAN /\ (MarkerFirst => ~ TwoPhase(trial))
  BY StepsTyped, RowKinds DEF MarkerFirst, TrialTyped, TrialTypeOK, HarnessTypeOK
<1>4. disk = [disk EXCEPT !.marker = disk.marker] /\ DOMAIN disk = {"marker", "identity"}
  BY DEF TrialTyped, TrialTypeOK
<1>5. CASE Head(todo) = "open_marker" /\ disk' = [disk EXCEPT !.marker = "empty"]
  <2>1. disk'.marker = "empty" /\ disk'.identity = disk.identity
    BY <1>4, <1>5
  <2>2. Rank(MarkerFirst, "open_marker") = IF MarkerFirst THEN 4 ELSE 11
    BY <1>3, RankTable
  <2>3. QED
    BY <1>1, <1>2, <1>3, <1>5, <2>1, <2>2, LeftAround, NextStep DEF OnProgram
<1>6. CASE Head(todo) = "write_marker" /\ disk' = [disk EXCEPT !.marker = "written"]
  <2>1. disk'.marker = "written" /\ disk'.identity = disk.identity
    BY <1>4, <1>6
  <2>2. Rank(MarkerFirst, "write_marker") = IF MarkerFirst THEN 5 ELSE 12
    BY <1>3, RankTable
  <2>3. QED
    BY <1>1, <1>2, <1>3, <1>6, <2>1, <2>2, LeftAround, NextStep DEF OnProgram
<1>7. CASE Head(todo) = "open_identity" /\ disk' = [disk EXCEPT !.identity = "empty"]
  <2>1. disk'.marker = disk.marker /\ disk'.identity = "empty"
    BY <1>4, <1>7
  <2>2. Rank(MarkerFirst, "open_identity") = 1
    BY <1>3, RankTable
  <2>3. "open_identity" \in Steps
    BY <1>1, <1>7, NextStep
  <2>4. "write_identity" \in Steps /\ harness = "crash_run" /\ TwoPhase(trial)
    BY <2>3, StepsTyped DEF Steps, CrashSteps, RecoverySteps, CommonSteps, Barrier
  <2>5. QED
    BY <1>1, <1>2, <1>3, <1>7, <2>1, <2>2, <2>4, LeftAround, NextStep DEF OnProgram
<1>8. CASE Head(todo) = "write_identity" /\ disk' = [disk EXCEPT !.identity = "written"]
  <2>1. disk'.marker = disk.marker /\ disk'.identity = "written"
    BY <1>4, <1>8
  <2>2. Rank(MarkerFirst, "write_identity") = 2
    BY <1>3, RankTable
  <2>3. "write_identity" \in Steps
    BY <1>1, <1>8, NextStep
  <2>4. harness = "crash_run" /\ TwoPhase(trial)
    BY <2>3, StepsTyped DEF Steps, CrashSteps, RecoverySteps, CommonSteps, Barrier
  <2>5. QED
    BY <1>1, <1>2, <1>3, <1>8, <2>1, <2>2, <2>4, LeftAround, NextStep DEF OnProgram
<1>9. QED
  BY <1>5, <1>6, <1>7, <1>8 DEF WriteFile, Running, Persists

LEMMA EffectSent ==
  ASSUME TrialTyped, RequestsOK, OnProgram, DrawnEffect
  PROVE  OnProgram' /\ Has(todo', "await") /\ request' = sent + 1
<1>1. /\ todo # << >> /\ Head(todo) = "send" /\ todo' = Tail(todo) /\ request' = sent + 1
      /\ UNCHANGED <<trial, harness, answers, disk>>
  BY SendRequest DEF Running
<1>2. MarkerFirst' = MarkerFirst /\ Steps' = Steps
  BY <1>1 DEF MarkerFirst, Steps
<1>3. request' # 0
  BY <1>1, DaemonAssumption DEF TrialTyped, TrialTypeOK, HarnessTypeOK, DaemonTypeOK
<1>4. Rank(MarkerFirst, "send") = 8
  BY DEF Rank
<1>5. QED
  BY <1>1, <1>2, <1>3, <1>4, LeftAround, NextStep DEF OnProgram, MarkerFirst

LEMMA ReplyReceived ==
  ASSUME TrialTyped, OnProgram, ReceiveReply
  PROVE  OnProgram' /\ AbstractRan
<1>1. /\ todo # << >> /\ Head(todo) = "await" /\ todo' = Tail(todo)
      /\ UNCHANGED <<trial, harness, request, answers, disk>>
      /\ \E a \in answers : a.req.id = request
  BY DEF ReceiveReply, Running, Advance, harnessVars, daemonVars
<1>2. /\ MarkerFirst' = MarkerFirst /\ Steps' = Steps /\ AbstractRan' = AbstractRan
  BY <1>1 DEF MarkerFirst, Steps, AbstractRan
<1>3. Rank(MarkerFirst, "await") = 9
  BY DEF Rank
<1>4. request # 0
  BY <1>1, <1>3, LeftAround DEF OnProgram
<1>5. AbstractRan
  BY <1>1, <1>4 DEF AbstractRan
<1>6. QED
  BY <1>1, <1>2, <1>3, <1>5, LeftAround, NextStep DEF OnProgram, MarkerFirst

\* Where a barrier stands: the lifecycle's three phases.
LEMMA BarrierReached ==
  ASSUME TrialTyped, ProcessOK, KillSelf(TRUE)
  PROVE  /\ OnProgram /\ harness = "crash_run" /\ exit = "running"
         /\ trial.barrier = "b0" => request = 0 /\ disk.marker = "absent"
         /\ trial.barrier = "b1" =>
              IF PersistThenEffect(trial) THEN request = 0 /\ disk.marker # "absent"
              ELSE AbstractRan /\ disk.marker = "absent"
         /\ trial.barrier = "b2" => AbstractRan /\ disk.marker # "absent"
         /\ TwoPhase(trial) => disk.identity = "written"
<1>1. todo # << >> /\ Head(todo) = trial.barrier /\ exit = "running"
  BY DEF KillSelf, Running
<1>2. OnProgram
  BY <1>1 DEF ProcessOK
<1>3. trial.barrier \in Steps /\ trial.barrier \in Barrier
  BY <1>1, <1>2, NextStep, RowKinds DEF TrialTyped, TrialTypeOK, HarnessTypeOK
<1>4. harness = "crash_run"
  BY <1>3 DEF Steps, RecoverySteps, CommonSteps, Barrier
<1>5. /\ MarkerFirst \in BOOLEAN /\ MarkerFirst = PersistThenEffect(trial)
  BY <1>4, StepsTyped, RowKinds DEF MarkerFirst, TrialTyped, TrialTypeOK, HarnessTypeOK
<1>6. /\ Rank(MarkerFirst, "b0") = 3 /\ Rank(MarkerFirst, "b2") = 13
      /\ Rank(MarkerFirst, "b1") = IF MarkerFirst THEN 6 ELSE 10
  BY <1>5, RankTable
<1>7. trial.barrier \in {"b0", "b1", "b2"}
  BY <1>3 DEF Barrier
<1>8. QED
  BY <1>1, <1>2, <1>4, <1>5, <1>6, <1>7, LeftAround DEF OnProgram

\* Requests are handled under the process that sent them.
LEMMA ProcessStep ==
  Orderly /\ TrialSafe /\ ProgressOK /\ ProcessOK /\ [TrialNext]_allVars => ProcessOK'
<1> SUFFICES ASSUME Orderly, TrialSafe, ProgressOK, ProcessOK, [TrialNext]_allVars
             PROVE  ProcessOK'
  OBVIOUS
<1> USE DEF TrialSafe
<1>1. CASE KillSelf(TRUE)
  <2>1. /\ OnProgram /\ todo # << >> /\ Head(todo) = trial.barrier /\ harness = "crash_run"
        /\ TwoPhase(trial) => disk.identity = "written"
        /\ exit' = "killed" /\ UNCHANGED <<trial, harness, disk, wire>>
    BY <1>1, BarrierReached DEF KillSelf, Running, ExitWith, harnessVars, daemonVars
  <2>2. Head(todo) # "await" /\ exit = "running"
    BY <1>1, <2>1, StepsTyped DEF KillSelf, Running, Barrier
  <2>3. wire = {}
    BY <2>2, NothingOut
  <2>4. TwoPhase(trial)' = TwoPhase(trial)
    BY <2>1
  <2>5. QED
    BY <2>1, <2>3, <2>4 DEF ProcessOK, WireOK
<1>2. CASE Return
  <2>1. /\ exit = "running" /\ todo = << >> /\ exit' = "zero"
        /\ UNCHANGED <<trial, harness, disk, wire, answers, request>>
    BY <1>2 DEF Return, ExitWith, harnessVars, daemonVars
  <2>2. wire = {}
    BY <2>1, NothingOut
  <2>3. AbstractRan' = AbstractRan /\ Skipping' = Skipping
    BY <2>1 DEF AbstractRan, Skipping
  <2>4. \A x : ~ Has(todo, x)
    BY <2>1 DEF Has
  <2>5. harness = "recovery_run" => disk.marker # "absent" /\ (AbstractRan \/ Skipping)
    BY <2>1, <2>4 DEF ProcessOK, OnProgram, Skipping
  <2>6. QED
    BY <2>1, <2>2, <2>3, <2>5 DEF ProcessOK, WireOK
<1>3. CASE CheckMarker
  <2>1. /\ exit = "running" /\ todo # << >> /\ Head(todo) = "check" /\ exit' = exit
        /\ UNCHANGED <<trial, harness, disk, wire, answers, request>>
        /\ todo' = IF Durable(trial) /\ disk.marker # "absent" THEN << >> ELSE Tail(todo)
    BY <1>3 DEF CheckMarker, Running, harnessVars, daemonVars
  <2>2. OnProgram /\ wire = {}
    BY <2>1, NothingOut DEF ProcessOK
  <2>3. harness = "recovery_run"
    <3>1. harness \in {"crash_run", "recovery_run"} /\ "check" \in Steps
      BY <2>1, <2>2, NextStep DEF TrialTyped, PhaseOK
    <3>2. QED
      BY <2>1, <2>2, <3>1, LeftAround
  <2>4. request = 0
    <3>1. Rank(MarkerFirst, "check") = 0
      BY DEF Rank
    <3>2. QED
      BY <2>1, <2>2, <3>1, LeftAround DEF OnProgram
  <2>5. CASE Durable(trial) /\ disk.marker # "absent"
    <3>1. todo' = << >> /\ Skipping'
      BY <2>1, <2>3, <2>4, <2>5 DEF Skipping
    <3>2. QED
      BY <2>1, <2>2, <3>1 DEF ProcessOK, WireOK
  <2>6. CASE ~ (Durable(trial) /\ disk.marker # "absent")
    <3>1. OnProgram'
      BY <2>1, <2>2, <2>3, <2>6, CheckGoesOn
    <3>2. QED
      BY <2>1, <2>2, <3>1 DEF ProcessOK, WireOK
  <2>7. QED
    BY <2>5, <2>6
<1>4. CASE WriteFile \/ ReadIdentity
  <2>1. exit = "running" /\ todo # << >> /\ Head(todo) # "await" /\ exit' = exit /\ wire' = wire
    BY <1>4 DEF WriteFile, ReadIdentity, Persists, Running, daemonVars
  <2>2. OnProgram /\ wire = {}
    BY <2>1, NothingOut DEF ProcessOK
  <2>3. OnProgram'
    BY <1>4, <2>2, FileWritten, IdentityRead
  <2>4. QED
    BY <2>1, <2>2, <2>3 DEF ProcessOK, WireOK
<1>5. CASE DrawnEffect
  <2>1. exit = "running" /\ todo # << >> /\ Head(todo) = "send" /\ exit' = exit
    BY <1>5, SendRequest DEF Running
  <2>2. OnProgram /\ wire = {}
    BY <2>1, NothingOut DEF ProcessOK
  <2>3. OnProgram' /\ Has(todo', "await") /\ request' = sent + 1
    BY <1>5, <2>2, EffectSent
  <2>4. PICK r \in Request : r.id = sent + 1 /\ wire' = wire \cup {r}
    BY <1>5, SendRequest
  <2>5. QED
    BY <2>1, <2>2, <2>3, <2>4 DEF ProcessOK, WireOK
<1>6. CASE ReceiveReply
  <2>1. /\ exit = "running" /\ todo # << >> /\ exit' = exit /\ wire' = wire
        /\ \E a \in answers : a.req.id = request
    BY <1>6 DEF ReceiveReply, Running, daemonVars
  <2>2. OnProgram'
    BY <1>6, <2>1, ReplyReceived DEF ProcessOK
  <2>3. wire = {}
    <3> SUFFICES ASSUME NEW r \in wire PROVE FALSE
      OBVIOUS
    <3>1. PICK a \in answers : a.req.id = request
      BY <2>1
    <3>2. r \in Issued /\ a.req \in Issued /\ r.id = request
      BY DEF Issued, ProcessOK, WireOK
    <3>3. QED
      BY <3>1, <3>2 DEF RequestsOK
  <2>4. QED
    BY <2>1, <2>2, <2>3 DEF ProcessOK, WireOK
<1>7. ASSUME NEW t \in Trials, StartTrial(t, NoFiles(t), CrashRun(t)) PROVE ProcessOK'
  <2>1. /\ trial' = t /\ harness' = "crash_run" /\ exit' = "running" /\ todo' = CrashRun(t)
        /\ disk'.marker = "absent" /\ request' = 0 /\ wire' = wire
        /\ harness \in {"idle", "classified"}
    BY <1>7 DEF StartTrial, Spawn, NoFiles, HandleReset
  <2>2. wire = {}
    BY <2>1 DEF ProcessOK, WireOK, TrialTyped, PhaseOK
  <2>3. Steps' = CrashSteps(t) /\ MarkerFirst' = PersistThenEffect(t)
    BY <2>1, RowKinds DEF Steps, MarkerFirst
  <2>4. /\ EndOf(PersistThenEffect(t), CrashRun(t), CrashSteps(t))
        /\ \A x \in CrashSteps(t) : Has(CrashRun(t), x)
    BY WholeCrashRun
  <2>5. /\ {"send", "await", "open_marker"} \subseteq CrashSteps(t)
        /\ TwoPhase(t) => "write_identity" \in CrashSteps(t)
    BY DEF CrashSteps, CommonSteps
  <2>6. OnProgram'
    BY <2>1, <2>3, <2>4, <2>5 DEF OnProgram
  <2>7. QED
    BY <2>1, <2>2, <2>6 DEF ProcessOK, WireOK
<1>8. CASE CrashRunEnds(RecoveryRun)
  <2>1. /\ harness = "crash_run" /\ exit = "killed" /\ harness' = "recovery_run"
        /\ exit' = "running" /\ todo' = RecoveryRun /\ request' = 0
        /\ UNCHANGED <<trial, disk, wire>>
    BY <1>8 DEF CrashRunEnds, Expected, Spawn, daemonVars
  <2>2. wire = {}
    BY <2>1 DEF ProcessOK, WireOK
  <2>3. Steps' = RecoverySteps /\ MarkerFirst' = FALSE
    BY <2>1 DEF Steps, MarkerFirst
  <2>4. {"send", "await", "open_marker", "check"} \subseteq RecoverySteps
    BY DEF RecoverySteps, CommonSteps
  <2>5. TwoPhase(trial) => disk.identity = "written"
    BY <2>1 DEF ProcessOK
  <2>6. OnProgram'
    BY <2>1, <2>3, <2>4, <2>5, WholeRecoveryRun DEF OnProgram
  <2>7. QED
    BY <2>1, <2>2, <2>6 DEF ProcessOK, WireOK
<1>9. CASE Daemon
  <2>1. UNCHANGED <<trial, harness, exit, todo, request, disk>>
    BY <1>9 DEF Daemon, trialVars
  <2>2. wire' \subseteq wire /\ answers \subseteq answers'
    BY <1>9, DaemonMoves DEF Daemon
  <2>3. AbstractRan => AbstractRan'
    BY <2>1, <2>2 DEF AbstractRan
  <2>4. OnProgram => OnProgram'
    BY <2>1, <2>3 DEF OnProgram, MarkerFirst, Steps
  <2>5. Skipping' = Skipping
    BY <2>1 DEF Skipping
  <2>6. QED
    BY <2>1, <2>2, <2>3, <2>4, <2>5 DEF ProcessOK, WireOK
<1>10. CASE /\ harness' \notin {"crash_run", "recovery_run"} /\ exit # "running"
            /\ UNCHANGED <<exit, wire>>
  BY <1>10 DEF ProcessOK, WireOK
<1>11. CASE UNCHANGED allVars
  <2>1. /\ OnProgram' = OnProgram /\ Skipping' = Skipping /\ AbstractRan' = AbstractRan
        /\ UNCHANGED <<trial, harness, exit, todo, request, disk, wire>>
    BY <1>11 DEF allVars, trialVars, daemonVars, OnProgram, Skipping, AbstractRan, MarkerFirst,
                 Steps
  <2>2. QED
    BY <2>1 DEF ProcessOK, WireOK
<1>12. CASE RecoveryRunEnds \/ TrialFails \/ SealLedger \/ ReadDump
            \/ ClassifyTrial(Classify(Intent, dump, store))
  BY <1>10, <1>12
     DEF RecoveryRunEnds, TrialFails, SealLedger, HandleSeal, ReadDump, ClassifyTrial, Expected,
         TrialTyped, PhaseOK, processVars, daemonVars
<1>13. QED
  BY <1>1, <1>2, <1>3, <1>4, <1>5, <1>6, <1>7, <1>8, <1>9, <1>11, <1>12
     DEF TrialNext, Process, Harness, HarnessGoesOn, SamplerFails, StrayKill, Timeout, Orderly

-----------------------------------------------------------------------------
(***************************************************************************)
(* What crosses: the key that the row's mode derives, and a payload not    *)
(* drawn before.                                                           *)
(***************************************************************************)
RowKey(t, p) == CASE TwoPhase(t) -> PreparedKey
                  [] ~ TwoPhase(t) /\ Idempotent(t) -> ContentKey(p)
                  [] ~ Idempotent(t) -> NoKey
RowDraw(t, p) == IF Nondeterministic(t) THEN p \in Memos ELSE p = NoMemo

OwnEffect(key, digest) ==
  /\ key = RowKey(trial, digest) /\ RowDraw(trial, digest)
  /\ Nondeterministic(trial) => digest \in drawn

ContentOK ==
  /\ \A r \in wire :
       /\ OwnEffect(r.key, r.payload)
       /\ Nondeterministic(trial) =>
            \A n \in 1 .. Len(effect_digests[SharedIntent]) :
              effect_digests[SharedIntent][n] # r.payload
  /\ \A n \in 1 .. Len(effect_keys[SharedIntent]) :
       OwnEffect(effect_keys[SharedIntent][n], effect_digests[SharedIntent][n])
  /\ \A a \in answers : a.req.epoch = a.epoch

LEMMA KindsOf ==
  ASSUME NEW t \in Trials
  PROVE  /\ Nondeterministic(t) \in BOOLEAN /\ Idempotent(t) \in BOOLEAN
         /\ TwoPhase(t) => Idempotent(t) /\ Nondeterministic(t)
         /\ ~ Durable(t) => ~ Idempotent(t) /\ ~ Nondeterministic(t)
BY ControlRow DEF ControlRows, Row, Nondeterministic, Idempotent, TwoPhase, Durable

\* The effect a process sends is its row's, and no crossing of the trial has its
\* payload unless all have.
LEMMA EffectDrawn ==
  ASSUME Orderly, TrialSafe, ProcessOK, ContentOK, DrawnEffect
  PROVE  ContentOK'
<1> USE DEF TrialSafe
<1> DEFINE D == effect_digests[SharedIntent]
           K == effect_keys[SharedIntent]
<1>1. PICK memo \in Draws : SendEffect(memo, EffectKeyOf(memo))
  BY DEF DrawnEffect
<1>0. PICK r : r = [id |-> sent + 1, op |-> "execute", intent |-> Intent,
                    key |-> EffectKeyOf(memo), payload |-> memo, epoch |-> epoch]
  OBVIOUS
<1>2. /\ exit = "running" /\ todo # << >> /\ Head(todo) = "send"
      /\ wire' = wire \cup {r} /\ drawn' = (drawn \cup {memo}) \ {NoMemo}
      /\ UNCHANGED <<trial, effect_keys, effect_digests, answers>>
  BY <1>0, <1>1 DEF SendEffect, SendPayload, SendExecute, Send, Running, harnessVars, ledgerVars
<1>3. r.key = EffectKeyOf(memo) /\ r.payload = memo
  BY <1>0
<1>4. OnProgram /\ wire = {}
  BY <1>2, NothingOut DEF ProcessOK
<1>5. TwoPhase(trial) => disk.identity = "written"
  <2>1. Rank(MarkerFirst, "send") = 8
    BY DEF Rank
  <2>2. ~ Has(todo, "write_identity")
    BY <1>2, <1>4, <2>1, LeftAround
  <2>3. QED
    BY <1>4, <2>2 DEF OnProgram
<1>6. /\ drawn \subseteq Memos /\ NoMemo \notin Memos /\ trial \in Trials
      /\ Nondeterministic(trial) \in BOOLEAN
  BY TrialAssumption, KindsOf DEF TrialTyped, TrialTypeOK, HarnessTypeOK
<1>7. /\ RowDraw(trial, memo)
      /\ Nondeterministic(trial) => memo \in Memos /\ memo \notin drawn
  BY <1>6 DEF Draws, RowDraw, Orderly
<1>8. EffectKeyOf(memo) = RowKey(trial, memo)
  BY <1>5 DEF EffectKeyOf, RowKey
<1>9. drawn \subseteq drawn' /\ (Nondeterministic(trial) => memo \in drawn')
  BY <1>2, <1>6, <1>7
<1>10. Len(K) = Len(D)
  BY TrialAssumption DEF CrossingsAgree
<1>11. \A n \in 1 .. Len(K) : OwnEffect(K[n], D[n])
  BY DEF ContentOK
<1>12. Nondeterministic(trial) => \A n \in 1 .. Len(D) : D[n] # memo
  BY <1>7, <1>10, <1>11 DEF OwnEffect
<1>13. \A n \in 1 .. Len(K') : OwnEffect(K[n], D[n])'
  BY <1>2, <1>9, <1>11 DEF OwnEffect
<1>14. OwnEffect(r.key, r.payload)'
  BY <1>2, <1>3, <1>7, <1>8, <1>9 DEF OwnEffect
<1>15. wire' = {r} /\ D' = D
  BY <1>2, <1>4
<1>16. QED
  BY <1>2, <1>3, <1>12, <1>13, <1>14, <1>15 DEF ContentOK

\* Handled, it crosses or is deduped.
LEMMA EffectHandled ==
  ASSUME TrialSafe, ProcessOK, NEW req \in wire, Handle(req), UNCHANGED trialVars
  PROVE  /\ CountEffect(SharedIntent, req.key, req.payload)
         /\ req.id = request /\ req.epoch = epoch /\ wire' = {}
         /\ exit = "running" /\ Has(todo, "await")
         /\ harness \in {"crash_run", "recovery_run"}
         /\ \E status : answers' = answers \cup {[req |-> req, status |-> status, epoch |-> epoch]}
<1> USE DEF TrialSafe
<1>1. /\ req.id = request /\ exit = "running" /\ Has(todo, "await")
      /\ \A r \in wire : r.id = request
  BY DEF ProcessOK, WireOK
<1>2. harness \in {"crash_run", "recovery_run"} /\ ~ sealed
  BY <1>1 DEF TrialTyped, PhaseOK
<1>3. \A r \in wire : r = req
  BY <1>1 DEF RequestsOK, Issued
<1>4. wire' = {} /\ req \in Issued
  BY <1>3, DaemonMoves
<1>5. req.epoch = epoch
  BY <1>1, <1>4 DEF RequestsOK
<1>6. QED
  BY <1>1, <1>2, <1>4, <1>5, ExecutedMade

LEMMA ContentStep ==
  Orderly /\ TrialSafe /\ ProcessOK /\ ContentOK /\ [TrialNext]_allVars => ContentOK'
<1> SUFFICES ASSUME Orderly, TrialSafe, ProcessOK, ContentOK, [TrialNext]_allVars
             PROVE  ContentOK'
  OBVIOUS
<1>1. CASE DrawnEffect
  BY <1>1, EffectDrawn
<1>2. CASE Daemon
  <2>1. PICK req \in wire : Handle(req)
    BY <1>2 DEF Daemon
  <2>2. UNCHANGED trialVars
    BY <1>2 DEF Daemon
  <2>3. /\ CountEffect(SharedIntent, req.key, req.payload) /\ req.epoch = epoch /\ wire' = {}
    BY <2>1, <2>2, EffectHandled
  <2>4. PICK status : answers' = answers \cup {[req |-> req, status |-> status, epoch |-> epoch]}
    BY <2>1, <2>2, EffectHandled
  <2>5. \A a \in answers' : a.req.epoch = a.epoch
    <3> DEFINE new == [req |-> req, status |-> status, epoch |-> epoch]
    <3>1. new.req = req /\ new.epoch = epoch
      OBVIOUS
    <3> HIDE DEF new
    <3>2. answers' = answers \cup {new}
      BY <2>4 DEF new
    <3>3. QED
      BY <2>3, <3>1, <3>2 DEF ContentOK
  <2>6. /\ SharedIntent \in Intents
        /\ effect_keys \in [Intents -> Seq(Keys \cup {NoKey})]
        /\ effect_digests \in [Intents -> Seq(Payloads)]
        /\ Len(effect_keys[SharedIntent]) = Len(effect_digests[SharedIntent])
        /\ req.key \in Keys \cup {NoKey} /\ req.payload \in Payloads
    BY <2>1, TrialAssumption
       DEF TrialSafe, TrialTyped, TrialTypeOK, HarnessTypeOK, DaemonTypeOK, LedgerTypeOK,
           CrossingsAgree, Request
  <2>7. ASSUME NEW n \in 1 .. Len(effect_keys'[SharedIntent])
        PROVE  OwnEffect(effect_keys'[SharedIntent][n], effect_digests'[SharedIntent][n])
    <3> DEFINE K == effect_keys[SharedIntent]
               D == effect_digests[SharedIntent]
    <3>1. CASE Deduped(SharedIntent, req.key)
      BY <2>3, <3>1 DEF CountEffect, ContentOK
    <3>2. CASE ~ Deduped(SharedIntent, req.key)
      <4>1. /\ effect_keys'[SharedIntent] = Append(K, req.key)
            /\ effect_digests'[SharedIntent] = Append(D, req.payload)
        BY <2>3, <2>6, <3>2 DEF CountEffect, Crossed
      <4>2. K \in Seq(Keys \cup {NoKey}) /\ D \in Seq(Payloads) /\ Len(K) = Len(D)
        BY <2>6
      <4>3. OwnEffect(req.key, req.payload) /\ \A m \in 1 .. Len(K) : OwnEffect(K[m], D[m])
        BY DEF ContentOK
      <4> HIDE DEF K, D
      <4>4. CASE n \in 1 .. Len(K)
        BY <2>6, <4>1, <4>2, <4>3, <4>4
      <4>5. CASE n = Len(K) + 1
        BY <2>6, <4>1, <4>2, <4>3, <4>5
      <4>6. Len(Append(K, req.key)) = Len(K) + 1 /\ Len(K) \in Nat
        BY <4>2
      <4>7. QED
        <5>1. n \in 1 .. Len(K) + 1
          BY <4>1, <4>6
        <5>2. QED
          BY <4>4, <4>5, <4>6, <5>1
    <3>3. QED
      BY <3>1, <3>2
  <2>8. UNCHANGED <<trial, drawn>>
    BY <2>2 DEF trialVars
  <2>9. \A n \in 1 .. Len(effect_keys'[SharedIntent]) :
          OwnEffect(effect_keys[SharedIntent][n], effect_digests[SharedIntent][n])'
    BY <2>7, <2>8 DEF OwnEffect
  <2>10. QED
    BY <2>3, <2>5, <2>9 DEF ContentOK
<1>3. ASSUME NEW t \in Trials, StartTrial(t, NoFiles(t), CrashRun(t)) PROVE ContentOK'
  <2>1. /\ wire' = wire /\ answers' = answers /\ effect_keys'[SharedIntent] = << >>
        /\ harness \in {"idle", "classified"}
    BY <1>3, TrialAssumption DEF StartTrial, HandleReset, NewState
  <2>2. wire = {}
    BY <2>1 DEF ProcessOK, WireOK, TrialSafe, TrialTyped, PhaseOK
  <2>3. QED
    BY <2>1, <2>2 DEF ContentOK
<1>4. CASE UNCHANGED <<trial, drawn, wire, answers, effect_keys, effect_digests>>
  BY <1>4 DEF ContentOK, OwnEffect
<1>5. QED
  BY <1>1, <1>2, <1>3, <1>4
     DEF TrialNext, Process, KillSelf, Return, CheckMarker, WriteFile, Persists, ReadIdentity,
         SamplerFails, Raise, ReceiveReply, StrayKill, Harness, Timeout, HarnessGoesOn,
         CrashRunEnds, RecoveryRunEnds, TrialFails, SealLedger, HandleSeal, ReadDump,
         ClassifyTrial, allVars, trialVars, daemonVars, ledgerVars, processVars, harnessVars

-----------------------------------------------------------------------------
(***************************************************************************)
(* Every step of an undisturbed trial is a step of the lifecycle, or none. *)
(***************************************************************************)
Quiet == TrialSafe /\ ProgressOK /\ VerdictOK /\ StoreOnChain /\ ProcessOK /\ ContentOK

Crossing(key, digest) == [key |-> AbstractKey(key, digest), payload |-> digest]

LEMMA CrossedHere ==
  ASSUME TrialSafe
  PROVE  /\ Intent = SharedIntent /\ trial \in Trials /\ SharedIntent \in Intents
         /\ AbstractCrossed =
              [n \in 1 .. Len(effect_keys[SharedIntent]) |->
                 Crossing(effect_keys[SharedIntent][n], effect_digests[SharedIntent][n])]
<1>1. Intent = SharedIntent /\ trial \in Trials /\ SharedIntent \in Intents
  BY ControlRow, TrialAssumption DEF Intent, TrialSafe, TrialTyped, TrialTypeOK, HarnessTypeOK
<1>2. QED
  BY <1>1 DEF AbstractCrossed, Crossing

LEMMA RowOfTrial ==
  ASSUME NEW t \in Trials
  PROVE  /\ RowOf(t).durability = "durable" <=> Durable(t)
         /\ RowOf(t).persist_order = "persist_then_effect" <=> PersistThenEffect(t)
         /\ RowOf(t).determinism = "deterministic" <=> ~ Nondeterministic(t)
         /\ RowOf(t).effect_mode = "two_phase" <=> TwoPhase(t)
         /\ RowOf(t).effect_mode = "naive" <=> ~ Idempotent(t)
         /\ RowOf(t).effect_mode = "idempotent" <=> Idempotent(t) /\ ~ TwoPhase(t)
BY ControlRow
   DEF ControlRows, Row, Durable, PersistThenEffect, Nondeterministic, TwoPhase, Idempotent

\* The keys of the ledger tell effects apart exactly as those of the lifecycle do.
LEMMA KeysAgree ==
  ASSUME TrialSafe, NEW p \in Memos \cup {NoMemo}, NEW q \in Memos \cup {NoMemo}
  PROVE  /\ AbstractKey(RowKey(trial, p), p) = Step!KeyFor(RowOf(trial), p)
         /\ RowKey(trial, p) = NoKey <=> Step!KeyFor(RowOf(trial), p) = Step!Naive
         /\ RowKey(trial, p) # NoKey =>
              (RowKey(trial, p) = RowKey(trial, q)
                 <=> Step!KeyFor(RowOf(trial), p) = Step!KeyFor(RowOf(trial), q))
<1>1. trial \in Trials
  BY CrossedHere
<1>2. \A m : ContentKey(m) # PreparedKey /\ ContentKey(m).memo = m
  <2>1. \A m : ContentKey(m).namespace = "charge" /\ PreparedKey.namespace = "charge-prepared"
    BY DEF ContentKey, PreparedKey
  <2>2. QED
    BY <2>1 DEF ContentKey
<1>3. /\ Step!Naive # Step!Prepared
      /\ \A m : Step!Derived(m) # Step!Naive /\ Step!Derived(m).of = m
  <2>1. /\ Step!Naive.by = "nothing" /\ Step!Prepared.by = "prepared"
        /\ \A m : Step!Derived(m).by = "content" /\ Step!Derived(m).of = m
    BY DEF Step!Naive, Step!Prepared, Step!Derived
  <2>2. QED
    BY <2>1
<1>4. \A m \in Memos \cup {NoMemo} : ContentKey(m) # NoKey /\ PreparedKey # NoKey
  <2>1. \A m \in Memos \cup {NoMemo} : ContentKey(m) \in EffectKeys /\ PreparedKey \in EffectKeys
    BY DEF EffectKeys
  <2>2. QED
    BY <2>1, TrialAssumption, KeyAssumption
<1>5. /\ TwoPhase(trial) \in BOOLEAN /\ Idempotent(trial) \in BOOLEAN
      /\ TwoPhase(trial) => Idempotent(trial)
  BY <1>1, RowKinds, KindsOf
<1>6. CASE TwoPhase(trial)
  <2>1. RowKey(trial, p) = PreparedKey /\ RowKey(trial, q) = PreparedKey
    BY <1>5, <1>6 DEF RowKey
  <2>2. /\ Step!KeyFor(RowOf(trial), p) = Step!Prepared
        /\ Step!KeyFor(RowOf(trial), q) = Step!Prepared
    BY <1>1, <1>6, RowOfTrial DEF Step!KeyFor
  <2>3. AbstractKey(PreparedKey, p) = Step!Prepared
    BY <1>4 DEF AbstractKey, Step!Prepared
  <2>4. QED
    BY <1>3, <1>4, <2>1, <2>2, <2>3
<1>7. CASE Idempotent(trial) /\ ~ TwoPhase(trial)
  <2>1. RowKey(trial, p) = ContentKey(p) /\ RowKey(trial, q) = ContentKey(q)
    BY <1>7 DEF RowKey
  <2>2. /\ Step!KeyFor(RowOf(trial), p) = Step!Derived(p)
        /\ Step!KeyFor(RowOf(trial), q) = Step!Derived(q)
    BY <1>1, <1>7, RowOfTrial DEF Step!KeyFor
  <2>3. AbstractKey(ContentKey(p), p) = Step!Derived(p)
    BY <1>2, <1>4 DEF AbstractKey, Step!Derived
  <2>4. QED
    BY <1>2, <1>3, <1>4, <2>1, <2>2, <2>3
<1>8. CASE ~ Idempotent(trial)
  <2>1. RowKey(trial, p) = NoKey /\ RowKey(trial, q) = NoKey
    BY <1>5, <1>8 DEF RowKey
  <2>2. Step!KeyFor(RowOf(trial), p) = Step!Naive
    BY <1>1, <1>8, RowOfTrial DEF Step!KeyFor
  <2>3. AbstractKey(NoKey, p) = Step!Naive
    BY DEF AbstractKey, Step!Naive
  <2>4. QED
    BY <2>1, <2>2, <2>3
<1>9. QED
  BY <1>5, <1>6, <1>7, <1>8

\* Nothing the lifecycle tells apart has changed.
LEMMA Unmoved ==
  ASSUME Quiet, trial' \in Trials, UNCHANGED <<trial, effect_keys, effect_digests>>,
         AbstractStage' = AbstractStage, AbstractRan' = AbstractRan,
         disk'.marker = "absent" <=> disk.marker = "absent"
  PROVE  UNCHANGED Step!stepVars
<1>1. Intent = SharedIntent /\ Intent' = SharedIntent
  BY CrossedHere, ControlRow DEF Intent, Quiet
<1>2. AbstractCrossed' = AbstractCrossed
  BY <1>1 DEF AbstractCrossed, AbstractKey
<1>3. (disk.marker # "absent")' = (disk.marker # "absent")
  OBVIOUS
<1>4. RowOf(trial)' = RowOf(trial) /\ PhaseOf[trial.barrier]' = PhaseOf[trial.barrier]
  OBVIOUS
<1>5. QED
  BY <1>2, <1>3, <1>4 DEF Step!stepVars

LEMMA SameCrossed ==
  ASSUME TrialSafe, UNCHANGED <<trial, effect_keys, effect_digests>>
  PROVE  AbstractCrossed' = AbstractCrossed
<1>1. Intent = SharedIntent /\ Intent' = SharedIntent
  BY CrossedHere, ControlRow DEF Intent
<1>2. QED
  BY <1>1 DEF AbstractCrossed, AbstractKey

LEMMA CrashMapped ==
  ASSUME Quiet, KillSelf(TRUE)
  PROVE  Step!Crash
<1>1. /\ harness = "crash_run" /\ exit = "running" /\ trial \in Trials
      /\ trial.barrier = "b0" => request = 0 /\ disk.marker = "absent"
      /\ trial.barrier = "b1" =>
           IF PersistThenEffect(trial) THEN request = 0 /\ disk.marker # "absent"
           ELSE AbstractRan /\ disk.marker = "absent"
      /\ trial.barrier = "b2" => AbstractRan /\ disk.marker # "absent"
  BY BarrierReached, CrossedHere DEF Quiet, TrialSafe
<1>2. /\ exit' = "killed"
      /\ UNCHANGED <<trial, harness, request, answers, disk, effect_keys, effect_digests>>
  BY DEF KillSelf, ExitWith, harnessVars, daemonVars, ledgerVars
<1>3. AbstractStage = "running" /\ AbstractStage' = "down"
  BY <1>1, <1>2 DEF AbstractStage
<1>4. request = 0 => ~ AbstractRan
  BY DEF AbstractRan
<1>5. trial.barrier \in {"b0", "b1", "b2"}
  BY <1>1, RowKinds DEF Barrier
<1>6. /\ trial.barrier = "b0" => PhaseOf[trial.barrier] = "before"
      /\ trial.barrier = "b1" => PhaseOf[trial.barrier] = "between"
      /\ trial.barrier = "b2" => PhaseOf[trial.barrier] = "after"
  BY DEF PhaseOf, Barrier
<1>7. Step!AtBarrier
  BY <1>1, <1>4, <1>5, <1>6, Zenon DEF Step!AtBarrier
<1>8. AbstractRan' = AbstractRan /\ AbstractCrossed' = AbstractCrossed
  BY <1>2, SameCrossed DEF AbstractRan, Quiet
<1>9. QED
  BY <1>2, <1>3, <1>7, <1>8 DEF Step!Crash

LEMMA RecoverMapped ==
  ASSUME Quiet, CrashRunEnds(RecoveryRun)
  PROVE  Step!Recover
<1>1. /\ harness = "crash_run" /\ exit = "killed" /\ harness' = "recovery_run"
      /\ exit' = "running" /\ request' = 0
      /\ UNCHANGED <<trial, disk, effect_keys, effect_digests>>
  BY DEF CrashRunEnds, Expected, Spawn, daemonVars, ledgerVars
<1>2. AbstractStage = "down" /\ AbstractStage' = "recovering"
  BY <1>1 DEF AbstractStage
<1>3. AbstractRan' = FALSE
  BY <1>1 DEF AbstractRan
<1>4. AbstractCrossed' = AbstractCrossed
  BY <1>1, SameCrossed DEF Quiet
<1>5. QED
  BY <1>1, <1>2, <1>3, <1>4 DEF Step!Recover

LEMMA FinishMapped ==
  ASSUME Quiet, RecoveryRunEnds
  PROVE  Step!Finish
<1>1. /\ harness = "recovery_run" /\ exit = "zero" /\ harness' = "seal"
      /\ UNCHANGED <<trial, exit, request, answers, disk, effect_keys, effect_digests>>
  BY DEF RecoveryRunEnds, Expected, Quiet, ProgressOK, processVars, daemonVars, ledgerVars
<1>2. AbstractStage = "recovering" /\ AbstractStage' = "done"
  BY <1>1 DEF AbstractStage
<1>3. disk.marker # "absent" /\ (AbstractRan \/ Skipping)
  BY <1>1 DEF Quiet, ProcessOK
<1>4. Skipping => RowOf(trial).durability = "durable" /\ ~ AbstractRan
  BY CrossedHere, RowOfTrial DEF Skipping, AbstractRan, Quiet
<1>5. Step!Skips \/ (AbstractRan /\ disk.marker # "absent")
  BY <1>2, <1>3, <1>4 DEF Step!Skips
<1>6. AbstractRan' = AbstractRan /\ AbstractCrossed' = AbstractCrossed
  BY <1>1, SameCrossed DEF AbstractRan, Quiet
<1>7. QED
  BY <1>1, <1>2, <1>5, <1>6 DEF Step!Finish

LEMMA BeginMapped ==
  ASSUME Quiet, NEW t \in Trials, StartTrial(t, NoFiles(t), CrashRun(t))
  PROVE  Step!Begin
<1>1. /\ trial' = t /\ harness' = "crash_run" /\ exit' = "running" /\ request' = 0
      /\ disk'.marker = "absent" /\ harness \in {"idle", "classified"}
      /\ effect_keys' = [i \in Intents |-> << >>]
  BY DEF StartTrial, Spawn, NoFiles, HandleReset, NewState
<1>2. AbstractStage \in {"idle", "done"} /\ AbstractStage' = "running"
  BY <1>1 DEF AbstractStage, Quiet, ProgressOK
<1>3. AbstractRan' = FALSE
  BY <1>1 DEF AbstractRan
<1>4. Intent' = SharedIntent /\ SharedIntent \in Intents
  BY <1>1, ControlRow, TrialAssumption DEF Intent
<1>5. AbstractCrossed' = << >>
  <2>1. effect_keys'[Intent'] = << >>
    BY <1>1, <1>4
  <2>2. Len(effect_keys'[Intent']) = 0
    BY <2>1
  <2>3. 1 .. Len(effect_keys'[Intent']) = {}
    BY <2>2
  <2>4. QED
    BY <2>3 DEF AbstractCrossed
<1>6. RowOf(trial)' \in {RowOf(x) : x \in Trials} /\ PhaseOf[trial.barrier]' \in Step!Phase
  <2>1. t.barrier \in Barrier
    BY RowKinds
  <2>2. QED
    BY <1>1, <2>1 DEF PhaseOf, Barrier, Step!Phase
<1>7. QED
  BY <1>1, <1>2, <1>3, <1>5, <1>6 DEF Step!Begin

LEMMA AbortMapped ==
  ASSUME Quiet, harness \in {"crash_run", "recovery_run", "classify"}, harness' = "failed",
         UNCHANGED <<trial, exit, request, answers, disk, effect_keys, effect_digests>>
  PROVE  Step!Abort
<1>1. AbstractStage \notin {"idle", "aborted"} /\ AbstractStage' = "aborted"
  BY DEF AbstractStage, Quiet, ProgressOK
<1>2. AbstractRan' = AbstractRan /\ AbstractCrossed' = AbstractCrossed
  BY SameCrossed DEF AbstractRan, Quiet
<1>3. QED
  BY <1>1, <1>2 DEF Step!Abort

LEMMA PersistMapped ==
  ASSUME Quiet, WriteFile
  PROVE  [Step!StepNext]_(Step!stepVars)
<1>1. /\ exit = "running" /\ todo # << >> /\ todo' = Tail(todo)
      /\ harness \in {"crash_run", "recovery_run"}
      /\ UNCHANGED <<trial, harness, exit, request, answers, effect_keys, effect_digests>>
  BY DEF WriteFile, Running, Persists, Advance, harnessVars, daemonVars, ledgerVars, Quiet,
         TrialSafe, TrialTyped, PhaseOK
<1>2. OnProgram /\ TrialTyped /\ trial' \in Trials
  BY <1>1, CrossedHere DEF ProcessOK, Quiet, TrialSafe
<1>3. AbstractStage' = AbstractStage /\ AbstractRan' = AbstractRan
  BY <1>1 DEF AbstractStage, AbstractRan
<1>4. disk \in [marker : {"absent", "empty", "written"}, identity : {"absent", "empty", "written"}]
  BY <1>2 DEF TrialTyped, TrialTypeOK
<1>5. CASE Head(todo) = "open_marker" /\ disk' = [disk EXCEPT !.marker = "empty"]
  <2>1. disk'.marker = "empty"
    BY <1>4, <1>5
  <2>2. CASE disk.marker # "absent"
    BY <1>1, <1>2, <1>3, <2>1, <2>2, Unmoved
  <2>3. CASE disk.marker = "absent"
    <3>1. /\ MarkerFirst \in BOOLEAN
          /\ Rank(MarkerFirst, "open_marker") = IF MarkerFirst THEN 4 ELSE 11
      BY <1>2, StepsTyped, RankTable
    <3>2. IF MarkerFirst THEN request = 0 ELSE AbstractRan
      BY <1>1, <1>2, <1>5, <3>1, LeftAround DEF OnProgram
    <3>3. request = 0 => ~ AbstractRan
      BY DEF AbstractRan
    <3>4. /\ AbstractStage = "running" <=> harness = "crash_run"
          /\ AbstractStage \in {"running", "recovering"}
      BY <1>1 DEF AbstractStage, Quiet, ProgressOK
    <3>5. Step!PersistsFirst <=> MarkerFirst
      BY <3>4, CrossedHere, RowOfTrial DEF Step!PersistsFirst, MarkerFirst, Quiet
    <3>6. AbstractRan \in BOOLEAN /\ (Step!PersistsFirst <=> ~ AbstractRan)
      BY <3>1, <3>2, <3>3, <3>5 DEF AbstractRan
    <3>7. AbstractCrossed' = AbstractCrossed
      BY <1>1, SameCrossed DEF Quiet
    <3>8. Step!Persist
      BY <1>1, <1>3, <2>1, <2>3, <3>4, <3>6, <3>7 DEF Step!Persist
    <3>9. QED
      BY <3>8 DEF Step!StepNext
  <2>4. QED
    BY <2>2, <2>3
<1>6. CASE Head(todo) = "write_marker" /\ disk' = [disk EXCEPT !.marker = "written"]
  <2>1. disk'.marker = "written"
    BY <1>4, <1>6
  <2>2. /\ MarkerFirst \in BOOLEAN
        /\ Rank(MarkerFirst, "write_marker") = IF MarkerFirst THEN 5 ELSE 12
    BY <1>2, StepsTyped, RankTable
  <2>3. disk.marker # "absent"
    BY <1>1, <1>2, <1>6, <2>2, LeftAround DEF OnProgram
  <2>4. QED
    BY <1>1, <1>2, <1>3, <2>1, <2>3, Unmoved
<1>7. CASE \/ disk' = [disk EXCEPT !.identity = "empty"]
           \/ disk' = [disk EXCEPT !.identity = "written"]
  <2>1. disk'.marker = disk.marker
    BY <1>4, <1>7
  <2>2. QED
    BY <1>1, <1>2, <1>3, <2>1, Unmoved
<1>8. QED
  BY <1>5, <1>6, <1>7 DEF WriteFile, Running, Persists

LEMMA SendMapped ==
  ASSUME Quiet, DrawnEffect
  PROVE  UNCHANGED Step!stepVars
<1>1. /\ exit = "running" /\ todo # << >> /\ Head(todo) = "send" /\ request' = sent + 1
      /\ UNCHANGED <<trial, harness, exit, answers, disk, effect_keys, effect_digests>>
  BY SendRequest DEF Running, Quiet, TrialSafe, ledgerVars
<1>2. OnProgram /\ TrialTyped /\ trial' \in Trials
  BY <1>1, CrossedHere DEF ProcessOK, Quiet, TrialSafe
<1>3. ~ AbstractRan
  <2>1. Rank(MarkerFirst, "send") = 8
    BY DEF Rank
  <2>2. request = 0
    BY <1>1, <1>2, <2>1, LeftAround DEF OnProgram
  <2>3. QED
    BY <2>2 DEF AbstractRan
<1>4. ~ AbstractRan'
  <2> SUFFICES ASSUME NEW a \in answers, a.req.id = sent + 1 PROVE FALSE
    BY <1>1 DEF AbstractRan
  <2>1. a.req \in Issued
    BY DEF Issued
  <2>2. a.req.id <= sent /\ sent \in Nat
    BY <2>1, DaemonAssumption
       DEF Quiet, TrialSafe, RequestsOK, TrialTyped, TrialTypeOK, HarnessTypeOK, DaemonTypeOK
  <2>3. QED
    BY <2>2
<1>5. AbstractStage' = AbstractStage
  BY <1>1 DEF AbstractStage
<1>6. AbstractRan' = AbstractRan
  BY <1>3, <1>4 DEF AbstractRan
<1>7. QED
  BY <1>1, <1>2, <1>5, <1>6, Unmoved

LEMMA CrossingAppended ==
  ASSUME NEW S, NEW T, NEW u \in Seq(S), NEW v \in Seq(T), Len(u) = Len(v),
         NEW k \in S, NEW p \in T
  PROVE  [n \in 1 .. Len(Append(u, k)) |-> Crossing(Append(u, k)[n], Append(v, p)[n])]
           = Append([n \in 1 .. Len(u) |-> Crossing(u[n], v[n])], Crossing(k, p))
<1> DEFINE C == [n \in 1 .. Len(u) |-> Crossing(u[n], v[n])]
           R == {Crossing(x, y) : x \in S, y \in T}
           A == Append(C, Crossing(k, p))
<1>1. /\ Len(u) \in Nat /\ Len(Append(u, k)) = Len(u) + 1
      /\ Append(u, k)[Len(u) + 1] = k /\ Append(v, p)[Len(u) + 1] = p
      /\ \A n \in 1 .. Len(u) : /\ Append(u, k)[n] = u[n] /\ Append(v, p)[n] = v[n]
                                /\ u[n] \in S /\ v[n] \in T
  OBVIOUS
<1>2. C \in Seq(R) /\ Len(C) = Len(u) /\ Crossing(k, p) \in R
  BY <1>1
<1>3. C \in [1 .. Len(u) -> R] /\ \A n \in 1 .. Len(u) : C[n] = Crossing(u[n], v[n])
  BY <1>1
<1>4. \A n \in 1 .. Len(u) : Crossing(u[n], v[n]) \in R
  BY <1>1
<1> HIDE DEF C, R
<1>5. /\ A \in Seq(R) /\ Len(A) = Len(u) + 1 /\ A[Len(u) + 1] = Crossing(k, p)
      /\ \A n \in 1 .. Len(u) : A[n] = C[n]
  BY <1>1, <1>2, AppendProperties
<1> DEFINE B == [n \in 1 .. Len(u) + 1 |-> Crossing(Append(u, k)[n], Append(v, p)[n])]
<1>6. \A n \in 1 .. Len(u) + 1 : B[n] = A[n] /\ B[n] \in R
  <2> SUFFICES ASSUME NEW n \in 1 .. Len(u) + 1 PROVE B[n] = A[n] /\ B[n] \in R
    OBVIOUS
  <2>1. B[n] = Crossing(Append(u, k)[n], Append(v, p)[n])
    OBVIOUS
  <2>2. CASE n \in 1 .. Len(u)
    BY <1>1, <1>3, <1>4, <1>5, <2>1, <2>2
  <2>3. CASE n = Len(u) + 1
    BY <1>1, <1>2, <1>5, <2>1, <2>3
  <2>4. n \in 1 .. Len(u) \/ n = Len(u) + 1
    <3> HIDE DEF A, B
    <3>1. Len(u) \in Nat
      BY <1>1
    <3>2. QED
      BY <3>1
  <2>5. QED
    BY <2>2, <2>3, <2>4
<1>7. B \in [1 .. Len(u) + 1 -> R] /\ Len(u) + 1 \in Nat
  BY <1>1, <1>6
<1> HIDE DEF A
<1>8. B \in Seq(R) /\ Len(B) = Len(u) + 1
  <2> HIDE DEF B
  <2>1. B \in Seq(R)
    BY <1>7
  <2>2. DOMAIN B = 1 .. Len(u) + 1
    BY <1>7
  <2>3. QED
    BY <1>7, <2>1, <2>2
<1>9. A = B
  <2> HIDE DEF B
  <2>1. QED
    BY <1>5, <1>6, <1>8, SeqEqual
<1>10. QED
  BY <1>1, <1>9 DEF A, C

\* The lifecycle's effect is the moment the daemon handles the request.
LEMMA EffectMapped ==
  ASSUME Quiet, NEW req \in wire, Handle(req), UNCHANGED trialVars
  PROVE  Step!Effect
<1> USE DEF Quiet, TrialSafe
<1> DEFINE K == effect_keys[SharedIntent]
           D == effect_digests[SharedIntent]
           p == req.payload
<1>1. /\ CountEffect(SharedIntent, req.key, p)
      /\ req.id = request /\ wire' = {} /\ exit = "running" /\ Has(todo, "await")
      /\ harness \in {"crash_run", "recovery_run"}
  BY EffectHandled
<1>2. PICK status : answers' = answers \cup {[req |-> req, status |-> status, epoch |-> epoch]}
  BY EffectHandled
<1>3. UNCHANGED <<trial, harness, exit, request, disk, todo>>
  BY DEF trialVars
<1>4. /\ trial \in Trials /\ SharedIntent \in Intents /\ req \in Issued /\ request # 0
      /\ K \in Seq(Keys \cup {NoKey}) /\ D \in Seq(Payloads) /\ Len(K) = Len(D)
      /\ effect_keys \in [Intents -> Seq(Keys \cup {NoKey})]
      /\ effect_digests \in [Intents -> Seq(Payloads)]
      /\ req.key \in Keys \cup {NoKey} /\ p \in Payloads
  <2>1. /\ trial \in Trials /\ SharedIntent \in Intents
        /\ effect_keys \in [Intents -> Seq(Keys \cup {NoKey})]
        /\ effect_digests \in [Intents -> Seq(Payloads)]
    BY CrossedHere DEF TrialTyped, TrialTypeOK, HarnessTypeOK, DaemonTypeOK, LedgerTypeOK
  <2>2. Len(K) = Len(D)
    BY <2>1 DEF CrossingsAgree
  <2>3. req \in Issued /\ req \in Request
    BY DEF Issued, RequestsOK
  <2>4. req.key \in Keys \cup {NoKey} /\ p \in Payloads /\ req.id # 0
    BY <2>3 DEF Request, RequestId
  <2>5. QED
    BY <1>1, <2>1, <2>2, <2>3, <2>4
<1>5. OwnEffect(req.key, p) /\ \A n \in 1 .. Len(K) : OwnEffect(K[n], D[n])
  BY DEF ContentOK
<1>6. ~ AbstractRan /\ AbstractRan'
  <2>1. ASSUME NEW a \in answers, a.req.id = request PROVE FALSE
    BY <1>1, <1>4, <2>1 DEF RequestsOK, Issued
  <2> DEFINE new == [req |-> req, status |-> status, epoch |-> epoch]
  <2>2. new.req = req /\ new \in answers'
    BY <1>2
  <2> HIDE DEF new
  <2>3. QED
    BY <1>1, <1>3, <1>4, <2>1, <2>2 DEF AbstractRan
<1>7. AbstractRan = FALSE /\ AbstractRan' = TRUE
  BY <1>6 DEF AbstractRan
<1>8. /\ AbstractStage' = AbstractStage /\ AbstractStage \in {"running", "recovering"}
      /\ AbstractStage = "running" <=> harness = "crash_run"
  BY <1>1, <1>3 DEF AbstractStage, ProgressOK
<1>9. OnProgram /\ todo # << >> /\ ~ Has(todo, "send") /\ MarkerFirst \in BOOLEAN
  <2>1. todo # << >>
    BY <1>1 DEF Has
  <2>2. OnProgram
    BY <1>1, <2>1 DEF ProcessOK
  <2>3. ~ Has(todo, "send")
    BY <1>4, <2>2 DEF OnProgram
  <2>4. QED
    BY <2>1, <2>2, <2>3, StepsTyped
<1>10. Rank(MarkerFirst, Head(todo)) = 9
  BY <1>1, <1>9, LeftAround
<1>11. /\ MarkerFirst => disk.marker # "absent"
       /\ ~ MarkerFirst => Has(todo, "open_marker")
       /\ ~ Has(todo, "check")
  BY <1>9, <1>10, LeftAround, NextStep DEF OnProgram
<1>12. ~ Step!Skips
  BY <1>4, <1>8, <1>9, <1>11, RowOfTrial DEF Step!Skips, MarkerFirst, OnProgram
<1>13. Step!PersistsFirst <=> MarkerFirst
  BY <1>4, <1>8, RowOfTrial DEF Step!PersistsFirst, MarkerFirst
<1>14. /\ Step!PersistsFirst => disk.marker # "absent"
       /\ AbstractStage = "running" => ((disk.marker # "absent") <=> Step!PersistsFirst)
  BY <1>8, <1>9, <1>11, <1>13 DEF OnProgram
<1>15. p \in Step!Payload /\ p \in Memos \cup {NoMemo}
  BY <1>5 DEF OwnEffect, RowDraw, Step!Payload
<1>16. /\ AbstractCrossed = [n \in 1 .. Len(K) |-> Crossing(K[n], D[n])]
       /\ Len(AbstractCrossed) = Len(K)
       /\ \A n \in 1 .. Len(K) : AbstractCrossed[n] = Crossing(K[n], D[n])
  BY <1>4, CrossedHere
<1>17. Step!FreshPayload(p)
  <2>1. Nondeterministic(trial) \in BOOLEAN
    BY <1>4, KindsOf
  <2>2. RowOf(trial).determinism = "deterministic" <=> ~ Nondeterministic(trial)
    BY <1>4, RowOfTrial
  <2>3. ~ Nondeterministic(trial) => p = NoMemo
    BY <1>5 DEF OwnEffect, RowDraw
  <2>4. Nondeterministic(trial) => p \in Memos /\ \A n \in 1 .. Len(D) : D[n] # p
    BY <1>5 DEF OwnEffect, RowDraw, ContentOK
  <2>5. \A n \in 1 .. Len(K) : AbstractCrossed[n].payload = D[n]
    BY <1>16 DEF Crossing
  <2>6. QED
    BY <1>4, <1>16, <2>2, <2>3, <2>4, <2>5 DEF Step!FreshPayload
<1>18. \A n \in 1 .. Len(K) :
         /\ K[n] = RowKey(trial, D[n]) /\ D[n] \in Memos \cup {NoMemo}
         /\ AbstractCrossed[n].key = Step!KeyFor(RowOf(trial), D[n])
  <2> SUFFICES ASSUME NEW n \in 1 .. Len(K)
               PROVE  /\ K[n] = RowKey(trial, D[n]) /\ D[n] \in Memos \cup {NoMemo}
                      /\ AbstractCrossed[n].key = Step!KeyFor(RowOf(trial), D[n])
    OBVIOUS
  <2>1. K[n] = RowKey(trial, D[n]) /\ D[n] \in Memos \cup {NoMemo}
    BY <1>5 DEF OwnEffect, RowDraw
  <2>2. AbstractCrossed[n].key = AbstractKey(K[n], D[n])
    BY <1>16 DEF Crossing
  <2>3. QED
    BY <2>1, <2>2, KeysAgree
<1>19. req.key = RowKey(trial, p)
  BY <1>5 DEF OwnEffect
<1> DEFINE key == Step!KeyFor(RowOf(trial), p)
<1>20. Deduped(SharedIntent, req.key) <=>
         key # Step!Naive /\ \E n \in 1 .. Len(AbstractCrossed) : AbstractCrossed[n].key = key
  <2>1. Deduped(SharedIntent, req.key) <=>
          req.key # NoKey /\ \E n \in 1 .. Len(K) : K[n] = req.key
    <3>1. seen_keys[SharedIntent] = {K[n] : n \in 1 .. Len(K)} \ {NoKey}
      BY <1>4 DEF CrossingsAgree
    <3> HIDE DEF K
    <3>2. req.key \in seen_keys[SharedIntent] <=>
            req.key # NoKey /\ \E n \in 1 .. Len(K) : K[n] = req.key
      BY <3>1
    <3>3. QED
      BY <3>2 DEF Deduped
  <2>2. req.key = NoKey <=> key = Step!Naive
    BY <1>15, <1>19, KeysAgree
  <2>3. req.key # NoKey =>
          \A n \in 1 .. Len(K) : K[n] = req.key <=> AbstractCrossed[n].key = key
    BY <1>15, <1>18, <1>19, KeysAgree
  <2>4. QED
    BY <1>16, <2>1, <2>2, <2>3
<1>21. Step!Cross(key, p)
  <2>1. CASE Deduped(SharedIntent, req.key)
    <3>1. UNCHANGED <<trial, effect_keys, effect_digests>>
      BY <1>1, <1>3, <2>1 DEF CountEffect
    <3>2. AbstractCrossed' = AbstractCrossed
      BY <3>1, SameCrossed
    <3>3. QED
      BY <1>20, <2>1, <3>2 DEF Step!Cross
  <2>2. CASE ~ Deduped(SharedIntent, req.key)
    <3> DEFINE c == [key |-> key, payload |-> p]
    <3>1. /\ effect_keys'[SharedIntent] = Append(K, req.key)
          /\ effect_digests'[SharedIntent] = Append(D, p)
      BY <1>1, <1>4, <2>2 DEF CountEffect, Crossed
    <3>2. Intent' = SharedIntent
      BY <1>3, <1>4, ControlRow DEF Intent
    <3>3. AbstractCrossed' =
            [n \in 1 .. Len(Append(K, req.key)) |->
               Crossing(Append(K, req.key)[n], Append(D, p)[n])]
      BY <3>1, <3>2 DEF AbstractCrossed, Crossing, AbstractKey
    <3>4. Crossing(req.key, p) = c
      BY <1>15, <1>19, KeysAgree DEF Crossing
    <3>5. AbstractCrossed' = Append(AbstractCrossed, c)
      BY <1>4, <1>16, <3>3, <3>4, CrossingAppended
    <3>6. QED
      BY <1>20, <2>2, <3>5 DEF Step!Cross
  <2>3. QED
    BY <2>1, <2>2
<1>22. QED
  BY <1>3, <1>7, <1>8, <1>12, <1>14, <1>15, <1>17, <1>21 DEF Step!Effect

LEMMA RefineStep ==
  Orderly /\ Quiet /\ Quiet' /\ [TrialNext]_allVars => [Step!StepNext]_(Step!stepVars)
<1> SUFFICES ASSUME Orderly, Quiet, Quiet', [TrialNext]_allVars
             PROVE  [Step!StepNext]_(Step!stepVars)
  OBVIOUS
<1>1. trial' \in Trials /\ trial \in Trials
  BY DEF Quiet, TrialSafe, TrialTyped, TrialTypeOK, HarnessTypeOK
<1>2. CASE KillSelf(TRUE)
  BY <1>2, CrashMapped DEF Step!StepNext
<1>3. CASE WriteFile
  BY <1>3, PersistMapped
<1>4. CASE DrawnEffect
  BY <1>4, SendMapped
<1>5. CASE Daemon
  BY <1>5, EffectMapped DEF Daemon, Step!StepNext
<1>6. CASE \E t \in Trials : StartTrial(t, NoFiles(t), CrashRun(t))
  BY <1>6, BeginMapped DEF Step!StepNext
<1>7. CASE CrashRunEnds(RecoveryRun)
  BY <1>7, RecoverMapped DEF Step!StepNext
<1>8. CASE RecoveryRunEnds
  BY <1>8, FinishMapped DEF Step!StepNext
<1>9. ASSUME harness \in {"crash_run", "recovery_run", "classify"}, harness' = "failed",
             UNCHANGED <<daemonVars, processVars, trial>>
      PROVE  Step!StepNext
  BY <1>9, AbortMapped DEF daemonVars, ledgerVars, processVars, Step!StepNext
<1>10. CASE TrialFails
  BY <1>9, <1>10 DEF TrialFails
<1>11. CASE Return \/ CheckMarker \/ ReadIdentity \/ ReceiveReply
  <2>1. /\ exit = "running" /\ exit' \in {"running", "zero"}
        /\ UNCHANGED <<trial, harness, request, answers, disk, effect_keys, effect_digests>>
    BY <1>11 DEF Return, CheckMarker, ReadIdentity, ReceiveReply, Running, ExitWith,
                 harnessVars, daemonVars, ledgerVars
  <2>2. AbstractStage' = AbstractStage /\ AbstractRan' = AbstractRan
    BY <2>1 DEF AbstractStage, AbstractRan
  <2>3. QED
    BY <1>1, <2>1, <2>2, Unmoved
<1>12. CASE SealLedger \/ ReadDump
  <2>1. /\ harness \in {"seal", "dump"} /\ harness' \in {"dump", "classify"}
        /\ UNCHANGED <<trial, exit, request, answers, disk, effect_keys, effect_digests>>
    BY <1>12 DEF SealLedger, HandleSeal, ReadDump, processVars, daemonVars, ledgerVars
  <2>2. AbstractStage' = AbstractStage /\ AbstractRan' = AbstractRan
    BY <2>1 DEF AbstractStage, AbstractRan
  <2>3. QED
    BY <1>1, <2>1, <2>2, Unmoved
<1>13. CASE ClassifyTrial(Classify(Intent, dump, store))
  <2>1. /\ harness = "classify" /\ harness' \in {"failed", "classified"}
        /\ UNCHANGED <<daemonVars, processVars, trial>>
    BY <1>13 DEF ClassifyTrial
  <2>2. CASE harness' = "failed"
    BY <1>9, <2>1, <2>2
  <2>3. CASE harness' = "classified"
    <3>1. UNCHANGED <<exit, request, answers, disk, effect_keys, effect_digests>>
      BY <2>1 DEF daemonVars, ledgerVars, processVars
    <3>2. AbstractStage' = AbstractStage /\ AbstractRan' = AbstractRan
      BY <2>1, <2>3, <3>1 DEF AbstractStage, AbstractRan
    <3>3. QED
      BY <1>1, <2>1, <3>1, <3>2, Unmoved
  <2>4. QED
    BY <2>1, <2>2, <2>3
<1>14. CASE UNCHANGED allVars
  <2>1. UNCHANGED <<trial, harness, exit, request, answers, disk, effect_keys, effect_digests>>
    BY <1>14 DEF allVars, trialVars, daemonVars, ledgerVars
  <2>2. AbstractStage' = AbstractStage /\ AbstractRan' = AbstractRan
    BY <2>1 DEF AbstractStage, AbstractRan
  <2>3. QED
    BY <1>1, <2>1, <2>2, Unmoved
<1>15. QED
  BY <1>2, <1>3, <1>4, <1>5, <1>6, <1>7, <1>8, <1>10, <1>11, <1>12, <1>13, <1>14
     DEF TrialNext, Process, Harness, HarnessGoesOn, SamplerFails, StrayKill, Timeout, Orderly

LEMMA RefineInit == ControlInit => Step!StepInit /\ ProcessOK /\ ContentOK
<1> SUFFICES ASSUME NEW t \in Trials, TrialInit(t, NoFiles(t))
             PROVE  Step!StepInit /\ ProcessOK /\ ContentOK
  BY DEF ControlInit
<1>1. /\ trial = t /\ harness = "idle" /\ exit = "none" /\ request = 0
      /\ disk.marker = "absent" /\ wire = {} /\ answers = {}
      /\ effect_keys = [i \in Intents |-> << >>]
  BY DEF TrialInit, NoFiles, DaemonInit, FreshState
<1>2. Intent = SharedIntent /\ SharedIntent \in Intents
  BY <1>1, ControlRow, TrialAssumption DEF Intent
<1>3. effect_keys[SharedIntent] = << >> /\ Len(effect_keys[SharedIntent]) = 0
  BY <1>1, <1>2
<1>4. 1 .. Len(effect_keys[SharedIntent]) = {}
  BY <1>3
<1>5. AbstractCrossed = << >>
  BY <1>2, <1>4 DEF AbstractCrossed
<1>6. RowOf(trial) \in {RowOf(x) : x \in Trials} /\ PhaseOf[trial.barrier] \in Step!Phase
  BY <1>1, RowKinds DEF PhaseOf, Barrier, Step!Phase
<1>7. AbstractStage = "idle" /\ AbstractRan = FALSE
  BY <1>1 DEF AbstractStage, AbstractRan
<1>8. Step!StepInit
  BY <1>1, <1>5, <1>6, <1>7 DEF Step!StepInit
<1>9. QED
  BY <1>1, <1>4, <1>8 DEF ProcessOK, WireOK, ContentOK

LEMMA QuietAlways == ASSUME Orderly PROVE TrialSpec => []Quiet
<1>1. TrialSpec => [](TrialSafe /\ ProgressOK /\ VerdictOK /\ StoreOnChain)
  BY TrialSafeAlways
<1>2. ControlInit => ProcessOK /\ ContentOK
  BY RefineInit
<1>3. TrialSafe /\ ProgressOK /\ ProcessOK /\ ContentOK /\ [TrialNext]_allVars
        => ProcessOK' /\ ContentOK'
  BY ProcessStep, ContentStep
<1>4. QED
  BY <1>1, <1>2, <1>3, PTL DEF TrialSpec, Quiet

-----------------------------------------------------------------------------
\* As long as nobody but the barrier kills, nothing fails but the ledger's writes
\* and no value is drawn twice, a trial of the controls is a lifecycle of DurableStep:
\* a completion file, an identity file, a request on the wire and the daemon's
\* bookkeeping come to one bit and one atomic crossing (adapters/controls.py run,
\* recovery; trial.py run_trial).
THEOREM ImplementsLifecycle == ASSUME Orderly PROVE TrialSpec => ImplementsStep
<1>1. ControlInit => Step!StepInit
  BY RefineInit
<1>2. Quiet /\ Quiet' /\ [TrialNext]_allVars => [Step!StepNext]_(Step!stepVars)
  BY RefineStep
<1>3. QED
  BY <1>1, <1>2, QuietAlways, PTL DEF TrialSpec, ImplementsStep, Step!StepSpec

\* Under the same assumption the ledger of a trial counts nothing but what a process
\* of that trial asked for (trial.py run_trial resets once both processes are gone).
THEOREM OwnEffectsAlways == ASSUME Orderly PROVE TrialSpec => []OwnEffectsOnly
<1>1. Quiet => OwnEffectsOnly
  BY DEF Quiet, ContentOK, OwnEffectsOnly
<1>2. QED
  BY <1>1, QuietAlways, PTL

-----------------------------------------------------------------------------
(***************************************************************************)
(* What is proved of the lifecycle holds of the trial that implements it.  *)
(***************************************************************************)
D == INSTANCE DurableStepProofs WITH
  Rows <- {RowOf(t) : t \in Trials},
  Fixed <- NoMemo,
  Drawn <- Memos,
  row <- RowOf(trial),
  phase <- PhaseOf[trial.barrier],
  stage <- AbstractStage,
  ran <- AbstractRan,
  persisted <- disk.marker # "absent",
  crossed <- AbstractCrossed

LEMMA RowsSupported ==
  /\ {RowOf(t) : t \in Trials} \subseteq D!RuntimeRow
  /\ \A rt \in {RowOf(t) : t \in Trials} : D!SupportedRow(rt)
<1>1. \A rt \in {RowOf(t) : t \in Trials} : \E m \in DOMAIN ControlRows : rt = ControlRows[m]
  BY ControlRow
<1>2. \A m \in DOMAIN ControlRows : ControlRows[m] \in RuntimeRow /\ D!SupportedRow(ControlRows[m])
  BY DEF ControlRows, Row, RuntimeRow, D!SupportedRow, Durability, PersistOrder, EffectMode,
         Determinism
<1>3. D!RuntimeRow = RuntimeRow
  BY DEF D!RuntimeRow, RuntimeRow, D!Durability, D!PersistOrder, D!EffectMode, D!Determinism,
         Durability, PersistOrder, EffectMode, Determinism
<1>4. QED
  BY <1>1, <1>2, <1>3

LEMMA SameLifecycle == ImplementsStep => D!StepSpec
<1>1. Step!StepInit => D!StepInit
  BY DEF D!StepInit, Step!StepInit, D!Phase, Step!Phase
<1>2. Step!Begin => D!Begin
  BY DEF D!Begin, Step!Begin, D!Phase, Step!Phase
<1>3. \A p : /\ Step!FreshPayload(p) <=> D!FreshPayload(p)
             /\ Step!KeyFor(RowOf(trial), p) = D!KeyFor(RowOf(trial), p)
  BY DEF Step!FreshPayload, D!FreshPayload, Step!KeyFor, D!KeyFor, Step!Naive, D!Naive,
         Step!Derived, D!Derived, Step!Prepared, D!Prepared
<1>4. \A key, p : Step!Cross(key, p) <=> D!Cross(key, p)
  BY DEF Step!Cross, D!Cross, Step!Naive, D!Naive
<1>5. /\ Step!Payload = D!Payload /\ (Step!Skips <=> D!Skips)
      /\ Step!PersistsFirst <=> D!PersistsFirst
      /\ Step!AtBarrier = D!AtBarrier
  BY DEF Step!Payload, D!Payload, Step!Skips, D!Skips, Step!PersistsFirst, D!PersistsFirst,
         Step!AtBarrier, D!AtBarrier
<1>6. Step!Effect => D!Effect
  BY <1>3, <1>4, <1>5 DEF Step!Effect, D!Effect
<1>7. Step!Persist => D!Persist
  BY <1>5 DEF Step!Persist, D!Persist
<1>8. Step!Crash => D!Crash
  BY <1>5 DEF Step!Crash, D!Crash
<1>9. (Step!Recover => D!Recover) /\ (Step!Abort => D!Abort)
  BY DEF Step!Recover, D!Recover, Step!Abort, D!Abort
<1>10. Step!Finish => D!Finish
  BY <1>5 DEF Step!Finish, D!Finish
<1>11. Step!StepNext => D!StepNext
  BY <1>2, <1>6, <1>7, <1>8, <1>9, <1>10 DEF Step!StepNext, D!StepNext
<1>12. QED
  BY <1>1, <1>11, PTL DEF ImplementsStep, D!StepSpec, Step!StepSpec, D!stepVars, Step!stepVars

\* The oracle reads off the ledger what the crossings amount to.
LEMMA ScoredAsObserved ==
  ASSUME Quiet, Scored
  PROVE  AbstractStage = "done" /\ outcome = D!Observed
<1> DEFINE K == effect_keys[SharedIntent]
           G == effect_digests[SharedIntent]
<1>1. harness = "classified" /\ AbstractStage = "done"
  BY DEF Scored, AbstractStage
<1>2. /\ LedgerTypeOK /\ Intent = SharedIntent /\ SharedIntent \in Intents
      /\ AbstractCrossed = [n \in 1 .. Len(K) |-> Crossing(K[n], G[n])]
  BY CrossedHere DEF Quiet, TrialSafe, TrialTyped, TrialTypeOK, HarnessTypeOK, DaemonTypeOK
<1>3. /\ Dump.side_effects[SharedIntent] = Len(K) /\ Dump.effect_digests[SharedIntent] = G
      /\ Len(G) = Len(K) /\ Len(K) \in Nat
  BY <1>2 DEF Dump, CrossingsAgree, LedgerTypeOK, Quiet, TrialSafe
<1>4. /\ Len(AbstractCrossed) = Len(K)
      /\ \A n \in 1 .. Len(K) : AbstractCrossed[n].payload = G[n]
  <2> HIDE DEF K, G
  <2>1. QED
    BY <1>2, <1>3 DEF Crossing
<1>5. outcome = Classify(SharedIntent, Dump, store) /\ outcome # "raises"
  BY <1>1, <1>2 DEF VerdictOK, Quiet
<1>6. Verify(store) = "ok"
  BY <1>5, ChainNeverBroken DEF Classify, Quiet
<1> HIDE DEF K, G
<1>7. outcome = IF Len(K) >= 2 THEN CrossingOutcome(G)
                ELSE IF Len(K) = 1 THEN "exactly_once" ELSE "lost"
  BY <1>3, <1>5, <1>6 DEF Classify
<1> DEFINE differ == \E m, n \in 1 .. Len(K) : G[m] # G[n]
<1>8. D!Observed = CASE Len(K) = 0 -> "lost"
                     [] Len(K) = 1 -> "exactly_once"
                     [] OTHER -> IF differ THEN "diverged" ELSE "duplicated"
  <2>1. differ <=> \E m, n \in 1 .. Len(AbstractCrossed) :
                     AbstractCrossed[m].payload # AbstractCrossed[n].payload
    BY <1>4
  <2> HIDE DEF differ
  <2>2. QED
    BY <1>4, <2>1, Zenon DEF D!Observed
<1>9. CrossingOutcome(G) = CASE Len(K) = 0 -> "lost"
                             [] Len(K) = 1 -> "exactly_once"
                             [] OTHER -> IF differ THEN "diverged" ELSE "duplicated"
  BY <1>3, ZenonT(30) DEF CrossingOutcome
<1> HIDE DEF differ
<1>10. outcome = D!Observed
  BY <1>3, <1>7, <1>8, <1>9
<1>11. QED
  BY <1>1, <1>10

\* As long as nobody but the barrier kills, nothing fails but the ledger's writes
\* and no value is drawn twice, every trial of the controls that is scored ends in
\* the outcome predict names, for any memos and however many trials share the
\* ledger (trial.py run_trial, predict.py predict).
THEOREM OutcomeAlwaysPredicted == ASSUME Orderly PROVE TrialSpec => []OutcomeAsPredicted
<1>1. D!StepSpec => []D!PredictionHolds
  <2>1. NoMemo \notin Memos
    BY TrialAssumption
  <2>2. QED
    BY <2>1, RowsSupported, D!PredictionAlwaysHolds
<1>2. Quiet /\ D!PredictionHolds => OutcomeAsPredicted
  <2> SUFFICES ASSUME Quiet, D!PredictionHolds, Scored PROVE outcome = Predicted(trial)
    BY DEF OutcomeAsPredicted
  <2>1. outcome = D!Observed /\ D!Observed = D!Predict(RowOf(trial), PhaseOf[trial.barrier])
    BY ScoredAsObserved DEF D!PredictionHolds
  <2>2. trial.barrier \in Barrier
    BY RowKinds DEF Quiet, TrialSafe, TrialTyped, TrialTypeOK, HarnessTypeOK
  <2>3. Predicted(trial) = Predict(RowOf(trial), PhaseOf[trial.barrier])
    BY <2>2 DEF Predicted, HiddenPredictions, ReceiverBarrier, Barrier
  <2>4. D!Predict(RowOf(trial), PhaseOf[trial.barrier])
          = Predict(RowOf(trial), PhaseOf[trial.barrier])
    BY DEF D!Predict, D!PredictBetween, Predict, PredictBetween
  <2>5. QED
    BY <2>1, <2>3, <2>4
<1>3. QED
  BY <1>1, <1>2, QuietAlways, ImplementsLifecycle, SameLifecycle, PTL

\* What the prediction says of the controls at the lethal barrier.
LEMMA PredictedBetween ==
  ASSUME NEW t \in Trials, t.barrier = "b1"
  PROVE  /\ Idempotent(t) =>
              (Predicted(t) = "exactly_once" <=> TwoPhase(t) \/ ~ Nondeterministic(t))
         /\ Predicted(t) = "diverged" <=> Nondeterministic(t) /\ ~ TwoPhase(t)
         /\ Idempotent(t) => ~ PersistThenEffect(t)
         /\ Nondeterministic(t) => Idempotent(t)
<1>1. Predicted(t) = Predict(RowOf(t), "between")
  BY DEF Predicted, HiddenPredictions, ReceiverBarrier, Barrier, PhaseOf
<1>2. t.mode \in DOMAIN ControlRows /\ RowOf(t) = ControlRows[t.mode]
  BY ControlRow
<1>3. QED
  BY <1>1, <1>2 DEF ControlRows, Row, Predict, PredictBetween, Idempotent, TwoPhase,
                    Nondeterministic, PersistThenEffect

\* Under the same assumption, what the recomputability probe reads off the keys of a
\* trial crashed at the lethal barrier is what the oracle reads off its digests:
\* recomputable crossed once, not recomputable diverged (recomputability.py probe).
THEOREM RecomputableAlwaysDecides ==
  ASSUME Orderly PROVE TrialSpec => []RecomputableDecides
<1>1. Quiet /\ OutcomeAsPredicted => RecomputableDecides
  <2> SUFFICES ASSUME Quiet, OutcomeAsPredicted, Scored, trial.barrier = "b1"
               PROVE  LET verdict == Recomputability(dump.effect_keys[Intent]) IN
                        /\ verdict = "RECOMPUTABLE" <=> Idempotent(trial) /\ outcome = "exactly_once"
                        /\ verdict = "NOT_RECOMPUTABLE" <=> outcome = "diverged"
    BY DEF RecomputableDecides
  <2> DEFINE K == effect_keys[SharedIntent]
             G == effect_digests[SharedIntent]
             used == {K[n] : n \in 1 .. Len(K)}
             verdict == Recomputability(K)
  <2>1. trial \in Trials /\ Intent = SharedIntent /\ dump.effect_keys[Intent] = K
    BY CrossedHere DEF Quiet, VerdictOK, Scored, Dump
  <2>2. outcome = Predicted(trial)
    BY DEF OutcomeAsPredicted
  <2>3. /\ K \in Seq(Keys \cup {NoKey}) /\ Len(K) \in Nat
        /\ \A n \in 1 .. Len(K) : K[n] = RowKey(trial, G[n]) /\ RowDraw(trial, G[n])
    BY CrossedHere DEF Quiet, TrialSafe, TrialTyped, TrialTypeOK, HarnessTypeOK, DaemonTypeOK,
                       LedgerTypeOK, ContentOK, OwnEffect
  <2>4. /\ ContentKey(NoMemo) # NoKey /\ PreparedKey # NoKey
        /\ \A m \in Memos : ContentKey(m) \notin {NoKey, ContentKey(NoMemo)}
    <3>1. \A m \in Memos \cup {NoMemo} : ContentKey(m) \in Keys
      BY TrialAssumption DEF EffectKeys
    <3>2. PreparedKey \in Keys
      BY TrialAssumption DEF EffectKeys
    <3>3. \A m \in Memos : ContentKey(m) # ContentKey(NoMemo)
      BY TrialAssumption DEF ContentKey
    <3>4. QED
      BY <3>1, <3>2, <3>3, KeyAssumption
  <2>5. verdict = CASE used \subseteq {NoKey} -> "NO_IDENTITY"
                    [] used = {ExpectedKey(trial)} -> "RECOMPUTABLE"
                    [] used \notin {{}, {NoKey}, {ExpectedKey(trial)}} -> "NOT_RECOMPUTABLE"
    BY Zenon DEF Recomputability
  <2>6. ExpectedKey(trial) # NoKey
    BY <2>4 DEF ExpectedKey
  <2>7. Idempotent(trial) => K # << >>
    <3>1. Idempotent(trial) => EffectFirst
      BY <2>1, PredictedBetween DEF EffectFirst
    <3>2. QED
      BY <3>1 DEF Quiet, ProgressOK, Scored, EffectMade
  <2> HIDE DEF K, G, verdict
  <2>8. Idempotent(trial) => 1 \in 1 .. Len(K)
    BY <2>3, <2>7
  <2>9. CASE Idempotent(trial) /\ (TwoPhase(trial) \/ ~ Nondeterministic(trial))
    <3>1. \A n \in 1 .. Len(K) : K[n] = ExpectedKey(trial)
      BY <2>3, <2>9 DEF RowKey, RowDraw, ExpectedKey
    <3>2. used = {ExpectedKey(trial)}
      BY <2>8, <2>9, <3>1
    <3>3. verdict = "RECOMPUTABLE"
      BY <2>5, <2>6, <3>2
    <3>4. QED
      BY <2>1, <2>2, <2>9, <3>3, PredictedBetween DEF verdict
  <2>10. CASE Idempotent(trial) /\ Nondeterministic(trial) /\ ~ TwoPhase(trial)
    <3>1. \A n \in 1 .. Len(K) : K[n] \notin {NoKey, ExpectedKey(trial)}
      BY <2>3, <2>4, <2>10 DEF RowKey, RowDraw, ExpectedKey
    <3>2. K[1] \in used /\ K[1] \notin {NoKey, ExpectedKey(trial)}
      BY <2>8, <2>10, <3>1
    <3> HIDE DEF used
    <3>3. ~ (used \subseteq {NoKey}) /\ used \notin {{}, {NoKey}, {ExpectedKey(trial)}}
      BY <3>2
    <3>4. verdict = "NOT_RECOMPUTABLE"
      BY <2>5, <3>3
    <3>5. QED
      BY <2>1, <2>2, <2>10, <3>4, PredictedBetween DEF verdict
  <2>11. CASE ~ Idempotent(trial)
    <3>1. \A n \in 1 .. Len(K) : K[n] = NoKey
      BY <2>3, <2>11 DEF RowKey, Idempotent, TwoPhase
    <3>2. used \subseteq {NoKey}
      BY <3>1
    <3> HIDE DEF used
    <3>3. verdict = "NO_IDENTITY"
      BY <2>5, <2>6, <3>2
    <3>4. QED
      BY <2>1, <2>2, <2>11, <3>3, PredictedBetween DEF verdict
  <2>12. QED
    BY <2>1, <2>9, <2>10, <2>11, KindsOf
<1>2. QED
  BY <1>1, QuietAlways, OutcomeAlwaysPredicted, PTL
=============================================================================
