--------------------------- MODULE RecoveryProofs ---------------------------
(***************************************************************************)
(* What a recovery makes of what the crash left: when it hangs on a claim, *)
(* what the tables and the history it leaves behind are evidence of, and   *)
(* what a service's marker tells of the requests its trial made.           *)
(***************************************************************************)
EXTENDS EngineProofs

-----------------------------------------------------------------------------
(***************************************************************************)
(* A recovery that stalls.  Only the Vercel fixture's hangs, on a step the *)
(* crash left claimed and not created: a claim made in the process itself  *)
(* is gone before it starts another step.                                  *)
(***************************************************************************)
CompleteSteps == {"prepareIdentity", "charge", "sentinel"}
Hangs(s) == Has({"hang"}, s)

\* c is the claim the process found.
StallAt(t, s, d, c) ==
  IF t.engine = "vercel"
    THEN /\ Hangs(s) => c = "linked"
         /\ Has({"link_claim", "write_created"}, s) => Has(CompleteSteps, s)
         /\ Has({"start_step"}, s) /\ ~ Has(CompleteSteps, s) => d.claim \in {"none", c}
    ELSE ~ Hangs(s)

\* What the engines other than Vercel put in a program hangs nowhere.
LEMMA HangConcat ==
  ASSUME NEW u \in Programs, NEW v \in Programs, ~ Hangs(u), ~ Hangs(v)
  PROVE  u \o v \in Programs /\ ~ Hangs(u \o v)
BY HasConcat, ConcatPrograms DEF Hangs

LEMMA HangArmed ==
  ASSUME NEW s \in Programs, ~ Hangs(s), NEW b
  PROVE  ArmedWith(s, b) \in Programs /\ ~ Hangs(ArmedWith(s, b))
BY HasArmed, OrderedArmed DEF Hangs

LEMMA HangTail ==
  ASSUME NEW s \in Programs, s # << >>, ~ Hangs(s)
  PROVE  Tail(s) \in Programs /\ ~ Hangs(Tail(s))
BY HasTail, TailElements DEF Hangs, Programs

LEMMA HangMerge ==
  ASSUME NEW u \in Programs, NEW v \in Programs, ~ Hangs(u), ~ Hangs(v),
         NEW order \in Interleavings(u, v)
  PROVE  order \in Programs /\ ~ Hangs(order)
BY HasMerge, MergePlaces DEF Hangs

LEMMA LangGraphHangs ==
  ASSUME NEW t \in Trials, NEW b
  PROVE  /\ ArmedWith(InvokeInput(t), b) \in Programs /\ ~ Hangs(ArmedWith(InvokeInput(t), b))
         /\ \A d \in LangGraphDisk : ~ Hangs(LangGraphRecoveryRun(t, d))
         /\ \A order \in Interleavings(<<"b1", "put_writes", "lg_pending_writes_after_persist">>,
                                       <<"put_done", "b2">>) :
              ArmedWith(order, b) \in Programs /\ ~ Hangs(ArmedWith(order, b))
<1> DEFINE first == <<"lg_pre_first_checkpoint", "put_entry", "b0">>
           writes == <<"b1", "put_writes", "lg_pending_writes_after_persist">>
           put == <<"put_done", "b2">>
           prepare == PrepareNode(t)
           charge == ChargeNode
           read == <<"read_admission">>
<1>1. /\ first \in Programs /\ prepare \in Programs /\ charge \in Programs /\ read \in Programs
      /\ writes \in Programs /\ put \in Programs
      /\ <<"empty_input">> \in Programs /\ << >> \in Programs /\ <<"put_done">> \in Programs
  BY Labels DEF PrepareNode, ChargeNode, Programs
<1>2. /\ ~ Hangs(first) /\ ~ Hangs(prepare) /\ ~ Hangs(charge) /\ ~ Hangs(read)
      /\ ~ Hangs(writes) /\ ~ Hangs(put)
      /\ ~ Hangs(<<"empty_input">>) /\ ~ Hangs(<< >>) /\ ~ Hangs(<<"put_done">>)
  BY DEF PrepareNode, ChargeNode, Has, Hangs
<1> DEFINE node == prepare \o charge
<1>3. node \in Programs /\ ~ Hangs(node)
  BY <1>1, <1>2, HangConcat
<1>4. InvokeInput(t) = (first \o prepare) \o charge
  BY DEF InvokeInput
<1>5. ASSUME NEW d \in LangGraphDisk PROVE ~ Hangs(LangGraphRecoveryRun(t, d))
  <2>1. /\ d.checkpoint \in {"none", "entry", "prepared", "done"} /\ d.writes \in BOOLEAN
    BY DEF LangGraphDisk
  <2>2. InvokeNothing(t, d) \in {<<"empty_input">>, << >>, node, charge, <<"put_done">>}
    BY <2>1 DEF InvokeNothing
  <2> DEFINE u == InvokeNothing(t, d)
             v == IF t.mode \in AdmissionArms THEN read ELSE << >>
  <2> HIDE DEF node, charge, read
  <2>3. u \in Programs /\ ~ Hangs(u)
    BY <1>1, <1>2, <1>3, <2>2
  <2>4. v \in Programs /\ ~ Hangs(v)
    BY <1>1, <1>2
  <2>5. LangGraphRecoveryRun(t, d) = u \o v
    BY DEF LangGraphRecoveryRun, read
  <2> HIDE DEF u, v
  <2>6. QED
    BY <2>3, <2>4, <2>5, HangConcat
<1> HIDE DEF first, prepare, charge, writes, put
<1>6. ASSUME NEW order \in Interleavings(writes, put)
      PROVE  ArmedWith(order, b) \in Programs /\ ~ Hangs(ArmedWith(order, b))
  BY <1>1, <1>2, HangMerge, HangArmed
<1>7. first \o prepare \in Programs /\ ~ Hangs(first \o prepare)
  BY <1>1, <1>2, HangConcat
<1>8. InvokeInput(t) \in Programs /\ ~ Hangs(InvokeInput(t))
  BY <1>1, <1>2, <1>4, <1>7, HangConcat
<1>9. QED
  BY <1>5, <1>6, <1>8, HangArmed DEF writes, put

LEMMA DbosHangs ==
  ASSUME NEW t \in Trials
  PROVE  /\ ~ Hangs(DbosCrashRun(t))
         /\ \A tables \in DbosDisk : ~ Hangs(DbosRecoveryRun(t, tables))
<1>1. ASSUME NEW step \in StepName, NEW body, NEW recorded
      PROVE  Performs(step, body, recorded) \in Programs /\ ~ Hangs(Performs(step, body, recorded))
  <2> DEFINE p == StepProgram(step)
  <2>1. ~ Hangs(p) /\ ~ Hangs(<< >>)
    BY DEF StepName, StepProgram, Has, Hangs
  <2>2. Performs(step, body, recorded) \in Programs
    BY StepPrograms
  <2> HIDE DEF p
  <2>3. Performs(step, body, recorded) \in {p, << >>}
    BY DEF Performs, p
  <2>4. QED
    BY <2>1, <2>2, <2>3
<1>2. ASSUME NEW body, NEW recorded
      PROVE  Workflow(body, recorded) \in Programs /\ ~ Hangs(Workflow(body, recorded))
  <2> DEFINE a == Performs("prepare_identity_step", body, recorded)
             b == Performs("effect_step", body, recorded)
             c == Performs("sentinel_step", body, recorded)
             d == Performs("billing_charge", body, recorded)
             e == Performs("shipping_charge", body, recorded)
             f == <<"dbos_workflow_outcome_uncommitted", "commit_outcome">>
  <2>1. /\ a \in Programs /\ ~ Hangs(a) /\ b \in Programs /\ ~ Hangs(b)
        /\ c \in Programs /\ ~ Hangs(c) /\ d \in Programs /\ ~ Hangs(d)
        /\ e \in Programs /\ ~ Hangs(e)
    BY <1>1 DEF StepName
  <2>2. f \in Programs /\ ~ Hangs(f)
    BY Labels DEF Programs, Has, Hangs
  <2>3. Workflow(body, recorded) = ((((a \o b) \o c) \o d) \o e) \o f
    BY DEF Workflow
  <2> HIDE DEF a, b, c, d, e, f
  <2>4. a \o b \in Programs /\ ~ Hangs(a \o b)
    BY <2>1, HangConcat
  <2>5. (a \o b) \o c \in Programs /\ ~ Hangs((a \o b) \o c)
    BY <2>1, <2>4, HangConcat
  <2>6. ((a \o b) \o c) \o d \in Programs /\ ~ Hangs(((a \o b) \o c) \o d)
    BY <2>1, <2>5, HangConcat
  <2>7. (((a \o b) \o c) \o d) \o e \in Programs /\ ~ Hangs((((a \o b) \o c) \o d) \o e)
    BY <2>1, <2>6, HangConcat
  <2>8. QED
    BY <2>2, <2>3, <2>7, HangConcat
<1>3. <<"enqueue">> \in Programs /\ ~ Hangs(<<"enqueue">>) /\ ~ Hangs(<<"no_workflow">>)
      /\ ~ Hangs(<< >>)
  BY Labels DEF Programs, Has, Hangs
<1>4. ~ Hangs(DbosCrashRun(t))
  <2> DEFINE w == Workflow(CrashBody(t), 0)
             u == <<"enqueue">>
  <2>1. w \in Programs /\ ~ Hangs(w) /\ u \in Programs /\ ~ Hangs(u)
    BY <1>2, <1>3
  <2>2. DbosCrashRun(t) = ArmedWith(u \o w, t.barrier)
    BY DEF DbosCrashRun
  <2> HIDE DEF u, w
  <2>3. QED
    BY <2>1, <2>2, HangConcat, HangArmed
<1>5. ASSUME NEW tables \in DbosDisk PROVE ~ Hangs(DbosRecoveryRun(t, tables))
  <2> DEFINE w == Workflow(RecoveryBody(t), Len(tables.outputs))
  <2>1. w \in Programs /\ ~ Hangs(w)
    BY <1>2
  <2>2. DbosRecoveryRun(t, tables) \in {<<"no_workflow">>, << >>, ArmedWith(w, "none")}
    BY DEF DbosDisk, DbosRecoveryRun
  <2> HIDE DEF w
  <2>3. QED
    BY <1>3, <2>1, <2>2, HangArmed
<1>6. QED
  BY <1>4, <1>5

LEMMA TemporalHangs ==
  ASSUME NEW b
  PROVE  /\ ~ Hangs(<<"start_workflow", "poll">>) /\ ~ Hangs(<<"poll">>)
         /\ \A s \in {<<"tmp_workflow_task_replay", "decide">>,
                      <<"b0", "send", "await", "b1", "report">>, <<"b2", "report">>} :
              ArmedWith(s, b) \in Programs /\ ~ Hangs(ArmedWith(s, b))
<1>1. ~ Hangs(<<"start_workflow", "poll">>) /\ ~ Hangs(<<"poll">>)
  BY DEF Has, Hangs
<1>2. ASSUME NEW s \in {<<"tmp_workflow_task_replay", "decide">>,
                        <<"b0", "send", "await", "b1", "report">>, <<"b2", "report">>}
      PROVE  s \in Programs /\ ~ Hangs(s)
  <2>1. <<"tmp_workflow_task_replay", "decide">> \in Programs
    BY Labels DEF Programs
  <2>2. <<"b0", "send", "await", "b1", "report">> \in Programs /\ <<"b2", "report">> \in Programs
    BY Labels DEF Programs
  <2>3. s \in Programs
    BY <2>1, <2>2
  <2>4. ~ Hangs(s)
    BY DEF Has, Hangs
  <2>5. QED
    BY <2>3, <2>4
<1>3. QED
  BY <1>1, <1>2, HangArmed

LEMMA ServiceHangs ==
  ASSUME NEW t
  PROVE  /\ \A journal : ~ Hangs(RestateRun(t, journal))
         /\ ~ Hangs(<<"create_turn">>) /\ ~ Hangs(<<"kill">>)
         /\ \A turns, order : order \in Interleavings(<<"answer_create">>, ModelResponse(turns)) =>
              order \in Programs /\ ~ Hangs(order)
<1>1. ~ Hangs(<<"create_turn">>) /\ ~ Hangs(<<"kill">>)
  BY DEF Has, Hangs
<1>2. ASSUME NEW journal PROVE ~ Hangs(RestateRun(t, journal))
  <2> DEFINE u == IF journal.journaled THEN << >> ELSE <<"send", "await", "b1", "journal">>
             a == <<"b0">>
             z == <<"b2">>
  <2>1. /\ u \in Programs /\ a \in Programs /\ z \in Programs
        /\ ~ Hangs(u) /\ ~ Hangs(a) /\ ~ Hangs(z)
    <3>1. /\ << >> \in Programs /\ <<"send", "await", "b1", "journal">> \in Programs
          /\ ~ Hangs(<< >>) /\ ~ Hangs(<<"send", "await", "b1", "journal">>)
      BY Labels DEF Programs, Has, Hangs
    <3>2. a \in Programs /\ z \in Programs
      BY Labels DEF Programs
    <3>3. ~ Hangs(a) /\ ~ Hangs(z)
      BY DEF Has, Hangs
    <3>4. QED
      BY <3>1, <3>2, <3>3
  <2>2. RestateRun(t, journal) = ArmedWith((a \o u) \o z, t.barrier)
    BY DEF RestateRun
  <2> HIDE DEF u, a, z
  <2>3. a \o u \in Programs /\ ~ Hangs(a \o u)
    BY <2>1, HangConcat
  <2>4. QED
    BY <2>1, <2>2, <2>3, HangConcat, HangArmed
<1>3. ASSUME NEW turns, NEW order \in Interleavings(<<"answer_create">>, ModelResponse(turns))
      PROVE  order \in Programs /\ ~ Hangs(order)
  <2>1. /\ <<"answer_create">> \in Programs /\ ModelResponse(turns) \in Programs
        /\ ~ Hangs(<<"answer_create">>) /\ ~ Hangs(ModelResponse(turns))
    BY Labels DEF Programs, Has, Hangs, ModelResponse, ReceiverBarrier
  <2>2. QED
    BY <2>1, HangMerge
<1>4. QED
  BY <1>1, <1>2, <1>3

LEMMA HangStarts ==
  ASSUME NEW t \in Trials, t.engine # "vercel"
  PROVE  /\ ~ Hangs(CrashRun(t))
         /\ \A d \in EngineDisk(t) : ~ Hangs(RecoveryRun(t, d))
<1>1. CASE t.engine = "langgraph"
  BY <1>1, LangGraphHangs DEF CrashRun, RecoveryRun, LangGraphCrashRun, EngineDisk
<1>2. CASE t.engine = "dbos"
  BY <1>2, DbosHangs DEF CrashRun, RecoveryRun, EngineDisk
<1>3. CASE t.engine = "temporal"
  BY <1>3, TemporalHangs
     DEF CrashRun, RecoveryRun, TemporalCrashRun, TemporalRecoveryRun
<1>4. CASE t.engine = "restate"
  BY <1>4, ServiceHangs DEF CrashRun, RecoveryRun
<1>5. CASE t.engine = "trueforge"
  BY <1>5, ServiceHangs
     DEF CrashRun, RecoveryRun, TrueForgeCrashRun, TrueForgeRecoveryRun
<1>6. QED
  BY <1>1, <1>2, <1>3, <1>4, <1>5, EngineRow

LEMMA HangStep ==
  ASSUME EngineTyped, EngineProcess, exit' = "running", trial.engine # "vercel", ~ Hangs(todo)
  PROVE  ~ Hangs(todo')
<1>1. todo \in Programs /\ trial \in Trials
  BY DEF EngineTyped, HarnessTypeOK, RunTyped, StateAt
<1>2. CASE todo # << >> /\ todo' = Tail(todo)
  BY <1>1, <1>2, HangTail
<1>3. CASE EngineSend \/ ReceiveReply
  BY <1>2, <1>3, SendMoves DEF ReceiveReply, Running, Advance
<1>4. CASE EngineSamplerFails \/ Return
  BY <1>4 DEF EngineSamplerFails, SamplerFails, Raise, Return, ExitWith
<1>5. CASE trial.engine = "langgraph" /\ LangGraphProcess
  <2>1. CASE Race
    <3>1. PICK order \in Interleavings(<<"b1", "put_writes", "lg_pending_writes_after_persist">>,
                                       <<"put_done", "b2">>) :
            todo' = ArmedWith(order, Armed) \o Tail(todo)
      BY <2>1 DEF Race
    <3>2. ArmedWith(order, Armed) \in Programs /\ ~ Hangs(ArmedWith(order, Armed))
      BY <1>1, LangGraphHangs
    <3>3. Tail(todo) \in Programs /\ ~ Hangs(Tail(todo))
      BY <1>1, <2>1, HangTail DEF Race, Running
    <3>4. QED
      BY <3>1, <3>2, <3>3, HangConcat
  <2>2. CASE ReadAdmission
    <3> DEFINE u == ArmedWith(InvokeInput(trial), "none")
    <3>1. todo' = Tail(todo) \/ todo' = (u \o Completed) \o Tail(todo)
      BY <2>2 DEF ReadAdmission, Advance
    <3>2. u \in Programs /\ ~ Hangs(u)
      BY <1>1, LangGraphHangs
    <3>3. Tail(todo) \in Programs /\ ~ Hangs(Tail(todo))
      BY <1>1, <2>2, HangTail DEF ReadAdmission, Running
    <3>4. Completed \in Programs /\ ~ Hangs(Completed)
      BY Labels DEF Completed, Programs, Has, Hangs
    <3> HIDE DEF u
    <3>5. u \o Completed \in Programs /\ ~ Hangs(u \o Completed)
      BY <3>2, <3>4, HangConcat
    <3>6. QED
      BY <3>1, <3>3, <3>5, HangConcat
  <2>3. CASE ~ Race /\ ~ ReadAdmission
    <3>1. todo # << >> /\ todo' = Tail(todo)
      BY <1>5, <2>3
         DEF LangGraphProcess, LangGraphKill, KillSelf, PutCheckpoint, PutWrites, EmptyInput,
             Complete, Persists, Raise, Running, Advance, ExitWith
    <3>2. QED
      BY <1>2, <3>1
  <2>4. QED
    BY <2>1, <2>2, <2>3
<1>6. CASE trial.engine = "dbos" /\ DbosProcess
  <2>1. todo # << >> /\ todo' = Tail(todo)
    BY <1>6 DEF DbosProcess, KillSelf, Enqueue, CommitOutput, CommitOutcome, SendCharge,
                SendPayload, Persists, Raise, Running, Advance, ExitWith
  <2>2. QED
    BY <1>2, <2>1
<1>7. CASE trial.engine = "temporal" /\ TemporalProcess
  <2>1. CASE TemporalSamplerFails
    BY <2>1, TemporalHangs DEF TemporalSamplerFails
  <2>2. CASE PollWorkflowTask \/ PollActivity
    <3>1. PICK s \in {<<"tmp_workflow_task_replay", "decide">>,
                      <<"b0", "send", "await", "b1", "report">>, <<"b2", "report">>} :
            todo' = ArmedWith(s, Armed) \o todo
      BY <2>2 DEF PollWorkflowTask, PollActivity, Takes
    <3>2. ArmedWith(s, Armed) \in Programs /\ ~ Hangs(ArmedWith(s, Armed))
      BY TemporalHangs
    <3>3. QED
      BY <1>1, <3>1, <3>2, HangConcat
  <2>3. CASE ~ TemporalSamplerFails /\ ~ PollWorkflowTask /\ ~ PollActivity
    <3>1. todo # << >> /\ todo' = Tail(todo)
      BY <1>7, <2>3
         DEF TemporalProcess, StartWorkflow, Decide, TemporalKill, KillSelf, WatchHistory,
             ReportActivity, AwaitResult, Persists, Raise, Running, Advance, ExitWith
    <3>2. QED
      BY <1>2, <3>1
  <2>4. QED
    BY <2>1, <2>2, <2>3
<1>8. CASE trial.engine = "restate" /\ RestateProcess
  <2>1. todo' = <<"kill">> \/ (todo # << >> /\ todo' = Tail(todo))
    BY <1>8 DEF RestateProcess, CrashOnce, Kill, Journal, Persists, Running, Advance, ExitWith
  <2>2. QED
    BY <1>2, <2>1, ServiceHangs
<1>9. CASE trial.engine = "trueforge" /\ TrueForgeProcess
  <2>1. CASE CreateTurn
    <3>1. PICK order \in Interleavings(<<"answer_create">>, ModelResponse(disk)) : todo' = order
      BY <2>1 DEF CreateTurn
    <3>2. QED
      BY <3>1, ServiceHangs
  <2>2. CASE ~ CreateTurn
    <3>1. todo' = <<"kill">> \/ (todo # << >> /\ todo' = Tail(todo))
      BY <1>9, <2>2 DEF TrueForgeProcess, AnswerCreate, LogEvent, Logs, CrashOnce, Kill,
                        TurnDone, Persists, Running, Advance, ExitWith
    <3>2. QED
      BY <1>2, <3>1, ServiceHangs
  <2>3. QED
    BY <2>1, <2>2
<1>11. CASE EngineRejects
  <2>1. todo # << >> /\ todo' = ArmedWith(Tail(todo), "none")
    BY <1>11, RejectedReply DEF EngineRejects, ToolThrows, RejectReply
  <2>2. Tail(todo) \in Programs /\ ~ Hangs(Tail(todo))
    BY <1>1, <2>1, HangTail
  <2>3. QED
    BY <2>1, <2>2, HangArmed
<1>10. QED
  BY <1>3, <1>4, <1>5, <1>6, <1>7, <1>8, <1>9, <1>11
     DEF EngineProcess, EngineSend, EngineRejects

-----------------------------------------------------------------------------
(***************************************************************************)
(* The Vercel fixture's programs.                                          *)
(***************************************************************************)
ClaimWrites == {"link_claim", "write_created"}

LEMMA StallTail ==
  ASSUME NEW t, t.engine = "vercel", NEW s \in Programs, s # << >>, NEW d, NEW c,
         StallAt(t, s, d, c), Head(s) \notin CompleteSteps,
         NEW e, e.claim = d.claim \/ Head(s) \in ClaimWrites
  PROVE  StallAt(t, Tail(s), e, c)
<1>1. \A X : Has(X, s) <=> Head(s) \in X \/ Has(X, Tail(s))
  BY HasTail
<1>2. /\ Hangs(s) => c = "linked"
      /\ Has(ClaimWrites, s) => Has(CompleteSteps, s)
      /\ Has({"start_step"}, s) /\ ~ Has(CompleteSteps, s) => d.claim \in {"none", c}
  BY DEF StallAt, ClaimWrites
<1>3. Has(CompleteSteps, s) <=> Has(CompleteSteps, Tail(s))
  BY <1>1
<1>4. Hangs(Tail(s)) => c = "linked"
  BY <1>1, <1>2 DEF Hangs
<1>5. Has(ClaimWrites, Tail(s)) => Has(CompleteSteps, Tail(s))
  BY <1>1, <1>2, <1>3
<1>6. ASSUME Has({"start_step"}, Tail(s)), ~ Has(CompleteSteps, Tail(s))
      PROVE  e.claim \in {"none", c}
  <2>1. ~ Has(CompleteSteps, s) /\ Has({"start_step"}, s)
    BY <1>1, <1>3, <1>6
  <2>2. Head(s) \notin ClaimWrites
    BY <1>1, <1>2, <2>1
  <2>3. QED
    BY <1>2, <2>1, <2>2
<1>7. QED
  BY <1>4, <1>5, <1>6 DEF StallAt, ClaimWrites

\* Steps that are only to be started hang nowhere and claim nothing yet.
LEMMA StartsStall ==
  ASSUME NEW t, t.engine = "vercel", NEW w, \A n \in 1 .. Len(w) : w[n] = "start_step",
         NEW d, NEW c, d.claim \in {"none", c}
  PROVE  /\ StallAt(t, w, d, c)
         /\ ~ Hangs(w) /\ ~ Has(ClaimWrites, w) /\ ~ Has(CompleteSteps, w)
<1>1. ~ Hangs(w) /\ ~ Has(ClaimWrites, w) /\ ~ Has(CompleteSteps, w)
  BY DEF Hangs, Has, ClaimWrites, CompleteSteps
<1>2. QED
  BY <1>1 DEF StallAt, ClaimWrites

LEMMA BodyHangs ==
  ASSUME NEW step \in CompleteSteps, NEW b, NEW v \in ClaimLeft,
         NEW body \in Interleavings(v, StepBody(step)) \cup {StepBody(step)}
  PROVE  ArmedWith(body, b) \in Programs /\ ~ Hangs(ArmedWith(body, b))
<1> DEFINE w == StepBody(step)
<1>1. v \in Programs /\ ~ Hangs(v)
  <2>1. << >> \in Programs /\ ~ Hangs(<< >>)
    BY DEF Programs, Has, Hangs
  <2>2. <<"write_created">> \in Programs /\ ~ Hangs(<<"write_created">>)
    BY Labels DEF Programs, Has, Hangs
  <2>3. /\ <<"link_claim", "write_created">> \in Programs
        /\ ~ Hangs(<<"link_claim", "write_created">>)
    BY Labels DEF Programs, Has, Hangs
  <2>4. QED
    BY <2>1, <2>2, <2>3 DEF ClaimLeft
<1>2. w \in {<< >>, <<"b0", "send", "await", "b1">>, <<"b2">>}
  BY DEF StepBody, CompleteSteps
<1>3. \A s \in {<< >>, <<"b0", "send", "await", "b1">>, <<"b2">>} : s \in Programs /\ ~ Hangs(s)
  <2>1. << >> \in Programs /\ <<"b0", "send", "await", "b1">> \in Programs
    BY Labels DEF Programs
  <2>2. <<"b2">> \in Programs
    BY Labels DEF Programs
  <2>3. ~ Hangs(<< >>) /\ ~ Hangs(<<"b0", "send", "await", "b1">>) /\ ~ Hangs(<<"b2">>)
    BY DEF Has, Hangs
  <2>4. QED
    BY <2>1, <2>2, <2>3
<1> HIDE DEF w
<1>4. w \in Programs /\ ~ Hangs(w)
  BY <1>2, <1>3
<1>5. body \in Programs /\ ~ Hangs(body)
  <2>1. CASE body = w
    BY <1>4, <2>1
  <2>2. CASE body \in Interleavings(v, w)
    BY <1>1, <1>4, <2>2, HangMerge
  <2>3. QED
    BY <2>1, <2>2 DEF w
<1>6. QED
  BY <1>5, HangArmed

\* A step under way hangs nowhere, and its own completion is ahead of it.
LEMMA BodyStalls ==
  ASSUME NEW t, t.engine = "vercel", NEW b, NEW d, NEW c,
         NEW step \in CompleteSteps, NEW v \in ClaimLeft,
         NEW body \in Interleavings(v, StepBody(step)) \cup {StepBody(step)},
         NEW w \in Programs, \A i \in 1 .. Len(w) : w[i] = "start_step"
  PROVE  StallAt(t, ArmedWith(body, b) \o <<step>> \o w, d, c)
<1> DEFINE u == ArmedWith(body, b)
           one == <<step>>
           y == u \o one
<1>1. u \in Programs /\ ~ Hangs(u)
  BY BodyHangs
<1>2. one \in Programs
  BY Labels DEF Programs, CompleteSteps
<1>3. ~ Hangs(one) /\ Has(CompleteSteps, one)
  BY DEF Has, Hangs, CompleteSteps
<1>4. ~ Hangs(w)
  BY DEF Has, Hangs
<1> HIDE DEF u, one
<1>5. y \in Programs /\ ~ Hangs(y) /\ Has(CompleteSteps, y)
  BY <1>1, <1>2, <1>3, HangConcat, HasConcat
<1> HIDE DEF y
<1>6. ~ Hangs(y \o w) /\ Has(CompleteSteps, y \o w)
  BY <1>4, <1>5, HangConcat, HasConcat
<1>7. StallAt(t, y \o w, d, c)
  BY <1>6 DEF StallAt
<1>8. QED
  BY <1>7 DEF y, u, one

LEMMA VercelStall ==
  ASSUME trial \in Trials, trial.engine = "vercel", StateAt(trial, harness, todo, disk),
         NEW c, StallAt(trial, todo, disk, c), VercelProcess, exit' = "running"
  PROVE  StallAt(trial, todo', disk', c)
<1>1. todo \in Programs /\ VercelAt(trial, todo, disk) /\ disk \in VercelDisk
  BY DEF StateAt, VercelAt
<1>2. CASE CrashOnce
  <2>1. disk'.claim = disk.claim
    BY <1>1, <1>2 DEF CrashOnce, VercelDisk
  <2>2. CASE todo' = <<"kill">>
    BY <2>2 DEF StallAt, Has, Hangs
  <2>3. CASE todo' = Tail(todo)
    <3>1. todo # << >> /\ Head(todo) = trial.barrier
      BY <1>2 DEF CrashOnce, Running
    <3>2. trial.barrier \notin CompleteSteps
      BY EngineRow DEF CompleteSteps, Barrier, HiddenBarrier, HiddenPredictions, ReceiverBarrier
    <3>3. QED
      BY <1>1, <2>1, <2>3, <3>1, <3>2, StallTail
  <2>4. QED
    BY <1>2, <2>2, <2>3 DEF CrashOnce
<1>3. CASE Kill
  BY <1>3 DEF Kill, ExitWith
<1>4. CASE CreateRun
  <2>1. /\ todo # << >> /\ Head(todo) = "create_run" /\ todo' = Tail(todo)
        /\ disk' = [disk EXCEPT !.run = TRUE]
    BY <1>4 DEF CreateRun, Running, Persists, Advance
  <2>2. disk'.claim = disk.claim
    BY <1>1, <2>1 DEF VercelDisk
  <2>3. Head(todo) \notin CompleteSteps
    BY <2>1 DEF CompleteSteps
  <2>4. QED
    BY <1>1, <2>1, <2>2, <2>3, StallTail
<1>5. CASE ClaimStep
  <2>1. todo # << >> /\ Head(todo) \in ClaimWrites /\ todo' = Tail(todo)
    BY <1>5 DEF ClaimStep, Running, Persists, Advance, ClaimWrites
  <2>2. Head(todo) \notin CompleteSteps
    BY <2>1 DEF CompleteSteps, ClaimWrites
  <2>3. QED
    BY <1>1, <2>1, <2>2, StallTail
<1>6. CASE CompleteStep
  <2>1. PICK step \in {"prepareIdentity", "charge", "sentinel"} :
          /\ Running(step)
          /\ Persists([disk EXCEPT !.completed = Append(@, step), !.claim = "none"])
    BY <1>6 DEF CompleteStep
  <2>2. /\ todo # << >> /\ Head(todo) \in StepSteps /\ todo' = Tail(todo)
        /\ disk' = [disk EXCEPT !.completed = Append(@, step), !.claim = "none"]
    BY <2>1 DEF Running, Persists, Advance, StepSteps
  <2>3. disk'.claim = "none"
    BY <1>1, <2>2 DEF VercelDisk
  <2>4. \A n \in 1 .. Len(Tail(todo)) : Tail(todo)[n] = "start_step"
    BY <1>1, <2>2, VercelHead
  <2> DEFINE w == Tail(todo)
             d == disk'
  <2>5. d.claim \in {"none", c} /\ \A n \in 1 .. Len(w) : w[n] = "start_step"
    BY <2>3, <2>4
  <2> HIDE DEF w, d
  <2>6. StallAt(trial, w, d, c)
    BY <2>5, StartsStall
  <2>7. QED
    BY <2>2, <2>6 DEF w, d
<1>7. CASE StartStep
  <2> DEFINE step == Steps(trial)[Len(disk.completed) + 1]
             w == Tail(todo)
  <2>1. todo # << >> /\ Head(todo) = "start_step" /\ disk' = disk
    BY <1>7 DEF StartStep, Running
  <2>2. /\ Len(disk.completed) + 1 \in 1 .. Len(Steps(trial)) /\ w \in Programs
        /\ \A n \in 1 .. Len(w) : w[n] = "start_step"
    BY <1>1, <2>1, VercelHead DEF StepSteps
  <2>3. step \in CompleteSteps
    BY <2>2, VercelSteps DEF CompleteSteps
  <2>4. ~ Hangs(w) /\ ~ Has(CompleteSteps, w)
    BY <2>2 DEF Has, Hangs, CompleteSteps
  <2>5. Has({"start_step"}, todo) /\ ~ Has(CompleteSteps, todo)
    BY <1>1, <2>1, <2>4, HasTail DEF CompleteSteps
  <2>6. disk.claim \in {"none", c}
    BY <2>5 DEF StallAt
  <2>7. CASE disk.claim = "linked"
    <3>1. todo' = <<"hang">> /\ c = "linked"
      BY <1>7, <2>6, <2>7 DEF StartStep
    <3>2. QED
      BY <3>1 DEF StallAt, Has
  <2>8. CASE disk.claim # "linked"
    <3>1. disk.claim \in {"none", "created"}
      BY <1>1, <2>8 DEF VercelDisk
    <3>2. PICK body \in Interleavings(<<"link_claim", "write_created">>, StepBody(step))
                          \cup {StepBody(step)} :
            todo' = ArmedWith(body, trial.barrier) \o <<step>> \o Tail(todo)
      BY <1>7, <3>1 DEF StartStep
    <3>3. <<"link_claim", "write_created">> \in ClaimLeft
      BY DEF ClaimLeft
    <3> HIDE DEF step, w
    <3>4. StallAt(trial, ArmedWith(body, trial.barrier) \o <<step>> \o w, disk', c)
      BY <2>2, <2>3, <3>2, <3>3, BodyStalls
    <3>5. QED
      BY <3>2, <3>4 DEF w
  <2>9. QED
    BY <2>7, <2>8
<1>8. QED
  BY <1>2, <1>3, <1>4, <1>5, <1>6, <1>7 DEF VercelProcess

-----------------------------------------------------------------------------
(***************************************************************************)
(* Every step.                                                             *)
(***************************************************************************)
StallOK ==
  /\ exit = "running" => StallAt(trial, todo, disk, before.disk.claim)
  /\ exit = "stalled" => trial.engine = "vercel" /\ before.disk.claim = "linked"

LEMMA ProcessStall ==
  ASSUME EngineTyped, EngineProcess, exit' = "running",
         NEW c, StallAt(trial, todo, disk, c)
  PROVE  StallAt(trial, todo', disk', c)
<1>1. trial \in Trials /\ StateAt(trial, harness, todo, disk) /\ todo \in Programs
  BY DEF EngineTyped, HarnessTypeOK, RunTyped, StateAt
<1>2. CASE trial.engine # "vercel"
  <2>1. ~ Hangs(todo)
    BY <1>2 DEF StallAt
  <2>2. ~ Hangs(todo')
    BY <1>2, <2>1, HangStep
  <2>3. QED
    BY <1>2, <2>2 DEF StallAt
<1>3. CASE trial.engine = "vercel"
  <2>1. CASE VercelProcess
    BY <1>1, <1>3, <2>1, VercelStall
  <2>2. CASE EngineSend \/ ReceiveReply
    <3>1. /\ todo # << >> /\ todo' = Tail(todo) /\ disk' = disk
          /\ Head(todo) \in {"send", "send_billing", "send_shipping", "await"}
      BY <2>2, SendMoves DEF ReceiveReply, Running, Advance
    <3>2. Head(todo) \notin CompleteSteps
      BY <3>1 DEF CompleteSteps
    <3>3. QED
      BY <1>1, <1>3, <3>1, <3>2, StallTail
  <2>3. ~ EngineSamplerFails
    BY <1>3 DEF EngineSamplerFails
  <2>4. ~ Return
    BY DEF Return, ExitWith
  <2>6. CASE RetryCharge
    <3>1. VercelAt(trial, todo, disk)
      BY <1>1, <1>3 DEF StateAt
    <3>2. PICK v \in ClaimLeft : \E body \in Interleavings(v, StepBody("charge")), w \in Programs :
                 /\ todo' = ArmedWith(body, trial.barrier) \o <<"charge">> \o w
                 /\ \A i \in 1 .. Len(w) : w[i] = "start_step"
      BY <1>1, <1>3, <2>6, <3>1, ChargeRetried
    <3>3. PICK body \in Interleavings(v, StepBody("charge")), w \in Programs :
                 /\ todo' = ArmedWith(body, trial.barrier) \o <<"charge">> \o w
                 /\ \A i \in 1 .. Len(w) : w[i] = "start_step"
      BY <3>2
    <3>4. "charge" \in CompleteSteps
      BY DEF CompleteSteps
    <3>5. QED
      BY <1>3, <3>3, <3>4, BodyStalls
  <2>5. QED
    BY <1>3, <2>1, <2>2, <2>3, <2>4, <2>6 DEF EngineProcess, EngineSend
<1>4. QED
  BY <1>2, <1>3

LEMMA StallStarts ==
  ASSUME NEW t \in Trials
  PROVE  StallAt(t, CrashRun(t), Fresh(t), Fresh(t).claim)
<1>1. CASE t.engine # "vercel"
  BY <1>1, HangStarts DEF StallAt
<1>2. CASE t.engine = "vercel"
  <2> DEFINE u == <<"create_run">>
             w == Replay(t, LocalWorld(t))
             d == LocalWorld(t)
  <2>1. Fresh(t) = d /\ d.claim = "none" /\ Len(d.completed) \in 0 .. Len(Steps(t))
    BY <1>2, VercelSteps DEF Fresh, LocalWorld
  <2>2. w \in Programs /\ \A n \in 1 .. Len(w) : w[n] = "start_step"
    BY <2>1, VercelReplay
  <2>3. CrashRun(t) = u \o w
    BY <1>2 DEF CrashRun, VercelCrashRun
  <2>4. u \in Programs /\ ~ Hangs(u) /\ ~ Has(ClaimWrites, u)
    BY Labels DEF Programs, Has, Hangs, ClaimWrites
  <2> HIDE DEF u, w, d
  <2>5. ~ Hangs(w) /\ ~ Has(ClaimWrites, w)
    BY <1>2, <2>1, <2>2, StartsStall
  <2>6. ~ Hangs(u \o w) /\ ~ Has(ClaimWrites, u \o w)
    BY <2>2, <2>4, <2>5, HangConcat, HasConcat
  <2>7. QED
    BY <1>2, <2>1, <2>3, <2>6 DEF StallAt, ClaimWrites
<1>3. QED
  BY <1>1, <1>2

LEMMA StallRecovers ==
  ASSUME NEW t \in Trials, NEW h, NEW s, NEW d, StateAt(t, h, s, d)
  PROVE  StallAt(t, RecoveryRun(t, d), d, d.claim)
<1>1. d \in EngineDisk(t)
  BY StateDisk
<1>2. CASE t.engine # "vercel"
  BY <1>1, <1>2, HangStarts DEF StallAt
<1>3. CASE t.engine = "vercel"
  <2> DEFINE w == Replay(t, d)
  <2>1. Len(d.completed) \in 0 .. Len(Steps(t))
    BY <1>3 DEF StateAt, VercelAt
  <2>2. \A n \in 1 .. Len(w) : w[n] = "start_step"
    BY <2>1, VercelReplay
  <2>3. RecoveryRun(t, d) = w
    BY <1>3 DEF RecoveryRun, VercelRecoveryRun
  <2> HIDE DEF w
  <2>4. QED
    BY <1>3, <2>2, <2>3, StartsStall
<1>4. QED
  BY <1>2, <1>3

\* The one step that stalls a process, where none is stopped for its time.
LEMMA StallsHang ==
  ASSUME EngineNext, ~ Failures, Removed, exit' = "stalled"
  PROVE  Running("hang") \/ EngineProcess
<1>1. ~ StrayKill /\ ~ Timeout
  BY DEF StrayKill, ExitWith, Timeout
<1>2. RecoveryStalls => Running("hang")
  BY DEF RecoveryStalls
<1>3. exit # "stalled" /\ exit' # "running"
  BY DEF Removed
<1>4. ~ ServerTimesOut /\ ~ (SlowAttemptTimesOut \/ LostAttemptTimesOut)
  BY <1>3 DEF ServerTimesOut, WorkflowTaskTimesOut, SlowAttemptTimesOut, LostAttemptTimesOut,
              ActivityTimesOut, ServerStep
<1>5. ~ Daemon /\ ~ SealLedger /\ ~ ReadDump /\ ~ ClassifyTrial(Verdict) /\ ~ RecoveryRunEnds
      /\ ~ NoRunFound /\ ~ TurnUnanswered /\ ~ TrialFails
  BY <1>3 DEF Daemon, SealLedger, ReadDump, ClassifyTrial, RecoveryRunEnds, NoRunFound,
              TurnUnanswered, TrialFails, processVars, trialVars
<1>6. ~ TrialStarts /\ ~ CrashRunEnds(RecoveryRun(trial, disk))
  BY <1>3 DEF TrialStarts, StartTrial, CrashRunEnds, Spawn
<1>7. QED
  BY <1>1, <1>2, <1>4, <1>5, <1>6
     DEF EngineNext, EngineHarness, EngineGoesOn, TrialStarts, ServerTimesOut

LEMMA StallStep ==
  ASSUME ~ Failures, EngineTyped, StallOK, [EngineNext]_allVars
  PROVE  StallOK'
<1>1. CASE EngineProcess
  <2>1. exit = "running" /\ exit' # "stalled" /\ UNCHANGED <<trial, before>>
    BY <1>1, ProcessTyped DEF harnessVars
  <2>2. exit' = "running" => StallAt(trial, todo', disk', before.disk.claim)
    BY <1>1, <2>1, ProcessStall DEF StallOK
  <2>3. QED
    BY <2>1, <2>2 DEF StallOK
<1>2. CASE ~ EngineProcess /\ Removed /\ EngineNext
  <2>1. exit = "running" /\ exit' # "running" /\ UNCHANGED <<trial, before>>
    BY <1>2 DEF Removed
  <2>2. ASSUME exit' = "stalled"
        PROVE  trial.engine = "vercel" /\ before.disk.claim = "linked"
    <3>1. todo # << >> /\ Head(todo) = "hang"
      BY <1>2, <2>2, StallsHang DEF Running
    <3>2. todo \in Programs
      BY DEF EngineTyped, RunTyped, StateAt
    <3>3. Hangs(todo)
      BY <3>1, <3>2, HasTail DEF Hangs
    <3>4. QED
      BY <2>1, <3>3 DEF StallOK, StallAt
  <2>3. QED
    BY <2>1, <2>2 DEF StallOK
<1>3. CASE ServerTimesOut
  <2>1. /\ UNCHANGED <<trial, before, todo, exit>> /\ trial.engine = "temporal"
    BY <1>3 DEF ServerTimesOut, WorkflowTaskTimesOut, ActivityTimesOut, ServerStep, harnessVars
  <2>2. QED
    BY <2>1 DEF StallOK, StallAt
<1>4. CASE TrialStarts
  <2>1. PICK t \in Trials : StartTrial(t, Fresh(t), CrashRun(t))
    BY <1>4 DEF TrialStarts
  <2>2. /\ trial' = t /\ todo' = CrashRun(t) /\ disk' = Fresh(t) /\ exit' = "running"
        /\ before'.disk = Fresh(t)
    BY <2>1 DEF StartTrial, Spawn
  <2>3. QED
    BY <2>2, StallStarts DEF StallOK
<1>5. CASE CrashRunEnds(RecoveryRun(trial, disk))
  <2>1. /\ todo' = RecoveryRun(trial, disk) /\ exit' = "running" /\ before'.disk = disk
        /\ trial' = trial /\ disk' = disk
    BY <1>5 DEF CrashRunEnds, Spawn
  <2>2. QED
    BY <2>1, StallRecovers DEF StallOK, EngineTyped, HarnessTypeOK, RunTyped
<1>6. CASE \/ GivenUp \/ RecoveryRunEnds \/ SealLedger \/ ReadDump \/ ClassifyTrial(Verdict)
           \/ Daemon \/ UNCHANGED allVars
  <2>1. UNCHANGED <<trial, before, todo, exit, disk>>
    BY <1>6 DEF GivenUp, RecoveryRunEnds, SealLedger, ReadDump, ClassifyTrial, Daemon, allVars,
                trialVars, processVars
  <2>2. QED
    BY <2>1 DEF StallOK
<1>7. QED
  BY <1>1, <1>2, <1>3, <1>4, <1>5, <1>6, EngineSteps

LEMMA CountedNotVoid ==
  ASSUME LedgerTypeOK, CrossingsAgree, StoreOnChain, NEW i \in Intents
  PROVE  Classify(i, Dump, store) # "void"
<1> DEFINE n == Dump.side_effects[i]
           digests == Dump.effect_digests[i]
<1>1. Len(digests) = n
  BY DEF Dump, CrossingsAgree
<1>2. CrossingOutcome(digests) # "void"
  BY DEF CrossingOutcome
<1>3. Verify(store) # "broken"
  BY ChainNeverBroken
<1> HIDE DEF n, digests
<1>4. QED
  BY <1>1, <1>2, <1>3 DEF Classify, n, digests

\* A recovery stalls where the crash left a step claimed and not created, and
\* nowhere else: whatever is killed and however slow an attempt, a trial is void
\* exactly where its recovery found such a claim and hung on it, as long as no
\* process runs out of time (vercel_matrix.py _run_trial).
THEOREM StalledByTheClaim ==
  ASSUME ~ Failures
  PROVE  EngineSpec => []StallIsTheClaim
<1>1. EngineInit => StallOK
  BY DEF EngineInit, TrialInit, StallOK
<1>2. EngineTyped /\ StallOK /\ [EngineNext]_allVars => StallOK'
  BY StallStep
<1>3. EngineSpec => []StallOK
  BY <1>1, <1>2, EngineSafeAlways, PTL DEF EngineSpec, EngineSafe
<1>4. EngineSafe /\ VerdictOK /\ StoreOnChain /\ StallOK => StallIsTheClaim
  <2> SUFFICES ASSUME EngineSafe, VerdictOK, StoreOnChain, StallOK, harness = "classified"
               PROVE  outcome = "void" <=> exit = "stalled" /\ before.disk.claim = "linked"
    BY DEF StallIsTheClaim
  <2>1. outcome = Verdict /\ dump = Dump
    BY DEF VerdictOK
  <2>2. Intent \in Intents /\ LedgerTypeOK /\ CrossingsAgree /\ trial \in Trials
    BY IntentTyped DEF EngineSafe, EngineTyped, HarnessTypeOK, DaemonTypeOK
  <2>3. Classify(Intent, dump, store) # "void"
    BY <2>1, <2>2, CountedNotVoid
  <2>4. exit = "stalled" => trial.mode \notin AdmissionArms /\ before.disk.claim = "linked"
    BY <2>2, EngineRow DEF StallOK
  <2>5. QED
    BY <2>1, <2>3, <2>4 DEF Verdict
<1>5. QED
  BY <1>3, <1>4, EngineSafeAlways, PTL

-----------------------------------------------------------------------------
(***************************************************************************)
(* The requests of the running trial, and what crosses if it sends one.    *)
(***************************************************************************)
Own == {r \in Issued : r.epoch = epoch}
Single(S) == \A r, s \in S : r = s

AnsweredOnce == \A a, b \in answers : a.req = b.req => a = b

LEMMA AnsweredOnceStep == EngineSafe /\ AnsweredOnce /\ [EngineNext]_allVars => AnsweredOnce'
<1> SUFFICES ASSUME EngineSafe, AnsweredOnce, [EngineNext]_allVars PROVE AnsweredOnce'
  OBVIOUS
<1>1. CASE Daemon
  <2>1. PICK req \in wire : Handle(req)
    BY <1>1 DEF Daemon
  <2>2. PICK status \in {"ok", "sealed", "refused", "no response"} :
          answers' = answers \cup {[req |-> req, status |-> status, epoch |-> epoch]}
    BY <2>1, DaemonMoves
  <2> DEFINE new == [req |-> req, status |-> status, epoch |-> epoch]
  <2>3. new.req = req /\ \A a \in answers : a.req # req
    BY DEF EngineSafe, RequestsOK
  <2>4. answers' = answers \cup {new}
    BY <2>2
  <2> HIDE DEF new
  <2>5. QED
    BY <2>3, <2>4 DEF AnsweredOnce
<1>2. CASE UNCHANGED answers
  BY <1>2 DEF AnsweredOnce
<1>3. CASE EngineProcess
  BY <1>2, <1>3, ProcessTyped DEF EngineSafe
<1>4. CASE TrialStarts
  BY <1>2, <1>4 DEF TrialStarts, StartTrial, HandleReset
<1>5. QED
  BY <1>1, <1>2, <1>3, <1>4, EngineSteps
     DEF Removed, ServerTimesOut, WorkflowTaskTimesOut, ActivityTimesOut, ServerStep,
         CrashRunEnds, GivenUp, RecoveryRunEnds, SealLedger, HandleSeal, ReadDump,
         ClassifyTrial, allVars, trialVars, daemonVars, processVars, harnessVars

\* Only a process that sends adds to them, and a new trial has none.
LEMMA OwnMoves ==
  ASSUME EngineSafe, [EngineNext]_allVars
  PROVE  /\ TrialStarts => Own' = {}
         /\ EngineSend /\ Own = {} => Single(Own')
         /\ ~ TrialStarts /\ ~ EngineSend => Own' = Own
<1> USE DEF EngineSafe
<1>1. ASSUME TrialStarts PROVE Own' = {}
  <2>1. epoch' = epoch + 1 /\ UNCHANGED <<wire, answers>>
    BY <1>1 DEF TrialStarts, StartTrial, HandleReset
  <2>2. Issued' = Issued
    BY <2>1 DEF Issued
  <2>3. epoch \in Nat /\ \A r \in Issued : r.epoch \in Nat /\ r.epoch <= epoch
    BY DaemonAssumption DEF RequestsOK, Request, EngineTyped, HarnessTypeOK, DaemonTypeOK
  <2>4. \A r \in Issued : r.epoch # epoch + 1
    BY <2>3
  <2>5. QED
    BY <2>1, <2>2, <2>4 DEF Own
<1>2. ASSUME EngineSend, Own = {} PROVE Single(Own')
  <2>1. PICK r : Sends(r)
    BY <1>2, SendRequest
  <2>2. epoch' = epoch /\ Issued' = Issued \cup {r}
    BY <2>1 DEF Sends, Issued
  <2>3. QED
    BY <1>2, <2>2 DEF Own, Single
<1>3. CASE UNCHANGED <<epoch, Issued>>
  BY <1>1, <1>2, <1>3 DEF Own
<1>4. CASE Daemon
  <2>1. PICK req \in wire : Handle(req)
    BY <1>4 DEF Daemon
  <2>2. UNCHANGED <<epoch, Issued>>
    BY <2>1, DaemonMoves
  <2>3. QED
    BY <1>1, <1>2, <2>2 DEF Own
<1>5. CASE UNCHANGED <<epoch, wire, answers>>
  BY <1>1, <1>2, <1>5 DEF Own, Issued
<1>6. CASE TrialStarts \/ EngineSend
  BY <1>1, <1>2, <1>6 DEF Own
<1>7. QED
  BY <1>4, <1>5, <1>6, EngineSteps, ProcessSplit
     DEF Removed, ServerTimesOut, WorkflowTaskTimesOut, ActivityTimesOut, ServerStep,
         CrashRunEnds, GivenUp, RecoveryRunEnds, SealLedger, HandleSeal, ReadDump,
         ClassifyTrial, ProcessOnly, allVars, trialVars, daemonVars, processVars, harnessVars

\* Undisturbed, whatever crossed under a trial's intent was asked for by this trial.
LEMMA CrossedByThis ==
  ASSUME EngineSafe, AcknowledgedOnce, harness # "idle", Undisturbed,
         NEW k, NEW a \in ExecutedNow(Intent, k)
  PROVE  a \in answers /\ a.req \in Own /\ a.req.key = k
<1>1. /\ a \in answers /\ a.req.intent = Intent /\ a.req.key = k /\ a.epoch = epoch
      /\ a.status \in {"ok", "no response"}
  BY DEF ExecutedNow
<1>2. a.req \in Issued
  BY <1>1 DEF Issued
<1>3. CASE HarnessOf(trial) \in {"matrix", "trueforge"}
  BY <1>1, <1>2, <1>3 DEF Undisturbed, OwnTrial, Own
<1>4. CASE HarnessOf(trial) \notin {"matrix", "trueforge"}
  <2>1. a.req.intent = a.req.epoch
    BY <1>2, <1>4 DEF EngineSafe, RequestsOK, IntentOf
  <2>2. Intent = epoch
    BY <1>4 DEF Intent, IntentOf
  <2>3. QED
    BY <1>1, <1>2, <2>1, <2>2 DEF Own
<1>5. QED
  BY <1>3, <1>4

LEMMA SingleCrosses ==
  ASSUME EngineSafe, AnsweredOnce, AcknowledgedOnce, harness # "idle", Undisturbed,
         Single(Own),
         NEW m \in 1 .. Len(effect_keys[Intent]), NEW n \in 1 .. Len(effect_keys[Intent])
  PROVE  m = n
<1> DEFINE keys == effect_keys[Intent]
           k == keys[m]
           crossings == {l \in DOMAIN keys : keys[l] = k}
<1>1. Intent \in Intents /\ LedgerTypeOK
  BY IntentTyped DEF EngineSafe, EngineTyped, HarnessTypeOK, DaemonTypeOK
<1>2. keys \in Seq(Keys \cup {NoKey})
  BY <1>1 DEF LedgerTypeOK
<1>3. DOMAIN keys = 1 .. Len(keys) /\ Len(keys) \in Nat /\ k \in Keys \cup {NoKey}
  BY <1>2
<1>4. ExecutedNow(Intent, keys[m]) # {} /\ ExecutedNow(Intent, keys[n]) # {}
  BY <1>1, CrossedWasAsked
<1>5. keys[m] = keys[n]
  <2>1. PICK a \in ExecutedNow(Intent, keys[m]) : TRUE
    BY <1>4
  <2>2. PICK b \in ExecutedNow(Intent, keys[n]) : TRUE
    BY <1>4
  <2>3. a.req \in Own /\ a.req.key = keys[m] /\ b.req \in Own /\ b.req.key = keys[n]
    BY <2>1, <2>2, CrossedByThis
  <2>4. QED
    BY <2>3 DEF Single
<1>6. CASE k # NoKey
  BY <1>1, <1>5, <1>6 DEF EngineSafe, CrossingsAgree
<1>7. CASE k = NoKey
  <2> DEFINE executed == ExecutedNow(Intent, k)
  <2>1. \A a, b \in executed : a = b
    <3> SUFFICES ASSUME NEW a \in executed, NEW b \in executed PROVE a = b
      OBVIOUS
    <3>1. a \in answers /\ b \in answers /\ a.req \in Own /\ b.req \in Own
      BY CrossedByThis
    <3>2. QED
      BY <3>1 DEF Single, AnsweredOnce
  <2>2. PICK a : executed = {a}
    BY <1>4, <2>1
  <2>3. Cardinality(executed) = 1
    BY <2>2, FS_Singleton
  <2>4. Cardinality(crossings) = 1
    BY <1>1, <1>3, <1>7, <2>3 DEF AcknowledgedOnce
  <2>5. IsFiniteSet(crossings)
    <3>1. IsFiniteSet(1 .. Len(keys))
      BY <1>3, FS_Interval
    <3>2. crossings \subseteq 1 .. Len(keys)
      BY <1>3
    <3>3. QED
      BY <3>1, <3>2, FS_Subset
  <2>6. m \in crossings /\ n \in crossings
    BY <1>3, <1>5
  <2> HIDE DEF crossings
  <2>7. PICK c : crossings = {c}
    BY <2>4, <2>5, FS_Singleton
  <2>8. QED
    BY <2>6, <2>7
<1>8. QED
  BY <1>6, <1>7

\* A trial that counted something, and nothing twice, is scored exactly_once.
LEMMA CountedOnce ==
  ASSUME EngineSafe, VerdictOK, StoreOnChain, Scored, Made,
         \A m, n \in 1 .. Len(effect_keys[Intent]) : m = n
  PROVE  outcome = "exactly_once"
<1> DEFINE keys == effect_keys[Intent]
<1>1. Intent \in Intents /\ LedgerTypeOK
  BY IntentTyped DEF Scored, EngineSafe, EngineTyped, HarnessTypeOK, DaemonTypeOK
<1>2. keys \in Seq(Keys \cup {NoKey})
  BY <1>1 DEF LedgerTypeOK
<1>3. Len(keys) \in Nat \ {0}
  BY <1>2 DEF Made
<1>4. 1 \in 1 .. Len(keys) /\ (Len(keys) >= 2 => 2 \in 1 .. Len(keys))
  BY <1>3
<1>5. ~ (Len(keys) >= 2)
  BY <1>4
<1>6. \A n \in Nat \ {0} : n >= 2 \/ n = 1
  OBVIOUS
<1>7. Len(keys) = 1
  BY <1>3, <1>5, <1>6, Zenon
<1>8. outcome = Classify(Intent, Dump, store) /\ outcome # "raises"
  BY DEF VerdictOK, Scored, Verdict
<1>9. QED
  BY <1>1, <1>7, <1>8, ClassifyCrossings DEF Made, EngineSafe

-----------------------------------------------------------------------------
(***************************************************************************)
(* The hidden trials whose evidence stands for one crossing: the process   *)
(* sends once, and what was recorded tells the next one not to.            *)
(***************************************************************************)
Sending(s) == Has({"send"}, s)

\* DBOS: the crash run sends once, and a recovery that finds an output does not.
DbosOnce(h, s, found, none, single) ==
  /\ AtMostOnce({"send"}, s)
  /\ h = "crash_run" => single /\ (none \/ ~ Sending(s))
  /\ h \in {"recovery_run", "seal", "dump", "classify", "classified"} /\ found # << >> =>
       single /\ ~ Sending(s)

WatchedDbos(t) ==
  t.engine = "dbos" /\ t.barrier \in DOMAIN HiddenPredictions /\ ~ DuplicateName(t)

LEMMA OnceSending ==
  ASSUME NEW s \in Programs, s # << >>, AtMostOnce({"send"}, s)
  PROVE  /\ AtMostOnce({"send"}, Tail(s))
         /\ Head(s) = "send" => Sending(s) /\ ~ Sending(Tail(s))
         /\ Sending(Tail(s)) => Sending(s)
BY HasTail, OnceTail DEF Sending

LEMMA SendsOnce ==
  ASSUME NEW body, NEW recorded
  PROVE  LET s == Workflow(body, recorded) IN
         /\ s \in Programs /\ AtMostOnce({"send"}, s)
         /\ Sending(s) => Performed("effect_step", body, recorded)
<1> DEFINE p == Performs("prepare_identity_step", body, recorded)
           e == Performs("effect_step", body, recorded)
           c == Performs("sentinel_step", body, recorded)
           d == Performs("billing_charge", body, recorded)
           g == Performs("shipping_charge", body, recorded)
           f == <<"dbos_workflow_outcome_uncommitted", "commit_outcome">>
           X == {"send"}
           P == Performed("effect_step", body, recorded)
<1>1. ASSUME NEW step \in StepName
      PROVE  /\ Performs(step, body, recorded) \in Programs
             /\ AtMostOnce(X, Performs(step, body, recorded))
             /\ Has(X, Performs(step, body, recorded)) => step = "effect_step" /\ P
  <2> DEFINE q == StepProgram(step)
  <2>1. AtMostOnce(X, q) /\ AtMostOnce(X, << >>) /\ ~ Has(X, << >>)
    BY DEF StepName, StepProgram, AtMostOnce, Has
  <2>2. Has(X, q) => step = "effect_step"
    BY DEF StepName, StepProgram, Has
  <2>3. Performs(step, body, recorded) \in Programs
    BY StepPrograms
  <2> HIDE DEF q, X
  <2>4. Performs(step, body, recorded) = IF Performed(step, body, recorded) THEN q ELSE << >>
    BY DEF Performs, Performed, q
  <2>5. CASE Performed(step, body, recorded)
    BY <2>1, <2>2, <2>3, <2>4, <2>5
  <2>6. CASE ~ Performed(step, body, recorded)
    BY <2>1, <2>3, <2>4, <2>6
  <2>7. QED
    BY <2>5, <2>6
<1>2. /\ p \in Programs /\ AtMostOnce(X, p) /\ ~ Has(X, p)
      /\ e \in Programs /\ AtMostOnce(X, e) /\ (Has(X, e) => P)
      /\ c \in Programs /\ AtMostOnce(X, c) /\ ~ Has(X, c)
      /\ d \in Programs /\ AtMostOnce(X, d) /\ ~ Has(X, d)
      /\ g \in Programs /\ AtMostOnce(X, g) /\ ~ Has(X, g)
  BY <1>1 DEF StepName
<1>3. f \in Programs /\ AtMostOnce(X, f) /\ ~ Has(X, f)
  BY Labels DEF Programs, AtMostOnce, Has
<1>4. Workflow(body, recorded) = ((((p \o e) \o c) \o d) \o g) \o f
  BY DEF Workflow
<1> HIDE DEF p, e, c, d, g, f, X, P
<1> DEFINE pe == p \o e
           pec == pe \o c
           pecd == pec \o d
           pecdg == pecd \o g
           w == pecdg \o f
<1>5. pe \in Programs /\ AtMostOnce(X, pe) /\ (Has(X, pe) => P)
  BY <1>2, ConcatPrograms, HasConcat, OnceConcat
<1> HIDE DEF pe
<1>6. pec \in Programs /\ AtMostOnce(X, pec) /\ (Has(X, pec) => P)
  BY <1>2, <1>5, ConcatPrograms, HasConcat, OnceConcat
<1> HIDE DEF pec
<1>7. pecd \in Programs /\ AtMostOnce(X, pecd) /\ (Has(X, pecd) => P)
  BY <1>2, <1>6, ConcatPrograms, HasConcat, OnceConcat
<1> HIDE DEF pecd
<1>8. pecdg \in Programs /\ AtMostOnce(X, pecdg) /\ (Has(X, pecdg) => P)
  BY <1>2, <1>7, ConcatPrograms, HasConcat, OnceConcat
<1> HIDE DEF pecdg
<1>9. w \in Programs /\ AtMostOnce(X, w) /\ (Has(X, w) => P)
  BY <1>3, <1>8, ConcatPrograms, HasConcat, OnceConcat
<1>10. Workflow(body, recorded) = w
  BY <1>4 DEF w, pecdg, pecd, pec, pe
<1> HIDE DEF w
<1>11. QED
  BY <1>9, <1>10 DEF Sending, X, P

LEMMA SendingArmed ==
  ASSUME NEW s \in Programs, NEW b, AtMostOnce({"send"}, s)
  PROVE  /\ AtMostOnce({"send"}, ArmedWith(s, b))
         /\ Sending(ArmedWith(s, b)) => Sending(s)
BY HasArmed, OnceArmed DEF Sending

LEMMA DbosBegins ==
  ASSUME NEW t \in Trials
  PROVE  AtMostOnce({"send"}, DbosCrashRun(t))
<1> DEFINE w == Workflow(CrashBody(t), 0)
           u == <<"enqueue">>
           X == {"send"}
<1>1. w \in Programs /\ AtMostOnce(X, w)
  BY SendsOnce
<1>2. u \in Programs /\ AtMostOnce(X, u) /\ ~ Has(X, u)
  BY Labels DEF Programs, AtMostOnce, Has
<1>3. DbosCrashRun(t) = ArmedWith(u \o w, t.barrier)
  BY DEF DbosCrashRun
<1> HIDE DEF u, w, X
<1>4. u \o w \in Programs /\ AtMostOnce(X, u \o w)
  BY <1>1, <1>2, ConcatPrograms, OnceConcat
<1>5. QED
  BY <1>3, <1>4, SendingArmed DEF X

LEMMA DbosResumes ==
  ASSUME NEW t \in Trials, WatchedDbos(t), NEW d \in DbosDisk
  PROVE  /\ AtMostOnce({"send"}, DbosRecoveryRun(t, d))
         /\ d.outputs # << >> => ~ Sending(DbosRecoveryRun(t, d))
<1> DEFINE r == Len(d.outputs)
           body == RecoveryBody(t)
           w == Workflow(body, r)
           X == {"send"}
<1>1. /\ r \in Nat /\ (d.outputs # << >> => r >= 1)
      /\ d.wf \in {"absent", "SUCCESS", "PENDING"}
  BY DEF DbosDisk
<1>2. body = <<"effect_step", "sentinel_step">>
  <2>1. ~ TwoPhase(t)
    BY EngineRow, Modes DEF WatchedDbos
  <2>2. QED
    BY <2>1, Bodies DEF WatchedDbos
<1>3. r >= 1 => ~ Performed("effect_step", body, r)
  <2>1. Len(body) = 2 /\ body[2] = "sentinel_step"
    BY <1>2
  <2>2. r >= 1 => \A n \in r + 1 .. Len(body) : n = 2
    BY <1>1, <2>1
  <2>3. QED
    BY <2>1, <2>2 DEF Performed
<1>4. /\ w \in Programs /\ AtMostOnce(X, w)
      /\ Sending(w) => Performed("effect_step", body, r)
  BY SendsOnce
<1>5. /\ AtMostOnce(X, << >>) /\ ~ Sending(<< >>)
      /\ AtMostOnce(X, <<"no_workflow">>) /\ ~ Sending(<<"no_workflow">>)
  BY DEF AtMostOnce, Has, Sending
<1>6. DbosRecoveryRun(t, d) \in {<<"no_workflow">>, << >>, ArmedWith(w, "none")}
  BY <1>1 DEF DbosRecoveryRun
<1> HIDE DEF r, body, w
<1>7. /\ AtMostOnce(X, ArmedWith(w, "none"))
      /\ d.outputs # << >> => ~ Sending(ArmedWith(w, "none"))
  BY <1>1, <1>3, <1>4, SendingArmed
<1>8. QED
  BY <1>5, <1>6, <1>7

\* Temporal: an attempt sends once, and the second is told apart by its number.
Begins == {"start_workflow", "send", "decide"}
Stops == {"poll", "report"}

\* Whatever is begun is done before the worker reports or polls again.
Guarded(s) == AtMostOnce(Begins, s) /\ (Has(Begins, s) => Before(Begins, Stops, s))

\* none: the trial has sent nothing; single: one request at most.
TemporalOnce(s, d, none, single) ==
  /\ Guarded(s)
  /\ Has({"decide"}, s) => d.wft = "taken"
  /\ Has({"start_workflow"}, s) => d.act = "none"
  /\ d.next = 0 =>
       /\ d.started = 0
       /\ d.wft # "none" => d.act = "none"
       /\ d.act = "none" \/ (d.act = "ready" /\ d.attempt = 1) => none /\ ~ Sending(s)
       /\ d.act = "taken" /\ d.attempt = 1 => single /\ (none \/ ~ Sending(s))
  /\ d.next # 0 /\ d.started = 1 => single /\ ~ Sending(s)

WatchedTemporal(t) == t.engine = "temporal" /\ t.barrier \in DOMAIN HiddenPredictions

LEMMA HasIn ==
  ASSUME NEW s, NEW x, NEW X, x \in X, Has({x}, s)
  PROVE  Has(X, s)
BY DEF Has

LEMMA GuardedTail ==
  ASSUME NEW s \in Programs, s # << >>, Guarded(s)
  PROVE  /\ Guarded(Tail(s)) /\ Tail(s) \in Programs
         /\ Head(s) \in Begins => ~ Has(Begins, Tail(s))
         /\ Head(s) \in Stops => ~ Has(Begins, s)
         /\ \A X : Has(X, Tail(s)) => Has(X, s)
         /\ \A x : Head(s) = x => Has({x}, s)
<1>1. AtMostOnce(Begins, s) /\ (Has(Begins, s) => Before(Begins, Stops, s))
  BY DEF Guarded
<1>2. \A X : Has(X, s) <=> Head(s) \in X \/ Has(X, Tail(s))
  BY HasTail
<1>3. AtMostOnce(Begins, Tail(s)) /\ (Head(s) \in Begins => ~ Has(Begins, Tail(s)))
  BY <1>1, OnceTail
<1>4. ASSUME Has(Begins, Tail(s)) PROVE Before(Begins, Stops, Tail(s))
  BY <1>1, <1>2, <1>3, <1>4, BeforeTail
<1>5. ASSUME Head(s) \in Stops PROVE ~ Has(Begins, s)
  <2>1. Head(s) \notin Begins
    BY <1>5 DEF Begins, Stops
  <2>2. ~ Before(Begins, Stops, s)
    BY <1>5, <2>1, BeforeTail
  <2>3. QED
    BY <1>1, <2>2
<1>6. Tail(s) \in Programs
  BY TailElements DEF Programs
<1>7. \A x : Head(s) = x => Has({x}, s)
  BY <1>2
<1>8. QED
  BY <1>2, <1>3, <1>4, <1>5, <1>6, <1>7 DEF Guarded

LEMMA GuardedConcat ==
  ASSUME NEW u \in Programs, NEW v \in Programs, Guarded(u), ~ Has(Begins, v)
  PROVE  /\ Guarded(u \o v)
         /\ \A x \in Begins : Has({x}, u \o v) => Has({x}, u)
<1>1. AtMostOnce(Begins, u) /\ (Has(Begins, u) => Before(Begins, Stops, u))
  BY DEF Guarded
<1>2. AtMostOnce(Begins, v)
  BY DEF Has, AtMostOnce
<1>3. AtMostOnce(Begins, u \o v)
  BY <1>1, <1>2, OnceConcat
<1>4. \A X : Has(X, u \o v) <=> Has(X, u) \/ Has(X, v)
  BY HasConcat
<1>5. ASSUME Has(Begins, u \o v) PROVE Before(Begins, Stops, u \o v)
  BY <1>1, <1>4, <1>5, BeforeConcat
<1>6. ASSUME NEW x \in Begins, Has({x}, u \o v) PROVE Has({x}, u)
  BY <1>4, <1>6, HasIn
<1>7. QED
  BY <1>3, <1>5, <1>6 DEF Guarded

LEMMA TasksGuarded ==
  ASSUME NEW b
  PROVE  /\ LET s == ArmedWith(<<"tmp_workflow_task_replay", "decide">>, b) IN
              s \in Programs /\ Guarded(s) /\ ~ Has({"send", "start_workflow"}, s)
         /\ LET s == ArmedWith(<<"b0", "send", "await", "b1", "report">>, b) IN
              s \in Programs /\ Guarded(s) /\ ~ Has({"decide", "start_workflow"}, s)
         /\ Guarded(<<"poll">>) /\ ~ Has(Begins, <<"poll">>)
         /\ LET s == <<"start_workflow", "poll">> IN
              Guarded(s) /\ ~ Has({"decide", "send"}, s)
         /\ Guarded(<< >>) /\ ~ Has(Begins, << >>)
<1> DEFINE u == <<"tmp_workflow_task_replay", "decide">>
           v == <<"b0", "send", "await", "b1", "report">>
<1>1. Begins \cap Unarmed(b) = {}
  BY DEF Begins, Unarmed, Barrier, HiddenBarrier, HiddenPredictions, ReceiverBarrier
<1>2. u \in Programs /\ v \in Programs
  BY Labels DEF Programs
<1>3. /\ AtMostOnce(Begins, u) /\ Before(Begins, Stops, u) /\ ~ Has({"send", "start_workflow"}, u)
  BY DEF AtMostOnce, Before, Has, Begins, Stops
<1>4. /\ AtMostOnce(Begins, v) /\ ~ Has({"decide", "start_workflow"}, v)
  BY DEF AtMostOnce, Has, Begins
<1>5. Before(Begins, Stops, v)
  <2>1. Len(v) = 5 /\ v[2] = "send" /\ v[1] \notin Stops /\ v[2] \notin Stops
    BY DEF Stops
  <2> HIDE DEF v
  <2>2. \A n \in 1 .. Len(v) : v[n] \in Stops => 2 \in 1 .. n - 1
    BY <2>1
  <2>3. v[2] \in Begins
    BY <2>1 DEF Begins
  <2>4. QED
    BY <2>2, <2>3 DEF Before
<1> HIDE DEF u, v
<1>6. /\ ArmedWith(u, b) \in Programs /\ Guarded(ArmedWith(u, b))
      /\ ~ Has({"send", "start_workflow"}, ArmedWith(u, b))
  BY <1>1, <1>2, <1>3, ArmedPlaces, OnceArmed, BeforeArmed, HasArmed DEF Guarded
<1>7. /\ ArmedWith(v, b) \in Programs /\ Guarded(ArmedWith(v, b))
      /\ ~ Has({"decide", "start_workflow"}, ArmedWith(v, b))
  BY <1>1, <1>2, <1>4, <1>5, ArmedPlaces, OnceArmed, BeforeArmed, HasArmed DEF Guarded
<1>8. /\ Guarded(<<"poll">>) /\ ~ Has(Begins, <<"poll">>)
      /\ Guarded(<< >>) /\ ~ Has(Begins, << >>)
  BY DEF Guarded, AtMostOnce, Before, Has, Begins, Stops
<1>9. /\ Guarded(<<"start_workflow", "poll">>)
      /\ ~ Has({"decide", "send"}, <<"start_workflow", "poll">>)
  BY DEF Guarded, AtMostOnce, Before, Has, Begins, Stops
<1>10. QED
  BY <1>6, <1>7, <1>8, <1>9 DEF u, v

\* Of a history all that these rules ask for is kept by steps that are no more.
LEMMA FewerSteps ==
  ASSUME NEW s, NEW d, NEW none, NEW single, TemporalOnce(s, d, none, single),
         NEW u, Guarded(u), \A x \in Begins : Has({x}, u) => Has({x}, s)
  PROVE  TemporalOnce(u, d, none, single)
BY DEF TemporalOnce, Sending, Begins

LEMMA TemporalTail ==
  ASSUME NEW s \in Programs, s # << >>, NEW d, NEW none, NEW single,
         TemporalOnce(s, d, none, single)
  PROVE  TemporalOnce(Tail(s), d, none, single)
<1>1. Guarded(s)
  BY DEF TemporalOnce
<1>2. Guarded(Tail(s)) /\ \A x \in Begins : Has({x}, Tail(s)) => Has({x}, s)
  BY <1>1, GuardedTail
<1>3. QED
  BY <1>2, FewerSteps

LEMMA TemporalNothing ==
  ASSUME NEW s, NEW d, NEW none, NEW single, TemporalOnce(s, d, none, single)
  PROVE  /\ TemporalOnce(<< >>, d, none, single)
         /\ TemporalOnce(<<"poll">>, d, none, single)
<1>1. \A x \in Begins : ~ Has({x}, << >>) /\ ~ Has({x}, <<"poll">>)
  BY TasksGuarded, HasIn
<1>2. QED
  BY <1>1, TasksGuarded, FewerSteps

\* The activity of a hidden workflow is its effect, and it has one.
LEMMA WatchedActivity ==
  ASSUME NEW t \in Trials, WatchedTemporal(t), NEW d, TemporalAt(t, d)
  PROVE  /\ Activities(t) = <<"effect">> /\ d \in TemporalDisk
         /\ d.next \in 0 .. 2 /\ (d.act # "none" => d.next = 0)
         /\ d.attempt \in Nat \ {0}
<1>1. Hidden(t)
  BY DEF WatchedTemporal, Hidden, HiddenBarrier
<1>2. Activities(t) = <<"effect">> /\ Len(Activities(t)) = 1
  BY <1>1 DEF Activities
<1>3. d \in TemporalDisk /\ (d.act # "none" => d.next < Len(Activities(t)))
  BY DEF TemporalAt
<1>4. d.next \in 0 .. 2 /\ d.attempt \in 1 .. MaxAttempts
  BY <1>3 DEF TemporalDisk
<1>5. d.act # "none" => d.next = 0
  BY <1>2, <1>3, <1>4
<1>6. d.attempt \in Nat \ {0}
  BY <1>4, TemporalAssumption
<1>7. QED
  BY <1>2, <1>3, <1>4, <1>5, <1>6

LEMMA TasksTaken ==
  ASSUME NEW b, NEW s \in Programs, s # << >>, Guarded(s), Head(s) = "poll"
  PROVE  /\ LET u == ArmedWith(<<"tmp_workflow_task_replay", "decide">>, b) \o s IN
              u \in Programs /\ Guarded(u) /\ ~ Has({"send"}, u) /\ ~ Has({"start_workflow"}, u)
         /\ LET u == ArmedWith(<<"b0", "send", "await", "b1", "report">>, b) \o s IN
              u \in Programs /\ Guarded(u) /\ ~ Has({"decide"}, u) /\ ~ Has({"start_workflow"}, u)
<1> DEFINE v == ArmedWith(<<"tmp_workflow_task_replay", "decide">>, b)
           w == ArmedWith(<<"b0", "send", "await", "b1", "report">>, b)
<1>1. ~ Has(Begins, s)
  BY GuardedTail DEF Stops
<1>2. /\ v \in Programs /\ Guarded(v) /\ ~ Has({"send", "start_workflow"}, v)
      /\ w \in Programs /\ Guarded(w) /\ ~ Has({"decide", "start_workflow"}, w)
  BY TasksGuarded
<1> HIDE DEF v, w
<1>3. /\ ~ Has({"send"}, v) /\ ~ Has({"start_workflow"}, v)
      /\ ~ Has({"decide"}, w) /\ ~ Has({"start_workflow"}, w)
  BY <1>2 DEF Has
<1>4. /\ Guarded(v \o s) /\ \A x \in Begins : Has({x}, v \o s) => Has({x}, v)
      /\ Guarded(w \o s) /\ \A x \in Begins : Has({x}, w \o s) => Has({x}, w)
  BY <1>1, <1>2, GuardedConcat
<1>5. v \o s \in Programs /\ w \o s \in Programs
  BY <1>2, ConcatPrograms
<1>6. QED
  BY <1>3, <1>4, <1>5 DEF Begins, v, w

\* What the server and the worker record keeps the rules.
LEMMA HistoryStarted ==
  ASSUME NEW s \in Programs, s # << >>, Head(s) = "start_workflow", NEW d \in TemporalDisk,
         NEW none, NEW single, TemporalOnce(s, d, none, single)
  PROVE  TemporalOnce(Tail(s), [d EXCEPT !.wf = "open", !.wft = "ready"], none, single)
<1> DEFINE e == [d EXCEPT !.wf = "open", !.wft = "ready"]
<1>1. /\ e.wft = "ready" /\ e.next = d.next /\ e.act = d.act /\ e.attempt = d.attempt
      /\ e.started = d.started
  BY DEF TemporalDisk
<1>2. /\ Guarded(Tail(s)) /\ ~ Has(Begins, Tail(s)) /\ Has({"start_workflow"}, s)
  BY GuardedTail DEF TemporalOnce, Begins
<1>3. ~ Has({"send"}, Tail(s)) /\ ~ Has({"decide"}, Tail(s)) /\ ~ Has({"start_workflow"}, Tail(s))
  BY <1>2, HasIn DEF Begins
<1>4. d.act = "none"
  BY <1>2 DEF TemporalOnce
<1> HIDE DEF e
<1>5. TemporalOnce(Tail(s), e, none, single)
  BY <1>1, <1>2, <1>3, <1>4 DEF TemporalOnce, Sending
<1>6. QED
  BY <1>5 DEF e

LEMMA HistoryTaken ==
  ASSUME NEW s, NEW d \in TemporalDisk, d.wft = "ready",
         NEW none, NEW single, TemporalOnce(s, d, none, single),
         NEW u, Guarded(u), ~ Has({"send"}, u), ~ Has({"start_workflow"}, u)
  PROVE  TemporalOnce(u, [d EXCEPT !.wft = "taken"], none, single)
<1> DEFINE e == [d EXCEPT !.wft = "taken"]
<1>1. /\ e.wft = "taken" /\ e.next = d.next /\ e.act = d.act /\ e.attempt = d.attempt
      /\ e.started = d.started
  BY DEF TemporalDisk
<1> HIDE DEF e
<1>2. TemporalOnce(u, e, none, single)
  BY <1>1 DEF TemporalOnce, Sending
<1>3. QED
  BY <1>2 DEF e

LEMMA HistoryDecided ==
  ASSUME NEW s \in Programs, s # << >>, Head(s) = "decide", NEW d \in TemporalDisk,
         NEW none, NEW single, TemporalOnce(s, d, none, single)
  PROVE  /\ d.next = 0 => TemporalOnce(Tail(s), [d EXCEPT !.wft = "none", !.act = "ready",
                                                          !.attempt = 1], none, single)
         /\ TemporalOnce(Tail(s), [d EXCEPT !.wft = "none", !.wf = "closed"], none, single)
<1> DEFINE e == [d EXCEPT !.wft = "none", !.act = "ready", !.attempt = 1]
           f == [d EXCEPT !.wft = "none", !.wf = "closed"]
<1>1. /\ e.wft = "none" /\ e.next = d.next /\ e.act = "ready" /\ e.attempt = 1
      /\ e.started = d.started
  BY DEF TemporalDisk
<1>2. /\ f.wft = "none" /\ f.next = d.next /\ f.act = d.act /\ f.attempt = d.attempt
      /\ f.started = d.started
  BY DEF TemporalDisk
<1>3. /\ Guarded(Tail(s)) /\ ~ Has(Begins, Tail(s)) /\ Has({"decide"}, s)
  BY GuardedTail DEF TemporalOnce, Begins
<1>4. ~ Has({"send"}, Tail(s)) /\ ~ Has({"decide"}, Tail(s)) /\ ~ Has({"start_workflow"}, Tail(s))
  BY <1>3, HasIn DEF Begins
<1>5. d.wft = "taken"
  BY <1>3 DEF TemporalOnce
<1> HIDE DEF e, f
<1>6. d.next = 0 => TemporalOnce(Tail(s), e, none, single)
  BY <1>1, <1>3, <1>4, <1>5 DEF TemporalOnce, Sending
<1>7. TemporalOnce(Tail(s), f, none, single)
  BY <1>2, <1>3, <1>4 DEF TemporalOnce, Sending
<1>8. QED
  BY <1>6, <1>7 DEF e, f

LEMMA HistoryAttempted ==
  ASSUME NEW s, NEW d \in TemporalDisk, d.act = "ready", d.next = 0,
         NEW none, NEW single, none => single, TemporalOnce(s, d, none, single),
         NEW u, Guarded(u), ~ Has({"decide"}, u), ~ Has({"start_workflow"}, u)
  PROVE  TemporalOnce(u, [d EXCEPT !.act = "taken"], none, single)
<1> DEFINE e == [d EXCEPT !.act = "taken"]
<1>1. /\ e.wft = d.wft /\ e.next = d.next /\ e.act = "taken" /\ e.attempt = d.attempt
      /\ e.started = d.started
  BY DEF TemporalDisk
<1> HIDE DEF e
<1>2. TemporalOnce(u, e, none, single)
  BY <1>1 DEF TemporalOnce, Sending
<1>3. QED
  BY <1>2 DEF e

LEMMA HistoryReported ==
  ASSUME NEW s \in Programs, s # << >>, Head(s) = "report", NEW d \in TemporalDisk,
         d.act = "taken", d.next = 0, d.attempt \in Nat \ {0},
         NEW none, NEW single, TemporalOnce(s, d, none, single)
  PROVE  TemporalOnce(Tail(s), [d EXCEPT !.next = @ + 1, !.act = "none", !.wft = "ready",
                                         !.started = IF d.next = 0 THEN d.attempt ELSE @],
                      none, single)
<1> DEFINE e == [d EXCEPT !.next = @ + 1, !.act = "none", !.wft = "ready",
                          !.started = IF d.next = 0 THEN d.attempt ELSE @]
<1>1. /\ e.next = 1 /\ e.act = "none" /\ e.started = d.attempt
  BY DEF TemporalDisk
<1>2. /\ Guarded(Tail(s)) /\ ~ Has(Begins, s) /\ \A X : Has(X, Tail(s)) => Has(X, s)
  BY GuardedTail DEF TemporalOnce, Stops
<1>3. /\ ~ Has({"send"}, s) /\ ~ Has({"decide"}, s) /\ ~ Has({"start_workflow"}, s)
  BY <1>2, HasIn DEF Begins
<1>4. ~ Has({"send"}, Tail(s)) /\ ~ Has({"decide"}, Tail(s)) /\ ~ Has({"start_workflow"}, Tail(s))
  BY <1>2, <1>3
<1>5. d.attempt = 1 => single
  BY DEF TemporalOnce
<1> HIDE DEF e
<1>6. TemporalOnce(Tail(s), e, none, single)
  BY <1>1, <1>2, <1>4, <1>5 DEF TemporalOnce, Sending
<1>7. QED
  BY <1>6 DEF e

\* An attempt that is tried again is no first one.
LEMMA HistoryRetried ==
  ASSUME NEW s, NEW d \in TemporalDisk, d.act = "taken", d.next = 0, d.attempt \in Nat \ {0},
         NEW none, NEW single, TemporalOnce(s, d, none, single)
  PROVE  TemporalOnce(s, [d EXCEPT !.act = "ready", !.attempt = @ + 1], none, single)
<1> DEFINE e == [d EXCEPT !.act = "ready", !.attempt = @ + 1]
<1>1. /\ e.wft = d.wft /\ e.next = 0 /\ e.act = "ready" /\ e.attempt = d.attempt + 1
      /\ e.started = d.started
  BY DEF TemporalDisk
<1>2. e.attempt # 1
  BY <1>1
<1> HIDE DEF e
<1>3. TemporalOnce(s, e, none, single)
  BY <1>1, <1>2 DEF TemporalOnce
<1>4. QED
  BY <1>3 DEF e

LEMMA HistoryWaited ==
  ASSUME NEW s, ~ Has({"decide"}, s), NEW d \in TemporalDisk, d.wft = "taken",
         NEW none, NEW single, TemporalOnce(s, d, none, single)
  PROVE  TemporalOnce(s, [d EXCEPT !.wft = "ready", !.timedOut = TRUE], none, single)
<1> DEFINE e == [d EXCEPT !.wft = "ready", !.timedOut = TRUE]
<1>1. /\ e.wft = "ready" /\ e.next = d.next /\ e.act = d.act /\ e.attempt = d.attempt
      /\ e.started = d.started
  BY DEF TemporalDisk
<1> HIDE DEF e
<1>2. TemporalOnce(s, e, none, single)
  BY <1>1 DEF TemporalOnce
<1>3. QED
  BY <1>2 DEF e

\* A step of the worker that does not send.
LEMMA TemporalProcessOnce ==
  ASSUME trial \in Trials, WatchedTemporal(trial), todo \in Programs, TemporalAt(trial, disk),
         NEW none \in BOOLEAN, NEW single \in BOOLEAN, none => single,
         TemporalOnce(todo, disk, none, single), TemporalProcess
  PROVE  TemporalOnce(todo', disk', none, single)
<1>1. /\ Activities(trial) = <<"effect">> /\ disk \in TemporalDisk
      /\ disk.next \in 0 .. 2 /\ (disk.act # "none" => disk.next = 0)
      /\ disk.attempt \in Nat \ {0}
  BY WatchedActivity
<1>2. Guarded(todo)
  BY DEF TemporalOnce
<1>3. CASE StartWorkflow
  <2>1. /\ todo # << >> /\ Head(todo) = "start_workflow" /\ todo' = Tail(todo)
        /\ disk' = [disk EXCEPT !.wf = "open", !.wft = "ready"]
    BY <1>3 DEF StartWorkflow, Running, Persists, Advance
  <2>2. QED
    BY <1>1, <2>1, HistoryStarted
<1>4. CASE PollWorkflowTask
  <2> DEFINE u == ArmedWith(<<"tmp_workflow_task_replay", "decide">>, Armed) \o todo
  <2>1. /\ todo # << >> /\ Head(todo) = "poll" /\ disk.wft = "ready" /\ todo' = u
        /\ disk' = [disk EXCEPT !.wft = "taken"]
    BY <1>4 DEF PollWorkflowTask, Takes, Running
  <2>2. Guarded(u) /\ ~ Has({"send"}, u) /\ ~ Has({"start_workflow"}, u)
    BY <1>2, <2>1, TasksTaken
  <2> HIDE DEF u
  <2>3. QED
    BY <1>1, <2>1, <2>2, HistoryTaken
<1>5. CASE Decide
  <2>1. /\ todo # << >> /\ Head(todo) = "decide" /\ todo' = Tail(todo)
        /\ disk' = IF disk.next < Len(Activities(trial))
                     THEN [disk EXCEPT !.wft = "none", !.act = "ready", !.attempt = 1]
                     ELSE [disk EXCEPT !.wft = "none", !.wf = "closed"]
    BY <1>5 DEF Decide, Running, Persists, Advance
  <2>2. disk.next < Len(Activities(trial)) => disk.next = 0
    BY <1>1
  <2>3. /\ disk.next = 0 =>
             TemporalOnce(Tail(todo), [disk EXCEPT !.wft = "none", !.act = "ready",
                                                   !.attempt = 1], none, single)
        /\ TemporalOnce(Tail(todo), [disk EXCEPT !.wft = "none", !.wf = "closed"], none, single)
    BY <1>1, <2>1, HistoryDecided
  <2>4. QED
    BY <2>1, <2>2, <2>3, Zenon
<1>6. CASE TemporalKill
  <2>1. /\ todo # << >> /\ todo' \in {<< >>, Tail(todo)} /\ disk' = disk
    BY <1>6 DEF TemporalKill, KillSelf, Running, ExitWith, Advance
  <2>2. QED
    BY <2>1, TemporalTail, TemporalNothing
<1>7. CASE PollActivity
  <2> DEFINE effect == <<"b0", "send", "await", "b1", "report">>
             steps == IF Activities(trial)[disk.next + 1] = "effect" THEN effect
                      ELSE <<"b2", "report">>
             u == ArmedWith(effect, Armed) \o todo
  <2>1. /\ todo # << >> /\ Head(todo) = "poll" /\ disk.act = "ready"
        /\ todo' = ArmedWith(steps, Armed) \o todo /\ disk' = [disk EXCEPT !.act = "taken"]
    BY <1>7 DEF PollActivity, Takes, Running
  <2>2. disk.next = 0
    BY <1>1, <2>1
  <2>3. steps = effect
    BY <1>1, <2>2
  <2>4. Guarded(u) /\ ~ Has({"decide"}, u) /\ ~ Has({"start_workflow"}, u)
    BY <1>2, <2>1, TasksTaken
  <2>5. todo' = u
    BY <2>1, <2>3
  <2> HIDE DEF u, steps, effect
  <2>6. QED
    BY <1>1, <2>1, <2>2, <2>4, <2>5, HistoryAttempted
<1>8. CASE WatchHistory
  <2>1. todo' = << >> /\ disk' = disk
    BY <1>8 DEF WatchHistory, ExitWith
  <2>2. QED
    BY <2>1, TemporalNothing
<1>9. CASE ReportActivity
  <2> DEFINE done == [disk EXCEPT !.next = @ + 1, !.act = "none", !.wft = "ready",
                                  !.started = IF disk.next = 0 THEN disk.attempt ELSE @]
  <2>1. /\ todo # << >> /\ Head(todo) = "report" /\ todo' = Tail(todo)
        /\ disk' = IF disk.act # "taken" THEN disk ELSE done
    BY <1>9 DEF ReportActivity, Running, Persists, Advance
  <2>2. disk.act = "taken" => TemporalOnce(Tail(todo), done, none, single)
    BY <1>1, <2>1, HistoryReported
  <2>3. TemporalOnce(Tail(todo), disk, none, single)
    BY <2>1, TemporalTail
  <2> HIDE DEF done
  <2>4. QED
    BY <2>1, <2>2, <2>3
<1>10. CASE TemporalSamplerFails
  <2> DEFINE again == [disk EXCEPT !.act = "ready", !.attempt = @ + 1]
  <2>1. todo' = <<"poll">> /\ disk' = IF disk.act # "taken" THEN disk ELSE again
    BY <1>10 DEF TemporalSamplerFails
  <2>2. TemporalOnce(<<"poll">>, disk, none, single)
    BY TemporalNothing
  <2>3. disk.act = "taken" => TemporalOnce(<<"poll">>, again, none, single)
    BY <1>1, <2>2, HistoryRetried
  <2> HIDE DEF again
  <2>4. QED
    BY <2>1, <2>2, <2>3
<1>11. CASE AwaitResult
  <2>1. todo # << >> /\ todo' \in {<< >>, Tail(todo)} /\ disk' = disk
    BY <1>11 DEF AwaitResult, Running, Persists, Advance, Raise, ExitWith
  <2>2. QED
    BY <2>1, TemporalTail, TemporalNothing
<1>12. QED
  BY <1>3, <1>4, <1>5, <1>6, <1>7, <1>8, <1>9, <1>10, <1>11 DEF TemporalProcess

\* Once it sends, an attempt that is the first has sent all the trial will.
LEMMA TemporalSendOnce ==
  ASSUME NEW s \in Programs, s # << >>, Head(s) = "send",
         NEW d, d.act \in {"none", "ready", "taken"},
         NEW none \in BOOLEAN, NEW single \in BOOLEAN, TemporalOnce(s, d, none, single),
         NEW now \in BOOLEAN, ~ now, NEW later \in BOOLEAN, none => later
  PROVE  TemporalOnce(Tail(s), d, now, later)
<1>1. /\ Guarded(Tail(s)) /\ ~ Has(Begins, Tail(s)) /\ Has({"send"}, s)
      /\ \A X : Has(X, Tail(s)) => Has(X, s)
  BY GuardedTail DEF TemporalOnce, Begins
<1>2. ~ Has({"send"}, Tail(s)) /\ ~ Has({"decide"}, Tail(s)) /\ ~ Has({"start_workflow"}, Tail(s))
  BY <1>1, HasIn DEF Begins
<1>3. QED
  BY <1>1, <1>2 DEF TemporalOnce, Sending

\* Nobody works on a task that times out.
LEMMA ServerOnce ==
  ASSUME trial \in Trials, WatchedTemporal(trial), todo \in Programs, TemporalAt(trial, disk),
         exit # "running" => todo = << >>,
         NEW none \in BOOLEAN, NEW single \in BOOLEAN,
         TemporalOnce(todo, disk, none, single), ServerTimesOut
  PROVE  TemporalOnce(todo', disk', none, single)
<1>1. /\ disk \in TemporalDisk /\ (disk.act # "none" => disk.next = 0)
      /\ disk.attempt \in Nat \ {0}
  BY WatchedActivity
<1>2. CASE WorkflowTaskTimesOut
  <2>1. /\ todo' = todo /\ disk' = [disk EXCEPT !.wft = "ready", !.timedOut = TRUE]
        /\ disk.wft = "taken" /\ ~ Working("decide")
    BY <1>2 DEF WorkflowTaskTimesOut, ServerStep
  <2>2. ~ Has({"decide"}, todo)
    <3>1. CASE exit = "running"
      <4>1. DOMAIN todo = 1 .. Len(todo)
        BY DEF Programs
      <4>2. QED
        BY <2>1, <3>1, <4>1 DEF Working, Has
    <3>2. CASE exit # "running"
      BY <3>2 DEF Has
    <3>3. QED
      BY <3>1, <3>2
  <2>3. QED
    BY <1>1, <2>1, <2>2, HistoryWaited
<1>3. CASE ActivityTimesOut
  <2>1. /\ todo' = todo /\ disk' = [disk EXCEPT !.act = "ready", !.attempt = @ + 1]
        /\ disk.act = "taken"
    BY <1>3 DEF ActivityTimesOut, ServerStep
  <2>2. QED
    BY <1>1, <2>1, HistoryRetried
<1>4. QED
  BY <1>2, <1>3 DEF ServerTimesOut

-----------------------------------------------------------------------------
(***************************************************************************)
(* Every step keeps the rules.                                             *)
(***************************************************************************)
DbosFine ==
  WatchedDbos(trial) /\ harness # "idle" =>
    DbosOnce(harness, todo, before.disk.outputs, Own = {}, Single(Own))

TemporalFine ==
  WatchedTemporal(trial) /\ harness # "idle" =>
    TemporalOnce(todo, disk, Own = {}, Single(Own))

LEMMA DbosTail ==
  ASSUME NEW h, NEW s \in Programs, NEW found, NEW none, NEW single,
         DbosOnce(h, s, found, none, single)
  PROVE  /\ s # << >> => DbosOnce(h, Tail(s), found, none, single)
         /\ DbosOnce(h, << >>, found, none, single)
         /\ DbosOnce("failed", << >>, found, none, single)
<1>1. AtMostOnce({"send"}, << >>) /\ ~ Sending(<< >>)
  BY DEF AtMostOnce, Sending, Has
<1>2. ASSUME s # << >>
      PROVE  AtMostOnce({"send"}, Tail(s)) /\ (Sending(Tail(s)) => Sending(s))
  BY <1>2, OnceSending DEF DbosOnce
<1>3. QED
  BY <1>1, <1>2 DEF DbosOnce

LEMMA DbosSendOnce ==
  ASSUME NEW h, NEW s \in Programs, s # << >>, Head(s) = "send", NEW found, NEW none,
         NEW single, DbosOnce(h, s, found, none, single), NEW single2, none => single2
  PROVE  DbosOnce(h, Tail(s), found, FALSE, single2)
<1>1. AtMostOnce({"send"}, Tail(s)) /\ Sending(s) /\ ~ Sending(Tail(s))
  BY OnceSending DEF DbosOnce
<1>2. QED
  BY <1>1 DEF DbosOnce

\* A process that does not send drops steps or, polling, takes some on.
LEMMA DbosDrops ==
  ASSUME trial \in Trials, WatchedDbos(trial), EngineProcess, ~ EngineSend
  PROVE  /\ UNCHANGED harnessVars
         /\ todo' = << >> \/ (todo # << >> /\ todo' = Tail(todo))
<1>1. trial.engine = "dbos"
  BY DEF WatchedDbos
<1>2. CASE DbosProcess
  BY <1>1, <1>2 DEF DbosProcess, KillSelf, Enqueue, CommitOutput, CommitOutcome, Raise, Persists,
                    Running, Advance, ExitWith, EngineSend
<1>3. CASE ReceiveReply \/ EngineSamplerFails \/ Return
  BY <1>3 DEF ReceiveReply, EngineSamplerFails, SamplerFails, Raise, Return, Running, Advance,
              ExitWith
<1>4. QED
  BY <1>1, <1>2, <1>3 DEF EngineProcess, EngineSend, LangGraphProcess

LEMMA OwnSingle == (Own = {}) => Single(Own)
BY DEF Single

\* One trial is followed by another only where one starts.
LEMMA TrialGoesOn ==
  ASSUME EngineSafe, [EngineNext]_allVars, ~ TrialStarts
  PROVE  trial' = trial /\ (harness = "idle" => harness' = "idle")
<1>1. CASE EngineProcess
  BY <1>1, ProcessTyped DEF EngineSafe, harnessVars
<1>2. CASE Daemon
  BY <1>2 DEF Daemon, trialVars, harnessVars
<1>3. exit = "running" => harness # "idle"
  BY DEF EngineSafe, EngineTyped, PhaseOK
<1>4. QED
  BY <1>1, <1>2, <1>3, EngineSteps
     DEF Removed, ServerTimesOut, WorkflowTaskTimesOut, ActivityTimesOut, ServerStep,
         CrashRunEnds, GivenUp, RecoveryRunEnds, SealLedger, ReadDump, ClassifyTrial,
         allVars, trialVars, harnessVars

LEMMA DbosFineStep == EngineSafe /\ DbosFine /\ [EngineNext]_allVars => DbosFine'
<1> SUFFICES ASSUME EngineSafe, DbosFine, [EngineNext]_allVars, WatchedDbos(trial)',
                    (harness # "idle")'
             PROVE  DbosOnce(harness', todo', before'.disk.outputs, Own' = {}, Single(Own'))
  BY DEF DbosFine
<1> DEFINE found == before.disk.outputs
<1>1. PICK none \in BOOLEAN : none = (Own = {})
  BY Zenon
<1>2. PICK single \in BOOLEAN : single = Single(Own)
  <2>1. Single(Own) \in BOOLEAN
    BY DEF Single
  <2>2. QED
    BY <2>1, Zenon
<1>3. /\ trial \in Trials /\ todo \in Programs /\ (exit # "running" => todo = << >>)
      /\ StateAt(trial, harness, todo, disk)
  BY DEF EngineSafe, EngineTyped, HarnessTypeOK, PhaseOK, RunTyped, StateAt
<1>4. CASE TrialStarts
  <2>1. PICK t \in Trials : StartTrial(t, Fresh(t), CrashRun(t))
    BY <1>4 DEF TrialStarts
  <2>2. trial' = t /\ harness' = "crash_run" /\ todo' = CrashRun(t)
    BY <2>1 DEF StartTrial, Spawn
  <2>3. todo' = DbosCrashRun(t)
    BY <2>2 DEF CrashRun, WatchedDbos
  <2>4. Own' = {}
    BY <1>4, OwnMoves
  <2>5. Single(Own')
    BY <2>4 DEF Single
  <2>6. AtMostOnce({"send"}, todo')
    BY <2>3, DbosBegins
  <2>7. QED
    BY <2>2, <2>4, <2>5, <2>6 DEF DbosOnce
<1>5. ASSUME ~ TrialStarts PROVE trial' = trial /\ (harness = "idle" => harness' = "idle")
  BY <1>5, TrialGoesOn
<1>6. ASSUME ~ TrialStarts PROVE WatchedDbos(trial) /\ DbosOnce(harness, todo, found, none, single)
  BY <1>1, <1>2, <1>5, <1>6 DEF DbosFine
<1>7. CASE EngineProcess /\ EngineSend /\ ~ TrialStarts
  <2>1. /\ todo # << >> /\ todo' = Tail(todo) /\ UNCHANGED <<harness, before>>
        /\ Head(todo) \in {"send", "send_billing", "send_shipping"}
    BY <1>7, SendMoves DEF harnessVars
  <2>2. Head(todo) = "send"
    <3>1. ~ Has({"send_billing", "send_shipping"}, todo)
      BY <1>3, <1>6, <1>7 DEF StateAt, DbosAt, WatchedDbos
    <3>2. Head(todo) \notin {"send_billing", "send_shipping"}
      BY <1>3, <2>1, <3>1, HasTail
    <3>3. QED
      BY <2>1, <3>2
  <2>3. none => Single(Own')
    BY <1>1, <1>7, OwnMoves
  <2>4. Own' # {}
    <3>1. PICK r : Sends(r)
      BY <1>7, SendRequest DEF EngineSafe
    <3>2. r \in Own'
      BY <3>1 DEF Sends, Own, Issued
    <3>3. QED
      BY <3>2
  <2>5. DbosOnce(harness, Tail(todo), found, FALSE, Single(Own'))
    BY <1>3, <1>6, <1>7, <2>1, <2>2, <2>3, DbosSendOnce
  <2>6. (Own' = {}) = FALSE
    BY <2>4
  <2>7. QED
    BY <2>1, <2>5, <2>6
<1>8. CASE ~ TrialStarts /\ ~ EngineSend
  <2>1. Own' = Own
    BY <1>8, OwnMoves
  <2>2. (Own' = {}) = none /\ Single(Own') = single
    BY <1>1, <1>2, <2>1
  <2>3. SUFFICES DbosOnce(harness', todo', before'.disk.outputs, none, single)
    BY <2>2
  <2>4. DbosOnce(harness, todo, found, none, single)
    BY <1>6, <1>8
  <2>5. CASE EngineProcess
    <3>1. UNCHANGED <<harness, before>> /\ (todo' = << >> \/ (todo # << >> /\ todo' = Tail(todo)))
      BY <1>3, <1>6, <1>8, <2>5, DbosDrops DEF harnessVars
    <3>2. QED
      BY <1>3, <2>4, <3>1, DbosTail
  <2>6. CASE Removed
    <3>1. harness' \in {harness, "failed"} /\ todo' = << >> /\ before' = before
      BY <2>6 DEF Removed
    <3>2. /\ DbosOnce(harness, << >>, found, none, single)
          /\ DbosOnce("failed", << >>, found, none, single)
      BY <1>3, <2>4, DbosTail
    <3>3. QED
      BY <3>1, <3>2
  <2>7. CASE CrashRunEnds(RecoveryRun(trial, disk))
    <3>1. /\ harness = "crash_run" /\ harness' = "recovery_run" /\ before'.disk = disk
          /\ todo' = RecoveryRun(trial, disk)
      BY <2>7 DEF CrashRunEnds, Spawn
    <3>2. todo' = DbosRecoveryRun(trial, disk) /\ disk \in DbosDisk
      BY <1>3, <1>6, <1>8, <3>1 DEF RecoveryRun, WatchedDbos, StateAt, DbosAt
    <3>3. /\ AtMostOnce({"send"}, todo')
          /\ disk.outputs # << >> => ~ Sending(todo')
      BY <1>3, <1>6, <1>8, <3>2, DbosResumes
    <3>4. single
      BY <2>4, <3>1 DEF DbosOnce
    <3>5. QED
      BY <3>1, <3>3, <3>4 DEF DbosOnce
  <2>8. CASE GivenUp \/ RecoveryRunEnds \/ SealLedger \/ ReadDump \/ ClassifyTrial(Verdict)
    <3>1. /\ todo' = todo /\ before' = before
          /\ harness' = "failed" \/ (harness \in {"recovery_run", "seal", "dump", "classify"}
                                      /\ harness' # "crash_run")
      BY <2>8 DEF GivenUp, RecoveryRunEnds, SealLedger, ReadDump, ClassifyTrial, processVars
    <3>2. QED
      BY <2>4, <3>1 DEF DbosOnce
  <2>9. CASE ServerTimesOut
    <3>1. UNCHANGED <<todo, harness, before>>
      BY <2>9 DEF ServerTimesOut, WorkflowTaskTimesOut, ActivityTimesOut, ServerStep, harnessVars
    <3>2. QED
      BY <2>4, <3>1
  <2>10. CASE Daemon \/ UNCHANGED allVars
    <3>1. UNCHANGED <<todo, harness, before>>
      BY <2>10 DEF Daemon, allVars, trialVars, harnessVars, processVars
    <3>2. QED
      BY <2>4, <3>1
  <2>11. QED
    BY <1>8, <2>5, <2>6, <2>7, <2>8, <2>9, <2>10, EngineSteps
<1>9. EngineSend => EngineProcess
  BY DEF EngineSend, EngineProcess, DbosProcess
<1>10. QED
  BY <1>4, <1>7, <1>8, <1>9

\* No process of another engine's is at work, and of Temporal's only these.
LEMMA TemporalMoves ==
  ASSUME WatchedTemporal(trial), EngineProcess, ~ EngineSend
  PROVE  /\ UNCHANGED harnessVars
         /\ \/ TemporalProcess
            \/ disk' = disk /\ (todo' = << >> \/ (todo # << >> /\ todo' = Tail(todo)))
<1>1. trial.engine = "temporal"
  BY DEF WatchedTemporal
<1>2. CASE TemporalProcess
  <2>1. ProcessOnly
    BY <1>2, ProcessSplit DEF EngineProcess
  <2>2. QED
    BY <1>2, <2>1 DEF ProcessOnly
<1>3. CASE ReceiveReply \/ EngineSamplerFails \/ Return
  BY <1>3 DEF ReceiveReply, EngineSamplerFails, SamplerFails, Raise, Return, Running, Advance,
              ExitWith
<1>4. QED
  BY <1>1, <1>2, <1>3 DEF EngineProcess, EngineSend, LangGraphProcess

LEMMA TemporalFineStep == EngineSafe /\ TemporalFine /\ [EngineNext]_allVars => TemporalFine'
<1> SUFFICES ASSUME EngineSafe, TemporalFine, [EngineNext]_allVars, WatchedTemporal(trial)',
                    (harness # "idle")'
             PROVE  TemporalOnce(todo', disk', Own' = {}, Single(Own'))
  BY DEF TemporalFine
<1>1. PICK none \in BOOLEAN : none = (Own = {})
  BY Zenon
<1>2. PICK single \in BOOLEAN : single = Single(Own)
  <2>1. Single(Own) \in BOOLEAN
    BY DEF Single
  <2>2. QED
    BY <2>1, Zenon
<1>3. /\ trial \in Trials /\ todo \in Programs /\ (exit # "running" => todo = << >>)
      /\ StateAt(trial, harness, todo, disk)
  BY DEF EngineSafe, EngineTyped, HarnessTypeOK, PhaseOK, RunTyped, StateAt
<1>4. CASE TrialStarts
  <2>1. PICK t \in Trials : StartTrial(t, Fresh(t), CrashRun(t))
    BY <1>4 DEF TrialStarts
  <2>2. trial' = t /\ disk' = Fresh(t) /\ todo' = CrashRun(t)
    BY <2>1 DEF StartTrial, Spawn
  <2>3. todo' = <<"start_workflow", "poll">> /\ disk' = TemporalHistory(t)
    BY <2>2 DEF CrashRun, TemporalCrashRun, Fresh, WatchedTemporal
  <2>4. Own' = {}
    BY <1>4, OwnMoves
  <2>5. Single(Own')
    BY <2>4 DEF Single
  <2>6. /\ disk'.wft = "none" /\ disk'.next = 0 /\ disk'.act = "none" /\ disk'.started = 0
    BY <2>3 DEF TemporalHistory
  <2>7. Guarded(todo') /\ ~ Has({"decide", "send"}, todo')
    BY <2>3, TasksGuarded
  <2>8. ~ Has({"decide"}, todo') /\ ~ Has({"send"}, todo')
    BY <2>7 DEF Has
  <2>9. QED
    BY <2>4, <2>5, <2>6, <2>7, <2>8 DEF TemporalOnce, Sending
<1>5. ASSUME ~ TrialStarts PROVE trial' = trial /\ (harness = "idle" => harness' = "idle")
  BY <1>5, TrialGoesOn
<1>6. ASSUME ~ TrialStarts
      PROVE  /\ WatchedTemporal(trial) /\ TemporalOnce(todo, disk, none, single)
             /\ TemporalAt(trial, disk) /\ (none => single)
  <2>1. WatchedTemporal(trial) /\ harness # "idle"
    BY <1>5, <1>6
  <2>2. TemporalAt(trial, disk)
    BY <1>3, <2>1 DEF WatchedTemporal, StateAt
  <2>3. QED
    BY <1>1, <1>2, <2>1, <2>2, OwnSingle DEF TemporalFine
<1>7. CASE EngineSend /\ ~ TrialStarts
  <2>1. /\ todo # << >> /\ todo' = Tail(todo) /\ disk' = disk
        /\ Head(todo) = "send"
    BY <1>6, <1>7, SendMoves DEF EngineSend, WatchedTemporal, SendEffect, SendPayload, Running
  <2>2. none => Single(Own')
    BY <1>1, <1>7, OwnMoves
  <2>3. Own' # {}
    <3>1. PICK r : Sends(r)
      BY <1>7, SendRequest DEF EngineSafe
    <3>2. r \in Own'
      BY <3>1 DEF Sends, Own, Issued
    <3>3. QED
      BY <3>2
  <2>4. disk.act \in {"none", "ready", "taken"}
    BY <1>6, <1>7 DEF TemporalAt, TemporalDisk
  <2>5. TemporalOnce(todo, disk, none, single) /\ todo \in Programs
    BY <1>3, <1>6, <1>7
  <2>6. PICK later \in BOOLEAN : later = Single(Own')
    <3>1. Single(Own') \in BOOLEAN
      BY DEF Single
    <3>2. QED
      BY <3>1, Zenon
  <2>7. none => later
    BY <2>2, <2>6
  <2>8. PICK now \in BOOLEAN : now = (Own' = {})
    BY Zenon
  <2>9. ~ now
    BY <2>3, <2>8
  <2>10. TemporalOnce(Tail(todo), disk, now, later)
    BY <2>1, <2>4, <2>5, <2>7, <2>9, TemporalSendOnce
  <2>11. QED
    BY <2>1, <2>6, <2>8, <2>10
<1>8. CASE ~ TrialStarts /\ ~ EngineSend
  <2>1. Own' = Own
    BY <1>8, OwnMoves
  <2>2. (Own' = {}) = none /\ Single(Own') = single
    BY <1>1, <1>2, <2>1
  <2>3. SUFFICES TemporalOnce(todo', disk', none, single)
    BY <2>2
  <2>4. TemporalOnce(todo, disk, none, single)
    BY <1>6, <1>8
  <2>5. CASE EngineProcess
    <3>1. CASE TemporalProcess
      BY <1>3, <1>6, <1>8, <3>1, TemporalProcessOnce
    <3>2. CASE disk' = disk /\ (todo' = << >> \/ (todo # << >> /\ todo' = Tail(todo)))
      BY <1>3, <2>4, <3>2, TemporalTail, TemporalNothing
    <3>3. QED
      BY <1>6, <1>8, <2>5, <3>1, <3>2, TemporalMoves
  <2>6. CASE Removed
    <3>1. disk' = disk /\ todo' = << >>
      BY <2>6 DEF Removed
    <3>2. QED
      BY <2>4, <3>1, TemporalNothing
  <2>7. CASE CrashRunEnds(RecoveryRun(trial, disk))
    <3>1. disk' = disk /\ todo' = RecoveryRun(trial, disk)
      BY <2>7 DEF CrashRunEnds, Spawn
    <3>2. todo' = <<"poll">>
      BY <1>6, <1>8, <3>1 DEF RecoveryRun, TemporalRecoveryRun, WatchedTemporal
    <3>3. QED
      BY <2>4, <3>1, <3>2, TemporalNothing
  <2>8. CASE ServerTimesOut
    BY <1>3, <1>6, <1>8, <2>8, ServerOnce
  <2>9. CASE UNCHANGED <<todo, disk>>
    BY <2>4, <2>9
  <2>10. QED
    BY <1>8, <2>5, <2>6, <2>7, <2>8, <2>9, EngineSteps
       DEF GivenUp, RecoveryRunEnds, SealLedger, ReadDump, ClassifyTrial, Daemon, allVars,
           trialVars, processVars
<1>9. QED
  BY <1>4, <1>7, <1>8

-----------------------------------------------------------------------------
(***************************************************************************)
(* What the evidence of a hidden trial says of its crossings.              *)
(***************************************************************************)
\* A hidden trial has a ledger of its own, and an intent.
LEMMA HiddenTrials ==
  ASSUME NEW t \in Trials, t.engine \in {"dbos", "temporal"}, t.barrier \in HiddenBarrier
  PROVE  /\ t.barrier \in DOMAIN HiddenPredictions /\ t.mode \notin AdmissionArms
         /\ HarnessOf(t) = t.barrier /\ t.barrier \notin {"matrix", "trueforge"}
         /\ Predicted(t) = HiddenPredictions[t.barrier]
<1>1. t.barrier # ReceiverBarrier
  BY EngineRow
<1>2. t.barrier \in DOMAIN HiddenPredictions
  BY <1>1 DEF HiddenBarrier
<1>3. t.mode \notin AdmissionArms
  BY EngineRow
<1>4. t.barrier \notin Barrier \cup {"matrix", "trueforge"}
  BY <1>2 DEF HiddenPredictions, Barrier
<1>5. HarnessOf(t) = t.barrier
  BY <1>2, <1>3 DEF HarnessOf
<1>6. Predicted(t) = HiddenPredictions[t.barrier]
  <2>1. t.barrier \notin Barrier
    BY <1>4
  <2>2. QED
    BY <1>1, <1>2, <2>1 DEF Predicted, Barrier
<1>7. QED
  BY <1>2, <1>3, <1>4, <1>5, <1>6

\* Tables that agree with one crossing had the output before the recovery, and a
\* history that does has the effect done at the first attempt.
LEMMA EvidenceOfOne ==
  ASSUME EngineSafe, DbosFine, TemporalFine, Scored,
         trial.engine \in {"dbos", "temporal"}, trial.barrier \in HiddenBarrier,
         Predicted(trial) = "exactly_once", Evidence
  PROVE  Single(Own)
<1>1. trial \in Trials /\ harness = "classified"
  BY DEF Scored, EngineSafe, EngineTyped, HarnessTypeOK
<1>2. /\ trial.barrier \in DOMAIN HiddenPredictions
      /\ HiddenPredictions[trial.barrier] = "exactly_once"
  BY <1>1, HiddenTrials
<1>3. CASE trial.engine = "dbos"
  <2>1. DbAgrees
    BY <1>3 DEF Evidence
  <2>2. ~ DuplicateName(trial) /\ trial.barrier # "dbos_step_output_uncommitted"
    BY <1>2 DEF HiddenPredictions, DuplicateName
  <2>3. trial.barrier \in {"dbos_step_output_committed_before_resume",
                           "dbos_workflow_outcome_uncommitted"}
    <3>1. HiddenEngine(trial.barrier) = "dbos"
      BY <1>1, <1>2, <1>3, EngineAssumption
    <3>2. QED
      BY <1>2, <2>2, <3>1 DEF HiddenPredictions, HiddenEngine, DuplicateName
  <2>4. before.disk.outputs # << >>
    <3>1. CASE trial.barrier = "dbos_step_output_committed_before_resume"
      <4>1. before.disk.outputs = <<"effect_step">>
        BY <2>1, <3>1 DEF DbAgrees, DuplicateName
      <4>2. QED
        BY <4>1
    <3>2. CASE trial.barrier = "dbos_workflow_outcome_uncommitted"
      <4>1. before.disk.outputs = <<"effect_step", "sentinel_step">>
        BY <2>1, <3>2 DEF DbAgrees, DuplicateName
      <4>2. QED
        BY <4>1
    <3>3. QED
      BY <2>3, <3>1, <3>2
  <2>5. DbosOnce(harness, todo, before.disk.outputs, Own = {}, Single(Own))
    BY <1>1, <1>2, <1>3, <2>2 DEF DbosFine, WatchedDbos
  <2>6. QED
    BY <1>1, <2>4, <2>5 DEF DbosOnce
<1>4. CASE trial.engine = "temporal"
  <2>1. disk.started = 1
    BY <1>4 DEF Evidence, HistoryAgrees
  <2>2. TemporalOnce(todo, disk, Own = {}, Single(Own))
    BY <1>1, <1>2, <1>4 DEF TemporalFine, WatchedTemporal
  <2>3. QED
    BY <2>1, <2>2 DEF TemporalOnce
<1>5. QED
  BY <1>3, <1>4

\* A hidden trial of DBOS or Temporal whose tables or history agree with a rule
\* that predicts one crossing has crossed exactly once, wherever its processes
\* were killed and however often its activity was tried: an output recorded
\* before the recovery, or an effect completed in its first attempt, is the work
\* of the one request the trial sent (dbos_hidden.py db_agrees, temporal_hidden.py
\* history_agrees).
THEOREM EvidenceShowsOneCrossing == EngineSpec => []EvidenceMeansOnce
<1>1. EngineInit => AnsweredOnce /\ DbosFine /\ TemporalFine
  BY DEF EngineInit, TrialInit, DaemonInit, AnsweredOnce, DbosFine, TemporalFine
<1>2. EngineSpec => [](AnsweredOnce /\ DbosFine /\ TemporalFine)
  BY <1>1, EngineSafeAlways, AnsweredOnceStep, DbosFineStep, TemporalFineStep, PTL DEF EngineSpec
<1>3. EngineSafe /\ Progress /\ VerdictOK /\ StoreOnChain /\ AcknowledgedOnce
        /\ AnsweredOnce /\ DbosFine /\ TemporalFine => EvidenceMeansOnce
  <2> SUFFICES ASSUME EngineSafe, Progress, VerdictOK, StoreOnChain, AcknowledgedOnce,
                      AnsweredOnce, DbosFine, TemporalFine, Scored,
                      trial.engine \in {"dbos", "temporal"}, trial.barrier \in HiddenBarrier,
                      Predicted(trial) = "exactly_once", Evidence
               PROVE  outcome = "exactly_once"
    BY DEF EvidenceMeansOnce
  <2>1. Single(Own)
    BY EvidenceOfOne
  <2>2. trial \in Trials /\ harness = "classified" /\ exit = "zero"
    BY DEF Scored, EngineSafe, EngineTyped, HarnessTypeOK, PhaseOK
  <2>3. HarnessOf(trial) \notin {"matrix", "trueforge"}
    BY <2>2, HiddenTrials
  <2>4. Made
    BY <2>2 DEF Progress, Lost, LostAt
  <2>5. \A m, n \in 1 .. Len(effect_keys[Intent]) : m = n
    BY <2>1, <2>2, <2>3, SingleCrosses DEF Undisturbed
  <2>6. QED
    BY <2>4, <2>5, CountedOnce
<1>4. EngineSpec => []AcknowledgedOnce
  BY EngineRunsDaemon, EachAcknowledgedOnce, PTL
<1>5. QED
  BY <1>2, <1>3, <1>4, EngineSafeAlways, PTL

-----------------------------------------------------------------------------
(***************************************************************************)
(* The two services under their trials.  The worker carries the barrier in *)
(* both runs: it kills the process that has not left its marker behind and *)
(* lets every later one by, so that only the marker tells what the crash   *)
(* cut short.  First the course a process takes: no step of the charge     *)
(* comes again once a later one is taken.                                  *)
(***************************************************************************)
Service(t) == t.engine \in {"restate", "vercel"}

\* The steps that are over with a step, or before it.
Gone(step) ==
  CASE step = "b0" -> {"b0"}
    [] step = "send" -> {"b0", "send"}
    [] step = "await" -> {"b0", "send", "await"}
    [] step = "b1" -> {"b0", "send", "await", "b1"}
    [] step \in {"journal", "charge"} -> {"b0", "send", "await", "b1", "journal", "charge"}
    [] step = "b2" -> {"b0", "send", "await", "b1", "journal", "charge", "b2"}
    [] OTHER -> {}

Onward(s) == \A m, n \in 1 .. Len(s) : m < n => s[n] \notin Gone(s[m])

LEMMA OnwardTail ==
  ASSUME NEW s \in Programs, s # << >>, Onward(s)
  PROVE  Onward(Tail(s)) /\ ~ Has(Gone(Head(s)), Tail(s))
<1> DEFINE u == Tail(s)
<1>1. /\ Len(s) \in Nat \ {0} /\ Len(u) = Len(s) - 1 /\ Head(s) = s[1]
      /\ \A n \in 1 .. Len(s) - 1 : u[n] = s[n + 1]
  BY TailElements DEF Programs
<1> HIDE DEF u
<1>2. ASSUME NEW m \in 1 .. Len(u), NEW n \in 1 .. Len(u), m < n
      PROVE  u[n] \notin Gone(u[m])
  <2>1. m + 1 \in 1 .. Len(s) /\ n + 1 \in 1 .. Len(s) /\ m + 1 < n + 1
    BY <1>1, <1>2
  <2>2. u[m] = s[m + 1] /\ u[n] = s[n + 1]
    BY <1>1
  <2>3. QED
    BY <2>1, <2>2 DEF Onward
<1>3. ASSUME NEW n \in 1 .. Len(u)
      PROVE  u[n] \notin Gone(Head(s))
  <2>1. 1 \in 1 .. Len(s) /\ n + 1 \in 1 .. Len(s) /\ 1 < n + 1
    BY <1>1
  <2>2. u[n] = s[n + 1]
    BY <1>1
  <2>3. QED
    BY <1>1, <2>1, <2>2 DEF Onward
<1>4. QED
  BY <1>2, <1>3 DEF Onward, Has, u

\* What goes on in order and is placed in order goes on in order.
LEMMA OnwardPlaced ==
  ASSUME NEW u \in Programs, NEW s \in Programs, NEW f, Places(f, u, s), Onward(s)
  PROVE  Onward(u)
BY DEF Places, Onward

LEMMA OnwardArmed ==
  ASSUME NEW s \in Programs, NEW b, Onward(s)
  PROVE  Onward(ArmedWith(s, b))
<1> DEFINE u == ArmedWith(s, b)
<1>1. u \in Programs /\ \E f : Places(f, u, s)
  BY ArmedPlaces
<1> HIDE DEF u
<1>2. QED
  BY <1>1, OnwardPlaced DEF u

LEMMA OnwardConcat ==
  ASSUME NEW u \in Programs, NEW v \in Programs, Onward(u), Onward(v),
         \A m \in 1 .. Len(u) : ~ Has(Gone(u[m]), v)
  PROVE  Onward(u \o v)
<1> DEFINE w == u \o v
<1>1. /\ Len(u) \in Nat /\ Len(v) \in Nat
      /\ \A n \in 1 .. Len(u) : w[n] = u[n]
      /\ \A n \in 1 .. Len(v) : w[Len(u) + n] = v[n]
      /\ \A n \in 1 .. Len(w) : n \in 1 .. Len(u) \/ \E m \in 1 .. Len(v) : n = Len(u) + m
  BY ConcatPlaces
<1> HIDE DEF w
<1>2. SUFFICES ASSUME NEW m \in 1 .. Len(w), NEW n \in 1 .. Len(w), m < n
               PROVE  w[n] \notin Gone(w[m])
  BY DEF Onward, w
<1>3. CASE m \in 1 .. Len(u) /\ n \in 1 .. Len(u)
  BY <1>1, <1>2, <1>3 DEF Onward
<1>4. CASE m \in 1 .. Len(u) /\ n \notin 1 .. Len(u)
  <2>1. PICK j \in 1 .. Len(v) : n = Len(u) + j
    BY <1>1, <1>4
  <2>2. w[n] = v[j] /\ w[m] = u[m]
    BY <1>1, <1>4, <2>1
  <2>3. QED
    BY <1>4, <2>2 DEF Has
<1>5. CASE m \notin 1 .. Len(u)
  <2>1. PICK i \in 1 .. Len(v) : m = Len(u) + i
    BY <1>1, <1>5
  <2>2. n \notin 1 .. Len(u)
    BY <1>1, <1>2, <2>1
  <2>3. PICK j \in 1 .. Len(v) : n = Len(u) + j
    BY <1>1, <2>2
  <2>4. i < j
    BY <1>1, <1>2, <2>1, <2>3
  <2>5. w[m] = v[i] /\ w[n] = v[j]
    BY <1>1, <2>1, <2>3
  <2>6. QED
    BY <2>4, <2>5 DEF Onward
<1>6. QED
  BY <1>3, <1>4, <1>5

\* Steps the order does not speak of may come anywhere.
LEMMA OnwardMerge ==
  ASSUME NEW v \in Programs, NEW w \in Programs, NEW order \in Interleavings(v, w),
         \A i \in 1 .. Len(v) : Gone(v[i]) = {} /\ \A x : v[i] \notin Gone(x),
         Onward(w)
  PROVE  order \in Programs /\ Onward(order)
<1>1. order \in Programs
  BY MergePlaces
<1>2. PICK f, g : Merged(f, v, g, w, order)
  BY MergePlaces
<1>3. Len(w) \in Nat /\ Len(order) \in Nat
  BY <1>1, LenProperties DEF Programs
<1>4. SUFFICES ASSUME NEW m \in 1 .. Len(order), NEW n \in 1 .. Len(order), m < n
               PROVE  order[n] \notin Gone(order[m])
  BY <1>1 DEF Onward
<1>5. ASSUME NEW k \in 1 .. Len(order)
      PROVE  \/ Gone(order[k]) = {} /\ \A x : order[k] \notin Gone(x)
             \/ \E i \in 1 .. Len(w) : g[i] = k /\ order[k] = w[i]
  <2>1. (\E i \in 1 .. Len(v) : f[i] = k) \/ (\E i \in 1 .. Len(w) : g[i] = k)
    BY <1>2 DEF Merged
  <2>2. CASE \E i \in 1 .. Len(v) : f[i] = k
    <3>1. PICK i \in 1 .. Len(v) : f[i] = k
      BY <2>2
    <3>2. order[k] = v[i]
      BY <1>2, <3>1 DEF Merged, Places
    <3>3. QED
      BY <3>2
  <2>3. CASE \E i \in 1 .. Len(w) : g[i] = k
    BY <1>2, <2>3 DEF Merged, Places
  <2>4. QED
    BY <2>1, <2>2, <2>3
<1>6. CASE \/ Gone(order[m]) = {}
           \/ \A x : order[n] \notin Gone(x)
  BY <1>6
<1>7. CASE \E i, j \in 1 .. Len(w) : /\ g[i] = m /\ order[m] = w[i]
                                    /\ g[j] = n /\ order[n] = w[j]
  <2>1. PICK i, j \in 1 .. Len(w) : /\ g[i] = m /\ order[m] = w[i]
                                   /\ g[j] = n /\ order[n] = w[j]
    BY <1>7
  <2>2. j < i => n < m
    BY <1>2, <2>1 DEF Merged, Places
  <2>3. i < j
    BY <1>3, <1>4, <2>1, <2>2
  <2>4. QED
    BY <2>1, <2>3 DEF Onward
<1>8. QED
  BY <1>5, <1>6, <1>7

\* What the rest of a program has in it, where d is durable.
Course(t, s, d) ==
  /\ Onward(s)
  /\ Has({"b0"}, s) => Has({"send"}, s)
  /\ Has({"send"}, s) => Awaits(s)
  /\ Has({"send", "await", "b1"}, s) => Has({"journal", "charge"}, s)
  /\ Has({"b2", "sentinel"}, s) => Durable(t, d) \/ Has({"journal"}, s)
  /\ t.engine = "restate" => ~ Has(StepSteps, s)
  /\ t.engine = "vercel" => ~ Has({"journal"}, s)

\* The charge is a step of the fixture's that has still to be started.
Unstarted(t, s, d) == Has({"start_step"}, s) /\ ~ Has({"charge"}, s) /\ ~ Durable(t, d)

\* The process has still to send, and to come to its barrier.
Ahead(t, s, d) == Sending(s) \/ Unstarted(t, s, d)
BarrierAhead(t, s, d) ==
  \/ Has({t.barrier}, s)
  \/ IF t.barrier = "b2" THEN Has({"start_step"}, s) ELSE Unstarted(t, s, d)

Halts(s) == s \in {<<"kill">>, <<"hang">>}

\* The process kills itself, or hangs, before it gets past its barrier.
Doomed(t, s, d) == Halts(s) \/ (~ d.marker /\ BarrierAhead(t, s, d))

\* Nothing is durable that a process makes so after its barrier.
Unreached(t, d) ==
  IF t.barrier = "b2" THEN t.engine = "vercel" => Len(d.completed) < Len(Steps(t))
  ELSE ~ Durable(t, d)

\* A program p follows on s, the same still ahead of it; what has become durable
\* was sent before.
Follows(t, s, d, p, e) ==
  /\ Course(t, p, e) /\ ~ Awaits(s)
  /\ Ahead(t, p, e) <=> Ahead(t, s, d)
  /\ BarrierAhead(t, s, d) => BarrierAhead(t, p, e)
  /\ BarrierAhead(t, s, d) /\ Unreached(t, d) => Unreached(t, e)
  /\ ~ Durable(t, d) /\ Durable(t, e) => ~ Ahead(t, p, e)

LEMMA ServiceTrials ==
  ASSUME NEW t \in Trials, Service(t)
  PROVE  /\ t.barrier \in {"b0", "b1", "b2"}
         /\ t.mode \in {"naive", "idem", "nondet", "twophase"}
         /\ HarnessOf(t) \notin {"matrix", "trueforge"}
         /\ ~ DuplicateName(t)
<1>1. t.engine \in {"restate", "vercel"}
  BY DEF Service
<1>2. t.barrier # ReceiverBarrier
  BY <1>1, EngineRow
<1>3. t.barrier \notin DOMAIN HiddenPredictions
  <2>1. SUFFICES ASSUME t.barrier \in DOMAIN HiddenPredictions PROVE FALSE
    OBVIOUS
  <2>2. t.engine = HiddenEngine(t.barrier)
    BY <2>1, EngineAssumption
  <2>3. QED
    BY <1>1, <2>2 DEF HiddenEngine
<1>4. t.barrier \in {"b0", "b1", "b2"}
  BY <1>2, <1>3, EngineRow DEF Barrier, HiddenBarrier
<1>5. t.mode \notin AdmissionArms
  <2>1. t.barrier # "lg_pre_first_checkpoint"
    BY <1>4
  <2>2. QED
    BY <2>1, EngineAssumption
<1>6. t.mode \in {"naive", "idem", "nondet", "twophase"}
  BY <1>5, EngineRow DEF AdmissionArms
<1>7. HarnessOf(t) \notin {"matrix", "trueforge"}
  BY <1>1, <1>3, <1>5 DEF HarnessOf
<1>8. ~ DuplicateName(t)
  BY <1>4 DEF DuplicateName
<1>9. QED
  BY <1>1, <1>4, <1>6, <1>7, <1>8

LEMMA ServiceDurable ==
  ASSUME NEW t, NEW d
  PROVE  /\ t.engine = "restate" => (Durable(t, d) <=> d.journaled)
         /\ t.engine = "vercel" => (Durable(t, d) <=> Len(d.completed) >= ChargeAt(t))
<1>1. t.engine = "restate" => (Durable(t, d) <=> d.journaled)
  BY Zenon DEF Durable
<1>2. QED
  BY <1>1, VercelDurable

\* A step that makes nothing durable takes the process on along its course.
LEMMA CoursePass ==
  ASSUME NEW t \in Trials, Service(t), NEW s \in Programs, s # << >>, NEW d, NEW e,
         Course(t, s, d), Head(s) \notin StepSteps \cup {"journal"},
         Durable(t, e) <=> Durable(t, d)
  PROVE  /\ Course(t, Tail(s), e)
         /\ Ahead(t, Tail(s), e) => Ahead(t, s, d)
         /\ Head(s) = "send" => ~ Ahead(t, Tail(s), e) /\ Awaits(Tail(s))
         /\ Head(s) # "send" /\ Ahead(t, s, d) => Ahead(t, Tail(s), e)
         /\ Head(s) # "await" /\ Awaits(s) => Awaits(Tail(s))
         /\ Head(s) # t.barrier /\ BarrierAhead(t, s, d) => BarrierAhead(t, Tail(s), e)
<1> DEFINE u == Tail(s)
<1>1. /\ \A X : Has(X, s) <=> Head(s) \in X \/ Has(X, u)
      /\ Onward(u) /\ ~ Has(Gone(Head(s)), u)
  BY HasTail, OnwardTail DEF Course
<1> HIDE DEF u
<1>2. /\ Has({"b0"}, s) => Has({"send"}, s)
      /\ Has({"send"}, s) => Awaits(s)
      /\ Has({"send", "await", "b1"}, s) => Has({"journal", "charge"}, s)
      /\ Has({"b2", "sentinel"}, s) => Durable(t, d) \/ Has({"journal"}, s)
      /\ t.engine = "restate" => ~ Has(StepSteps, s)
      /\ t.engine = "vercel" => ~ Has({"journal"}, s)
  BY DEF Course
<1>3. Head(s) \notin {"start_step", "charge", "sentinel", "journal"}
  BY DEF StepSteps
<1>4. /\ Has({"start_step"}, u) <=> Has({"start_step"}, s)
      /\ Has({"charge"}, u) <=> Has({"charge"}, s)
      /\ Has({"journal"}, u) <=> Has({"journal"}, s)
      /\ Has({"journal", "charge"}, u) <=> Has({"journal", "charge"}, s)
  BY <1>1, <1>3
<1>5. Unstarted(t, u, e) <=> Unstarted(t, s, d)
  BY <1>4 DEF Unstarted
<1>6. Head(s) = "send" => ~ Has({"send"}, u) /\ ~ Has({"b0"}, u) /\ Awaits(u)
  <2>1. SUFFICES ASSUME Head(s) = "send"
                 PROVE  ~ Has({"send"}, u) /\ ~ Has({"b0"}, u) /\ Awaits(u)
    OBVIOUS
  <2>2. Gone(Head(s)) = {"b0", "send"}
    BY <2>1 DEF Gone
  <2>3. ~ Has({"send"}, u) /\ ~ Has({"b0"}, u)
    BY <1>1, <2>2 DEF Has
  <2>4. Awaits(s)
    BY <1>1, <1>2, <2>1
  <2>5. Awaits(u)
    BY <1>1, <2>1, <2>4 DEF Awaits
  <2>6. QED
    BY <2>3, <2>5
<1>7. Head(s) = "await" => ~ Has({"send"}, u)
  <2>1. SUFFICES ASSUME Head(s) = "await" PROVE ~ Has({"send"}, u)
    OBVIOUS
  <2>2. Gone(Head(s)) = {"b0", "send", "await"}
    BY <2>1 DEF Gone
  <2>3. QED
    BY <1>1, <2>2 DEF Has
<1>8. Has({"b0"}, u) => Has({"send"}, u)
  BY <1>1, <1>2, <1>6
<1>9. Has({"send"}, u) => Awaits(u)
  BY <1>1, <1>2, <1>7 DEF Awaits
<1>10. Has({"send", "await", "b1"}, u) => Has({"journal", "charge"}, u)
  BY <1>1, <1>2, <1>4
<1>11. Has({"b2", "sentinel"}, u) => Durable(t, e) \/ Has({"journal"}, u)
  BY <1>1, <1>2, <1>4
<1>12. /\ t.engine = "restate" => ~ Has(StepSteps, u)
       /\ t.engine = "vercel" => ~ Has({"journal"}, u)
  BY <1>1, <1>2
<1>13. Course(t, u, e)
  BY <1>1, <1>8, <1>9, <1>10, <1>11, <1>12 DEF Course
<1>14. /\ Sending(u) => Sending(s)
       /\ Head(s) # "send" /\ Sending(s) => Sending(u)
  BY <1>1 DEF Sending
<1>15. /\ Ahead(t, u, e) => Ahead(t, s, d)
       /\ Head(s) # "send" /\ Ahead(t, s, d) => Ahead(t, u, e)
  BY <1>5, <1>14 DEF Ahead
<1>16. Head(s) = "send" => ~ Ahead(t, u, e)
  <2>1. SUFFICES ASSUME Head(s) = "send" PROVE ~ Unstarted(t, u, e)
    BY <1>6 DEF Ahead, Sending
  <2>2. Has({"journal", "charge"}, s)
    BY <1>1, <1>2, <2>1
  <2>3. CASE t.engine = "restate"
    <3>1. ~ Has({"start_step"}, s)
      BY <1>2, <2>3 DEF Has, StepSteps
    <3>2. QED
      BY <1>5, <3>1 DEF Unstarted
  <2>4. CASE t.engine = "vercel"
    <3>1. Has({"charge"}, s)
      BY <1>2, <2>2, <2>4 DEF Has
    <3>2. QED
      BY <1>5, <3>1 DEF Unstarted
  <2>5. QED
    BY <2>3, <2>4 DEF Service
<1>17. Head(s) # "await" /\ Awaits(s) => Awaits(u)
  BY <1>1 DEF Awaits
<1>18. Head(s) # t.barrier /\ BarrierAhead(t, s, d) => BarrierAhead(t, u, e)
  BY <1>1, <1>4, <1>5 DEF BarrierAhead
<1>19. QED
  BY <1>6, <1>13, <1>15, <1>16, <1>17, <1>18 DEF u

\* What is behind a process that comes to its barrier.
LEMMA CourseStrikes ==
  ASSUME NEW t \in Trials, Service(t), NEW s \in Programs, s # << >>, NEW d,
         Course(t, s, d), Head(s) = t.barrier
  PROVE  /\ t.barrier = "b0" => Ahead(t, s, d)
         /\ t.barrier = "b1" => ~ Ahead(t, s, d) /\ ~ Awaits(s)
         /\ t.barrier = "b2" => Durable(t, d)
<1> DEFINE u == Tail(s)
<1>1. /\ \A X : Has(X, s) <=> Head(s) \in X \/ Has(X, u)
      /\ ~ Has(Gone(Head(s)), u)
  BY HasTail, OnwardTail DEF Course
<1> HIDE DEF u
<1>2. ASSUME t.barrier = "b0" PROVE Ahead(t, s, d)
  <2>1. Has({"b0"}, s)
    BY <1>1, <1>2
  <2>2. QED
    BY <2>1 DEF Course, Ahead, Sending
<1>3. ASSUME t.barrier = "b1" PROVE ~ Ahead(t, s, d) /\ ~ Awaits(s)
  <2>1. Gone(Head(s)) = {"b0", "send", "await", "b1"}
    BY <1>3 DEF Gone
  <2>2. ~ Has({"send"}, u) /\ ~ Has({"await"}, u)
    BY <1>1, <2>1 DEF Has
  <2>3. ~ Has({"send"}, s) /\ ~ Has({"await"}, s)
    BY <1>1, <1>3, <2>2
  <2>4. Has({"send", "await", "b1"}, s)
    BY <1>1, <1>3
  <2>5. ~ Unstarted(t, s, d)
    <3>1. Has({"journal", "charge"}, s)
      BY <2>4 DEF Course
    <3>2. CASE t.engine = "restate"
      <4>1. ~ Has(StepSteps, s)
        BY <3>2 DEF Course
      <4>2. QED
        BY <4>1 DEF Unstarted, Has, StepSteps
    <3>3. CASE t.engine = "vercel"
      <4>1. ~ Has({"journal"}, s)
        BY <3>3 DEF Course
      <4>2. QED
        BY <3>1, <4>1 DEF Unstarted, Has
    <3>4. QED
      BY <3>2, <3>3 DEF Service
  <2>6. QED
    BY <2>3, <2>5 DEF Ahead, Sending, Awaits
<1>4. ASSUME t.barrier = "b2" PROVE Durable(t, d)
  <2>1. Gone(Head(s)) = {"b0", "send", "await", "b1", "journal", "charge", "b2"}
    BY <1>4 DEF Gone
  <2>2. ~ Has({"journal"}, u)
    BY <1>1, <2>1 DEF Has
  <2>3. ~ Has({"journal"}, s) /\ Has({"b2", "sentinel"}, s)
    BY <1>1, <1>4, <2>2
  <2>4. QED
    BY <2>3 DEF Course
<1>5. QED
  BY <1>2, <1>3, <1>4

\* Steps of the fixture's that are only to be started.
LEMMA CourseStarts ==
  ASSUME NEW t \in Trials, t.engine = "vercel", NEW w \in Programs,
         \A n \in 1 .. Len(w) : w[n] = "start_step", NEW d
  PROVE  /\ Course(t, w, d) /\ ~ Awaits(w) /\ ~ Sending(w) /\ ~ Has({t.barrier}, w)
         /\ ~ Has({"charge"}, w)
         /\ Has({"start_step"}, w) <=> w # << >>
<1>1. \A X : "start_step" \notin X => ~ Has(X, w)
  BY DEF Has
<1>2. Onward(w)
  <2>1. \A x : "start_step" \notin Gone(x)
    BY DEF Gone
  <2>2. QED
    BY <2>1 DEF Onward
<1>3. t.barrier # "start_step"
  BY BarrierSteps DEF StepSteps
<1>4. /\ ~ Has({"b0"}, w) /\ ~ Has({"send"}, w) /\ ~ Has({"await"}, w)
      /\ ~ Has({"send", "await", "b1"}, w) /\ ~ Has({"b2", "sentinel"}, w)
      /\ ~ Has({"journal"}, w) /\ ~ Has({"charge"}, w) /\ ~ Has({t.barrier}, w)
  BY <1>1, <1>3
<1>5. Course(t, w, d)
  BY <1>2, <1>4 DEF Course
<1>6. Has({"start_step"}, w) <=> w # << >>
  <2>1. w # << >> => 1 \in 1 .. Len(w)
    BY TailElements DEF Programs
  <2>2. QED
    BY <2>1 DEF Has
<1>7. QED
  BY <1>4, <1>5, <1>6 DEF Awaits, Sending

\* A process about to be killed, or to hang, or gone.
LEMMA CourseEnds ==
  ASSUME NEW t \in Trials, NEW s, s \in {<< >>, <<"kill">>, <<"hang">>}, NEW d
  PROVE  /\ Course(t, s, d) /\ ~ Ahead(t, s, d) /\ ~ Awaits(s)
         /\ ~ BarrierAhead(t, s, d)
<1>1. t.barrier \notin {"kill", "hang"}
  BY EngineRow DEF Barrier, HiddenBarrier, HiddenPredictions, ReceiverBarrier
<1>2. \A X : X \cap {"kill", "hang"} = {} => ~ Has(X, s)
  <2>1. ASSUME NEW n \in 1 .. Len(s) PROVE s[n] \in {"kill", "hang"}
    OBVIOUS
  <2>2. QED
    BY <2>1 DEF Has
<1>3. Onward(s)
  <2>1. Len(s) \in {0, 1}
    OBVIOUS
  <2>2. CASE Len(s) = 0
    BY <2>2 DEF Onward
  <2>3. CASE Len(s) = 1
    BY <2>3 DEF Onward
  <2>4. QED
    BY <2>1, <2>2, <2>3
<1>4. /\ ~ Has({"b0"}, s) /\ ~ Has({"send"}, s) /\ ~ Has({"await"}, s)
      /\ ~ Has({"send", "await", "b1"}, s) /\ ~ Has({"b2", "sentinel"}, s)
      /\ ~ Has({"journal"}, s) /\ ~ Has(StepSteps, s)
  BY <1>2 DEF StepSteps
<1>5. ~ Has({"start_step"}, s) /\ ~ Has({t.barrier}, s)
  BY <1>1, <1>2
<1>6. QED
  BY <1>3, <1>4, <1>5 DEF Course, Ahead, Sending, Unstarted, Awaits, BarrierAhead

\* A step that makes something durable: the action's journal entry.
LEMMA CourseJournals ==
  ASSUME NEW t \in Trials, t.engine = "restate", NEW s \in Programs, s # << >>,
         NEW d, NEW e, Course(t, s, d), Head(s) = "journal", e.journaled = TRUE
  PROVE  Follows(t, s, d, Tail(s), e)
<1> DEFINE u == Tail(s)
<1>1. /\ \A X : Has(X, s) <=> Head(s) \in X \/ Has(X, u)
      /\ Onward(u) /\ ~ Has(Gone(Head(s)), u)
  BY HasTail, OnwardTail DEF Course
<1> HIDE DEF u
<1>2. Gone(Head(s)) = {"b0", "send", "await", "b1", "journal", "charge"}
  BY DEF Gone
<1>3. /\ ~ Has({"b0"}, u) /\ ~ Has({"send"}, u) /\ ~ Has({"await"}, u)
      /\ ~ Has({"b1"}, u) /\ ~ Has({"send", "await", "b1"}, u)
  BY <1>1, <1>2 DEF Has
<1>4. ~ Has(StepSteps, s) /\ Durable(t, e) /\ t.barrier \in {"b0", "b1", "b2"}
  BY ServiceDurable, ServiceTrials DEF Course, Service
<1>5. ~ Has(StepSteps, u)
  BY <1>1, <1>4
<1>6. Course(t, u, e)
  BY <1>1, <1>3, <1>4, <1>5 DEF Course
<1>7. /\ ~ Has({"send"}, s) /\ ~ Has({"await"}, s)
      /\ ~ Has({"b0"}, s) /\ ~ Has({"b1"}, s)
  BY <1>1, <1>3
<1>8. ~ Has({"start_step"}, s) /\ ~ Has({"start_step"}, u)
  BY <1>4, <1>5 DEF Has, StepSteps
<1>9. BarrierAhead(t, s, d) => t.barrier = "b2" /\ Has({"b2"}, u)
  BY <1>1, <1>4, <1>7, <1>8 DEF BarrierAhead, Unstarted
<1>10. QED
  BY <1>3, <1>6, <1>7, <1>8, <1>9
     DEF Follows, Awaits, Ahead, Sending, Unstarted, BarrierAhead, Unreached, u

\* Or the completion of a step of the fixture's.
LEMMA CourseCompletes ==
  ASSUME NEW t \in Trials, t.engine = "vercel", NEW s \in Programs, s # << >>,
         NEW d, NEW e, Course(t, s, d), VercelAt(t, s, d), Head(s) \in CompleteSteps,
         Len(e.completed) = Len(d.completed) + 1
  PROVE  Follows(t, s, d, Tail(s), e)
<1> DEFINE u == Tail(s)
           k == Len(d.completed)
<1>1. Head(s) \in {"prepareIdentity", "charge", "sentinel"} /\ Head(s) \in StepSteps
  BY DEF CompleteSteps, StepSteps
<1>2. /\ k \in Nat /\ k + 1 \in 1 .. Len(Steps(t)) /\ u \in Programs
      /\ Len(s) = Len(Steps(t)) - k /\ Len(u) = Len(s) - 1
      /\ \A n \in 1 .. Len(u) : u[n] = "start_step"
      /\ Head(s) \in {"start_step", Steps(t)[k + 1]}
  BY <1>1, VercelHead
<1>3. \A X : Has(X, s) <=> Head(s) \in X \/ Has(X, u)
  BY HasTail
<1> HIDE DEF u
<1>4. /\ Course(t, u, e) /\ ~ Awaits(u) /\ ~ Sending(u) /\ ~ Has({t.barrier}, u)
      /\ ~ Has({"charge"}, u) /\ (Has({"start_step"}, u) <=> u # << >>)
  BY <1>2, CourseStarts
<1>5. /\ ~ Awaits(s) /\ ~ Sending(s) /\ (Has({"start_step"}, s) <=> u # << >>)
      /\ Has({"charge"}, s) <=> Head(s) = "charge"
  BY <1>1, <1>3, <1>4 DEF Awaits, Sending
<1>6. ~ Has({t.barrier}, s)
  BY <1>1, <1>3, <1>4, BarrierSteps
<1>7. Head(s) = Steps(t)[k + 1]
  BY <1>1, <1>2
<1>8. /\ Durable(t, d) <=> k >= ChargeAt(t)
      /\ Durable(t, e) <=> k + 1 >= ChargeAt(t)
  BY VercelDurable
<1>9. Unstarted(t, u, e) <=> Unstarted(t, s, d)
  <2>1. CASE k + 1 = ChargeAt(t)
    <3>1. Head(s) = "charge"
      BY <1>7, <2>1, VercelSteps
    <3>2. k + 1 >= ChargeAt(t)
      <4>1. ChargeAt(t) \in Nat
        BY VercelSteps
      <4>2. QED
        BY <2>1, <4>1
    <3>3. QED
      BY <1>5, <1>8, <3>1, <3>2 DEF Unstarted
  <2>2. CASE k + 1 # ChargeAt(t)
    <3>1. Head(s) # "charge"
      <4>1. CASE k + 1 < ChargeAt(t)
        BY <1>2, <1>7, <4>1, VercelSteps
      <4>2. CASE k + 1 = ChargeAt(t) + 1
        BY <1>2, <1>7, <4>2, VercelSteps
      <4>3. QED
        BY <1>2, <2>2, <4>1, <4>2, VercelSteps
    <3>2. k + 1 >= ChargeAt(t) <=> k >= ChargeAt(t)
      BY <1>2, <2>2, VercelSteps
    <3>3. QED
      BY <1>4, <1>5, <1>8, <3>1, <3>2 DEF Unstarted
  <2>3. QED
    BY <2>1, <2>2
<1>10. BarrierAhead(t, s, d) => BarrierAhead(t, u, e)
  BY <1>4, <1>5, <1>6, <1>9 DEF BarrierAhead
<1>11. ASSUME BarrierAhead(t, s, d), Unreached(t, d) PROVE Unreached(t, e)
  <2>1. CASE t.barrier = "b2"
    <3>1. u # << >>
      BY <1>5, <1>6, <1>11, <2>1 DEF BarrierAhead
    <3>2. Len(u) \in Nat \ {0}
      BY <1>2, <3>1, TailElements DEF Programs
    <3>3. Len(Steps(t)) \in Nat
      BY VercelSteps
    <3>4. k \in Nat /\ Len(u) = Len(Steps(t)) - k - 1
      BY <1>2, <3>3
    <3> HIDE DEF k
    <3>5. k + 1 < Len(Steps(t))
      BY <3>2, <3>3, <3>4
    <3>6. QED
      BY <2>1, <3>5 DEF Unreached, k
  <2>2. CASE t.barrier # "b2"
    <3>1. Unstarted(t, u, e)
      BY <1>6, <1>9, <1>11, <2>2 DEF BarrierAhead
    <3>2. QED
      BY <2>2, <3>1 DEF Unreached, Unstarted
  <2>3. QED
    BY <2>1, <2>2
<1>12. Durable(t, e) => ~ Ahead(t, u, e)
  BY <1>4 DEF Ahead, Unstarted
<1>13. QED
  BY <1>4, <1>5, <1>9, <1>10, <1>11, <1>12 DEF Follows, Ahead, u

\* The bodies a step may be started with, its claim written before or meanwhile.
StepBodies(step) ==
  {StepBody(step)} \cup UNION {Interleavings(v, StepBody(step)) : v \in ClaimLeft}

\* The body of a step, alone or with the writes of its claim, where b is armed.
LEMMA BodyCourse ==
  ASSUME NEW step \in CompleteSteps, NEW b \in {"b0", "b1", "b2"},
         NEW body \in StepBodies(step)
  PROVE  LET u == ArmedWith(body, b) IN
         /\ u \in Programs /\ Onward(u) /\ ~ Has(StepSteps \cup {"journal"}, u)
         /\ step = "charge" => /\ Sending(u) /\ Awaits(u) /\ ~ Has({"b2"}, u)
                               /\ b # "b2" => Has({b}, u)
         /\ step # "charge" => ~ Has({"b0", "send", "await", "b1"}, u)
         /\ step = "sentinel" /\ b = "b2" => Has({b}, u)
         /\ step # "sentinel" => ~ Has({"b2"}, u)
<1> DEFINE w == StepBody(step)
           u == ArmedWith(body, b)
<1>1. \A v \in ClaimLeft :
        v \in Programs /\ \A i \in 1 .. Len(v) : v[i] \in {"link_claim", "write_created"}
  <2>1. << >> \in Programs
    BY DEF Programs
  <2>2. <<"write_created">> \in Programs
    BY Labels DEF Programs
  <2>3. <<"link_claim", "write_created">> \in Programs
    BY Labels DEF Programs
  <2>4. QED
    BY <2>1, <2>2, <2>3 DEF ClaimLeft
<1>2. /\ step = "prepareIdentity" => w = << >>
      /\ step = "charge" => w = <<"b0", "send", "await", "b1">>
      /\ step = "sentinel" => w = <<"b2">>
  BY DEF StepBody
<1>3. << >> \in Programs /\ Onward(<< >>)
  BY NothingOrdered DEF Onward
<1>4. <<"b2">> \in Programs /\ Onward(<<"b2">>)
  <2>1. <<"b2">> \in Programs
    BY Labels DEF Programs
  <2>2. QED
    BY <2>1 DEF Onward
<1>5. <<"b0", "send", "await", "b1">> \in Programs /\ Onward(<<"b0", "send", "await", "b1">>)
  <2>1. <<"b0", "send", "await", "b1">> \in Programs
    BY Labels DEF Programs
  <2>2. QED
    BY <2>1 DEF Onward, Gone
<1>6. step \in {"prepareIdentity", "charge", "sentinel"}
  BY DEF CompleteSteps
<1>7. w \in Programs /\ Onward(w)
  BY <1>2, <1>3, <1>4, <1>5, <1>6
<1>8. \A x : Gone(x) \cap {"link_claim", "write_created"} = {}
  BY DEF Gone
<1>9. Gone("link_claim") = {} /\ Gone("write_created") = {}
  BY DEF Gone
<1>10. \A X : ~ Has(X, << >>)
  BY NothingOrdered
<1>11. \A X : Has(X, <<"b2">>) <=> "b2" \in X
  BY DEF Has
<1>12. \A X : Has(X, <<"b0", "send", "await", "b1">>) <=> X \cap {"b0", "send", "await", "b1"} # {}
  <2> DEFINE p == <<"b0", "send", "await", "b1">>
  <2>1. Len(p) = 4 /\ p[1] = "b0" /\ p[2] = "send" /\ p[3] = "await" /\ p[4] = "b1"
    OBVIOUS
  <2>2. 1 .. 4 = {1, 2, 3, 4}
    OBVIOUS
  <2> HIDE DEF p
  <2>3. ASSUME NEW X PROVE Has(X, p) <=> X \cap {"b0", "send", "await", "b1"} # {}
    BY <2>1, <2>2 DEF Has
  <2>4. QED
    BY <2>3 DEF p
<1> HIDE DEF w
<1>13. /\ body \in Programs /\ Onward(body)
       /\ \A X : X \cap {"link_claim", "write_created"} = {} => (Has(X, body) <=> Has(X, w))
  <2>1. CASE body = w
    BY <1>7, <2>1
  <2>2. ASSUME NEW v \in ClaimLeft, body \in Interleavings(v, w)
        PROVE  /\ body \in Programs /\ Onward(body)
               /\ \A X : X \cap {"link_claim", "write_created"} = {} =>
                    (Has(X, body) <=> Has(X, w))
    <3>1. \A i \in 1 .. Len(v) : Gone(v[i]) = {} /\ \A x : v[i] \notin Gone(x)
      BY <1>1, <1>8, <1>9
    <3>2. body \in Programs /\ Onward(body)
      BY <1>1, <1>7, <2>2, <3>1, OnwardMerge
    <3>3. ASSUME NEW X, X \cap {"link_claim", "write_created"} = {}
          PROVE  Has(X, body) <=> Has(X, w)
      <4>1. ~ Has(X, v)
        BY <1>1, <3>3 DEF Has
      <4>2. QED
        BY <1>1, <1>7, <2>2, <4>1, HasMerge
    <3>4. QED
      BY <3>2, <3>3
  <2>3. QED
    BY <2>1, <2>2 DEF StepBodies, w
<1>14. u \in Programs /\ Onward(u)
  BY <1>13, ArmedPlaces, OnwardArmed
<1>15. \A X : /\ Has(X, u) => Has(X, body)
              /\ X \cap Unarmed(b) = {} /\ Has(X, body) => Has(X, u)
  BY <1>13, HasArmed
<1> HIDE DEF u
<1>16. /\ {"send"} \cap Unarmed(b) = {} /\ {"await"} \cap Unarmed(b) = {}
       /\ {b} \cap Unarmed(b) = {}
  BY DEF Unarmed, Barrier, HiddenBarrier, HiddenPredictions, ReceiverBarrier
<1>17. \A X : X \cap {"link_claim", "write_created"} = {} /\ Has(X, u) => Has(X, w)
  BY <1>13, <1>15
<1>18. \A y : y \notin {"link_claim", "write_created"} /\ y \notin Unarmed(b) /\ Has({y}, w)
                => Has({y}, u)
  BY <1>13, <1>15
<1>19. ~ Has(StepSteps \cup {"journal"}, w)
  BY <1>2, <1>6, <1>10, <1>11, <1>12 DEF StepSteps
<1>20. ~ Has(StepSteps \cup {"journal"}, u)
  <2>1. (StepSteps \cup {"journal"}) \cap {"link_claim", "write_created"} = {}
    BY DEF StepSteps
  <2>2. QED
    BY <1>17, <1>19, <2>1
<1>21. ASSUME step = "charge"
       PROVE  /\ Sending(u) /\ Awaits(u) /\ ~ Has({"b2"}, u)
              /\ b # "b2" => Has({b}, u)
  <2>1. /\ Has({"send"}, w) /\ Has({"await"}, w) /\ ~ Has({"b2"}, w)
        /\ b # "b2" => Has({b}, w)
    BY <1>2, <1>12, <1>21
  <2>2. Has({"send"}, u) /\ Has({"await"}, u) /\ ~ Has({"b2"}, u)
    BY <1>16, <1>17, <1>18, <2>1
  <2>3. b # "b2" => Has({b}, u)
    BY <1>16, <1>18, <2>1
  <2>4. QED
    BY <2>2, <2>3 DEF Sending, Awaits
<1>22. step # "charge" => ~ Has({"b0", "send", "await", "b1"}, u)
  <2>1. step # "charge" => ~ Has({"b0", "send", "await", "b1"}, w)
    BY <1>2, <1>6, <1>10, <1>11
  <2>2. QED
    BY <1>17, <2>1
<1>23. step = "sentinel" /\ b = "b2" => Has({b}, u)
  <2>1. step = "sentinel" => Has({"b2"}, w)
    BY <1>2, <1>11
  <2>2. QED
    BY <1>16, <1>18, <2>1
<1>24. step # "sentinel" => ~ Has({"b2"}, u)
  <2>1. step # "sentinel" => ~ Has({"b2"}, w)
    BY <1>2, <1>6, <1>10, <1>12
  <2>2. QED
    BY <1>17, <2>1
<1>25. QED
  BY <1>14, <1>20, <1>21, <1>22, <1>23, <1>24 DEF u

\* A step begins: its body comes first, then its completion, then the steps left.
LEMMA CourseBegun ==
  ASSUME NEW t \in Trials, t.engine = "vercel", NEW s \in Programs, s # << >>,
         NEW d, VercelAt(t, s, d), Head(s) = "start_step",
         NEW step, step = Steps(t)[Len(d.completed) + 1],
         NEW body \in StepBodies(step),
         NEW p, p = ArmedWith(body, t.barrier) \o <<step>> \o Tail(s)
  PROVE  Follows(t, s, d, p, d)
<1> DEFINE u == ArmedWith(body, t.barrier)
           one == <<step>>
           w == Tail(s)
           v == u \o one
           k == Len(d.completed)
<1>1. /\ k \in Nat /\ k + 1 \in 1 .. Len(Steps(t)) /\ w \in Programs
      /\ Len(s) = Len(Steps(t)) - k /\ Len(w) = Len(s) - 1
      /\ \A n \in 1 .. Len(w) : w[n] = "start_step"
  BY VercelHead DEF StepSteps
<1>2. step \in CompleteSteps /\ t.barrier \in {"b0", "b1", "b2"}
  BY <1>1, VercelSteps, ServiceTrials DEF CompleteSteps, Service
<1>3. /\ u \in Programs /\ Onward(u) /\ ~ Has(StepSteps \cup {"journal"}, u)
      /\ step = "charge" => /\ Sending(u) /\ Awaits(u) /\ ~ Has({"b2"}, u)
                            /\ t.barrier # "b2" => Has({t.barrier}, u)
      /\ step # "charge" => ~ Has({"b0", "send", "await", "b1"}, u)
      /\ step = "sentinel" /\ t.barrier = "b2" => Has({t.barrier}, u)
      /\ step # "sentinel" => ~ Has({"b2"}, u)
  BY <1>2, BodyCourse
<1>4. /\ Course(t, w, d) /\ ~ Awaits(w) /\ ~ Sending(w) /\ ~ Has({t.barrier}, w)
      /\ ~ Has({"charge"}, w) /\ (Has({"start_step"}, w) <=> w # << >>)
  BY <1>1, CourseStarts
<1>5. \A X : Has(X, s) <=> "start_step" \in X \/ Has(X, w)
  BY HasTail
<1>6. one \in Programs /\ Len(one) = 1 /\ one[1] = step
  BY <1>2, Labels DEF Programs, CompleteSteps
<1>7. \A X : Has(X, one) <=> step \in X
  BY <1>6 DEF Has
<1> HIDE DEF u, one, w
<1>8. \A X : Has(X, v) <=> Has(X, u) \/ Has(X, one)
  BY <1>3, <1>6, HasConcat
<1>9. Onward(v) /\ v \in Programs
  <2>1. Onward(one)
    BY <1>6 DEF Onward
  <2>2. ASSUME NEW m \in 1 .. Len(u) PROVE ~ Has(Gone(u[m]), one)
    <3>1. \A x : step \in Gone(x) => step = "charge" /\ x \in {"journal", "charge", "b2"}
      BY <1>2 DEF Gone, CompleteSteps
    <3>2. u[m] \notin {"journal", "charge"}
      BY <1>3 DEF Has, StepSteps
    <3>3. step = "charge" => u[m] # "b2"
      BY <1>3 DEF Has
    <3>4. QED
      BY <1>7, <3>1, <3>2, <3>3
  <2>3. QED
    BY <1>3, <1>6, <2>1, <2>2, OnwardConcat, ConcatPlaces
<1>10. p = v \o w
  BY DEF u, one, w
<1> HIDE DEF v
<1>11. \A X : Has(X, p) <=> Has(X, u) \/ step \in X \/ Has(X, w)
  <2>1. v \in Programs /\ w \in Programs
    BY <1>1, <1>9
  <2>2. \A X : Has(X, p) <=> Has(X, v) \/ Has(X, w)
    <3>1. \A X : Has(X, v \o w) <=> Has(X, v) \/ Has(X, w)
      BY <2>1, HasConcat
    <3>2. QED
      BY <1>10, <3>1, Zenon
  <2>3. QED
    BY <1>7, <1>8, <2>2
<1>12. Onward(p)
  <2>1. \A x : "start_step" \notin Gone(x)
    BY DEF Gone
  <2>2. \A m \in 1 .. Len(v) : ~ Has(Gone(v[m]), w)
    BY <1>1, <2>1 DEF Has
  <2>3. QED
    BY <1>1, <1>4, <1>9, <1>10, <2>2, OnwardConcat DEF Course
<1>13. /\ \A X : "start_step" \notin X => ~ Has(X, w)
       /\ step \in {"prepareIdentity", "charge", "sentinel"}
  BY <1>1, <1>2 DEF Has, CompleteSteps
<1>14. /\ Has({"send"}, u) => step = "charge"
       /\ Has({"b0"}, u) => step = "charge"
       /\ Has({"send", "await", "b1"}, u) => step = "charge"
       /\ ~ Has({"journal"}, u) /\ ~ Has({"charge"}, u) /\ ~ Has({"start_step"}, u)
       /\ ~ Has({"sentinel"}, u)
  BY <1>3 DEF Has, StepSteps
<1>15. /\ Has({"b0"}, p) => Has({"send"}, p)
       /\ Has({"send"}, p) <=> step = "charge"
       /\ Has({"send"}, p) => Awaits(p)
  BY <1>3, <1>11, <1>13, <1>14 DEF Sending, Awaits
<1>16. Has({"send", "await", "b1"}, p) => Has({"charge"}, p)
  BY <1>11, <1>13, <1>14
<1>17. Has({"charge"}, p) <=> step = "charge"
  BY <1>11, <1>13, <1>14
<1>18. Has({"b2", "sentinel"}, p) => step = "sentinel"
  <2>1. Has({"b2", "sentinel"}, u) => Has({"b2"}, u) \/ Has({"sentinel"}, u)
    BY DEF Has
  <2>2. QED
    BY <1>3, <1>11, <1>13, <1>14, <2>1
<1>19. ~ Has({"journal"}, p)
  BY <1>11, <1>13, <1>14
<1>20. /\ step = "charge" => ~ Durable(t, d)
       /\ step = "sentinel" => Durable(t, d)
       /\ step = "prepareIdentity" => ~ Durable(t, d) /\ w # << >>
  <2>1. ChargeAt(t) \in {1, 2} /\ Len(Steps(t)) = ChargeAt(t) + 1
    BY VercelSteps
  <2>2. Durable(t, d) <=> k >= ChargeAt(t)
    BY VercelDurable
  <2>3. k + 1 = ChargeAt(t) => step = "charge"
    BY VercelSteps
  <2>4. k + 1 = ChargeAt(t) + 1 => step = "sentinel"
    BY VercelSteps
  <2>5. k + 1 < ChargeAt(t) => step = "prepareIdentity"
    BY <1>1, VercelSteps
  <2>6. Len(w) = ChargeAt(t) - k
    BY <1>1, <2>1
  <2> HIDE DEF k
  <2>7. k + 1 < ChargeAt(t) \/ k + 1 = ChargeAt(t) \/ k + 1 = ChargeAt(t) + 1
    BY <1>1, <2>1
  <2>8. CASE k + 1 < ChargeAt(t)
    <3>1. step = "prepareIdentity" /\ ~ Durable(t, d) /\ Len(w) # 0
      BY <1>1, <2>1, <2>2, <2>5, <2>6, <2>8
    <3>2. w # << >>
      BY <3>1
    <3>3. QED
      BY <3>1, <3>2
  <2>9. CASE k + 1 = ChargeAt(t)
    <3>1. ~ Durable(t, d)
      BY <1>1, <2>1, <2>2, <2>9
    <3>2. QED
      BY <2>3, <2>9, <3>1
  <2>10. CASE k + 1 = ChargeAt(t) + 1
    <3>1. Durable(t, d)
      BY <1>1, <2>1, <2>2, <2>10
    <3>2. QED
      BY <2>4, <2>10, <3>1
  <2>11. QED
    BY <2>7, <2>8, <2>9, <2>10
<1>21. Course(t, p, d)
  <2>1. Has({"charge"}, p) => Has({"journal", "charge"}, p)
    BY DEF Has
  <2>2. QED
    BY <1>12, <1>15, <1>16, <1>18, <1>19, <1>20, <2>1 DEF Course
<1>22. /\ ~ Awaits(s) /\ ~ Sending(s) /\ ~ Has({"charge"}, s) /\ Has({"start_step"}, s)
       /\ ~ Has({t.barrier}, s)
  BY <1>2, <1>4, <1>5 DEF Awaits, Sending
<1>23. Unstarted(t, s, d) <=> ~ Durable(t, d)
  BY <1>22 DEF Unstarted
<1>24. step = "prepareIdentity" => Has({"start_step"}, p)
  BY <1>4, <1>11, <1>20
<1>25. Unstarted(t, p, d) <=> step = "prepareIdentity"
  BY <1>13, <1>17, <1>20, <1>24 DEF Unstarted
<1>26. Ahead(t, p, d) <=> Ahead(t, s, d)
  BY <1>13, <1>15, <1>20, <1>22, <1>23, <1>25 DEF Ahead, Sending
<1>27. ASSUME BarrierAhead(t, s, d) PROVE BarrierAhead(t, p, d)
  <2>1. CASE t.barrier = "b2"
    <3>1. step = "charge" => w # << >>
      <4>1. step # "charge" \/ w # << >>
        <5>1. Len(Steps(t)) = ChargeAt(t) + 1 /\ ChargeAt(t) \in {1, 2}
              /\ Steps(t)[ChargeAt(t) + 1] = "sentinel"
          BY VercelSteps
        <5>2. Len(w) = ChargeAt(t) - k
          BY <1>1, <5>1
        <5>3. k = ChargeAt(t) => step = "sentinel"
          BY <5>1
        <5> HIDE DEF k
        <5>4. k # ChargeAt(t) => Len(w) # 0
          BY <1>1, <5>1, <5>2
        <5>5. k # ChargeAt(t) => w # << >>
          BY <5>4
        <5>6. QED
          BY <5>3, <5>5
      <4>2. QED
        BY <4>1
    <3>2. step # "sentinel" => Has({"start_step"}, p)
      BY <1>4, <1>11, <1>13, <1>24, <3>1
    <3>3. step = "sentinel" => Has({t.barrier}, p)
      BY <1>3, <1>11, <2>1
    <3>4. QED
      BY <2>1, <3>2, <3>3 DEF BarrierAhead
  <2>2. CASE t.barrier # "b2"
    <3>1. ~ Durable(t, d)
      BY <1>22, <1>23, <1>27, <2>2 DEF BarrierAhead
    <3>2. step = "charge" => Has({t.barrier}, p)
      BY <1>3, <1>11, <2>2
    <3>3. QED
      BY <1>13, <1>20, <1>25, <2>2, <3>1, <3>2 DEF BarrierAhead
  <2>3. QED
    BY <2>1, <2>2
<1>28. QED
  BY <1>21, <1>22, <1>26, <1>27 DEF Follows

LEMMA StartAhead ==
  ASSUME NEW w \in Programs, \A i \in 1 .. Len(w) : w[i] = "start_step"
  PROVE  LET s == <<"start_step">> \o w IN
         /\ s \in Programs /\ s # << >> /\ Head(s) = "start_step" /\ Tail(s) = w
         /\ Len(s) = Len(w) + 1 /\ \A n \in 1 .. Len(s) : s[n] = "start_step"
<1> DEFINE one == <<"start_step">>
           s == one \o w
<1>1. one \in Programs /\ Len(one) = 1 /\ one[1] = "start_step"
  BY Labels DEF Programs
<1>2. s \in Programs /\ s # << >> /\ Head(s) = "start_step" /\ Tail(s) = w
  BY <1>1 DEF Programs
<1>3. Len(s) = Len(w) + 1
  BY DEF Programs
<1>4. ASSUME NEW n \in 1 .. Len(s) PROVE s[n] = "start_step"
  BY <1>1 DEF Programs
<1>5. QED
  BY <1>2, <1>3, <1>4

\* Begun again, the charge has everything ahead of it.
LEMMA CourseRetried ==
  ASSUME NEW t \in Trials, t.engine = "vercel", NEW d \in VercelDisk,
         Len(d.completed) + 1 \in 1 .. Len(Steps(t)),
         Steps(t)[Len(d.completed) + 1] = "charge",
         NEW body \in StepBodies("charge"),
         NEW w \in Programs, \A i \in 1 .. Len(w) : w[i] = "start_step",
         Len(w) = Len(Steps(t)) - Len(d.completed) - 1,
         NEW p, p = ArmedWith(body, t.barrier) \o <<"charge">> \o w
  PROVE  Course(t, p, d) /\ Ahead(t, p, d) /\ BarrierAhead(t, p, d)
<1> DEFINE s == <<"start_step">> \o w
           k == Len(d.completed)
<1>2. k \in Nat /\ Len(Steps(t)) \in Nat /\ Len(w) \in Nat
  BY VercelSteps, LenProperties DEF VercelDisk, Programs
<1>3. s \in Programs /\ s # << >> /\ Head(s) = "start_step" /\ Tail(s) = w
  BY StartAhead
<1>4. Len(s) = Len(w) + 1 /\ \A n \in 1 .. Len(s) : s[n] = "start_step"
  BY StartAhead
<1> HIDE DEF s
<1>5. VercelAt(t, s, d)
  <2>1. k \in 0 .. Len(Steps(t)) /\ Len(s) - (Len(Steps(t)) - k) + 1 = 1
    BY <1>2, <1>4
  <2>2. \A n \in 1 .. Len(s) : ~ (n < 1)
    OBVIOUS
  <2>3. QED
    BY <1>4, <2>1, <2>2 DEF VercelAt
<1> DEFINE step == "charge"
<1>6. step = Steps(t)[Len(d.completed) + 1] /\ body \in StepBodies(step)
      /\ p = ArmedWith(body, t.barrier) \o <<step>> \o Tail(s)
  BY <1>3
<1> HIDE DEF step
<1>7. Follows(t, s, d, p, d)
  BY <1>3, <1>5, <1>6, CourseBegun
<1>8. ~ Durable(t, d)
  <2>1. Durable(t, d) <=> k >= ChargeAt(t)
    BY VercelDurable
  <2>2. /\ ChargeAt(t) \in {1, 2} /\ Len(Steps(t)) = ChargeAt(t) + 1
        /\ Steps(t)[ChargeAt(t) + 1] = "sentinel"
    BY VercelSteps
  <2>3. k + 1 # ChargeAt(t) + 1 /\ k + 1 <= ChargeAt(t) + 1
    <3>1. Steps(t)[k + 1] = "charge" /\ k + 1 <= Len(Steps(t))
      BY <1>2
    <3> HIDE DEF k
    <3>2. QED
      BY <2>2, <3>1
  <2> HIDE DEF k
  <2>4. QED
    BY <1>2, <2>1, <2>2, <2>3
<1>9. Has({"start_step"}, s) /\ ~ Has({"charge"}, s)
  BY <1>2, <1>4 DEF Has
<1>10. Ahead(t, s, d) /\ BarrierAhead(t, s, d)
  BY <1>8, <1>9 DEF Ahead, BarrierAhead, Unstarted
<1>11. QED
  BY <1>7, <1>10 DEF Follows

\* The handler, of which nothing is journaled that its barrier is ahead of.
LEMMA RestateCourse ==
  ASSUME NEW t \in Trials, t.engine = "restate", NEW d, d.journaled \in BOOLEAN,
         Unreached(t, d), NEW s, s = RestateRun(t, d)
  PROVE  /\ Course(t, s, d) /\ BarrierAhead(t, s, d)
         /\ Ahead(t, s, d) <=> ~ Durable(t, d)
<1> DEFINE one == <<"b0">>
           u == IF d.journaled THEN << >> ELSE <<"send", "await", "b1", "journal">>
           v == one \o u
           last == <<"b2">>
           w == v \o last
           rest == {"b0", "send", "await", "b1", "journal", "b2"}
<1>1. s = ArmedWith(w, t.barrier)
  BY DEF RestateRun
<1>2. t.barrier \in {"b0", "b1", "b2"} /\ (Durable(t, d) <=> d.journaled)
  BY ServiceTrials, ServiceDurable DEF Service
<1>3. d.journaled => t.barrier = "b2"
  BY <1>2 DEF Unreached
<1>4. /\ one \in Programs /\ Onward(one) /\ Len(one) = 1 /\ one[1] = "b0"
      /\ \A X : Has(X, one) <=> "b0" \in X
  <2>1. one \in Programs
    BY Labels DEF Programs
  <2>2. QED
    BY <2>1 DEF Onward, Has
<1>5. /\ last \in Programs /\ Onward(last)
      /\ \A X : Has(X, last) <=> "b2" \in X
  <2>1. last \in Programs
    BY Labels DEF Programs
  <2>2. QED
    BY <2>1 DEF Onward, Has
<1>6. /\ u \in Programs /\ Onward(u)
      /\ \A X : Has(X, u) <=> ~ d.journaled /\ X \cap {"send", "await", "b1", "journal"} # {}
  <2> DEFINE q == <<"send", "await", "b1", "journal">>
  <2>1. q \in Programs
    BY Labels DEF Programs
  <2>2. Len(q) = 4 /\ q[1] = "send" /\ q[2] = "await" /\ q[3] = "b1" /\ q[4] = "journal"
    OBVIOUS
  <2>3. 1 .. 4 = {1, 2, 3, 4}
    OBVIOUS
  <2>4. u = IF d.journaled THEN << >> ELSE q
    OBVIOUS
  <2> HIDE DEF q, u
  <2>5. Onward(q)
    BY <2>2, <2>3 DEF Onward, Gone
  <2>6. ASSUME NEW X PROVE Has(X, q) <=> X \cap {"send", "await", "b1", "journal"} # {}
    BY <2>2, <2>3 DEF Has
  <2>7. << >> \in Programs /\ Onward(<< >>) /\ \A X : ~ Has(X, << >>)
    BY NothingOrdered DEF Onward
  <2>8. QED
    BY <2>1, <2>4, <2>5, <2>6, <2>7
<1> HIDE DEF one, u, last
<1>7. v \in Programs /\ \A X : Has(X, v) <=> Has(X, one) \/ Has(X, u)
  BY <1>4, <1>6, HasConcat, ConcatPlaces
<1>8. Onward(v)
  <2>1. ASSUME NEW m \in 1 .. Len(one) PROVE ~ Has(Gone(one[m]), u)
    <3>1. one[m] = "b0"
      BY <1>4
    <3>2. Gone("b0") = {"b0"}
      BY DEF Gone
    <3>3. QED
      BY <1>6, <3>1, <3>2
  <2>2. QED
    BY <1>4, <1>6, <2>1, OnwardConcat
<1> HIDE DEF v
<1>9. w \in Programs /\ \A X : Has(X, w) <=> Has(X, v) \/ Has(X, last)
  BY <1>5, <1>7, HasConcat, ConcatPlaces
<1>10. Onward(w)
  <2>1. ASSUME NEW m \in 1 .. Len(v) PROVE ~ Has(Gone(v[m]), last)
    <3>1. Has({v[m]}, v)
      BY DEF Has
    <3>2. v[m] # "b2"
      BY <1>4, <1>6, <1>7, <3>1
    <3>3. \A x : x # "b2" => "b2" \notin Gone(x)
      BY DEF Gone
    <3>4. QED
      BY <1>5, <3>2, <3>3
  <2>2. QED
    BY <1>5, <1>7, <1>8, <2>1, OnwardConcat
<1> HIDE DEF w, last
<1>11. s \in Programs /\ Onward(s)
  BY <1>1, <1>9, <1>10, ArmedPlaces, OnwardArmed
<1>12. \A X : /\ Has(X, s) => Has(X, w)
              /\ X \cap Unarmed(t.barrier) = {} /\ Has(X, w) => Has(X, s)
  BY <1>1, <1>9, HasArmed
<1>13. \A X : Has(X, w) <=>
                \/ "b0" \in X \/ "b2" \in X
                \/ ~ d.journaled /\ X \cap {"send", "await", "b1", "journal"} # {}
  BY <1>4, <1>5, <1>6, <1>7, <1>9
<1>14. /\ {"send"} \cap Unarmed(t.barrier) = {} /\ {"await"} \cap Unarmed(t.barrier) = {}
       /\ {t.barrier} \cap Unarmed(t.barrier) = {} /\ {"journal"} \cap Unarmed(t.barrier) = {}
  BY DEF Unarmed, Barrier, HiddenBarrier, HiddenPredictions, ReceiverBarrier
<1>15. ~ Has(Unarmed(t.barrier), s)
  BY <1>1, <1>9, ArmedPlaces
<1>16. t.barrier # "b0" => ~ Has({"b0"}, s)
  <2>1. t.barrier # "b0" => "b0" \in Unarmed(t.barrier)
    BY DEF Unarmed, Barrier
  <2>2. QED
    BY <1>15, <2>1 DEF Has
<1>17. /\ Has({"send"}, s) <=> ~ d.journaled
       /\ Has({"await"}, s) <=> ~ d.journaled
       /\ Has({"journal"}, s) <=> ~ d.journaled
       /\ Has({"send", "await", "b1"}, s) => ~ d.journaled
  <2>1. /\ Has({"send"}, s) <=> ~ d.journaled
        /\ Has({"await"}, s) <=> ~ d.journaled
    BY <1>12, <1>13, <1>14
  <2>2. /\ Has({"journal"}, s) <=> ~ d.journaled
        /\ Has({"send", "await", "b1"}, s) => ~ d.journaled
    BY <1>12, <1>13, <1>14
  <2>3. QED
    BY <2>1, <2>2
<1>18. ~ Has(StepSteps, s)
  BY <1>12, <1>13 DEF StepSteps
<1>19. Has({t.barrier}, s)
  BY <1>2, <1>3, <1>12, <1>13, <1>14
<1>20. Has({"b0"}, s) => Has({"send"}, s)
  BY <1>3, <1>16, <1>17
<1>21. Has({"journal"}, s) => Has({"journal", "charge"}, s)
  BY DEF Has
<1>22. Course(t, s, d)
  BY <1>2, <1>11, <1>17, <1>18, <1>20, <1>21 DEF Course, Awaits
<1>23. ~ Has({"start_step"}, s)
  BY <1>18 DEF Has, StepSteps
<1>24. QED
  BY <1>2, <1>17, <1>19, <1>22, <1>23 DEF BarrierAhead, Ahead, Sending, Unstarted

\* A replay, of which nothing is completed that its barrier is ahead of.
LEMMA ReplayCourse ==
  ASSUME NEW t \in Trials, t.engine = "vercel", NEW d,
         Len(d.completed) \in 0 .. Len(Steps(t)), Unreached(t, d), NEW s, s = Replay(t, d)
  PROVE  /\ s \in Programs /\ Course(t, s, d) /\ BarrierAhead(t, s, d)
         /\ ~ Sending(s) /\ ~ Has({t.barrier}, s) /\ ~ Awaits(s)
         /\ ~ Has({"charge"}, s) /\ (Has({"start_step"}, s) <=> s # << >>)
         /\ \A n \in 1 .. Len(s) : s[n] = "start_step"
         /\ Ahead(t, s, d) <=> ~ Durable(t, d)
<1>1. /\ s \in Programs /\ Len(s) = Len(Steps(t)) - Len(d.completed)
      /\ \A n \in 1 .. Len(s) : s[n] = "start_step"
  BY VercelReplay
<1>2. /\ Course(t, s, d) /\ ~ Awaits(s) /\ ~ Sending(s) /\ ~ Has({t.barrier}, s)
      /\ ~ Has({"charge"}, s) /\ (Has({"start_step"}, s) <=> s # << >>)
  BY <1>1, CourseStarts
<1>3. ChargeAt(t) \in {1, 2} /\ Len(Steps(t)) = ChargeAt(t) + 1
  BY VercelSteps
<1>4. Durable(t, d) <=> Len(d.completed) >= ChargeAt(t)
  BY VercelDurable
<1>5. Len(d.completed) < Len(Steps(t)) => s # << >>
  <2>1. Len(d.completed) < Len(Steps(t)) => Len(s) # 0
    BY <1>1, <1>3
  <2>2. QED
    BY <2>1
<1>6. ~ Durable(t, d) => Len(d.completed) < Len(Steps(t))
  BY <1>3, <1>4
<1>7. Unstarted(t, s, d) <=> ~ Durable(t, d)
  BY <1>2, <1>5, <1>6 DEF Unstarted
<1>8. BarrierAhead(t, s, d)
  BY <1>2, <1>5, <1>7 DEF BarrierAhead, Unreached
<1>9. QED
  BY <1>1, <1>2, <1>7, <1>8 DEF Ahead

LEMMA ServiceBegins ==
  ASSUME NEW t \in Trials, Service(t), NEW s, s = CrashRun(t), NEW d, d = Fresh(t)
  PROVE  /\ Course(t, s, d) /\ Ahead(t, s, d) /\ BarrierAhead(t, s, d) /\ Unreached(t, d)
         /\ d.marker = FALSE
<1>1. CASE t.engine = "restate"
  <2>1. s = RestateRun(t, d) /\ d = RestateState(t)
    BY <1>1 DEF CrashRun, Fresh
  <2>2. d.journaled = FALSE /\ d.marker = FALSE
    BY <2>1 DEF RestateState
  <2>3. ~ Durable(t, d)
    BY <1>1, <2>2, ServiceDurable
  <2>4. Unreached(t, d)
    BY <1>1, <2>3 DEF Unreached
  <2>5. d.journaled \in BOOLEAN
    BY <2>2
  <2>6. /\ Course(t, s, d) /\ BarrierAhead(t, s, d)
        /\ Ahead(t, s, d) <=> ~ Durable(t, d)
    BY <1>1, <2>1, <2>4, <2>5, RestateCourse
  <2>7. QED
    BY <2>2, <2>3, <2>4, <2>6
<1>2. CASE t.engine = "vercel"
  <2> DEFINE u == <<"create_run">>
             w == Replay(t, d)
  <2>1. s = u \o w /\ d = LocalWorld(t)
    BY <1>2 DEF CrashRun, VercelCrashRun, Fresh
  <2>2. d.completed = << >> /\ d.marker = FALSE
    BY <2>1 DEF LocalWorld
  <2>3. Len(d.completed) \in 0 .. Len(Steps(t)) /\ Len(d.completed) < Len(Steps(t))
        /\ ~ (Len(d.completed) >= ChargeAt(t))
    BY <2>2, VercelSteps
  <2>4. ~ Durable(t, d)
    BY <1>2, <2>3, VercelDurable
  <2>5. Unreached(t, d)
    BY <2>3, <2>4 DEF Unreached
  <2>6. /\ w \in Programs /\ Course(t, w, d) /\ BarrierAhead(t, w, d)
        /\ ~ Sending(w) /\ ~ Has({t.barrier}, w) /\ ~ Awaits(w)
        /\ ~ Has({"charge"}, w) /\ (Has({"start_step"}, w) <=> w # << >>)
        /\ Ahead(t, w, d) <=> ~ Durable(t, d)
    BY <1>2, <2>3, <2>5, ReplayCourse
  <2>7. u \in Programs /\ Len(u) = 1 /\ u[1] = "create_run"
    BY Labels DEF Programs
  <2>8. \A X : Has(X, u) <=> "create_run" \in X
    BY <2>7 DEF Has
  <2> HIDE DEF u, w
  <2>9. \A X : Has(X, s) <=> "create_run" \in X \/ Has(X, w)
    <3>1. \A X : Has(X, u \o w) <=> Has(X, u) \/ Has(X, w)
      BY <2>6, <2>7, HasConcat
    <3>2. QED
      BY <2>1, <2>8, <3>1, Zenon
  <2>10. Onward(s)
    <3>1. Gone("create_run") = {}
      BY DEF Gone
    <3>2. ASSUME NEW m \in 1 .. Len(u) PROVE ~ Has(Gone(u[m]), w)
      BY <2>7, <3>1 DEF Has
    <3>3. Onward(u)
      BY <2>7 DEF Onward
    <3>4. QED
      BY <2>1, <2>6, <2>7, <3>2, <3>3, OnwardConcat DEF Course
  <2>11. t.barrier # "create_run"
    BY ServiceTrials
  <2>12. Course(t, s, d)
    <3>1. ~ Has({"b0"}, w) /\ ~ Has({"journal"}, w)
      BY <1>2, <2>6 DEF Course, Sending
    <3>2. QED
      BY <1>2, <2>6, <2>9, <2>10, <3>1 DEF Course, Awaits, Sending
  <2>13. Unstarted(t, s, d) <=> Unstarted(t, w, d)
    BY <2>9 DEF Unstarted
  <2>14. Ahead(t, s, d)
    BY <2>4, <2>6, <2>13 DEF Ahead
  <2>15. BarrierAhead(t, s, d)
    BY <2>6, <2>9, <2>13 DEF BarrierAhead
  <2>16. QED
    BY <2>2, <2>5, <2>12, <2>14, <2>15
<1>3. QED
  BY <1>1, <1>2 DEF Service

LEMMA ServiceResumes ==
  ASSUME NEW t \in Trials, Service(t), NEW h, NEW p, NEW d, StateAt(t, h, p, d),
         Unreached(t, d), NEW s, s = RecoveryRun(t, d)
  PROVE  /\ Course(t, s, d) /\ BarrierAhead(t, s, d)
         /\ Ahead(t, s, d) <=> ~ Durable(t, d)
<1>1. CASE t.engine = "restate"
  <2>1. s = RestateRun(t, d)
    BY <1>1 DEF RecoveryRun
  <2>2. d.journaled \in BOOLEAN
    BY <1>1 DEF StateAt, RestateDisk
  <2>3. QED
    BY <1>1, <2>1, <2>2, RestateCourse
<1>2. CASE t.engine = "vercel"
  <2>1. s = Replay(t, d)
    BY <1>2 DEF RecoveryRun, VercelRecoveryRun
  <2>2. Len(d.completed) \in 0 .. Len(Steps(t))
    BY <1>2 DEF StateAt, VercelAt
  <2>3. QED
    BY <1>2, <2>1, <2>2, ReplayCourse
<1>3. QED
  BY <1>1, <1>2 DEF Service

(***************************************************************************)
(* What the marker tells of the requests sent: own are those the trial     *)
(* sent since its effect last threw, ears those of the whole trial whose   *)
(* answer is there, asked the one sent last.                               *)
(***************************************************************************)
Told(r, s, ears, asked) == r \in ears \/ (r.id = asked /\ Awaits(s))

Once(t, s, d, own, ears, asked) ==
  Ahead(t, s, d) \/ \E r \in own : Told(r, s, ears, asked)
Twice(t, s, d, own, ears, asked) ==
  \E q \in ears : Ahead(t, s, d) \/ \E r \in own \ {q} : Told(r, s, ears, asked)

\* Where the process was that left the marker.
Struck(t, d, own, ears) ==
  /\ t.barrier = "b0" => own = {}
  /\ t.barrier = "b1" => ears # {}
  /\ t.barrier = "b2" => Durable(t, d)

\* m is what the recovery found: no crash run and no recovery without a marker
\* ends in success, and with it the recovery sends what the barrier left it to.
MarkerAt(t, h, x, s, d, m, own, ears, asked) ==
  /\ Course(t, s, d)
  /\ h = "crash_run" => ~ m /\ Unreached(t, d) /\ (d.marker => Struck(t, d, own, ears))
  /\ m => d.marker
  /\ x = "running" /\ ~ m => Doomed(t, s, d)
  /\ h \notin {"crash_run", "failed"} /\ ~ m => x # "zero"
  /\ h = "crash_run" \/ (m /\ t.barrier # "b1") =>
       Single(own) /\ (Ahead(t, s, d) => own = {})
  /\ x = "running" /\ h = "crash_run" /\ ~ d.marker =>
       Halts(s) \/ Once(t, s, d, own, ears, asked)
  /\ m /\ t.barrier = "b1" /\ x \in {"running", "zero"} =>
       Halts(s) \/ Twice(t, s, d, own, ears, asked)

LEMMA MarkerPasses ==
  ASSUME NEW t \in Trials, Service(t), NEW h, NEW x, x = "running",
         NEW s \in Programs, s # << >>, NEW d, NEW e, NEW m \in BOOLEAN,
         NEW own, NEW ears, NEW asked, MarkerAt(t, h, x, s, d, m, own, ears, asked),
         Head(s) \notin StepSteps \cup {"journal", "send", "kill", "hang"},
         Durable(t, e) <=> Durable(t, d), Unreached(t, e) <=> Unreached(t, d),
         e.marker = d.marker, d.marker \in BOOLEAN, Head(s) = t.barrier => d.marker,
         Head(s) = "await" => \A r \in own : r.id = asked => r \in ears
  PROVE  MarkerAt(t, h, x, Tail(s), e, m, own, ears, asked)
<1> DEFINE u == Tail(s)
<1>1. Course(t, s, d)
  BY DEF MarkerAt
<1>2. /\ Course(t, u, e)
      /\ Ahead(t, u, e) <=> Ahead(t, s, d)
      /\ Head(s) # "await" /\ Awaits(s) => Awaits(u)
      /\ Head(s) # t.barrier /\ BarrierAhead(t, s, d) => BarrierAhead(t, u, e)
  BY <1>1, CoursePass
<1> HIDE DEF u
<1>3. ~ Halts(s)
  BY DEF Halts
<1>4. ASSUME NEW r \in own, Told(r, s, ears, asked) PROVE Told(r, u, ears, asked)
  BY <1>2, <1>4 DEF Told
<1>5. Once(t, s, d, own, ears, asked) => Once(t, u, e, own, ears, asked)
  BY <1>2, <1>4 DEF Once
<1>6. Twice(t, s, d, own, ears, asked) => Twice(t, u, e, own, ears, asked)
  BY <1>2, <1>4 DEF Twice
<1>7. Struck(t, d, own, ears) => Struck(t, e, own, ears)
  BY DEF Struck
<1>8. ~ m => Doomed(t, u, e)
  <2>1. SUFFICES ASSUME ~ m PROVE Doomed(t, u, e)
    OBVIOUS
  <2>2. ~ d.marker /\ BarrierAhead(t, s, d)
    BY <1>3, <2>1 DEF MarkerAt, Doomed
  <2>3. QED
    BY <1>2, <2>2 DEF Doomed
<1>9. QED
  BY <1>2, <1>3, <1>5, <1>6, <1>7, <1>8 DEF MarkerAt, u

LEMMA MarkerSends ==
  ASSUME NEW t \in Trials, Service(t), NEW h, NEW x, x = "running",
         NEW s \in Programs, s # << >>, Head(s) = "send", NEW d, NEW m \in BOOLEAN,
         d.marker \in BOOLEAN,
         NEW own, NEW ears, NEW asked,
         MarkerAt(t, h, x, s, d, m, own, ears, asked),
         NEW r, r \notin ears, NEW more, more = own \cup {r}
  PROVE  MarkerAt(t, h, x, Tail(s), d, m, more, ears, r.id)
<1> DEFINE u == Tail(s)
<1>1. Course(t, s, d)
  BY DEF MarkerAt
<1>2. Head(s) \notin StepSteps \cup {"journal"} /\ Head(s) # t.barrier
  BY ServiceTrials DEF StepSteps
<1>3. /\ Course(t, u, d) /\ ~ Ahead(t, u, d) /\ Awaits(u)
      /\ BarrierAhead(t, s, d) => BarrierAhead(t, u, d)
  BY <1>1, <1>2, CoursePass
<1>4. Ahead(t, s, d)
  BY HasTail DEF Ahead, Sending
<1> HIDE DEF u
<1>5. ~ Halts(s)
  BY DEF Halts
<1>6. Told(r, u, ears, r.id)
  BY <1>3 DEF Told
<1>7. Once(t, u, d, more, ears, r.id)
  BY <1>6 DEF Once
<1>8. Twice(t, s, d, own, ears, asked) => Twice(t, u, d, more, ears, r.id)
  <2>1. SUFFICES ASSUME Twice(t, s, d, own, ears, asked) PROVE Twice(t, u, d, more, ears, r.id)
    OBVIOUS
  <2>2. PICK q \in ears : TRUE
    BY <2>1 DEF Twice
  <2>3. r \in more \ {q}
    BY <2>2
  <2>4. QED
    BY <1>6, <2>2, <2>3 DEF Twice
<1>9. own = {} => Single(more)
  BY DEF Single
<1>10. ~ m => ~ d.marker /\ Doomed(t, u, d)
  <2>1. SUFFICES ASSUME ~ m PROVE ~ d.marker /\ Doomed(t, u, d)
    OBVIOUS
  <2>2. ~ d.marker /\ BarrierAhead(t, s, d)
    BY <1>5, <2>1 DEF MarkerAt, Doomed
  <2>3. QED
    BY <1>3, <2>2 DEF Doomed
<1>11. QED
  BY <1>3, <1>4, <1>5, <1>7, <1>8, <1>9, <1>10 DEF MarkerAt, u

\* The process leaves its marker and kills itself.
LEMMA MarkerStrikes ==
  ASSUME NEW t \in Trials, Service(t), NEW h, NEW x, x = "running",
         NEW s \in Programs, s # << >>, Head(s) = t.barrier, NEW d, NEW e, NEW m \in BOOLEAN,
         d.marker = FALSE, e.marker = TRUE,
         Durable(t, e) <=> Durable(t, d), Unreached(t, e) <=> Unreached(t, d),
         NEW own, NEW ears, NEW asked,
         MarkerAt(t, h, x, s, d, m, own, ears, asked),
         NEW p, p = <<"kill">>
  PROVE  MarkerAt(t, h, x, p, e, m, own, ears, asked)
<1>1. Course(t, p, e) /\ ~ Ahead(t, p, e)
  BY CourseEnds
<1>2. Halts(p)
  BY DEF Halts
<1>3. ~ Halts(s)
  <2>1. t.barrier \notin {"kill", "hang"}
    BY ServiceTrials
  <2>2. QED
    BY <2>1 DEF Halts
<1>4. /\ t.barrier = "b0" => Ahead(t, s, d)
      /\ t.barrier = "b1" => ~ Ahead(t, s, d) /\ ~ Awaits(s)
      /\ t.barrier = "b2" => Durable(t, d)
  BY CourseStrikes DEF MarkerAt
<1>5. ~ m
  BY DEF MarkerAt
<1>6. h = "crash_run" => Once(t, s, d, own, ears, asked)
  BY <1>3 DEF MarkerAt
<1>7. h = "crash_run" => Struck(t, e, own, ears)
  <2>1. SUFFICES ASSUME h = "crash_run" PROVE Struck(t, e, own, ears)
    OBVIOUS
  <2>2. t.barrier = "b1" => ears # {}
    BY <1>4, <1>6, <2>1 DEF Once, Told
  <2>3. t.barrier = "b0" => own = {}
    BY <1>4, <2>1 DEF MarkerAt
  <2>4. QED
    BY <1>4, <2>2, <2>3 DEF Struck
<1>8. QED
  BY <1>1, <1>2, <1>5, <1>7 DEF MarkerAt, Doomed

\* The program becomes another one, with the same ahead of it.
LEMMA MarkerGoesOn ==
  ASSUME NEW t \in Trials, NEW h, NEW x, x = "running",
         NEW s, ~ Halts(s), NEW p, NEW d, NEW e, NEW m \in BOOLEAN,
         d.marker \in BOOLEAN, e.marker = d.marker,
         Follows(t, s, d, p, e),
         NEW own, NEW ears, NEW asked, MarkerAt(t, h, x, s, d, m, own, ears, asked)
  PROVE  MarkerAt(t, h, x, p, e, m, own, ears, asked)
<1>1. Once(t, s, d, own, ears, asked) => Once(t, p, e, own, ears, asked)
  BY DEF Follows, Once, Told
<1>2. Twice(t, s, d, own, ears, asked) => Twice(t, p, e, own, ears, asked)
  BY DEF Follows, Twice, Told
<1>3. ~ m => ~ d.marker /\ BarrierAhead(t, s, d)
  BY DEF MarkerAt, Doomed
<1>4. QED
  BY <1>1, <1>2, <1>3 DEF Follows, MarkerAt, Doomed

\* The effect throws and is to be sent again.
LEMMA MarkerRejected ==
  ASSUME NEW t \in Trials, NEW h, NEW x, x = "running", NEW s, ~ Halts(s), NEW p, NEW d,
         NEW m \in BOOLEAN, d.marker \in BOOLEAN,
         Course(t, p, d), Ahead(t, p, d), BarrierAhead(t, p, d),
         NEW own, NEW ears, ears # {}, NEW asked,
         MarkerAt(t, h, x, s, d, m, own, ears, asked)
  PROVE  MarkerAt(t, h, x, p, d, m, {}, ears, asked)
<1>1. Single({})
  BY DEF Single
<1>2. Once(t, p, d, {}, ears, asked) /\ Twice(t, p, d, {}, ears, asked)
  BY DEF Once, Twice
<1>3. ~ m => ~ d.marker /\ Doomed(t, p, d)
  BY DEF MarkerAt, Doomed
<1>4. QED
  BY <1>1, <1>2, <1>3 DEF MarkerAt

\* The process hangs, or is gone.
LEMMA MarkerHangs ==
  ASSUME NEW t \in Trials, NEW h, NEW x, x = "running", NEW s, NEW d, NEW m \in BOOLEAN,
         NEW own, NEW ears, NEW asked, MarkerAt(t, h, x, s, d, m, own, ears, asked),
         NEW p, p = <<"hang">>
  PROVE  MarkerAt(t, h, x, p, d, m, own, ears, asked)
<1>1. Course(t, p, d) /\ ~ Ahead(t, p, d)
  BY CourseEnds
<1>2. Halts(p)
  BY DEF Halts
<1>3. QED
  BY <1>1, <1>2 DEF MarkerAt, Doomed

LEMMA MarkerEnds ==
  ASSUME NEW t \in Trials, NEW h, NEW i, i \in {h, "failed"}, NEW x, x = "running",
         NEW y, y # "running", NEW s, NEW d, NEW m \in BOOLEAN,
         NEW own, NEW ears, NEW asked, MarkerAt(t, h, x, s, d, m, own, ears, asked),
         NEW p, p = << >>, y = "zero" => s = p
  PROVE  MarkerAt(t, i, y, p, d, m, own, ears, asked)
<1>1. Course(t, p, d) /\ ~ Ahead(t, p, d) /\ ~ BarrierAhead(t, p, d)
  BY CourseEnds
<1>2. ~ Halts(p)
  BY DEF Halts
<1>3. y = "zero" => m
  BY <1>1, <1>2 DEF MarkerAt, Doomed
<1>4. CASE i = h
  BY <1>1, <1>2, <1>3, <1>4 DEF MarkerAt
<1>5. CASE i = "failed"
  BY <1>1, <1>2, <1>3, <1>5 DEF MarkerAt
<1>6. QED
  BY <1>4, <1>5

\* The harness goes on, or gives the trial up.
LEMMA MarkerLater ==
  ASSUME NEW t, NEW h, NEW i, i = "failed" \/ (h \notin {"crash_run", "failed"} /\ i # "crash_run"),
         i # "crash_run",
         NEW x, x # "running", NEW s, NEW d, NEW m \in BOOLEAN,
         NEW own, NEW ears, NEW asked, MarkerAt(t, h, x, s, d, m, own, ears, asked)
  PROVE  MarkerAt(t, i, x, s, d, m, own, ears, asked)
BY DEF MarkerAt

\* An answer arrives.
LEMMA MarkerHears ==
  ASSUME NEW t, NEW h, NEW x, NEW s, NEW d, NEW m \in BOOLEAN,
         NEW own, NEW ears, NEW asked, MarkerAt(t, h, x, s, d, m, own, ears, asked),
         NEW more, ears \subseteq more
  PROVE  MarkerAt(t, h, x, s, d, m, own, more, asked)
<1>1. Once(t, s, d, own, ears, asked) => Once(t, s, d, own, more, asked)
  BY DEF Once, Told
<1>2. Twice(t, s, d, own, ears, asked) => Twice(t, s, d, own, more, asked)
  BY DEF Twice, Told
<1>3. Struck(t, d, own, ears) => Struck(t, d, own, more)
  BY DEF Struck
<1>4. QED
  BY <1>1, <1>2, <1>3 DEF MarkerAt

LEMMA MarkerBegins ==
  ASSUME NEW t \in Trials, Service(t), NEW s, s = CrashRun(t), NEW d, d = Fresh(t),
         NEW h, h = "crash_run", NEW x, x = "running", NEW m \in BOOLEAN, ~ m,
         NEW own, own = {}, NEW ears, NEW asked
  PROVE  MarkerAt(t, h, x, s, d, m, own, ears, asked)
<1>1. /\ Course(t, s, d) /\ Ahead(t, s, d) /\ BarrierAhead(t, s, d) /\ Unreached(t, d)
      /\ d.marker = FALSE
  BY ServiceBegins
<1>2. Single(own)
  BY DEF Single
<1>3. Once(t, s, d, own, ears, asked)
  BY <1>1 DEF Once
<1>4. QED
  BY <1>1, <1>2, <1>3 DEF MarkerAt, Doomed

LEMMA MarkerResumes ==
  ASSUME NEW t \in Trials, Service(t), NEW h, h = "crash_run", NEW x, NEW p, NEW d,
         StateAt(t, h, p, d), NEW m \in BOOLEAN, d.marker \in BOOLEAN,
         NEW own, NEW ears, NEW asked, MarkerAt(t, h, x, p, d, m, own, ears, asked),
         NEW s, s = RecoveryRun(t, d), NEW i, i = "recovery_run", NEW y, y = "running",
         NEW now
  PROVE  MarkerAt(t, i, y, s, d, d.marker, own, ears, now)
<1>1. Unreached(t, d) /\ (d.marker => Struck(t, d, own, ears)) /\ Single(own)
  BY DEF MarkerAt
<1>2. /\ Course(t, s, d) /\ BarrierAhead(t, s, d)
      /\ Ahead(t, s, d) <=> ~ Durable(t, d)
  BY <1>1, ServiceResumes
<1>3. t.barrier \in {"b0", "b1", "b2"}
  BY ServiceTrials
<1>4. d.marker /\ t.barrier = "b1" => Twice(t, s, d, own, ears, now)
  <2>1. SUFFICES ASSUME d.marker, t.barrier = "b1" PROVE Twice(t, s, d, own, ears, now)
    OBVIOUS
  <2>2. PICK q \in ears : TRUE
    BY <1>1, <2>1 DEF Struck
  <2>3. Ahead(t, s, d)
    BY <1>1, <1>2, <2>1 DEF Unreached
  <2>4. QED
    BY <2>2, <2>3 DEF Twice
<1>5. d.marker /\ t.barrier # "b1" => (Ahead(t, s, d) => own = {})
  BY <1>1, <1>2, <1>3 DEF Struck
<1>6. ~ d.marker => Doomed(t, s, d)
  BY <1>2 DEF Doomed
<1>7. QED
  BY <1>1, <1>2, <1>4, <1>5, <1>6 DEF MarkerAt

-----------------------------------------------------------------------------
(***************************************************************************)
(* The steps of a trial of theirs.                                         *)
(***************************************************************************)
Heard(r) == \E a \in answers : /\ a.req = r /\ a.epoch = epoch
                               /\ a.status \in {"ok", "no response"}
Ears == {r \in Own : Heard(r)}

\* Whatever a trial asked for is counted as long as its ledger is not sealed.
AllCounted ==
  \A a \in answers : a.req.epoch = epoch =>
    a.epoch = epoch /\ (~ sealed => a.status \in {"ok", "no response"})

LEMMA AllCountedStep == EngineSafe /\ AllCounted /\ [EngineNext]_allVars => AllCounted'
<1> SUFFICES ASSUME EngineSafe, AllCounted, [EngineNext]_allVars PROVE AllCounted'
  OBVIOUS
<1>1. CASE TrialStarts
  <2>1. epoch' = epoch + 1 /\ answers' = answers
    BY <1>1 DEF TrialStarts, StartTrial, HandleReset
  <2>2. /\ epoch \in Nat
        /\ \A a \in answers : a.req \in Issued /\ a.req.epoch \in Nat /\ a.req.epoch <= epoch
    BY DaemonAssumption
       DEF EngineSafe, RequestsOK, Issued, Request, EngineTyped, HarnessTypeOK, DaemonTypeOK
  <2>3. \A a \in answers : a.req.epoch # epoch + 1
    BY <2>2
  <2>4. QED
    BY <2>1, <2>3 DEF AllCounted
<1>2. CASE Daemon
  <2>1. PICK req \in wire : Handle(req)
    BY <1>2 DEF Daemon
  <2>2. UNCHANGED <<sealed, epoch>>
    BY <2>1, DaemonMoves
  <2>3. \E status : /\ ~ sealed => status \in {"ok", "no response"}
                    /\ answers' = answers \cup {[req |-> req, status |-> status, epoch |-> epoch]}
    BY <2>1, DaemonMoves, ExecutedMade
  <2>4. PICK status : /\ ~ sealed => status \in {"ok", "no response"}
                      /\ answers' = answers \cup {[req |-> req, status |-> status, epoch |-> epoch]}
    BY <2>3
  <2> DEFINE new == [req |-> req, status |-> status, epoch |-> epoch]
  <2>5. /\ new.epoch = epoch /\ answers' = answers \cup {new}
        /\ ~ sealed => new.status \in {"ok", "no response"}
    BY <2>4
  <2> HIDE DEF new
  <2>6. QED
    BY <2>2, <2>5 DEF AllCounted
<1>3. CASE UNCHANGED <<sealed, answers, epoch>>
  BY <1>3 DEF AllCounted
<1>4. CASE SealLedger
  BY <1>4 DEF SealLedger, HandleSeal, AllCounted
<1>5. CASE EngineProcess
  BY <1>3, <1>5, ProcessTyped DEF EngineSafe
<1>6. QED
  BY <1>1, <1>2, <1>3, <1>4, <1>5, EngineSteps
     DEF Removed, ServerTimesOut, WorkflowTaskTimesOut, ActivityTimesOut, ServerStep,
         CrashRunEnds, GivenUp, RecoveryRunEnds, ReadDump,
         ClassifyTrial, allVars, trialVars, daemonVars, processVars, harnessVars

\* The fixture's effect has not thrown for a write that failed.
Clean == trial.engine = "vercel" =>
           \A a \in answers : a.req.epoch = epoch => a.status # "no response"

\* What was heard is not forgotten before the next trial.
LEMMA EarsGrow ==
  ASSUME EngineSafe, [EngineNext]_allVars, ~ TrialStarts, harness # "idle"
  PROVE  /\ Ears \subseteq Ears' /\ (Clean' => Clean)
         /\ epoch' = epoch /\ answers \subseteq answers'
<1>1. epoch' = epoch /\ trial' = trial
  BY MadeStays, TrialGoesOn DEF EngineSafe
<1>2. Own \subseteq Own'
  <2>1. CASE EngineSend
    <3>1. PICK r : Sends(r)
      BY <2>1, SendRequest DEF EngineSafe
    <3>2. QED
      BY <1>1, <3>1 DEF Sends, Own, Issued
  <2>2. CASE ~ EngineSend
    BY <2>2, OwnMoves
  <2>3. QED
    BY <2>1, <2>2
<1>3. answers \subseteq answers'
  <2>1. CASE Daemon
    <3>1. PICK req \in wire : Handle(req)
      BY <2>1 DEF Daemon
    <3>2. QED
      BY <3>1, DaemonMoves
  <2>2. CASE EngineProcess
    BY <2>2, ProcessTyped DEF EngineSafe
  <2>3. CASE UNCHANGED answers
    BY <2>3
  <2>4. QED
    BY <2>1, <2>2, <2>3, EngineSteps
       DEF Removed, ServerTimesOut, WorkflowTaskTimesOut, ActivityTimesOut, ServerStep,
           CrashRunEnds, GivenUp, RecoveryRunEnds, SealLedger, HandleSeal, ReadDump,
           ClassifyTrial, allVars, trialVars, daemonVars, processVars, harnessVars
<1>4. Clean' => Clean
  BY <1>1, <1>3 DEF Clean
<1>5. QED
  BY <1>1, <1>2, <1>3, <1>4 DEF Ears, Heard

LEMMA RestateMarker ==
  ASSUME NEW d \in RestateDisk
  PROVE  /\ d.marker \in BOOLEAN /\ d.journaled \in BOOLEAN
         /\ [d EXCEPT !.marker = TRUE].marker = TRUE
         /\ [d EXCEPT !.journaled = TRUE].marker = d.marker
         /\ [d EXCEPT !.journaled = TRUE].journaled = TRUE
BY DEF RestateDisk

LEMMA VercelMarker ==
  ASSUME NEW d \in VercelDisk, NEW step
  PROVE  /\ d.marker \in BOOLEAN
         /\ [d EXCEPT !.marker = TRUE].marker = TRUE
         /\ [d EXCEPT !.run = TRUE].marker = d.marker
         /\ [d EXCEPT !.claim = "linked"].marker = d.marker
         /\ [d EXCEPT !.claim = "created"].marker = d.marker
         /\ [d EXCEPT !.completed = Append(@, step), !.claim = "none"].marker = d.marker
<1>1. d.marker \in BOOLEAN
  BY DEF VercelDisk
<1>2. [d EXCEPT !.marker = TRUE].marker = TRUE
  BY DEF VercelDisk
<1>3. [d EXCEPT !.run = TRUE].marker = d.marker
  BY DEF VercelDisk
<1>4. [d EXCEPT !.claim = "linked"].marker = d.marker
  BY DEF VercelDisk
<1>5. [d EXCEPT !.claim = "created"].marker = d.marker
  BY DEF VercelDisk
<1>6. [d EXCEPT !.completed = Append(@, step), !.claim = "none"].marker = d.marker
  BY DEF VercelDisk
<1>7. QED
  BY <1>1, <1>2, <1>3, <1>4, <1>5, <1>6

\* What a step of theirs can be that does not send.
Keeps(d, e) == /\ Durable(trial, e) <=> Durable(trial, d)
               /\ Unreached(trial, e) <=> Unreached(trial, d)

Passed == /\ exit' = "running" /\ todo # << >> /\ todo' = Tail(todo)
          /\ Head(todo) \notin StepSteps \cup {"journal", "send", "kill", "hang"}
          /\ Keeps(disk, disk') /\ disk'.marker = disk.marker
          /\ Head(todo) = trial.barrier => disk.marker
          /\ Head(todo) = "await" => \E a \in answers : a.req.id = request /\ ~ Rejects(a.status)

Stricken == /\ exit' = "running" /\ todo # << >> /\ todo' = <<"kill">>
            /\ Head(todo) = trial.barrier /\ Keeps(disk, disk')
            /\ disk.marker = FALSE /\ disk'.marker = TRUE

WentOn == /\ exit' = "running" /\ ~ Halts(todo) /\ disk'.marker = disk.marker
          /\ Follows(trial, todo, disk, todo', disk')

Hung == exit' = "running" /\ todo' = <<"hang">> /\ disk' = disk

Over == /\ exit' # "running" /\ todo' = << >> /\ disk' = disk
        /\ exit' = "zero" => todo = << >>

Thrown == /\ exit' = "running" /\ ~ Halts(todo) /\ disk' = disk
          /\ Course(trial, todo', disk) /\ Ahead(trial, todo', disk)
          /\ BarrierAhead(trial, todo', disk)
          /\ trial.engine = "vercel"
          /\ \E a \in answers : a.req.id = request /\ Rejects(a.status)

LEMMA StrikesOnce ==
  ASSUME EngineTyped, Service(trial), CrashOnce,
         NEW e, e = [disk EXCEPT !.marker = TRUE],
         disk.marker \in BOOLEAN, e.marker = TRUE, Keeps(disk, e)
  PROVE  Passed \/ Stricken
<1>1. trial \in Trials
  BY DEF EngineTyped, HarnessTypeOK
<1>2. trial.barrier \in {"b0", "b1", "b2"}
  BY <1>1, ServiceTrials
<1>3. /\ exit' = "running" /\ todo # << >> /\ Head(todo) = trial.barrier /\ disk' = e
      /\ todo' = IF disk.marker THEN Tail(todo) ELSE <<"kill">>
  BY DEF CrashOnce, Running
<1>4. Head(todo) \notin StepSteps \cup {"journal", "send", "kill", "hang", "await"}
  BY <1>2, <1>3 DEF StepSteps
<1>5. CASE disk.marker = TRUE
  BY <1>3, <1>4, <1>5 DEF Passed
<1>6. CASE disk.marker = FALSE
  BY <1>3, <1>6 DEF Stricken
<1>7. QED
  BY <1>5, <1>6

\* A step that writes of the runtime what no later process is told by.
LEMMA WritesOnly ==
  ASSUME NEW step, Running(step), step \notin StepSteps \cup {"journal", "send", "kill", "hang"},
         step \notin {trial.barrier, "await"},
         NEW e, Persists(e), Keeps(disk, e), e.marker = disk.marker
  PROVE  Passed
BY DEF Running, Persists, Advance, Passed

LEMMA RestateMoves ==
  ASSUME EngineTyped, trial.engine = "restate", RestateProcess, Course(trial, todo, disk)
  PROVE  Passed \/ Stricken \/ WentOn \/ Hung \/ Over
<1>1. /\ disk \in RestateDisk /\ todo \in Programs /\ trial \in Trials /\ Service(trial)
  BY DEF EngineTyped, RunTyped, StateAt, HarnessTypeOK, Service
<1>2. disk.marker \in BOOLEAN
  BY <1>1, RestateMarker
<1>3. CASE CrashOnce
  <2> DEFINE e == [disk EXCEPT !.marker = TRUE]
  <2>1. e.marker = TRUE
    BY <1>1, RestateMarker, Zenon
  <2>2. e.journaled = disk.journaled
    BY <1>1, RestateDisks, Zenon
  <2>3. e = [disk EXCEPT !.marker = TRUE]
    OBVIOUS
  <2> HIDE DEF e
  <2>4. Durable(trial, e) <=> Durable(trial, disk)
    BY <2>2, ServiceDurable
  <2>5. Keeps(disk, e)
    BY <2>4 DEF Keeps, Unreached
  <2>6. QED
    BY <1>1, <1>2, <1>3, <2>1, <2>3, <2>5, StrikesOnce
<1>4. CASE Kill
  BY <1>4 DEF Kill, ExitWith, Over
<1>5. CASE Journal
  <2> DEFINE e == [disk EXCEPT !.journaled = TRUE]
  <2>1. e.marker = disk.marker
    BY <1>1, RestateMarker, Zenon
  <2>2. e.journaled = TRUE
    BY <1>1, RestateMarker, Zenon
  <2>3. Running("journal") /\ Persists(e)
    BY <1>5 DEF Journal
  <2> HIDE DEF e
  <2>4. /\ exit' = "running" /\ todo # << >> /\ Head(todo) = "journal"
        /\ todo' = Tail(todo) /\ disk' = e
    BY <2>3 DEF Running, Persists, Advance
  <2>5. Follows(trial, todo, disk, Tail(todo), e)
    BY <1>1, <2>2, <2>4, CourseJournals
  <2>6. ~ Halts(todo)
    BY <2>4 DEF Halts
  <2>7. QED
    BY <2>1, <2>4, <2>5, <2>6 DEF WentOn
<1>6. QED
  BY <1>3, <1>4, <1>5 DEF RestateProcess

LEMMA VercelKeeps ==
  ASSUME trial.engine = "vercel", NEW d, NEW e, e.completed = d.completed
  PROVE  Keeps(d, e)
<1>1. Durable(trial, e) <=> Durable(trial, d)
  BY ServiceDurable
<1>2. QED
  BY <1>1 DEF Keeps, Unreached

LEMMA VercelMoves ==
  ASSUME EngineTyped, trial.engine = "vercel", VercelProcess, Course(trial, todo, disk)
  PROVE  Passed \/ Stricken \/ WentOn \/ Hung \/ Over
<1>1. /\ todo \in Programs /\ trial \in Trials /\ Service(trial)
      /\ disk \in VercelDisk /\ VercelAt(trial, todo, disk)
  BY DEF EngineTyped, RunTyped, StateAt, VercelAt, HarnessTypeOK, Service
<1>2. disk.marker \in BOOLEAN /\ disk.claim \in {"none", "linked", "created"}
  BY <1>1, VercelMarker DEF VercelDisk
<1>3. trial.barrier \in {"b0", "b1", "b2"}
  BY <1>1, ServiceTrials
<1>4. CASE CrashOnce
  <2> DEFINE e == [disk EXCEPT !.marker = TRUE]
  <2>1. e.marker = TRUE
    BY <1>1, VercelMarker, Zenon
  <2>2. e.completed = disk.completed
    BY <1>1, VercelDisks, Zenon
  <2>3. e = [disk EXCEPT !.marker = TRUE]
    OBVIOUS
  <2> HIDE DEF e
  <2>4. QED
    BY <1>1, <1>2, <1>4, <2>1, <2>2, <2>3, VercelKeeps, StrikesOnce
<1>5. CASE Kill
  BY <1>5 DEF Kill, ExitWith, Over
<1>6. CASE CreateRun
  <2> DEFINE e == [disk EXCEPT !.run = TRUE]
  <2>1. e.marker = disk.marker
    BY <1>1, VercelMarker, Zenon
  <2>2. e.completed = disk.completed
    BY <1>1, VercelDisks, Zenon
  <2>3. Running("create_run") /\ Persists(e)
    BY <1>6 DEF CreateRun
  <2> HIDE DEF e
  <2>4. QED
    BY <1>3, <2>1, <2>2, <2>3, VercelKeeps, WritesOnly DEF StepSteps
<1>7. CASE Running("link_claim") /\ Persists([disk EXCEPT !.claim = "linked"])
  <2> DEFINE e == [disk EXCEPT !.claim = "linked"]
  <2>1. e.marker = disk.marker
    BY <1>1, VercelMarker, Zenon
  <2>2. e.completed = disk.completed
    BY <1>1, VercelDisks, Zenon
  <2>3. Running("link_claim") /\ Persists(e)
    BY <1>7
  <2> HIDE DEF e
  <2>4. QED
    BY <1>3, <2>1, <2>2, <2>3, VercelKeeps, WritesOnly DEF StepSteps
<1>8. CASE Running("write_created") /\ Persists([disk EXCEPT !.claim = "created"])
  <2> DEFINE e == [disk EXCEPT !.claim = "created"]
  <2>1. e.marker = disk.marker
    BY <1>1, VercelMarker, Zenon
  <2>2. e.completed = disk.completed
    BY <1>1, VercelDisks, Zenon
  <2>3. Running("write_created") /\ Persists(e)
    BY <1>8
  <2> HIDE DEF e
  <2>4. QED
    BY <1>3, <2>1, <2>2, <2>3, VercelKeeps, WritesOnly DEF StepSteps
<1>9. CASE CompleteStep
  <2>1. PICK step \in CompleteSteps :
          /\ Running(step)
          /\ Persists([disk EXCEPT !.completed = Append(@, step), !.claim = "none"])
    BY <1>9 DEF CompleteStep, CompleteSteps
  <2> DEFINE e == [disk EXCEPT !.completed = Append(@, step), !.claim = "none"]
  <2>2. e.marker = disk.marker
    BY <1>1, VercelMarker, Zenon
  <2>3. Len(e.completed) = Len(disk.completed) + 1
    <3>1. step \in {"prepareIdentity", "charge", "sentinel"}
      BY DEF CompleteSteps
    <3>2. /\ e.completed = Append(disk.completed, step)
          /\ Len(Append(disk.completed, step)) = Len(disk.completed) + 1
      BY <1>1, <3>1, VercelDisks, Zenon
    <3>3. QED
      BY <3>2
  <2>4. Persists(e)
    BY <2>1
  <2> HIDE DEF e
  <2>5. /\ exit' = "running" /\ todo # << >> /\ Head(todo) = step /\ step \in CompleteSteps
        /\ todo' = Tail(todo) /\ disk' = e
    BY <2>1, <2>4 DEF Running, Persists, Advance
  <2>6. Follows(trial, todo, disk, Tail(todo), e)
    BY <1>1, <2>3, <2>5, CourseCompletes
  <2>7. ~ Halts(todo)
    BY <2>5 DEF Halts, CompleteSteps
  <2>8. QED
    BY <2>2, <2>5, <2>6, <2>7 DEF WentOn
<1>10. CASE StartStep
  <2> DEFINE step == Steps(trial)[Len(disk.completed) + 1]
  <2>1. /\ exit' = "running" /\ todo # << >> /\ Head(todo) = "start_step" /\ disk' = disk
    BY <1>10 DEF StartStep, Running
  <2>2. CASE disk.claim = "linked"
    BY <1>10, <2>1, <2>2 DEF StartStep, Hung
  <2>3. CASE disk.claim # "linked"
    <3>1. PICK body \in StepBodies(step) :
            todo' = ArmedWith(body, trial.barrier) \o <<step>> \o Tail(todo)
      BY <1>2, <1>10, <2>3 DEF StartStep, StepBodies, ClaimLeft
    <3>2. step = Steps(trial)[Len(disk.completed) + 1]
      OBVIOUS
    <3> HIDE DEF step
    <3>3. Follows(trial, todo, disk, todo', disk)
      BY <1>1, <2>1, <3>1, <3>2, CourseBegun
    <3>4. ~ Halts(todo)
      BY <2>1 DEF Halts
    <3>5. QED
      BY <2>1, <3>3, <3>4 DEF WentOn
  <2>4. QED
    BY <2>2, <2>3
<1>11. QED
  BY <1>4, <1>5, <1>6, <1>7, <1>8, <1>9, <1>10 DEF VercelProcess, ClaimStep

LEMMA VercelThrows ==
  ASSUME EngineTyped, trial.engine = "vercel", RetryCharge
  PROVE  Thrown
<1>1. /\ todo \in Programs /\ trial \in Trials
      /\ disk \in VercelDisk /\ VercelAt(trial, todo, disk)
  BY DEF EngineTyped, RunTyped, StateAt, VercelAt, HarnessTypeOK
<1>2. EngineRejects
  BY DEF EngineRejects
<1>3. /\ exit' = "running" /\ Head(todo) = "await" /\ disk' = disk
      /\ \E a \in answers : a.req.id = request /\ Rejects(a.status)
  BY <1>2, RejectedReply
<1>4. ~ Halts(todo)
  BY <1>3 DEF Halts
<1>5. /\ Len(disk.completed) + 1 \in 1 .. Len(Steps(trial))
      /\ Steps(trial)[Len(disk.completed) + 1] = "charge"
  BY <1>1, ChargeRetried
<1>6. PICK v \in ClaimLeft : \E body \in Interleavings(v, StepBody("charge")), w \in Programs :
        /\ todo' = ArmedWith(body, trial.barrier) \o <<"charge">> \o w
        /\ \A i \in 1 .. Len(w) : w[i] = "start_step"
        /\ Len(w) = Len(Steps(trial)) - Len(disk.completed) - 1
  BY <1>1, ChargeRetried
<1>7. PICK body \in Interleavings(v, StepBody("charge")), w \in Programs :
        /\ todo' = ArmedWith(body, trial.barrier) \o <<"charge">> \o w
        /\ \A i \in 1 .. Len(w) : w[i] = "start_step"
        /\ Len(w) = Len(Steps(trial)) - Len(disk.completed) - 1
  BY <1>6
<1>8. body \in StepBodies("charge")
  BY DEF StepBodies
<1> DEFINE p == todo'
<1>9. p = ArmedWith(body, trial.barrier) \o <<"charge">> \o w
  BY <1>7
<1> HIDE DEF p
<1>10. Course(trial, p, disk) /\ Ahead(trial, p, disk) /\ BarrierAhead(trial, p, disk)
  BY <1>1, <1>5, <1>7, <1>8, <1>9, CourseRetried
<1>11. QED
  BY <1>3, <1>4, <1>10 DEF Thrown, p

LEMMA ServiceMoves ==
  ASSUME EngineTyped, Service(trial), EngineProcess, ~ EngineSend, Course(trial, todo, disk)
  PROVE  Passed \/ Stricken \/ WentOn \/ Hung \/ Over \/ Thrown
<1>1. trial.engine \in {"restate", "vercel"}
  BY DEF Service
<1>2. CASE ReceiveReply
  <2>1. "await" # trial.barrier
    BY ServiceTrials DEF EngineTyped, HarnessTypeOK
  <2>2. Keeps(disk, disk)
    BY DEF Keeps
  <2>3. QED
    BY <1>2, <2>1, <2>2 DEF ReceiveReply, Running, Advance, Passed, StepSteps
<1>3. CASE Return
  BY <1>3 DEF Return, ExitWith, Over
<1>4. CASE RestateProcess /\ trial.engine = "restate"
  BY <1>4, RestateMoves
<1>5. CASE VercelProcess /\ trial.engine = "vercel"
  BY <1>5, VercelMoves
<1>6. CASE RetryCharge /\ trial.engine = "vercel"
  BY <1>6, VercelThrows
<1>7. QED
  BY <1>1, <1>2, <1>3, <1>4, <1>5, <1>6
     DEF EngineProcess, EngineSend, EngineSamplerFails, LangGraphProcess

\* What the marker tells, of the trial that runs.
ServiceOK ==
  Service(trial) /\ harness # "idle" =>
    /\ before.disk.marker \in BOOLEAN
    /\ \E own : /\ own \subseteq Own /\ (Clean => own = Own)
                /\ MarkerAt(trial, harness, exit, todo, disk, before.disk.marker,
                            own, Ears, request)

LEMMA ServiceMarker ==
  ASSUME Service(trial), RunTyped
  PROVE  disk.marker \in BOOLEAN
<1>1. CASE trial.engine = "restate"
  BY <1>1, RestateMarker DEF RunTyped, StateAt
<1>2. CASE trial.engine = "vercel"
  BY <1>2, VercelMarker DEF RunTyped, StateAt, VercelAt
<1>3. QED
  BY <1>1, <1>2 DEF Service

LEMMA ServiceProcess ==
  ASSUME EngineSafe, AllCounted, Service(trial), EngineProcess, ~ EngineSend,
         NEW m \in BOOLEAN, NEW own, own \subseteq Own, NEW ears, ears = Ears,
         MarkerAt(trial, harness, exit, todo, disk, m, own, ears, request)
  PROVE  /\ UNCHANGED <<trial, harness, before>>
         /\ \/ MarkerAt(trial, harness, exit', todo', disk', m, own, ears, request')
            \/ ~ Clean /\ MarkerAt(trial, harness, exit', todo', disk', m, {}, ears, request')
<1>1. EngineTyped /\ trial \in Trials /\ todo \in Programs /\ exit = "running"
  BY ProcessTyped DEF EngineSafe, EngineTyped, HarnessTypeOK, RunTyped, StateAt
<1>2. UNCHANGED <<daemonVars, harnessVars, request>>
  BY ProcessSplit DEF ProcessOnly
<1>3. disk.marker \in BOOLEAN
  BY <1>1, ServiceMarker DEF EngineTyped
<1> DEFINE t == trial
           h == harness
           s == todo
           d == disk
           e == disk'
           p == todo'
           x == exit
           y == exit'
           asked == request
<1>5. /\ t \in Trials /\ Service(t) /\ s \in Programs /\ x = "running" /\ d.marker \in BOOLEAN
      /\ MarkerAt(t, h, x, s, d, m, own, ears, asked)
  BY <1>1, <1>3
<1>6. CASE Passed
  <2>1. /\ y = "running" /\ s # << >> /\ p = Tail(s) /\ e.marker = d.marker
        /\ Head(s) \notin StepSteps \cup {"journal", "send", "kill", "hang"}
        /\ Durable(t, e) <=> Durable(t, d)
        /\ Unreached(t, e) <=> Unreached(t, d)
        /\ Head(s) = t.barrier => d.marker
    BY <1>6 DEF Passed, Keeps
  <2>2. Head(s) = "await" => \A r \in own : r.id = asked => r \in ears
    <3>1. SUFFICES ASSUME Head(s) = "await", NEW r \in own, r.id = asked PROVE r \in Ears
      OBVIOUS
    <3>0. r \in Own
      OBVIOUS
    <3>2. PICK a \in answers : a.req.id = request
      BY <1>6, <3>1 DEF Passed
    <3>3. a.req = r /\ r.epoch = epoch
      BY <3>0, <3>1, <3>2 DEF EngineSafe, RequestsOK, Own, Issued
    <3>4. ~ sealed
      BY <1>1 DEF EngineTyped, PhaseOK
    <3>5. Heard(r)
      BY <3>2, <3>3, <3>4 DEF AllCounted, Heard
    <3>6. QED
      BY <3>0, <3>5 DEF Ears
  <2> HIDE DEF t, h, s, d, e, p, x, y, asked
  <2>3. MarkerAt(t, h, x, Tail(s), e, m, own, ears, asked)
    BY <1>5, <2>1, <2>2, MarkerPasses
  <2>4. MarkerAt(t, h, y, p, e, m, own, ears, asked)
    BY <1>5, <2>1, <2>3
  <2>5. QED
    BY <1>2, <2>4 DEF harnessVars, t, h, e, p, y, asked
<1>7. CASE Stricken
  <2>1. /\ y = "running" /\ s # << >> /\ p = <<"kill">> /\ Head(s) = t.barrier
        /\ d.marker = FALSE /\ e.marker = TRUE
        /\ Durable(t, e) <=> Durable(t, d)
        /\ Unreached(t, e) <=> Unreached(t, d)
    BY <1>7 DEF Stricken, Keeps
  <2> HIDE DEF t, h, s, d, e, p, x, y, asked
  <2>2. MarkerAt(t, h, x, p, e, m, own, ears, asked)
    BY <1>5, <2>1, MarkerStrikes
  <2>3. QED
    BY <1>2, <1>5, <2>1, <2>2 DEF harnessVars, t, h, e, p, x, y, asked
<1>8. CASE WentOn
  <2>1. /\ y = "running" /\ ~ Halts(s) /\ e.marker = d.marker /\ Follows(t, s, d, p, e)
    BY <1>8 DEF WentOn
  <2> HIDE DEF t, h, s, d, e, p, x, y, asked
  <2>2. MarkerAt(t, h, x, p, e, m, own, ears, asked)
    BY <1>5, <2>1, MarkerGoesOn
  <2>3. QED
    BY <1>2, <1>5, <2>1, <2>2 DEF harnessVars, t, h, e, p, x, y, asked
<1>9. CASE Hung
  <2>1. y = "running" /\ p = <<"hang">> /\ e = d
    BY <1>9 DEF Hung
  <2> HIDE DEF t, h, s, d, e, p, x, y, asked
  <2>2. MarkerAt(t, h, x, p, d, m, own, ears, asked)
    BY <1>5, <2>1, MarkerHangs
  <2>3. QED
    BY <1>2, <1>5, <2>1, <2>2 DEF harnessVars, t, h, e, p, x, y, asked
<1>10. CASE Over
  <2>1. y # "running" /\ p = << >> /\ e = d /\ (y = "zero" => s = p)
    BY <1>10 DEF Over
  <2> HIDE DEF t, h, s, d, e, p, x, y, asked
  <2>2. MarkerAt(t, h, y, p, d, m, own, ears, asked)
    BY <1>5, <2>1, MarkerEnds
  <2>3. QED
    BY <1>2, <2>1, <2>2 DEF harnessVars, t, h, e, p, x, y, asked
<1>11. CASE Thrown
  <2>1. PICK a \in answers : a.req.id = request /\ Rejects(a.status)
    BY <1>11 DEF Thrown
  <2>2. trial.engine = "vercel" /\ a.status # "ok"
    BY <1>11, <2>1 DEF Thrown, Rejects
  <2>4. a.req \in Own
    BY <2>1 DEF EngineSafe, RequestsOK, Own, Issued
  <2>5. ~ sealed
    BY <1>1 DEF EngineTyped, PhaseOK
  <2>6. a.epoch = epoch /\ a.status = "no response" /\ a.req.epoch = epoch
    BY <2>2, <2>4, <2>5 DEF AllCounted, Own
  <2>7. a.req \in ears /\ ~ Clean
    BY <2>2, <2>4, <2>6 DEF Ears, Heard, Clean
  <2>8. /\ y = "running" /\ ~ Halts(s) /\ e = d /\ ears # {}
        /\ Course(t, p, d) /\ Ahead(t, p, d) /\ BarrierAhead(t, p, d)
    BY <1>11, <2>7 DEF Thrown
  <2> HIDE DEF t, h, s, d, e, p, x, y, asked
  <2>9. MarkerAt(t, h, x, p, d, m, {}, ears, asked)
    BY <1>5, <2>8, MarkerRejected
  <2>10. QED
    BY <1>2, <1>5, <2>7, <2>8, <2>9 DEF harnessVars, t, h, e, p, x, y, asked
<1>12. Course(trial, todo, disk)
  BY DEF MarkerAt
<1>13. QED
  BY <1>1, <1>6, <1>7, <1>8, <1>9, <1>10, <1>11, <1>12, ServiceMoves

LEMMA ServiceSends ==
  ASSUME EngineSafe, Service(trial), EngineSend,
         NEW m \in BOOLEAN, NEW own, NEW ears, ears = Ears,
         MarkerAt(trial, harness, exit, todo, disk, m, own, ears, request)
  PROVE  /\ UNCHANGED <<trial, harness, before>>
         /\ \E r : /\ Own' = Own \cup {r}
                   /\ MarkerAt(trial, harness, exit', todo', disk', m, own \cup {r}, ears,
                               request')
<1>1. /\ trial \in Trials /\ todo \in Programs /\ disk.marker \in BOOLEAN
  BY ServiceMarker DEF EngineSafe, EngineTyped, HarnessTypeOK, RunTyped, StateAt
<1>2. /\ exit = "running" /\ todo # << >> /\ todo' = Tail(todo) /\ Head(todo) = "send"
      /\ UNCHANGED <<harnessVars, exit, disk>>
  BY SendMoves DEF EngineSend, Service, SendEffect, SendPayload, Running
<1>3. PICK r : Sends(r)
  BY SendRequest DEF EngineSafe
<1>4. request' = r.id /\ r.id = sent + 1 /\ epoch' = epoch /\ r.epoch = epoch
      /\ Issued' = Issued \cup {r}
  BY <1>3 DEF Sends, Issued
<1>5. r \notin Own
  <2>1. sent \in Nat /\ \A q \in Own : q.id \in Nat /\ q.id <= sent
    BY DaemonAssumption
       DEF EngineSafe, EngineTyped, HarnessTypeOK, DaemonTypeOK, RequestsOK, Own, Request, RequestId
  <2>2. \A q \in Own : q.id # sent + 1
    BY <2>1
  <2>3. QED
    BY <1>4, <2>2
<1>6. Own' = Own \cup {r}
  BY <1>4 DEF Own
<1>7. r \notin ears
  BY <1>5 DEF Ears
<1> DEFINE more == own \cup {r}
<1>8. more = own \cup {r}
  OBVIOUS
<1> HIDE DEF more
<1>9. MarkerAt(trial, harness, exit, Tail(todo), disk, m, more, ears, r.id)
  BY <1>1, <1>2, <1>7, <1>8, MarkerSends
<1>10. QED
  BY <1>2, <1>4, <1>6, <1>9 DEF harnessVars, more

LEMMA ServiceOKStep == EngineSafe /\ AllCounted /\ ServiceOK /\ [EngineNext]_allVars => ServiceOK'
<1> SUFFICES ASSUME EngineSafe, AllCounted, ServiceOK, [EngineNext]_allVars,
                    Service(trial)', (harness # "idle")'
             PROVE  /\ before'.disk.marker \in BOOLEAN
                    /\ \E own : /\ own \subseteq Own' /\ (Clean' => own = Own')
                                /\ MarkerAt(trial', harness', exit', todo', disk',
                                            before'.disk.marker, own, Ears', request')
  BY DEF ServiceOK
<1>1. CASE TrialStarts
  <2>1. PICK t \in Trials : StartTrial(t, Fresh(t), CrashRun(t))
    BY <1>1 DEF TrialStarts
  <2>2. /\ trial' = t /\ harness' = "crash_run" /\ exit' = "running" /\ todo' = CrashRun(t)
        /\ disk' = Fresh(t) /\ before'.disk = Fresh(t) /\ Service(t)
    BY <2>1 DEF StartTrial, Spawn
  <2>3. Own' = {}
    BY <1>1, OwnMoves
  <2>4. PICK s : s = CrashRun(t)
    OBVIOUS
  <2>5. PICK d : d = Fresh(t)
    OBVIOUS
  <2>6. d.marker = FALSE
    BY <2>2, <2>5, <2>4, ServiceBegins
  <2>7. PICK m \in BOOLEAN : m = d.marker
    BY <2>6
  <2>8. ~ m
    BY <2>6, <2>7
  <2> DEFINE own == Own'
             ears == Ears'
             h == harness'
             x == exit'
             asked == request'
  <2>9. own = {} /\ h = "crash_run" /\ x = "running"
    BY <2>2, <2>3
  <2> HIDE DEF own, ears, h, x, asked
  <2>10. MarkerAt(t, h, x, s, d, m, own, ears, asked)
    BY <2>2, <2>4, <2>5, <2>8, <2>9, MarkerBegins
  <2>11. QED
    BY <2>2, <2>4, <2>5, <2>7, <2>10 DEF own, ears, h, x, asked
<1>2. CASE ~ TrialStarts
  <2>1. /\ trial' = trial /\ harness # "idle" /\ Service(trial) /\ trial \in Trials
    BY <1>2, TrialGoesOn DEF EngineSafe, EngineTyped, HarnessTypeOK
  <2>2. PICK m \in BOOLEAN : m = before.disk.marker
    BY <2>1 DEF ServiceOK
  <2>4. PICK ears : ears = Ears
    OBVIOUS
  <2>3. PICK own : /\ own \subseteq Own /\ (Clean => own = Own)
                   /\ MarkerAt(trial, harness, exit, todo, disk, m, own, ears, request)
    BY <2>1, <2>2, <2>4 DEF ServiceOK
  <2>5. MarkerAt(trial, harness, exit, todo, disk, m, own, ears, request)
    BY <2>3
  <2>6. ears \subseteq Ears' /\ (Clean' => Clean)
    BY <1>2, <2>1, <2>4, EarsGrow
  <2>7. ~ EngineSend => Own' = Own
    BY <1>2, OwnMoves
  <2>8. SUFFICES /\ before'.disk.marker \in BOOLEAN
                 /\ \E mine : /\ mine \subseteq Own' /\ (Clean' => mine = Own')
                              /\ MarkerAt(trial, harness', exit', todo', disk',
                                          before'.disk.marker, mine, ears, request')
    <3>0. PICK mine : /\ mine \subseteq Own' /\ (Clean' => mine = Own')
                      /\ MarkerAt(trial, harness', exit', todo', disk',
                                  before'.disk.marker, mine, ears, request')
      BY <2>8
    <3> DEFINE h == harness'
               x == exit'
               s == todo'
               d == disk'
               n == before'.disk.marker
               more == Ears'
               asked == request'
    <3>1. n \in BOOLEAN /\ MarkerAt(trial, h, x, s, d, n, mine, ears, asked)
          /\ ears \subseteq more
      BY <2>6, <2>8, <3>0
    <3> HIDE DEF h, x, s, d, n, more, asked
    <3>2. MarkerAt(trial, h, x, s, d, n, mine, more, asked)
      BY <3>1, MarkerHears
    <3>3. QED
      BY <2>1, <3>0, <3>1, <3>2 DEF h, x, s, d, n, more, asked
  <2>9. CASE EngineSend
    <3>1. /\ UNCHANGED <<trial, harness, before>>
          /\ \E r : /\ Own' = Own \cup {r}
                    /\ MarkerAt(trial, harness, exit', todo', disk', m, own \cup {r}, ears,
                                request')
      BY <2>1, <2>2, <2>4, <2>5, <2>9, ServiceSends
    <3>2. QED
      BY <2>2, <2>3, <2>6, <3>1
  <2>10. CASE EngineProcess /\ ~ EngineSend
    <3>1. /\ UNCHANGED <<trial, harness, before>>
          /\ \/ MarkerAt(trial, harness, exit', todo', disk', m, own, ears, request')
             \/ ~ Clean /\ MarkerAt(trial, harness, exit', todo', disk', m, {}, ears, request')
      BY <2>1, <2>2, <2>3, <2>4, <2>5, <2>10, ServiceProcess
    <3>2. Own' = Own
      BY <2>7, <2>10
    <3>3. QED
      BY <2>2, <2>3, <2>6, <3>1, <3>2
  <2>11. CASE Removed /\ ~ EngineSend
    <3>1. /\ exit = "running" /\ exit' \in {"killed", "stalled"} /\ todo' = << >>
          /\ harness' \in {harness, "failed"} /\ UNCHANGED <<before, disk, request>>
      BY <2>11 DEF Removed
    <3> DEFINE i == harness'
               y == exit'
               p == todo'
    <3>2. i \in {harness, "failed"} /\ y # "running" /\ p = << >> /\ y # "zero"
      BY <3>1
    <3> HIDE DEF i, y, p
    <3>3. MarkerAt(trial, i, y, p, disk, m, own, ears, request)
      BY <2>1, <2>5, <3>1, <3>2, MarkerEnds
    <3>4. QED
      BY <2>2, <2>3, <2>6, <2>7, <2>11, <3>1, <3>3 DEF i, y, p
  <2>12. CASE CrashRunEnds(RecoveryRun(trial, disk)) /\ ~ EngineSend
    <3>1. /\ harness = "crash_run" /\ harness' = "recovery_run" /\ exit' = "running"
          /\ todo' = RecoveryRun(trial, disk) /\ before'.disk = disk /\ disk' = disk
      BY <2>12 DEF CrashRunEnds, Spawn
    <3>2. StateAt(trial, harness, todo, disk)
      BY DEF EngineSafe, EngineTyped, RunTyped
    <3>3. disk.marker \in BOOLEAN
      BY <2>1, ServiceMarker DEF EngineSafe, EngineTyped
    <3> DEFINE i == harness'
               y == exit'
               s == todo'
               now == request'
    <3>4. i = "recovery_run" /\ y = "running" /\ s = RecoveryRun(trial, disk)
      BY <3>1
    <3> HIDE DEF i, y, s, now
    <3>5. MarkerAt(trial, i, y, s, disk, disk.marker, own, ears, now)
      BY <2>1, <2>5, <3>1, <3>2, <3>3, <3>4, MarkerResumes
    <3>6. QED
      BY <2>3, <2>6, <2>7, <2>12, <3>1, <3>3, <3>5 DEF i, y, s, now
  <2>13. CASE /\ GivenUp \/ RecoveryRunEnds \/ SealLedger \/ ReadDump \/ ClassifyTrial(Verdict)
              /\ ~ EngineSend
    <3>1. /\ UNCHANGED <<processVars, before>> /\ exit # "running"
          /\ harness' = "failed" \/ (harness \in {"recovery_run", "seal", "dump", "classify"}
                                      /\ harness' \in {"seal", "dump", "classify", "classified"})
      BY <2>13 DEF GivenUp, RecoveryRunEnds, SealLedger, ReadDump, ClassifyTrial, Expected,
                   EngineSafe, EngineTyped, PhaseOK
    <3> DEFINE i == harness'
    <3>2. i = "failed" \/ (harness \notin {"crash_run", "failed"} /\ i # "crash_run")
      BY <3>1
    <3>3. i # "crash_run"
      BY <3>1
    <3> HIDE DEF i
    <3>4. MarkerAt(trial, i, exit, todo, disk, m, own, ears, request)
      BY <2>5, <3>1, <3>2, <3>3, MarkerLater
    <3>5. QED
      BY <2>2, <2>3, <2>6, <2>7, <2>13, <3>1, <3>4 DEF i, processVars
  <2>14. CASE Daemon \/ UNCHANGED allVars
    <3>1. UNCHANGED <<processVars, harnessVars>>
      BY <2>14 DEF Daemon, allVars, trialVars, harnessVars, processVars
    <3>2. CASE EngineSend
      BY <2>9, <3>2
    <3>3. CASE ~ EngineSend
      BY <2>2, <2>3, <2>6, <2>7, <3>1, <3>3 DEF harnessVars, processVars
    <3>4. QED
      BY <3>2, <3>3
  <2>15. ~ ServerTimesOut
    BY <2>1 DEF Service, ServerTimesOut, WorkflowTaskTimesOut, ActivityTimesOut
  <2>16. QED
    BY <1>2, <2>9, <2>10, <2>11, <2>12, <2>13, <2>14, <2>15, EngineSteps
<1>3. QED
  BY <1>1, <1>2

-----------------------------------------------------------------------------
(***************************************************************************)
(* What the fixture has been told: its charge is not completed, nor its    *)
(* process over, before an effect of the trial's was acknowledged.         *)
(***************************************************************************)
OkHeard == \E a \in answers : a.req.epoch = epoch /\ a.status = "ok"

\* The process of d that has s before it still hears, has heard, or never goes on.
Hears(t, s, d, ok) == Halts(s) \/ Ahead(t, s, d) \/ Awaits(s) \/ ok

HeardOK ==
  trial.engine = "vercel" /\ harness # "idle" =>
    /\ Durable(trial, disk) => OkHeard
    /\ exit = "running" => Hears(trial, todo, disk, OkHeard)
    /\ exit = "zero" => OkHeard

LEMMA HearsOn ==
  ASSUME EngineSafe, HeardOK, trial.engine = "vercel", harness # "idle",
         EngineProcess, ~ EngineSend, Course(trial, todo, disk)
  PROVE  /\ Durable(trial, disk') => OkHeard
         /\ exit' = "running" => Hears(trial, todo', disk', OkHeard)
         /\ exit' = "zero" => OkHeard
<1>1. EngineTyped /\ trial \in Trials /\ todo \in Programs /\ exit = "running"
      /\ Service(trial)
  BY ProcessTyped DEF EngineSafe, EngineTyped, HarnessTypeOK, RunTyped, StateAt, Service
<1>2. /\ Durable(trial, disk) => OkHeard
      /\ Halts(todo) \/ Ahead(trial, todo, disk) \/ Awaits(todo) \/ OkHeard
  BY <1>1 DEF HeardOK, Hears
<1>3. CASE Passed
  <2>1. /\ exit' = "running" /\ todo # << >> /\ todo' = Tail(todo)
        /\ Head(todo) \notin StepSteps \cup {"journal", "send", "kill", "hang"}
        /\ Durable(trial, disk') <=> Durable(trial, disk)
    BY <1>3 DEF Passed, Keeps
  <2>2. ~ Halts(todo)
    BY <2>1 DEF Halts
  <2>3. Head(todo) = "await" => OkHeard
    <3>1. SUFFICES ASSUME Head(todo) = "await" PROVE OkHeard
      OBVIOUS
    <3>2. PICK a \in answers : a.req.id = request /\ ~ Rejects(a.status)
      BY <1>3, <3>1 DEF Passed
    <3>3. a.status = "ok"
      BY <3>2 DEF Rejects
    <3>4. a.req.epoch = epoch
      BY <3>2 DEF EngineSafe, RequestsOK, Issued
    <3>5. QED
      BY <3>3, <3>4 DEF OkHeard
  <2>4. /\ Ahead(trial, todo, disk) => Ahead(trial, Tail(todo), disk')
        /\ Head(todo) # "await" /\ Awaits(todo) => Awaits(Tail(todo))
    BY <1>1, <2>1, CoursePass
  <2>5. QED
    BY <1>2, <2>1, <2>2, <2>3, <2>4 DEF Hears
<1>4. CASE Stricken
  <2>1. /\ exit' = "running" /\ todo' = <<"kill">>
        /\ Durable(trial, disk') <=> Durable(trial, disk)
    BY <1>4 DEF Stricken, Keeps
  <2>2. Halts(todo')
    BY <2>1 DEF Halts
  <2>3. QED
    BY <1>2, <2>1, <2>2 DEF Hears
<1>5. CASE WentOn
  <2>1. /\ exit' = "running" /\ ~ Halts(todo) /\ Follows(trial, todo, disk, todo', disk')
    BY <1>5 DEF WentOn
  <2>2. /\ ~ Awaits(todo)
        /\ Ahead(trial, todo', disk') <=> Ahead(trial, todo, disk)
        /\ ~ Durable(trial, disk) /\ Durable(trial, disk') => ~ Ahead(trial, todo', disk')
    BY <2>1 DEF Follows
  <2>3. QED
    BY <1>2, <2>1, <2>2 DEF Hears
<1>6. CASE Hung
  <2>1. exit' = "running" /\ todo' = <<"hang">> /\ disk' = disk
    BY <1>6 DEF Hung
  <2>2. Halts(todo')
    BY <2>1 DEF Halts
  <2>3. QED
    BY <1>2, <2>1, <2>2 DEF Hears
<1>7. CASE Over
  <2>1. exit' # "running" /\ disk' = disk /\ (exit' = "zero" => todo = << >>)
    BY <1>7 DEF Over
  <2>2. todo = << >> => ~ Ahead(trial, todo, disk) /\ ~ Awaits(todo) /\ ~ Halts(todo)
    BY <1>1, CourseEnds DEF Halts
  <2>3. QED
    BY <1>2, <2>1, <2>2
<1>8. CASE Thrown
  <2>1. exit' = "running" /\ disk' = disk /\ Ahead(trial, todo', disk)
    BY <1>8 DEF Thrown
  <2>2. QED
    BY <1>2, <2>1 DEF Hears
<1>9. QED
  BY <1>1, <1>3, <1>4, <1>5, <1>6, <1>7, <1>8, ServiceMoves

LEMMA HeardOKStep ==
  EngineSafe /\ AllCounted /\ ServiceOK /\ HeardOK /\ [EngineNext]_allVars => HeardOK'
<1> SUFFICES ASSUME EngineSafe, AllCounted, ServiceOK, HeardOK, [EngineNext]_allVars,
                    (trial.engine = "vercel")', (harness # "idle")'
             PROVE  /\ Durable(trial', disk') => OkHeard'
                    /\ exit' = "running" => Hears(trial', todo', disk', OkHeard')
                    /\ exit' = "zero" => OkHeard'
  BY DEF HeardOK
<1>1. CASE TrialStarts
  <2>1. PICK t \in Trials : StartTrial(t, Fresh(t), CrashRun(t))
    BY <1>1 DEF TrialStarts
  <2>2. /\ trial' = t /\ exit' = "running" /\ todo' = CrashRun(t) /\ disk' = Fresh(t)
        /\ t.engine = "vercel" /\ Service(t)
    BY <2>1 DEF StartTrial, Spawn, Service
  <2>3. Ahead(t, CrashRun(t), Fresh(t))
    BY <2>2, ServiceBegins
  <2>4. ~ Durable(t, Fresh(t))
    <3>1. Fresh(t).completed = << >>
      BY <2>2 DEF Fresh, LocalWorld
    <3>2. ~ (Len(Fresh(t).completed) >= ChargeAt(t))
      BY <3>1, VercelSteps
    <3>3. QED
      BY <2>2, <3>2, VercelDurable
  <2>5. QED
    BY <2>2, <2>3, <2>4 DEF Hears
<1>2. CASE ~ TrialStarts
  <2>1. /\ trial' = trial /\ harness # "idle" /\ Service(trial) /\ trial \in Trials
        /\ trial.engine = "vercel"
    BY <1>2, TrialGoesOn DEF EngineSafe, EngineTyped, HarnessTypeOK, Service
  <2>2. /\ Durable(trial, disk) => OkHeard
        /\ exit = "running" => Hears(trial, todo, disk, OkHeard)
        /\ exit = "zero" => OkHeard
    BY <2>1 DEF HeardOK
  <2>3. PICK own : MarkerAt(trial, harness, exit, todo, disk, before.disk.marker,
                            own, Ears, request)
    BY <2>1 DEF ServiceOK
  <2>4. Course(trial, todo, disk) /\ (harness = "crash_run" => Unreached(trial, disk))
    BY <2>3 DEF MarkerAt
  <2>5. OkHeard => OkHeard'
    BY <1>2, <2>1, EarsGrow DEF OkHeard
  <2>6. CASE EngineSend
    <3>1. /\ todo # << >> /\ todo' = Tail(todo) /\ Head(todo) = "send"
          /\ exit = "running" /\ UNCHANGED <<exit, disk>>
      BY <2>1, <2>6, SendMoves DEF EngineSend, Service, SendEffect, SendPayload, Running
    <3>2. todo \in Programs
      BY DEF EngineSafe, EngineTyped, RunTyped, StateAt
    <3>3. Head(todo) \notin StepSteps \cup {"journal"}
      BY <3>1 DEF StepSteps
    <3>4. Awaits(Tail(todo))
      BY <2>1, <2>4, <3>1, <3>2, <3>3, CoursePass
    <3>5. QED
      BY <2>1, <2>2, <2>5, <3>1, <3>4 DEF Hears
  <2>7. CASE EngineProcess /\ ~ EngineSend
    <3>1. /\ Durable(trial, disk') => OkHeard
          /\ exit' = "running" => Hears(trial, todo', disk', OkHeard)
          /\ exit' = "zero" => OkHeard
      BY <2>1, <2>4, <2>7, HearsOn
    <3>2. QED
      BY <2>1, <2>5, <3>1 DEF Hears
  <2>8. CASE Removed
    BY <2>1, <2>2, <2>5, <2>8 DEF Removed
  <2>9. CASE CrashRunEnds(RecoveryRun(trial, disk))
    <3>1. /\ harness = "crash_run" /\ exit' = "running"
          /\ todo' = RecoveryRun(trial, disk) /\ disk' = disk
      BY <2>9 DEF CrashRunEnds, Spawn
    <3>2. StateAt(trial, harness, todo, disk)
      BY DEF EngineSafe, EngineTyped, RunTyped
    <3>3. Ahead(trial, RecoveryRun(trial, disk), disk) <=> ~ Durable(trial, disk)
      BY <2>1, <2>4, <3>1, <3>2, ServiceResumes
    <3>4. QED
      BY <2>1, <2>2, <2>5, <3>1, <3>3 DEF Hears
  <2>10. CASE GivenUp \/ RecoveryRunEnds \/ SealLedger \/ ReadDump \/ ClassifyTrial(Verdict)
    <3>1. UNCHANGED <<processVars, before>>
      BY <2>10 DEF GivenUp, RecoveryRunEnds, SealLedger, ReadDump, ClassifyTrial
    <3>2. QED
      BY <2>1, <2>2, <2>5, <3>1 DEF processVars, Hears
  <2>11. CASE Daemon \/ UNCHANGED allVars
    <3>1. UNCHANGED processVars
      BY <2>11 DEF Daemon, allVars, trialVars, harnessVars, processVars
    <3>2. QED
      BY <2>1, <2>2, <2>5, <3>1 DEF processVars, Hears
  <2>12. ~ ServerTimesOut
    BY <2>1 DEF Service, ServerTimesOut, WorkflowTaskTimesOut, ActivityTimesOut
  <2>13. QED
    BY <1>2, <2>6, <2>7, <2>8, <2>9, <2>10, <2>11, <2>12, EngineSteps
<1>3. QED
  BY <1>1, <1>2

-----------------------------------------------------------------------------
(***************************************************************************)
(* What the requests of a trial carry: its draws, never one twice where    *)
(* the source never repeats itself.                                        *)
(***************************************************************************)
NewDraws == UuidDraws \/ trial.engine = "vercel"

PayloadsOK ==
  ~ DuplicateName(trial) /\ harness # "idle" =>
    /\ \A r \in Own : /\ r.key = EngineKeyOf(r.payload)
                      /\ IF Nondeterministic(trial) THEN r.payload \in drawn
                         ELSE r.payload = NoMemo
    /\ Nondeterministic(trial) /\ NewDraws =>
         \A r, q \in Own : r.payload = q.payload => r = q

LEMMA SendDraws ==
  ASSUME EngineSafe, ~ DuplicateName(trial), EngineSend
  PROVE  \E memo \in Draws : \E r :
           /\ r.payload = memo /\ r.key = EngineKeyOf(memo)
           /\ drawn' = (drawn \cup {memo}) \ {NoMemo}
           /\ Own' = Own \cup {r}
<1>1. PICK memo \in Draws : SendEffect(memo, EngineKeyOf(memo))
  <2>1. todo # << >> /\ todo \in Programs /\ trial \in Trials
    BY SendMoves DEF EngineSafe, EngineTyped, HarnessTypeOK, RunTyped, StateAt
  <2>2. trial.engine = "dbos" => ~ Has({"send_billing", "send_shipping"}, todo)
    BY DEF EngineSafe, EngineTyped, RunTyped, StateAt, DbosAt
  <2>3. trial.engine = "dbos" => Head(todo) \notin {"send_billing", "send_shipping"}
    BY <2>1, <2>2, HasTail
  <2>4. QED
    BY <2>3 DEF EngineSend, SendCharge, SendPayload, Running
<1> DEFINE key == EngineKeyOf(memo)
           r == [id |-> sent + 1, op |-> "execute", intent |-> Intent,
                 key |-> key, payload |-> memo, epoch |-> epoch]
<1>2. /\ wire' = wire \cup {r} /\ UNCHANGED <<answers, epoch>>
      /\ drawn' = (drawn \cup {memo}) \ {NoMemo}
  BY <1>1 DEF SendEffect, SendPayload, SendExecute, Send
<1>3. r.payload = memo /\ r.key = key /\ r.epoch = epoch
  OBVIOUS
<1> HIDE DEF r
<1>4. Own' = Own \cup {r}
  BY <1>2, <1>3 DEF Own, Issued
<1>5. QED
  BY <1>2, <1>3, <1>4

LEMMA PayloadsStep == EngineSafe /\ PayloadsOK /\ [EngineNext]_allVars => PayloadsOK'
<1> SUFFICES ASSUME EngineSafe, PayloadsOK, [EngineNext]_allVars PROVE PayloadsOK'
  OBVIOUS
<1>1. CASE TrialStarts
  <2>1. Own' = {}
    BY <1>1, OwnMoves
  <2>2. QED
    BY <2>1 DEF PayloadsOK
<1>2. CASE EngineSend /\ ~ DuplicateName(trial)
  <2>1. /\ UNCHANGED <<trial, harness>> /\ exit = "running" /\ harness # "idle"
    BY <1>2, SendMoves DEF harnessVars, EngineSafe, EngineTyped, PhaseOK
  <2>2. PICK memo \in Draws : \E r :
          /\ r.payload = memo /\ r.key = EngineKeyOf(memo)
          /\ drawn' = (drawn \cup {memo}) \ {NoMemo}
          /\ Own' = Own \cup {r}
    BY <1>2, SendDraws
  <2>3. PICK r :
          /\ r.payload = memo /\ r.key = EngineKeyOf(memo)
          /\ drawn' = (drawn \cup {memo}) \ {NoMemo}
          /\ Own' = Own \cup {r}
    BY <2>2
  <2>4. drawn \subseteq Memos /\ NoMemo \notin Memos
    BY TrialAssumption DEF EngineSafe, EngineTyped, HarnessTypeOK
  <2>5. \A m : EngineKeyOf(m)' = EngineKeyOf(m)
    BY <2>1 DEF EngineKeyOf
  <2>6. /\ \A q \in Own : /\ q.key = EngineKeyOf(q.payload)
                          /\ IF Nondeterministic(trial) THEN q.payload \in drawn
                             ELSE q.payload = NoMemo
        /\ Nondeterministic(trial) /\ NewDraws =>
             \A p, q \in Own : p.payload = q.payload => p = q
    BY <1>2, <2>1 DEF PayloadsOK
  <2>7. CASE ~ Nondeterministic(trial)
    <3>1. memo = NoMemo
      BY <2>7 DEF Draws
    <3>2. QED
      BY <2>1, <2>3, <2>5, <2>6, <2>7, <3>1 DEF PayloadsOK
  <2>8. CASE Nondeterministic(trial)
    <3>1. memo \in Memos /\ (NewDraws => memo \notin drawn)
      BY <2>8 DEF Draws, NewDraws
    <3>2. drawn' = drawn \cup {memo}
      BY <2>3, <2>4, <3>1
    <3>3. NewDraws => \A q \in Own : q.payload # r.payload
      BY <2>3, <2>6, <2>8, <3>1
    <3>4. NewDraws' = NewDraws
      BY <2>1 DEF NewDraws
    <3>5. \A q \in Own' : q.key = EngineKeyOf(q.payload) /\ q.payload \in drawn'
      BY <2>3, <2>6, <2>8, <3>2
    <3>6. NewDraws => \A p, q \in Own' : p.payload = q.payload => p = q
      BY <2>3, <2>6, <2>8, <3>3
    <3>7. QED
      BY <2>1, <2>5, <2>8, <3>4, <3>5, <3>6 DEF PayloadsOK
  <2>9. QED
    BY <2>7, <2>8
<1>3. CASE ~ TrialStarts /\ ~ EngineSend
  <2>1. Own' = Own /\ trial' = trial /\ (harness = "idle" => harness' = "idle")
    BY <1>3, OwnMoves, TrialGoesOn
  <2>2. drawn' = drawn
    <3>1. CASE EngineProcess
      BY <1>3, <3>1, ProcessSplit DEF ProcessOnly
    <3>2. CASE UNCHANGED drawn
      BY <3>2
    <3>3. QED
      BY <1>3, <3>1, <3>2, EngineSteps
         DEF Removed, ServerTimesOut, WorkflowTaskTimesOut, ActivityTimesOut, ServerStep,
             CrashRunEnds, GivenUp, RecoveryRunEnds, SealLedger, ReadDump, ClassifyTrial,
             Daemon, allVars, trialVars, processVars
  <2>3. \A m : EngineKeyOf(m)' = EngineKeyOf(m)
    BY <2>1 DEF EngineKeyOf
  <2>4. QED
    BY <2>1, <2>2, <2>3 DEF PayloadsOK, NewDraws
<1>4. CASE EngineSend /\ DuplicateName(trial)
  <2>1. trial' = trial
    BY <1>4, SendMoves DEF harnessVars
  <2>2. QED
    BY <1>4, <2>1 DEF PayloadsOK
<1>5. QED
  BY <1>1, <1>2, <1>3, <1>4

-----------------------------------------------------------------------------
(***************************************************************************)
(* What the prediction says of the services' trials, and what the ledger   *)
(* tells of two requests that were both carried out.                       *)
(***************************************************************************)
LEMMA DrawModes ==
  ASSUME NEW t \in Trials, ~ DuplicateName(t)
  PROVE  Nondeterministic(t) <=> t.mode \in {"nondet", "twophase"}
<1> DEFINE m == IF t.mode \in AdmissionArms THEN "naive" ELSE t.mode
<1>1. m \in {"naive", "idem", "nondet", "twophase"}
  BY EngineRow
<1>2. t.mode \in {"nondet", "twophase"} <=> m \in {"nondet", "twophase"}
  BY EngineRow DEF AdmissionArms
<1>3. RowOf(t) = Registry[t.engine][m]
  BY DEF RowOf, DuplicateName
<1>4. PICK order : Registry[t.engine][m] = EngineRows(order)[m]
  <2>1. CASE t.engine = "trueforge"
    <3>1. m \in {"naive", "idem"}
      BY <2>1, EngineAssumption DEF AdmissionArms
    <3>2. Registry[t.engine][m] = DBOSRows[m]
      BY <2>1, <3>1 DEF Registry
    <3>3. QED
      BY <3>2 DEF DBOSRows
  <2>2. CASE t.engine # "trueforge"
    <3>1. t.engine \in {"langgraph", "dbos", "temporal", "restate", "vercel"}
      BY <2>2, EngineRow
    <3>2. QED
      BY <3>1 DEF Registry, LangGraphRows, DBOSRows, TemporalRows, RestateRows, VercelRows
  <2>3. QED
    BY <2>1, <2>2
<1>5. EngineRows(order)[m].determinism = "nondeterministic" <=> m \in {"nondet", "twophase"}
  BY <1>1 DEF EngineRows, Row
<1>6. QED
  BY <1>2, <1>3, <1>4, <1>5 DEF Nondeterministic

LEMMA ServicePredicted ==
  ASSUME NEW t \in Trials, Service(t)
  PROVE  /\ t.barrier # "b1" => Predicted(t) = "exactly_once"
         /\ t.barrier = "b1" =>
              /\ t.mode = "naive" => Predicted(t) = "duplicated"
              /\ t.mode = "nondet" => Predicted(t) = "diverged"
              /\ t.mode \in {"idem", "twophase"} => Predicted(t) = "exactly_once"
         /\ Nondeterministic(t) <=> t.mode \in {"nondet", "twophase"}
<1>1. /\ t.barrier \in {"b0", "b1", "b2"} /\ t.mode \in {"naive", "idem", "nondet", "twophase"}
      /\ ~ DuplicateName(t) /\ t.engine \in {"restate", "vercel"}
  BY ServiceTrials DEF Service
<1>2. t.mode \notin AdmissionArms
  BY <1>1 DEF AdmissionArms
<1>3. RowOf(t) = Registry[t.engine][t.mode]
  BY <1>1, <1>2 DEF RowOf
<1>4. RowOf(t) = EngineRows("effect_then_persist")[t.mode]
  BY <1>1, <1>3 DEF Registry, RestateRows, VercelRows
<1>5. /\ RowOf(t).durability = "durable" /\ RowOf(t).persist_order = "effect_then_persist"
      /\ t.mode = "naive" => /\ RowOf(t).effect_mode = "naive"
                             /\ RowOf(t).determinism = "deterministic"
      /\ t.mode = "idem" => /\ RowOf(t).effect_mode = "idempotent"
                            /\ RowOf(t).determinism = "deterministic"
      /\ t.mode = "nondet" => /\ RowOf(t).effect_mode = "idempotent"
                              /\ RowOf(t).determinism = "nondeterministic"
      /\ t.mode = "twophase" => /\ RowOf(t).effect_mode = "two_phase"
                                /\ RowOf(t).determinism = "nondeterministic"
  BY <1>1, <1>4 DEF EngineRows, Row
<1>6. Predicted(t) = Predict(RowOf(t), PhaseOf[t.barrier])
  <2>1. t.barrier \in Barrier
    BY <1>1 DEF Barrier
  <2>2. t.barrier \notin DOMAIN HiddenPredictions
    BY <1>1 DEF HiddenPredictions
  <2>3. t.barrier # ReceiverBarrier
    BY <1>1 DEF ReceiverBarrier
  <2>4. QED
    BY <2>1, <2>2, <2>3 DEF Predicted
<1>7. PhaseOf[t.barrier] = CASE t.barrier = "b0" -> "before"
                             [] t.barrier = "b1" -> "between" [] OTHER -> "after"
  BY <1>1 DEF PhaseOf, Barrier
<1>8. t.barrier # "b1" => Predicted(t) = "exactly_once"
  BY <1>1, <1>5, <1>6, <1>7 DEF Predict
<1>9. t.barrier = "b1" => Predicted(t) = PredictBetween(RowOf(t))
  BY <1>5, <1>6, <1>7 DEF Predict
<1>10. /\ t.mode = "naive" => PredictBetween(RowOf(t)) = "duplicated"
       /\ t.mode = "nondet" => PredictBetween(RowOf(t)) = "diverged"
       /\ t.mode \in {"idem", "twophase"} => PredictBetween(RowOf(t)) = "exactly_once"
  BY <1>5 DEF PredictBetween
<1>11. Nondeterministic(t) <=> t.mode \in {"nondet", "twophase"}
  BY <1>1, <1>5 DEF Nondeterministic
<1>12. QED
  BY <1>8, <1>9, <1>10, <1>11

\* What a trial heard of was carried out under its intent.
LEMMA HeardCounts ==
  ASSUME EngineSafe, NEW r \in Ears
  PROVE  /\ r \in Own
         /\ \E a \in ExecutedNow(Intent, r.key) : a.req = r
<1>1. r \in Own /\ r \in Issued /\ r.epoch = epoch
  BY DEF Ears, Own
<1>2. PICK a \in answers : a.req = r /\ a.epoch = epoch /\ a.status \in {"ok", "no response"}
  BY DEF Ears, Heard
<1>3. r.payload \notin Unhashable /\ r.intent = Intent
  BY <1>1 DEF EngineSafe, RequestsOK, Intent
<1>4. a \in ExecutedNow(Intent, r.key)
  BY <1>2, <1>3 DEF ExecutedNow
<1>5. QED
  BY <1>1, <1>2, <1>4

\* A crossing's key and its digest are those of one request of the trial's.
LEMMA CrossedForThis ==
  ASSUME EngineSafe, CrossedAsAsked, harness # "idle", Undisturbed,
         NEW n \in 1 .. Len(effect_keys[Intent])
  PROVE  \E r \in Own : /\ r.key = effect_keys[Intent][n]
                        /\ r.payload = effect_digests[Intent][n]
<1>1. Intent \in Intents
  BY IntentTyped DEF EngineSafe
<1>2. Asked(Intent, effect_keys[Intent], effect_digests[Intent], answers, epoch)
  BY <1>1 DEF CrossedAsAsked
<1>3. PICK a \in answers : /\ a.epoch = epoch /\ Counts(a.req, a.status)
                           /\ a.req.intent = Intent
                           /\ a.req.key = effect_keys[Intent][n]
                           /\ a.req.payload = effect_digests[Intent][n]
  BY <1>2 DEF Asked, AskedFor
<1>4. a.req \in Issued
  BY DEF Issued
<1>5. CASE HarnessOf(trial) \in {"matrix", "trueforge"}
  <2>1. a.req.epoch = epoch
    BY <1>3, <1>5 DEF Undisturbed, OwnTrial, Counts
  <2>2. QED
    BY <1>3, <1>4, <2>1 DEF Own
<1>6. CASE HarnessOf(trial) \notin {"matrix", "trueforge"}
  <2>1. a.req.intent = a.req.epoch
    BY <1>4, <1>6 DEF EngineSafe, RequestsOK, IntentOf
  <2>2. Intent = epoch
    BY <1>6 DEF Intent, IntentOf
  <2>3. QED
    BY <1>3, <1>4, <2>1, <2>2 DEF Own
<1>7. QED
  BY <1>5, <1>6

\* A trial that counted twice is scored by what its crossings carried.
LEMMA CountedTwice ==
  ASSUME EngineSafe, VerdictOK, StoreOnChain, Scored, Len(effect_keys[Intent]) >= 2
  PROVE  outcome = IF \E m, n \in 1 .. Len(effect_keys[Intent]) :
                        effect_digests[Intent][m] # effect_digests[Intent][n]
                   THEN "diverged" ELSE "duplicated"
<1> DEFINE digests == effect_digests[Intent]
           size == Len(effect_keys[Intent])
<1>1. Intent \in Intents /\ LedgerTypeOK
  BY IntentTyped DEF Scored, EngineSafe, EngineTyped, HarnessTypeOK, DaemonTypeOK
<1>2. Dump.side_effects[Intent] = size /\ Dump.effect_digests[Intent] = digests
      /\ Len(digests) = size
  BY <1>1 DEF EngineSafe, CrossingsAgree, Dump
<1>3. outcome = Classify(Intent, Dump, store) /\ outcome # "raises"
  BY DEF VerdictOK, Scored, Verdict
<1>4. Verify(store) \in {"ok", "raises"}
  BY ChainNeverBroken
<1>5. Verify(store) = "raises" => Classify(Intent, Dump, store) = "raises"
  BY DEF Classify
<1>6. Verify(store) # "raises" /\ Verify(store) # "broken"
  BY <1>3, <1>4, <1>5
<1>7. Classify(Intent, Dump, store) = CrossingOutcome(digests)
  BY <1>2, <1>6, Zenon DEF Classify, size
<1>8. size # 0 /\ size # 1
  <2>1. size \in Nat
    BY <1>1 DEF LedgerTypeOK
  <2>2. \A n \in Nat : n >= 2 => n # 0 /\ n # 1
    OBVIOUS
  <2>3. QED
    BY <2>1, <2>2, Zenon
<1>9. CrossingOutcome(digests) = IF \E m, n \in 1 .. size : digests[m] # digests[n]
                                 THEN "diverged" ELSE "duplicated"
  BY <1>2, <1>8, Zenon DEF CrossingOutcome
<1>10. QED
  BY <1>3, <1>7, <1>9

\* A trial answered twice under no key counted twice, and where it only ever asks
\* for the one effect nothing tells the crossings apart.
LEMMA SameTwice ==
  ASSUME EngineSafe, VerdictOK, StoreOnChain, AcknowledgedOnce, CrossedAsAsked, AnswersOK,
         Scored, Undisturbed, NEW m, \A o \in Own : o.key = NoKey /\ o.payload = m,
         NEW q \in Ears, NEW r \in Ears, q # r
  PROVE  outcome = "duplicated"
<1> DEFINE keys == effect_keys[Intent]
           digests == effect_digests[Intent]
           executed == ExecutedNow(Intent, NoKey)
           crossings == {n \in DOMAIN keys : keys[n] = NoKey}
<1>1. /\ trial \in Trials /\ harness = "classified"
      /\ Intent \in Intents /\ LedgerTypeOK
  BY IntentTyped DEF Scored, EngineSafe, EngineTyped, HarnessTypeOK, DaemonTypeOK
<1>2. PICK a \in executed : a.req = q
  BY HeardCounts
<1>3. PICK b \in executed : b.req = r
  BY HeardCounts
<1>4. a # b
  BY <1>2, <1>3
<1>5. IsFiniteSet(executed)
  <2>1. executed \subseteq answers
    BY DEF ExecutedNow
  <2>2. QED
    BY <2>1, FS_Subset DEF AnswersOK
<1> HIDE DEF executed
<1>6. Cardinality(executed) # 0
  BY <1>2, <1>5, FS_EmptySet
<1>7. Cardinality(executed) # 1
  BY <1>2, <1>3, <1>4, <1>5, FS_Singleton
<1>8. keys \in Seq(Keys \cup {NoKey}) /\ Len(keys) \in Nat /\ DOMAIN keys = 1 .. Len(keys)
  BY <1>1 DEF LedgerTypeOK
<1>9. Cardinality(crossings) = Cardinality(executed)
  BY <1>1 DEF AcknowledgedOnce, executed
<1>10. Len(keys) >= 2
  <2>1. SUFFICES ASSUME ~ (Len(keys) >= 2) PROVE FALSE
    OBVIOUS
  <2>2. \A n \in Nat : n >= 2 \/ n = 0 \/ n = 1
    OBVIOUS
  <2>3. Len(keys) = 0 \/ Len(keys) = 1
    BY <1>8, <2>1, <2>2, Zenon
  <2>4. \A k, l \in crossings : k = l
    BY <1>8, <2>3
  <2> HIDE DEF crossings
  <2>5. crossings # {}
    <3>1. Cardinality({}) = 0
      BY FS_EmptySet, Zenon
    <3>2. QED
      BY <1>6, <1>9, <3>1, Zenon
  <2>6. PICK k : k \in crossings
    BY <2>5, Zenon
  <2>7. crossings = {k}
    BY <2>4, <2>6
  <2>8. QED
    BY <1>7, <1>9, <2>7, FS_Singleton, Zenon
<1>11. \A n \in 1 .. Len(keys) : digests[n] = m
  BY <1>1, CrossedForThis
<1>12. QED
  BY <1>10, <1>11, CountedTwice

\* One that asked for two effects, both of which crossed, did them both.
LEMMA TwoEffects ==
  ASSUME EngineSafe, VerdictOK, StoreOnChain, Scored,
         NEW m \in 1 .. Len(effect_keys[Intent]), NEW n \in 1 .. Len(effect_keys[Intent]),
         effect_digests[Intent][m] # effect_digests[Intent][n]
  PROVE  outcome = "diverged"
<1> DEFINE keys == effect_keys[Intent]
           digests == effect_digests[Intent]
<1>1. Intent \in Intents /\ LedgerTypeOK
  BY IntentTyped DEF Scored, EngineSafe, EngineTyped, HarnessTypeOK, DaemonTypeOK
<1>2. Len(keys) \in Nat
  BY <1>1 DEF LedgerTypeOK
<1>3. digests[m] # digests[n] /\ m \in 1 .. Len(keys) /\ n \in 1 .. Len(keys)
  OBVIOUS
<1> HIDE DEF keys, digests
<1>4. m # n
  BY <1>3
<1>5. Len(keys) >= 2
  BY <1>2, <1>3, <1>4
<1>6. QED
  BY <1>3, <1>5, CountedTwice DEF keys, digests

\* Where every request bears the key of what it asks for, each answered one left
\* a crossing of that.
LEMMA KeyedShown ==
  ASSUME EngineSafe, AcknowledgedOnce, CrossedAsAsked, harness # "idle", Undisturbed,
         \A o \in Own : o.key = ContentKey(o.payload) /\ o.payload \in Memos,
         NEW o \in Ears
  PROVE  \E n \in 1 .. Len(effect_keys[Intent]) : effect_digests[Intent][n] = o.payload
<1> DEFINE keys == effect_keys[Intent]
           digests == effect_digests[Intent]
<1>1. Intent \in Intents /\ LedgerTypeOK
  BY IntentTyped DEF EngineSafe, EngineTyped, HarnessTypeOK, DaemonTypeOK
<1>2. keys \in Seq(Keys \cup {NoKey}) /\ Len(keys) \in Nat /\ DOMAIN keys = 1 .. Len(keys)
  BY <1>1 DEF LedgerTypeOK
<1>3. o \in Own /\ ExecutedNow(Intent, o.key) # {}
  BY HeardCounts
<1>4. o.key = ContentKey(o.payload) /\ o.payload \in Memos
  BY <1>3
<1>5. o.key \in Keys /\ o.key # NoKey
  BY <1>4, TrialAssumption, KeyAssumption DEF EffectKeys
<1> DEFINE crossings == {n \in DOMAIN keys : keys[n] = o.key}
<1>6. Cardinality(crossings) = 1
  BY <1>1, <1>3, <1>5 DEF AcknowledgedOnce
<1>7. crossings # {}
  <2> HIDE DEF crossings
  <2>1. Cardinality({}) = 0
    BY FS_EmptySet, Zenon
  <2>2. QED
    BY <1>6, <2>1, SMT
<1>8. PICK n \in 1 .. Len(keys) : keys[n] = o.key
  BY <1>2, <1>7
<1>9. PICK p \in Own : p.key = keys[n] /\ p.payload = digests[n]
  BY CrossedForThis
<1>10. ContentKey(p.payload) = ContentKey(o.payload)
  BY <1>4, <1>8, <1>9
<1>11. p.payload = o.payload
  BY <1>10 DEF ContentKey
<1>12. QED
  BY <1>9, <1>11

LEMMA NaiveTwice ==
  ASSUME EngineSafe, VerdictOK, StoreOnChain, AcknowledgedOnce, CrossedAsAsked, AnswersOK,
         PayloadsOK, Scored, Undisturbed, ~ DuplicateName(trial), trial.mode = "naive",
         NEW q \in Ears, NEW r \in Ears, q # r
  PROVE  outcome = "duplicated"
<1>1. trial \in Trials /\ harness = "classified"
  BY DEF Scored, EngineSafe, EngineTyped, HarnessTypeOK
<1>2. ~ Nondeterministic(trial) /\ ~ Idempotent(trial) /\ ~ TwoPhase(trial)
  BY <1>1, Modes, DrawModes
<1>3. \A o \in Own : o.key = NoKey /\ o.payload = NoMemo
  BY <1>1, <1>2 DEF PayloadsOK, EngineKeyOf
<1>4. QED
  BY <1>3, SameTwice

\* A nondeterministic one that was answered twice asked for two different effects.
LEMMA NondetTwice ==
  ASSUME EngineSafe, VerdictOK, StoreOnChain, AcknowledgedOnce, CrossedAsAsked,
         PayloadsOK, Scored, Undisturbed, ~ DuplicateName(trial), trial.mode = "nondet",
         NewDraws,
         NEW q \in Ears, NEW r \in Ears, q # r
  PROVE  outcome = "diverged"
<1>1. trial \in Trials /\ harness = "classified" /\ drawn \subseteq Memos
  BY DEF Scored, EngineSafe, EngineTyped, HarnessTypeOK
<1>2. Nondeterministic(trial) /\ Idempotent(trial) /\ ~ TwoPhase(trial)
  BY <1>1, Modes, DrawModes
<1>3. \A o \in Own : o.key = ContentKey(o.payload) /\ o.payload \in Memos
  BY <1>1, <1>2 DEF PayloadsOK, EngineKeyOf
<1>4. q.payload # r.payload
  BY <1>1, <1>2 DEF PayloadsOK, Ears
<1>5. PICK m \in 1 .. Len(effect_keys[Intent]) : effect_digests[Intent][m] = q.payload
  BY <1>1, <1>3, KeyedShown
<1>6. PICK n \in 1 .. Len(effect_keys[Intent]) : effect_digests[Intent][n] = r.payload
  BY <1>1, <1>3, KeyedShown
<1>7. QED
  BY <1>4, <1>5, <1>6, TwoEffects

LEMMA MarkerShown ==
  ASSUME EngineSafe, Progress, VerdictOK, StoreOnChain, AcknowledgedOnce, AnsweredOnce,
         AnswersOK, CrossedAsAsked, EngineKilledAnywhereOnce, ServiceOK, PayloadsOK,
         AllCounted, HeardOK,
         Scored, Service(trial), trial.mode = "nondet" => NewDraws
  PROVE  disk.marker /\ outcome = OutcomeToExpect
<1> DEFINE m == before.disk.marker
<1>1. trial \in Trials /\ harness = "classified" /\ exit = "zero" /\ todo = << >>
  BY DEF Scored, EngineSafe, EngineTyped, HarnessTypeOK, PhaseOK
<1>2. /\ trial.barrier \in {"b0", "b1", "b2"}
      /\ trial.mode \in {"naive", "idem", "nondet", "twophase"}
      /\ HarnessOf(trial) \notin {"matrix", "trueforge"} /\ ~ DuplicateName(trial)
  BY <1>1, ServiceTrials
<1>3. PICK own : /\ own \subseteq Own /\ (Clean => own = Own)
                 /\ MarkerAt(trial, harness, exit, todo, disk, m, own, Ears, request)
  BY <1>1 DEF ServiceOK
<1>4. m
  BY <1>1, <1>3 DEF MarkerAt
<1>5. disk.marker
  BY <1>3, <1>4 DEF MarkerAt
<1>6. CASE trial.mode \in {"idem", "twophase"}
  <2>1. outcome = "exactly_once"
    BY <1>2, <1>6 DEF EngineKilledAnywhereOnce, Undisturbed
  <2>2. outcome = Predicted(trial)
    BY <1>1, <1>6, <2>1, ServicePredicted
  <2>3. ~ ChargedAgain
    BY <1>6 DEF ChargedAgain, Recharged
  <2>4. QED
    BY <1>5, <2>2, <2>3 DEF OutcomeToExpect
<1>7. Clean => ~ ChargedAgain
  BY DEF Clean, ChargedAgain, Recharged
<1>8. CASE Clean /\ trial.barrier # "b1"
  <2>1. Single(Own)
    BY <1>3, <1>4, <1>8 DEF MarkerAt
  <2>2. \A k, l \in 1 .. Len(effect_keys[Intent]) : k = l
    BY <1>1, <1>2, <2>1, SingleCrosses DEF Undisturbed
  <2>3. Made
    BY <1>1 DEF Progress, Lost, LostAt, Service
  <2>4. outcome = "exactly_once"
    BY <2>2, <2>3, CountedOnce
  <2>5. QED
    BY <1>1, <1>5, <1>7, <1>8, <2>4, ServicePredicted DEF OutcomeToExpect
<1>9. CASE Clean /\ trial.barrier = "b1" /\ trial.mode \in {"naive", "nondet"}
  <2>1. ~ Ahead(trial, todo, disk) /\ ~ Awaits(todo) /\ ~ Halts(todo)
    BY <1>1, CourseEnds DEF Halts
  <2>2. Twice(trial, todo, disk, Own, Ears, request)
    BY <1>1, <1>3, <1>4, <1>9, <2>1 DEF MarkerAt
  <2>3. PICK q \in Ears : \E r \in Own \ {q} : Told(r, todo, Ears, request)
    BY <2>1, <2>2 DEF Twice
  <2>4. PICK r \in Ears : q # r
    BY <2>1, <2>3 DEF Told
  <2>5. trial.mode = "naive" => outcome = "duplicated"
    BY <1>1, <1>2, <2>4, NaiveTwice DEF Undisturbed
  <2>6. trial.mode = "nondet" => outcome = "diverged"
    BY <1>1, <1>2, <2>4, NondetTwice DEF Undisturbed
  <2>7. QED
    BY <1>1, <1>5, <1>7, <1>9, <2>5, <2>6, ServicePredicted DEF OutcomeToExpect
<1>10. CASE trial.mode \in {"naive", "nondet"} /\ ~ Clean
  <2>1. trial.engine = "vercel" /\ \E a \in answers : a.req.epoch = epoch /\ a.status = "no response"
    BY <1>10 DEF Clean
  <2>2. PICK a \in answers : a.req.epoch = epoch /\ a.status = "no response"
    BY <2>1
  <2>3. PICK b \in answers : b.req.epoch = epoch /\ b.status = "ok"
    BY <1>1, <2>1 DEF HeardOK, OkHeard
  <2>4. a.req # b.req
    <3>1. a.status # b.status
      BY <2>2, <2>3
    <3>2. QED
      BY <3>1 DEF AnsweredOnce
  <2>5. a.req \in Ears
    BY <2>2 DEF AllCounted, Ears, Own, Issued, Heard
  <2>6. b.req \in Ears
    BY <2>3 DEF AllCounted, Ears, Own, Issued, Heard
  <2>7. trial.mode = "naive" => outcome = "duplicated"
    BY <1>1, <1>2, <2>4, <2>5, <2>6, NaiveTwice DEF Undisturbed
  <2>8. trial.mode = "nondet" => outcome = "diverged"
    BY <1>1, <1>2, <2>4, <2>5, <2>6, NondetTwice DEF Undisturbed
  <2>9. ChargedAgain
    BY <1>10, <2>1 DEF ChargedAgain, Recharged
  <2>10. QED
    BY <1>5, <1>10, <2>7, <2>8, <2>9 DEF OutcomeToExpect
<1>11. QED
  BY <1>2, <1>6, <1>8, <1>9, <1>10

\* No trial of Restate's or the Vercel fixture's is scored whose crash did not
\* leave the barrier's marker, and with it the outcome is the predicted one,
\* wherever else the processes of the trial are killed and whichever writes of the
\* ledger fail: the worker without a marker never gets past its barrier, so only a
\* recovery that found one can succeed, and it makes again exactly what the barrier
\* left unmade (restate_adapter.py _crash_once, crashpoint.ts crashOnce).  Where a
\* write the ledger had counted failed, the fixture throws and charges until it is
\* acknowledged, so an unkeyed effect of its ends duplicated and a redrawn one
\* diverged, at whichever barrier (crashpoint.ts ledgerExecute).  A source that may repeat itself is left out where
\* the action is a model's: two equal draws under Restate are one effect.
THEOREM ScoredWithItsMarker ==
  ASSUME UuidDraws \/ \A t \in Trials : t.engine = "restate" => t.mode # "nondet"
  PROVE  EngineSpec => []MarkerMeansBarrier
<1>1. EngineInit => /\ AnsweredOnce /\ AllCounted /\ ServiceOK /\ HeardOK /\ PayloadsOK
  BY DEF EngineInit, TrialInit, DaemonInit, AnsweredOnce, AllCounted, ServiceOK, HeardOK,
         PayloadsOK
<1>2. DaemonInit => AnswersOK
  BY FS_EmptySet DEF DaemonInit, AnswersOK
<1>3. EngineSpec => []AnswersOK
  BY <1>2, EngineRunsDaemon, DaemonTypeCorrect, AnswersStep, PTL DEF DaemonSpec
<1>4. EngineSpec => [](AnsweredOnce /\ AllCounted /\ ServiceOK /\ HeardOK /\ PayloadsOK)
  BY <1>1, EngineSafeAlways, AnsweredOnceStep, AllCountedStep, ServiceOKStep, HeardOKStep,
     PayloadsStep, PTL DEF EngineSpec
<1>5. EngineSafe /\ Progress /\ VerdictOK /\ StoreOnChain /\ AcknowledgedOnce /\ AnsweredOnce
        /\ AnswersOK /\ CrossedAsAsked /\ EngineKilledAnywhereOnce /\ ServiceOK /\ PayloadsOK
        /\ AllCounted /\ HeardOK
        => MarkerMeansBarrier
  <2> SUFFICES ASSUME EngineSafe, Progress, VerdictOK, StoreOnChain, AcknowledgedOnce,
                      AnsweredOnce, AnswersOK, CrossedAsAsked, EngineKilledAnywhereOnce,
                      ServiceOK, PayloadsOK, AllCounted, HeardOK, Scored,
                      trial.engine \in {"restate", "vercel"}
               PROVE  disk.marker /\ outcome = OutcomeToExpect
    BY DEF MarkerMeansBarrier
  <2>1. trial \in Trials
    BY DEF EngineSafe, EngineTyped, HarnessTypeOK
  <2>2. trial.mode = "nondet" => NewDraws
    BY <2>1 DEF NewDraws
  <2>3. QED
    BY <2>2, MarkerShown DEF Service
<1>6. EngineSpec => [](AcknowledgedOnce /\ CrossedAsAsked)
  BY EngineRunsDaemon, EachAcknowledgedOnce, CrossedAlwaysAsAsked, PTL
<1>7. QED
  BY <1>3, <1>4, <1>5, <1>6, EngineSafeAlways, OnceWhicheverEngine, PTL
=============================================================================
