---------------------------- MODULE EngineTrials ----------------------------
(***************************************************************************)
(* The real engines under their harnesses: each trial dispatches to its    *)
(* engine's adapter, and the trials of one harness follow one another on   *)
(* one ledger.                                                             *)
(***************************************************************************)
EXTENDS LangGraphAdapter, DbosAdapter, TemporalAdapter, TrueForgeAdapter

Engines == DOMAIN Registry \ {"control"}

\* The engine whose harness knows a hidden barrier.
HiddenEngine(b) ==
  CASE b \in {"lg_pre_first_checkpoint", "lg_pending_writes_after_persist"} -> "langgraph"
    [] b \in {"tmp_activity_scheduled_before_worker_poll", "tmp_workflow_task_replay"} ->
         "temporal"
    [] OTHER -> "dbos"

ASSUME EngineAssumption ==
  \A t \in Trials :
    /\ t.engine \in Engines
    /\ t.mode \in IF t.engine = "trueforge" THEN {"naive", "idem"}
                 ELSE DOMAIN LangGraphRows \cup AdmissionArms
    /\ t.engine = "trueforge" <=> t.barrier = ReceiverBarrier
    /\ t.barrier \in DOMAIN HiddenPredictions =>
         t.engine = HiddenEngine(t.barrier) /\ t.mode \in {"naive"} \cup AdmissionArms
    /\ t.mode \in AdmissionArms => t.barrier = "lg_pre_first_checkpoint"

\* What an engine has made durable when its trial begins.
Fresh(t) == CASE t.engine = "langgraph" -> LangGraphFiles(t)
              [] t.engine = "dbos" -> DbosTables(t)
              [] t.engine = "temporal" -> TemporalHistory(t)
              [] t.engine = "restate" -> RestateState(t)
              [] t.engine = "vercel" -> LocalWorld(t)
              [] t.engine = "trueforge" -> Turns(t)

EngineDisk(t) == CASE t.engine = "langgraph" -> LangGraphDisk
                   [] t.engine = "dbos" -> DbosDisk
                   [] t.engine = "temporal" -> TemporalDisk
                   [] t.engine = "restate" -> RestateDisk
                   [] t.engine = "vercel" -> VercelDisk
                   [] t.engine = "trueforge" -> TrueForgeDisk

CrashRun(t) == CASE t.engine = "langgraph" -> LangGraphCrashRun(t)
                 [] t.engine = "dbos" -> DbosCrashRun(t)
                 [] t.engine = "temporal" -> TemporalCrashRun(t)
                 [] t.engine = "restate" -> RestateRun(t, Fresh(t))
                 [] t.engine = "vercel" -> VercelCrashRun(t)
                 [] t.engine = "trueforge" -> TrueForgeCrashRun(t)

RecoveryRun(t, durable) ==
  CASE t.engine = "langgraph" -> LangGraphRecoveryRun(t, durable)
    [] t.engine = "dbos" -> DbosRecoveryRun(t, durable)
    [] t.engine = "temporal" -> TemporalRecoveryRun(t, durable)
    [] t.engine = "restate" -> RestateRun(t, durable)
    [] t.engine = "vercel" -> VercelRecoveryRun(t, durable)
    [] t.engine = "trueforge" -> TrueForgeRecoveryRun(t, durable)

\* Mutant: the payload stands for the key.
EngineKeyOf_Bare(memo) == memo

\* Mutant: a prepared key is not passed on to the effect.
EngineKeyOf_NotPassed(memo) == IF Idempotent(trial) THEN ContentKey(memo) ELSE NoKey

\* The key every adapter hands to effect: prepared durably before the draw, or
\* derived from what was drawn.
EngineKeyOf(memo) == CASE TwoPhase(trial) -> PreparedKey
                       [] ~ TwoPhase(trial) /\ Idempotent(trial) -> ContentKey(memo)
                       [] ~ Idempotent(trial) -> NoKey

\* A sampler that fails ends a LangGraph or DBOS process.  Temporal counts an
\* attempt, Restate runs the action again, and the Vercel fixture draws uuids.
EngineSamplerFails == trial.engine \in {"langgraph", "dbos"} /\ SamplerFails

EngineProcess ==
  \/ trial.engine = "langgraph" /\ LangGraphProcess
  \/ trial.engine = "dbos" /\ DbosProcess
  \/ trial.engine = "temporal" /\ TemporalProcess
  \/ trial.engine = "restate" /\ RestateProcess
  \/ trial.engine = "vercel" /\ VercelProcess
  \/ trial.engine = "trueforge" /\ TrueForgeProcess
  \/ \E memo \in Draws : SendEffect(memo, EngineKeyOf(memo))
  \/ ReceiveReply
  \/ trial.engine = "vercel" /\ RetryCharge
  \/ trial.engine = "trueforge" /\ ToolThrows
  \/ EngineSamplerFails
  \/ Return

\* The hidden trials and the admission trials judge more than the outcome.
Evidence == CASE trial.engine = "dbos" /\ trial.barrier \in HiddenBarrier -> DbAgrees
              [] trial.engine = "temporal" /\ trial.barrier \in HiddenBarrier -> HistoryAgrees
              [] trial.engine = "trueforge" -> TurnsAgree
              [] OTHER -> TRUE

Verdict == CASE trial.mode \in AdmissionArms ->
                  IF AdmissionAgrees THEN "agrees" ELSE "disagrees"
             [] trial.mode \notin AdmissionArms /\ exit = "stalled" -> "void"
             [] OTHER -> Classify(Intent, dump, store)

EngineGoesOn == \/ /\ trial.engine = "vercel" => disk.run
                   /\ trial.engine = "trueforge" => disk.answered
                   /\ CrashRunEnds(RecoveryRun(trial, disk))
                \/ NoRunFound
                \/ TurnUnanswered
                \/ RecoveryStalls
                \/ RecoveryRunEnds
                \/ TrialFails
                \/ SealLedger
                \/ ReadDump
                \/ ClassifyTrial(Verdict)

EngineHarness == \/ \E t \in Trials : StartTrial(t, Fresh(t), CrashRun(t))
                 \/ Timeout
                 \/ EngineGoesOn

EngineNext == \/ EngineProcess
              \/ StrayKill
              \/ WorkflowTaskTimesOut
              \/ LostAttemptTimesOut
              \/ SlowAttemptTimesOut
              \/ EngineHarness
              \/ Daemon

EngineInit == \E t \in Trials : TrialInit(t, Fresh(t))

EngineSpec == EngineInit /\ [][EngineNext]_allVars

\* A process that is not killed goes on, the daemon serves every connection, the
\* harness waits for both, and a server times out what nobody works on.  A slow
\* attempt is nobody's obligation.
FairEngineSpec == /\ EngineSpec
                  /\ WF_allVars(EngineProcess)
                  /\ WF_allVars(Daemon)
                  /\ WF_allVars(EngineGoesOn)
                  /\ WF_allVars(WorkflowTaskTimesOut)
                  /\ WF_allVars(LostAttemptTimesOut)
-----------------------------------------------------------------------------
EngineTypeOK == HarnessTypeOK /\ disk \in EngineDisk(trial)

\* The one cell whose crash point itself races the recovery's starting point.
Races(t) == t.engine = "langgraph" /\ t.barrier = "b1"

\* The ledger counted an effect of the fixture's and did not acknowledge it, so
\* that its charge was run again.
Recharged == /\ trial.engine = "vercel"
             /\ \E a \in answers : a.req.epoch = epoch /\ a.status = "no response"

\* And no key tells the two effects to be one.
ChargedAgain == Recharged /\ trial.mode \in {"naive", "nondet"}

\* The prediction knows of no failed write: an unkeyed effect that is run again for
\* one crosses twice whatever the barrier, and a redrawn one as two effects.
OutcomeToExpect == IF ~ ChargedAgain THEN Predicted(trial)
                   ELSE IF trial.mode = "naive" THEN "duplicated" ELSE "diverged"

\* At every barrier of every engine a trial ends in the outcome its harness
\* compares it with, whichever ledger writes fail, but for LangGraph's race at b1,
\* which may also leave the superseding checkpoint and with it exactly one
\* crossing (run_cell, and run of the hidden harnesses, agrees), and for the
\* unkeyed or redrawn effect the Vercel fixture repeats after a write that failed,
\* which crosses twice (crashpoint.ts ledgerExecute, charge.maxRetries).
EngineOutcomeAsPredicted ==
  Scored => outcome = OutcomeToExpect \/ (Races(trial) /\ outcome = "exactly_once")

\* However often the fixture's charge is run again, the effect is acknowledged to
\* it once for each time a process got past the charge: twice where the crash came
\* between the answer and the step's completion, else once (crashpoint.ts
\* ledgerExecute).
AcknowledgedAsPredicted ==
  Scored /\ trial.engine = "vercel" =>
    Cardinality({a \in answers : a.req.epoch = epoch /\ a.status = "ok"})
      = IF trial.barrier = "b1" THEN 2 ELSE 1

\* Where nothing else goes wrong, a hidden trial ends in its outcome by the
\* mechanism its rule names, and an admission trial shows the run lost to the
\* runtime and, from outside it, replayed once (db_agrees, history_agrees, agrees).
MechanismShown ==
  harness = "classified" => Evidence /\ outcome # "disagrees"

\* A stalled recovery is the lazy claim's doing: the crash left a step claimed
\* and not created, and the trial is never scored (vercel_matrix.py _run_trial).
StallIsTheClaim ==
  harness = "classified" =>
    (outcome = "void" <=> exit = "stalled" /\ before.disk.claim = "linked")

\* The effect is wanted once more than the bound on requests counts.
OutOfRequests == Running("send") /\ sent = MaxRequests

\* A trial that was started is classified or given up, though its recovery has to
\* wait for a server to time out what the crash left taken, and its charge for the
\* ledger to acknowledge it (every run_trial).
EngineTrialEnds ==
  harness = "crash_run" ~> harness \in {"classified", "failed"} \/ OutOfRequests

(***************************************************************************)
(* Wherever a process is killed, however slow an attempt and whatever      *)
(* times out.  A late request of a dead process is another trial's only    *)
(* where trials share an intent.                                           *)
(***************************************************************************)
Undisturbed == HarnessOf(trial) \in {"matrix", "trueforge"} => OwnTrial

\* A deterministic idempotent step and a two-phase one cross exactly once
\* whenever their trial is scored, whichever engine retried them and however often
\* (runtimes.py, the idem and twophase rows).
EngineKilledAnywhereOnce ==
  Scored /\ Undisturbed /\ trial.mode \in {"idem", "twophase"} => outcome = "exactly_once"

\* No service trial is scored without the barrier's marker, and with it the
\* outcome is the predicted one wherever else a signal struck, or the one that
\* comes of a charge repeated for a write that failed (restate_adapter.py
\* _crash_once, crashpoint.ts crashOnce).
MarkerMeansBarrier ==
  Scored /\ trial.engine \in {"restate", "vercel"} =>
    disk.marker /\ outcome = OutcomeToExpect

\* An accepted run is lost to a crash before its first checkpoint and to nothing
\* else, and not even to that where it was admitted outside the runtime
\* (langgraph_hidden.py, prediction rules; langgraph_admission.py recovery).
LostOnlyUnadmitted ==
  harness = "classified" /\ exit = "zero" /\ side_effects[Intent] = 0 =>
    /\ trial.engine = "langgraph"
    /\ before.disk.checkpoint = "none"
    /\ before.disk.events = << >>

\* The evidence is worth its name: a hidden trial whose tables or history agree
\* with a rule that predicts one crossing has one crossing, however many times
\* its activity was tried (dbos_hidden.py db_agrees, temporal_hidden.py
\* history_agrees).
EvidenceMeansOnce ==
  /\ Scored /\ trial.engine \in {"dbos", "temporal"}
  /\ trial.barrier \in HiddenBarrier /\ Predicted(trial) = "exactly_once"
  /\ Evidence
  => outcome = "exactly_once"

(***************************************************************************)
(* Every engine but LangGraph, whose completion races, implements the      *)
(* lifecycle the prediction is derived from.                               *)
(***************************************************************************)
PhaseOfBarrier(b) ==
  CASE b \in Barrier -> PhaseOf[b]
    [] b = "tmp_activity_scheduled_before_worker_poll" -> "before"
    [] b \in {"dbos_step_output_uncommitted", "dbos_duplicate_workflow_name_recovery",
             ReceiverBarrier} -> "between"
    [] OTHER -> "after"

EnginePersisted == CASE trial.engine = "langgraph" -> LangGraphPersisted
                     [] trial.engine = "dbos" -> DbosPersisted
                     [] trial.engine = "temporal" -> TemporalPersisted
                     [] trial.engine = "restate" -> RestatePersisted
                     [] trial.engine = "vercel" -> VercelPersisted
                     [] trial.engine = "trueforge" -> TrueForgePersisted

Step == INSTANCE DurableStep WITH
  Rows <- {RowOf(t) : t \in Trials},
  Fixed <- NoMemo,
  Drawn <- Memos \cup ModulePayloads,
  row <- RowOf(trial),
  phase <- PhaseOfBarrier(trial.barrier),
  stage <- AbstractStage,
  ran <- AbstractRan,
  persisted <- EnginePersisted,
  crossed <- AbstractCrossed

\* Each step of every other engine's trial is a step of the lifecycle or a
\* stutter of it, until a charge that was not acknowledged is run again within its
\* process.
EnginesImplementStep ==
  /\ trial.engine = "langgraph" \/ Step!StepInit
  /\ [][trial.engine = "langgraph" \/ Recharged \/ Step!StepNext]_(Step!stepVars)
==============================================================================
