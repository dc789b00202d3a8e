---------------------------- MODULE TrialHarness ----------------------------
(***************************************************************************)
(* The crash-and-recover trial every harness of the package runs (harness/ *)
(* trial.py run_trial, and the run_trial of each engine's own harness)     *)
(* over the ledger daemon: reset, crash run, recovery run, seal, classify. *)
(*                                                                         *)
(* An adapter process is the list of steps it has still to take; a kill    *)
(* empties it.  A barrier is a step of its own, kept only in the program   *)
(* of a process the barrier is armed in.  The adapter modules say what     *)
(* their steps do to their runtime's durable state, disk.  A request a     *)
(* killed process left on the wire is still handled.                       *)
(***************************************************************************)
EXTENDS LedgerDaemon, Lifecycle, SequencesExt

CONSTANTS
  Trials,       \* the trials tried: records [engine, mode, barrier]
  Memos,        \* what a draw may return
  NoMemo,       \* the payload field is absent
  UuidDraws,    \* TRUE: no value is drawn twice; FALSE: a model may repeat itself
  StrayKills,   \* TRUE: a SIGKILL may reach an adapter anywhere
  Failures      \* TRUE: a sampler may fail and a process may time out

\* The keys base.effect derives from a payload or prepares.
ContentKey(memo) == [memo |-> memo, namespace |-> "charge"]
PreparedKey == [memo |-> NoMemo, namespace |-> "charge-prepared"]
EffectKeys == {ContentKey(m) : m \in Memos \cup {NoMemo}} \cup {PreparedKey}

\* Two generated modules charge under the name of a module instead of a memo.
ModulePayloads == {"billing", "shipping"}
TrialPayloads == Memos \cup {NoMemo} \cup ModulePayloads

\* What each barrier outside the shared three is predicted to end in.
HiddenPredictions ==
  [lg_pre_first_checkpoint                   |-> "lost",
   lg_pending_writes_after_persist           |-> "exactly_once",
   dbos_step_output_uncommitted              |-> "duplicated",
   dbos_step_output_committed_before_resume  |-> "exactly_once",
   dbos_workflow_outcome_uncommitted         |-> "exactly_once",
   dbos_duplicate_workflow_name_recovery     |-> "diverged",
   tmp_activity_scheduled_before_worker_poll |-> "exactly_once",
   tmp_workflow_task_replay                  |-> "exactly_once"]

\* TrueForge's one barrier, whose prediction is the receiver's.
ReceiverBarrier == "after_receiver_effect_before_mcp_response"

HiddenBarrier == DOMAIN HiddenPredictions \cup {ReceiverBarrier}
AdmissionArms == {"runtime_only", "external_admission_ledger"}

\* The rows of runtimes.py, and the one a workflow recovered under another body
\* behaves as: its second crossing is another action.
Registry == [control |-> ControlRows, langgraph |-> LangGraphRows,
             temporal |-> TemporalRows, dbos |-> DBOSRows,
             restate |-> RestateRows, vercel |-> VercelRows,
             trueforge |-> [mode \in {"naive", "idem"} |-> DBOSRows[mode]]]
TwoActionsRow == Row("durable", "effect_then_persist", "naive", "nondeterministic")

Trial == [engine : DOMAIN Registry,
          mode : DOMAIN ControlRows \cup DOMAIN LangGraphRows \cup AdmissionArms,
          barrier : Barrier \cup HiddenBarrier]

\* The program that runs the trial: all the trials of one share a ledger.
HarnessOf(t) ==
  CASE t.engine \in {"restate", "vercel", "trueforge"} -> t.engine
    [] t.mode \in AdmissionArms -> "admission"
    [] t.barrier \in DOMAIN HiddenPredictions /\ t.mode \notin AdmissionArms -> t.barrier
    [] OTHER -> "matrix"

\* matrix.py and trueforge_hidden.py score every trial under one intent, the others
\* name one per trial.
SharedIntent == 0
IntentOf(t, n) == IF HarnessOf(t) \in {"matrix", "trueforge"} THEN SharedIntent ELSE n

ASSUME TrialAssumption ==
  /\ Trials \subseteq Trial
  /\ \A t \in Trials, n \in 1 .. MaxEpochs : IntentOf(t, n) \in Intents
  /\ SharedIntent \in Intents
  /\ EffectKeys \subseteq Keys
  /\ TrialPayloads \subseteq Payloads \ Unhashable
  /\ NoMemo \notin Memos
  /\ {UuidDraws, StrayKills, Failures} \subseteq BOOLEAN

VARIABLES
  trial,     \* the runtime, its mode and the barrier
  harness,   \* where run_trial is
  todo,      \* the steps the adapter process has left
  exit,      \* "running" or how the process ended
  request,   \* the number of the execute the process sent last, 0 before
  drawn,     \* memos drawn since the ledger was reset
  disk,      \* what the runtime has made durable in this trial
  before,    \* what the harness read between the two runs
  dump,      \* what it read from the sealed ledger
  outcome    \* its verdict

trialVars == <<trial, harness, todo, exit, request, drawn, disk, before, dump, outcome>>
allVars == <<daemonVars, trialVars>>
processVars == <<todo, exit, request, drawn, disk>>
harnessVars == <<trial, harness, before, dump, outcome>>

Intent == IntentOf(trial, epoch)

\* The row the trial's runtime is declared with; the hidden trials and both
\* admission arms perform the naive effect.
RowOf(t) ==
  IF t.barrier = "dbos_duplicate_workflow_name_recovery" THEN TwoActionsRow
  ELSE Registry[t.engine][IF t.mode \in AdmissionArms THEN "naive" ELSE t.mode]

TwoPhase(t) == RowOf(t).effect_mode = "two_phase"
Idempotent(t) == RowOf(t).effect_mode \in {"idempotent", "two_phase"}
Nondeterministic(t) == RowOf(t).determinism = "nondeterministic"

Predicted(t) == CASE t.barrier \in Barrier -> Predict(RowOf(t), PhaseOf[t.barrier])
                  [] t.barrier \in DOMAIN HiddenPredictions -> HiddenPredictions[t.barrier]
                  [] t.barrier = ReceiverBarrier ->
                       IF t.mode = "naive" THEN "duplicated" ELSE "exactly_once"

\* How many members of a set of positions come no later than i.
CountUpTo(S, i) == Cardinality({j \in S : j <= i})

\* The program of a process in which only barrier b is armed.
ArmedWith(steps, b) ==
  LET kept == {n \in 1 .. Len(steps) : steps[n] \notin (Barrier \cup HiddenBarrier) \ {b}} IN
    [i \in 1 .. Cardinality(kept) |-> steps[CHOOSE n \in kept : CountUpTo(kept, n) = i]]

\* base.crash, as a step of a process only where its barrier is armed.
CrashAt(b, t) == IF t.barrier = b THEN <<b>> ELSE << >>

\* The barrier armed in the process that runs: a recovery has none.
Armed == IF harness = "crash_run" THEN trial.barrier ELSE "none"

\* Two threads of one process, or two requests to one, in every order.
Interleavings(v, w) ==
  LET n == Len(v) + Len(w) IN
    {[i \in 1 .. n |-> IF i \in S THEN v[CountUpTo(S, i)] ELSE w[i - CountUpTo(S, i)]] :
       S \in kSubset(Len(v), 1 .. n)}

TrialInit(t, files) ==
  /\ DaemonInit
  /\ trial = t
  /\ harness = "idle"
  /\ todo = << >>
  /\ exit = "none"
  /\ request = 0
  /\ drawn = {}
  /\ disk = files
  /\ before = [disk |-> files, effects |-> 0]
  /\ dump = << >>
  /\ outcome = "none"

Spawn(steps) ==
  /\ todo' = steps
  /\ exit' = "running"
  /\ request' = 0

(***************************************************************************)
(* The adapter process: what any of them does.                             *)
(***************************************************************************)
Running(step) == exit = "running" /\ todo # << >> /\ Head(todo) = step
Advance == todo' = Tail(todo)

ExitWith(code) ==
  /\ todo' = << >>
  /\ exit' = code

\* A step that only touches the runtime's durable state.
Persists(files) ==
  /\ Advance
  /\ disk' = files
  /\ UNCHANGED <<daemonVars, harnessVars, exit, request, drawn>>

KillSelf(armed) ==
  /\ Running(trial.barrier)
  /\ IF armed THEN ExitWith("killed") ELSE Advance /\ UNCHANGED exit
  /\ UNCHANGED <<daemonVars, harnessVars, request, drawn, disk>>

Return ==
  /\ exit = "running" /\ todo = << >>
  /\ ExitWith("zero")
  /\ UNCHANGED <<daemonVars, harnessVars, request, drawn, disk>>

Raise(step) ==
  /\ Running(step)
  /\ ExitWith("error")
  /\ UNCHANGED <<daemonVars, harnessVars, request, drawn, disk>>

SendPayload(step, key, payload) ==
  /\ Running(step)
  /\ SendExecute(Intent, key, payload)
  /\ request' = sent'
  /\ Advance
  /\ UNCHANGED <<harnessVars, exit, disk>>

\* base.effect: the memo is drawn, the key made from it or prepared before it.
\* The Vercel fixture draws uuids, whatever the source the harness is given.
Draws ==
  IF ~ Nondeterministic(trial) THEN {NoMemo}
  ELSE Memos \ (IF UuidDraws \/ trial.engine = "vercel" THEN drawn ELSE {})

SendEffect(memo, key) ==
  /\ SendPayload("send", key, memo)
  /\ drawn' = (drawn \cup {memo}) \ {NoMemo}

\* ModelSamplerUnavailable ends the process with a traceback.
SamplerFails ==
  /\ Failures
  /\ Nondeterministic(trial) /\ ~ UuidDraws
  /\ Raise("send")

\* Mutant: the adapter does not wait for the ledger's answer.
ReceiveReply_Unawaited ==
  /\ Running("await")
  /\ Advance
  /\ UNCHANGED <<daemonVars, harnessVars, exit, request, drawn, disk>>

\* Mutant: the Vercel fixture drops the response too.
Rejects_TrueForgeOnly(status) == trial.engine = "trueforge" /\ status = "no response"

\* base.effect drops the response, whatever it says.  The Vercel fixture throws
\* unless it is ok, TrueForge's sidecar where it reads nothing.
Rejects(status) == \/ trial.engine = "vercel" /\ status # "ok"
                   \/ trial.engine = "trueforge" /\ status = "no response"

ReceiveReply ==
  /\ Running("await")
  /\ \E a \in answers : a.req.id = request /\ ~ Rejects(a.status)
  /\ Advance
  /\ UNCHANGED <<daemonVars, harnessVars, exit, request, drawn, disk>>

\* The effect throws: what is left of its step, a barrier with it, is not run.
RejectReply(rest) ==
  /\ Running("await")
  /\ \E a \in answers : a.req.id = request /\ Rejects(a.status)
  /\ todo' = rest
  /\ UNCHANGED <<daemonVars, harnessVars, exit, request, drawn, disk>>

\* A SIGKILL from anyone, which the harness cannot tell from the barrier's.
StrayKill ==
  /\ StrayKills
  /\ exit = "running"
  /\ ExitWith("killed")
  /\ UNCHANGED <<daemonVars, harnessVars, request, drawn, disk>>

(***************************************************************************)
(* The harness.                                                            *)
(***************************************************************************)
StartTrial(t, files, steps) ==
  /\ harness \in {"idle", "classified"}
  /\ HarnessOf(t) = HarnessOf(trial)
  /\ trial' = t
  /\ HandleReset
  /\ Spawn(steps)
  /\ drawn' = {}
  /\ disk' = files
  /\ harness' = "crash_run"
  /\ before' = [disk |-> files, effects |-> 0]
  /\ dump' = << >>
  /\ outcome' = "none"

\* The exits a phase goes on from; any other is TrialExecutionError or the
\* RuntimeError of an engine's harness.
Expected == IF harness = "crash_run" THEN {"killed"} ELSE {"zero", "stalled"}

CrashRunEnds(steps) ==
  /\ harness = "crash_run" /\ exit \in Expected
  /\ Spawn(steps)
  /\ harness' = "recovery_run"
  /\ before' = [disk |-> disk, effects |-> side_effects[Intent]]
  /\ UNCHANGED <<daemonVars, trial, dump, outcome, drawn, disk>>

RecoveryRunEnds ==
  /\ harness = "recovery_run" /\ exit \in Expected
  /\ harness' = "seal"
  /\ UNCHANGED <<daemonVars, processVars, trial, before, dump, outcome>>

\* Mutant: only the crash run's exit is examined for failure.
TrialFails_CrashRunOnly ==
  /\ harness = "crash_run"
  /\ exit \notin {"running"} \cup Expected
  /\ harness' = "failed"
  /\ UNCHANGED <<daemonVars, processVars, trial, before, dump, outcome>>

\* Mutant: an adapter that passed its barrier by is not taken for a failure.
TrialFails_ZeroIsFine ==
  /\ harness \in {"crash_run", "recovery_run"}
  /\ exit \notin {"running", "zero"} \cup Expected
  /\ harness' = "failed"
  /\ UNCHANGED <<daemonVars, processVars, trial, before, dump, outcome>>

TrialFails ==
  /\ harness \in {"crash_run", "recovery_run"}
  /\ exit \notin {"running"} \cup Expected
  /\ harness' = "failed"
  /\ UNCHANGED <<daemonVars, processVars, trial, before, dump, outcome>>

\* subprocess.run kills the process when its time is up, and the trial fails.
\* A Vercel recovery that stalls is terminated and its trial goes on.
Timeout ==
  /\ Failures
  /\ exit = "running"
  /\ IF trial.engine = "vercel" /\ harness = "recovery_run"
       THEN ExitWith("stalled") /\ UNCHANGED harness
       ELSE ExitWith("killed") /\ harness' = "failed"
  /\ UNCHANGED <<daemonVars, trial, before, dump, outcome, request, drawn, disk>>

\* Mutant: the ledger is read unsealed.
SealLedger_Omitted ==
  /\ harness = "seal"
  /\ harness' = "dump"
  /\ UNCHANGED <<daemonVars, processVars, trial, before, dump, outcome>>

SealLedger ==
  /\ harness = "seal"
  /\ HandleSeal
  /\ harness' = "dump"
  /\ UNCHANGED <<processVars, trial, before, dump, outcome>>

ReadDump ==
  /\ harness = "dump"
  /\ dump' = Dump
  /\ harness' = "classify"
  /\ UNCHANGED <<daemonVars, processVars, trial, before, outcome>>

\* An exception out of verify leaves the trial without a verdict.
ClassifyTrial(verdict) ==
  /\ harness = "classify"
  /\ IF verdict = "raises" THEN harness' = "failed" /\ UNCHANGED outcome
     ELSE harness' = "classified" /\ outcome' = verdict
  /\ UNCHANGED <<daemonVars, processVars, trial, before, dump>>

Daemon == (\E req \in wire : Handle(req)) /\ UNCHANGED trialVars
-----------------------------------------------------------------------------
HarnessTypeOK ==
  /\ DaemonTypeOK
  /\ trial \in Trials
  /\ harness \in {"idle", "crash_run", "recovery_run", "seal", "dump", "classify",
                  "classified", "failed"}
  /\ exit \in {"none", "running", "killed", "zero", "error", "stalled"}
  /\ request \in 0 .. MaxRequests
  /\ drawn \subseteq Memos
  /\ outcome \in Outcome \cup {"none", "agrees", "disagrees"}

\* The trial was scored by the oracle.
Scored == /\ harness = "classified" /\ exit # "stalled"
          /\ trial.mode \notin AdmissionArms

\* At every barrier a trial ends in the outcome predict, or the hidden barriers'
\* own table, names (run_cell compares the two).
OutcomeAsPredicted == Scored => outcome = Predicted(trial)

\* The verdict remains what the ledger shows until it is reset: no request left
\* on the wire by a dead process changes it (trial.py run_trial seals before it
\* reads).
VerdictStands == Scored => outcome = Classify(Intent, Dump, store)

\* Every effect the ledger of a trial counts, those of a failed write among them,
\* was asked for by a process of that trial: where only a barrier kills, none is
\* left to the trial after (trial.py run_trial resets once both processes of the
\* last are gone; core.py counts the crossing before it writes).
OwnEffectsOnly ==
  \A a \in answers : a.status \in {"ok", "no response"} => a.req.epoch = a.epoch

\* The premise of other properties: no request a killed process of an earlier
\* trial left on the wire was counted under this one's intent.
OwnTrial == \A a \in answers :
              /\ a.status \in {"ok", "no response"}
              /\ a.epoch = epoch /\ a.req.intent = Intent
              => a.req.epoch = epoch

\* A trial that was started is classified or given up (trial.py run_trial).
TrialEnds == harness = "crash_run" ~> harness \in {"classified", "failed"}

(***************************************************************************)
(* The parts of the mapping to DurableStep that do not depend on the       *)
(* runtime: the effect happens when the daemon handles it.                 *)
(***************************************************************************)
AbstractKey(key, digest) ==
  CASE key = NoKey -> [by |-> "nothing"]
    [] key # NoKey /\ key = PreparedKey -> [by |-> "prepared"]
    [] OTHER -> [by |-> "content", of |-> digest]

AbstractStage ==
  CASE harness = "idle" -> "idle"
    [] harness = "crash_run" -> IF exit = "killed" THEN "down" ELSE "running"
    [] harness = "recovery_run" /\ exit # "stalled" -> "recovering"
    [] harness = "failed" \/ exit = "stalled" -> "aborted"
    [] OTHER -> "done"

AbstractRan == request # 0 /\ \E a \in answers : a.req.id = request

AbstractCrossed ==
  [n \in 1 .. Len(effect_keys[Intent]) |->
     [key |-> AbstractKey(effect_keys[Intent][n], effect_digests[Intent][n]),
      payload |-> effect_digests[Intent][n]]]
==============================================================================
