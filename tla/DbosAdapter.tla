---------------------------- MODULE DbosAdapter ----------------------------
(***************************************************************************)
(* DBOS under the trial: adapters/dbos_adapter.py (the matrix) and harness/*)
(* dbos_hidden.py with its runtime (four barriers around DBOS's own        *)
(* commits, one of them two modules that register one workflow name).      *)
(*                                                                         *)
(* DBOS itself is seen as those programs use it: the output of a step is   *)
(* committed after the step returns, the workflow's outcome after its last *)
(* step, and launch resumes a pending workflow by replaying its outputs.   *)
(***************************************************************************)
EXTENDS TrialHarness

StepName == {"prepare_identity_step", "effect_step", "sentinel_step",
             "billing_charge", "shipping_charge"}

\* workflow_status and operation_outputs of the trial's workflow.
DbosTables(t) == [wf |-> "absent", outputs |-> << >>]
DbosDisk == [wf : {"absent", "PENDING", "SUCCESS"}, outputs : Seq(StepName)]

DuplicateName(t) == t.barrier = "dbos_duplicate_workflow_name_recovery"

\* The workflow's steps.  Under a duplicate name, the body registered last.
CrashBody(t) ==
  IF DuplicateName(t) THEN <<"billing_charge">>
  ELSE (IF TwoPhase(t) THEN <<"prepare_identity_step">> ELSE << >>)
         \o <<"effect_step", "sentinel_step">>

\* Mutant: recovery dispatches a pending workflow to the body that began it.
RecoveryBody_Same(t) == CrashBody(t)

RecoveryBody(t) == IF DuplicateName(t) THEN <<"shipping_charge">> ELSE CrashBody(t)

\* What a step does, up to the commit of its output, which bears its name.
StepProgram(step) ==
  CASE step = "prepare_identity_step" -> <<"prepare_identity_step">>
    [] step = "effect_step" ->
         <<"b0", "send", "await", "b1", "dbos_step_output_uncommitted", "effect_step",
           "dbos_step_output_committed_before_resume">>
    [] step = "sentinel_step" -> <<"b2", "sentinel_step">>
    [] step = "billing_charge" ->
         <<"send_billing", "await", "dbos_duplicate_workflow_name_recovery", "billing_charge">>
    [] step = "shipping_charge" -> <<"send_shipping", "await", "shipping_charge">>

\* The steps of a body, in the order every body has them, but those whose outputs
\* are recorded already.
Performs(step, body, recorded) ==
  IF \E n \in recorded + 1 .. Len(body) : body[n] = step THEN StepProgram(step) ELSE << >>

Workflow(body, recorded) ==
  Performs("prepare_identity_step", body, recorded)
    \o Performs("effect_step", body, recorded)
    \o Performs("sentinel_step", body, recorded)
    \o Performs("billing_charge", body, recorded)
    \o Performs("shipping_charge", body, recorded)
    \o <<"dbos_workflow_outcome_uncommitted", "commit_outcome">>

DbosCrashRun(t) == ArmedWith(<<"enqueue">> \o Workflow(CrashBody(t), 0), t.barrier)

\* launch runs what the recorded outputs leave; get_result waits for it.
DbosRecoveryRun(t, tables) ==
  CASE tables.wf = "absent" -> <<"no_workflow">>
    [] tables.wf = "SUCCESS" -> << >>
    [] tables.wf = "PENDING" ->
         ArmedWith(Workflow(RecoveryBody(t), Len(tables.outputs)), "none")

Enqueue ==
  /\ Running("enqueue")
  /\ Persists([disk EXCEPT !.wf = "PENDING"])

\* Mutant: an output becomes durable with nothing in it.
CommitOutput_Forgotten ==
  \E step \in StepName :
    /\ Running(step)
    /\ Persists(disk)

CommitOutput ==
  \E step \in StepName :
    /\ Running(step)
    /\ Persists([disk EXCEPT !.outputs = Append(@, step)])

CommitOutcome ==
  /\ Running("commit_outcome")
  /\ Persists([disk EXCEPT !.wf = "SUCCESS"])

\* The generated modules charge under their own name and no key.
SendCharge ==
  \/ SendPayload("send_billing", NoKey, "billing") /\ UNCHANGED drawn
  \/ SendPayload("send_shipping", NoKey, "shipping") /\ UNCHANGED drawn

DbosProcess == \/ KillSelf(TRUE)
               \/ Enqueue
               \/ CommitOutput
               \/ CommitOutcome
               \/ SendCharge
               \/ Raise("no_workflow")

\* The rows each hidden barrier's rule says the tables show before the recovery
\* and after it.
DbAgrees ==
  LET both == <<"effect_step", "sentinel_step">>
      shown(was, is) == before.disk.outputs = was /\ disk.outputs = is IN
    /\ before.disk.wf = "PENDING" /\ disk.wf = "SUCCESS"
    /\ CASE trial.barrier = "dbos_step_output_uncommitted" -> shown(<< >>, both)
         [] trial.barrier = "dbos_step_output_committed_before_resume" ->
              shown(<<"effect_step">>, both)
         [] trial.barrier = "dbos_workflow_outcome_uncommitted" -> shown(both, both)
         [] DuplicateName(trial) -> shown(<< >>, <<"shipping_charge">>)

DbosPersisted == \E n \in DOMAIN disk.outputs :
                   disk.outputs[n] \in {"effect_step", "billing_charge", "shipping_charge"}
==============================================================================
