-------------------------- MODULE TemporalAdapter --------------------------
(***************************************************************************)
(* Temporal under the trial: adapters/temporal_adapter.py (the matrix) and *)
(* harness/temporal_hidden.py with its runtime (a worker lost before an    *)
(* activity is polled, and one lost in a workflow task).                   *)
(*                                                                         *)
(* The server is seen as those programs use it: it keeps the workflow, its *)
(* one pending workflow task and its one pending activity, hands each to   *)
(* the worker that polls, times out what was taken and not answered, and   *)
(* drops an answer that comes after the time-out.  A worker runs one thing *)
(* at a time: the effect blocks its event loop.                            *)
(***************************************************************************)
EXTENDS TrialHarness

CONSTANTS
  SlowAttempts,   \* TRUE: an attempt may outlast start_to_close_timeout
  MaxAttempts     \* bound: attempts of one activity (the policy allows 100)

ASSUME TemporalAssumption == SlowAttempts \in BOOLEAN /\ MaxAttempts \in Nat \ {0}

Hidden(t) == t.barrier \in HiddenBarrier

\* The workflow's activities; the hidden workflow has no sentinel.
Activities(t) == IF Hidden(t) THEN <<"effect">> ELSE <<"effect", "sentinel">>

\* wft and act are the pending tasks, next the activities completed, started
\* the attempt the effect completed in.
TemporalHistory(t) ==
  [wf |-> "absent", wft |-> "none", next |-> 0, act |-> "none", attempt |-> 1,
   started |-> 0, timedOut |-> FALSE]

TemporalDisk ==
  [wf : {"absent", "open", "closed"}, wft : {"none", "ready", "taken"}, next : 0 .. 2,
   act : {"none", "ready", "taken"}, attempt : 1 .. MaxAttempts,
   started : 0 .. MaxAttempts, timedOut : BOOLEAN]

TemporalCrashRun(t) == <<"start_workflow", "poll">>
TemporalRecoveryRun(t, history) == <<"poll">>

StartWorkflow ==
  /\ Running("start_workflow")
  /\ Persists([disk EXCEPT !.wf = "open", !.wft = "ready"])

\* The worker takes a task, which it does before it polls again.
Takes(files, steps) ==
  /\ Running("poll")
  /\ disk' = files
  /\ todo' = ArmedWith(steps, Armed) \o todo
  /\ UNCHANGED <<daemonVars, harnessVars, exit, request, drawn>>

PollWorkflowTask ==
  /\ disk.wft = "ready"
  /\ Takes([disk EXCEPT !.wft = "taken"], <<"tmp_workflow_task_replay", "decide">>)

\* The workflow function, replayed from its history: the next activity, or done.
Decide ==
  /\ Running("decide")
  /\ Persists(IF disk.next < Len(Activities(trial))
                THEN [disk EXCEPT !.wft = "none", !.act = "ready", !.attempt = 1]
                ELSE [disk EXCEPT !.wft = "none", !.wf = "closed"])

\* Live, the workflow task after the activity kills the process.
TemporalKill == KillSelf(trial.barrier = "tmp_workflow_task_replay" => disk.next = 1)

\* One hidden subject polls no activities: it dies when it sees one scheduled.
OnlyWorkflows == Armed = "tmp_activity_scheduled_before_worker_poll"

PollActivity ==
  /\ disk.act = "ready" /\ ~ OnlyWorkflows
  /\ Takes([disk EXCEPT !.act = "taken"],
           IF Activities(trial)[disk.next + 1] = "effect"
             THEN <<"b0", "send", "await", "b1", "report">> ELSE <<"b2", "report">>)

WatchHistory ==
  /\ Running("poll")
  /\ disk.act = "ready" /\ OnlyWorkflows
  /\ ExitWith("killed")
  /\ UNCHANGED <<daemonVars, harnessVars, request, drawn, disk>>

\* Mutant: the history tells the attempt first started, not the one completed.
ReportActivity_FirstAttempt ==
  /\ Running("report")
  /\ Persists(IF disk.act # "taken" THEN disk
              ELSE [disk EXCEPT !.next = @ + 1, !.act = "none", !.wft = "ready",
                                !.started = 1])

ReportActivity ==
  /\ Running("report")
  /\ Persists(IF disk.act # "taken" THEN disk
              ELSE [disk EXCEPT !.next = @ + 1, !.act = "none", !.wft = "ready",
                                !.started = IF disk.next = 0 THEN disk.attempt ELSE @])

\* The attempt fails and is retried.
TemporalSamplerFails ==
  /\ Failures
  /\ Nondeterministic(trial) /\ ~ UuidDraws
  /\ Running("send")
  /\ disk.attempt < MaxAttempts
  /\ todo' = <<"poll">>
  /\ disk' = IF disk.act # "taken" THEN disk
             ELSE [disk EXCEPT !.act = "ready", !.attempt = @ + 1]
  /\ UNCHANGED <<daemonVars, harnessVars, exit, request, drawn>>

\* handle.result returns for a closed workflow and raises for one never started.
AwaitResult ==
  \/ /\ Running("poll") /\ disk.wf = "closed"
     /\ Persists(disk)
  \/ disk.wf = "absent" /\ Raise("poll")

TemporalProcess == \/ StartWorkflow
                   \/ PollWorkflowTask
                   \/ Decide
                   \/ TemporalKill
                   \/ PollActivity
                   \/ WatchHistory
                   \/ ReportActivity
                   \/ TemporalSamplerFails
                   \/ AwaitResult

(***************************************************************************)
(* The server's own steps.                                                 *)
(***************************************************************************)
Working(step) == exit = "running" /\ \E n \in DOMAIN todo : todo[n] = step

ServerStep(history) ==
  /\ trial.engine = "temporal" /\ harness \in {"crash_run", "recovery_run"}
  /\ disk' = history
  /\ UNCHANGED <<daemonVars, harnessVars, todo, exit, request, drawn>>

WorkflowTaskTimesOut ==
  /\ trial.engine = "temporal"
  /\ disk.wft = "taken" /\ ~ Working("decide")
  /\ ServerStep([disk EXCEPT !.wft = "ready", !.timedOut = TRUE])

ActivityTimesOut ==
  /\ trial.engine = "temporal"
  /\ disk.act = "taken" /\ disk.attempt < MaxAttempts
  /\ ServerStep([disk EXCEPT !.act = "ready", !.attempt = @ + 1])

LostAttemptTimesOut == ~ Working("report") /\ ActivityTimesOut
SlowAttemptTimesOut == SlowAttempts /\ Working("report") /\ ActivityTimesOut

\* What the recovered history has to show of each hidden barrier.
HistoryAgrees ==
  /\ disk.started = 1
  /\ disk.timedOut = (trial.barrier = "tmp_workflow_task_replay")

TemporalPersisted == disk.next >= 1
==============================================================================
