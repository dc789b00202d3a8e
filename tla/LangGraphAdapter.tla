-------------------------- MODULE LangGraphAdapter --------------------------
(***************************************************************************)
(* LangGraph under the trial: adapters/langgraph_adapter.py (the matrix),  *)
(* harness/langgraph_hidden.py (two barriers outside it) and harness/      *)
(* langgraph_admission.py (a run accepted outside the runtime and replayed *)
(* from there).  All three compile the same one-effect graph over a saver  *)
(* that kills the process.                                                 *)
(*                                                                         *)
(* LangGraph itself is seen as those programs use it: a put makes a        *)
(* checkpoint durable, put_writes a node's result, and after the charge    *)
(* node its put_writes races the superseding put.                          *)
(***************************************************************************)
EXTENDS TrialHarness

\* The checkpoint file: the last checkpoint put, and whether the charge node's
\* writes are pending on it.  The admission file: its events.  And what a
\* recovery reports.
LangGraphFiles(t) ==
  [checkpoint |-> "none",
   events |-> IF t.mode = "external_admission_ledger" THEN <<"accepted">> ELSE << >>,
   writes |-> FALSE, report |-> {}]

LangGraphDisk ==
  [checkpoint : {"none", "entry", "prepared", "done"},
   events : {<< >>, <<"accepted">>, <<"accepted", "recovery_required">>,
             <<"accepted", "recovery_required", "completed">>},
   writes : BOOLEAN, report : SUBSET {"EmptyInputError", "replayed"}]

ChargeNode == <<"send", "await", "race">>
PrepareNode(t) == IF TwoPhase(t) THEN <<"put_prepared">> ELSE << >>
Completed == <<"completed">>

\* invoke with an input: the entry checkpoint first, and b0 once it is durable.
InvokeInput(t) ==
  <<"lg_pre_first_checkpoint", "put_entry", "b0">> \o PrepareNode(t) \o ChargeNode

\* The admission subject dies at the first put, as the hidden one does.
LangGraphCrashRun(t) ==
  ArmedWith(InvokeInput(t),
            IF t.mode \in AdmissionArms THEN "lg_pre_first_checkpoint" ELSE t.barrier)

\* Mutant: pending writes are not consumed.
InvokeNothing_RerunsNode(t, files) ==
  CASE files.checkpoint = "none" -> <<"empty_input">>
    [] files.checkpoint = "done" -> << >>
    [] files.checkpoint = "entry" -> PrepareNode(t) \o ChargeNode
    [] files.checkpoint = "prepared" -> ChargeNode

\* invoke with no input resumes from the last checkpoint.
InvokeNothing(t, files) ==
  CASE files.checkpoint = "none" -> <<"empty_input">>
    [] files.checkpoint = "done" -> << >>
    [] files.checkpoint = "entry" /\ ~ files.writes -> PrepareNode(t) \o ChargeNode
    [] files.checkpoint = "prepared" /\ ~ files.writes -> ChargeNode
    [] files.checkpoint \in {"entry", "prepared"} /\ files.writes -> <<"put_done">>

LangGraphRecoveryRun(t, files) ==
  InvokeNothing(t, files) \o (IF t.mode \in AdmissionArms THEN <<"read_admission">> ELSE << >>)

PutCheckpoint ==
  \/ /\ Running("put_entry")
     /\ Persists([disk EXCEPT !.checkpoint = "entry", !.writes = FALSE])
  \/ /\ Running("put_prepared")
     /\ Persists([disk EXCEPT !.checkpoint = "prepared"])
  \/ /\ Running("put_done")
     /\ Persists([disk EXCEPT !.checkpoint = "done"])

PutWrites ==
  /\ Running("put_writes")
  /\ Persists([disk EXCEPT !.writes = TRUE])

Race ==
  /\ Running("race")
  /\ \E order \in Interleavings(<<"b1", "put_writes", "lg_pending_writes_after_persist">>,
                                <<"put_done", "b2">>) :
       todo' = ArmedWith(order, Armed) \o Tail(todo)
  /\ UNCHANGED <<daemonVars, harnessVars, exit, request, drawn, disk>>

\* b2 fires only in a put that finds the writes persisted.
LangGraphKill == KillSelf(trial.barrier = "b2" => disk.writes)

\* EmptyInputError: the matrix adapter dies of it, the other two report it.
EmptyInput ==
  \/ HarnessOf(trial) = "matrix" /\ Raise("empty_input")
  \/ /\ HarnessOf(trial) # "matrix"
     /\ Running("empty_input")
     /\ Persists([disk EXCEPT !.report = @ \cup {"EmptyInputError"}])

\* Mutant: an accepted run is marked for recovery and not replayed.
ReadAdmission_NotReplayed ==
  /\ Running("read_admission")
  /\ Persists(IF disk.events = << >> THEN disk
              ELSE [disk EXCEPT !.events = Append(@, "recovery_required")])

\* An accepted run is replayed from its input, whatever the runtime answered.
ReadAdmission ==
  /\ Running("read_admission")
  /\ IF disk.events = << >>
       THEN Advance /\ UNCHANGED disk
       ELSE /\ disk' = [disk EXCEPT !.events = Append(@, "recovery_required")]
            /\ todo' = ArmedWith(InvokeInput(trial), "none") \o Completed \o Tail(todo)
  /\ UNCHANGED <<daemonVars, harnessVars, exit, request, drawn>>

Complete ==
  /\ Running("completed")
  /\ Persists([disk EXCEPT !.events = Append(@, "completed"),
                           !.report = @ \cup {"replayed"}])

LangGraphProcess == \/ LangGraphKill
                    \/ PutCheckpoint
                    \/ PutWrites
                    \/ Race
                    \/ EmptyInput
                    \/ ReadAdmission
                    \/ Complete

\* The evidence an admission trial has to show, arm by arm (run_trial, agrees).
AdmissionAgrees ==
  /\ before.disk.checkpoint = "none" /\ before.effects = 0
  /\ "EmptyInputError" \in disk.report
  /\ IF trial.mode = "runtime_only"
       THEN /\ before.disk.events = << >> /\ disk.events = << >>
            /\ "replayed" \notin disk.report
            /\ disk.checkpoint = "none" /\ dump.side_effects[Intent] = 0
       ELSE /\ before.disk.events = <<"accepted">>
            /\ "replayed" \in disk.report
            /\ disk.checkpoint # "none" /\ dump.side_effects[Intent] = 1
            /\ disk.events = <<"accepted", "recovery_required", "completed">>

\* The completion is durable with the writes or with the checkpoint after them.
LangGraphPersisted == disk.writes \/ disk.checkpoint = "done"
==============================================================================
