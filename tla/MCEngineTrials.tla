--------------------------- MODULE MCEngineTrials ---------------------------
EXTENDS EngineTrials

Cells(engines, modes, barriers) ==
  {[engine |-> e, mode |-> m, barrier |-> b] : e \in engines, m \in modes, b \in barriers}

EveryMode == DOMAIN LangGraphRows
Temporals == {"tmp_activity_scheduled_before_worker_poll", "tmp_workflow_task_replay"}
LangGraphs == {"lg_pre_first_checkpoint", "lg_pending_writes_after_persist"}
HiddenCells == Cells({"langgraph"}, {"naive"}, LangGraphs)
                 \cup Cells({"temporal"}, {"naive"}, Temporals)
                 \cup Cells({"dbos"}, {"naive"},
                           DOMAIN HiddenPredictions \ (LangGraphs \cup Temporals))
AdmissionCells == Cells({"langgraph"}, AdmissionArms, {"lg_pre_first_checkpoint"})

\* Every trial of every engine.
EveryTrial == Cells(Engines \ {"trueforge"}, EveryMode, Barrier) \cup HiddenCells
                \cup AdmissionCells \cup Cells({"trueforge"}, {"naive", "idem"}, {ReceiverBarrier})

\* The trials in which a crash out of place matters most.
KilledTrials == Cells({"langgraph", "dbos"}, {"idem", "twophase"}, {"b1"})
                  \cup Cells({"temporal"}, {"twophase"}, {"b1"})
                  \cup Cells({"restate"}, EveryMode \ {"nondet"}, Barrier)
                  \cup Cells({"vercel"}, {"naive", "idem"}, {"b1", "b2"})
                  \cup HiddenCells \cup AdmissionCells

\* No memo is special: a drawn value is only compared with another.
MemoSymmetry == Permutations(Memos)

LangGraphTrials == Cells({"langgraph"}, {"naive", "twophase"}, {"b1", "b2"})
==============================================================================
