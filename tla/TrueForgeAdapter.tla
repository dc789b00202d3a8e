-------------------------- MODULE TrueForgeAdapter --------------------------
(***************************************************************************)
(* TrueForge under the trial: harness/trueforge_hidden.py and runtime/     *)
(* trueforge/sidecar.mjs.  The server asks the sidecar for the model's     *)
(* message and calls its tool; the tool performs the effect, leaves the    *)
(* marker and kills the server.  What is retried is a second turn that the *)
(* harness asks the next server for.                                       *)
(*                                                                         *)
(* The server is a black box that keeps its turns durably: a turn goes on  *)
(* while its creation is being answered, and a new one cancels the one     *)
(* that was running.  The steps here are those of server and sidecar       *)
(* together, so a stray kill of the server alone is not one of them.       *)
(***************************************************************************)
EXTENDS ServiceAdapters

ASSUME TrueForgeAssumption == StrayKills => \A t \in Trials : t.engine # "trueforge"

NoTurn == [events |-> {}, status |-> "none"]
Turn == [events : SUBSET {"turn.created", "model.message", "tool.response"},
         status : {"none", "running", "cancelled", "done"}]

Turns(t) == [answered |-> FALSE, marker |-> FALSE, first |-> NoTurn, retry |-> NoTurn]
TrueForgeDisk == [answered : BOOLEAN, marker : BOOLEAN, first : Turn, retry : Turn]

CurrentTurn == IF harness = "crash_run" THEN "first" ELSE "retry"
Logs(event) == Persists([disk EXCEPT ![CurrentTurn].events = @ \cup {event}])

TrueForgeCrashRun(t) == <<"create_turn">>
TrueForgeRecoveryRun(t, turns) == <<"create_turn">>

\* The model asks for the tool until its conversation holds a result.
ModelResponse(turns) ==
  IF "tool.response" \in turns.first.events THEN <<"turn_done">>
  ELSE <<"model.message", "send", "await", ReceiverBarrier, "tool.response", "turn_done">>

\* Whatever turn was still running is cancelled.
CreateTurn ==
  /\ Running("create_turn")
  /\ \E order \in Interleavings(<<"answer_create">>, ModelResponse(disk)) : todo' = order
  /\ disk' = [disk EXCEPT !.first.status = IF @ = "running" THEN "cancelled" ELSE @,
                          ![CurrentTurn] = [events |-> {"turn.created"}, status |-> "running"]]
  /\ UNCHANGED <<daemonVars, harnessVars, exit, request, drawn>>

AnswerCreate ==
  /\ Running("answer_create")
  /\ Persists([disk EXCEPT !.answered = TRUE])

LogEvent == \E event \in {"model.message", "tool.response"} : Running(event) /\ Logs(event)

\* A tool that throws is answered all the same, by an error, before the marker.
ToolThrows == RejectReply(ArmedWith(Tail(todo), "none"))

TurnDone ==
  /\ Running("turn_done")
  /\ Persists([disk EXCEPT ![CurrentTurn].status = "done"])

TrueForgeProcess == CreateTurn \/ AnswerCreate \/ LogEvent \/ CrashOnce \/ Kill \/ TurnDone

\* The server died before it answered: create_turn raises, and the run with it.
TurnUnanswered ==
  /\ trial.engine = "trueforge" /\ harness = "crash_run" /\ exit \in Expected
  /\ ~ disk.answered
  /\ harness' = "failed"
  /\ UNCHANGED <<daemonVars, processVars, trial, before, dump, outcome>>

\* What run_trial wants shown of the orphan, of the turn after it and of the
\* ledger (agrees).
TurnsAgree ==
  /\ before.effects = 1
  /\ before.disk.first = [events |-> {"turn.created", "model.message"}, status |-> "running"]
  /\ disk.first.status = "cancelled" /\ disk.retry.status = "done"
  /\ dump.attempts[Intent] = 2

TrueForgePersisted == "tool.response" \in disk.first.events \cup disk.retry.events
==============================================================================
