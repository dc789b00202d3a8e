----------------------------- MODULE CrewRetry ------------------------------
(***************************************************************************)
(* harness/crewai_retry.py and crewai_retry_runtime.py: one process whose  *)
(* tool CrewAI retries, over the ledger daemon.  A run is K trials of each *)
(* case, one after another on one ledger, each its own logical action; a   *)
(* trial is certified from three witnesses that must agree: the subject's  *)
(* event stream, its exit status and the sealed ledger.                    *)
(*                                                                         *)
(* The subject's calls carry no key, so the ledger never dedupes; every    *)
(* payload is the same marker.  A request of a subject that was killed is  *)
(* still handled, possibly in a later trial.                               *)
(***************************************************************************)
EXTENDS LedgerDaemon

CONSTANTS
  K,         \* trials of each case
  Failures   \* TRUE: a subject may hang until its time is up, or be killed

Cases == <<"clean", "pre_effect", "post_effect">>
TrialCount == K * Len(Cases)
CaseOf(n) == Cases[1 + (n - 1) \div K]

\* Mutant: the logical action is named by the index alone.
LogicalActionId_IndexOnly(n) == 1 + ((n - 1) % K)

LogicalActionId(n) == n

Marker == "harmless"
MaxParsingAttempts == 3

ASSUME CrewAssumption ==
  /\ K \in Nat \ {0} /\ MaxEpochs >= TrialCount
  /\ Intents = 1 .. TrialCount
  /\ Payloads = {Marker} /\ Unhashable = {}
  /\ Failures \in BOOLEAN

VARIABLES
  stage,         \* where run is
  at,            \* where the subject is
  exit,          \* "running", or how the subject ended
  run_attempts,  \* ToolUsage._run_attempts
  request,       \* the number of the execute the subject sent last
  events,        \* the lines the subject has printed
  dump,          \* what the harness read from the sealed ledger
  receipts       \* of the trials recorded so far

crewVars == <<stage, at, exit, run_attempts, request, events, dump, receipts>>
subjectVars == <<at, exit, run_attempts, request, events>>
harnessVars == <<stage, dump, receipts>>

Case == CaseOf(epoch)
ActionId == LogicalActionId(epoch)

CrewInit ==
  /\ DaemonInit
  /\ stage = "idle"
  /\ at = "none" /\ exit = "none" /\ run_attempts = 1 /\ request = 0
  /\ events = << >>
  /\ dump = << >>
  /\ receipts = << >>

(***************************************************************************)
(* The subject.  An event keeps the attempt it names, CrewAI's own counter *)
(* as the tool read it, and the point of an injected failure.              *)
(***************************************************************************)
Event(name, attempt, point) ==
  [attempt |-> attempt, point |-> point, event |-> name, run_attempt |-> run_attempts]

At(name) == {n \in 1 .. Len(events) : events[n].event = name}
ToolAttempts == Cardinality(At("tool_enter"))
Emit(name, attempt, point) == events' = Append(events, Event(name, attempt, point))

Subject(here) == exit = "running" /\ at = here
Goes(there) == at' = there /\ UNCHANGED <<exit, run_attempts>>

\* What the process knew is gone with it.
Ends(status) == exit' = status /\ at' = "none" /\ run_attempts' = 1 /\ request' = 0

WorkerStarts ==
  /\ Subject("start")
  /\ Emit("worker_started", 0, "none")
  /\ Goes("tool")
  /\ UNCHANGED <<daemonVars, harnessVars, request>>

Injects(case) == Case = case /\ ToolAttempts' = 1

EnterTool ==
  /\ Subject("tool")
  /\ Emit("tool_enter", ToolAttempts + 1, "none")
  /\ Goes(IF Injects("pre_effect") THEN "before_effect" ELSE "execute")
  /\ UNCHANGED <<daemonVars, harnessVars, request>>

ExecuteMarker ==
  /\ Subject("execute")
  /\ SendExecute(ActionId, NoKey, Marker)
  /\ request' = sent'
  /\ Goes("await")
  /\ UNCHANGED <<harnessVars, events>>

Answered(status) == \E a \in answers : a.req.id = request /\ a.status = status

\* Mutant: the tool does not look at the response.
Acknowledged_Unread ==
  /\ Subject("await")
  /\ \E a \in answers : a.req.id = request
  /\ Emit("effect_ack", ToolAttempts, "none")
  /\ Goes(IF Injects("post_effect") THEN "after_effect_before_tool_return" ELSE "return")
  /\ UNCHANGED <<daemonVars, harnessVars, request>>

Acknowledged ==
  /\ Subject("await") /\ Answered("ok")
  /\ Emit("effect_ack", ToolAttempts, "none")
  /\ Goes(IF Injects("post_effect") THEN "after_effect_before_tool_return" ELSE "return")
  /\ UNCHANGED <<daemonVars, harnessVars, request>>

\* Mutant: CrewAI retries without end.
Caught_Forever ==
  /\ run_attempts' = run_attempts + 1
  /\ at' = "tool"
  /\ UNCHANGED <<daemonVars, harnessVars, request, exit>>

\* ToolUsage._use catches whatever the tool raised and calls it again, or gives
\* up; the scripted model answers an error with an exception of its own.
Caught ==
  /\ run_attempts' = run_attempts + 1
  /\ at' = IF run_attempts < MaxParsingAttempts THEN "tool" ELSE "error"
  /\ UNCHANGED <<daemonVars, harnessVars, request, exit>>

Unacknowledged ==
  /\ Subject("await")
  /\ \E a \in answers : a.req.id = request /\ a.status # "ok"
  /\ UNCHANGED events
  /\ Caught

InjectFailure ==
  \E point \in {"before_effect", "after_effect_before_tool_return"} :
    /\ Subject(point)
    /\ Emit("injected_failure", ToolAttempts, point)
    /\ Caught

ReturnResult ==
  /\ Subject("return")
  /\ Emit("tool_return", ToolAttempts, "none")
  /\ Goes("completed")
  /\ UNCHANGED <<daemonVars, harnessVars, request>>

KickoffEnds ==
  \E result \in {"completed", "error"} :
    /\ Subject(result)
    /\ Emit("runtime_result", ToolAttempts, result)
    /\ Ends(IF result = "completed" THEN "zero" ELSE "one")
    /\ UNCHANGED <<daemonVars, harnessVars>>

SubjectDies ==
  /\ Failures
  /\ exit = "running"
  /\ Ends("killed")
  /\ UNCHANGED <<daemonVars, harnessVars, events>>

SubjectStep ==
  \/ WorkerStarts \/ EnterTool \/ ExecuteMarker
  \/ Acknowledged \/ Unacknowledged \/ InjectFailure
  \/ ReturnResult \/ KickoffEnds \/ SubjectDies

(***************************************************************************)
(* The harness.                                                            *)
(***************************************************************************)
StartTrial ==
  /\ stage \in {"idle", "recorded"}
  /\ epoch < TrialCount
  /\ HandleReset
  /\ stage' = "subject"
  /\ at' = "start" /\ exit' = "running"
  /\ UNCHANGED <<run_attempts, request, events, dump, receipts>>

\* Mutant: the subject is given no time limit.
Timeout_None == FALSE /\ UNCHANGED <<daemonVars, crewVars>>

\* subprocess.run kills the subject, and its stdout is not parsed.
Timeout ==
  /\ Failures
  /\ stage = "subject"
  /\ exit = "running"
  /\ Ends("timed out")
  /\ events' = << >>
  /\ UNCHANGED <<daemonVars, harnessVars>>

\* Mutant: the ledger is read unsealed.
SealLedger_Omitted ==
  /\ stage = "subject" /\ exit # "running"
  /\ stage' = "dump"
  /\ UNCHANGED <<daemonVars, subjectVars, dump, receipts>>

SealLedger ==
  /\ stage = "subject" /\ exit # "running"
  /\ HandleSeal
  /\ stage' = "dump"
  /\ UNCHANGED <<subjectVars, dump, receipts>>

ReadDump ==
  /\ stage = "dump"
  /\ dump' = Dump
  /\ stage' = "record"
  /\ UNCHANGED <<daemonVars, subjectVars, receipts>>

\* validate_injection_order: the stream shows the failure where the case puts
\* it, and CrewAI's counter behind the retry.
Happened(name, attempt) == {n \in At(name) : events[n].attempt = attempt}

InjectionShown ==
  /\ \A n \in At("tool_enter") :
       events[n].attempt = Cardinality({m \in At("tool_enter") : m <= n})
  /\ Cardinality(At("tool_return")) = 1
  /\ CASE Case = "clean" ->
            /\ ToolAttempts = 1
            /\ At("injected_failure") = {}
            /\ Cardinality(At("effect_ack")) = 1
       [] OTHER ->
            /\ ToolAttempts = 2
            /\ \E n \in Happened("tool_enter", 2) : events[n].run_attempt = 2
            /\ Cardinality(At("injected_failure")) = 1
            /\ \E i \in Happened("injected_failure", 1) :
                 IF Case = "pre_effect"
                   THEN /\ events[i].point = "before_effect"
                        /\ Cardinality(At("effect_ack")) = 1
                        /\ \E a \in Happened("effect_ack", 2) : i < a
                   ELSE /\ events[i].point = "after_effect_before_tool_return"
                        /\ Cardinality(At("effect_ack")) = 2
                        /\ \E a \in Happened("effect_ack", 1) : a < i
                        /\ Happened("effect_ack", 2) # {}

ObservationComplete ==
  /\ exit = "zero"
  /\ Cardinality(At("worker_started")) = 1
  /\ Cardinality(At("runtime_result")) = 1
  /\ InjectionShown

\* The registered prediction.
ExpectedResult ==
  [clean       |-> [classification |-> "exactly_once", effect_count |-> 1, tool_attempts |-> 1],
   pre_effect  |-> [classification |-> "exactly_once", effect_count |-> 1, tool_attempts |-> 2],
   post_effect |-> [classification |-> "duplicated", effect_count |-> 2, tool_attempts |-> 2]]

\* _read_effect_ids: the lines of the file that name the action.
EffectIds(lines) ==
  {n \in 1 .. Len(lines) : lines[n].record.intent_id = ActionId}

NoCount == -1

\* run_trial's receipt, with the number of attempt_ids and of effect_ids.
Receipt ==
  LET classification == IF ObservationComplete THEN Classify(ActionId, dump, store)
                        ELSE "unverified"
      effect_count == IF classification \in {"unverified", "void"} THEN NoCount
                      ELSE dump.side_effects[ActionId]
      observed == [classification |-> classification, effect_count |-> effect_count,
                   tool_attempts |-> ToolAttempts] IN
    [observed |-> observed,
     complete |-> ObservationComplete,
     attempt_ids |-> ToolAttempts,
     effect_ids |-> Cardinality(EffectIds(store)),
     acknowledged |-> Cardinality(At("effect_ack")),
     passed |-> effect_count # NoCount /\ observed = ExpectedResult[Case]]

TornLine == \E n \in 1 .. Len(store) : store[n] = Torn

RecordTrial ==
  /\ stage = "record" /\ ~ TornLine
  /\ receipts' = Append(receipts, Receipt)
  /\ stage' = "recorded"
  /\ events' = << >> /\ dump' = << >> /\ exit' = "none"
  /\ UNCHANGED <<daemonVars, at, run_attempts, request>>

\* json.loads of a torn line ends the run.
ReadRaises ==
  /\ stage = "record" /\ TornLine
  /\ stage' = "raised"
  /\ UNCHANGED <<daemonVars, subjectVars, dump, receipts>>

\* validate_receipt.
Valid(receipt) ==
  /\ receipt.attempt_ids > 0
  /\ IF receipt.observed.effect_count = NoCount
       THEN /\ receipt.observed.classification \in {"void", "unverified"}
            /\ ~ receipt.passed
       ELSE receipt.complete

\* One bad receipt and the run reports nothing.
Report ==
  /\ stage = "recorded" /\ epoch = TrialCount
  /\ stage' = IF \A n \in 1 .. TrialCount : Valid(receipts[n]) THEN "reported"
              ELSE "invalid receipt"
  /\ UNCHANGED <<daemonVars, subjectVars, dump, receipts>>

Harness == \/ StartTrial \/ Timeout \/ SealLedger \/ ReadDump
           \/ RecordTrial \/ ReadRaises \/ Report

CrewNext ==
  \/ SubjectStep
  \/ Harness
  \/ (\E req \in wire : Handle(req)) /\ UNCHANGED crewVars

CrewSpec == CrewInit /\ [][CrewNext]_<<daemonVars, crewVars>>

\* run is a loop of its own, and subprocess.run bounds the time of a subject:
\* nothing is asked of the subject or of the daemon's handlers.
FairCrewSpec == CrewSpec /\ WF_<<daemonVars, crewVars>>(Harness)
-----------------------------------------------------------------------------
\* One type invariant; CrewAI enters the tool at most MaxParsingAttempts times.
CrewTypeOK ==
  /\ DaemonTypeOK
  /\ stage \in {"idle", "subject", "dump", "record", "recorded", "raised", "reported",
                "invalid receipt"}
  /\ exit \in {"none", "running", "zero", "one", "killed", "timed out"}
  /\ run_attempts \in 1 .. MaxParsingAttempts + 1
  /\ ToolAttempts <= MaxParsingAttempts
  /\ request \in 0 .. MaxRequests
  /\ Len(receipts) <= epoch

\* A trial that is certified at all ended as registered: whatever writes failed,
\* whoever was killed or timed out in it or before it, and whenever the requests
\* those left behind are handled (crewai_retry.py run_trial, passed).
CertifiedAsPredicted ==
  \A n \in 1 .. Len(receipts) : receipts[n].complete => receipts[n].passed

\* In a certified trial the three witnesses tell one story: every effect the
\* ledger counts was acknowledged to the tool and is on the chained file.
CertifiedIsAcknowledged ==
  \A n \in 1 .. Len(receipts) :
    receipts[n].complete => /\ receipts[n].acknowledged = receipts[n].observed.effect_count
                            /\ receipts[n].effect_ids = receipts[n].observed.effect_count

\* A receipt is true of the ledger until it is reset: no request of a killed
\* subject adds to the lines it was read from (run_trial seals first).
ReceiptStands ==
  stage = "recorded" =>
    receipts[epoch].effect_ids = Cardinality(EffectIds(store))

\* The run ends, whatever its subjects and the handlers do.
RunEnds == <>(stage \in {"reported", "raised", "invalid receipt"})

\* Stated by crewai_retry.py: anything short of a full observation "reports
\* effect_count=null and classification UNVERIFIED".  Here: a receipt is never a
\* reason to report nothing.
ShortfallReported == stage # "invalid receipt"
==============================================================================
