----------------------------- MODULE CrewProofs -----------------------------
(***************************************************************************)
(* Theorems about the CrewAI run, for any number of trials of each case:   *)
(* what a receipt says stays true of the ledger, and the framework's retry *)
(* policy bounds the calls of the tool.                                    *)
(***************************************************************************)
EXTENDS CrewRetry, LedgerProofs

crewAllVars == <<daemonVars, crewVars>>

LEMMA TrialCountIsNat == TrialCount \in Nat
BY CrewAssumption DEF TrialCount, Cases

\* A step of the subject, the only ones that print or count attempts.
LEMMA SubjectLeavesHarness ==
  ASSUME SubjectStep
  PROVE  /\ exit = "running" /\ UNCHANGED harnessVars
         /\ UNCHANGED <<ledgerVars, store, sealed, answers, epoch>>
         /\ UNCHANGED daemonVars \/ (at = "execute" /\ ExecuteMarker)
BY DEF SubjectStep, WorkerStarts, EnterTool, ExecuteMarker, Acknowledged, Unacknowledged,
       InjectFailure, ReturnResult, KickoffEnds, SubjectDies, Subject, Caught, SendExecute,
       Send, daemonVars

\* Where the run is: one receipt per trial done, the ledger sealed between a
\* subject's end and the next reset, and no trial without its reset.
IsSequence(r) == \E S : r \in Seq(S)

ReceiptOK ==
  /\ IsSequence(receipts)
  /\ stage \in {"idle", "subject", "dump", "record", "recorded", "raised", "reported",
                "invalid receipt"}
  /\ stage = "idle" => epoch = 0
  /\ stage \in {"idle", "recorded", "reported", "invalid receipt"} => Len(receipts) = epoch
  /\ stage \in {"subject", "dump", "record", "raised"} => Len(receipts) + 1 = epoch
  /\ exit = "running" => stage = "subject"
  /\ stage \in {"dump", "record", "recorded"} => sealed
  /\ epoch <= TrialCount
  /\ ReceiptStands

LEMMA AppendToSequence ==
  ASSUME NEW s, IsSequence(s), NEW r
  PROVE  /\ IsSequence(Append(s, r)) /\ Len(s) \in Nat /\ Len(Append(s, r)) = Len(s) + 1
         /\ Append(s, r)[Len(s) + 1] = r
<1>1. PICK S : s \in Seq(S)
  BY DEF IsSequence
<1>2. s \in Seq(S \cup {r}) /\ r \in S \cup {r}
  BY <1>1
<1>3. /\ Append(s, r) \in Seq(S \cup {r}) /\ Len(s) \in Nat
      /\ Len(Append(s, r)) = Len(s) + 1 /\ Append(s, r)[Len(s) + 1] = r
  BY <1>2, AppendProperties
<1>4. QED
  BY <1>3 DEF IsSequence

LEMMA ReceiptStep ==
  ReceiptOK /\ [CrewNext]_crewAllVars => ReceiptOK'
<1> SUFFICES ASSUME ReceiptOK, [CrewNext]_crewAllVars PROVE ReceiptOK'
  OBVIOUS
<1>1. CASE SubjectStep
  <2>1. /\ exit = "running" /\ UNCHANGED <<stage, receipts, epoch, sealed, store>>
    BY <1>1, SubjectLeavesHarness DEF harnessVars
  <2>2. QED
    BY <2>1 DEF ReceiptOK, ReceiptStands
<1>2. CASE StartTrial
  <2>1. /\ stage \in {"idle", "recorded"} /\ stage' = "subject" /\ epoch' = epoch + 1
        /\ receipts' = receipts /\ epoch < TrialCount
    BY <1>2 DEF StartTrial, HandleReset
  <2>2. Len(receipts) \in Nat /\ Len(receipts) = epoch
    BY <2>1, AppendToSequence DEF ReceiptOK
  <2>3. epoch' <= TrialCount
    BY <2>1, <2>2, TrialCountIsNat
  <2>4. IsSequence(receipts')
    BY <2>1 DEF ReceiptOK
  <2>5. QED
    BY <2>1, <2>2, <2>3, <2>4 DEF ReceiptOK, ReceiptStands
<1>3. CASE Timeout \/ SealLedger \/ ReadDump \/ ReadRaises
  BY <1>3 DEF Timeout, Ends, SealLedger, HandleSeal, ReadDump, ReadRaises, harnessVars,
              subjectVars, daemonVars, ReceiptOK, ReceiptStands
<1>4. CASE RecordTrial
  <2>1. /\ stage = "record" /\ stage' = "recorded" /\ receipts' = Append(receipts, Receipt)
        /\ exit' = "none" /\ UNCHANGED <<epoch, store, sealed>>
    BY <1>4 DEF RecordTrial, daemonVars
  <2>2. Receipt.effect_ids = Cardinality(EffectIds(store))
    BY DEF Receipt
  <2>3. EffectIds(store)' = EffectIds(store)
    BY <2>1 DEF EffectIds, ActionId
  <2>4. receipts'[epoch'] = Receipt /\ IsSequence(receipts') /\ Len(receipts') = epoch'
    BY <2>1, AppendToSequence DEF ReceiptOK
  <2>5. QED
    BY <2>1, <2>2, <2>3, <2>4 DEF ReceiptOK, ReceiptStands
<1>5. CASE Report
  BY <1>5 DEF Report, subjectVars, daemonVars, ReceiptOK, ReceiptStands
<1>6. ASSUME NEW req \in wire, Handle(req), UNCHANGED crewVars PROVE ReceiptOK'
  <2>1. UNCHANGED <<stage, receipts, exit, epoch, sealed>>
    BY <1>6, HandleSplit DEF crewVars, Reply
  <2>2. sealed => store' = store
    BY <1>6, HandleSplit DEF Ledger
  <2>3. stage = "recorded" => EffectIds(store)' = EffectIds(store)
    BY <2>1, <2>2 DEF EffectIds, ActionId, ReceiptOK
  <2>4. QED
    BY <2>1, <2>3 DEF ReceiptOK, ReceiptStands
<1>7. CASE UNCHANGED crewAllVars
  <2>1. UNCHANGED <<stage, receipts, exit, epoch, sealed, store>>
    BY <1>7 DEF crewAllVars, crewVars, daemonVars
  <2>2. EffectIds(store)' = EffectIds(store)
    BY <2>1 DEF EffectIds, ActionId
  <2>3. QED
    BY <2>1, <2>2 DEF ReceiptOK, ReceiptStands
<1>8. QED
  BY <1>1, <1>2, <1>3, <1>4, <1>5, <1>6, <1>7 DEF CrewNext, Harness

\* What the harness recorded of a trial stays true of the ledger until the next
\* reset: the seal comes before the file is read, so the requests a killed subject
\* left behind add nothing to it (crewai_retry.py run_trial).
THEOREM ReceiptAlwaysStands == CrewSpec => []ReceiptStands
<1>1. CrewInit => ReceiptOK
  <2>1. TrialCount \in Nat
    BY TrialCountIsNat
  <2>2. QED
    BY <2>1 DEF CrewInit, DaemonInit, ReceiptOK, IsSequence, ReceiptStands
<1>2. ReceiptOK => ReceiptStands
  BY DEF ReceiptOK
<1>3. QED
  BY <1>1, <1>2, ReceiptStep, PTL DEF CrewSpec, crewAllVars
-----------------------------------------------------------------------------
(***************************************************************************)
(* The tool is called as often as CrewAI's counter says, and no oftener    *)
(* than its policy allows.                                                 *)
(***************************************************************************)
LEMMA EmitCounts ==
  ASSUME IsSequence(events), NEW e, events' = Append(events, e)
  PROVE  /\ IsSequence(events') /\ ToolAttempts \in Nat
         /\ ToolAttempts' = IF e.event = "tool_enter" THEN ToolAttempts + 1 ELSE ToolAttempts
<1> DEFINE last == Len(events) + 1
<1>1. PICK S : events \in Seq(S)
  BY DEF IsSequence
<1>2. events \in Seq(S \cup {e}) /\ e \in S \cup {e}
  BY <1>1
<1>3. /\ events' \in Seq(S \cup {e})
      /\ Len(events) \in Nat /\ Len(events') = last
      /\ \A n \in 1 .. Len(events) : events'[n] = events[n]
      /\ events'[last] = e
  BY <1>2, AppendProperties
<1>5. IsFiniteSet(At("tool_enter")) /\ ToolAttempts \in Nat
  <2>1. IsFiniteSet(1 .. Len(events)) /\ At("tool_enter") \subseteq 1 .. Len(events)
    BY <1>3, FS_Interval DEF At
  <2>2. QED
    BY <2>1, FS_Subset, FS_CardinalityType DEF ToolAttempts
<1>6. CASE e.event = "tool_enter"
  <2>1. At("tool_enter")' = At("tool_enter") \cup {last} /\ last \notin At("tool_enter")
    BY <1>3, <1>6 DEF At
  <2>2. QED
    BY <1>3, <1>5, <1>6, <2>1, FS_AddElement DEF ToolAttempts, IsSequence
<1>7. CASE e.event # "tool_enter"
  <2>1. At("tool_enter")' = At("tool_enter")
    BY <1>3, <1>7 DEF At
  <2>2. QED
    BY <1>3, <1>5, <1>7, <2>1 DEF ToolAttempts, IsSequence
<1>8. QED
  BY <1>6, <1>7

LEMMA NoAttempts ==
  /\ IsSequence(<< >>)
  /\ events = << >> => ToolAttempts = 0
  /\ events' = << >> => ToolAttempts' = 0
<1>1. IsSequence(<< >>)
  BY DEF IsSequence
<1>2. events = << >> => At("tool_enter") = {}
  BY DEF At
<1>3. events' = << >> => At("tool_enter")' = {}
  BY DEF At
<1>4. QED
  BY <1>1, <1>2, <1>3, FS_EmptySet DEF ToolAttempts

InTool == {"before_effect", "execute", "await", "after_effect_before_tool_return", "return"}

SubjectOK ==
  /\ IsSequence(events)
  /\ ToolAttempts \in 0 .. 3
  /\ run_attempts \in 1 .. 4
  /\ request \in 0 .. MaxRequests
  /\ exit \in {"none", "running", "zero", "one", "killed", "timed out"}
  /\ at \in {"none", "start", "tool", "completed", "error"} \cup InTool
  /\ exit # "running" => at = "none" /\ run_attempts = 1
  /\ stage \in {"idle", "recorded"} => events = << >>
  /\ at = "start" => ToolAttempts = 0 /\ run_attempts = 1
  /\ at = "tool" => ToolAttempts + 1 = run_attempts /\ run_attempts <= 3
  /\ at \in InTool => ToolAttempts = run_attempts

LEMMA FirstRun == 1 \in 1 .. 4
OBVIOUS

\* A subject that has ended.
LEMMA EndedOK ==
  ASSUME at' = "none", run_attempts' = 1, request' \in 0 .. MaxRequests,
         exit' \in {"none", "zero", "one", "killed", "timed out"},
         IsSequence(events'), ToolAttempts' \in 0 .. 3,
         stage' \in {"idle", "recorded"} => events' = << >>
  PROVE  SubjectOK'
<1>1. run_attempts' \in 1 .. 4
  BY FirstRun
<1>2. exit' \in {"none", "running", "zero", "one", "killed", "timed out"}
  OBVIOUS
<1>3. (at \in {"none", "start", "tool", "completed", "error"} \cup InTool)'
  BY DEF InTool
<1>4. (at = "start" => ToolAttempts = 0 /\ run_attempts = 1)'
  OBVIOUS
<1>5. (at = "tool" => ToolAttempts + 1 = run_attempts /\ run_attempts <= 3)'
  OBVIOUS
<1>6. (at \in InTool => ToolAttempts = run_attempts)'
  BY DEF InTool
<1>7. QED
  BY <1>1, <1>2, <1>3, <1>4, <1>5, <1>6 DEF SubjectOK

\* The subject's own steps: the tool is entered when the counter stands one
\* above the calls so far, and only a raise inside the tool moves the counter.
LEMMA SubjectStepOK ==
  ASSUME SubjectOK, ReceiptOK, MaxRequests \in Nat, sent' \in 0 .. MaxRequests, SubjectStep
  PROVE  SubjectOK'
<1>0. stage' = stage /\ exit = "running" /\ stage = "subject"
  BY SubjectLeavesHarness DEF harnessVars, ReceiptOK
<1>1. CASE WorkerStarts
  <2>1. PICK e : events' = Append(events, e) /\ e.event = "worker_started"
    BY <1>1 DEF WorkerStarts, Emit, Event
  <2>2. IsSequence(events') /\ ToolAttempts' = ToolAttempts
    BY <2>1, EmitCounts DEF SubjectOK
  <2>3. QED
    BY <1>0, <1>1, <2>2 DEF WorkerStarts, Goes, Subject, SubjectOK, InTool
<1>2. CASE EnterTool
  <2>1. PICK e : events' = Append(events, e) /\ e.event = "tool_enter"
    BY <1>2 DEF EnterTool, Emit, Event
  <2>2. IsSequence(events') /\ ToolAttempts' = ToolAttempts + 1
    BY <2>1, EmitCounts DEF SubjectOK
  <2>3. at' \in InTool /\ at = "tool" /\ UNCHANGED <<exit, run_attempts, request>>
    BY <1>2 DEF EnterTool, Goes, Subject, InTool
  <2>4. QED
    BY <1>0, <2>2, <2>3 DEF SubjectOK, InTool
<1>3. CASE ExecuteMarker
  <2>1. /\ at = "execute" /\ at' = "await" /\ request' = sent'
        /\ UNCHANGED <<exit, run_attempts, events>>
    BY <1>3 DEF ExecuteMarker, Goes, Subject
  <2>2. ToolAttempts' = ToolAttempts
    BY <2>1 DEF ToolAttempts, At
  <2>3. QED
    BY <1>0, <2>1, <2>2 DEF SubjectOK, InTool
<1>4. CASE Acknowledged
  <2>1. PICK e : events' = Append(events, e) /\ e.event = "effect_ack"
    BY <1>4 DEF Acknowledged, Emit, Event
  <2>2. IsSequence(events') /\ ToolAttempts' = ToolAttempts
    BY <2>1, EmitCounts DEF SubjectOK
  <2>3. /\ at' \in {"after_effect_before_tool_return", "return"} /\ at = "await"
        /\ UNCHANGED <<exit, run_attempts, request>>
    BY <1>4 DEF Acknowledged, Goes, Subject
  <2>4. QED
    BY <1>0, <2>2, <2>3 DEF SubjectOK, InTool
<1>5. ASSUME Caught, at \in InTool, IsSequence(events'), ToolAttempts' = ToolAttempts
      PROVE  SubjectOK'
  BY <1>0, <1>5 DEF SubjectOK, InTool, Caught, MaxParsingAttempts
<1>6. CASE Unacknowledged
  <2>1. Caught /\ at \in InTool /\ events' = events
    BY <1>6 DEF Unacknowledged, Subject, InTool
  <2>2. ToolAttempts' = ToolAttempts
    BY <2>1 DEF ToolAttempts, At
  <2>3. QED
    BY <1>5, <2>1, <2>2 DEF SubjectOK
<1>7. CASE InjectFailure
  <2>1. PICK point \in {"before_effect", "after_effect_before_tool_return"} :
          Subject(point) /\ Emit("injected_failure", ToolAttempts, point) /\ Caught
    BY <1>7 DEF InjectFailure
  <2>2. PICK e : events' = Append(events, e) /\ e.event = "injected_failure"
    BY <2>1 DEF Emit, Event
  <2>3. IsSequence(events') /\ ToolAttempts' = ToolAttempts
    BY <2>2, EmitCounts DEF SubjectOK
  <2>4. QED
    BY <1>5, <2>1, <2>3 DEF Subject, InTool
<1>8. CASE ReturnResult
  <2>1. PICK e : events' = Append(events, e) /\ e.event = "tool_return"
    BY <1>8 DEF ReturnResult, Emit, Event
  <2>2. IsSequence(events') /\ ToolAttempts' = ToolAttempts
    BY <2>1, EmitCounts DEF SubjectOK
  <2>3. QED
    BY <1>0, <1>8, <2>2 DEF ReturnResult, Goes, Subject, SubjectOK, InTool
<1>9. ASSUME NEW status \in {"zero", "one", "killed"}, Ends(status),
             IsSequence(events'), ToolAttempts' = ToolAttempts
      PROVE  SubjectOK'
  <2>1. at' = "none" /\ run_attempts' = 1 /\ request' = 0 /\ exit' = status
    BY <1>9 DEF Ends
  <2>2. ToolAttempts' \in 0 .. 3
    BY <1>9 DEF SubjectOK
  <2>3. request' \in 0 .. MaxRequests /\ stage' \notin {"idle", "recorded"}
    BY <1>0, <2>1
  <2>4. exit' \in {"none", "zero", "one", "killed", "timed out"}
    BY <2>1
  <2>5. QED
    BY <1>9, <2>1, <2>2, <2>3, <2>4, EndedOK
<1>10. CASE KickoffEnds
  <2>1. PICK result \in {"completed", "error"} :
          /\ Emit("runtime_result", ToolAttempts, result)
          /\ Ends(IF result = "completed" THEN "zero" ELSE "one")
    BY <1>10 DEF KickoffEnds
  <2>2. PICK e : events' = Append(events, e) /\ e.event = "runtime_result"
    BY <2>1 DEF Emit, Event
  <2>3. IsSequence(events') /\ ToolAttempts' = ToolAttempts
    BY <2>2, EmitCounts DEF SubjectOK
  <2>4. QED
    BY <1>9, <2>1, <2>3
<1>11. CASE SubjectDies
  <2>1. Ends("killed") /\ events' = events
    BY <1>11 DEF SubjectDies
  <2>2. ToolAttempts' = ToolAttempts
    BY <2>1 DEF ToolAttempts, At
  <2>3. QED
    BY <1>9, <2>1, <2>2 DEF SubjectOK
<1>12. QED
  BY <1>1, <1>2, <1>3, <1>4, <1>6, <1>7, <1>8, <1>10, <1>11 DEF SubjectStep

LEMMA SubjectInvariant ==
  ASSUME SubjectOK, ReceiptOK, MaxRequests \in Nat, sent' \in 0 .. MaxRequests,
         [CrewNext]_crewAllVars
  PROVE  SubjectOK'
<1>1. ASSUME UNCHANGED events PROVE ToolAttempts' = ToolAttempts
  BY <1>1 DEF ToolAttempts, At
<1>2. CASE StartTrial
  <2>1. /\ stage \in {"idle", "recorded"} /\ stage' = "subject"
        /\ at' = "start" /\ exit' = "running" /\ UNCHANGED <<run_attempts, request, events>>
    BY <1>2 DEF StartTrial
  <2>2. exit # "running" /\ events = << >>
    BY <2>1 DEF ReceiptOK, SubjectOK
  <2>3. ToolAttempts = 0 /\ run_attempts = 1
    BY <2>2, NoAttempts DEF SubjectOK
  <2>4. QED
    BY <1>1, <2>1, <2>3 DEF SubjectOK, InTool
<1>3. CASE Timeout
  <2>1. /\ Ends("timed out") /\ events' = << >> /\ stage' = stage
    BY <1>3 DEF Timeout, harnessVars
  <2>2. ToolAttempts' = 0 /\ IsSequence(events')
    BY <2>1, NoAttempts
  <2>3. ToolAttempts' \in 0 .. 3
    BY <2>2
  <2>4. at' = "none" /\ run_attempts' = 1 /\ request' = 0 /\ exit' = "timed out"
    BY <2>1 DEF Ends
  <2>5. 0 \in 0 .. MaxRequests
    BY DaemonAssumption
  <2>6. exit' \in {"none", "zero", "one", "killed", "timed out"}
    BY <2>4
  <2>7. QED
    BY <2>1, <2>2, <2>3, <2>4, <2>5, <2>6, EndedOK
<1>4. CASE RecordTrial
  <2>1. /\ stage = "record" /\ stage' = "recorded" /\ events' = << >> /\ exit' = "none"
        /\ UNCHANGED <<at, run_attempts, request>>
    BY <1>4 DEF RecordTrial
  <2>2. ToolAttempts' = 0 /\ IsSequence(events')
    BY <2>1, NoAttempts
  <2>3. exit # "running"
    BY <2>1 DEF ReceiptOK
  <2>4. ToolAttempts' \in 0 .. 3
    BY <2>2
  <2>5. at' = "none" /\ run_attempts' = 1 /\ request' \in 0 .. MaxRequests
    BY <2>1, <2>3 DEF SubjectOK
  <2>6. QED
    BY <2>1, <2>2, <2>4, <2>5 DEF SubjectOK, InTool
<1>5. ASSUME UNCHANGED subjectVars, stage' = stage \/ stage' \notin {"idle", "recorded"}
      PROVE  SubjectOK'
  BY <1>1, <1>5 DEF subjectVars, SubjectOK, InTool
<1>6. CASE SealLedger \/ ReadDump \/ ReadRaises \/ Report
  BY <1>5, <1>6 DEF SealLedger, ReadDump, ReadRaises, Report
<1>7. CASE SubjectStep
  BY <1>7, SubjectStepOK
<1>8. CASE UNCHANGED crewVars
  BY <1>5, <1>8 DEF crewVars, subjectVars
<1>9. CASE UNCHANGED crewAllVars
  BY <1>8, <1>9 DEF crewAllVars
<1>10. QED
  BY <1>2, <1>3, <1>4, <1>6, <1>7, <1>8, <1>9 DEF CrewNext, Harness

\* What the run asks of the daemon is what any client and harness may.
LEMMA RunsDaemon ==
  ASSUME ReceiptOK, [CrewNext]_crewAllVars
  PROVE  [DaemonNext]_daemonVars
<1>1. CASE SubjectStep
  <2>1. UNCHANGED daemonVars \/ ExecuteMarker
    BY <1>1, SubjectLeavesHarness
  <2>2. ASSUME ExecuteMarker PROVE \E i \in Intents, k \in Keys \cup {NoKey}, p \in Payloads :
                                     SendExecute(i, k, p)
    <3>1. Len(receipts) \in Nat /\ Len(receipts) + 1 = epoch /\ epoch <= TrialCount
      BY <1>1, SubjectLeavesHarness, AppendToSequence DEF ReceiptOK
    <3>2. epoch \in 1 .. TrialCount
      BY <3>1, TrialCountIsNat
    <3>3. ActionId \in Intents
      BY <3>2, CrewAssumption DEF ActionId, LogicalActionId
    <3>4. SendExecute(ActionId, NoKey, Marker) /\ Marker \in Payloads
      BY <2>2, CrewAssumption DEF ExecuteMarker
    <3>5. QED
      BY <3>3, <3>4
  <2>3. QED
    BY <2>1, <2>2 DEF DaemonNext
<1>2. CASE Harness
  BY <1>2 DEF Harness, StartTrial, Timeout, SealLedger, ReadDump, ReadRaises, RecordTrial,
              Report, DaemonNext
<1>3. CASE UNCHANGED crewAllVars
  BY <1>3 DEF crewAllVars
<1>4. QED
  BY <1>1, <1>2, <1>3 DEF CrewNext, DaemonNext

CrewInv == DaemonTypeOK /\ ReceiptOK /\ SubjectOK

LEMMA CrewInvStep == CrewInv /\ [CrewNext]_crewAllVars => CrewInv'
<1> SUFFICES ASSUME CrewInv, [CrewNext]_crewAllVars PROVE CrewInv'
  OBVIOUS
<1>1. DaemonTypeOK'
  BY RunsDaemon, DaemonTypeStep DEF CrewInv
<1>2. ReceiptOK'
  BY ReceiptStep DEF CrewInv
<1>3. MaxRequests \in Nat /\ sent' \in 0 .. MaxRequests
  BY <1>1, DaemonAssumption DEF DaemonTypeOK
<1>4. SubjectOK'
  BY <1>3, SubjectInvariant DEF CrewInv
<1>5. QED
  BY <1>1, <1>2, <1>4 DEF CrewInv

LEMMA CrewInvTypes == CrewInv => CrewTypeOK
<1> SUFFICES ASSUME CrewInv PROVE CrewTypeOK
  OBVIOUS
<1>1. Len(receipts) \in Nat
  BY AppendToSequence DEF CrewInv, ReceiptOK
<1>2. Len(receipts) = epoch \/ Len(receipts) + 1 = epoch
  BY DEF CrewInv, ReceiptOK
<1>3. Len(receipts) <= epoch
  BY <1>1, <1>2
<1>4. ToolAttempts \in 0 .. 3
  BY DEF CrewInv, SubjectOK
<1>5. ToolAttempts <= MaxParsingAttempts
  BY <1>4 DEF MaxParsingAttempts
<1>6. run_attempts \in 1 .. MaxParsingAttempts + 1
  <2>1. MaxParsingAttempts + 1 = 4
    BY DEF MaxParsingAttempts
  <2>2. QED
    BY <2>1 DEF CrewInv, SubjectOK
<1>7. QED
  BY <1>3, <1>5, <1>6 DEF CrewInv, ReceiptOK, SubjectOK, CrewTypeOK

LEMMA CrewInvInit == CrewInit => CrewInv
<1> SUFFICES ASSUME CrewInit PROVE CrewInv
  OBVIOUS
<1>1. DaemonTypeOK
  <2>1. LedgerTypeOK
    BY FreshStateType DEF CrewInit, DaemonInit
  <2>2. 0 \in 0 .. MaxRequests /\ 0 \in 0 .. MaxEpochs
    BY DaemonAssumption
  <2>3. QED
    BY <2>1, <2>2 DEF CrewInit, DaemonInit, DaemonTypeOK
<1>2. ReceiptOK
  BY TrialCountIsNat DEF CrewInit, DaemonInit, ReceiptOK, IsSequence, ReceiptStands
<1>3. SubjectOK
  BY NoAttempts, DaemonAssumption DEF CrewInit, SubjectOK, InTool
<1>4. QED
  BY <1>1, <1>2, <1>3 DEF CrewInv

\* The run keeps its types, and a trial's tool is called at most three times:
\* however its calls are answered, whatever is injected, and whenever the subject
\* is killed or timed out (crewai_retry_runtime.py's attempts are CrewAI's own).
THEOREM CrewTypeCorrect == CrewSpec => []CrewTypeOK
BY CrewInvInit, CrewInvStep, CrewInvTypes, PTL DEF CrewSpec, crewAllVars
-----------------------------------------------------------------------------
(***************************************************************************)
(* What the CrewAI run certifies, for any number of trials of each case.   *)
(* A certified trial's calls add up: the event stream accounts for every   *)
(* request it sent, and the ledger for every one it acknowledged.          *)
(***************************************************************************)

\* The answers to this trial's requests, and its requests still on the wire.
Done == {a \in answers : a.req.epoch = epoch}
DoneOk == {a \in Done : a.status = "ok"}
Wired == {r \in wire : r.epoch = epoch}

Acks == Cardinality(At("effect_ack"))
EarlyFailures == {n \in At("injected_failure") : events[n].point = "before_effect"}
Early == Cardinality(EarlyFailures)

-----------------------------------------------------------------------------
(***************************************************************************)
(* Counting the events.                                                    *)
(***************************************************************************)
LEMMA EventsGrow ==
  ASSUME IsSequence(events), NEW e, events' = Append(events, e)
  PROVE  /\ Len(events) \in Nat /\ Len(events') = Len(events) + 1
         /\ \A n \in 1 .. Len(events) : events'[n] = events[n]
         /\ events'[Len(events) + 1] = e
<1>1. PICK S : events \in Seq(S)
  BY DEF IsSequence
<1>2. events \in Seq(S \cup {e}) /\ e \in S \cup {e}
  BY <1>1
<1>3. QED
  BY <1>2, AppendProperties

LEMMA EventsFinite ==
  ASSUME IsSequence(events)
  PROVE  /\ \A name : IsFiniteSet(At(name)) /\ Cardinality(At(name)) \in Nat
         /\ IsFiniteSet(EarlyFailures) /\ ToolAttempts \in Nat /\ Acks \in Nat /\ Early \in Nat
<1>1. PICK S : events \in Seq(S)
  BY DEF IsSequence
<1>2. IsFiniteSet(1 .. Len(events))
  BY <1>1, FS_Interval
<1>3. \A name : At(name) \subseteq 1 .. Len(events)
  BY DEF At
<1>4. \A name : IsFiniteSet(At(name)) /\ Cardinality(At(name)) \in Nat
  BY <1>2, <1>3, FS_Subset, FS_CardinalityType
<1>5. EarlyFailures \subseteq At("injected_failure")
  BY DEF EarlyFailures
<1>6. IsFiniteSet(EarlyFailures) /\ Early \in Nat
  BY <1>4, <1>5, FS_Subset, FS_CardinalityType DEF Early
<1>7. QED
  BY <1>4, <1>6 DEF ToolAttempts, Acks

LEMMA EmitTallies ==
  ASSUME IsSequence(events), NEW e, events' = Append(events, e)
  PROVE  /\ ToolAttempts' = ToolAttempts + (IF e.event = "tool_enter" THEN 1 ELSE 0)
         /\ Acks' = Acks + (IF e.event = "effect_ack" THEN 1 ELSE 0)
         /\ Early' = Early + (IF e.event = "injected_failure" /\ e.point = "before_effect"
                                THEN 1 ELSE 0)
<1> DEFINE last == Len(events) + 1
<1>1. /\ Len(events) \in Nat /\ Len(events') = last
      /\ \A n \in 1 .. Len(events) : events'[n] = events[n]
      /\ events'[last] = e
  BY EventsGrow
<1>2. /\ IsFiniteSet(At("effect_ack")) /\ IsFiniteSet(EarlyFailures)
      /\ ToolAttempts \in Nat /\ Acks \in Nat /\ Early \in Nat
  BY EventsFinite
<1>3. ToolAttempts' = ToolAttempts + (IF e.event = "tool_enter" THEN 1 ELSE 0)
  BY <1>2, EmitCounts
<1>4. CASE e.event = "effect_ack"
  <2>1. /\ At("effect_ack")' = At("effect_ack") \cup {last} /\ last \notin At("effect_ack")
    BY <1>1, <1>4 DEF At
  <2>2. Acks' = Acks + 1
    BY <1>2, <2>1, FS_AddElement DEF Acks
  <2>3. EarlyFailures' = EarlyFailures
    BY <1>1, <1>4 DEF EarlyFailures, At
  <2>4. QED
    BY <1>2, <1>3, <1>4, <2>2, <2>3 DEF Early
<1>5. CASE e.event = "injected_failure" /\ e.point = "before_effect"
  <2>1. At("effect_ack")' = At("effect_ack")
    BY <1>1, <1>5 DEF At
  <2>2. /\ EarlyFailures' = EarlyFailures \cup {last} /\ last \notin EarlyFailures
    BY <1>1, <1>5 DEF EarlyFailures, At
  <2>3. Early' = Early + 1
    BY <1>2, <2>2, FS_AddElement DEF Early
  <2>4. QED
    BY <1>2, <1>3, <1>5, <2>1, <2>3 DEF Acks
<1>6. CASE e.event # "effect_ack" /\ ~ (e.event = "injected_failure" /\ e.point = "before_effect")
  <2>1. At("effect_ack")' = At("effect_ack")
    BY <1>1, <1>6 DEF At
  <2>2. EarlyFailures' = EarlyFailures
    BY <1>1, <1>6 DEF EarlyFailures, At
  <2>3. QED
    BY <1>2, <1>3, <1>6, <2>1, <2>2 DEF Acks, Early
<1>7. QED
  BY <1>4, <1>5, <1>6

LEMMA EventsStand ==
  ASSUME events' = events
  PROVE  ToolAttempts' = ToolAttempts /\ Acks' = Acks /\ Early' = Early
BY DEF ToolAttempts, Acks, Early, EarlyFailures, At

LEMMA NoEvents ==
  ASSUME events = << >>
  PROVE  ToolAttempts = 0 /\ Acks = 0 /\ Early = 0
<1>1. \A name : At(name) = {}
  BY DEF At
<1>2. EarlyFailures = {}
  BY <1>1 DEF EarlyFailures
<1>3. QED
  BY <1>1, <1>2, FS_EmptySet DEF ToolAttempts, Acks, Early

-----------------------------------------------------------------------------
(***************************************************************************)
(* Whose requests there are.                                               *)
(***************************************************************************)
IsCall(r) ==
  /\ r.op = "execute" /\ r.key = NoKey /\ r.intent = r.epoch /\ r.epoch <= epoch

\* Every request is a subject's call of its own trial's action.
RequestsOK ==
  /\ \A r \in wire : IsCall(r)
  /\ \A a \in answers : IsCall(a.req) /\ a.req.epoch <= a.epoch

\* The request a subject just sent.
Call(id) == [id |-> id, op |-> "execute", intent |-> epoch, key |-> NoKey,
             payload |-> Marker, epoch |-> epoch]

LEMMA SendsCall ==
  ASSUME ExecuteMarker
  PROVE  /\ wire' = wire \cup {Call(sent + 1)} /\ sent' = sent + 1
         /\ request' = sent + 1 /\ at = "execute" /\ at' = "await"
         /\ UNCHANGED <<ledgerVars, store, sealed, answers, epoch, exit, stage, events>>
BY DEF ExecuteMarker, SendExecute, Send, Call, ActionId, LogicalActionId, Goes, Subject,
       harnessVars

LEMMA Numbers ==
  ASSUME DaemonTypeOK
  PROVE  /\ epoch \in Nat /\ sent \in Nat
         /\ \A r \in wire : r \in Request /\ r.id \in Nat /\ r.epoch \in Nat
         /\ \A a \in answers : a.req \in Request /\ a.req.id \in Nat /\ a.req.epoch \in Nat
                               /\ a.epoch \in Nat
<1>1. \A r \in Request : r.id \in Nat /\ r.epoch \in Nat
  BY DaemonAssumption DEF Request, RequestId
<1>2. \A a \in Answer : a.req \in Request /\ a.epoch \in 0 .. MaxEpochs
  BY DEF Answer
<1>3. 0 .. MaxEpochs \subseteq Nat
  BY DaemonAssumption
<1>4. QED
  BY <1>1, <1>2, <1>3, DaemonAssumption DEF DaemonTypeOK

LEMMA RequestsStep ==
  ASSUME DaemonTypeOK, RequestsOK, [CrewNext]_crewAllVars
  PROVE  RequestsOK'
<1>0. epoch \in Nat /\ \A r \in wire : r.epoch \in Nat
  BY Numbers
<1>1. CASE UNCHANGED <<wire, answers, epoch>>
  BY <1>1 DEF RequestsOK, IsCall
<1>2. CASE SubjectStep
  <2>1. UNCHANGED daemonVars \/ ExecuteMarker
    BY <1>2, SubjectLeavesHarness
  <2>2. ASSUME ExecuteMarker PROVE RequestsOK'
    <3>1. /\ Call(sent + 1).op = "execute" /\ Call(sent + 1).key = NoKey
          /\ Call(sent + 1).intent = epoch /\ Call(sent + 1).epoch = epoch
      BY DEF Call
    <3>2. IsCall(Call(sent + 1))
      BY <1>0, <3>1 DEF IsCall
    <3>3. epoch' = epoch /\ answers' = answers /\ wire' = wire \cup {Call(sent + 1)}
      BY <2>2, SendsCall
    <3>4. QED
      BY <3>2, <3>3 DEF RequestsOK, IsCall
  <2>3. QED
    BY <1>1, <2>1, <2>2 DEF daemonVars
<1>3. ASSUME epoch' = epoch + 1, wire' = wire, answers' = answers PROVE RequestsOK'
  <2>1. \A n \in Nat : n <= epoch => n <= epoch + 1
    BY <1>0
  <2>2. \A a \in answers : a.req.epoch \in Nat
    BY Numbers
  <2>3. QED
    BY <1>0, <1>3, <2>1, <2>2 DEF RequestsOK, IsCall
<1>4. ASSUME NEW req \in wire, Handle(req) PROVE RequestsOK'
  <2>1. PICK status \in {"ok", "sealed", "refused", "no response"} : Reply(req, status)
    BY <1>4, HandleSplit
  <2> DEFINE a == [req |-> req, status |-> status, epoch |-> epoch]
  <2>2. wire' = wire \ {req} /\ answers' = answers \cup {a} /\ epoch' = epoch
    BY <2>1 DEF Reply
  <2>3. a.req = req /\ a.epoch = epoch
    OBVIOUS
  <2> HIDE DEF a
  <2>4. IsCall(req) /\ req.epoch <= epoch
    BY DEF RequestsOK, IsCall
  <2>5. QED
    BY <2>2, <2>3, <2>4 DEF RequestsOK, IsCall
<1>5. CASE Harness
  BY <1>1, <1>3, <1>5 DEF Harness, StartTrial, Timeout, SealLedger, ReadDump, ReadRaises,
       RecordTrial, Report, HandleReset, HandleSeal, daemonVars
<1>6. CASE UNCHANGED crewAllVars
  BY <1>1, <1>6 DEF crewAllVars, daemonVars
<1>7. QED
  BY <1>2, <1>4, <1>5, <1>6 DEF CrewNext

-----------------------------------------------------------------------------
(***************************************************************************)
(* The calls of a trial that was not cut short add up.  Between a send and *)
(* the next event exactly one request is out; it is on the wire, or it was *)
(* answered and the tool has not looked yet.                               *)
(***************************************************************************)
Sums(pending, unheard) ==
  /\ ToolAttempts = Cardinality(Done) + Early + pending
  /\ Cardinality(DoneOk) = Acks + unheard

Waiting(r) ==
  /\ r \in wire /\ r.id = request /\ Wired = {r}
  /\ \A q \in wire : q.id = request => q = r
  /\ \A a \in answers : a.req.id # request

Heard(a) ==
  /\ a \in Done /\ a.req.id = request /\ Wired = {}
  /\ \A q \in wire : q.id # request
  /\ \A b \in answers : b.req.id = request => b = a

InFlight ==
  \/ \E r \in wire : Waiting(r) /\ Sums(1, 0)
  \/ \E a \in answers : Heard(a) /\ Sums(0, IF a.status = "ok" THEN 1 ELSE 0)

Landed ==
  Wired = {} /\ Sums(IF at \in {"before_effect", "execute"} THEN 1 ELSE 0, 0)

Counting == stage \in {"subject", "dump", "record"} /\ exit \in {"running", "zero"}

TallyOK == Counting => IF at = "await" THEN InFlight ELSE Landed

LEMMA DoneFinite ==
  ASSUME AnswersOK
  PROVE  /\ IsFiniteSet(Done) /\ IsFiniteSet(DoneOk)
         /\ Cardinality(Done) \in Nat /\ Cardinality(DoneOk) \in Nat
<1>1. Done \subseteq answers /\ DoneOk \subseteq answers
  BY DEF Done, DoneOk
<1>2. QED
  BY <1>1, FS_Subset, FS_CardinalityType DEF AnswersOK

\* Everything the tally reads of the ledger's side.
LEMMA SidesStand ==
  ASSUME UNCHANGED <<wire, answers, epoch>>
  PROVE  Done' = Done /\ DoneOk' = DoneOk /\ Wired' = Wired
BY DEF Done, DoneOk, Wired

\* A subject whose tool does not wait for an answer: the event says what changed.
LEMMA LandedStep ==
  ASSUME IsSequence(events), AnswersOK, UNCHANGED <<wire, answers, epoch>>,
         Landed, at' # "await",
         NEW e, events' = Append(events, e), e.event # "effect_ack",
         (e.event = "tool_enter") = (at' \in {"before_effect", "execute"}),
         (e.event = "injected_failure" /\ e.point = "before_effect")
           = (at \in {"before_effect", "execute"}),
         e.event = "tool_enter" => at \notin {"before_effect", "execute"}
  PROVE  Landed'
<1>1. /\ ToolAttempts' = ToolAttempts + (IF e.event = "tool_enter" THEN 1 ELSE 0)
      /\ Acks' = Acks
      /\ Early' = Early + (IF e.event = "injected_failure" /\ e.point = "before_effect"
                             THEN 1 ELSE 0)
      /\ ToolAttempts \in Nat /\ Acks \in Nat /\ Early \in Nat
  <2>1. ToolAttempts \in Nat /\ Acks \in Nat /\ Early \in Nat
    BY EventsFinite
  <2>2. QED
    BY <2>1, EmitTallies
<1>2. Wired' = {} /\ Cardinality(Done)' = Cardinality(Done)
      /\ Cardinality(DoneOk)' = Cardinality(DoneOk) /\ Cardinality(Done) \in Nat
  BY SidesStand, DoneFinite DEF Landed
<1>3. /\ ToolAttempts = Cardinality(Done) + Early
                        + (IF at \in {"before_effect", "execute"} THEN 1 ELSE 0)
      /\ Cardinality(DoneOk) = Acks + 0
  BY DEF Landed, Sums
<1>4. /\ ToolAttempts' = Cardinality(Done)' + Early'
                         + (IF at' \in {"before_effect", "execute"} THEN 1 ELSE 0)
      /\ Cardinality(DoneOk)' = Acks' + 0
  BY <1>1, <1>2, <1>3
<1>5. QED
  BY <1>2, <1>4 DEF Landed, Sums

\* The subject's steps that say something and wait for nothing.
LEMMA SubjectLands ==
  ASSUME IsSequence(events), AnswersOK, TallyOK, stage = "subject",
         WorkerStarts \/ EnterTool \/ InjectFailure \/ ReturnResult \/ KickoffEnds
  PROVE  TallyOK'
<1>1. /\ exit = "running" /\ UNCHANGED daemonVars /\ at # "await"
  BY DEF WorkerStarts, EnterTool, InjectFailure, ReturnResult, KickoffEnds, Subject, Caught
<1>2. Landed
  BY <1>1 DEF TallyOK, Counting
<1>3. UNCHANGED <<wire, answers, epoch>>
  BY <1>1 DEF daemonVars
<1>4. ASSUME Landed', at' # "await" PROVE TallyOK'
  BY <1>4 DEF TallyOK
<1>5. CASE WorkerStarts
  <2>1. PICK e : events' = Append(events, e) /\ e.event = "worker_started"
    BY <1>5 DEF WorkerStarts, Emit, Event
  <2>2. at = "start" /\ at' = "tool"
    BY <1>5 DEF WorkerStarts, Subject, Goes
  <2>3. Landed'
    BY <1>2, <1>3, <2>1, <2>2, LandedStep
  <2>4. QED
    BY <1>4, <2>2, <2>3
<1>6. CASE EnterTool
  <2>1. PICK e : events' = Append(events, e) /\ e.event = "tool_enter"
    BY <1>6 DEF EnterTool, Emit, Event
  <2>2. at = "tool" /\ at' \in {"before_effect", "execute"}
    BY <1>6 DEF EnterTool, Subject, Goes
  <2>3. Landed'
    BY <1>2, <1>3, <2>1, <2>2, LandedStep
  <2>4. QED
    BY <1>4, <2>2, <2>3
<1>7. CASE InjectFailure
  <2>1. PICK point \in {"before_effect", "after_effect_before_tool_return"} :
          Subject(point) /\ Emit("injected_failure", ToolAttempts, point) /\ Caught
    BY <1>7 DEF InjectFailure
  <2>2. PICK e : events' = Append(events, e) /\ e.event = "injected_failure" /\ e.point = point
    BY <2>1 DEF Emit, Event
  <2>3. at = point /\ at' \in {"tool", "error"}
    BY <2>1 DEF Subject, Caught
  <2>4. Landed'
    BY <1>2, <1>3, <2>2, <2>3, LandedStep
  <2>5. QED
    BY <1>4, <2>3, <2>4
<1>8. CASE ReturnResult
  <2>1. PICK e : events' = Append(events, e) /\ e.event = "tool_return"
    BY <1>8 DEF ReturnResult, Emit, Event
  <2>2. at = "return" /\ at' = "completed"
    BY <1>8 DEF ReturnResult, Subject, Goes
  <2>3. Landed'
    BY <1>2, <1>3, <2>1, <2>2, LandedStep
  <2>4. QED
    BY <1>4, <2>2, <2>3
<1>9. CASE KickoffEnds
  <2>1. PICK result \in {"completed", "error"} :
          /\ Subject(result) /\ Emit("runtime_result", ToolAttempts, result)
          /\ Ends(IF result = "completed" THEN "zero" ELSE "one")
    BY <1>9 DEF KickoffEnds
  <2>2. PICK e : events' = Append(events, e) /\ e.event = "runtime_result"
    BY <2>1 DEF Emit, Event
  <2>3. at = result /\ at' = "none"
    BY <2>1 DEF Subject, Ends
  <2>4. Landed'
    BY <1>2, <1>3, <2>2, <2>3, LandedStep
  <2>5. QED
    BY <1>4, <2>3, <2>4
<1>10. QED
  BY <1>5, <1>6, <1>7, <1>8, <1>9

\* The call goes out under a number no other request has.
LEMMA SendInFlight ==
  ASSUME DaemonTypeOK, AnswersOK, Landed, ExecuteMarker PROVE InFlight'
<1>0. PICK r : r = Call(sent + 1)
  OBVIOUS
<1>1. /\ wire' = wire \cup {r} /\ request' = sent + 1 /\ at = "execute"
      /\ UNCHANGED <<answers, epoch, events>>
  BY <1>0, SendsCall
<1>2. r.id = sent + 1 /\ r.epoch = epoch
  BY <1>0 DEF Call
<1>3. sent \in Nat /\ (\A q \in wire : q.id \in Nat) /\ \A a \in answers : a.req.id \in Nat
  BY Numbers
<1>4. /\ \A q \in wire : q.id # sent + 1
      /\ \A a \in answers : a.req.id # sent + 1
  BY <1>3 DEF AnswersOK
<1>5. Wired' = {r}
  BY <1>1, <1>2 DEF Wired, Landed
<1>6. Waiting(r)'
  <2>1. r \in wire' /\ r.id = request' /\ Wired' = {r}
    BY <1>1, <1>2, <1>5
  <2>2. \A q \in wire' : q.id = request' => q = r
    BY <1>1, <1>4
  <2>3. \A a \in answers' : a.req.id # request'
    BY <1>1, <1>4
  <2>4. QED
    BY <2>1, <2>2, <2>3 DEF Waiting
<1>7. Sums(1, 0)'
  <2>1. Sums(1, 0)
    BY <1>1 DEF Landed
  <2>2. Done' = Done /\ DoneOk' = DoneOk
    BY <1>1 DEF Done, DoneOk
  <2>3. QED
    BY <1>1, <2>1, <2>2, EventsStand DEF Sums
<1>8. QED
  BY <1>1, <1>6, <1>7 DEF InFlight

\* The tool looks at its answer.
LEMMA AnswerLands ==
  ASSUME IsSequence(events), AnswersOK, TallyOK, stage = "subject",
         Acknowledged \/ Unacknowledged
  PROVE  TallyOK'
<1>1. exit = "running" /\ at = "await" /\ UNCHANGED daemonVars
  BY DEF Acknowledged, Unacknowledged, Subject, Caught
<1>2. UNCHANGED <<wire, answers, epoch>>
  BY <1>1 DEF daemonVars
<1>3. InFlight
  BY <1>1 DEF TallyOK, Counting
<1>4. PICK b \in answers : b.req.id = request /\ (Acknowledged <=> b.status = "ok")
  <2>1. CASE Acknowledged
    BY <2>1 DEF Acknowledged, Answered
  <2>2. CASE Unacknowledged /\ ~ Acknowledged
    BY <2>2 DEF Unacknowledged
  <2>3. QED
    BY <2>1, <2>2
<1>5. PICK a \in answers : Heard(a) /\ Sums(0, IF a.status = "ok" THEN 1 ELSE 0)
  BY <1>3, <1>4 DEF InFlight, Waiting
<1>6. b = a /\ Wired = {}
  BY <1>4, <1>5 DEF Heard
<1>7. /\ Wired' = {} /\ Cardinality(Done)' = Cardinality(Done)
      /\ Cardinality(DoneOk)' = Cardinality(DoneOk)
  BY <1>2, <1>6, SidesStand
<1>8. ToolAttempts \in Nat /\ Acks \in Nat /\ Early \in Nat
  BY EventsFinite
<1>9. CASE Acknowledged
  <2>1. PICK e : events' = Append(events, e) /\ e.event = "effect_ack"
    BY <1>9 DEF Acknowledged, Emit, Event
  <2>2. at' \in {"after_effect_before_tool_return", "return"}
    BY <1>9 DEF Acknowledged, Goes
  <2>3. ToolAttempts' = ToolAttempts /\ Acks' = Acks + 1 /\ Early' = Early
    BY <1>8, <2>1, EmitTallies
  <2>4. Sums(0, 1)
    BY <1>4, <1>5, <1>6, <1>9
  <2>5. Sums(0, 0)'
    BY <1>7, <1>8, <2>3, <2>4 DEF Sums
  <2>6. QED
    BY <1>7, <2>2, <2>5 DEF TallyOK, Landed
<1>10. CASE ~ Acknowledged
  <2>1. events' = events /\ at' \in {"tool", "error"}
    BY <1>10 DEF Unacknowledged, Caught
  <2>2. ToolAttempts' = ToolAttempts /\ Acks' = Acks /\ Early' = Early
    BY <2>1, EventsStand
  <2>3. Sums(0, 0)
    BY <1>4, <1>5, <1>6, <1>10
  <2>4. Sums(0, 0)'
    BY <1>7, <1>8, <2>2, <2>3 DEF Sums
  <2>5. QED
    BY <1>7, <2>1, <2>4 DEF TallyOK, Landed
<1>11. QED
  BY <1>9, <1>10

LEMMA Shift ==
  /\ \A m, n \in Nat : m + n + 1 = (m + 1) + n + 0
  /\ \A n \in Nat : n + 0 = n
OBVIOUS

\* A handler changes the sums only by answering the request that is out.
LEMMA HandleTallies ==
  ASSUME DaemonTypeOK, AnswersOK, RequestsOK, IsSequence(events), TallyOK,
         NEW req \in wire, Handle(req), UNCHANGED crewVars
  PROVE  TallyOK'
<1>1. PICK status \in {"ok", "sealed", "refused", "no response"} : Reply(req, status)
  BY HandleSplit
<1>2. PICK a : a = [req |-> req, status |-> status, epoch |-> epoch]
  OBVIOUS
<1>3. /\ a.req = req /\ a.status = status
      /\ wire' = wire \ {req} /\ answers' = answers \cup {a} /\ epoch' = epoch
  BY <1>1, <1>2 DEF Reply
<1>4. UNCHANGED <<stage, at, exit, request, events>>
  BY DEF crewVars
<1>5. ToolAttempts' = ToolAttempts /\ Acks' = Acks /\ Early' = Early
  BY <1>4, EventsStand
<1>6. SUFFICES ASSUME Counting PROVE IF at = "await" THEN InFlight' ELSE Landed'
  BY <1>4 DEF TallyOK, Counting
<1>7. a \notin answers
  BY <1>3 DEF AnswersOK
<1>8. IsFiniteSet(Done) /\ IsFiniteSet(DoneOk)
      /\ Cardinality(Done) \in Nat /\ Cardinality(DoneOk) \in Nat
  BY DoneFinite
<1>9. ASSUME req.epoch # epoch PROVE Done' = Done /\ DoneOk' = DoneOk /\ Wired' = Wired
  BY <1>3, <1>9 DEF Done, DoneOk, Wired
<1>10. CASE at # "await"
  <2>1. Landed
    BY <1>6, <1>10 DEF TallyOK
  <2>2. req.epoch # epoch
    BY <2>1 DEF Landed, Wired
  <2>3. QED
    BY <1>4, <1>5, <1>9, <1>10, <2>1, <2>2 DEF Landed, Sums
<1>11. CASE at = "await"
  <2>1. InFlight
    BY <1>6, <1>11 DEF TallyOK
  <2>2. ASSUME NEW b \in answers, Heard(b), Sums(0, IF b.status = "ok" THEN 1 ELSE 0)
        PROVE  InFlight'
    <3>1. req.epoch # epoch /\ req.id # request
      BY <2>2 DEF Heard, Wired
    <3>2. Done' = Done /\ DoneOk' = DoneOk /\ Wired' = Wired
      BY <1>9, <3>1
    <3>3. b \in Done' /\ b.req.id = request' /\ Wired' = {}
      BY <1>4, <2>2, <3>2 DEF Heard
    <3>4. \A q \in wire' : q.id # request'
      BY <1>3, <1>4, <2>2 DEF Heard
    <3>5. \A c \in answers' : c.req.id = request' => c = b
      BY <1>3, <1>4, <2>2, <3>1 DEF Heard
    <3>6. Heard(b)'
      BY <3>3, <3>4, <3>5 DEF Heard
    <3>7. Sums(0, IF b.status = "ok" THEN 1 ELSE 0)'
      BY <1>5, <2>2, <3>2 DEF Sums
    <3>8. b \in answers'
      BY <1>3
    <3>9. QED
      BY <3>6, <3>7, <3>8 DEF InFlight
  <2>3. ASSUME NEW r \in wire, Waiting(r), Sums(1, 0), r # req PROVE InFlight'
    <3>1. req.epoch # epoch /\ req.id # request
      BY <2>3 DEF Waiting, Wired
    <3>2. Done' = Done /\ DoneOk' = DoneOk /\ Wired' = Wired
      BY <1>9, <3>1
    <3>3. r \in wire' /\ r.id = request' /\ Wired' = {r}
      BY <1>3, <1>4, <2>3, <3>2 DEF Waiting
    <3>4. \A q \in wire' : q.id = request' => q = r
      BY <1>3, <1>4, <2>3 DEF Waiting
    <3>5. \A c \in answers' : c.req.id # request'
      BY <1>3, <1>4, <2>3, <3>1 DEF Waiting
    <3>6. Waiting(r)'
      BY <3>3, <3>4, <3>5 DEF Waiting
    <3>7. Sums(1, 0)'
      BY <1>5, <2>3, <3>2 DEF Sums
    <3>8. QED
      BY <3>3, <3>6, <3>7 DEF InFlight
  <2>4. ASSUME Waiting(req), Sums(1, 0) PROVE InFlight'
    <3>1. req.epoch = epoch /\ req.id = request /\ Wired = {req}
      BY <2>4 DEF Waiting, Wired
    <3>2. Done' = Done \cup {a} /\ a \notin Done /\ Wired' = {}
      BY <1>3, <1>7, <3>1 DEF Done, Wired
    <3>3. Cardinality(Done)' = Cardinality(Done) + 1
      BY <1>8, <3>2, FS_AddElement
    <3>4. /\ a.status = "ok" => Cardinality(DoneOk)' = Cardinality(DoneOk) + 1
          /\ a.status # "ok" => Cardinality(DoneOk)' = Cardinality(DoneOk)
      <4>1. ASSUME a.status = "ok"
            PROVE  Cardinality(DoneOk)' = Cardinality(DoneOk) + 1
        <5>1. DoneOk' = DoneOk \cup {a} /\ a \notin DoneOk
          BY <3>2, <4>1 DEF DoneOk
        <5>2. QED
          BY <1>8, <5>1, FS_AddElement
      <4>2. ASSUME a.status # "ok" PROVE Cardinality(DoneOk)' = Cardinality(DoneOk)
        <5>1. DoneOk' = DoneOk
          BY <3>2, <4>2 DEF DoneOk
        <5>2. QED
          BY <5>1
      <4>3. QED
        BY <4>1, <4>2
    <3>5. Heard(a)'
      <4>1. a \in Done' /\ a.req.id = request' /\ Wired' = {}
        BY <1>3, <1>4, <3>1, <3>2
      <4>2. \A q \in wire' : q.id # request'
        BY <1>3, <1>4, <2>4 DEF Waiting
      <4>3. \A c \in answers' : c.req.id = request' => c = a
        BY <1>3, <1>4, <2>4 DEF Waiting
      <4>4. QED
        BY <4>1, <4>2, <4>3 DEF Heard
    <3>7. Sums(0, IF a.status = "ok" THEN 1 ELSE 0)'
      <4>1. ToolAttempts = Cardinality(Done) + Early + 1 /\ Cardinality(DoneOk) = Acks + 0
        BY <2>4 DEF Sums
      <4>2. Early \in Nat /\ Acks \in Nat
        BY EventsFinite
      <4>3. ToolAttempts' = Cardinality(Done)' + Early' + 0
        <5>1. Cardinality(Done) + Early + 1 = (Cardinality(Done) + 1) + Early + 0
          BY <1>8, <4>2, Shift
        <5>2. QED
          BY <1>5, <3>3, <4>1, <5>1
      <4>4. CASE a.status = "ok"
        <5>1. Acks + 0 = Acks
          BY <4>2, Shift
        <5>2. Cardinality(DoneOk)' = Acks' + 1
          BY <1>5, <3>4, <4>1, <4>4, <5>1
        <5>3. QED
          BY <4>3, <4>4, <5>2 DEF Sums
      <4>5. CASE a.status # "ok"
        <5>1. Cardinality(DoneOk)' = Acks' + 0
          BY <1>5, <3>4, <4>1, <4>5
        <5>2. QED
          BY <4>3, <4>5, <5>1 DEF Sums
      <4>6. QED
        BY <4>4, <4>5
    <3>8. a \in answers'
      BY <1>3
    <3>9. QED
      BY <3>5, <3>7, <3>8 DEF InFlight
  <2>5. QED
    BY <1>11, <2>1, <2>2, <2>3, <2>4 DEF InFlight
<1>12. QED
  BY <1>10, <1>11

LEMMA TallyStep ==
  ASSUME CrewInv, AnswersOK, RequestsOK, TallyOK, [CrewNext]_crewAllVars
  PROVE  TallyOK'
<1>1. IsSequence(events) /\ DaemonTypeOK /\ (exit = "running" => stage = "subject")
  BY DEF CrewInv, SubjectOK, ReceiptOK
<1>2. ASSUME UNCHANGED <<wire, answers, epoch, subjectVars>>, Counting' => Counting
      PROVE  TallyOK'
  <2>1. UNCHANGED <<wire, answers, epoch, at, exit, request, events>>
    BY <1>2 DEF subjectVars
  <2>2. Counting' => Counting
    BY <1>2
  <2>3. Done' = Done /\ DoneOk' = DoneOk /\ Wired' = Wired
    BY <2>1, SidesStand
  <2>4. ToolAttempts' = ToolAttempts /\ Acks' = Acks /\ Early' = Early
    BY <2>1, EventsStand
  <2>5. \A p, u : Sums(p, u) => /\ ToolAttempts' = Cardinality(Done)' + Early' + p
                                /\ Cardinality(DoneOk)' = Acks' + u
    BY <2>3, <2>4 DEF Sums
  <2>6. QED
    BY <2>1, <2>2, <2>3, <2>5 DEF TallyOK, InFlight, Landed, Waiting, Heard, Sums
<1>3. CASE SubjectStep
  <2>1. exit = "running" /\ stage = "subject" /\ stage' = stage
    BY <1>1, <1>3, SubjectLeavesHarness DEF harnessVars
  <2>2. CASE ExecuteMarker
    <3>1. at = "execute" /\ at' = "await"
      BY <2>2, SendsCall
    <3>2. Landed
      BY <2>1, <3>1 DEF TallyOK, Counting
    <3>3. QED
      BY <1>1, <2>2, <3>1, <3>2, SendInFlight DEF TallyOK
  <2>3. CASE SubjectDies
    BY <2>3 DEF SubjectDies, Ends, TallyOK, Counting
  <2>4. QED
    BY <1>1, <1>3, <2>1, <2>2, <2>3, SubjectLands, AnswerLands DEF SubjectStep
<1>4. CASE StartTrial
  <2>1. /\ epoch' = epoch + 1 /\ wire' = wire /\ answers' = answers /\ events' = events
        /\ stage \in {"idle", "recorded"} /\ at' = "start"
    BY <1>4 DEF StartTrial, HandleReset
  <2>2. events = << >>
    BY <2>1 DEF CrewInv, SubjectOK
  <2>3. ToolAttempts' = 0 /\ Acks' = 0 /\ Early' = 0
    BY <2>1, <2>2, NoEvents, EventsStand
  <2>4. epoch \in Nat /\ (\A r \in wire : r.epoch \in Nat) /\ \A a \in answers : a.req.epoch \in Nat
    BY <1>1, Numbers
  <2>5. /\ \A r \in wire : r.epoch # epoch + 1
        /\ \A a \in answers : a.req.epoch # epoch + 1
    BY <2>4 DEF RequestsOK, IsCall
  <2>6. Done' = {} /\ DoneOk' = {} /\ Wired' = {}
    BY <2>1, <2>5 DEF Done, DoneOk, Wired
  <2>7. Sums(0, 0)'
    BY <2>3, <2>6, FS_EmptySet DEF Sums
  <2>8. QED
    BY <2>1, <2>6, <2>7 DEF TallyOK, Landed
<1>5. CASE Timeout
  BY <1>5 DEF Timeout, Ends, TallyOK, Counting
<1>6. CASE SealLedger \/ ReadDump
  <2>1. /\ UNCHANGED <<wire, answers, epoch, subjectVars>>
        /\ stage \in {"subject", "dump"} /\ stage' \in {"dump", "record"}
    BY <1>6 DEF SealLedger, ReadDump, HandleSeal, daemonVars
  <2>2. Counting' => Counting
    BY <2>1 DEF Counting, subjectVars
  <2>3. QED
    BY <1>2, <2>1, <2>2
<1>7. CASE RecordTrial \/ ReadRaises \/ Report
  BY <1>7 DEF RecordTrial, ReadRaises, Report, TallyOK, Counting
<1>8. ASSUME NEW req \in wire, Handle(req), UNCHANGED crewVars PROVE TallyOK'
  BY <1>1, <1>8, HandleTallies
<1>9. CASE UNCHANGED crewAllVars
  BY <1>2, <1>9 DEF crewAllVars, crewVars, subjectVars, daemonVars, Counting
<1>10. QED
  BY <1>3, <1>4, <1>5, <1>6, <1>7, <1>8, <1>9 DEF CrewNext, Harness

-----------------------------------------------------------------------------
(***************************************************************************)
(* The lines of the file are the executes that were acknowledged.          *)
(***************************************************************************)
OkAt(i) == {a \in answers : a.epoch = epoch /\ a.req.intent = i /\ a.status = "ok"}
LinesOf(i) == {n \in 1 .. Len(store) : store[n].record.intent_id = i}

LinesOK == TornLine \/ \A i \in Intents : Cardinality(LinesOf(i)) = Cardinality(OkAt(i))

\* What a handler writes, by its answer.
LEMMA HandleWrites ==
  ASSUME NEW req, Handle(req)
  PROVE  \E status \in {"ok", "sealed", "refused", "no response"} :
           /\ Reply(req, status)
           /\ IF status = "ok"
                THEN \E line : /\ line.record.intent_id = req.intent
                               /\ store' = WriteLine(line)
                ELSE store' \in {store, WriteLine(Torn)}
<1>1. CASE HandleExecute(req)
  <2> DEFINE record == ExecuteRecord(req.intent, req.key, req.payload)
             line == Entry(count, head, record)
  <2>1. store' = WriteLine(line) /\ Reply(req, "ok")
    BY <1>1 DEF HandleExecute, Execute
  <2>2. line.record.intent_id = req.intent
    BY DEF Entry, ExecuteRecord
  <2> HIDE DEF line
  <2>3. QED
    BY <2>1, <2>2
<1>2. CASE HandleSealed(req)
  BY <1>2 DEF HandleSealed
<1>3. CASE HandleUnhashable(req)
  BY <1>3 DEF HandleUnhashable, ExecuteUnhashable
<1>4. CASE HandleAppendFails(req)
  BY <1>4 DEF HandleAppendFails, ExecuteAppendFails
<1>5. CASE HandleUnprivileged(req)
  BY <1>5 DEF HandleUnprivileged
<1>6. QED
  BY <1>1, <1>2, <1>3, <1>4, <1>5 DEF Handle

LEMMA WriteCounts ==
  ASSUME store \in Seq(Line), NEW line, store' = WriteLine(line), ~ TornLine'
  PROVE  /\ ~ TornLine
         /\ \A i : /\ line.record.intent_id = i =>
                        Cardinality(LinesOf(i))' = Cardinality(LinesOf(i)) + 1
                   /\ line.record.intent_id # i =>
                        Cardinality(LinesOf(i))' = Cardinality(LinesOf(i))
<1>1. ~ TornLine /\ store' = Append(store, line)
  <2>1. CASE store # << >> /\ store[Len(store)] = Torn
    <3>1. Len(store) \in 1 .. Len(store) /\ store' = store
      BY <2>1 DEF WriteLine
    <3>2. QED
      BY <2>1, <3>1 DEF TornLine
  <2>2. CASE ~ (store # << >> /\ store[Len(store)] = Torn)
    <3>1. store' = Append(store, line)
      BY <2>2 DEF WriteLine
    <3>2. Len(store') = Len(store) + 1 /\ \A n \in 1 .. Len(store) : store'[n] = store[n]
      BY <3>1
    <3>3. QED
      BY <3>1, <3>2 DEF TornLine
  <2>3. QED
    BY <2>1, <2>2
<1> DEFINE last == Len(store) + 1
<1>2. /\ Len(store) \in Nat /\ Len(store') = last /\ store'[last] = line
      /\ \A n \in 1 .. Len(store) : store'[n] = store[n]
  BY <1>1
<1>3. ASSUME NEW i
      PROVE  /\ line.record.intent_id = i =>
                  Cardinality(LinesOf(i))' = Cardinality(LinesOf(i)) + 1
             /\ line.record.intent_id # i =>
                  Cardinality(LinesOf(i))' = Cardinality(LinesOf(i))
  <2>1. IsFiniteSet(LinesOf(i)) /\ Cardinality(LinesOf(i)) \in Nat
    <3>1. IsFiniteSet(1 .. Len(store)) /\ LinesOf(i) \subseteq 1 .. Len(store)
      BY <1>2, FS_Interval DEF LinesOf
    <3>2. QED
      BY <3>1, FS_Subset, FS_CardinalityType
  <2>2. CASE line.record.intent_id = i
    <3>1. LinesOf(i)' = LinesOf(i) \cup {last} /\ last \notin LinesOf(i)
      BY <1>2, <2>2 DEF LinesOf
    <3>2. Cardinality(LinesOf(i))' = Cardinality(LinesOf(i)) + 1
      BY <2>1, <3>1, FS_AddElement
    <3>3. QED
      BY <2>2, <3>2
  <2>3. CASE line.record.intent_id # i
    <3>1. LinesOf(i)' = LinesOf(i)
      BY <1>2, <2>3 DEF LinesOf
    <3>2. QED
      BY <2>1, <2>3, <3>1
  <2>4. QED
    BY <2>2, <2>3
<1>4. QED
  BY <1>1, <1>3

LEMMA TornWritten ==
  ASSUME store \in Seq(Line), store' = WriteLine(Torn) PROVE TornLine'
<1>1. CASE store # << >> /\ store[Len(store)] = Torn
  <2>1. store' = store /\ Len(store) \in 1 .. Len(store)
    BY <1>1 DEF WriteLine
  <2>2. QED
    BY <1>1, <2>1 DEF TornLine
<1>2. CASE ~ (store # << >> /\ store[Len(store)] = Torn)
  <2>1. store' = Append(store, Torn)
    BY <1>2 DEF WriteLine
  <2>2. store'[Len(store) + 1] = Torn /\ Len(store) + 1 \in 1 .. Len(store')
    BY <2>1
  <2>3. QED
    BY <2>2 DEF TornLine
<1>3. QED
  BY <1>1, <1>2

LEMMA LinesStep ==
  ASSUME DaemonTypeOK, AnswersOK, LinesOK, [DaemonNext]_daemonVars
  PROVE  LinesOK'
<1>1. CASE UNCHANGED <<store, answers, epoch>>
  BY <1>1 DEF LinesOK, TornLine, LinesOf, OkAt
<1>2. ASSUME NEW req \in wire, Handle(req) PROVE LinesOK'
  <2>1. PICK status \in {"ok", "sealed", "refused", "no response"} :
          /\ Reply(req, status)
          /\ IF status = "ok"
               THEN \E line : line.record.intent_id = req.intent /\ store' = WriteLine(line)
               ELSE store' \in {store, WriteLine(Torn)}
    BY <1>2, HandleWrites
  <2>2. PICK a : a = [req |-> req, status |-> status, epoch |-> epoch]
    OBVIOUS
  <2>3. /\ a.req = req /\ a.status = status /\ a.epoch = epoch
        /\ answers' = answers \cup {a} /\ epoch' = epoch /\ a \notin answers
    BY <2>1, <2>2 DEF Reply, AnswersOK
  <2>4. SUFFICES ASSUME ~ TornLine', NEW i \in Intents
                 PROVE  Cardinality(LinesOf(i))' = Cardinality(OkAt(i))'
    BY DEF LinesOK
  <2>5. store \in Seq(Line)
    BY DEF DaemonTypeOK, LedgerTypeOK
  <2>6. IsFiniteSet(OkAt(i)) /\ Cardinality(OkAt(i)) \in Nat
    <3>1. OkAt(i) \subseteq answers
      BY DEF OkAt
    <3>2. QED
      BY <3>1, FS_Subset, FS_CardinalityType DEF AnswersOK
  <2>7. CASE status = "ok"
    <3>1. PICK line : line.record.intent_id = req.intent /\ store' = WriteLine(line)
      BY <2>1, <2>7
    <3>2. /\ ~ TornLine
          /\ req.intent = i => Cardinality(LinesOf(i))' = Cardinality(LinesOf(i)) + 1
          /\ req.intent # i => Cardinality(LinesOf(i))' = Cardinality(LinesOf(i))
      BY <2>4, <2>5, <3>1, WriteCounts
    <3>3. Cardinality(LinesOf(i)) = Cardinality(OkAt(i))
      BY <3>2 DEF LinesOK
    <3>4. CASE req.intent = i
      <4>1. OkAt(i)' = OkAt(i) \cup {a} /\ a \notin OkAt(i)
        BY <2>3, <2>7, <3>4 DEF OkAt
      <4>2. Cardinality(OkAt(i))' = Cardinality(OkAt(i)) + 1
        BY <2>6, <4>1, FS_AddElement
      <4>3. QED
        BY <3>2, <3>3, <3>4, <4>2
    <3>5. CASE req.intent # i
      <4>1. OkAt(i)' = OkAt(i)
        BY <2>3, <3>5 DEF OkAt
      <4>2. QED
        BY <3>2, <3>3, <3>5, <4>1
    <3>6. QED
      BY <3>4, <3>5
  <2>8. CASE status # "ok"
    <3>1. OkAt(i)' = OkAt(i)
      BY <2>3, <2>8 DEF OkAt
    <3>2. store' = store
      <4>1. store' = WriteLine(Torn) => TornLine'
        BY <2>5, TornWritten
      <4>2. QED
        BY <2>1, <2>4, <2>8, <4>1
    <3>3. ~ TornLine /\ LinesOf(i)' = LinesOf(i)
      BY <2>4, <3>2 DEF TornLine, LinesOf
    <3>4. QED
      BY <3>1, <3>3 DEF LinesOK
  <2>9. QED
    BY <2>7, <2>8
<1>3. CASE HandleReset
  <2>1. store' = << >> /\ epoch' = epoch + 1 /\ answers' = answers
    BY <1>3 DEF HandleReset, NewState
  <2>2. epoch \in Nat /\ \A a \in answers : a.epoch \in Nat /\ a.epoch <= epoch
    BY Numbers DEF AnswersOK
  <2>3. \A a \in answers : a.epoch # epoch + 1
    BY <2>2
  <2>4. \A i : LinesOf(i)' = {} /\ OkAt(i)' = {}
    BY <2>1, <2>3 DEF LinesOf, OkAt
  <2>5. QED
    BY <2>4 DEF LinesOK
<1>4. QED
  BY <1>1, <1>2, <1>3
     DEF DaemonNext, SendExecute, SendControl, Send, HandleSeal, daemonVars

-----------------------------------------------------------------------------
(***************************************************************************)
(* The certificate.                                                        *)
(***************************************************************************)
LEMMA Thirds ==
  ASSUME NEW k \in Nat \ {0}, NEW m \in Nat, m < k * 3
  PROVE  1 + m \div k \in 1 .. 3
<1>1. m \div k \in Int /\ k * (m \div k) <= m /\ m < k * (m \div k) + k
  OBVIOUS
<1>2. m \div k >= 0
  OBVIOUS
<1>3. m \div k < 3
  <2>1. ASSUME NEW q \in Int, q >= 3 PROVE k * q >= k * 3
    BY <2>1
  <2>2. QED
    BY <1>1, <2>1
<1>4. QED
  BY <1>1, <1>2, <1>3

LEMMA CaseKnown ==
  ASSUME NEW n \in 1 .. TrialCount
  PROVE  CaseOf(n) \in {"clean", "pre_effect", "post_effect"}
<1>1. K \in Nat \ {0} /\ TrialCount = K * 3
  BY CrewAssumption DEF TrialCount, Cases
<1>2. n - 1 \in Nat /\ n - 1 < K * 3
  BY <1>1
<1>3. 1 + (n - 1) \div K \in 1 .. 3
  BY <1>1, <1>2, Thirds
<1>4. QED
  BY <1>3 DEF CaseOf, Cases

\* What a validated stream says of the tallies.
LEMMA ShownTallies ==
  ASSUME IsSequence(events), InjectionShown,
         Case \in {"clean", "pre_effect", "post_effect"}
  PROVE  /\ Case = "clean" => ToolAttempts = 1 /\ Acks = 1 /\ Early = 0
         /\ Case = "pre_effect" => ToolAttempts = 2 /\ Acks = 1 /\ Early = 1
         /\ Case = "post_effect" => ToolAttempts = 2 /\ Acks = 2 /\ Early = 0
<1>1. /\ \A name : IsFiniteSet(At(name)) /\ Cardinality(At(name)) \in Nat
      /\ IsFiniteSet(EarlyFailures) /\ Early \in Nat
  BY EventsFinite
<1>2. EarlyFailures \subseteq At("injected_failure")
  BY DEF EarlyFailures
<1>3. /\ Early <= Cardinality(At("injected_failure"))
      /\ Early = Cardinality(At("injected_failure")) => EarlyFailures = At("injected_failure")
  BY <1>1, <1>2, FS_Subset DEF Early
<1>4. CASE Case = "clean"
  <2>1. ToolAttempts = 1 /\ At("injected_failure") = {} /\ Acks = 1
    BY <1>4 DEF InjectionShown, Acks
  <2>2. Early = 0
    BY <1>2, <2>1, FS_EmptySet DEF Early
  <2>3. QED
    BY <1>4, <2>1, <2>2
<1>5. CASE Case = "pre_effect"
  <2>1. /\ ToolAttempts = 2 /\ Cardinality(At("injected_failure")) = 1 /\ Acks = 1
        /\ \E i \in At("injected_failure") : events[i].point = "before_effect"
    BY <1>5 DEF InjectionShown, Acks, Happened
  <2>2. EarlyFailures # {}
    BY <2>1 DEF EarlyFailures
  <2>3. Early # 0
    BY <1>1, <2>2, FS_EmptySet DEF Early
  <2>4. Early = 1
    BY <1>1, <1>3, <2>1, <2>3
  <2>5. QED
    BY <1>5, <2>1, <2>4
<1>6. CASE Case = "post_effect"
  <2>1. /\ ToolAttempts = 2 /\ Cardinality(At("injected_failure")) = 1 /\ Acks = 2
        /\ \E i \in At("injected_failure") :
             events[i].point = "after_effect_before_tool_return"
    BY <1>6 DEF InjectionShown, Acks, Happened
  <2>2. EarlyFailures # At("injected_failure")
    BY <2>1 DEF EarlyFailures
  <2>3. Early = 0
    BY <1>1, <1>3, <2>1, <2>2
  <2>4. QED
    BY <1>6, <2>1, <2>3
<1>7. QED
  BY <1>4, <1>5, <1>6

DumpOK == stage = "record" => dump = Dump

TalliedInv ==
  /\ CrewInv /\ AnswersOK /\ CountedOK /\ CrossingsAgree /\ StoreOnChain
  /\ RequestsOK /\ LinesOK /\ DumpOK /\ TallyOK

\* A certified trial sent nothing it was not told of, so the ledger counts what
\* the tool acknowledged and the file holds a line for each.
LEMMA CertifiedCounts ==
  ASSUME TalliedInv, stage = "record", ~ TornLine, ObservationComplete
  PROVE  /\ epoch \in Intents /\ epoch \in 1 .. TrialCount
         /\ side_effects[epoch] = Acks
         /\ Cardinality(EffectIds(store)) = Acks
<1>1. epoch \in 1 .. TrialCount /\ epoch \in Intents
  <2>1. Len(receipts) \in Nat /\ Len(receipts) + 1 = epoch /\ epoch <= TrialCount
    BY AppendToSequence DEF TalliedInv, CrewInv, ReceiptOK
  <2>2. epoch \in 1 .. TrialCount
    BY <2>1, TrialCountIsNat
  <2>3. QED
    BY <2>2, CrewAssumption
<1>2. Case \in {"clean", "pre_effect", "post_effect"}
  BY <1>1, CaseKnown DEF Case
<1>3. IsSequence(events) /\ exit = "zero" /\ at = "none" /\ InjectionShown
  BY DEF ObservationComplete, TalliedInv, CrewInv, SubjectOK
<1>4. Landed
  BY <1>3 DEF TalliedInv, TallyOK, Counting
<1>5. ToolAttempts = Cardinality(Done) + Early + 0 /\ Cardinality(DoneOk) = Acks + 0
  BY <1>3, <1>4 DEF Landed, Sums
<1>6. /\ IsFiniteSet(Done) /\ IsFiniteSet(DoneOk)
      /\ Cardinality(Done) \in Nat /\ Cardinality(DoneOk) \in Nat
  BY DoneFinite DEF TalliedInv
<1>7. Acks \in Nat /\ Cardinality(Done) = Acks /\ Cardinality(DoneOk) = Acks
  BY <1>2, <1>3, <1>5, <1>6, ShownTallies, EventsFinite
<1>8. Done = DoneOk
  <2>1. DoneOk \in SUBSET Done
    BY DEF DoneOk
  <2>2. QED
    BY <1>6, <1>7, <2>1, FS_Subset
<1>9. DaemonTypeOK /\ AnswersOK /\ RequestsOK
  BY DEF TalliedInv, CrewInv
<1>10. ASSUME NEW a \in answers
       PROVE  a \in Done <=> a.epoch = epoch /\ a.req.intent = epoch
  <2>1. /\ a.req.intent = a.req.epoch /\ a.req.epoch <= a.epoch /\ a.epoch <= epoch
        /\ a.req.epoch <= epoch
    BY <1>9 DEF RequestsOK, IsCall, AnswersOK
  <2>2. epoch \in Nat /\ a.epoch \in Nat /\ a.req.epoch \in Nat
    BY <1>9, Numbers
  <2>3. a.req.epoch = epoch => a.epoch = epoch
    BY <2>1, <2>2
  <2>4. QED
    BY <2>1, <2>3 DEF Done
<1>11. OkAt(epoch) = Done
  BY <1>8, <1>10 DEF OkAt, DoneOk, Done
<1>12. ExecutedNow(epoch, NoKey) = Done
  <2>1. \A a \in Done : a.status = "ok" /\ a.req.key = NoKey
    BY <1>8, <1>9 DEF DoneOk, Done, RequestsOK, IsCall
  <2>2. ASSUME NEW a \in answers
        PROVE  a \in ExecutedNow(epoch, NoKey) <=> a \in Done
    BY <1>10, <2>1 DEF ExecutedNow
  <2>3. ExecutedNow(epoch, NoKey) \subseteq answers /\ Done \subseteq answers
    BY DEF ExecutedNow, Done
  <2>4. QED
    BY <2>2, <2>3
<1>13. Cardinality(EffectIds(store)) = Acks
  <2>1. EffectIds(store) = LinesOf(epoch)
    BY DEF EffectIds, LinesOf, ActionId, LogicalActionId
  <2>2. Cardinality(LinesOf(epoch)) = Cardinality(OkAt(epoch))
    BY <1>1 DEF TalliedInv, LinesOK
  <2>3. QED
    BY <1>7, <1>11, <2>1, <2>2
<1>14. side_effects[epoch] = Acks
  <2>1. \A k \in Keys : ExecutedNow(epoch, k) = {}
    BY <1>9, KeyAssumption DEF ExecutedNow, RequestsOK, IsCall
  <2>2. seen_keys[epoch] = {}
    <3>1. seen_keys[epoch] \subseteq Keys
      BY <1>1, <1>9 DEF DaemonTypeOK, LedgerTypeOK
    <3>2. CountedAt(epoch)
      BY <1>1 DEF TalliedInv, CountedOK
    <3>3. QED
      BY <2>1, <3>1, <3>2 DEF CountedAt
  <2>3. effect_keys[epoch] \in Seq(Keys \cup {NoKey})
    BY <1>1, <1>9 DEF DaemonTypeOK, LedgerTypeOK
  <2>4. /\ Len(effect_keys[epoch]) = side_effects[epoch]
        /\ seen_keys[epoch]
             = {effect_keys[epoch][n] : n \in 1 .. Len(effect_keys[epoch])} \ {NoKey}
    BY <1>1 DEF TalliedInv, CrossingsAgree
  <2>5. NoKeyCrossings(effect_keys[epoch]) = 1 .. Len(effect_keys[epoch])
    <3>1. \A n \in 1 .. Len(effect_keys[epoch]) : effect_keys[epoch][n] = NoKey
      BY <2>2, <2>4
    <3>2. DOMAIN effect_keys[epoch] = 1 .. Len(effect_keys[epoch])
      BY <2>3
    <3>3. QED
      BY <3>1, <3>2 DEF NoKeyCrossings
  <2>6. Cardinality(1 .. Len(effect_keys[epoch])) = Len(effect_keys[epoch])
    BY <2>3, FS_Interval
  <2>7. Cardinality(NoKeyCrossings(effect_keys[epoch])) = Cardinality(Done)
    BY <1>1, <1>12 DEF TalliedInv, CountedOK, CountedAt
  <2>8. QED
    BY <1>7, <2>4, <2>5, <2>6, <2>7
<1>15. QED
  BY <1>1, <1>13, <1>14

LEMMA WholeVerifies ==
  ASSUME StoreOnChain, ~ TornLine PROVE Verify(store) = "ok"
<1> DEFINE bad == {n \in 1 .. Len(store) : /\ \A m \in 1 .. n - 1 : LineOnChain(store, m)
                                           /\ ~ LineOnChain(store, n)}
<1>1. bad = {}
  BY DEF StoreOnChain, TornLine
<1> HIDE DEF bad
<1>2. Verify(store) = CASE bad = {} -> "ok"
                        [] \E n \in bad : store[n] = Torn -> "raises"
                        [] OTHER -> "broken"
  BY DEF Verify, bad
<1>3. QED
  BY <1>1, <1>2

\* All payloads are the marker, so two crossings are duplicates.
LEMMA CertifiedClass ==
  ASSUME TalliedInv, stage = "record", ~ TornLine, ObservationComplete
  PROVE  /\ Acks = 1 => Classify(ActionId, dump, store) = "exactly_once"
         /\ Acks = 2 => Classify(ActionId, dump, store) = "duplicated"
         /\ dump.side_effects[ActionId] = Acks
<1>1. epoch \in Intents /\ side_effects[epoch] = Acks /\ ActionId = epoch
  BY CertifiedCounts DEF ActionId, LogicalActionId
<1>2. Verify(store) = "ok"
  BY WholeVerifies DEF TalliedInv
<1>3. /\ dump.side_effects[ActionId] = Acks
      /\ dump.effect_digests[ActionId] = effect_digests[epoch]
  BY <1>1 DEF TalliedInv, DumpOK, Dump
<1>4. Len(effect_digests[epoch]) = Acks
  BY <1>1 DEF TalliedInv, CrossingsAgree
<1>5. effect_digests[epoch] \in Seq({Marker})
  BY <1>1, CrewAssumption DEF TalliedInv, CrewInv, DaemonTypeOK, LedgerTypeOK
<1>6. Acks = 1 => Classify(ActionId, dump, store) = "exactly_once"
  BY <1>2, <1>3 DEF Classify
<1>7. ASSUME Acks = 2 PROVE Classify(ActionId, dump, store) = "duplicated"
  <2>1. \A m \in 1 .. Len(effect_digests[epoch]) : effect_digests[epoch][m] = Marker
    BY <1>5
  <2>2. CrossingOutcome(effect_digests[epoch]) = "duplicated"
    BY <1>4, <1>7, <2>1 DEF CrossingOutcome
  <2>3. QED
    BY <1>2, <1>3, <1>4, <1>7, <2>2 DEF Classify
<1>8. QED
  BY <1>3, <1>6, <1>7

GoodReceipt(r) ==
  r.complete => /\ r.passed
                /\ r.acknowledged = r.observed.effect_count
                /\ r.effect_ids = r.observed.effect_count

LEMMA RecordsGood ==
  ASSUME TalliedInv, stage = "record", ~ TornLine PROVE GoodReceipt(Receipt)
<1>1. SUFFICES ASSUME ObservationComplete PROVE GoodReceipt(Receipt)
  BY DEF GoodReceipt, Receipt
<1>2. Case \in {"clean", "pre_effect", "post_effect"}
  BY <1>1, CertifiedCounts, CaseKnown DEF Case
<1>3. IsSequence(events) /\ InjectionShown
  BY <1>1 DEF ObservationComplete, TalliedInv, CrewInv, SubjectOK
<1>4. PICK class : class = Classify(ActionId, dump, store)
  OBVIOUS
<1>5. /\ Case = "clean" => ToolAttempts = 1 /\ Acks = 1 /\ class = "exactly_once"
      /\ Case = "pre_effect" => ToolAttempts = 2 /\ Acks = 1 /\ class = "exactly_once"
      /\ Case = "post_effect" => ToolAttempts = 2 /\ Acks = 2 /\ class = "duplicated"
  BY <1>1, <1>2, <1>3, <1>4, ShownTallies, CertifiedClass
<1>6. dump.side_effects[ActionId] = Acks /\ Cardinality(EffectIds(store)) = Acks
  BY <1>1, CertifiedClass, CertifiedCounts
<1>7. class \notin {"unverified", "void"} /\ Acks # NoCount
  BY <1>2, <1>5 DEF NoCount
<1>8. /\ Receipt.observed = [classification |-> class, effect_count |-> Acks,
                             tool_attempts |-> ToolAttempts]
      /\ Receipt.effect_ids = Acks
      /\ Receipt.acknowledged = Acks
      /\ Receipt.passed = (Receipt.observed = ExpectedResult[Case])
  BY <1>1, <1>4, <1>6, <1>7 DEF Receipt, Acks
<1>9. [classification |-> class, effect_count |-> Acks, tool_attempts |-> ToolAttempts]
        = ExpectedResult[Case]
  BY <1>2, <1>5 DEF ExpectedResult
<1>10. Receipt.observed.effect_count = Acks
  BY <1>8
<1>11. Receipt.passed
  BY <1>8, <1>9
<1>12. QED
  BY <1>8, <1>10, <1>11 DEF GoodReceipt

CertifiedOK == \A n \in 1 .. Len(receipts) : GoodReceipt(receipts[n])

CertificateInv == TalliedInv /\ CertifiedOK

LEMMA CertifiedStep ==
  ASSUME TalliedInv, CertifiedOK, [CrewNext]_crewAllVars PROVE CertifiedOK'
<1>1. CASE receipts' = receipts
  BY <1>1 DEF CertifiedOK, GoodReceipt
<1>2. CASE RecordTrial
  <2>1. stage = "record" /\ ~ TornLine /\ receipts' = Append(receipts, Receipt)
    BY <1>2 DEF RecordTrial
  <2>2. PICK r : r = Receipt
    OBVIOUS
  <2>3. GoodReceipt(r)
    BY <2>1, <2>2, RecordsGood
  <2>4. PICK S : receipts \in Seq(S)
    BY DEF TalliedInv, CrewInv, ReceiptOK, IsSequence
  <2>5. receipts \in Seq(S \cup {r}) /\ r \in S \cup {r} /\ receipts' = Append(receipts, r)
    BY <2>1, <2>2, <2>4
  <2>6. /\ Len(receipts') = Len(receipts) + 1 /\ Len(receipts) \in Nat
        /\ \A n \in 1 .. Len(receipts) : receipts'[n] = receipts[n]
        /\ receipts'[Len(receipts) + 1] = r
    BY <2>5, AppendProperties
  <2>7. \A n \in 1 .. Len(receipts') : n \in 1 .. Len(receipts) \/ n = Len(receipts) + 1
    BY <2>6
  <2>8. QED
    BY <2>3, <2>6, <2>7 DEF CertifiedOK, GoodReceipt
<1>3. CASE SubjectStep
  BY <1>1, <1>3, SubjectLeavesHarness DEF harnessVars
<1>4. QED
  BY <1>1, <1>2, <1>3 DEF CrewNext, Harness, StartTrial, Timeout, SealLedger, ReadDump,
     ReadRaises, Report, crewVars, crewAllVars, harnessVars

LEMMA DumpStep ==
  ASSUME CrewInv, DumpOK, [CrewNext]_crewAllVars PROVE DumpOK'
<1>1. ASSUME UNCHANGED <<dump, ledgerVars>>, stage' = "record" => stage = "record" PROVE DumpOK'
  BY <1>1 DEF DumpOK, Dump, ledgerVars
<1>2. CASE SubjectStep
  BY <1>1, <1>2, SubjectLeavesHarness DEF harnessVars
<1>3. CASE ReadDump
  BY <1>3 DEF ReadDump, DumpOK, Dump, daemonVars, ledgerVars
<1>4. CASE StartTrial
  BY <1>4 DEF StartTrial, DumpOK
<1>5. CASE Timeout \/ SealLedger \/ RecordTrial \/ ReadRaises \/ Report
  BY <1>1, <1>5 DEF Timeout, SealLedger, HandleSeal, RecordTrial, ReadRaises, Report, daemonVars,
     harnessVars, DumpOK
<1>6. ASSUME NEW req \in wire, Handle(req), UNCHANGED crewVars PROVE DumpOK'
  <2>1. stage = "record" => UNCHANGED ledgerVars
    BY <1>6, HandleSplit DEF Ledger, CrewInv, ReceiptOK
  <2>2. UNCHANGED <<stage, dump>>
    BY <1>6 DEF crewVars
  <2>3. QED
    BY <2>1, <2>2 DEF DumpOK, Dump, ledgerVars
<1>7. CASE UNCHANGED crewAllVars
  BY <1>1, <1>7 DEF crewAllVars, crewVars, daemonVars
<1>8. QED
  BY <1>2, <1>3, <1>4, <1>5, <1>6, <1>7 DEF CrewNext, Harness

LEMMA CertificateStep ==
  CertificateInv /\ [CrewNext]_crewAllVars => CertificateInv'
<1> SUFFICES ASSUME TalliedInv, CertifiedOK, [CrewNext]_crewAllVars PROVE CertificateInv'
  BY DEF CertificateInv
<1>1. /\ CrewInv /\ AnswersOK /\ CountedOK /\ CrossingsAgree /\ StoreOnChain
      /\ RequestsOK /\ LinesOK /\ DumpOK /\ TallyOK /\ DaemonTypeOK /\ ReceiptOK
  BY DEF TalliedInv, CrewInv
<1>2. [DaemonNext]_daemonVars
  BY <1>1, RunsDaemon
<1>3. AnswersOK' /\ CountedOK' /\ CrossingsAgree' /\ StoreOnChain' /\ LinesOK'
  BY <1>1, <1>2, AnswersStep, CountedStep, CrossingsAgreeStep, StoreOnChainStep, LinesStep
<1>4. CrewInv' /\ RequestsOK' /\ DumpOK' /\ TallyOK'
  BY <1>1, CrewInvStep, RequestsStep, DumpStep, TallyStep
<1>5. CertifiedOK'
  BY CertifiedStep
<1>6. QED
  BY <1>3, <1>4, <1>5 DEF CertificateInv, TalliedInv

LEMMA CertificateInit == CrewInit => CertificateInv
<1> SUFFICES ASSUME CrewInit PROVE CertificateInv
  OBVIOUS
<1>1. DaemonInit /\ stage = "idle" /\ receipts = << >>
  BY DEF CrewInit
<1>2. CrewInv
  BY CrewInvInit
<1>3. AnswersOK /\ RequestsOK
  BY <1>1, FS_EmptySet DEF DaemonInit, AnswersOK, RequestsOK
<1>4. CountedOK
  <2>1. \A i \in Intents : seen_keys[i] = {} /\ effect_keys[i] = << >>
    BY <1>1 DEF DaemonInit, FreshState
  <2>2. QED
    BY <1>1, <2>1, CountedFresh DEF DaemonInit, CountedOK
<1>5. CrossingsAgree
  BY <1>1, FreshAgrees DEF DaemonInit, FreshState, CrossingsAgree, Agrees
<1>6. StoreOnChain
  BY <1>1, EmptyOnChain DEF DaemonInit, FreshState
<1>7. LinesOK
  <2>1. \A i : LinesOf(i) = {} /\ OkAt(i) = {}
    BY <1>1 DEF DaemonInit, LinesOf, OkAt
  <2>2. QED
    BY <2>1 DEF LinesOK
<1>8. DumpOK /\ TallyOK /\ CertifiedOK
  BY <1>1 DEF DumpOK, TallyOK, Counting, CertifiedOK
<1>9. QED
  BY <1>2, <1>3, <1>4, <1>5, <1>6, <1>7, <1>8 DEF CertificateInv, TalliedInv

\* Whatever writes failed, whoever was killed or timed out, and whenever the
\* requests they left behind were handled: a trial whose stream, exit status and
\* sealed ledger certify it ended as registered (crewai_retry.py run_trial).
THEOREM CertifiedAlwaysAsPredicted == CrewSpec => []CertifiedAsPredicted
<1>1. CertificateInv => CertifiedAsPredicted
  BY DEF CertificateInv, CertifiedOK, GoodReceipt, CertifiedAsPredicted
<1>2. QED
  BY <1>1, CertificateInit, CertificateStep, PTL DEF CrewSpec, crewAllVars

\* And what the ledger counts in it is what the tool was told of, line for line
\* on the chained file.
THEOREM CertifiedAlwaysAcknowledged == CrewSpec => []CertifiedIsAcknowledged
<1>1. CertificateInv => CertifiedIsAcknowledged
  BY DEF CertificateInv, CertifiedOK, GoodReceipt, CertifiedIsAcknowledged
<1>2. QED
  BY <1>1, CertificateInit, CertificateStep, PTL DEF CrewSpec, crewAllVars
=============================================================================
