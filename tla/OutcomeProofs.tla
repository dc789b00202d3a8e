---------------------------- MODULE OutcomeProofs ----------------------------
(***************************************************************************)
(* Where nothing but its barrier kills a trial, it ends in the outcome its *)
(* harness compares it with, whichever engine ran it: what the crash left, *)
(* what the recovery makes of that, and what the two sent between them;    *)
(* and its rows, turns and events show the mechanism it was staged for.    *)
(***************************************************************************)
EXTENDS RecoveryProofs

-----------------------------------------------------------------------------
(***************************************************************************)
(* The other engines' trials end as predicted where nothing else goes      *)
(* wrong.  What a process has still to do is read off the rest of its      *)
(* program: whether it has still to send its request, and what else it     *)
(* comes to first.  Where in that program the barrier strikes decides what *)
(* the recovery finds and does.                                            *)
(***************************************************************************)
\* A trial of one of the engines whose barrier is armed in the crash run alone,
\* or strikes once, and that the oracle scores.
Planned(t) == t.engine \notin {"restate", "vercel"} /\ t.mode \notin AdmissionArms

SendSteps == {"send", "send_billing", "send_shipping"}

\* The order in which the steps of one run come, 0 for those in no such order.
Rank ==
  [x \in Label |->
     CASE x \in {"lg_pre_first_checkpoint", "enqueue", "start_workflow",
                 "tmp_workflow_task_replay"} -> 1
       [] x \in {"put_entry", "prepare_identity_step", "decide", "model.message"} -> 2
       [] x = "b0" -> 3
       [] x = "put_prepared" -> 4
       [] x \in SendSteps -> 5
       [] x = "await" -> 6
       [] x = "b1" -> 7
       [] x \in {"dbos_step_output_uncommitted", "dbos_duplicate_workflow_name_recovery",
                 ReceiverBarrier} -> 8
       [] x \in {"effect_step", "billing_charge", "shipping_charge", "tool.response"} -> 9
       [] x = "dbos_step_output_committed_before_resume" -> 10
       [] x = "b2" -> 11
       [] x \in {"sentinel_step", "report", "turn_done"} -> 12
       [] x = "dbos_workflow_outcome_uncommitted" -> 13
       [] x = "commit_outcome" -> 14
       [] x = "poll" -> 15
       [] OTHER -> 0]

\* LangGraph's order ends where its completion races: what comes of that is none.
ForkRank ==
  [x \in Label |-> IF x = "race" THEN 7
                   ELSE IF Rank[x] \in 1 .. 6 THEN Rank[x] ELSE 0]

Sorted(R, s) ==
  \A m, n \in 1 .. Len(s) : m < n /\ R[s[m]] > 0 /\ R[s[n]] > 0 => R[s[m]] < R[s[n]]

\* The process has still to send its request, or to be told that it need not.
Due(t, s, d) ==
  CASE t.engine = "langgraph" -> Sending(s)
    [] t.engine = "dbos" -> Has(SendSteps, s)
    [] t.engine = "temporal" -> Sending(s) \/ (d.next = 0 /\ ~ Has({"report"}, s))
    [] t.engine = "trueforge" ->
         Sending(s) \/ (Has({"create_turn"}, s) /\ "tool.response" \notin d.first.events)

LangGraphLaid(h, s, d) ==
  /\ Sorted(ForkRank, s)
  /\ ~ Has(AdmissionSteps, s)
  /\ Has({"lg_pre_first_checkpoint", "put_entry", "b0", "put_prepared"}, s) => Sending(s)
  /\ Sending(s) => Awaits(s)
  /\ Has({"b1", "put_writes", "lg_pending_writes_after_persist", "put_done", "b2"}, s) =>
       ~ Has({"send", "await"}, s)
  /\ Has({"lg_pending_writes_after_persist"}, s) =>
       d.writes \/ Before({"put_writes"}, {"lg_pending_writes_after_persist"}, s)
  /\ Has({"lg_pre_first_checkpoint"}, s) => d.checkpoint = "none"
  /\ h = "crash_run" => Has({"put_entry"}, s) \/ d.checkpoint # "none"

DbosLaid(t, h, s, d) ==
  /\ Sorted(Rank, s)
  /\ Has({"enqueue", "b0"}, s) => Has(SendSteps, s)
  /\ Has(SendSteps, s) => Awaits(s)
  /\ Has(SendSteps \cup {"b1", "dbos_step_output_uncommitted",
                         "dbos_duplicate_workflow_name_recovery"}, s) => Has(ChargeSteps, s)
  /\ Has(ChargeSteps, s) => /\ ~ Durable(t, d)
                            /\ TwoPhase(t) => \/ Has({"prepare_identity_step"}, s)
                                              \/ d.outputs # << >>
  /\ Has({"prepare_identity_step"}, s) => TwoPhase(t) /\ d.outputs = << >>
  /\ Has({"dbos_step_output_committed_before_resume", "b2",
          "dbos_workflow_outcome_uncommitted"}, s) => Has(ChargeSteps, s) \/ Durable(t, d)
  /\ h = "crash_run" => Has({"enqueue"}, s) \/ d.wf # "absent"

TemporalLaid(s, d) ==
  /\ Sorted(Rank, s)
  /\ ~ Has({"tmp_activity_scheduled_before_worker_poll"}, s)
  /\ Has({"b0"}, s) => Sending(s)
  /\ Sending(s) => Awaits(s)
  /\ Has({"send", "await", "b1"}, s) => d.next = 0 /\ Has({"report"}, s)
  /\ Has({"report"}, s) => d.act = "taken" /\ ~ Has({"decide"}, s)
  /\ Has({"b2"}, s) \/ d.wf = "closed" \/ ~ Has({"poll"}, s) => d.next >= 1

\* The tool threw before it came to its barrier: nothing kills the process any more.
Disarmed(s) == ~ Has({"create_turn", ReceiverBarrier, "kill"}, s)

TrueForgeLaid(h, s, d) ==
  /\ Sorted(Rank, s)
  /\ Sending(s) => Awaits(s)
  /\ Has({"create_turn"}, s) => s = <<"create_turn">>
  /\ Has({"kill"}, s) => s = <<"kill">>
  /\ h = "crash_run" /\ ~ Disarmed(s) =>
       /\ "tool.response" \notin d.first.events \cup d.retry.events
       /\ \/ Has({"kill"}, s)
          \/ ~ d.marker /\ Before({ReceiverBarrier}, {"tool.response"}, s)

\* How the rest of a running process's program lies over what is durable.
Laid(t, h, s, d) ==
  CASE t.engine = "langgraph" -> LangGraphLaid(h, s, d)
    [] t.engine = "dbos" -> DbosLaid(t, h, s, d)
    [] t.engine = "temporal" -> TemporalLaid(s, d)
    [] t.engine = "trueforge" -> TrueForgeLaid(h, s, d)

\* Where a barrier cuts the run: before its request, between the answer and the
\* completion, or after that.
EarlyBarriers == {"b0", "lg_pre_first_checkpoint", "tmp_activity_scheduled_before_worker_poll"}
MiddleBarriers == {"b1", "dbos_step_output_uncommitted", "dbos_duplicate_workflow_name_recovery",
                   ReceiverBarrier}
LateBarriers == (Barrier \cup HiddenBarrier) \ (EarlyBarriers \cup MiddleBarriers)

Unstored(t) == t.barrier = "lg_pre_first_checkpoint"

\* What a recovery makes of d: it does the effect again where nothing tells it not
\* to, and where no run is found.
Recovers(t, d) ==
  LET again == Due(t, RecoveryRun(t, d), d) IN
    /\ t.barrier \in MiddleBarriers => /\ Durable(t, d) => t.engine = "langgraph"
                                       /\ again \/ Durable(t, d)
    /\ t.barrier \in LateBarriers => Durable(t, d)
    /\ Unstored(t) => ~ again
    /\ Durable(t, d) => ~ again
    /\ Laid(t, "recovery_run", RecoveryRun(t, d), d)

\* A barrier struck with s to do over d.
Cuts(t, s, d) == /\ t.barrier \in EarlyBarriers => Due(t, s, d)
                 /\ t.barrier \in MiddleBarriers => ~ Due(t, s, d) /\ ~ Awaits(s)
                 /\ Recovers(t, d)

\* A step that sends nothing: p is left over e.
Moved(t, h, s, d, p, e) == /\ Laid(t, h, p, e)
                           /\ Due(t, p, e) <=> Due(t, s, d)
                           /\ Awaits(s) => Awaits(p) \/ Head(s) = "await"

\* What a barrier leaves of the crash run: own its requests, ears those the ledger
\* counted.
Severed(t, d, own, ears) == /\ t.barrier \in EarlyBarriers => own = {}
                            /\ t.barrier \in MiddleBarriers => ears # {}
                            /\ Recovers(t, d)

DueOnce(t, s, d, own, ears, asked) ==
  Due(t, s, d) \/ \E r \in own : Told(r, s, ears, asked)
DueTwice(t, s, d, own, ears, asked) ==
  \E q \in ears : Due(t, s, d) \/ \E r \in own \ {q} : Told(r, s, ears, asked)

\* The recovery finds that nothing was completed and does it all again.
Repeats(t, h, b) == h # "crash_run" /\ t.barrier \in MiddleBarriers /\ ~ Durable(t, b)

\* Where trial t is: the phase h of its harness, the process's end x, its program s,
\* d durable, b what was at the end of the crash run.
PlanAt(t, h, x, s, d, b, own, ears, asked) ==
  /\ x = "running" => Laid(t, h, s, d)
  /\ ~ Repeats(t, h, b) => Single(own) /\ (x = "running" /\ Due(t, s, d) => own = {})
  /\ h = "crash_run" => /\ x = "running" => DueOnce(t, s, d, own, ears, asked)
                        /\ x = "killed" => Severed(t, d, own, ears)
  /\ h # "crash_run" =>
       /\ t.barrier \in MiddleBarriers /\ Durable(t, b) => t.engine = "langgraph"
       /\ t.barrier \in LateBarriers => Durable(t, b)
       /\ Unstored(t) => own = {} /\ (x = "running" => ~ Due(t, s, d))
  /\ Repeats(t, h, b) => /\ x = "running" => DueTwice(t, s, d, own, ears, asked)
                         /\ x = "zero" => \E q, r \in ears : q # r

PlanOK == Planned(trial) /\ harness \notin {"idle", "failed"} =>
            PlanAt(trial, harness, exit, todo, disk, before.disk, Own, Ears, request)

\* No request is on the wire but the last one sent, which a running process still
\* waits for, unless it ended in an error: that trial is given up, and no other
\* follows it.
PendingOK == Planned(trial) /\ wire # {} =>
               /\ harness # "idle"
               /\ \A r \in wire : r.id = request
               /\ \/ exit = "error"
                  \/ exit = "running" /\ Awaits(todo) /\ ~ Due(trial, todo, disk)

LEMMA RankTyped == Rank \in [Label -> Nat] /\ ForkRank \in [Label -> Nat]
<1>1. \A x \in Label : Rank[x] \in Nat
  BY DEF Rank
<1>2. Rank \in [Label -> Nat]
  BY <1>1 DEF Rank
<1>3. \A x \in Label : ForkRank[x] \in Nat
  BY <1>1 DEF ForkRank
<1>4. QED
  BY <1>2, <1>3 DEF ForkRank

LEMMA SortedTail ==
  ASSUME NEW R \in [Label -> Nat], NEW s \in Programs, s # << >>, Sorted(R, s)
  PROVE  /\ Tail(s) \in Programs /\ Sorted(R, Tail(s))
         /\ \A x \in Label : R[x] \in 1 .. R[Head(s)] => ~ Has({x}, Tail(s))
<1> DEFINE u == Tail(s)
<1>1. /\ Len(s) \in Nat \ {0} /\ Len(u) = Len(s) - 1 /\ Head(s) = s[1] /\ Head(s) \in Label
      /\ \A n \in 1 .. Len(s) - 1 : u[n] = s[n + 1]
      /\ u \in Programs
  BY TailElements DEF Programs
<1> HIDE DEF u
<1>2. ASSUME NEW m \in 1 .. Len(u), NEW n \in 1 .. Len(u), m < n, R[u[m]] > 0, R[u[n]] > 0
      PROVE  R[u[m]] < R[u[n]]
  <2>1. m + 1 \in 1 .. Len(s) /\ n + 1 \in 1 .. Len(s) /\ m + 1 < n + 1
    BY <1>1, <1>2
  <2>2. u[n] = s[n + 1] /\ u[m] = s[m + 1]
    BY <1>1
  <2>3. QED
    BY <1>2, <2>1, <2>2 DEF Sorted
<1>3. ASSUME NEW x \in Label, R[x] \in 1 .. R[Head(s)], NEW n \in 1 .. Len(u), u[n] = x
      PROVE  FALSE
  <2>1. 1 \in 1 .. Len(s) /\ n + 1 \in 1 .. Len(s) /\ 1 < n + 1
    BY <1>1
  <2>2. s[n + 1] = x /\ s[1] = Head(s)
    BY <1>1, <1>3
  <2>3. R[x] > 0 /\ R[Head(s)] > 0 /\ ~ (R[Head(s)] < R[x])
    BY <1>1, <1>3
  <2>4. QED
    BY <2>1, <2>2, <2>3 DEF Sorted
<1>4. QED
  BY <1>1, <1>2, <1>3 DEF Has, Sorted, u

\* What is ranked no higher than the first step has been done.
LEMMA SortedPast ==
  ASSUME NEW R \in [Label -> Nat], NEW s \in Programs, s # << >>, Sorted(R, s),
         NEW X, \A x \in X : x \in Label /\ R[x] \in 1 .. R[Head(s)]
  PROVE  ~ Has(X, Tail(s)) /\ (Head(s) \notin X => ~ Has(X, s))
<1>1. \A x \in X : ~ Has({x}, Tail(s))
  BY SortedTail
<1>2. ~ Has(X, Tail(s))
  BY <1>1 DEF Has
<1>3. QED
  BY <1>2, HasTail

LEMMA SortedPlaced ==
  ASSUME NEW R, NEW u \in Programs, NEW s \in Programs, NEW f, Places(f, u, s), Sorted(R, s)
  PROVE  Sorted(R, u)
BY DEF Places, Sorted

LEMMA SortedArmed ==
  ASSUME NEW R, NEW s \in Programs, NEW b, Sorted(R, s)
  PROVE  ArmedWith(s, b) \in Programs /\ Sorted(R, ArmedWith(s, b))
<1> DEFINE u == ArmedWith(s, b)
<1>1. u \in Programs /\ \E f : Places(f, u, s)
  BY ArmedPlaces
<1> HIDE DEF u
<1>2. QED
  BY <1>1, SortedPlaced DEF u

\* Two programs, what is ranked in the first below what is ranked in the second.
LEMMA SortedConcat ==
  ASSUME NEW R, NEW u \in Programs, NEW v \in Programs, Sorted(R, u), Sorted(R, v),
         \A m \in 1 .. Len(u), n \in 1 .. Len(v) :
           R[u[m]] > 0 /\ R[v[n]] > 0 => R[u[m]] < R[v[n]]
  PROVE  u \o v \in Programs /\ Sorted(R, u \o v)
<1> DEFINE w == u \o v
<1>1. /\ Len(u) \in Nat /\ Len(v) \in Nat /\ w \in Programs
      /\ \A n \in 1 .. Len(u) : w[n] = u[n]
      /\ \A n \in 1 .. Len(v) : w[Len(u) + n] = v[n]
      /\ \A n \in 1 .. Len(w) : n \in 1 .. Len(u) \/ \E m \in 1 .. Len(v) : n = Len(u) + m
  BY ConcatPlaces
<1> HIDE DEF w
<1>2. SUFFICES ASSUME NEW m \in 1 .. Len(w), NEW n \in 1 .. Len(w), m < n,
                      R[w[m]] > 0, R[w[n]] > 0
               PROVE  R[w[m]] < R[w[n]]
  BY <1>1 DEF Sorted, w
<1>3. CASE m \in 1 .. Len(u) /\ n \in 1 .. Len(u)
  <2>1. w[m] = u[m] /\ w[n] = u[n]
    BY <1>1, <1>3
  <2>2. QED
    BY <1>2, <1>3, <2>1 DEF Sorted
<1>4. CASE m \in 1 .. Len(u) /\ n \notin 1 .. Len(u)
  <2>1. PICK j \in 1 .. Len(v) : n = Len(u) + j
    BY <1>1, <1>4
  <2>2. w[n] = v[j] /\ w[m] = u[m]
    BY <1>1, <1>4, <2>1
  <2>3. QED
    BY <1>2, <1>4, <2>2
<1>5. CASE m \notin 1 .. Len(u)
  <2>1. PICK i \in 1 .. Len(v) : m = Len(u) + i
    BY <1>1, <1>5
  <2>2. n \notin 1 .. Len(u)
    BY <1>1, <1>2, <2>1
  <2>3. PICK j \in 1 .. Len(v) : n = Len(u) + j
    BY <1>1, <2>2
  <2>4. i < j
    BY <1>1, <1>2, <2>1, <2>3
  <2>5. w[m] = v[i] /\ w[n] = v[j]
    BY <1>1, <2>1, <2>3
  <2>6. QED
    BY <1>2, <2>4, <2>5 DEF Sorted
<1>6. QED
  BY <1>3, <1>4, <1>5

\* Steps that are not ranked may come anywhere.
LEMMA SortedMerge ==
  ASSUME NEW R \in [Label -> Nat], NEW v \in Programs, NEW w \in Programs,
         NEW order \in Interleavings(v, w),
         \A i \in 1 .. Len(v) : R[v[i]] = 0, Sorted(R, w)
  PROVE  order \in Programs /\ Sorted(R, order)
<1>1. order \in Programs
  BY MergePlaces
<1>2. PICK f, g : Merged(f, v, g, w, order)
  BY MergePlaces
<1>3. Len(w) \in Nat /\ Len(order) \in Nat
  BY <1>1, LenProperties DEF Programs
<1>4. SUFFICES ASSUME NEW m \in 1 .. Len(order), NEW n \in 1 .. Len(order), m < n,
                      R[order[m]] > 0, R[order[n]] > 0
               PROVE  R[order[m]] < R[order[n]]
  BY <1>1 DEF Sorted
<1>5. ASSUME NEW k \in 1 .. Len(order), R[order[k]] > 0
      PROVE  \E i \in 1 .. Len(w) : g[i] = k /\ order[k] = w[i]
  <2>1. (\E i \in 1 .. Len(v) : f[i] = k) \/ (\E i \in 1 .. Len(w) : g[i] = k)
    BY <1>2 DEF Merged
  <2>2. ASSUME NEW i \in 1 .. Len(v), f[i] = k
        PROVE  FALSE
    <3>1. order[k] = v[i]
      BY <1>2, <2>2 DEF Merged, Places
    <3>2. QED
      BY <1>5, <3>1
  <2>3. PICK i \in 1 .. Len(w) : g[i] = k
    BY <2>1, <2>2
  <2>4. order[k] = w[i]
    BY <1>2, <2>3 DEF Merged, Places
  <2>5. QED
    BY <2>3, <2>4
<1>6. PICK i \in 1 .. Len(w) : g[i] = m /\ order[m] = w[i]
  BY <1>4, <1>5
<1>7. PICK j \in 1 .. Len(w) : g[j] = n /\ order[n] = w[j]
  BY <1>4, <1>5
<1>8. j < i => n < m
  BY <1>2, <1>6, <1>7 DEF Merged, Places
<1>9. i # j
  BY <1>4, <1>6, <1>7
<1>10. i < j
  BY <1>4, <1>8, <1>9
<1>11. QED
  BY <1>4, <1>6, <1>7, <1>10 DEF Sorted

\* In a program none of whose steps is ranked nothing is out of order.
LEMMA SortedNone ==
  ASSUME NEW R, NEW s, \A n \in 1 .. Len(s) : R[s[n]] = 0
  PROVE  Sorted(R, s)
BY DEF Sorted

LEMMA RankTable ==
  /\ Rank["lg_pre_first_checkpoint"] = 1 /\ Rank["enqueue"] = 1 /\ Rank["start_workflow"] = 1
  /\ Rank["tmp_workflow_task_replay"] = 1
  /\ Rank["put_entry"] = 2 /\ Rank["prepare_identity_step"] = 2 /\ Rank["decide"] = 2
  /\ Rank["model.message"] = 2
  /\ Rank["b0"] = 3
  /\ Rank["put_prepared"] = 4
  /\ Rank["send"] = 5 /\ Rank["send_billing"] = 5 /\ Rank["send_shipping"] = 5
  /\ Rank["await"] = 6
  /\ Rank["b1"] = 7
  /\ Rank["dbos_step_output_uncommitted"] = 8
  /\ Rank["dbos_duplicate_workflow_name_recovery"] = 8
  /\ Rank["effect_step"] = 9 /\ Rank["billing_charge"] = 9 /\ Rank["shipping_charge"] = 9
  /\ Rank["tool.response"] = 9
  /\ Rank["dbos_step_output_committed_before_resume"] = 10
  /\ Rank["b2"] = 11
  /\ Rank["sentinel_step"] = 12 /\ Rank["report"] = 12 /\ Rank["turn_done"] = 12
  /\ Rank["dbos_workflow_outcome_uncommitted"] = 13
  /\ Rank["commit_outcome"] = 14
  /\ Rank["poll"] = 15
  /\ Rank["race"] = 0 /\ Rank["put_writes"] = 0 /\ Rank["put_done"] = 0
  /\ Rank["empty_input"] = 0 /\ Rank["no_workflow"] = 0 /\ Rank["kill"] = 0
  /\ Rank["create_turn"] = 0 /\ Rank["answer_create"] = 0
  /\ Rank["lg_pending_writes_after_persist"] = 0
  /\ Rank[ReceiverBarrier] = 8
<1>1. /\ Rank["lg_pre_first_checkpoint"] = 1 /\ Rank["enqueue"] = 1 /\ Rank["start_workflow"] = 1
     /\ Rank["tmp_workflow_task_replay"] = 1
  BY Labels DEF Rank, ReceiverBarrier, SendSteps
<1>2. /\ Rank["put_entry"] = 2 /\ Rank["prepare_identity_step"] = 2 /\ Rank["decide"] = 2
     /\ Rank["model.message"] = 2
  BY Labels DEF Rank, ReceiverBarrier, SendSteps
<1>3. Rank["b0"] = 3
  BY Labels DEF Rank, ReceiverBarrier, SendSteps
<1>4. Rank["put_prepared"] = 4
  BY Labels DEF Rank, ReceiverBarrier, SendSteps
<1>5. /\ Rank["send"] = 5 /\ Rank["send_billing"] = 5 /\ Rank["send_shipping"] = 5
  BY Labels DEF Rank, ReceiverBarrier, SendSteps
<1>6. Rank["await"] = 6
  BY Labels DEF Rank, ReceiverBarrier, SendSteps
<1>7. Rank["b1"] = 7
  BY Labels DEF Rank, ReceiverBarrier, SendSteps
<1>8. /\ Rank["dbos_step_output_uncommitted"] = 8
     /\ Rank["dbos_duplicate_workflow_name_recovery"] = 8
  BY Labels DEF Rank, ReceiverBarrier, SendSteps
<1>9. /\ Rank["effect_step"] = 9 /\ Rank["billing_charge"] = 9 /\ Rank["shipping_charge"] = 9
     /\ Rank["tool.response"] = 9
  BY Labels DEF Rank, ReceiverBarrier, SendSteps
<1>10. Rank["dbos_step_output_committed_before_resume"] = 10
  BY Labels DEF Rank, ReceiverBarrier, SendSteps
<1>11. Rank["b2"] = 11
  BY Labels DEF Rank, ReceiverBarrier, SendSteps
<1>12. /\ Rank["sentinel_step"] = 12 /\ Rank["report"] = 12 /\ Rank["turn_done"] = 12
  BY Labels DEF Rank, ReceiverBarrier, SendSteps
<1>13. Rank["dbos_workflow_outcome_uncommitted"] = 13
  BY Labels DEF Rank, ReceiverBarrier, SendSteps
<1>14. Rank["commit_outcome"] = 14
  BY Labels DEF Rank, ReceiverBarrier, SendSteps
<1>15. Rank["poll"] = 15
  BY Labels DEF Rank, ReceiverBarrier, SendSteps
<1>16. /\ Rank["race"] = 0 /\ Rank["put_writes"] = 0 /\ Rank["put_done"] = 0
     /\ Rank["empty_input"] = 0 /\ Rank["no_workflow"] = 0 /\ Rank["kill"] = 0
     /\ Rank["create_turn"] = 0 /\ Rank["answer_create"] = 0
     /\ Rank["lg_pending_writes_after_persist"] = 0
  BY Labels DEF Rank, ReceiverBarrier, SendSteps
<1>17. Rank[ReceiverBarrier] = 8
  BY Labels DEF Rank, ReceiverBarrier, SendSteps
<1>18. QED
  BY <1>1, <1>2, <1>3, <1>4, <1>5, <1>6, <1>7, <1>8, <1>9, <1>10, <1>11, <1>12, <1>13, <1>14,
     <1>15, <1>16, <1>17

LEMMA ForkRankTable ==
  /\ ForkRank["lg_pre_first_checkpoint"] = 1
  /\ ForkRank["put_entry"] = 2
  /\ ForkRank["b0"] = 3
  /\ ForkRank["put_prepared"] = 4
  /\ ForkRank["send"] = 5
  /\ ForkRank["await"] = 6
  /\ ForkRank["race"] = 7
  /\ ForkRank["b1"] = 0 /\ ForkRank["put_writes"] = 0
  /\ ForkRank["lg_pending_writes_after_persist"] = 0 /\ ForkRank["put_done"] = 0
  /\ ForkRank["b2"] = 0 /\ ForkRank["empty_input"] = 0
<1>1. ForkRank["lg_pre_first_checkpoint"] = 1
  BY Labels, RankTable DEF ForkRank
<1>2. ForkRank["put_entry"] = 2
  BY Labels, RankTable DEF ForkRank
<1>3. ForkRank["b0"] = 3
  BY Labels, RankTable DEF ForkRank
<1>4. ForkRank["put_prepared"] = 4
  BY Labels, RankTable DEF ForkRank
<1>5. ForkRank["send"] = 5
  BY Labels, RankTable DEF ForkRank
<1>6. ForkRank["await"] = 6
  BY Labels, RankTable DEF ForkRank
<1>7. ForkRank["race"] = 7
  BY Labels, RankTable DEF ForkRank
<1>8. /\ ForkRank["b1"] = 0 /\ ForkRank["put_writes"] = 0
     /\ ForkRank["lg_pending_writes_after_persist"] = 0 /\ ForkRank["put_done"] = 0
     /\ ForkRank["b2"] = 0 /\ ForkRank["empty_input"] = 0
  BY Labels, RankTable DEF ForkRank
<1>9. QED
  BY <1>1, <1>2, <1>3, <1>4, <1>5, <1>6, <1>7, <1>8

\* A program sorted, all of it ranked from lo to hi.
Spans(R, lo, hi, s) == s \in Programs /\ Sorted(R, s) /\ \A n \in 1 .. Len(s) : R[s[n]] \in lo .. hi

LEMMA SpansNothing ==
  ASSUME NEW R, NEW lo, NEW hi
  PROVE  Spans(R, lo, hi, << >>)
BY DEF Spans, Sorted, Programs

LEMMA SpansConcat ==
  ASSUME NEW R \in [Label -> Nat], NEW lo \in Nat, NEW k \in Nat, NEW l \in Nat, NEW hi \in Nat,
         lo <= l, k < l, k <= hi,
         NEW u, Spans(R, lo, k, u), NEW v, Spans(R, l, hi, v)
  PROVE  Spans(R, lo, hi, u \o v)
<1> DEFINE w == u \o v
<1>1. /\ Len(u) \in Nat /\ Len(v) \in Nat /\ w \in Programs
      /\ \A n \in 1 .. Len(u) : w[n] = u[n]
      /\ \A n \in 1 .. Len(v) : w[Len(u) + n] = v[n]
      /\ \A n \in 1 .. Len(w) : n \in 1 .. Len(u) \/ \E m \in 1 .. Len(v) : n = Len(u) + m
  BY ConcatPlaces DEF Spans
<1>2. /\ \A n \in 1 .. Len(u) : R[u[n]] \in lo .. k
      /\ \A n \in 1 .. Len(v) : R[v[n]] \in l .. hi
  BY DEF Spans
<1>3. Sorted(R, w)
  <2>1. \A m \in 1 .. Len(u), n \in 1 .. Len(v) : R[u[m]] < R[v[n]]
    BY <1>2
  <2>2. QED
    BY <2>1, SortedConcat DEF Spans
<1> HIDE DEF w
<1>4. ASSUME NEW n \in 1 .. Len(w) PROVE R[w[n]] \in lo .. hi
  <2>1. CASE n \in 1 .. Len(u)
    <3>1. w[n] = u[n] /\ R[u[n]] \in lo .. k
      BY <1>1, <1>2, <2>1
    <3>2. QED
      BY <3>1
  <2>2. CASE n \notin 1 .. Len(u)
    <3>1. PICK m \in 1 .. Len(v) : n = Len(u) + m
      BY <1>1, <2>2
    <3>2. w[n] = v[m] /\ R[v[m]] \in l .. hi
      BY <1>1, <1>2, <3>1
    <3>3. QED
      BY <3>2
  <2>3. QED
    BY <2>1, <2>2
<1>5. QED
  BY <1>1, <1>3, <1>4 DEF Spans, w

\* Each of DBOS's steps, and the end of its workflow.
LEMMA StepSpans ==
  /\ Spans(Rank, 2, 2, StepProgram("prepare_identity_step"))
  /\ Spans(Rank, 3, 10, StepProgram("effect_step"))
  /\ Spans(Rank, 11, 12, StepProgram("sentinel_step"))
  /\ Spans(Rank, 5, 9, StepProgram("billing_charge"))
  /\ Spans(Rank, 5, 9, StepProgram("shipping_charge"))
  /\ Spans(Rank, 13, 14, <<"dbos_workflow_outcome_uncommitted", "commit_outcome">>)
  /\ Spans(Rank, 1, 1, <<"enqueue">>)
<1>1. Spans(Rank, 2, 2, <<"prepare_identity_step">>) /\ Spans(Rank, 1, 1, <<"enqueue">>)
  BY Labels, RankTable DEF Spans, Sorted, Programs
<1>2. Spans(Rank, 11, 12, <<"b2", "sentinel_step">>)
  BY Labels, RankTable DEF Spans, Sorted, Programs
<1>3. Spans(Rank, 13, 14, <<"dbos_workflow_outcome_uncommitted", "commit_outcome">>)
  BY Labels, RankTable DEF Spans, Sorted, Programs
<1>4. Spans(Rank, 5, 9, <<"send_shipping", "await", "shipping_charge">>)
  BY Labels, RankTable DEF Spans, Sorted, Programs
<1>5. Spans(Rank, 5, 9, <<"send_billing", "await", "dbos_duplicate_workflow_name_recovery",
                          "billing_charge">>)
  BY Labels, RankTable DEF Spans, Sorted, Programs
<1>6. Spans(Rank, 3, 10, <<"b0", "send", "await", "b1", "dbos_step_output_uncommitted",
                           "effect_step", "dbos_step_output_committed_before_resume">>)
  <2> DEFINE s == <<"b0", "send", "await", "b1", "dbos_step_output_uncommitted",
                    "effect_step", "dbos_step_output_committed_before_resume">>
  <2>1. /\ Len(s) = 7 /\ s[1] = "b0" /\ s[2] = "send" /\ s[3] = "await" /\ s[4] = "b1"
        /\ s[5] = "dbos_step_output_uncommitted" /\ s[6] = "effect_step"
        /\ s[7] = "dbos_step_output_committed_before_resume"
    OBVIOUS
  <2>2. s \in Programs
    BY Labels DEF Programs
  <2>3. /\ Rank["b0"] = 3 /\ Rank["send"] = 5 /\ Rank["await"] = 6 /\ Rank["b1"] = 7
        /\ Rank["dbos_step_output_uncommitted"] = 8 /\ Rank["effect_step"] = 9
        /\ Rank["dbos_step_output_committed_before_resume"] = 10
    BY RankTable
  <2> HIDE DEF s
  <2>4. /\ Rank[s[1]] = 3 /\ Rank[s[2]] = 5 /\ Rank[s[3]] = 6 /\ Rank[s[4]] = 7
        /\ Rank[s[5]] = 8 /\ Rank[s[6]] = 9 /\ Rank[s[7]] = 10
    BY <2>1, <2>3
  <2>5. Sorted(Rank, s) /\ \A n \in 1 .. Len(s) : Rank[s[n]] \in 3 .. 10
    BY <2>1, <2>4 DEF Sorted
  <2>6. QED
    BY <2>2, <2>5 DEF Spans, s
<1>7. QED
  BY <1>1, <1>2, <1>3, <1>4, <1>5, <1>6 DEF StepProgram

LEMMA BodyPerforms ==
  ASSUME NEW t \in Trials, NEW body \in {CrashBody(t), RecoveryBody(t)}, NEW r \in Nat
  PROVE  /\ (\E step \in ChargeSteps : Performed(step, body, r)) <=> r < ChargeAt(t)
         /\ Performed("prepare_identity_step", body, r) <=> r = 0 /\ TwoPhase(t)
         /\ \/ ~ Performed("billing_charge", body, r) /\ ~ Performed("shipping_charge", body, r)
            \/ /\ ~ Performed("prepare_identity_step", body, r)
               /\ ~ Performed("effect_step", body, r) /\ ~ Performed("sentinel_step", body, r)
               /\ \/ ~ Performed("billing_charge", body, r)
                  \/ ~ Performed("shipping_charge", body, r)
<1>1. CASE DuplicateName(t)
  <2>1. PICK x \in {"billing_charge", "shipping_charge"} : body = <<x>>
    BY <1>1, Bodies
  <2>2. Len(body) = 1 /\ body[1] = x
    BY <2>1
  <2>3. ChargeAt(t) = 1 /\ ~ TwoPhase(t)
    BY <1>1, Bodies DEF ChargeAt
  <2>4. \A n \in r + 1 .. Len(body) : n = 1 /\ r = 0
    BY <2>2
  <2>5. \A step : Performed(step, body, r) => step = x /\ r = 0
    BY <2>2, <2>4 DEF Performed
  <2>6. QED
    BY <2>3, <2>5, DbosBody
<1>2. CASE ~ DuplicateName(t) /\ TwoPhase(t)
  <2>1. body = <<"prepare_identity_step", "effect_step", "sentinel_step">>
    BY <1>2, Bodies
  <2>2. /\ Len(body) = 3 /\ body[1] = "prepare_identity_step" /\ body[2] = "effect_step"
        /\ body[3] = "sentinel_step"
    BY <2>1
  <2>3. ChargeAt(t) = 2
    BY <1>2 DEF ChargeAt
  <2>4. \A n \in r + 1 .. Len(body) : /\ n \in {1, 2, 3} /\ (n = 1 => r = 0)
                                      /\ (n = 2 => r < 2)
    BY <2>2
  <2>5. \A step \in ChargeSteps : Performed(step, body, r) => step = "effect_step" /\ r < 2
    BY <2>2, <2>4 DEF Performed, ChargeSteps
  <2>6. r = 0 => 1 \in r + 1 .. Len(body)
    BY <2>2
  <2>7. Performed("prepare_identity_step", body, r) <=> r = 0
    BY <2>2, <2>4, <2>6 DEF Performed
  <2>8. ~ Performed("billing_charge", body, r) /\ ~ Performed("shipping_charge", body, r)
    BY <2>5 DEF ChargeSteps
  <2>9. QED
    BY <1>2, <2>3, <2>5, <2>7, <2>8, DbosBody
<1>3. CASE ~ DuplicateName(t) /\ ~ TwoPhase(t)
  <2>1. body = <<"effect_step", "sentinel_step">>
    BY <1>3, Bodies
  <2>2. Len(body) = 2 /\ body[1] = "effect_step" /\ body[2] = "sentinel_step"
    BY <2>1
  <2>3. ChargeAt(t) = 1
    BY <1>3 DEF ChargeAt
  <2>4. \A n \in r + 1 .. Len(body) : n \in {1, 2} /\ (n = 1 => r < 1)
    BY <2>2
  <2>5. \A step \in ChargeSteps : Performed(step, body, r) => step = "effect_step" /\ r < 1
    BY <2>2, <2>4 DEF Performed, ChargeSteps
  <2>6. ~ Performed("prepare_identity_step", body, r)
    BY <2>2, <2>4 DEF Performed
  <2>7. ~ Performed("billing_charge", body, r) /\ ~ Performed("shipping_charge", body, r)
    BY <2>5 DEF ChargeSteps
  <2>8. QED
    BY <1>3, <2>3, <2>5, <2>6, <2>7, DbosBody
<1>4. QED
  BY <1>1, <1>2, <1>3

LEMMA PerformsSpans ==
  ASSUME NEW step \in StepName, NEW body, NEW recorded, NEW lo, NEW hi,
         Performed(step, body, recorded) => Spans(Rank, lo, hi, StepProgram(step))
  PROVE  Spans(Rank, lo, hi, Performs(step, body, recorded))
<1>1. Performs(step, body, recorded)
        = IF Performed(step, body, recorded) THEN StepProgram(step) ELSE << >>
  BY DEF Performs, Performed
<1>2. QED
  BY <1>1, SpansNothing

\* The steps of a workflow come in the order of their ranks.
LEMMA WorkflowSpans ==
  ASSUME NEW t \in Trials, NEW body \in {CrashBody(t), RecoveryBody(t)}, NEW r \in Nat
  PROVE  Spans(Rank, 2, 14, Workflow(body, r))
<1> DEFINE p == Performs("prepare_identity_step", body, r)
           e == Performs("effect_step", body, r)
           c == Performs("sentinel_step", body, r)
           d == Performs("billing_charge", body, r)
           g == Performs("shipping_charge", body, r)
           f == <<"dbos_workflow_outcome_uncommitted", "commit_outcome">>
           pe == p \o e
           pec == pe \o c
           pecd == pec \o d
           pecdg == pecd \o g
<1>1. Workflow(body, r) = pecdg \o f
  BY DEF Workflow
<1>2. {"prepare_identity_step", "effect_step", "sentinel_step", "billing_charge",
       "shipping_charge"} = StepName
  BY DEF StepName
<1>3. Spans(Rank, 13, 14, f)
  BY StepSpans
<1> HIDE DEF f
<1>4. CASE ~ Performed("billing_charge", body, r) /\ ~ Performed("shipping_charge", body, r)
  <2>1. Spans(Rank, 2, 2, p)
    BY <1>2, StepSpans, PerformsSpans
  <2>2. Spans(Rank, 3, 10, e)
    BY <1>2, StepSpans, PerformsSpans
  <2>3. Spans(Rank, 11, 12, c)
    BY <1>2, StepSpans, PerformsSpans
  <2>4. Spans(Rank, 13, 12, d)
    BY <1>2, <1>4, PerformsSpans
  <2>5. Spans(Rank, 13, 12, g)
    BY <1>2, <1>4, PerformsSpans
  <2> HIDE DEF p, e, c, d, g
  <2>6. Spans(Rank, 2, 10, pe)
    BY <2>1, <2>2, SpansConcat, RankTyped
  <2> HIDE DEF pe
  <2>7. Spans(Rank, 2, 12, pec)
    BY <2>3, <2>6, SpansConcat, RankTyped
  <2> HIDE DEF pec
  <2>8. Spans(Rank, 2, 12, pecd)
    BY <2>4, <2>7, SpansConcat, RankTyped
  <2> HIDE DEF pecd
  <2>9. Spans(Rank, 2, 12, pecdg)
    BY <2>5, <2>8, SpansConcat, RankTyped
  <2> HIDE DEF pecdg
  <2>10. QED
    BY <1>1, <1>3, <2>9, SpansConcat, RankTyped
<1>5. CASE /\ ~ Performed("prepare_identity_step", body, r)
           /\ ~ Performed("effect_step", body, r) /\ ~ Performed("sentinel_step", body, r)
           /\ ~ Performed("billing_charge", body, r) \/ ~ Performed("shipping_charge", body, r)
  <2>1. Spans(Rank, 2, 2, p) /\ Spans(Rank, 3, 3, e) /\ Spans(Rank, 4, 4, c)
    BY <1>2, <1>5, PerformsSpans
  <2>2. \/ Spans(Rank, 5, 9, d) /\ Spans(Rank, 10, 9, g)
        \/ Spans(Rank, 5, 4, d) /\ Spans(Rank, 5, 9, g)
    BY <1>2, <1>5, StepSpans, PerformsSpans
  <2> HIDE DEF p, e, c, d, g
  <2>3. Spans(Rank, 2, 3, pe)
    BY <2>1, SpansConcat, RankTyped
  <2> HIDE DEF pe
  <2>4. Spans(Rank, 2, 4, pec)
    BY <2>1, <2>3, SpansConcat, RankTyped
  <2> HIDE DEF pec
  <2>5. Spans(Rank, 2, 9, pecdg)
    <3>1. CASE Spans(Rank, 5, 9, d) /\ Spans(Rank, 10, 9, g)
      <4>1. Spans(Rank, 2, 9, pecd)
        BY <2>4, <3>1, SpansConcat, RankTyped
      <4> HIDE DEF pecd
      <4>2. QED
        BY <3>1, <4>1, SpansConcat, RankTyped
    <3>2. CASE Spans(Rank, 5, 4, d) /\ Spans(Rank, 5, 9, g)
      <4>1. Spans(Rank, 2, 4, pecd)
        BY <2>4, <3>2, SpansConcat, RankTyped
      <4> HIDE DEF pecd
      <4>2. QED
        BY <3>2, <4>1, SpansConcat, RankTyped
    <3>3. QED
      BY <2>2, <3>1, <3>2
  <2> HIDE DEF pecdg
  <2>6. QED
    BY <1>1, <1>3, <2>5, SpansConcat, RankTyped
<1>6. QED
  BY <1>4, <1>5, BodyPerforms

\* What a workflow has in it, its performed steps have, or its end.
LEMMA HasWorkflow ==
  ASSUME NEW body, NEW recorded, NEW X
  PROVE  Has(X, Workflow(body, recorded)) <=>
           \/ \E step \in StepName : /\ Performed(step, body, recorded)
                                     /\ Has(X, StepProgram(step))
           \/ Has(X, <<"dbos_workflow_outcome_uncommitted", "commit_outcome">>)
<1> DEFINE p == Performs("prepare_identity_step", body, recorded)
           e == Performs("effect_step", body, recorded)
           c == Performs("sentinel_step", body, recorded)
           d == Performs("billing_charge", body, recorded)
           g == Performs("shipping_charge", body, recorded)
           f == <<"dbos_workflow_outcome_uncommitted", "commit_outcome">>
<1>1. ASSUME NEW step \in StepName
      PROVE  /\ Performs(step, body, recorded) \in Programs
             /\ Has(X, Performs(step, body, recorded)) <=>
                  Performed(step, body, recorded) /\ Has(X, StepProgram(step))
  <2>1. Performs(step, body, recorded)
          = IF Performed(step, body, recorded) THEN StepProgram(step) ELSE << >>
    BY DEF Performs, Performed
  <2>2. QED
    BY <2>1, StepPrograms, NothingOrdered
<1>2. {"prepare_identity_step", "effect_step", "sentinel_step", "billing_charge",
       "shipping_charge"} = StepName
  BY DEF StepName
<1>3. /\ p \in Programs /\ e \in Programs /\ c \in Programs /\ d \in Programs
      /\ g \in Programs
  BY <1>1, <1>2
<1>4. f \in Programs
  BY Labels DEF Programs
<1>5. (\E step \in StepName : Has(X, Performs(step, body, recorded))) <=>
        \/ Has(X, p) \/ Has(X, e) \/ Has(X, c) \/ Has(X, d) \/ Has(X, g)
  BY <1>2
<1>6. (\E step \in StepName : Performed(step, body, recorded) /\ Has(X, StepProgram(step))) <=>
        \/ Has(X, p) \/ Has(X, e) \/ Has(X, c) \/ Has(X, d) \/ Has(X, g)
  BY <1>1, <1>5
<1>7. Workflow(body, recorded) = ((((p \o e) \o c) \o d) \o g) \o f
  BY DEF Workflow
<1> HIDE DEF p, e, c, d, g, f
<1> DEFINE pe == p \o e
           pec == pe \o c
           pecd == pec \o d
           pecdg == pecd \o g
<1>8. pe \in Programs /\ (Has(X, pe) <=> Has(X, p) \/ Has(X, e))
  BY <1>3, ConcatPrograms, HasConcat
<1> HIDE DEF pe
<1>9. pec \in Programs /\ (Has(X, pec) <=> Has(X, pe) \/ Has(X, c))
  BY <1>3, <1>8, ConcatPrograms, HasConcat
<1> HIDE DEF pec
<1>10. pecd \in Programs /\ (Has(X, pecd) <=> Has(X, pec) \/ Has(X, d))
  BY <1>3, <1>9, ConcatPrograms, HasConcat
<1> HIDE DEF pecd
<1>11. pecdg \in Programs /\ (Has(X, pecdg) <=> Has(X, pecd) \/ Has(X, g))
  BY <1>3, <1>10, ConcatPrograms, HasConcat
<1> HIDE DEF pecdg
<1>12. Has(X, pecdg \o f) <=> Has(X, pecdg) \/ Has(X, f)
  BY <1>4, <1>11, HasConcat
<1>13. Workflow(body, recorded) = pecdg \o f
  BY <1>7 DEF pecdg, pecd, pec, pe
<1>14. Has(X, Workflow(body, recorded)) <=>
         \/ Has(X, p) \/ Has(X, e) \/ Has(X, c) \/ Has(X, d) \/ Has(X, g) \/ Has(X, f)
  BY <1>8, <1>9, <1>10, <1>11, <1>12, <1>13
<1>15. QED
  BY <1>6, <1>14 DEF f

LEMMA StepHas ==
  ASSUME NEW step \in StepName
  PROVE  LET s == StepProgram(step) IN
         /\ Has(SendSteps, s) <=> step \in ChargeSteps
         /\ Has({"await"}, s) <=> step \in ChargeSteps
         /\ Has(ChargeSteps, s) <=> step \in ChargeSteps
         /\ Has({"b0", "b1", "dbos_step_output_uncommitted",
                 "dbos_duplicate_workflow_name_recovery"}, s) => step \in ChargeSteps
         /\ Has({"prepare_identity_step"}, s) <=> step = "prepare_identity_step"
         /\ ~ Has({"enqueue"}, s)
<1>1. CASE step = "prepare_identity_step"
  <2> DEFINE s == StepProgram(step)
  <2>1. Len(s) = 1 /\ s[1] = "prepare_identity_step"
    BY <1>1 DEF StepProgram
  <2> HIDE DEF s
  <2>2. 1 .. 1 = {1}
    OBVIOUS
  <2>3. QED
    BY <1>1, <2>1, <2>2 DEF Has, ChargeSteps, SendSteps, s
<1>2. CASE step = "effect_step"
  <2> DEFINE s == StepProgram(step)
  <2>1. /\ Len(s) = 7 /\ s[1] = "b0" /\ s[2] = "send" /\ s[3] = "await" /\ s[4] = "b1"
        /\ s[5] = "dbos_step_output_uncommitted" /\ s[6] = "effect_step"
        /\ s[7] = "dbos_step_output_committed_before_resume"
    BY <1>2 DEF StepProgram
  <2> HIDE DEF s
  <2>2. 1 .. 7 = {1, 2, 3, 4, 5, 6, 7}
    OBVIOUS
  <2>3. /\ Has(SendSteps, s) /\ Has({"await"}, s) /\ Has(ChargeSteps, s)
    BY <2>1, <2>2 DEF Has, ChargeSteps, SendSteps
  <2>4. ~ Has({"prepare_identity_step"}, s) /\ ~ Has({"enqueue"}, s)
    BY <2>1, <2>2 DEF Has
  <2>5. QED
    BY <1>2, <2>3, <2>4 DEF ChargeSteps, s
<1>3. CASE step = "sentinel_step"
  <2> DEFINE s == StepProgram(step)
  <2>1. Len(s) = 2 /\ s[1] = "b2" /\ s[2] = "sentinel_step"
    BY <1>3 DEF StepProgram
  <2> HIDE DEF s
  <2>2. 1 .. 2 = {1, 2}
    OBVIOUS
  <2>3. QED
    BY <1>3, <2>1, <2>2 DEF Has, ChargeSteps, SendSteps, s
<1>4. CASE step = "billing_charge"
  <2> DEFINE s == StepProgram(step)
  <2>1. /\ Len(s) = 4 /\ s[1] = "send_billing" /\ s[2] = "await"
        /\ s[3] = "dbos_duplicate_workflow_name_recovery" /\ s[4] = "billing_charge"
    BY <1>4 DEF StepProgram
  <2> HIDE DEF s
  <2>2. 1 .. 4 = {1, 2, 3, 4}
    OBVIOUS
  <2>3. /\ Has(SendSteps, s) /\ Has({"await"}, s) /\ Has(ChargeSteps, s)
    BY <2>1, <2>2 DEF Has, ChargeSteps, SendSteps
  <2>4. ~ Has({"prepare_identity_step"}, s) /\ ~ Has({"enqueue"}, s)
    BY <2>1, <2>2 DEF Has
  <2>5. QED
    BY <1>4, <2>3, <2>4 DEF ChargeSteps, s
<1>5. CASE step = "shipping_charge"
  <2> DEFINE s == StepProgram(step)
  <2>1. /\ Len(s) = 3 /\ s[1] = "send_shipping" /\ s[2] = "await" /\ s[3] = "shipping_charge"
    BY <1>5 DEF StepProgram
  <2> HIDE DEF s
  <2>2. 1 .. 3 = {1, 2, 3}
    OBVIOUS
  <2>3. /\ Has(SendSteps, s) /\ Has({"await"}, s) /\ Has(ChargeSteps, s)
    BY <2>1, <2>2 DEF Has, ChargeSteps, SendSteps
  <2>4. ~ Has({"prepare_identity_step"}, s) /\ ~ Has({"enqueue"}, s)
    BY <2>1, <2>2 DEF Has
  <2>5. QED
    BY <1>5, <2>3, <2>4 DEF ChargeSteps, s
<1>6. QED
  BY <1>1, <1>2, <1>3, <1>4, <1>5 DEF StepName

\* A workflow charges what is not recorded, and has nothing of it otherwise.
LEMMA WorkflowHas ==
  ASSUME NEW t \in Trials, NEW body \in {CrashBody(t), RecoveryBody(t)}, NEW r \in Nat
  PROVE  LET s == Workflow(body, r) IN
         /\ Has(SendSteps, s) <=> r < ChargeAt(t)
         /\ Awaits(s) <=> r < ChargeAt(t)
         /\ Has(ChargeSteps, s) <=> r < ChargeAt(t)
         /\ Has({"b0", "b1", "dbos_step_output_uncommitted",
                 "dbos_duplicate_workflow_name_recovery"}, s) => r < ChargeAt(t)
         /\ Has({"prepare_identity_step"}, s) <=> r = 0 /\ TwoPhase(t)
         /\ ~ Has({"enqueue"}, s)
<1> DEFINE f == <<"dbos_workflow_outcome_uncommitted", "commit_outcome">>
           B == {"b0", "b1", "dbos_step_output_uncommitted",
                 "dbos_duplicate_workflow_name_recovery"}
           W == Workflow(body, r)
<1>1. /\ ~ Has(SendSteps, f) /\ ~ Has({"await"}, f) /\ ~ Has(ChargeSteps, f) /\ ~ Has(B, f)
      /\ ~ Has({"prepare_identity_step"}, f) /\ ~ Has({"enqueue"}, f)
  <2>1. Len(f) = 2 /\ f[1] = "dbos_workflow_outcome_uncommitted" /\ f[2] = "commit_outcome"
    OBVIOUS
  <2> HIDE DEF f
  <2>2. 1 .. 2 = {1, 2}
    OBVIOUS
  <2>3. QED
    BY <2>1, <2>2 DEF Has, SendSteps, ChargeSteps
<1>2. \A X : ~ Has(X, f) =>
         (Has(X, W) <=> \E step \in StepName : /\ Performed(step, body, r)
                                               /\ Has(X, StepProgram(step)))
  BY HasWorkflow
<1> HIDE DEF f, B, W
<1>3. (\E step \in StepName : Performed(step, body, r) /\ step \in ChargeSteps) <=>
         r < ChargeAt(t)
  <2>1. ChargeSteps \subseteq StepName
    BY DEF ChargeSteps, StepName
  <2>2. QED
    BY <2>1, BodyPerforms
<1>4. Has(SendSteps, W) <=> r < ChargeAt(t)
  BY <1>1, <1>2, <1>3, StepHas, Zenon
<1>5. Has({"await"}, W) <=> r < ChargeAt(t)
  BY <1>1, <1>2, <1>3, StepHas, Zenon
<1>6. Has(ChargeSteps, W) <=> r < ChargeAt(t)
  BY <1>1, <1>2, <1>3, StepHas, Zenon
<1>7. Has(B, W) => r < ChargeAt(t)
  BY <1>1, <1>2, <1>3, StepHas, Zenon DEF B
<1>8. Has({"prepare_identity_step"}, W) <=> Performed("prepare_identity_step", body, r)
  <2>1. "prepare_identity_step" \in StepName
    BY DEF StepName
  <2>2. QED
    BY <1>1, <1>2, <2>1, StepHas, Zenon
<1>9. ~ Has({"enqueue"}, W)
  BY <1>1, <1>2, StepHas, Zenon
<1>10. QED
  BY <1>4, <1>5, <1>6, <1>7, <1>8, <1>9, BodyPerforms DEF Awaits, B, W

LEMMA DbosDurable ==
  ASSUME NEW t, t.engine = "dbos", NEW d
  PROVE  Durable(t, d) <=> Len(d.outputs) >= ChargeAt(t) \/ d.wf = "SUCCESS"
BY Zenon DEF Durable

\* None of DBOS's own steps is a barrier.
LEMMA DbosUnarmed ==
  ASSUME NEW b
  PROVE  (SendSteps \cup ChargeSteps \cup {"await", "prepare_identity_step", "enqueue"})
           \cap Unarmed(b) = {}
BY DEF Unarmed, Barrier, HiddenBarrier, HiddenPredictions, ReceiverBarrier, SendSteps, ChargeSteps

\* A program with these steps, armed, lies as it has to over what is recorded.
LEMMA DbosLaysOut ==
  ASSUME NEW t \in Trials, t.engine = "dbos", NEW h, NEW d, d.wf # "SUCCESS",
         Len(d.outputs) \in Nat, d.outputs = << >> <=> Len(d.outputs) = 0,
         NEW v \in Programs, Sorted(Rank, v),
         LET more == Len(d.outputs) < ChargeAt(t) IN
         /\ Has(SendSteps, v) <=> more
         /\ Awaits(v) <=> more
         /\ Has(ChargeSteps, v) <=> more
         /\ Has({"b0", "b1", "dbos_step_output_uncommitted",
                 "dbos_duplicate_workflow_name_recovery"}, v) => more
         /\ Has({"prepare_identity_step"}, v) <=> Len(d.outputs) = 0 /\ TwoPhase(t)
         /\ Has({"enqueue"}, v) => more
         /\ h = "crash_run" => Has({"enqueue"}, v) \/ d.wf # "absent",
         NEW b, NEW s, s = ArmedWith(v, b)
  PROVE  /\ s \in Programs /\ DbosLaid(t, h, s, d)
         /\ Has(SendSteps, s) <=> Len(d.outputs) < ChargeAt(t)
         /\ Awaits(s) <=> Len(d.outputs) < ChargeAt(t)
<1> DEFINE more == Len(d.outputs) < ChargeAt(t)
           B == {"b0", "b1", "dbos_step_output_uncommitted",
                 "dbos_duplicate_workflow_name_recovery"}
<1>1. s \in Programs /\ Sorted(Rank, s)
  BY SortedArmed
<1>2. \A X : Has(X, s) => Has(X, v)
  BY HasArmed
<1>3. \A X : X \subseteq SendSteps \cup ChargeSteps \cup
                           {"await", "prepare_identity_step", "enqueue"} =>
             (Has(X, s) <=> Has(X, v))
  <2>1. SUFFICES ASSUME NEW X, X \subseteq SendSteps \cup ChargeSteps \cup
                                             {"await", "prepare_identity_step", "enqueue"}
                 PROVE  Has(X, s) <=> Has(X, v)
    OBVIOUS
  <2>2. X \cap Unarmed(b) = {}
    BY <2>1, DbosUnarmed
  <2>3. QED
    BY <2>2, HasArmed
<1>4. /\ Has(SendSteps, s) <=> more
      /\ Has({"await"}, s) <=> more
      /\ Has(ChargeSteps, s) <=> more
      /\ Has({"prepare_identity_step"}, s) <=> Len(d.outputs) = 0 /\ TwoPhase(t)
      /\ Has({"enqueue"}, s) <=> Has({"enqueue"}, v)
  BY <1>3 DEF Awaits
<1>5. Has(B, s) => more
  BY <1>2
<1>6. more <=> ~ Durable(t, d)
  BY DbosDurable DEF ChargeAt
<1>7. TwoPhase(t) /\ more => Has({"prepare_identity_step"}, s) \/ d.outputs # << >>
  BY <1>4
<1> HIDE DEF more, B
<1>8. Has({"enqueue", "b0"}, s) => more
  <2>1. Has({"enqueue", "b0"}, s) => Has({"enqueue"}, s) \/ Has(B, s)
    BY DEF Has, B
  <2>2. QED
    BY <1>4, <1>5, <2>1 DEF more
<1>9. Has(SendSteps \cup {"b1", "dbos_step_output_uncommitted",
                          "dbos_duplicate_workflow_name_recovery"}, s) => more
  <2>1. Has(SendSteps \cup {"b1", "dbos_step_output_uncommitted",
                            "dbos_duplicate_workflow_name_recovery"}, s)
          => Has(SendSteps, s) \/ Has(B, s)
    BY DEF Has, B
  <2>2. QED
    BY <1>4, <1>5, <2>1
<1>10. DbosLaid(t, h, s, d)
  BY <1>1, <1>4, <1>6, <1>7, <1>8, <1>9 DEF DbosLaid, Awaits
<1>11. QED
  BY <1>1, <1>4, <1>10 DEF more, Awaits

LEMMA PlannedTrials ==
  ASSUME NEW t \in Trials, Planned(t)
  PROVE  /\ t.engine \in {"langgraph", "dbos", "temporal", "trueforge"}
         /\ t.engine = "langgraph" =>
              t.barrier \in {"b0", "b1", "b2", "lg_pre_first_checkpoint",
                             "lg_pending_writes_after_persist"}
         /\ t.engine = "dbos" =>
              t.barrier \in {"b0", "b1", "b2", "dbos_step_output_uncommitted",
                             "dbos_step_output_committed_before_resume",
                             "dbos_workflow_outcome_uncommitted",
                             "dbos_duplicate_workflow_name_recovery"}
         /\ t.engine = "temporal" =>
              t.barrier \in {"b0", "b1", "b2", "tmp_activity_scheduled_before_worker_poll",
                             "tmp_workflow_task_replay"}
         /\ t.engine = "trueforge" <=> t.barrier = ReceiverBarrier
<1>1. t.engine \in {"langgraph", "dbos", "temporal", "trueforge"}
  BY EngineRow DEF Planned
<1>2. t.barrier \in {"b0", "b1", "b2"} \/ t.barrier \in DOMAIN HiddenPredictions
      \/ t.barrier = ReceiverBarrier
  BY EngineRow DEF Barrier, HiddenBarrier
<1>3. t.engine = "trueforge" <=> t.barrier = ReceiverBarrier
  BY EngineRow
<1>4. t.barrier \in DOMAIN HiddenPredictions => t.engine = HiddenEngine(t.barrier)
  BY EngineAssumption
<1>5. DOMAIN HiddenPredictions =
        {"lg_pre_first_checkpoint", "lg_pending_writes_after_persist",
         "dbos_step_output_uncommitted", "dbos_step_output_committed_before_resume",
         "dbos_workflow_outcome_uncommitted", "dbos_duplicate_workflow_name_recovery",
         "tmp_activity_scheduled_before_worker_poll", "tmp_workflow_task_replay"}
  BY DEF HiddenPredictions
<1>6. QED
  BY <1>1, <1>2, <1>3, <1>4, <1>5 DEF HiddenEngine

LEMMA BarrierTable ==
  /\ ~ ({"b0", "lg_pre_first_checkpoint", "tmp_activity_scheduled_before_worker_poll"}
          \cap (MiddleBarriers \cup LateBarriers) # {})
  /\ MiddleBarriers \cap LateBarriers = {}
  /\ LateBarriers = {"b2", "lg_pending_writes_after_persist", "tmp_workflow_task_replay",
                     "dbos_step_output_committed_before_resume",
                     "dbos_workflow_outcome_uncommitted"}
BY DEF EarlyBarriers, MiddleBarriers, LateBarriers, Barrier, HiddenBarrier, HiddenPredictions,
       ReceiverBarrier

LEMMA LaidDbos ==
  ASSUME NEW t, t.engine = "dbos", NEW h, NEW s, NEW d
  PROVE  (Laid(t, h, s, d) <=> DbosLaid(t, h, s, d)) /\ (Due(t, s, d) <=> Has(SendSteps, s))
BY DEF Laid, Due

LEMMA DbosBegun ==
  ASSUME NEW t \in Trials, t.engine = "dbos"
  PROVE  /\ DbosCrashRun(t) \in Programs
         /\ DbosLaid(t, "crash_run", DbosCrashRun(t), DbosTables(t))
         /\ Has(SendSteps, DbosCrashRun(t))
<1> DEFINE d == DbosTables(t)
           w == Workflow(CrashBody(t), 0)
           u == <<"enqueue">>
           v == u \o w
<1>1. d.wf = "absent" /\ d.outputs = << >> /\ Len(d.outputs) = 0
  BY DEF DbosTables
<1>2. 0 < ChargeAt(t)
  BY DEF ChargeAt
<1>3. Spans(Rank, 2, 14, w) /\ Spans(Rank, 1, 1, u) /\ Spans(Rank, 1, 14, v)
  <2>1. Spans(Rank, 2, 14, w)
    BY WorkflowSpans
  <2>2. Spans(Rank, 1, 1, u)
    BY StepSpans
  <2>3. QED
    BY <2>1, <2>2, SpansConcat, RankTyped
<1>4. u \in Programs /\ w \in Programs /\ v \in Programs /\ Sorted(Rank, v)
  BY <1>3 DEF Spans
<1>5. \A X : Has(X, v) <=> Has(X, u) \/ Has(X, w)
  BY <1>4, HasConcat
<1>6. \A X : Has(X, u) <=> "enqueue" \in X
  BY DEF Has
<1> DEFINE B == {"b0", "b1", "dbos_step_output_uncommitted",
                 "dbos_duplicate_workflow_name_recovery"}
<1>7. /\ Has(SendSteps, w) /\ Awaits(w) /\ Has(ChargeSteps, w)
      /\ Has({"prepare_identity_step"}, w) <=> TwoPhase(t)
  BY <1>2, WorkflowHas
<1>8. /\ Has(SendSteps, v) /\ Awaits(v) /\ Has(ChargeSteps, v)
      /\ Has({"prepare_identity_step"}, v) <=> TwoPhase(t)
      /\ Has({"enqueue"}, v)
  BY <1>5, <1>6, <1>7 DEF Awaits
<1>9. DbosCrashRun(t) = ArmedWith(v, t.barrier)
  BY DEF DbosCrashRun
<1> HIDE DEF d, w, u, v
<1>10. QED
  BY <1>1, <1>2, <1>4, <1>8, <1>9, DbosLaysOut DEF d

LEMMA DbosResumed ==
  ASSUME NEW t \in Trials, t.engine = "dbos", NEW d \in DbosDisk, d.wf # "absent",
         NEW s, s = DbosRecoveryRun(t, d)
  PROVE  /\ s \in Programs /\ DbosLaid(t, "recovery_run", s, d)
         /\ Has(SendSteps, s) <=> ~ Durable(t, d)
<1>1. d.wf \in {"PENDING", "SUCCESS"} /\ d.outputs \in Seq(StepName) /\ Len(d.outputs) \in Nat
  BY DEF DbosDisk
<1>2. CASE d.wf = "SUCCESS"
  <2>1. s = << >>
    BY <1>2 DEF DbosRecoveryRun
  <2>2. Sorted(Rank, s)
    BY <2>1, SortedNone
  <2>3. QED
    BY <1>2, <2>1, <2>2, NothingOrdered, DbosDurable DEF DbosLaid
<1>3. CASE d.wf = "PENDING"
  <2> DEFINE r == Len(d.outputs)
             v == Workflow(RecoveryBody(t), r)
  <2>1. s = ArmedWith(v, "none")
    BY <1>3 DEF DbosRecoveryRun
  <2>2. Spans(Rank, 2, 14, v)
    BY <1>1, WorkflowSpans
  <2>3. v \in Programs /\ Sorted(Rank, v)
    BY <2>2 DEF Spans
  <2>4. /\ Has(SendSteps, v) <=> r < ChargeAt(t)
        /\ Awaits(v) <=> r < ChargeAt(t)
        /\ Has(ChargeSteps, v) <=> r < ChargeAt(t)
        /\ Has({"b0", "b1", "dbos_step_output_uncommitted",
                "dbos_duplicate_workflow_name_recovery"}, v) => r < ChargeAt(t)
        /\ Has({"prepare_identity_step"}, v) <=> r = 0 /\ TwoPhase(t)
        /\ ~ Has({"enqueue"}, v)
    BY <1>1, WorkflowHas
  <2>5. d.outputs = << >> <=> Len(d.outputs) = 0
    BY <1>1
  <2>6. r < ChargeAt(t) <=> ~ Durable(t, d)
    BY <1>1, <1>3, DbosDurable DEF ChargeAt
  <2> HIDE DEF v
  <2>7. QED
    BY <1>1, <1>3, <2>1, <2>3, <2>4, <2>5, <2>6, DbosLaysOut
<1>4. QED
  BY <1>1, <1>2, <1>3

\* What a DBOS process writes when it takes the first step of s.
DbosWrites(s, d, e) ==
  \/ Head(s) \notin StepName \cup {"enqueue", "commit_outcome"} /\ e = d
  \/ Head(s) = "enqueue" /\ e = [d EXCEPT !.wf = "PENDING"]
  \/ Head(s) \in StepName /\ e = [d EXCEPT !.outputs = Append(@, Head(s))]
  \/ Head(s) = "commit_outcome" /\ e = [d EXCEPT !.wf = "SUCCESS"]

LEMMA DbosWritten ==
  ASSUME NEW s, NEW d \in DbosDisk, NEW e, DbosWrites(s, d, e)
  PROVE  /\ Len(d.outputs) \in Nat /\ Len(e.outputs) \in Nat
         /\ d.outputs = << >> <=> Len(d.outputs) = 0
         /\ e.outputs = << >> <=> Len(e.outputs) = 0
         /\ Head(s) \in StepName => Len(e.outputs) = Len(d.outputs) + 1
         /\ Head(s) \notin StepName => e.outputs = d.outputs
         /\ Head(s) = "enqueue" => e.wf = "PENDING"
         /\ Head(s) = "commit_outcome" => e.wf = "SUCCESS"
         /\ Head(s) \notin {"enqueue", "commit_outcome"} => e.wf = d.wf
<1>1. /\ d.outputs \in Seq(StepName)
      /\ d = [wf |-> d.wf, outputs |-> d.outputs]
  BY DEF DbosDisk
<1>2. Len(d.outputs) \in Nat /\ (d.outputs = << >> <=> Len(d.outputs) = 0)
  BY <1>1
<1>3. "enqueue" \notin StepName /\ "commit_outcome" \notin StepName
  BY DEF StepName
<1>4. CASE Head(s) \in StepName
  <2> DEFINE o == Append(d.outputs, Head(s))
  <2>1. e = [d EXCEPT !.outputs = Append(@, Head(s))]
    BY <1>3, <1>4 DEF DbosWrites
  <2>2. e.outputs = o /\ e.wf = d.wf
    BY <1>1, <2>1
  <2>3. o \in Seq(StepName) /\ Len(o) = Len(d.outputs) + 1
    BY <1>1, <1>4
  <2>4. Len(o) \in Nat /\ (o = << >> <=> Len(o) = 0)
    BY <1>2, <2>3
  <2> HIDE DEF o
  <2>5. QED
    BY <1>2, <1>3, <1>4, <2>2, <2>3, <2>4
<1>5. CASE Head(s) \notin StepName
  <2>1. /\ e.outputs = d.outputs
        /\ Head(s) = "enqueue" => e.wf = "PENDING"
        /\ Head(s) = "commit_outcome" => e.wf = "SUCCESS"
        /\ Head(s) \notin {"enqueue", "commit_outcome"} => e.wf = d.wf
    BY <1>1, <1>5 DEF DbosWrites
  <2>2. QED
    BY <1>2, <1>5, <2>1
<1>6. QED
  BY <1>4, <1>5

LEMMA DbosOnward ==
  ASSUME NEW t \in Trials, NEW h, NEW s \in Programs, s # << >>, NEW d, DbosLaid(t, h, s, d)
  PROVE  /\ Tail(s) \in Programs /\ Sorted(Rank, Tail(s))
         /\ \A X : Has(X, s) <=> Head(s) \in X \/ Has(X, Tail(s))
         /\ Head(s) \in StepName \cup {"commit_outcome"} =>
              ~ Has({"prepare_identity_step"}, Tail(s))
         /\ Head(s) \in ChargeSteps \cup {"sentinel_step", "commit_outcome"} =>
              ~ Has(ChargeSteps, Tail(s))
         /\ Head(s) \in ChargeSteps =>
              ~ Has(SendSteps \cup {"b1", "dbos_step_output_uncommitted",
                                    "dbos_duplicate_workflow_name_recovery"}, Tail(s))
         /\ Head(s) = "await" => ~ Has(SendSteps, Tail(s))
         /\ Head(s) \in StepName => Head(s) \notin {"enqueue"} \cup SendSteps
         /\ Head(s) \in SendSteps => ~ Has(SendSteps, Tail(s)) /\ Awaits(Tail(s))
<1>1. Sorted(Rank, s) /\ Rank \in [Label -> Nat]
  BY RankTyped DEF DbosLaid
<1>2. Tail(s) \in Programs /\ Sorted(Rank, Tail(s))
  BY <1>1, SortedTail
<1>3. \A X : Has(X, s) <=> Head(s) \in X \/ Has(X, Tail(s))
  BY HasTail
<1>4. ASSUME NEW X, \A x \in X : x \in Label /\ Rank[x] \in 1 .. Rank[Head(s)]
      PROVE  ~ Has(X, Tail(s))
  BY <1>1, <1>4, SortedPast
<1>5. Head(s) \in StepName \cup {"commit_outcome"} => ~ Has({"prepare_identity_step"}, Tail(s))
  <2>1. Head(s) \in StepName \cup {"commit_outcome"} => Rank[Head(s)] \in {2, 9, 12, 14}
    BY RankTable DEF StepName
  <2>2. QED
    BY <1>4, <2>1, RankTable, Labels
<1>6. Head(s) \in ChargeSteps \cup {"sentinel_step", "commit_outcome"} =>
        ~ Has(ChargeSteps, Tail(s))
  <2>1. Head(s) \in ChargeSteps \cup {"sentinel_step", "commit_outcome"} =>
          Rank[Head(s)] \in {9, 12, 14}
    BY RankTable DEF ChargeSteps
  <2>2. \A x \in ChargeSteps : x \in Label /\ Rank[x] = 9
    BY RankTable, Labels DEF ChargeSteps
  <2>3. QED
    BY <1>4, <2>1, <2>2
<1>7. Head(s) \in ChargeSteps =>
        ~ Has(SendSteps \cup {"b1", "dbos_step_output_uncommitted",
                              "dbos_duplicate_workflow_name_recovery"}, Tail(s))
  <2>1. Head(s) \in ChargeSteps => Rank[Head(s)] = 9
    BY RankTable DEF ChargeSteps
  <2>2. \A x \in SendSteps \cup {"b1", "dbos_step_output_uncommitted",
                                 "dbos_duplicate_workflow_name_recovery"} :
          x \in Label /\ Rank[x] \in {5, 7, 8}
    BY RankTable, Labels DEF SendSteps
  <2>3. QED
    BY <1>4, <2>1, <2>2
<1>8. \A x \in SendSteps : x \in Label /\ Rank[x] = 5
  BY RankTable, Labels DEF SendSteps
<1>9. Head(s) = "await" => ~ Has(SendSteps, Tail(s))
  BY <1>4, <1>8, RankTable
<1>10. Head(s) \in SendSteps => ~ Has(SendSteps, Tail(s))
  BY <1>4, <1>8
<1>11. Head(s) \in SendSteps => Awaits(Tail(s))
  <2>1. Head(s) \in SendSteps => Head(s) # "await"
    BY DEF SendSteps
  <2>2. Head(s) \in SendSteps => Awaits(s)
    BY <1>3 DEF DbosLaid
  <2>3. QED
    BY <1>3, <2>1, <2>2 DEF Awaits
<1>12. Head(s) \in StepName => Head(s) \notin {"enqueue"} \cup SendSteps
  BY DEF StepName, SendSteps
<1>13. QED
  BY <1>2, <1>3, <1>5, <1>6, <1>7, <1>9, <1>10, <1>11, <1>12

LEMMA DbosPasses ==
  ASSUME NEW t \in Trials, t.engine = "dbos", NEW h, NEW s \in Programs, s # << >>,
         NEW d \in DbosDisk, DbosLaid(t, h, s, d), NEW e, DbosWrites(s, d, e)
  PROVE  /\ DbosLaid(t, h, Tail(s), e)
         /\ Head(s) \notin SendSteps => (Has(SendSteps, Tail(s)) <=> Has(SendSteps, s))
         /\ Head(s) # "await" => (Awaits(s) => Awaits(Tail(s)))
<1> DEFINE p == Tail(s)
           c == Head(s)
           n == Len(d.outputs)
           m == Len(e.outputs)
<1>0. /\ n \in Nat /\ m \in Nat
      /\ d.outputs = << >> <=> n = 0
      /\ e.outputs = << >> <=> m = 0
      /\ c \in StepName => m = n + 1
      /\ c \notin StepName => e.outputs = d.outputs
      /\ c = "enqueue" => e.wf = "PENDING"
      /\ c = "commit_outcome" => e.wf = "SUCCESS"
      /\ c \notin {"enqueue", "commit_outcome"} => e.wf = d.wf
  BY DbosWritten
<1>1. /\ p \in Programs /\ Sorted(Rank, p)
      /\ \A X : Has(X, s) <=> c \in X \/ Has(X, p)
      /\ c \in StepName \cup {"commit_outcome"} => ~ Has({"prepare_identity_step"}, p)
      /\ c \in ChargeSteps \cup {"sentinel_step", "commit_outcome"} => ~ Has(ChargeSteps, p)
      /\ c \in ChargeSteps => ~ Has(SendSteps \cup {"b1", "dbos_step_output_uncommitted",
                                    "dbos_duplicate_workflow_name_recovery"}, p)
      /\ c = "await" => ~ Has(SendSteps, p)
      /\ c \in SendSteps => ~ Has(SendSteps, p) /\ Awaits(p)
  BY DbosOnward
<1>2. c \notin StepName => m = n
  BY <1>0
<1>3. Durable(t, d) => Durable(t, e)
  <2>1. m >= n
    BY <1>0, <1>2
  <2>2. d.wf = "SUCCESS" => c = "enqueue" \/ e.wf = "SUCCESS"
    BY <1>0
  <2>3. c = "enqueue" => ~ Durable(t, d)
    <3>1. c = "enqueue" => Has({"enqueue", "b0"}, s)
      BY <1>1
    <3>2. Has({"enqueue", "b0"}, s) => Has(SendSteps, s)
      BY DEF DbosLaid
    <3>3. Has(SendSteps, s) => Has(ChargeSteps, s)
      <4>1. Has(SendSteps, s) =>
              Has(SendSteps \cup {"b1", "dbos_step_output_uncommitted",
                                  "dbos_duplicate_workflow_name_recovery"}, s)
        BY DEF Has
      <4>2. QED
        BY <4>1 DEF DbosLaid
    <3>4. Has(ChargeSteps, s) => ~ Durable(t, d)
      BY DEF DbosLaid
    <3>5. QED
      BY <3>1, <3>2, <3>3, <3>4
  <2>4. n >= ChargeAt(t) => m >= ChargeAt(t)
    BY <1>0, <2>1 DEF ChargeAt
  <2>5. QED
    BY <2>2, <2>3, <2>4, DbosDurable
<1>4. Has({"enqueue", "b0"}, p) => Has(SendSteps, p)
  <2>1. Has({"enqueue", "b0"}, p) => c \notin SendSteps
    <3>1. SUFFICES ASSUME c \in SendSteps PROVE ~ Has({"enqueue", "b0"}, p)
      OBVIOUS
    <3>2. Rank[c] = 5
      BY <3>1, RankTable DEF SendSteps
    <3>3. \A x \in {"enqueue", "b0"} : x \in Label /\ Rank[x] \in 1 .. Rank[c]
      BY <3>2, RankTable, Labels
    <3>4. Sorted(Rank, s)
      BY DEF DbosLaid
    <3>5. QED
      BY <3>3, <3>4, SortedPast, RankTyped
  <2>2. Has({"enqueue", "b0"}, s) => Has(SendSteps, s)
    BY DEF DbosLaid
  <2>3. QED
    BY <1>1, <2>1, <2>2
<1>5. Has(SendSteps, p) => Awaits(p)
  <2>1. Has(SendSteps, s) => Has({"await"}, s)
    BY DEF DbosLaid, Awaits
  <2>2. QED
    BY <1>1, <2>1 DEF Awaits
<1>6. Has(SendSteps \cup {"b1", "dbos_step_output_uncommitted",
                          "dbos_duplicate_workflow_name_recovery"}, p) => Has(ChargeSteps, p)
  <2>1. Has(SendSteps \cup {"b1", "dbos_step_output_uncommitted",
                            "dbos_duplicate_workflow_name_recovery"}, s) => Has(ChargeSteps, s)
    BY DEF DbosLaid
  <2>2. QED
    BY <1>1, <2>1
<1>7. Has(ChargeSteps, p) => /\ ~ Durable(t, e)
                             /\ TwoPhase(t) => \/ Has({"prepare_identity_step"}, p)
                                               \/ e.outputs # << >>
  <2>1. SUFFICES ASSUME Has(ChargeSteps, p)
                 PROVE  /\ ~ Durable(t, e)
                        /\ TwoPhase(t) => \/ Has({"prepare_identity_step"}, p)
                                          \/ e.outputs # << >>
    OBVIOUS
  <2>2. /\ ~ Durable(t, d)
        /\ TwoPhase(t) => Has({"prepare_identity_step"}, s) \/ d.outputs # << >>
    BY <1>1, <2>1 DEF DbosLaid
  <2>3. c \notin ChargeSteps \cup {"sentinel_step", "commit_outcome"}
    BY <1>1, <2>1
  <2>4. d.wf # "SUCCESS" /\ ~ (n >= ChargeAt(t))
    BY <2>2, DbosDurable
  <2>5. e.wf # "SUCCESS"
    BY <1>0, <2>3, <2>4
  <2>6. CASE c = "prepare_identity_step"
    <3>1. c \in StepName /\ Has({"prepare_identity_step"}, s)
      BY <1>1, <2>6 DEF StepName
    <3>2. TwoPhase(t) /\ n = 0
      BY <1>0, <3>1 DEF DbosLaid
    <3>3. m = 1
      BY <1>0, <3>1, <3>2
    <3>4. ~ (m >= ChargeAt(t))
      BY <3>2, <3>3 DEF ChargeAt
    <3>5. e.outputs # << >>
      BY <1>0, <3>3
    <3>6. ~ Durable(t, e)
      BY <2>5, <3>4, DbosDurable
    <3>7. QED
      BY <3>5, <3>6
  <2>7. CASE c # "prepare_identity_step"
    <3>1. c \notin StepName
      BY <2>3, <2>7 DEF StepName, ChargeSteps
    <3>2. e.outputs = d.outputs
      BY <1>0, <3>1
    <3>3. QED
      BY <1>1, <2>2, <2>4, <2>5, <2>7, <3>2, DbosDurable
  <2>8. QED
    BY <2>6, <2>7
<1>8. Has({"prepare_identity_step"}, p) => TwoPhase(t) /\ e.outputs = << >>
  <2>1. Has({"prepare_identity_step"}, s) => TwoPhase(t) /\ d.outputs = << >>
    BY DEF DbosLaid
  <2>2. QED
    BY <1>0, <1>1, <2>1
<1>9. Has({"dbos_step_output_committed_before_resume", "b2",
           "dbos_workflow_outcome_uncommitted"}, p) => Has(ChargeSteps, p) \/ Durable(t, e)
  <2>1. SUFFICES ASSUME Has({"dbos_step_output_committed_before_resume", "b2",
                             "dbos_workflow_outcome_uncommitted"}, p)
                 PROVE  Has(ChargeSteps, p) \/ Durable(t, e)
    OBVIOUS
  <2>2. Has(ChargeSteps, s) \/ Durable(t, d)
    BY <1>1, <2>1 DEF DbosLaid
  <2>3. CASE c \in ChargeSteps
    <3>1. Has(ChargeSteps, s) /\ ~ Has({"prepare_identity_step"}, s)
      <4>1. c \in StepName /\ c # "prepare_identity_step"
        BY <2>3 DEF ChargeSteps, StepName
      <4>2. QED
        BY <1>1, <2>3, <4>1
    <3>2. TwoPhase(t) => n # 0
      BY <1>0, <3>1 DEF DbosLaid
    <3>3. m = n + 1
      BY <1>0, <2>3 DEF ChargeSteps, StepName
    <3>4. m >= ChargeAt(t)
      BY <1>0, <3>2, <3>3 DEF ChargeAt
    <3>5. QED
      BY <3>4, DbosDurable
  <2>4. CASE c \notin ChargeSteps
    BY <1>1, <1>3, <2>2, <2>4
  <2>5. QED
    BY <2>3, <2>4
<1>10. h = "crash_run" => Has({"enqueue"}, p) \/ e.wf # "absent"
  <2>1. h = "crash_run" => Has({"enqueue"}, s) \/ d.wf # "absent"
    BY DEF DbosLaid
  <2>2. QED
    BY <1>0, <1>1, <2>1
<1>11. DbosLaid(t, h, p, e)
  BY <1>1, <1>4, <1>5, <1>6, <1>7, <1>8, <1>9, <1>10 DEF DbosLaid
<1>12. QED
  BY <1>1, <1>11 DEF Awaits

\* What strikes in a DBOS process: a barrier it is armed with, over pending tables.
LEMMA DbosCuts ==
  ASSUME NEW t \in Trials, t.engine = "dbos", Planned(t), NEW s \in Programs, s # << >>,
         Head(s) = t.barrier, NEW d \in DbosDisk, DbosLaid(t, "crash_run", s, d)
  PROVE  Cuts(t, s, d)
<1> DEFINE c == Head(s)
<1>1. c \in {"b0", "b1", "b2", "dbos_step_output_uncommitted",
             "dbos_step_output_committed_before_resume", "dbos_workflow_outcome_uncommitted",
             "dbos_duplicate_workflow_name_recovery"}
  BY PlannedTrials
<1>2. Sorted(Rank, s) /\ Rank \in [Label -> Nat]
  BY RankTyped DEF DbosLaid
<1>3. ASSUME NEW X, c \notin X, \A x \in X : x \in Label /\ Rank[x] \in 1 .. Rank[c]
      PROVE  ~ Has(X, s)
  BY <1>2, <1>3, SortedPast
<1>4. c \in {"b0", "b1", "dbos_step_output_uncommitted", "dbos_duplicate_workflow_name_recovery",
             "dbos_step_output_committed_before_resume", "b2",
             "dbos_workflow_outcome_uncommitted"} /\
      Rank[c] \in {3, 7, 8, 10, 11, 13} /\ (c # "b0" => Rank[c] >= 7)
  BY <1>1, RankTable
<1>5. ~ Has({"enqueue"}, s)
  <2>1. c \notin {"enqueue"}
    BY <1>1
  <2>2. QED
    BY <1>3, <1>4, <2>1, RankTable, Labels
<1>6. d.wf \in {"PENDING", "SUCCESS"}
  BY <1>5 DEF DbosLaid, DbosDisk
<1>7. c # "b0" => ~ Has(SendSteps, s) /\ ~ Awaits(s)
  <2>1. c \notin SendSteps \cup {"await"}
    BY <1>1 DEF SendSteps
  <2>2. \A x \in SendSteps \cup {"await"} : x \in Label /\ Rank[x] \in {5, 6}
    BY RankTable, Labels DEF SendSteps
  <2>3. c # "b0" => ~ Has(SendSteps \cup {"await"}, s)
    BY <1>3, <1>4, <2>1, <2>2
  <2>4. QED
    BY <2>3 DEF Has, Awaits
<1>8. c = "b0" => Has(SendSteps, s)
  BY HasTail DEF DbosLaid
<1>9. c \in {"b1", "dbos_step_output_uncommitted", "dbos_duplicate_workflow_name_recovery"} =>
        ~ Durable(t, d)
  <2>1. c \in {"b1", "dbos_step_output_uncommitted", "dbos_duplicate_workflow_name_recovery"} =>
          Has(SendSteps \cup {"b1", "dbos_step_output_uncommitted",
                              "dbos_duplicate_workflow_name_recovery"}, s)
    BY HasTail
  <2>2. QED
    BY <2>1 DEF DbosLaid
<1>10. c \in {"dbos_step_output_committed_before_resume", "b2",
              "dbos_workflow_outcome_uncommitted"} => Durable(t, d)
  <2>1. c \in {"dbos_step_output_committed_before_resume", "b2",
               "dbos_workflow_outcome_uncommitted"} =>
          /\ Has({"dbos_step_output_committed_before_resume", "b2",
                  "dbos_workflow_outcome_uncommitted"}, s)
          /\ Rank[c] >= 10
    BY HasTail, RankTable
  <2>2. c \notin ChargeSteps
    BY <1>1 DEF ChargeSteps
  <2>3. \A x \in ChargeSteps : x \in Label /\ Rank[x] = 9
    BY RankTable, Labels DEF ChargeSteps
  <2>4. Rank[c] >= 10 => ~ Has(ChargeSteps, s)
    BY <1>3, <1>4, <2>2, <2>3
  <2>5. QED
    BY <2>1, <2>4 DEF DbosLaid
<1> DEFINE r == DbosRecoveryRun(t, d)
<1>11. /\ DbosLaid(t, "recovery_run", r, d)
       /\ Has(SendSteps, r) <=> ~ Durable(t, d)
  BY <1>6, DbosResumed
<1>12. RecoveryRun(t, d) = r
  BY DEF RecoveryRun
<1> HIDE DEF r
<1>13. /\ Laid(t, "recovery_run", r, d)
       /\ Due(t, r, d) <=> ~ Durable(t, d)
       /\ Due(t, s, d) <=> Has(SendSteps, s)
  BY <1>11, LaidDbos
<1>14. /\ t.barrier \in EarlyBarriers => c = "b0"
       /\ t.barrier \in MiddleBarriers =>
            c \in {"b1", "dbos_step_output_uncommitted", "dbos_duplicate_workflow_name_recovery"}
       /\ t.barrier \in LateBarriers =>
            c \in {"dbos_step_output_committed_before_resume", "b2",
                   "dbos_workflow_outcome_uncommitted"}
       /\ ~ Unstored(t)
  BY <1>1, BarrierTable DEF EarlyBarriers, MiddleBarriers, Unstored
<1>15. Recovers(t, d)
  BY <1>9, <1>10, <1>12, <1>13, <1>14 DEF Recovers
<1>16. QED
  BY <1>7, <1>8, <1>13, <1>14, <1>15 DEF Cuts

\* A DBOS process whose program is at an end has nothing to send.
LEMMA DbosKillAwaits ==
  ASSUME NEW t \in Trials, t.engine = "dbos", Planned(t), NEW h, NEW s \in Programs, s # << >>,
         Head(s) = t.barrier, NEW d, DbosLaid(t, h, s, d)
  PROVE  Due(t, s, d) \/ ~ Awaits(s)
<1> DEFINE c == Head(s)
<1>1. c \in {"b0", "b1", "b2", "dbos_step_output_uncommitted",
             "dbos_step_output_committed_before_resume", "dbos_workflow_outcome_uncommitted",
             "dbos_duplicate_workflow_name_recovery"}
  BY PlannedTrials
<1>2. Sorted(Rank, s) /\ Rank \in [Label -> Nat]
  BY RankTyped DEF DbosLaid
<1>3. c # "b0" => ~ Awaits(s)
  <2>1. c # "b0" => "await" \in Label /\ Rank["await"] \in 1 .. Rank[c] /\ c \notin {"await"}
    BY <1>1, RankTable, Labels
  <2>2. QED
    BY <1>2, <2>1, SortedPast DEF Awaits
<1>4. c = "b0" => Has(SendSteps, s)
  BY HasTail DEF DbosLaid
<1>5. QED
  BY <1>3, <1>4, LaidDbos

\* What a Temporal worker writes when it takes the first step of s.
TemporalWrites(t, s, d, e) ==
  \/ Head(s) \notin {"start_workflow", "poll", "decide", "report"} /\ e = d
  \/ Head(s) = "start_workflow" /\ e = [d EXCEPT !.wf = "open", !.wft = "ready"]
  \/ Head(s) = "poll" /\ d.wf = "closed" /\ e = d
  \/ /\ Head(s) = "decide"
     /\ e = IF d.next < Len(Activities(t))
              THEN [d EXCEPT !.wft = "none", !.act = "ready", !.attempt = 1]
              ELSE [d EXCEPT !.wft = "none", !.wf = "closed"]
  \/ /\ Head(s) = "report"
     /\ e = IF d.act # "taken" THEN d
            ELSE [d EXCEPT !.next = @ + 1, !.act = "none", !.wft = "ready",
                           !.started = IF d.next = 0 THEN d.attempt ELSE @]

LEMMA TemporalWritten ==
  ASSUME NEW t, NEW s, NEW d \in TemporalDisk, NEW e, TemporalWrites(t, s, d, e)
  PROVE  /\ d.next \in Nat
         /\ Head(s) # "report" => e.next = d.next
         /\ Head(s) \notin {"decide", "report"} => e.act = d.act
         /\ Head(s) = "report" /\ d.act = "taken" => e.next = d.next + 1
         /\ e.wf = "closed" => d.wf = "closed" \/ d.next >= 1
<1>1. /\ d.next \in 0 .. 2
      /\ d = [wf |-> d.wf, wft |-> d.wft, next |-> d.next, act |-> d.act,
              attempt |-> d.attempt, started |-> d.started, timedOut |-> d.timedOut]
  BY DEF TemporalDisk
<1>2. d.next \in Nat
  BY <1>1
<1>3. CASE Head(s) \notin {"start_workflow", "poll", "decide", "report"}
  BY <1>1, <1>3 DEF TemporalWrites
<1>4. CASE Head(s) = "start_workflow"
  <2>1. e = [d EXCEPT !.wf = "open", !.wft = "ready"]
    BY <1>4 DEF TemporalWrites
  <2>2. e.next = d.next /\ e.act = d.act /\ e.wf = "open"
    BY <1>1, <2>1
  <2>3. QED
    BY <1>2, <1>4, <2>2
<1>5. CASE Head(s) = "poll"
  BY <1>1, <1>5 DEF TemporalWrites
<1>6. CASE Head(s) = "decide"
  <2>1. CASE d.next < Len(Activities(t))
    <3>1. e = [d EXCEPT !.wft = "none", !.act = "ready", !.attempt = 1]
      BY <1>6, <2>1 DEF TemporalWrites
    <3>2. e.next = d.next /\ e.wf = d.wf
      BY <1>1, <3>1
    <3>3. QED
      BY <1>2, <1>6, <3>2
  <2>2. CASE ~ (d.next < Len(Activities(t)))
    <3>1. d.next >= 1
      BY <1>1, <2>2, TemporalActivities
    <3>2. e = [d EXCEPT !.wft = "none", !.wf = "closed"]
      BY <1>6, <2>2 DEF TemporalWrites
    <3>3. e.next = d.next
      BY <1>1, <3>2
    <3>4. QED
      BY <1>2, <1>6, <3>1, <3>3
  <2>3. QED
    BY <2>1, <2>2
<1>7. CASE Head(s) = "report"
  <2>1. CASE d.act = "taken"
    <3>1. e = [d EXCEPT !.next = @ + 1, !.act = "none", !.wft = "ready",
                        !.started = IF d.next = 0 THEN d.attempt ELSE @]
      BY <1>7, <2>1 DEF TemporalWrites
    <3>2. e.next = d.next + 1 /\ e.wf = d.wf
      BY <1>1, <3>1
    <3>3. QED
      BY <1>2, <1>7, <2>1, <3>2
  <2>2. CASE d.act # "taken"
    BY <1>1, <1>7, <2>2 DEF TemporalWrites
  <2>3. QED
    BY <2>1, <2>2
<1>8. QED
  BY <1>2, <1>3, <1>4, <1>5, <1>6, <1>7

LEMMA LaidTemporal ==
  ASSUME NEW t, t.engine = "temporal", NEW h, NEW s, NEW d
  PROVE  /\ Laid(t, h, s, d) <=> TemporalLaid(s, d)
         /\ Due(t, s, d) <=> Sending(s) \/ (d.next = 0 /\ ~ Has({"report"}, s))
         /\ Durable(t, d) <=> d.next >= 1 \/ d.wf = "closed"
BY Zenon DEF Laid, Due, Durable

\* A worker that is to poll and no more.
LEMMA TemporalPolls ==
  ASSUME NEW t, t.engine = "temporal", NEW h, NEW d, d.wf = "closed" => d.next >= 1,
         NEW s, s = <<"poll">>
  PROVE  /\ s \in Programs /\ Laid(t, h, s, d)
         /\ Due(t, s, d) <=> d.next = 0
<1>1. s \in Programs
  BY Labels DEF Programs
<1>2. Sorted(Rank, s)
  <2>1. Len(s) = 1
    OBVIOUS
  <2>2. QED
    BY <2>1 DEF Sorted
<1>3. \A X : Has(X, s) <=> "poll" \in X
  BY DEF Has
<1>4. QED
  BY <1>1, <1>2, <1>3, LaidTemporal DEF TemporalLaid, Sending, Awaits

LEMMA TemporalBegun ==
  ASSUME NEW t, t.engine = "temporal"
  PROVE  /\ Laid(t, "crash_run", TemporalCrashRun(t), TemporalHistory(t))
         /\ Due(t, TemporalCrashRun(t), TemporalHistory(t))
<1> DEFINE s == TemporalCrashRun(t)
           d == TemporalHistory(t)
<1>1. s = <<"start_workflow", "poll">>
  BY DEF TemporalCrashRun
<1>2. d.next = 0 /\ d.wf = "absent"
  BY DEF TemporalHistory
<1>3. Len(s) = 2 /\ s[1] = "start_workflow" /\ s[2] = "poll"
  BY <1>1
<1>4. Sorted(Rank, s)
  <2>1. \A m, n \in 1 .. Len(s) : m < n => m = 1 /\ n = 2
    BY <1>3
  <2>2. QED
    BY <1>3, <2>1, RankTable DEF Sorted
<1>5. \A X : Has(X, s) <=> "start_workflow" \in X \/ "poll" \in X
  BY <1>3 DEF Has
<1>6. QED
  BY <1>2, <1>4, <1>5, LaidTemporal DEF TemporalLaid, Sending, Awaits

LEMMA TemporalOnward ==
  ASSUME NEW s \in Programs, s # << >>, NEW d, TemporalLaid(s, d)
  PROVE  /\ Tail(s) \in Programs /\ Sorted(Rank, Tail(s))
         /\ \A X : Has(X, s) <=> Head(s) \in X \/ Has(X, Tail(s))
         /\ Head(s) \in {"send", "await", "b1", "b2", "report", "poll"} => ~ Sending(Tail(s))
         /\ Head(s) \in {"send", "await", "b1", "b2", "report", "poll"} => ~ Has({"b0"}, Tail(s))
         /\ Head(s) \in {"b1", "b2", "report", "poll"} => ~ Awaits(Tail(s))
         /\ Head(s) \in {"report", "poll"} => ~ Has({"send", "await", "b1", "report"}, Tail(s))
         /\ Head(s) = "poll" => ~ Has({"b2", "decide", "start_workflow", "poll"}, Tail(s))
<1>1. Sorted(Rank, s) /\ Rank \in [Label -> Nat]
  BY RankTyped DEF TemporalLaid
<1>2. Tail(s) \in Programs /\ Sorted(Rank, Tail(s))
  BY <1>1, SortedTail
<1>3. \A X : Has(X, s) <=> Head(s) \in X \/ Has(X, Tail(s))
  BY HasTail
<1>4. ASSUME NEW X, \A x \in X : x \in Label /\ Rank[x] \in 1 .. Rank[Head(s)]
      PROVE  ~ Has(X, Tail(s))
  BY <1>1, <1>4, SortedPast
<1> DEFINE k == Rank[Head(s)]
<1>k. /\ Head(s) \in {"send", "await", "b1", "b2", "report", "poll"} => k \in {5, 6, 7, 11, 12, 15}
      /\ Head(s) \in {"b1", "b2", "report", "poll"} => k \in {7, 11, 12, 15}
      /\ Head(s) \in {"report", "poll"} => k \in {12, 15}
      /\ Head(s) = "poll" => k = 15
  BY RankTable
<1> HIDE DEF k
<1>5. Head(s) \in {"send", "await", "b1", "b2", "report", "poll"} => ~ Has({"send"}, Tail(s))
  BY <1>4, <1>k, RankTable, Labels DEF k
<1>6. Head(s) \in {"send", "await", "b1", "b2", "report", "poll"} => ~ Has({"b0"}, Tail(s))
  BY <1>4, <1>k, RankTable, Labels DEF k
<1>7. Head(s) \in {"b1", "b2", "report", "poll"} => ~ Has({"await"}, Tail(s))
  BY <1>4, <1>k, RankTable, Labels DEF k
<1>8. Head(s) \in {"report", "poll"} => ~ Has({"send", "await", "b1", "report"}, Tail(s))
  <2>1. \A x \in {"send", "await", "b1", "report"} : x \in Label /\ Rank[x] \in {5, 6, 7, 12}
    BY RankTable, Labels
  <2>2. k \in {12, 15} => \A i \in {5, 6, 7, 12} : i \in 1 .. k
    OBVIOUS
  <2>3. QED
    BY <1>4, <1>k, <2>1, <2>2 DEF k
<1>9. Head(s) = "poll" => ~ Has({"b2", "decide", "start_workflow", "poll"}, Tail(s))
  <2>1. \A x \in {"b2", "decide", "start_workflow", "poll"} :
          x \in Label /\ Rank[x] \in {11, 2, 1, 15}
    BY RankTable, Labels
  <2>2. k = 15 => \A i \in {11, 2, 1, 15} : i \in 1 .. k
    OBVIOUS
  <2>3. QED
    BY <1>4, <1>k, <2>1, <2>2 DEF k
<1>10. QED
  BY <1>2, <1>3, <1>5, <1>6, <1>7, <1>8, <1>9 DEF Sending, Awaits

LEMMA TemporalPasses ==
  ASSUME NEW t \in Trials, t.engine = "temporal", NEW h, NEW s \in Programs, s # << >>,
         NEW d \in TemporalDisk, Laid(t, h, s, d), NEW e, TemporalWrites(t, s, d, e)
  PROVE  /\ Laid(t, h, Tail(s), e)
         /\ Head(s) # "send" => (Due(t, Tail(s), e) <=> Due(t, s, d))
         /\ Head(s) = "send" => ~ Due(t, Tail(s), e) /\ Awaits(Tail(s)) /\ Due(t, s, d)
         /\ Awaits(s) => Awaits(Tail(s)) \/ Head(s) = "await"
<1> DEFINE p == Tail(s)
           c == Head(s)
<1>1. TemporalLaid(s, d)
  BY LaidTemporal
<1>2. /\ p \in Programs /\ Sorted(Rank, p)
      /\ \A X : Has(X, s) <=> c \in X \/ Has(X, p)
      /\ c \in {"send", "await", "b1", "b2", "report", "poll"} => ~ Sending(p)
      /\ c \in {"send", "await", "b1", "b2", "report", "poll"} => ~ Has({"b0"}, p)
      /\ c \in {"b1", "b2", "report", "poll"} => ~ Awaits(p)
      /\ c \in {"report", "poll"} => ~ Has({"send", "await", "b1", "report"}, p)
      /\ c = "poll" => ~ Has({"b2", "decide", "start_workflow", "poll"}, p)
  BY <1>1, TemporalOnward
<1>3. /\ d.next \in Nat
      /\ c # "report" => e.next = d.next
      /\ c \notin {"decide", "report"} => e.act = d.act
      /\ c = "report" /\ d.act = "taken" => e.next = d.next + 1
      /\ e.wf = "closed" => d.wf = "closed" \/ d.next >= 1
  BY TemporalWritten
<1>4. /\ Has({"b0"}, s) => Sending(s)
      /\ Sending(s) => Awaits(s)
      /\ Has({"send", "await", "b1"}, s) => d.next = 0 /\ Has({"report"}, s)
      /\ Has({"report"}, s) => d.act = "taken" /\ ~ Has({"decide"}, s)
      /\ Has({"b2"}, s) \/ d.wf = "closed" \/ ~ Has({"poll"}, s) => d.next >= 1
  BY <1>1 DEF TemporalLaid
<1>5. c = "poll" => d.wf = "closed"
  BY DEF TemporalWrites
<1> HIDE DEF p, c
<1>6. /\ Sending(s) <=> c = "send" \/ Sending(p)
      /\ Awaits(s) <=> c = "await" \/ Awaits(p)
      /\ Has({"b0"}, p) => Has({"b0"}, s)
      /\ Has({"send", "await", "b1"}, p) => Has({"send", "await", "b1"}, s)
      /\ Has({"report"}, s) <=> c = "report" \/ Has({"report"}, p)
      /\ Has({"decide"}, s) <=> c = "decide" \/ Has({"decide"}, p)
      /\ Has({"b2"}, p) => Has({"b2"}, s)
      /\ Has({"poll"}, s) <=> c = "poll" \/ Has({"poll"}, p)
  BY <1>2 DEF Sending, Awaits
<1>7. Has({"b0"}, p) => Sending(p)
  BY <1>2, <1>4, <1>6
<1>8. Sending(p) => Awaits(p)
  BY <1>2, <1>4, <1>6
<1>a. c \in {"report", "poll"} => ~ Has({"report"}, p)
  <2>1. Has({"report"}, p) => Has({"send", "await", "b1", "report"}, p)
    BY DEF Has
  <2>2. QED
    BY <1>2, <2>1
<1>b. c = "report" => ~ Has({"send", "await", "b1"}, p)
  <2>1. Has({"send", "await", "b1"}, p) => Has({"send", "await", "b1", "report"}, p)
    BY DEF Has
  <2>2. QED
    BY <1>2, <2>1
<1>9. Has({"send", "await", "b1"}, p) => e.next = 0 /\ Has({"report"}, p)
  BY <1>3, <1>4, <1>6, <1>b
<1>10. Has({"report"}, p) => e.act = "taken" /\ ~ Has({"decide"}, p)
  BY <1>3, <1>4, <1>6, <1>a
<1>11. Has({"b2"}, p) \/ e.wf = "closed" \/ ~ Has({"poll"}, p) => e.next >= 1
  <2>1. CASE c = "report"
    BY <1>3, <1>4, <1>6, <2>1
  <2>2. CASE c # "report"
    <3>1. Has({"b2"}, p) \/ e.wf = "closed" \/ ~ Has({"poll"}, p) => d.next >= 1
      BY <1>3, <1>4, <1>5, <1>6
    <3>2. QED
      BY <1>3, <2>2, <3>1
  <2>3. QED
    BY <2>1, <2>2
<1>c. ~ Has({"tmp_activity_scheduled_before_worker_poll"}, p)
  BY <1>1, <1>2 DEF TemporalLaid
<1>12. TemporalLaid(p, e)
  BY <1>2, <1>7, <1>8, <1>9, <1>10, <1>11, <1>c DEF TemporalLaid
<1>13. /\ Due(t, s, d) <=> Sending(s) \/ (d.next = 0 /\ ~ Has({"report"}, s))
       /\ Due(t, p, e) <=> Sending(p) \/ (e.next = 0 /\ ~ Has({"report"}, p))
  BY LaidTemporal
<1>14. CASE c = "send"
  <2>1. Sending(s) /\ Has({"send", "await", "b1"}, s) /\ ~ Sending(p)
    BY <1>2, <1>6, <1>14 DEF Sending, Has
  <2>2. Has({"report"}, p) /\ Awaits(p)
    BY <1>4, <1>6, <1>14, <2>1
  <2>3. QED
    BY <1>12, <1>13, <1>14, <2>1, <2>2, LaidTemporal DEF c, p
<1>15. CASE c = "report"
  <2>1. ~ Sending(p) /\ ~ Sending(s) /\ Has({"report"}, s) /\ e.next >= 1
    BY <1>2, <1>3, <1>4, <1>6, <1>15
  <2>2. e.next # 0
    BY <2>1
  <2>3. QED
    BY <1>6, <1>12, <1>13, <1>15, <2>1, <2>2, LaidTemporal DEF c, p
<1>16. CASE c \notin {"send", "report"}
  <2>1. e.next = d.next /\ (Sending(s) <=> Sending(p))
        /\ (Has({"report"}, s) <=> Has({"report"}, p))
    BY <1>3, <1>6, <1>16
  <2>2. QED
    BY <1>6, <1>12, <1>13, <1>16, <2>1, LaidTemporal DEF c, p
<1>17. QED
  BY <1>14, <1>15, <1>16

\* What a worker takes on comes before it polls again.
LEMMA TasksRanked ==
  ASSUME NEW b
  PROVE  /\ LET u == ArmedWith(<<"tmp_workflow_task_replay", "decide">>, b) IN
              /\ Spans(Rank, 1, 2, u)
              /\ ~ Has({"b0", "send", "await", "b1", "b2", "report"}, u)
         /\ LET u == ArmedWith(<<"b0", "send", "await", "b1", "report">>, b) IN
              /\ Spans(Rank, 3, 12, u) /\ ~ Has({"b2", "decide"}, u)
              /\ Sending(u) /\ Awaits(u) /\ Has({"report"}, u)
         /\ LET u == ArmedWith(<<"b2", "report">>, b) IN
              /\ Spans(Rank, 11, 12, u) /\ ~ Has({"b0", "send", "await", "b1", "decide"}, u)
              /\ Has({"report"}, u)
         /\ \A u \in {<<"tmp_workflow_task_replay", "decide">>,
                     <<"b0", "send", "await", "b1", "report">>, <<"b2", "report">>} :
              ~ Has({"tmp_activity_scheduled_before_worker_poll"}, ArmedWith(u, b))
<1> DEFINE u == <<"tmp_workflow_task_replay", "decide">>
           v == <<"b0", "send", "await", "b1", "report">>
           w == <<"b2", "report">>
<1>1. u \in Programs /\ v \in Programs /\ w \in Programs
  BY Labels DEF Programs
<1>2. Spans(Rank, 1, 2, u)
  <2>1. Len(u) = 2 /\ u[1] = "tmp_workflow_task_replay" /\ u[2] = "decide"
    OBVIOUS
  <2> HIDE DEF u
  <2>2. \A m, n \in 1 .. Len(u) : m < n => m = 1 /\ n = 2
    BY <2>1
  <2>3. Sorted(Rank, u)
    BY <2>1, <2>2, RankTable DEF Sorted
  <2>4. \A n \in 1 .. Len(u) : n = 1 \/ n = 2
    BY <2>1
  <2>5. QED
    BY <1>1, <2>1, <2>3, <2>4, RankTable DEF Spans
<1>3. Spans(Rank, 11, 12, w)
  <2>1. Len(w) = 2 /\ w[1] = "b2" /\ w[2] = "report"
    OBVIOUS
  <2> HIDE DEF w
  <2>2. \A m, n \in 1 .. Len(w) : m < n => m = 1 /\ n = 2
    BY <2>1
  <2>3. Sorted(Rank, w)
    BY <2>1, <2>2, RankTable DEF Sorted
  <2>4. \A n \in 1 .. Len(w) : n = 1 \/ n = 2
    BY <2>1
  <2>5. QED
    BY <1>1, <2>1, <2>3, <2>4, RankTable DEF Spans
<1>4. Spans(Rank, 3, 12, v)
  <2>1. Len(v) = 5 /\ v[1] = "b0" /\ v[2] = "send" /\ v[3] = "await" /\ v[4] = "b1"
        /\ v[5] = "report"
    OBVIOUS
  <2> HIDE DEF v
  <2>2. \A n \in 1 .. Len(v) : n \in {1, 2, 3, 4, 5}
    BY <2>1
  <2>3. Rank[v[1]] = 3 /\ Rank[v[2]] = 5 /\ Rank[v[3]] = 6 /\ Rank[v[4]] = 7 /\ Rank[v[5]] = 12
    BY <2>1, RankTable
  <2>4. \A m, n \in {1, 2, 3, 4, 5} : m < n => Rank[v[m]] < Rank[v[n]]
    BY <2>3
  <2>5. Sorted(Rank, v)
    BY <2>2, <2>4 DEF Sorted
  <2>6. \A n \in 1 .. Len(v) : Rank[v[n]] \in 3 .. 12
    <3>1. \A n \in {1, 2, 3, 4, 5} : Rank[v[n]] \in 3 .. 12
      BY <2>3
    <3>2. QED
      BY <2>2, <3>1
  <2>7. QED
    BY <1>1, <2>5, <2>6 DEF Spans
<1>5. /\ ~ Has({"b0", "send", "await", "b1", "b2", "report"}, u)
      /\ ~ Has({"b2", "decide"}, v)
      /\ ~ Has({"b0", "send", "await", "b1", "decide"}, w)
  BY DEF Has
<1>6. Has({"send"}, v) /\ Has({"await"}, v) /\ Has({"report"}, v) /\ Has({"report"}, w)
  <2>1. v[2] = "send" /\ v[3] = "await" /\ v[5] = "report" /\ Len(v) = 5
        /\ w[2] = "report" /\ Len(w) = 2
    OBVIOUS
  <2>2. QED
    BY <2>1 DEF Has
<1>7. \A x \in {"send", "await", "report"} : {x} \cap Unarmed(b) = {}
  BY DEF Unarmed, Barrier, HiddenBarrier, HiddenPredictions, ReceiverBarrier
<1> HIDE DEF u, v, w
<1>8. ASSUME NEW lo, NEW hi, NEW s, Spans(Rank, lo, hi, s)
      PROVE  Spans(Rank, lo, hi, ArmedWith(s, b))
  <2>1. s \in Programs /\ Sorted(Rank, s)
        /\ \A n \in 1 .. Len(s) : Rank[s[n]] \in lo .. hi
    BY <1>8 DEF Spans
  <2> DEFINE q == ArmedWith(s, b)
  <2>2. q \in Programs /\ Sorted(Rank, q)
    BY <2>1, SortedArmed
  <2>3. \E f : Places(f, q, s)
    BY <2>1, ArmedPlaces
  <2> HIDE DEF q
  <2>4. \A n \in 1 .. Len(q) : Rank[q[n]] \in lo .. hi
    BY <2>1, <2>3 DEF Places
  <2>5. QED
    BY <2>2, <2>4 DEF Spans, q
<1>9. Spans(Rank, 1, 2, ArmedWith(u, b)) /\ Spans(Rank, 3, 12, ArmedWith(v, b))
      /\ Spans(Rank, 11, 12, ArmedWith(w, b))
  BY <1>2, <1>3, <1>4, <1>8
<1>10. /\ ~ Has({"b0", "send", "await", "b1", "b2", "report"}, ArmedWith(u, b))
       /\ ~ Has({"b2", "decide"}, ArmedWith(v, b))
       /\ ~ Has({"b0", "send", "await", "b1", "decide"}, ArmedWith(w, b))
  BY <1>1, <1>5, HasArmed
<1>11. /\ Has({"send"}, ArmedWith(v, b)) /\ Has({"await"}, ArmedWith(v, b))
       /\ Has({"report"}, ArmedWith(v, b)) /\ Has({"report"}, ArmedWith(w, b))
  BY <1>1, <1>6, <1>7, HasArmed
<1>12. /\ ~ Has({"tmp_activity_scheduled_before_worker_poll"}, ArmedWith(u, b))
       /\ ~ Has({"tmp_activity_scheduled_before_worker_poll"}, ArmedWith(v, b))
       /\ ~ Has({"tmp_activity_scheduled_before_worker_poll"}, ArmedWith(w, b))
  <2>1. /\ ~ Has({"tmp_activity_scheduled_before_worker_poll"}, u)
        /\ ~ Has({"tmp_activity_scheduled_before_worker_poll"}, v)
        /\ ~ Has({"tmp_activity_scheduled_before_worker_poll"}, w)
    BY DEF Has, u, v, w
  <2>2. QED
    BY <1>1, <2>1, HasArmed
<1>13. QED
  BY <1>9, <1>10, <1>11, <1>12 DEF u, v, w, Sending, Awaits

\* A worker that polls takes a task, and it is what the history says is next.
TemporalTaken(t, b, s, d, p, e) ==
  \/ /\ d.wft = "ready" /\ e = [d EXCEPT !.wft = "taken"]
     /\ p = ArmedWith(<<"tmp_workflow_task_replay", "decide">>, b) \o s
  \/ /\ d.act = "ready" /\ e = [d EXCEPT !.act = "taken"]
     /\ p = ArmedWith(IF Activities(t)[d.next + 1] = "effect"
                        THEN <<"b0", "send", "await", "b1", "report">>
                        ELSE <<"b2", "report">>, b) \o s

LEMMA TemporalTakings ==
  ASSUME NEW t \in Trials, t.engine = "temporal", NEW h, NEW s \in Programs, s # << >>,
         Head(s) = "poll", NEW d, TemporalAt(t, d), Laid(t, h, s, d),
         NEW b, NEW p, NEW e, TemporalTaken(t, b, s, d, p, e)
  PROVE  Moved(t, h, s, d, p, e)
<1>1. TemporalLaid(s, d)
  BY LaidTemporal
<1>2. /\ \A X : Has(X, s) <=> "poll" \in X \/ Has(X, Tail(s))
      /\ ~ Sending(Tail(s)) /\ ~ Has({"b0"}, Tail(s)) /\ ~ Awaits(Tail(s))
      /\ ~ Has({"send", "await", "b1", "report"}, Tail(s))
      /\ ~ Has({"b2", "decide", "start_workflow", "poll"}, Tail(s))
  BY <1>1, TemporalOnward
<1>3. ~ Has({"b0"}, s) /\ ~ Has({"send", "await", "b1", "report"}, s) /\ ~ Has({"b2", "decide"}, s)
  <2>1. Has({"b2", "decide"}, Tail(s)) => Has({"b2", "decide", "start_workflow", "poll"}, Tail(s))
    BY DEF Has
  <2>2. QED
    BY <1>2, <2>1
<1>4. Has({"poll"}, s) /\ ~ Has({"tmp_activity_scheduled_before_worker_poll"}, s)
  BY <1>1, <1>2 DEF TemporalLaid
<1>5. /\ d \in TemporalDisk /\ d.next \in 0 .. 2
      /\ d.act # "none" => d.next < Len(Activities(t))
      /\ d = [wf |-> d.wf, wft |-> d.wft, next |-> d.next, act |-> d.act,
              attempt |-> d.attempt, started |-> d.started, timedOut |-> d.timedOut]
  BY DEF TemporalAt, TemporalDisk
<1>6. Sorted(Rank, s) /\ (d.wf = "closed" => d.next >= 1)
  BY <1>1 DEF TemporalLaid
<1>7. \A n \in 1 .. Len(s) : Rank[s[n]] = 0 \/ Rank[s[n]] = 15
  <2>1. SUFFICES ASSUME NEW n \in 1 .. Len(s), Rank[s[n]] # 0 PROVE Rank[s[n]] = 15
    OBVIOUS
  <2>2. Rank[s[n]] \in Nat /\ s[n] \in Label /\ s[1] = "poll" /\ Len(s) \in Nat \ {0}
    BY RankTyped, TailElements DEF Programs
  <2>3. CASE n = 1
    BY <2>2, <2>3, RankTable
  <2>4. CASE n # 1
    <3>1. Rank[s[1]] = 15
      BY <2>2, RankTable
    <3>2. 1 \in 1 .. Len(s) /\ 1 < n /\ Rank[s[1]] > 0 /\ Rank[s[n]] > 0
      BY <2>1, <2>2, <2>4, <3>1
    <3>3. 15 < Rank[s[n]]
      BY <1>6, <3>1, <3>2 DEF Sorted
    <3>4. Rank[s[n]] <= 15
      BY <2>2 DEF Rank
    <3>5. QED
      BY <2>2, <3>3, <3>4
  <2>5. QED
    BY <2>3, <2>4
<1>8. ASSUME NEW lo \in Nat, NEW hi \in Nat, hi < 15, NEW u, Spans(Rank, lo, hi, u)
      PROVE  /\ Sorted(Rank, u \o s) /\ u \o s \in Programs
             /\ \A X : Has(X, u \o s) <=> Has(X, u) \/ Has(X, s)
  <2>1. u \in Programs /\ Sorted(Rank, u)
        /\ \A n \in 1 .. Len(u) : Rank[u[n]] \in lo .. hi
    BY <1>8 DEF Spans
  <2>2. \A m \in 1 .. Len(u), n \in 1 .. Len(s) :
          Rank[u[m]] > 0 /\ Rank[s[n]] > 0 => Rank[u[m]] < Rank[s[n]]
    BY <1>7, <1>8, <2>1
  <2>3. Sorted(Rank, u \o s) /\ u \o s \in Programs
    BY <1>6, <2>1, <2>2, SortedConcat
  <2>4. QED
    BY <2>1, <2>3, HasConcat
<1>9. ASSUME e = [d EXCEPT !.wft = "taken"],
             p = ArmedWith(<<"tmp_workflow_task_replay", "decide">>, b) \o s
      PROVE  Moved(t, h, s, d, p, e)
  <2> DEFINE u == ArmedWith(<<"tmp_workflow_task_replay", "decide">>, b)
  <2>1. Spans(Rank, 1, 2, u) /\ ~ Has({"b0", "send", "await", "b1", "b2", "report"}, u)
        /\ ~ Has({"tmp_activity_scheduled_before_worker_poll"}, u)
    BY TasksRanked
  <2>a. p = u \o s
    BY <1>9
  <2> HIDE DEF u
  <2>2. Sorted(Rank, p) /\ \A X : Has(X, p) <=> Has(X, u) \/ Has(X, s)
    <3>1. 1 \in Nat /\ 2 \in Nat /\ 2 < 15
      OBVIOUS
    <3>2. QED
      BY <1>8, <2>1, <2>a, <3>1
  <2>3. /\ ~ Has({"b0"}, u) /\ ~ Has({"send"}, u) /\ ~ Has({"await"}, u)
        /\ ~ Has({"send", "await", "b1"}, u) /\ ~ Has({"report"}, u) /\ ~ Has({"b2"}, u)
    BY <2>1 DEF Has
  <2>4. /\ ~ Has({"send"}, s) /\ ~ Has({"await"}, s)
        /\ ~ Has({"send", "await", "b1"}, s) /\ ~ Has({"report"}, s) /\ ~ Has({"b2"}, s)
    BY <1>3 DEF Has
  <2>5. e.next = d.next /\ e.wf = d.wf
    BY <1>5, <1>9
  <2>6. TemporalLaid(p, e)
    BY <1>3, <1>4, <1>6, <2>1, <2>2, <2>3, <2>4, <2>5 DEF TemporalLaid, Sending, Awaits
  <2>7. /\ ~ Sending(p) /\ ~ Sending(s) /\ ~ Has({"report"}, p) /\ ~ Awaits(s)
    BY <2>2, <2>3, <2>4 DEF Sending, Awaits
  <2>8. QED
    BY <2>4, <2>5, <2>6, <2>7, LaidTemporal DEF Moved
<1>10. ASSUME d.act = "ready", e = [d EXCEPT !.act = "taken"],
              p = ArmedWith(IF Activities(t)[d.next + 1] = "effect"
                              THEN <<"b0", "send", "await", "b1", "report">>
                              ELSE <<"b2", "report">>, b) \o s
       PROVE  Moved(t, h, s, d, p, e)
  <2>1. e.next = d.next /\ e.wf = d.wf /\ e.act = "taken"
    BY <1>5, <1>10
  <2>2. d.next \in {0, 1} /\ (Activities(t)[d.next + 1] = "effect" <=> d.next = 0)
    <3>1. d.next < Len(Activities(t))
      BY <1>5, <1>10
    <3>2. Activities(t) \in {<<"effect">>, <<"effect", "sentinel">>}
      BY TemporalActivities
    <3>3. QED
      BY <1>5, <3>1, <3>2
  <2>3. /\ ~ Has({"send"}, s) /\ ~ Has({"await"}, s) /\ ~ Has({"b2"}, s) /\ ~ Has({"decide"}, s)
        /\ ~ Has({"send", "await", "b1"}, s) /\ ~ Has({"report"}, s)
    BY <1>3 DEF Has
  <2>4. CASE d.next = 0
    <3> DEFINE u == ArmedWith(<<"b0", "send", "await", "b1", "report">>, b)
    <3>1. /\ Spans(Rank, 3, 12, u) /\ ~ Has({"b2", "decide"}, u)
          /\ Sending(u) /\ Awaits(u) /\ Has({"report"}, u)
          /\ ~ Has({"tmp_activity_scheduled_before_worker_poll"}, u)
      BY TasksRanked
    <3>a. p = u \o s
      BY <1>10, <2>2, <2>4
    <3> HIDE DEF u
    <3>2. Sorted(Rank, p) /\ \A X : Has(X, p) <=> Has(X, u) \/ Has(X, s)
      <4>1. 3 \in Nat /\ 12 \in Nat /\ 12 < 15
        OBVIOUS
      <4>2. QED
        BY <1>8, <3>1, <3>a, <4>1
    <3>3. ~ Has({"b2"}, u) /\ ~ Has({"decide"}, u)
      BY <3>1 DEF Has
    <3>4. TemporalLaid(p, e)
      BY <1>3, <1>4, <1>6, <2>1, <2>3, <2>4, <3>1, <3>2, <3>3 DEF TemporalLaid, Sending, Awaits
    <3>5. Sending(p) /\ ~ Awaits(s) /\ ~ Sending(s)
      BY <2>3, <3>1, <3>2 DEF Sending, Awaits
    <3>6. QED
      BY <2>1, <2>3, <2>4, <3>4, <3>5, LaidTemporal DEF Moved
  <2>5. CASE d.next = 1
    <3> DEFINE u == ArmedWith(<<"b2", "report">>, b)
    <3>1. /\ Spans(Rank, 11, 12, u) /\ ~ Has({"b0", "send", "await", "b1", "decide"}, u)
          /\ Has({"report"}, u)
          /\ ~ Has({"tmp_activity_scheduled_before_worker_poll"}, u)
      BY TasksRanked
    <3>a. p = u \o s
      <4>1. Activities(t)[d.next + 1] # "effect"
        BY <2>2, <2>5
      <4>2. QED
        BY <1>10, <4>1
    <3> HIDE DEF u
    <3>2. Sorted(Rank, p) /\ \A X : Has(X, p) <=> Has(X, u) \/ Has(X, s)
      <4>1. 11 \in Nat /\ 12 \in Nat /\ 12 < 15
        OBVIOUS
      <4>2. QED
        BY <1>8, <3>1, <3>a, <4>1
    <3>3. /\ ~ Has({"b0"}, u) /\ ~ Has({"decide"}, u) /\ ~ Has({"send"}, u)
          /\ ~ Has({"send", "await", "b1"}, u) /\ ~ Has({"await"}, u)
      BY <3>1 DEF Has
    <3>4. TemporalLaid(p, e)
      BY <1>3, <1>4, <1>6, <2>1, <2>3, <2>5, <3>1, <3>2, <3>3 DEF TemporalLaid, Sending, Awaits
    <3>5. ~ Sending(p) /\ ~ Awaits(s) /\ ~ Sending(s)
      BY <2>3, <3>2, <3>3 DEF Sending, Awaits
    <3>6. QED
      BY <2>1, <2>5, <3>4, <3>5, LaidTemporal DEF Moved
  <2>6. QED
    BY <2>2, <2>4, <2>5
<1>11. QED
  BY <1>9, <1>10 DEF TemporalTaken

\* What ends a worker in the crash run, and what is left to the next.
LEMMA TemporalCuts ==
  ASSUME NEW t \in Trials, t.engine = "temporal", Planned(t), NEW h, NEW s \in Programs, s # << >>,
         NEW d, TemporalAt(t, d), Laid(t, h, s, d),
         \/ Head(s) = t.barrier /\ (t.barrier = "tmp_workflow_task_replay" => d.next = 1)
         \/ /\ Head(s) = "poll" /\ d.act = "ready"
            /\ t.barrier = "tmp_activity_scheduled_before_worker_poll"
  PROVE  Cuts(t, s, d) /\ (Due(t, s, d) \/ ~ Awaits(s))
<1> DEFINE c == Head(s)
<1>1. t.barrier \in {"b0", "b1", "b2", "tmp_activity_scheduled_before_worker_poll",
                     "tmp_workflow_task_replay"}
  BY PlannedTrials
<1>2. TemporalLaid(s, d)
  BY LaidTemporal
<1>3. /\ Has({"b0"}, s) => Sending(s)
      /\ Has({"send", "await", "b1"}, s) => d.next = 0 /\ Has({"report"}, s)
      /\ Has({"b2"}, s) \/ d.wf = "closed" \/ ~ Has({"poll"}, s) => d.next >= 1
      /\ ~ Has({"tmp_activity_scheduled_before_worker_poll"}, s)
  BY <1>2 DEF TemporalLaid
<1>4. /\ \A X : Has(X, s) <=> c \in X \/ Has(X, Tail(s))
      /\ c \in {"b1", "b2", "report", "poll"} => ~ Sending(Tail(s)) /\ ~ Awaits(Tail(s))
      /\ c = "poll" => ~ Has({"send", "await", "b1", "report"}, Tail(s))
  BY <1>2, TemporalOnward
<1>5. d.next \in 0 .. 2 /\ (d.act # "none" => d.next < Len(Activities(t)))
  BY DEF TemporalAt, TemporalDisk
<1> DEFINE r == <<"poll">>
<1>6. RecoveryRun(t, d) = r
  BY DEF RecoveryRun, TemporalRecoveryRun
<1>7. Laid(t, "recovery_run", r, d) /\ (Due(t, r, d) <=> d.next = 0)
  BY <1>3, TemporalPolls
<1> HIDE DEF r, c
<1>8. /\ Due(t, s, d) <=> Sending(s) \/ (d.next = 0 /\ ~ Has({"report"}, s))
      /\ Durable(t, d) <=> d.next >= 1 \/ d.wf = "closed"
  BY LaidTemporal
<1>9. Durable(t, d) <=> d.next >= 1
  BY <1>3, <1>8
<1>10. Due(t, r, d) <=> ~ Durable(t, d)
  BY <1>5, <1>7, <1>9
<1>11. ~ Unstored(t)
  BY <1>1 DEF Unstored
<1>12. CASE t.barrier = "b0" /\ c = "b0"
  <2>1. Due(t, s, d)
    BY <1>3, <1>4, <1>8, <1>12
  <2>2. t.barrier \notin MiddleBarriers \cup LateBarriers
    BY <1>12, BarrierTable
  <2>3. QED
    BY <1>6, <1>7, <1>10, <1>11, <2>1, <2>2 DEF Cuts, Recovers
<1>13. CASE t.barrier = "b1" /\ c = "b1"
  <2>1. ~ Sending(s) /\ ~ Awaits(s)
    BY <1>4, <1>13 DEF Sending, Awaits
  <2>2. d.next = 0 /\ Has({"report"}, s)
    BY <1>3, <1>4, <1>13
  <2>3. ~ Due(t, s, d) /\ ~ Durable(t, d)
    BY <1>8, <1>9, <2>1, <2>2
  <2>4. t.barrier \notin EarlyBarriers \cup LateBarriers
    BY <1>13, BarrierTable DEF EarlyBarriers
  <2>5. QED
    BY <1>6, <1>7, <1>10, <1>11, <2>1, <2>3, <2>4 DEF Cuts, Recovers
<1>14. CASE \/ t.barrier = "b2" /\ c = "b2"
            \/ t.barrier = "tmp_workflow_task_replay" /\ d.next = 1
  <2>1. d.next >= 1
    BY <1>3, <1>4, <1>14
  <2>2. ~ Awaits(s)
    <3>1. Awaits(s) => Has({"send", "await", "b1"}, s)
      BY DEF Awaits, Has
    <3>2. QED
      BY <1>3, <2>1, <3>1
  <2>3. t.barrier \notin EarlyBarriers \cup MiddleBarriers
    BY <1>14, BarrierTable DEF EarlyBarriers
  <2>4. QED
    BY <1>6, <1>7, <1>9, <1>10, <1>11, <2>1, <2>2, <2>3 DEF Cuts, Recovers
<1>15. CASE c = "poll" /\ d.act = "ready"
            /\ t.barrier = "tmp_activity_scheduled_before_worker_poll"
  <2>1. d.next = 0
    <3>1. Hidden(t)
      BY <1>15 DEF Hidden, HiddenBarrier, HiddenPredictions
    <3>2. Len(Activities(t)) = 1
      BY <3>1 DEF Activities
    <3>3. QED
      BY <1>5, <1>15, <3>2
  <2>2. ~ Has({"report"}, s)
    <3>1. ~ Has({"report"}, Tail(s))
      BY <1>4, <1>15 DEF Has
    <3>2. QED
      BY <1>4, <1>15, <3>1
  <2>3. Due(t, s, d)
    BY <1>8, <2>1, <2>2
  <2>4. t.barrier \notin MiddleBarriers \cup LateBarriers
    BY <1>15, BarrierTable
  <2>5. QED
    BY <1>6, <1>7, <1>10, <1>11, <2>3, <2>4 DEF Cuts, Recovers
<1>16. c # "tmp_activity_scheduled_before_worker_poll"
  BY <1>3, <1>4
<1>17. QED
  BY <1>1, <1>12, <1>13, <1>14, <1>15, <1>16 DEF c

\* A worker at the end of its program has seen the workflow closed.
LEMMA TemporalDone ==
  ASSUME NEW t, t.engine = "temporal", NEW h, NEW d, Laid(t, h, << >>, d)
  PROVE  ~ Due(t, << >>, d)
<1>1. TemporalLaid(<< >>, d)
  BY LaidTemporal
<1>2. \A X : ~ Has(X, << >>)
  BY NothingOrdered
<1>3. d.next >= 1
  BY <1>1, <1>2 DEF TemporalLaid
<1>4. d.next # 0
  BY <1>3
<1>5. QED
  BY <1>2, <1>4, LaidTemporal DEF Sending

\* The server times out what nobody works on: no run has lost any of its course.
LEMMA TemporalTimesOut ==
  ASSUME NEW t \in Trials, t.engine = "temporal", NEW h, NEW s, NEW d \in TemporalDisk, NEW e,
         \/ e = [d EXCEPT !.wft = "ready", !.timedOut = TRUE]
         \/ e = [d EXCEPT !.act = "ready", !.attempt = @ + 1]
  PROVE  /\ Due(t, s, e) <=> Due(t, s, d)
         /\ Durable(t, e) <=> Durable(t, d)
         /\ RecoveryRun(t, e) = RecoveryRun(t, d)
         /\ Laid(t, h, s, d) /\ ((~ Has({"report"}, s)) \/ e.act = d.act) => Laid(t, h, s, e)
         /\ Recovers(t, d) => Recovers(t, e)
<1>1. d = [wf |-> d.wf, wft |-> d.wft, next |-> d.next, act |-> d.act,
           attempt |-> d.attempt, started |-> d.started, timedOut |-> d.timedOut]
  BY DEF TemporalDisk
<1>2. e.next = d.next /\ e.wf = d.wf
  BY <1>1
<1>3. \A q : Due(t, q, e) <=> Due(t, q, d)
  BY <1>2, LaidTemporal
<1>4. Durable(t, e) <=> Durable(t, d)
  BY <1>2, LaidTemporal
<1> DEFINE r == <<"poll">>
<1>5. RecoveryRun(t, d) = r /\ RecoveryRun(t, e) = r
  BY DEF RecoveryRun, TemporalRecoveryRun
<1>6. ~ Has({"report"}, r)
  BY DEF Has
<1> HIDE DEF r
<1>7. ASSUME NEW i, NEW q, Laid(t, i, q, d), (~ Has({"report"}, q)) \/ e.act = d.act
      PROVE  Laid(t, i, q, e)
  <2>1. TemporalLaid(q, d)
    BY <1>7, LaidTemporal
  <2>2. TemporalLaid(q, e)
    BY <1>2, <1>7, <2>1 DEF TemporalLaid
  <2>3. QED
    BY <2>2, LaidTemporal
<1>8. Recovers(t, d) => Recovers(t, e)
  <2>1. SUFFICES ASSUME Recovers(t, d) PROVE Recovers(t, e)
    OBVIOUS
  <2>2. Laid(t, "recovery_run", r, d)
    BY <1>5, <2>1 DEF Recovers
  <2>3. Laid(t, "recovery_run", r, e)
    BY <1>6, <1>7, <2>2
  <2>4. QED
    BY <1>3, <1>4, <1>5, <2>1, <2>3 DEF Recovers
<1>9. QED
  BY <1>3, <1>4, <1>5, <1>7, <1>8

LEMMA LaidTrueForge ==
  ASSUME NEW t, t.engine = "trueforge", NEW h, NEW s, NEW d
  PROVE  /\ Laid(t, h, s, d) <=> TrueForgeLaid(h, s, d)
         /\ Due(t, s, d) <=>
              Sending(s) \/ (Has({"create_turn"}, s) /\ "tool.response" \notin d.first.events)
         /\ Durable(t, d) <=> Shown(d)
BY Zenon DEF Laid, Due, Durable, Shown

LEMMA OneStepLeft ==
  ASSUME NEW x \in Label, NEW s, s = <<x>>
  PROVE  /\ s \in Programs /\ s # << >> /\ Head(s) = x /\ \A R : Sorted(R, s)
         /\ \A X : Has(X, s) <=> x \in X
<1>1. Len(s) = 1 /\ s[1] = x /\ s \in Programs
  BY DEF Programs
<1>2. \A R : Sorted(R, s)
  BY <1>1 DEF Sorted
<1>3. \A X : Has(X, s) <=> x \in X
  BY <1>1 DEF Has
<1>4. QED
  BY <1>1, <1>2, <1>3

LEMMA TrueForgeBegun ==
  ASSUME NEW t \in Trials, t.engine = "trueforge", NEW h, NEW d, ~ Shown(d), ~ d.marker,
         NEW s, s = <<"create_turn">>
  PROVE  Laid(t, h, s, d) /\ Due(t, s, d)
<1>1. \A X : Has(X, s) <=> "create_turn" \in X
  BY Labels, OneStepLeft
<1>2. Sorted(Rank, s)
  BY Labels, OneStepLeft
<1>3. Before({ReceiverBarrier}, {"tool.response"}, s)
  <2>1. ~ Has({"tool.response"}, s)
    BY <1>1
  <2>2. QED
    BY <2>1 DEF Has, Before
<1>4. "tool.response" \notin d.first.events \cup d.retry.events
  BY DEF Shown
<1>5. TrueForgeLaid(h, s, d)
  BY <1>1, <1>2, <1>3, <1>4 DEF TrueForgeLaid, Sending
<1>6. QED
  BY <1>1, <1>4, <1>5, LaidTrueForge

LEMMA TrueForgeResumed ==
  ASSUME NEW t \in Trials, t.engine = "trueforge", NEW d, ~ Shown(d), NEW s, s = <<"create_turn">>
  PROVE  Laid(t, "recovery_run", s, d) /\ Due(t, s, d)
<1>1. \A X : Has(X, s) <=> "create_turn" \in X
  BY Labels, OneStepLeft
<1>2. Sorted(Rank, s)
  BY Labels, OneStepLeft
<1>3. TrueForgeLaid("recovery_run", s, d)
  BY <1>1, <1>2 DEF TrueForgeLaid, Sending
<1>4. QED
  BY <1>1, <1>3, LaidTrueForge DEF Shown

\* The model's part of a turn.
LEMMA ResponseRanked ==
  ASSUME NEW d, NEW w, w = ModelResponse(d)
  PROVE  /\ w \in Programs /\ Sorted(Rank, w) /\ Before({ReceiverBarrier}, {"tool.response"}, w)
         /\ Sending(w) <=> "tool.response" \notin d.first.events
         /\ Awaits(w) <=> "tool.response" \notin d.first.events
         /\ ~ Has({"create_turn"}, w) /\ ~ Has({"kill"}, w)
<1>1. CASE "tool.response" \in d.first.events
  <2>1. w = <<"turn_done">>
    BY <1>1 DEF ModelResponse
  <2>2. \A X : Has(X, w) <=> "turn_done" \in X
    BY <2>1, Labels, OneStepLeft
  <2>3. w \in Programs /\ Sorted(Rank, w)
    BY <2>1, Labels, OneStepLeft
  <2>4. ~ Has({"tool.response"}, w)
    BY <2>2
  <2>5. Before({ReceiverBarrier}, {"tool.response"}, w)
    BY <2>4 DEF Before, Has
  <2>6. QED
    BY <1>1, <2>2, <2>3, <2>5 DEF Sending, Awaits
<1>2. CASE "tool.response" \notin d.first.events
  <2>1. w = <<"model.message", "send", "await", ReceiverBarrier, "tool.response", "turn_done">>
    BY <1>2 DEF ModelResponse
  <2>2. w \in Programs
    BY <2>1, Labels DEF Programs
  <2>3. Len(w) = 6 /\ w[1] = "model.message" /\ w[2] = "send" /\ w[3] = "await"
        /\ w[4] = ReceiverBarrier /\ w[5] = "tool.response" /\ w[6] = "turn_done"
    BY <2>1
  <2>4. \A n \in 1 .. Len(w) : n \in {1, 2, 3, 4, 5, 6}
    BY <2>3
  <2>5. Rank[w[1]] = 2 /\ Rank[w[2]] = 5 /\ Rank[w[3]] = 6 /\ Rank[w[4]] = 8 /\ Rank[w[5]] = 9
        /\ Rank[w[6]] = 12
    BY <2>3, RankTable
  <2>6. \A m, n \in {1, 2, 3, 4, 5, 6} : m < n => Rank[w[m]] < Rank[w[n]]
    BY <2>5
  <2>7. Sorted(Rank, w)
    <3>1. ASSUME NEW m \in 1 .. Len(w), NEW n \in 1 .. Len(w), m < n
          PROVE  Rank[w[m]] < Rank[w[n]]
      <4>1. m \in {1, 2, 3, 4, 5, 6} /\ n \in {1, 2, 3, 4, 5, 6}
        BY <2>4, Zenon
      <4>2. QED
        BY ONLY <2>6, <3>1, <4>1, Zenon
    <3>2. QED
      BY <3>1 DEF Sorted
  <2>8. Before({ReceiverBarrier}, {"tool.response"}, w)
    <3>1. \A n \in {1, 2, 3, 4, 5, 6} : w[n] = "tool.response" => n = 5
      BY <2>3 DEF ReceiverBarrier
    <3>2. 4 \in 1 .. 5 - 1 /\ w[4] \in {ReceiverBarrier}
      BY <2>3
    <3>3. QED
      BY <2>4, <3>1, <3>2 DEF Before
  <2>9. Sending(w) /\ Awaits(w)
    <3>1. 2 \in 1 .. Len(w) /\ 3 \in 1 .. Len(w)
      BY <2>3
    <3>2. QED
      BY <2>3, <3>1 DEF Sending, Awaits, Has
  <2>10. \A n \in {1, 2, 3, 4, 5, 6} : w[n] # "create_turn" /\ w[n] # "kill"
    BY <2>3 DEF ReceiverBarrier
  <2>11. ~ Has({"create_turn"}, w) /\ ~ Has({"kill"}, w)
    BY <2>4, <2>10 DEF Has
  <2>12. QED
    BY <1>2, <2>2, <2>7, <2>8, <2>9, <2>11
<1>3. QED
  BY <1>1, <1>2

LEMMA TrueForgeCreated ==
  ASSUME NEW t \in Trials, t.engine = "trueforge", NEW h, NEW s \in Programs, s # << >>,
         Head(s) = "create_turn", NEW d, Laid(t, h, s, d), NEW e,
         e.marker = d.marker, Shown(e) => Shown(d),
         NEW order \in Interleavings(<<"answer_create">>, ModelResponse(d))
  PROVE  Moved(t, h, s, d, order, e)
<1> DEFINE v == <<"answer_create">>
           w == ModelResponse(d)
<1>1. TrueForgeLaid(h, s, d)
  BY LaidTrueForge
<1>2. Has({"create_turn"}, s)
  BY HasTail
<1>3. s = <<"create_turn">>
  BY <1>1, <1>2 DEF TrueForgeLaid
<1>4. \A X : Has(X, s) <=> "create_turn" \in X
  BY <1>3, Labels, OneStepLeft
<1>5. /\ w \in Programs /\ Sorted(Rank, w) /\ Before({ReceiverBarrier}, {"tool.response"}, w)
      /\ Sending(w) <=> "tool.response" \notin d.first.events
      /\ Awaits(w) <=> "tool.response" \notin d.first.events
      /\ ~ Has({"create_turn"}, w) /\ ~ Has({"kill"}, w)
  BY ResponseRanked
<1>6. v \in Programs /\ \A X : Has(X, v) <=> "answer_create" \in X
  BY Labels, OneStepLeft
<1>7. \A i \in 1 .. Len(v) : Rank[v[i]] = 0
  BY RankTable
<1>8. Before({ReceiverBarrier}, {"tool.response"}, v)
  <2>1. ~ Has({"tool.response"}, v)
    BY <1>6
  <2>2. QED
    BY <2>1 DEF Before, Has
<1> HIDE DEF v, w
<1>9. order \in Interleavings(v, w)
  BY DEF v, w
<1>10. order \in Programs /\ Sorted(Rank, order)
  BY <1>5, <1>6, <1>7, <1>9, SortedMerge, RankTyped
<1>11. \A X : Has(X, order) <=> Has(X, v) \/ Has(X, w)
  BY <1>5, <1>6, <1>9, HasMerge
<1>12. Before({ReceiverBarrier}, {"tool.response"}, order)
  BY <1>5, <1>6, <1>8, <1>9, BeforeMerge
<1>13. /\ Sending(order) <=> Sending(w)
       /\ Awaits(order) <=> Awaits(w)
       /\ ~ Has({"create_turn"}, order) /\ ~ Has({"kill"}, order)
  BY <1>5, <1>6, <1>11 DEF Sending, Awaits
<1>14. h = "crash_run" => ~ Shown(d) /\ ~ d.marker
  BY <1>1, <1>4 DEF TrueForgeLaid, Shown, Disarmed
<1>15. h = "crash_run" => ~ Shown(e) /\ ~ e.marker
  BY <1>14
<1>16. TrueForgeLaid(h, order, e)
  BY <1>5, <1>10, <1>12, <1>13, <1>15 DEF TrueForgeLaid, Shown
<1>17. ~ Awaits(s) /\ ~ Sending(s)
  BY <1>4 DEF Awaits, Sending
<1>18. Due(t, order, e) <=> Due(t, s, d)
  BY <1>2, <1>5, <1>13, <1>17, LaidTrueForge
<1>19. QED
  BY <1>16, <1>17, <1>18, LaidTrueForge DEF Moved

LEMMA TrueForgeOnward ==
  ASSUME NEW h, NEW s \in Programs, s # << >>, NEW d, TrueForgeLaid(h, s, d)
  PROVE  /\ Tail(s) \in Programs /\ Sorted(Rank, Tail(s))
         /\ \A X : Has(X, s) <=> Head(s) \in X \/ Has(X, Tail(s))
         /\ Head(s) \in {"send", "await"} => ~ Sending(Tail(s))
         /\ Head(s) = ReceiverBarrier => ~ Sending(s) /\ ~ Awaits(s)
         /\ Has({"create_turn", "kill"}, s) => Head(s) \in {"create_turn", "kill"}
<1>1. Sorted(Rank, s) /\ Rank \in [Label -> Nat]
  BY RankTyped DEF TrueForgeLaid
<1>2. Tail(s) \in Programs /\ Sorted(Rank, Tail(s))
  BY <1>1, SortedTail
<1>3. \A X : Has(X, s) <=> Head(s) \in X \/ Has(X, Tail(s))
  BY HasTail
<1>4. Head(s) \in {"send", "await"} => ~ Has({"send"}, Tail(s))
  <2>1. Head(s) \in {"send", "await"} => Rank[Head(s)] \in {5, 6}
    BY RankTable
  <2>2. Rank["send"] = 5 /\ "send" \in Label
    BY RankTable, Labels
  <2>3. Head(s) \in {"send", "await"} =>
          \A x \in {"send"} : x \in Label /\ Rank[x] \in 1 .. Rank[Head(s)]
    BY <2>1, <2>2
  <2>4. QED
    BY <1>1, <2>3, SortedPast
<1>5. Head(s) = ReceiverBarrier => ~ Has({"send"}, s) /\ ~ Has({"await"}, s)
  <2>1. ReceiverBarrier \notin {"send"} /\ ReceiverBarrier \notin {"await"}
    BY DEF ReceiverBarrier
  <2>2. Rank["send"] = 5 /\ "send" \in Label /\ Rank["await"] = 6 /\ "await" \in Label
        /\ Rank[ReceiverBarrier] = 8
    BY RankTable, Labels
  <2>3. Head(s) = ReceiverBarrier =>
          /\ \A x \in {"send"} : x \in Label /\ Rank[x] \in 1 .. Rank[Head(s)]
          /\ \A x \in {"await"} : x \in Label /\ Rank[x] \in 1 .. Rank[Head(s)]
    BY <2>2
  <2>4. QED
    BY <1>1, <2>1, <2>3, SortedPast
<1>6. Has({"create_turn", "kill"}, s) => Head(s) \in {"create_turn", "kill"}
  <2>1. Has({"create_turn", "kill"}, s) => Has({"create_turn"}, s) \/ Has({"kill"}, s)
    BY DEF Has
  <2>2. Has({"create_turn"}, s) => s = <<"create_turn">>
    BY DEF TrueForgeLaid
  <2>3. Has({"kill"}, s) => s = <<"kill">>
    BY DEF TrueForgeLaid
  <2>4. QED
    BY <2>1, <2>2, <2>3, Labels, OneStepLeft
<1>7. QED
  BY <1>2, <1>3, <1>4, <1>5, <1>6 DEF Sending, Awaits

\* A step of server and sidecar that neither creates a turn nor kills.
LEMMA TrueForgePasses ==
  ASSUME NEW t \in Trials, t.engine = "trueforge", NEW h, NEW s \in Programs, s # << >>,
         Head(s) \notin {"create_turn", "kill"}, NEW d, Laid(t, h, s, d),
         Head(s) = ReceiverBarrier => d.marker, NEW e, e.marker = d.marker,
         Head(s) # "tool.response" => (Shown(e) => Shown(d))
  PROVE  /\ Laid(t, h, Tail(s), e)
         /\ Head(s) # "send" => (Due(t, Tail(s), e) <=> Due(t, s, d))
         /\ Head(s) = "send" => ~ Due(t, Tail(s), e) /\ Awaits(Tail(s)) /\ Due(t, s, d)
         /\ Awaits(s) => Awaits(Tail(s)) \/ Head(s) = "await"
<1> DEFINE p == Tail(s)
           c == Head(s)
<1>1. TrueForgeLaid(h, s, d)
  BY LaidTrueForge
<1>2. /\ p \in Programs /\ Sorted(Rank, p)
      /\ \A X : Has(X, s) <=> c \in X \/ Has(X, p)
      /\ c \in {"send", "await"} => ~ Sending(p)
      /\ Has({"create_turn", "kill"}, s) => c \in {"create_turn", "kill"}
  BY <1>1, TrueForgeOnward
<1>3. ~ Has({"create_turn"}, s) /\ ~ Has({"kill"}, s) /\ ~ Has({"create_turn"}, p)
      /\ ~ Has({"kill"}, p)
  <2>1. ~ Has({"create_turn", "kill"}, s)
    BY <1>2
  <2>2. ~ Has({"create_turn"}, s) /\ ~ Has({"kill"}, s)
    BY <2>1 DEF Has
  <2>3. QED
    BY <1>2, <2>2
<1>4. /\ Sending(s) <=> c = "send" \/ Sending(p)
      /\ Awaits(s) <=> c = "await" \/ Awaits(p)
  BY <1>2 DEF Sending, Awaits
<1>5. Sending(p) => Awaits(p)
  BY <1>1, <1>2, <1>4 DEF TrueForgeLaid
<1> DEFINE live == h = "crash_run" /\ ~ Disarmed(s)
<1>6. live => ~ Shown(d) /\ ~ d.marker /\ Before({ReceiverBarrier}, {"tool.response"}, s)
  BY <1>1, <1>3 DEF TrueForgeLaid, Shown
<1>7. live => Before({ReceiverBarrier}, {"tool.response"}, p) /\ c # "tool.response"
  <2>1. live => c # ReceiverBarrier
    BY <1>6
  <2>2. QED
    BY <1>6, <2>1, BeforeTail
<1>8. live => ~ Shown(e) /\ ~ e.marker
  BY <1>6, <1>7
<1>13. h = "crash_run" /\ ~ Disarmed(p) => live
  BY <1>2 DEF Disarmed
<1>9. TrueForgeLaid(h, p, e)
  <2> HIDE DEF live
  <2>1. QED
    BY <1>2, <1>3, <1>5, <1>7, <1>8, <1>13 DEF TrueForgeLaid, Shown
<1>10. (Due(t, s, d) <=> Sending(s)) /\ (Due(t, p, e) <=> Sending(p))
  BY <1>3, LaidTrueForge
<1>11. c = "send" => ~ Sending(p) /\ Awaits(p)
  <2>1. c = "send" => Awaits(s)
    BY <1>1, <1>4 DEF TrueForgeLaid
  <2>2. QED
    BY <1>2, <1>4, <2>1
<1>12. QED
  BY <1>4, <1>9, <1>10, <1>11, LaidTrueForge

\* The tool leaves the marker, and the server is to be killed.
LEMMA TrueForgeStrikes ==
  ASSUME NEW t \in Trials, t.engine = "trueforge", NEW h, NEW s \in Programs, s # << >>,
         Head(s) = ReceiverBarrier, NEW d, Laid(t, h, s, d), NEW e, Shown(e) => Shown(d),
         NEW p, p = <<"kill">>
  PROVE  Moved(t, h, s, d, p, e)
<1>1. TrueForgeLaid(h, s, d)
  BY LaidTrueForge
<1>2. ~ Sending(s) /\ ~ Awaits(s)
  BY <1>1, TrueForgeOnward
<1>3. ~ Has({"create_turn"}, s)
  <2>1. Has({"create_turn"}, s) => Has({"create_turn", "kill"}, s)
    BY DEF Has
  <2>2. Has({"create_turn", "kill"}, s) => Head(s) \in {"create_turn", "kill"}
    BY <1>1, TrueForgeOnward
  <2>3. QED
    BY <2>1, <2>2 DEF ReceiverBarrier
<1>4. (\A X : Has(X, p) <=> "kill" \in X) /\ Sorted(Rank, p)
  BY Labels, OneStepLeft
<1>5. h = "crash_run" => ~ Shown(d)
  BY <1>1, HasTail DEF TrueForgeLaid, Shown, Disarmed
<1>6. TrueForgeLaid(h, p, e)
  BY <1>4, <1>5 DEF TrueForgeLaid, Shown, Sending
<1>7. ~ Due(t, s, d) /\ ~ Due(t, p, e)
  BY <1>2, <1>3, <1>4, LaidTrueForge DEF Sending
<1>8. QED
  BY <1>2, <1>6, <1>7, LaidTrueForge DEF Moved

\* The tool throws: its barrier is left out, and the turn goes on with an error.
LEMMA TrueForgeThrows ==
  ASSUME NEW t \in Trials, t.engine = "trueforge", NEW h, NEW s \in Programs, s # << >>,
         Head(s) = "await", NEW d, Laid(t, h, s, d),
         NEW p, p = ArmedWith(Tail(s), "none")
  PROVE  Moved(t, h, s, d, p, d)
<1> DEFINE u == Tail(s)
<1>1. TrueForgeLaid(h, s, d)
  BY LaidTrueForge
<1>2. /\ u \in Programs /\ Sorted(Rank, u) /\ ~ Sending(u)
      /\ \A X : Has(X, s) <=> Head(s) \in X \/ Has(X, u)
      /\ ~ Has({"create_turn", "kill"}, s)
  BY <1>1, TrueForgeOnward
<1> HIDE DEF u
<1>3. p \in Programs /\ Sorted(Rank, p) /\ \A X : Has(X, p) => Has(X, u)
  BY <1>2, SortedArmed, HasArmed DEF u
<1>4. ~ Has({ReceiverBarrier}, p)
  <2>1. ~ Has(Unarmed("none"), p)
    BY <1>2, ArmedPlaces DEF u
  <2>2. ReceiverBarrier \in Unarmed("none")
    BY DEF Unarmed, HiddenBarrier, ReceiverBarrier
  <2>3. QED
    BY <2>1, <2>2 DEF Has
<1>5. ~ Has({"create_turn", "kill"}, u) /\ ~ Has({"create_turn", "kill"}, p)
  BY <1>2, <1>3
<1>6. ~ Has({"create_turn"}, s) /\ ~ Has({"create_turn"}, p) /\ ~ Has({"kill"}, p) /\ Disarmed(p)
  BY <1>2, <1>4, <1>5 DEF Has, Disarmed
<1>7. ~ Sending(s) /\ ~ Sending(p)
  BY <1>2, <1>3 DEF Sending
<1>8. TrueForgeLaid(h, p, d)
  BY <1>3, <1>6, <1>7 DEF TrueForgeLaid
<1>9. QED
  BY <1>6, <1>7, <1>8, LaidTrueForge DEF Moved

LEMMA TrueForgeCuts ==
  ASSUME NEW t \in Trials, t.engine = "trueforge", Planned(t), NEW s \in Programs, s # << >>,
         Head(s) = "kill", NEW h, NEW d, Laid(t, h, s, d)
  PROVE  (h = "crash_run" => Cuts(t, s, d)) /\ (Due(t, s, d) \/ ~ Awaits(s))
<1>1. TrueForgeLaid(h, s, d)
  BY LaidTrueForge
<1>2. s = <<"kill">>
  BY <1>1, HasTail DEF TrueForgeLaid
<1>3. \A X : Has(X, s) <=> "kill" \in X
  BY <1>2, Labels, OneStepLeft
<1>4. ~ Due(t, s, d) /\ ~ Awaits(s)
  BY <1>3, LaidTrueForge DEF Sending, Awaits
<1>5. ASSUME h = "crash_run"
      PROVE  Cuts(t, s, d)
  <2>1. ~ Shown(d)
    BY <1>1, <1>3, <1>5 DEF TrueForgeLaid, Shown, Disarmed
  <2> DEFINE r == <<"create_turn">>
  <2>2. RecoveryRun(t, d) = r
    BY DEF RecoveryRun, TrueForgeRecoveryRun
  <2>3. Laid(t, "recovery_run", r, d) /\ Due(t, r, d)
    BY <2>1, TrueForgeResumed
  <2>4. ~ Durable(t, d)
    BY <2>1, LaidTrueForge
  <2>5. t.barrier = ReceiverBarrier
    BY PlannedTrials
  <2>6. t.barrier \notin EarlyBarriers \cup LateBarriers /\ ~ Unstored(t)
    BY <2>5, BarrierTable DEF EarlyBarriers, ReceiverBarrier, Unstored
  <2> HIDE DEF r
  <2>7. QED
    BY <1>4, <2>2, <2>3, <2>4, <2>6 DEF Cuts, Recovers
<1>6. QED
  BY <1>4, <1>5

LEMMA TrueForgeDone ==
  ASSUME NEW t, t.engine = "trueforge", NEW d
  PROVE  ~ Due(t, << >>, d)
<1>1. \A X : ~ Has(X, << >>)
  BY NothingOrdered
<1>2. QED
  BY <1>1, LaidTrueForge DEF Sending

LEMMA LaidLangGraph ==
  ASSUME NEW t, t.engine = "langgraph", NEW h, NEW s, NEW d
  PROVE  /\ Laid(t, h, s, d) <=> LangGraphLaid(h, s, d)
         /\ Due(t, s, d) <=> Sending(s)
         /\ Durable(t, d) <=> d.writes \/ d.checkpoint = "done"
BY Zenon DEF Laid, Due, Durable

\* A node's program, behind whatever put it there.
LEMMA NodesRanked ==
  ASSUME NEW t
  PROVE  /\ Spans(ForkRank, 1, 3, <<"lg_pre_first_checkpoint", "put_entry", "b0">>)
         /\ Spans(ForkRank, 4, 4, PrepareNode(t))
         /\ Spans(ForkRank, 5, 7, ChargeNode)
         /\ \A s \in {PrepareNode(t), ChargeNode} :
              ~ Has({"lg_pre_first_checkpoint", "put_entry", "b0"}, s)
         /\ \A s \in {<<"lg_pre_first_checkpoint", "put_entry", "b0">>, PrepareNode(t),
                      ChargeNode} :
              /\ ~ Has(AdmissionSteps, s)
              /\ ~ Has({"b1", "put_writes", "lg_pending_writes_after_persist", "put_done", "b2"}, s)
         /\ Sending(ChargeNode) /\ Awaits(ChargeNode)
         /\ Has({"put_entry"}, <<"lg_pre_first_checkpoint", "put_entry", "b0">>)
<1> DEFINE u == <<"lg_pre_first_checkpoint", "put_entry", "b0">>
           w == ChargeNode
<1>1. u \in Programs /\ w \in Programs
  BY Labels DEF Programs, ChargeNode
<1>2. Len(u) = 3 /\ u[1] = "lg_pre_first_checkpoint" /\ u[2] = "put_entry" /\ u[3] = "b0"
  OBVIOUS
<1>3. Len(w) = 3 /\ w[1] = "send" /\ w[2] = "await" /\ w[3] = "race"
  BY DEF ChargeNode
<1> HIDE DEF u, w
<1>4. (\A n \in 1 .. Len(u) : n \in {1, 2, 3}) /\ (\A n \in 1 .. Len(w) : n \in {1, 2, 3})
  BY <1>2, <1>3
<1>5. ForkRank[u[1]] = 1 /\ ForkRank[u[2]] = 2 /\ ForkRank[u[3]] = 3
  BY <1>2, ForkRankTable
<1>6. ForkRank[w[1]] = 5 /\ ForkRank[w[2]] = 6 /\ ForkRank[w[3]] = 7
  BY <1>3, ForkRankTable
<1>7. /\ \A m, n \in {1, 2, 3} : m < n => ForkRank[u[m]] < ForkRank[u[n]]
      /\ \A m, n \in {1, 2, 3} : m < n => ForkRank[w[m]] < ForkRank[w[n]]
  BY <1>5, <1>6
<1>8. Spans(ForkRank, 1, 3, u)
  <2>1. Sorted(ForkRank, u)
    BY <1>4, <1>7 DEF Sorted
  <2>2. \A n \in {1, 2, 3} : ForkRank[u[n]] \in 1 .. 3
    BY <1>5
  <2>3. QED
    BY <1>1, <1>4, <2>1, <2>2 DEF Spans
<1>9. Spans(ForkRank, 5, 7, w)
  <2>1. Sorted(ForkRank, w)
    BY <1>4, <1>7 DEF Sorted
  <2>2. \A n \in {1, 2, 3} : ForkRank[w[n]] \in 5 .. 7
    BY <1>6
  <2>3. QED
    BY <1>1, <1>4, <2>1, <2>2 DEF Spans
<1>10. Spans(ForkRank, 4, 4, PrepareNode(t))
  <2>1. CASE TwoPhase(t)
    <3> DEFINE v == PrepareNode(t)
    <3>1. v = <<"put_prepared">>
      BY <2>1 DEF PrepareNode
    <3>2. v \in Programs /\ Sorted(ForkRank, v)
      BY <3>1, Labels, OneStepLeft
    <3>3. \A n \in 1 .. Len(v) : v[n] = "put_prepared"
      BY <3>1
    <3>4. QED
      BY <3>2, <3>3, ForkRankTable DEF Spans
  <2>2. CASE ~ TwoPhase(t)
    BY <2>2, SpansNothing DEF PrepareNode
  <2>3. QED
    BY <2>1, <2>2
<1>11. PrepareNode(t) \in {<<"put_prepared">>, << >>}
  BY DEF PrepareNode
<1>12. \A s \in {<<"put_prepared">>, << >>} :
         /\ ~ Has({"lg_pre_first_checkpoint", "put_entry", "b0"}, s)
         /\ ~ Has(AdmissionSteps, s)
         /\ ~ Has({"b1", "put_writes", "lg_pending_writes_after_persist", "put_done", "b2"}, s)
  BY DEF Has, AdmissionSteps
<1>13. /\ ~ Has({"lg_pre_first_checkpoint", "put_entry", "b0"}, w)
       /\ ~ Has(AdmissionSteps, w)
       /\ ~ Has({"b1", "put_writes", "lg_pending_writes_after_persist", "put_done", "b2"}, w)
       /\ Sending(w) /\ Awaits(w)
  <2>1. \A n \in {1, 2, 3} :
          w[n] \notin {"lg_pre_first_checkpoint", "put_entry", "b0", "b1", "put_writes", "put_done",
                       "lg_pending_writes_after_persist", "b2"} \cup AdmissionSteps
    BY <1>3 DEF AdmissionSteps
  <2>2. 1 \in 1 .. Len(w) /\ 2 \in 1 .. Len(w)
    BY <1>3
  <2>3. QED
    BY <1>3, <1>4, <2>1, <2>2 DEF Has, Sending, Awaits
<1>14. /\ ~ Has(AdmissionSteps, u)
       /\ ~ Has({"b1", "put_writes", "lg_pending_writes_after_persist", "put_done", "b2"}, u)
       /\ Has({"put_entry"}, u)
  <2>1. \A n \in {1, 2, 3} :
          u[n] \notin {"b1", "put_writes", "lg_pending_writes_after_persist", "put_done", "b2"}
                        \cup AdmissionSteps
    BY <1>2 DEF AdmissionSteps
  <2>2. 2 \in 1 .. Len(u)
    BY <1>2
  <2>3. QED
    BY <1>2, <1>4, <2>1, <2>2 DEF Has
<1>15. QED
  BY <1>8, <1>9, <1>10, <1>11, <1>12, <1>13, <1>14 DEF u, w

LEMMA LangGraphBegun ==
  ASSUME NEW t \in Trials, t.engine = "langgraph", NEW d, d.checkpoint = "none", NEW b,
         NEW s, s = ArmedWith(InvokeInput(t), b)
  PROVE  Laid(t, "crash_run", s, d) /\ Due(t, s, d)
<1> DEFINE u == <<"lg_pre_first_checkpoint", "put_entry", "b0">>
           v == PrepareNode(t)
           w == ChargeNode
           uv == u \o v
           i == uv \o w
<1>1. /\ Spans(ForkRank, 1, 3, u) /\ Spans(ForkRank, 4, 4, v) /\ Spans(ForkRank, 5, 7, w)
      /\ ~ Has(AdmissionSteps, u) /\ ~ Has(AdmissionSteps, v) /\ ~ Has(AdmissionSteps, w)
      /\ \A q \in {u, v, w} :
           ~ Has({"b1", "put_writes", "lg_pending_writes_after_persist", "put_done", "b2"}, q)
      /\ Sending(w) /\ Awaits(w) /\ Has({"put_entry"}, u)
  BY NodesRanked
<1>2. i = InvokeInput(t)
  BY DEF InvokeInput
<1> HIDE DEF u, v, w
<1>3. ForkRank \in [Label -> Nat]
  BY RankTyped
<1>4. Spans(ForkRank, 1, 4, uv)
  BY <1>1, <1>3, SpansConcat
<1>5. Spans(ForkRank, 1, 7, i)
  BY <1>1, <1>3, <1>4, SpansConcat
<1>6. u \in Programs /\ v \in Programs /\ w \in Programs /\ uv \in Programs
      /\ i \in Programs /\ Sorted(ForkRank, i)
  BY <1>1, <1>4, <1>5 DEF Spans
<1>7. \A X : Has(X, uv) <=> Has(X, u) \/ Has(X, v)
  BY <1>6, HasConcat
<1>8. \A X : Has(X, i) <=> Has(X, uv) \/ Has(X, w)
  BY <1>6, HasConcat
<1> HIDE DEF uv, i
<1>9. /\ ~ Has(AdmissionSteps, i)
      /\ ~ Has({"b1", "put_writes", "lg_pending_writes_after_persist", "put_done", "b2"}, i)
      /\ Has({"send"}, i) /\ Has({"await"}, i) /\ Has({"put_entry"}, i)
  BY <1>1, <1>7, <1>8 DEF Sending, Awaits
<1>10. \A x \in {"send", "await", "put_entry"} : {x} \cap Unarmed(b) = {}
  BY DEF Unarmed, Barrier, HiddenBarrier, HiddenPredictions, ReceiverBarrier
<1>11. /\ ~ Has(AdmissionSteps, s)
       /\ ~ Has({"b1", "put_writes", "lg_pending_writes_after_persist", "put_done", "b2"}, s)
       /\ Has({"send"}, s) /\ Has({"await"}, s) /\ Has({"put_entry"}, s)
  BY <1>2, <1>6, <1>9, <1>10, HasArmed
<1>12. Sorted(ForkRank, s)
  BY <1>2, <1>6, SortedArmed
<1>13. ~ Has({"lg_pending_writes_after_persist"}, s)
  BY <1>11 DEF Has
<1>14. LangGraphLaid("crash_run", s, d)
  BY <1>11, <1>12, <1>13 DEF LangGraphLaid, Sending, Awaits
<1>15. QED
  BY <1>11, <1>14, LaidLangGraph DEF Sending

\* What an invocation with no input finds, it does, unless all is done or nothing
\* was begun.
LEMMA LangGraphResumed ==
  ASSUME NEW t \in Trials, t.engine = "langgraph", t.mode \notin AdmissionArms,
         NEW d \in LangGraphDisk, NEW s, s = RecoveryRun(t, d)
  PROVE  /\ Laid(t, "recovery_run", s, d)
         /\ Due(t, s, d) <=> ~ Durable(t, d) /\ d.checkpoint # "none"
<1>1. d.checkpoint \in {"none", "entry", "prepared", "done"} /\ d.writes \in BOOLEAN
  BY DEF LangGraphDisk
<1> DEFINE v == PrepareNode(t)
           w == ChargeNode
           B == {"b1", "put_writes", "lg_pending_writes_after_persist", "put_done", "b2"}
           N == InvokeNothing(t, d)
<1>2. s = N
  <2>1. s = N \o << >>
    BY DEF RecoveryRun, LangGraphRecoveryRun
  <2>2. N \in Programs
    <3>1. v \in Programs /\ w \in Programs
      BY NodesRanked DEF Spans
    <3>2. v \o w \in Programs
      BY <3>1, ConcatPrograms
    <3>3. <<"empty_input">> \in Programs /\ << >> \in Programs /\ <<"put_done">> \in Programs
      BY Labels DEF Programs
    <3> HIDE DEF v, w
    <3>4. QED
      BY <1>1, <3>1, <3>2, <3>3 DEF InvokeNothing, v, w
  <2> HIDE DEF N
  <2>3. QED
    BY <2>1, <2>2 DEF Programs
<1>3. ASSUME s \in {<<"empty_input">>, <<"put_done">>, << >>}
      PROVE  Laid(t, "recovery_run", s, d) /\ ~ Due(t, s, d)
  <2>1. Sorted(ForkRank, s)
    BY <1>3, Labels, OneStepLeft, SortedNone
  <2>2. \A X : Has(X, s) => "empty_input" \in X \/ "put_done" \in X
    BY <1>3 DEF Has
  <2>3. LangGraphLaid("recovery_run", s, d)
    BY <2>1, <2>2 DEF LangGraphLaid, AdmissionSteps, Sending, Awaits
  <2>4. ~ Sending(s)
    BY <2>2 DEF Sending
  <2>5. QED
    BY <2>3, <2>4, LaidLangGraph
<1>4. ASSUME s \in {v \o w, w}
      PROVE  Laid(t, "recovery_run", s, d) /\ Due(t, s, d)
  <2>1. /\ Spans(ForkRank, 4, 4, v) /\ Spans(ForkRank, 5, 7, w)
        /\ ~ Has(AdmissionSteps, v) /\ ~ Has(AdmissionSteps, w) /\ ~ Has(B, v) /\ ~ Has(B, w)
        /\ ~ Has({"lg_pre_first_checkpoint", "put_entry", "b0"}, v)
        /\ ~ Has({"lg_pre_first_checkpoint", "put_entry", "b0"}, w)
        /\ Sending(w) /\ Awaits(w)
    BY NodesRanked
  <2> HIDE DEF v, w
  <2>2. Spans(ForkRank, 4, 7, v \o w)
    BY <2>1, RankTyped, SpansConcat
  <2>3. v \in Programs /\ w \in Programs /\ Sorted(ForkRank, v \o w) /\ Sorted(ForkRank, w)
    BY <2>1, <2>2 DEF Spans
  <2>4. \A X : Has(X, v \o w) <=> Has(X, v) \/ Has(X, w)
    BY <2>3, HasConcat
  <2>5. /\ Sorted(ForkRank, s) /\ ~ Has(AdmissionSteps, s) /\ ~ Has(B, s)
        /\ ~ Has({"lg_pre_first_checkpoint", "put_entry", "b0"}, s) /\ Sending(s) /\ Awaits(s)
    BY <1>4, <2>1, <2>3, <2>4 DEF Sending, Awaits
  <2>6. ~ Has({"lg_pre_first_checkpoint"}, s) /\ ~ Has({"lg_pending_writes_after_persist"}, s)
    BY <2>5 DEF Has
  <2>7. LangGraphLaid("recovery_run", s, d)
    BY <2>5, <2>6 DEF LangGraphLaid
  <2>8. QED
    BY <2>5, <2>7, LaidLangGraph
<1> HIDE DEF v, w
<1>5. CASE d.writes \/ d.checkpoint \in {"none", "done"}
  <2>1. s \in {<<"empty_input">>, <<"put_done">>, << >>}
    BY <1>1, <1>2, <1>5 DEF InvokeNothing
  <2>2. QED
    BY <1>3, <1>5, <2>1, LaidLangGraph
<1>6. CASE ~ d.writes /\ d.checkpoint \in {"entry", "prepared"}
  <2>1. s \in {v \o w, w}
    BY <1>1, <1>2, <1>6 DEF InvokeNothing, v, w
  <2>2. QED
    BY <1>4, <1>6, <2>1, LaidLangGraph
<1>7. QED
  BY <1>1, <1>5, <1>6

LEMMA LangGraphOnward ==
  ASSUME NEW h, NEW s \in Programs, s # << >>, NEW d, LangGraphLaid(h, s, d)
  PROVE  /\ Tail(s) \in Programs /\ Sorted(ForkRank, Tail(s))
         /\ \A X : Has(X, s) <=> Head(s) \in X \/ Has(X, Tail(s))
         /\ Head(s) \in {"send", "await", "race"} =>
              /\ ~ Sending(Tail(s))
              /\ ~ Has({"lg_pre_first_checkpoint", "put_entry", "b0", "put_prepared"}, Tail(s))
         /\ Head(s) \in {"put_entry", "put_prepared", "race"} =>
              ~ Has({"lg_pre_first_checkpoint"}, Tail(s))
         /\ Head(s) = "race" => ~ Awaits(Tail(s)) /\ ~ Has({"put_entry"}, Tail(s))
<1>1. Sorted(ForkRank, s) /\ ForkRank \in [Label -> Nat]
  BY RankTyped DEF LangGraphLaid
<1>2. Tail(s) \in Programs /\ Sorted(ForkRank, Tail(s))
  BY <1>1, SortedTail
<1>3. \A X : Has(X, s) <=> Head(s) \in X \/ Has(X, Tail(s))
  BY HasTail
<1>4. ASSUME NEW X, \A x \in X : x \in Label /\ ForkRank[x] \in 1 .. ForkRank[Head(s)]
      PROVE  ~ Has(X, Tail(s))
  BY <1>1, <1>4, SortedPast
<1> DEFINE k == ForkRank[Head(s)]
<1>5. /\ Head(s) \in {"send", "await", "race"} => k \in {5, 6, 7}
      /\ Head(s) \in {"put_entry", "put_prepared", "race"} => k \in {2, 4, 7}
      /\ Head(s) = "race" => k = 7
  BY ForkRankTable
<1>6. k \in {5, 6, 7} => ~ Has({"send"}, Tail(s))
  <2>1. ForkRank["send"] = 5 /\ "send" \in Label
    BY ForkRankTable, Labels
  <2>2. QED
    BY <1>4, <2>1
<1>7. k \in {5, 6, 7} =>
        ~ Has({"lg_pre_first_checkpoint", "put_entry", "b0", "put_prepared"}, Tail(s))
  <2>1. \A x \in {"lg_pre_first_checkpoint", "put_entry", "b0", "put_prepared"} :
          x \in Label /\ ForkRank[x] \in {1, 2, 3, 4}
    BY ForkRankTable, Labels
  <2>2. k \in {5, 6, 7} => \A i \in {1, 2, 3, 4} : i \in 1 .. k
    OBVIOUS
  <2>3. QED
    BY <1>4, <2>1, <2>2
<1>8. k \in {2, 4, 7} => ~ Has({"lg_pre_first_checkpoint"}, Tail(s))
  <2>1. ForkRank["lg_pre_first_checkpoint"] = 1 /\ "lg_pre_first_checkpoint" \in Label
    BY ForkRankTable, Labels
  <2>2. QED
    BY <1>4, <2>1
<1>9. k = 7 => ~ Has({"await"}, Tail(s)) /\ ~ Has({"put_entry"}, Tail(s))
  <2>1. ForkRank["await"] = 6 /\ "await" \in Label
        /\ ForkRank["put_entry"] = 2 /\ "put_entry" \in Label
    BY ForkRankTable, Labels
  <2>2. QED
    BY <1>4, <2>1
<1> HIDE DEF k
<1>10. QED
  BY <1>2, <1>3, <1>5, <1>6, <1>7, <1>8, <1>9 DEF Sending, Awaits

\* What a LangGraph process writes when it takes the first step of s.
LangGraphWrites(s, d, e) ==
  \/ /\ Head(s) \notin {"put_entry", "put_prepared", "put_done", "put_writes"}
     /\ e.checkpoint = d.checkpoint /\ e.writes = d.writes
  \/ Head(s) = "put_entry" /\ e.checkpoint = "entry"
  \/ Head(s) = "put_prepared" /\ e.checkpoint = "prepared" /\ e.writes = d.writes
  \/ Head(s) = "put_done" /\ e.checkpoint = "done" /\ e.writes = d.writes
  \/ Head(s) = "put_writes" /\ e.checkpoint = d.checkpoint /\ e.writes

LEMMA LangGraphPasses ==
  ASSUME NEW t \in Trials, t.engine = "langgraph", NEW h, NEW s \in Programs, s # << >>,
         Head(s) # "race", NEW d, Laid(t, h, s, d), NEW e, LangGraphWrites(s, d, e)
  PROVE  /\ Laid(t, h, Tail(s), e)
         /\ Head(s) # "send" => (Due(t, Tail(s), e) <=> Due(t, s, d))
         /\ Head(s) = "send" => ~ Due(t, Tail(s), e) /\ Awaits(Tail(s)) /\ Due(t, s, d)
         /\ Awaits(s) => Awaits(Tail(s)) \/ Head(s) = "await"
<1> DEFINE p == Tail(s)
           c == Head(s)
           F == {"lg_pre_first_checkpoint", "put_entry", "b0", "put_prepared"}
           B == {"b1", "put_writes", "lg_pending_writes_after_persist", "put_done", "b2"}
<1>1. LangGraphLaid(h, s, d)
  BY LaidLangGraph
<1>2. /\ p \in Programs /\ Sorted(ForkRank, p)
      /\ \A X : Has(X, s) <=> c \in X \/ Has(X, p)
      /\ c \in {"send", "await"} => ~ Sending(p) /\ ~ Has(F, p)
      /\ c \in {"put_entry", "put_prepared"} => ~ Has({"lg_pre_first_checkpoint"}, p)
  BY <1>1, LangGraphOnward
<1>3. /\ ~ Has(AdmissionSteps, s)
      /\ Has(F, s) => Sending(s)
      /\ Sending(s) => Awaits(s)
      /\ Has(B, s) => ~ Has({"send", "await"}, s)
      /\ Has({"lg_pending_writes_after_persist"}, s) =>
           d.writes \/ Before({"put_writes"}, {"lg_pending_writes_after_persist"}, s)
      /\ Has({"lg_pre_first_checkpoint"}, s) => d.checkpoint = "none"
      /\ h = "crash_run" => Has({"put_entry"}, s) \/ d.checkpoint # "none"
  BY <1>1 DEF LangGraphLaid
<1>4. /\ Sending(s) <=> c = "send" \/ Sending(p)
      /\ Awaits(s) <=> c = "await" \/ Awaits(p)
  BY <1>2 DEF Sending, Awaits
<1>5. /\ c = "put_entry" => Has(F, s)
      /\ c \in {"put_writes", "put_done"} => Has(B, s)
      /\ Has({"lg_pending_writes_after_persist"}, s) => Has(B, s)
      /\ Has({"lg_pre_first_checkpoint"}, s) => Has(F, s)
      /\ Sending(s) => Has({"send", "await"}, s)
  BY <1>2 DEF Has, Sending
<1>6. /\ c \in {"put_entry", "put_prepared", "put_done", "put_writes"} \/
           (e.checkpoint = d.checkpoint /\ e.writes = d.writes)
      /\ c = "put_entry" => e.checkpoint = "entry"
      /\ c = "put_prepared" => e.checkpoint = "prepared" /\ e.writes = d.writes
      /\ c = "put_done" => e.checkpoint = "done" /\ e.writes = d.writes
      /\ c = "put_writes" => e.checkpoint = d.checkpoint /\ e.writes
  BY DEF LangGraphWrites
<1>7. ~ Has(AdmissionSteps, p)
  BY <1>2, <1>3
<1>8. Has(F, p) => Sending(p)
  BY <1>2, <1>3, <1>4
<1>9. Sending(p) => Awaits(p)
  BY <1>2, <1>3, <1>4
<1>10. Has(B, p) => ~ Has({"send", "await"}, p)
  BY <1>2, <1>3
<1> HIDE DEF F, B, p, c
<1>11. Has({"lg_pending_writes_after_persist"}, p) =>
         e.writes \/ Before({"put_writes"}, {"lg_pending_writes_after_persist"}, p)
  <2>1. SUFFICES ASSUME Has({"lg_pending_writes_after_persist"}, p)
                 PROVE  e.writes \/ Before({"put_writes"}, {"lg_pending_writes_after_persist"}, p)
    OBVIOUS
  <2>2. d.writes \/ Before({"put_writes"}, {"lg_pending_writes_after_persist"}, s)
    BY <1>2, <1>3, <2>1
  <2>3. c # "put_entry"
    BY <1>2, <1>3, <1>5, <2>1
  <2>4. d.writes => e.writes
    BY <1>6, <2>3
  <2>5. CASE c = "put_writes"
    BY <1>6, <2>5
  <2>6. CASE c # "put_writes" /\ ~ d.writes
    <3>1. c \notin {"put_writes"}
      BY <2>6
    <3>2. Before({"put_writes"}, {"lg_pending_writes_after_persist"}, p)
      BY <2>2, <2>6, <3>1, BeforeTail DEF p, c
    <3>3. QED
      BY <3>2
  <2>7. QED
    BY <2>4, <2>5, <2>6
<1>12. Has({"lg_pre_first_checkpoint"}, p) => e.checkpoint = "none"
  <2>1. SUFFICES ASSUME Has({"lg_pre_first_checkpoint"}, p) PROVE e.checkpoint = "none"
    OBVIOUS
  <2>2. d.checkpoint = "none" /\ c \notin {"put_entry", "put_prepared"} /\ Sending(s)
    BY <1>2, <1>3, <1>5, <2>1
  <2>3. c # "put_done"
    BY <1>3, <1>5, <2>2
  <2>4. QED
    BY <1>6, <2>2, <2>3
<1>13. h = "crash_run" => Has({"put_entry"}, p) \/ e.checkpoint # "none"
  BY <1>2, <1>3, <1>6
<1>14. LangGraphLaid(h, p, e)
  BY <1>2, <1>7, <1>8, <1>9, <1>10, <1>11, <1>12, <1>13 DEF LangGraphLaid, F, B
<1>15. (Due(t, s, d) <=> Sending(s)) /\ (Due(t, p, e) <=> Sending(p))
  BY LaidLangGraph
<1>16. c = "send" => ~ Sending(p) /\ Awaits(p)
  BY <1>2, <1>3, <1>4
<1>17. QED
  BY <1>4, <1>14, <1>15, <1>16, LaidLangGraph DEF p, c

\* The completion races: the writes and the checkpoint after them, in any order.
LEMMA LangGraphForks ==
  ASSUME NEW t \in Trials, t.engine = "langgraph", NEW h, NEW s \in Programs, s # << >>,
         Head(s) = "race", NEW d, Laid(t, h, s, d), NEW b,
         NEW order \in Interleavings(<<"b1", "put_writes", "lg_pending_writes_after_persist">>,
                                     <<"put_done", "b2">>),
         NEW p, p = ArmedWith(order, b) \o Tail(s)
  PROVE  Moved(t, h, s, d, p, d)
<1> DEFINE v == <<"b1", "put_writes", "lg_pending_writes_after_persist">>
           w == <<"put_done", "b2">>
           q == Tail(s)
           u == ArmedWith(order, b)
           W == {"put_writes"}
           P == {"lg_pending_writes_after_persist"}
           F == {"lg_pre_first_checkpoint", "put_entry", "b0", "put_prepared"}
<1>1. LangGraphLaid(h, s, d)
  BY LaidLangGraph
<1>2. /\ q \in Programs
      /\ \A X : Has(X, s) <=> "race" \in X \/ Has(X, q)
      /\ ~ Sending(q) /\ ~ Has(F, q) /\ ~ Has({"lg_pre_first_checkpoint"}, q)
      /\ ~ Awaits(q) /\ ~ Has({"put_entry"}, q)
  BY <1>1, LangGraphOnward
<1>3. v \in Programs /\ w \in Programs
  BY Labels DEF Programs
<1>4. /\ Len(v) = 3 /\ v[1] = "b1" /\ v[2] = "put_writes"
      /\ v[3] = "lg_pending_writes_after_persist"
      /\ Len(w) = 2 /\ w[1] = "put_done" /\ w[2] = "b2"
  OBVIOUS
<1>5. order \in Interleavings(v, w)
  OBVIOUS
<1> HIDE DEF v, w
<1>6. (\A n \in 1 .. Len(v) : n \in {1, 2, 3}) /\ (\A n \in 1 .. Len(w) : n \in {1, 2})
  BY <1>4
<1>7. /\ \A n \in {1, 2, 3} : ForkRank[v[n]] = 0
      /\ \A n \in {1, 2} : ForkRank[w[n]] = 0
  BY <1>4, ForkRankTable
<1>8. Sorted(ForkRank, w)
  BY <1>6, <1>7 DEF Sorted
<1>9. Before(W, P, v) /\ Before(W, P, w)
  <2>1. \A n \in {1, 2, 3} : v[n] \in P => 2 \in 1 .. n - 1
    BY <1>4
  <2>2. \A n \in {1, 2} : w[n] \notin P
    BY <1>4
  <2>3. v[2] \in W
    BY <1>4
  <2>4. QED
    BY <1>6, <2>1, <2>2, <2>3 DEF Before
<1>10. \A X : /\ Has(X, v) => "b1" \in X \/ "put_writes" \in X
                                \/ "lg_pending_writes_after_persist" \in X
              /\ Has(X, w) => "put_done" \in X \/ "b2" \in X
  <2>1. \A n \in {1, 2, 3} : v[n] \in {"b1", "put_writes", "lg_pending_writes_after_persist"}
    BY <1>4
  <2>2. \A n \in {1, 2} : w[n] \in {"put_done", "b2"}
    BY <1>4
  <2>3. QED
    BY <1>6, <2>1, <2>2 DEF Has
<1>11. \A X : Has(X, order) <=> Has(X, v) \/ Has(X, w)
  BY <1>3, <1>5, HasMerge
<1>12. order \in Programs /\ Before(W, P, order)
  BY <1>3, <1>5, <1>9, MergePlaces, BeforeMerge
<1>13. \A n \in 1 .. Len(order) : ForkRank[order[n]] = 0
  <2>1. SUFFICES ASSUME NEW n \in 1 .. Len(order) PROVE ForkRank[order[n]] = 0
    OBVIOUS
  <2>2. Has({order[n]}, order)
    BY DEF Has
  <2>3. order[n] \in {"b1", "put_writes", "lg_pending_writes_after_persist", "put_done", "b2"}
    BY <1>10, <1>11, <2>2
  <2>4. QED
    BY <2>3, ForkRankTable
<1>14. W \cap Unarmed(b) = {}
  BY DEF Unarmed, Barrier, HiddenBarrier, HiddenPredictions, ReceiverBarrier
<1>15. u \in Programs /\ Before(W, P, u) /\ \A X : Has(X, u) => Has(X, order)
  BY <1>12, <1>14, ArmedPlaces, BeforeArmed, HasArmed
<1>16. \A X : Has(X, u) => "b1" \in X \/ "put_writes" \in X \/ "put_done" \in X \/ "b2" \in X
                             \/ "lg_pending_writes_after_persist" \in X
  BY <1>10, <1>11, <1>15
<1>17. \A n \in 1 .. Len(u) : ForkRank[u[n]] = 0
  <2>1. SUFFICES ASSUME NEW n \in 1 .. Len(u) PROVE ForkRank[u[n]] = 0
    OBVIOUS
  <2>2. Has({u[n]}, u)
    BY DEF Has
  <2>3. u[n] \in {"b1", "put_writes", "lg_pending_writes_after_persist", "put_done", "b2"}
    BY <1>16, <2>2
  <2>4. QED
    BY <2>3, ForkRankTable
<1>18. Sorted(ForkRank, q)
  BY <1>1, LangGraphOnward
<1> HIDE DEF u, q, W, P, F
<1>19. p = u \o q
  BY DEF u, q
<1>20. p \in Programs /\ \A X : Has(X, p) <=> Has(X, u) \/ Has(X, q)
  <2>1. u \in Programs /\ q \in Programs
    BY <1>2, <1>15
  <2>2. u \o q \in Programs /\ \A X : Has(X, u \o q) <=> Has(X, u) \/ Has(X, q)
    BY <2>1, ConcatPrograms, HasConcat
  <2>3. QED
    BY <1>19, <2>2, Zenon
<1>21. Sorted(ForkRank, p)
  <2>1. Sorted(ForkRank, u)
    BY <1>17, SortedNone
  <2>2. \A m \in 1 .. Len(u), n \in 1 .. Len(q) :
          ForkRank[u[m]] > 0 /\ ForkRank[q[n]] > 0 => ForkRank[u[m]] < ForkRank[q[n]]
    BY <1>17
  <2>3. u \in Programs /\ q \in Programs
    BY <1>2, <1>15
  <2>4. Sorted(ForkRank, u \o q)
    BY <1>18, <2>1, <2>2, <2>3, SortedConcat
  <2>5. QED
    BY <1>19, <2>4
<1>22. /\ ~ Has(AdmissionSteps, p) /\ ~ Has(F, p) /\ ~ Has({"lg_pre_first_checkpoint"}, p)
       /\ ~ Has({"send"}, p) /\ ~ Has({"await"}, p)
  <2>1. /\ ~ Has(AdmissionSteps, u) /\ ~ Has(F, u) /\ ~ Has({"lg_pre_first_checkpoint"}, u)
        /\ ~ Has({"send"}, u) /\ ~ Has({"await"}, u)
    BY <1>16 DEF AdmissionSteps, F
  <2>2. ~ Has(AdmissionSteps, q)
    BY <1>1, <1>2 DEF LangGraphLaid
  <2>3. QED
    BY <1>2, <1>20, <2>1, <2>2 DEF Sending, Awaits
<1>23. ~ Has({"send", "await"}, p)
  BY <1>22 DEF Has
<1>24. Has(P, p) => d.writes \/ Before(W, P, p)
  <2>1. SUFFICES ASSUME Has(P, p), ~ d.writes PROVE Before(W, P, p)
    OBVIOUS
  <2>2. CASE Has(P, q)
    <3>1. Has(P, s)
      BY <1>2, <2>2
    <3>2. Before(W, P, s)
      BY <1>1, <2>1, <3>1 DEF LangGraphLaid, W, P
    <3>3. "race" \notin W
      BY DEF W
    <3>4. Before(W, P, q)
      BY <3>2, <3>3, BeforeTail DEF q
    <3>5. QED
      BY <1>2, <1>15, <1>19, <3>4, BeforeConcat
  <2>3. CASE ~ Has(P, q)
    <3>1. Before(W, P, q)
      BY <2>3 DEF Before, Has
    <3>2. QED
      BY <1>2, <1>15, <1>19, <3>1, BeforeConcat
  <2>4. QED
    BY <2>2, <2>3
<1>25. h = "crash_run" => d.checkpoint # "none"
  <2>1. ~ Has({"put_entry"}, s)
    BY <1>2
  <2>2. QED
    BY <1>1, <2>1 DEF LangGraphLaid
<1>26. LangGraphLaid(h, p, d)
  BY <1>21, <1>22, <1>23, <1>24, <1>25 DEF LangGraphLaid, F, W, P, Sending
<1>27. ~ Sending(s) /\ ~ Awaits(s) /\ ~ Sending(p)
  BY <1>2, <1>22 DEF Sending, Awaits
<1>28. QED
  BY <1>26, <1>27, LaidLangGraph DEF Moved

LEMMA LangGraphCuts ==
  ASSUME NEW t \in Trials, t.engine = "langgraph", Planned(t), NEW h, NEW s \in Programs, s # << >>,
         Head(s) = t.barrier, NEW d \in LangGraphDisk, Laid(t, h, s, d),
         t.barrier = "b2" => d.writes
  PROVE  (h = "crash_run" => Cuts(t, s, d)) /\ (Due(t, s, d) \/ ~ Awaits(s))
<1> DEFINE c == Head(s)
           r == RecoveryRun(t, d)
<1>1. c \in {"b0", "b1", "b2", "lg_pre_first_checkpoint", "lg_pending_writes_after_persist"}
  BY PlannedTrials
<1>2. LangGraphLaid(h, s, d)
  BY LaidLangGraph
<1>3. \A X : Has(X, s) <=> c \in X \/ Has(X, Tail(s))
  BY HasTail
<1>4. c \in {"b0", "lg_pre_first_checkpoint"} => Sending(s)
  BY <1>2, <1>3 DEF LangGraphLaid
<1>5. c \in {"b1", "b2", "lg_pending_writes_after_persist"} => ~ Sending(s) /\ ~ Awaits(s)
  <2>1. c \in {"b1", "b2", "lg_pending_writes_after_persist"} => ~ Has({"send", "await"}, s)
    BY <1>2, <1>3 DEF LangGraphLaid
  <2>2. QED
    BY <2>1 DEF Has, Sending, Awaits
<1>6. c = "lg_pre_first_checkpoint" => d.checkpoint = "none"
  BY <1>2, <1>3 DEF LangGraphLaid
<1>7. c = "lg_pending_writes_after_persist" => d.writes
  <2>1. SUFFICES ASSUME c = "lg_pending_writes_after_persist",
                        Before({"put_writes"}, {"lg_pending_writes_after_persist"}, s)
                 PROVE  FALSE
    BY <1>2, <1>3 DEF LangGraphLaid
  <2>2. c \notin {"put_writes"} /\ c \in {"lg_pending_writes_after_persist"}
    BY <2>1
  <2>3. QED
    BY <2>1, <2>2, BeforeTail
<1>8. h = "crash_run" /\ c \in {"b1", "b2", "lg_pending_writes_after_persist"} =>
        d.checkpoint # "none"
  <2>1. ~ Sending(s) => ~ Has({"put_entry"}, s)
    <3>1. Has({"put_entry"}, s) =>
            Has({"lg_pre_first_checkpoint", "put_entry", "b0", "put_prepared"}, s)
      BY DEF Has
    <3>2. QED
      BY <1>2, <3>1 DEF LangGraphLaid
  <2>2. QED
    BY <1>2, <1>5, <2>1 DEF LangGraphLaid
<1>9. Laid(t, "recovery_run", r, d) /\ (Due(t, r, d) <=> ~ Durable(t, d) /\ d.checkpoint # "none")
  BY LangGraphResumed DEF Planned
<1>10. (Durable(t, d) <=> d.writes \/ d.checkpoint = "done") /\ (Due(t, s, d) <=> Sending(s))
  BY LaidLangGraph
<1>11. Due(t, s, d) \/ ~ Awaits(s)
  BY <1>1, <1>4, <1>5, <1>10
<1>12. /\ t.barrier \in EarlyBarriers => c \in {"b0", "lg_pre_first_checkpoint"}
       /\ t.barrier \in MiddleBarriers => c = "b1"
       /\ t.barrier \in LateBarriers => c \in {"b2", "lg_pending_writes_after_persist"}
       /\ Unstored(t) => c = "lg_pre_first_checkpoint"
  BY <1>1, BarrierTable DEF EarlyBarriers, Unstored
<1> HIDE DEF c, r
<1>13. ASSUME h = "crash_run"
       PROVE  Cuts(t, s, d)
  <2>1. t.barrier \in EarlyBarriers => Due(t, s, d)
    BY <1>4, <1>10, <1>12
  <2>2. t.barrier \in MiddleBarriers => ~ Due(t, s, d) /\ ~ Awaits(s)
    BY <1>5, <1>10, <1>12
  <2>3. t.barrier \in MiddleBarriers => Due(t, r, d) \/ Durable(t, d)
    BY <1>8, <1>9, <1>12, <1>13
  <2>4. t.barrier \in LateBarriers => Durable(t, d)
    BY <1>7, <1>10, <1>12 DEF c
  <2>5. Unstored(t) => ~ Due(t, r, d)
    BY <1>6, <1>9, <1>12
  <2>6. Durable(t, d) => ~ Due(t, r, d)
    BY <1>9
  <2>7. Recovers(t, d)
    BY <1>9, <2>3, <2>4, <2>5, <2>6 DEF Recovers, r
  <2>8. QED
    BY <2>1, <2>2, <2>7 DEF Cuts
<1>14. QED
  BY <1>11, <1>13

LEMMA LangGraphDone ==
  ASSUME NEW t, t.engine = "langgraph", NEW d
  PROVE  ~ Due(t, << >>, d)
<1>1. \A X : ~ Has(X, << >>)
  BY NothingOrdered
<1>2. QED
  BY <1>1, LaidLangGraph DEF Sending

LEMMA DbosDone ==
  ASSUME NEW t, t.engine = "dbos", NEW d
  PROVE  ~ Due(t, << >>, d)
<1>1. \A X : ~ Has(X, << >>)
  BY NothingOrdered
<1>2. QED
  BY <1>1, LaidDbos

-----------------------------------------------------------------------------
(***************************************************************************)
(* A step of such a trial's process.                                       *)
(***************************************************************************)
LEMMA QuietPasses ==
  ASSUME NEW t \in Trials, Planned(t), NEW h, NEW s, s # << >>, NEW d, StateAt(t, h, s, d),
         Laid(t, h, s, d), Head(s) = ReceiverBarrier => d.marker,
         \/ Head(s) \in {"await", "send", t.barrier}
         \/ t.engine = "dbos" /\ Head(s) \in SendSteps
  PROVE  /\ Laid(t, h, Tail(s), d)
         /\ Head(s) \notin SendSteps => (Due(t, Tail(s), d) <=> Due(t, s, d))
         /\ Head(s) \in SendSteps =>
              ~ Due(t, Tail(s), d) /\ Awaits(Tail(s)) /\ Due(t, s, d)
         /\ Awaits(s) => Awaits(Tail(s)) \/ Head(s) = "await"
<1> DEFINE p == Tail(s)
           c == Head(s)
<1>1. s \in Programs
  BY DEF StateAt
<1>2. /\ c \in SendSteps \cup {"await", t.barrier}
      /\ t.engine # "dbos" => (c \in SendSteps <=> c = "send")
  <2>1. t.barrier \notin SendSteps
    BY PlannedTrials DEF SendSteps, ReceiverBarrier
  <2>2. QED
    BY <2>1 DEF SendSteps
<1>3. CASE t.engine = "langgraph"
  <2>1. c \notin {"race", "put_entry", "put_prepared", "put_done", "put_writes"}
    BY <1>2, <1>3, PlannedTrials DEF SendSteps
  <2>2. LangGraphWrites(s, d, d)
    BY <2>1 DEF LangGraphWrites
  <2>3. QED
    BY <1>1, <1>2, <1>3, <2>1, <2>2, LangGraphPasses
<1>4. CASE t.engine = "dbos"
  <2>1. c \notin StepName \cup {"enqueue", "commit_outcome"}
    BY <1>2, <1>4, PlannedTrials DEF SendSteps, StepName
  <2>2. DbosWrites(s, d, d) /\ d \in DbosDisk
    BY <1>4, <2>1 DEF DbosWrites, StateAt, DbosAt
  <2>3. DbosLaid(t, h, s, d)
    BY <1>4, LaidDbos
  <2>4. /\ DbosLaid(t, h, p, d)
        /\ c \notin SendSteps => (Has(SendSteps, p) <=> Has(SendSteps, s))
        /\ c # "await" => (Awaits(s) => Awaits(p))
    BY <1>1, <1>4, <2>2, <2>3, DbosPasses
  <2>5. /\ c \in SendSteps => ~ Has(SendSteps, p) /\ Awaits(p)
        /\ c \in SendSteps => Has(SendSteps, s)
    BY <1>1, <2>3, DbosOnward
  <2> HIDE DEF p, c
  <2>6. /\ Laid(t, h, p, d) <=> DbosLaid(t, h, p, d)
        /\ Due(t, p, d) <=> Has(SendSteps, p)
        /\ Due(t, s, d) <=> Has(SendSteps, s)
    BY <1>4, LaidDbos
  <2>7. QED
    BY <2>4, <2>5, <2>6 DEF p, c
<1>5. CASE t.engine = "temporal"
  <2>1. c \notin {"start_workflow", "poll", "decide", "report"}
    BY <1>2, <1>5, PlannedTrials DEF SendSteps
  <2>2. TemporalWrites(t, s, d, d) /\ d \in TemporalDisk
    BY <1>5, <2>1 DEF TemporalWrites, StateAt, TemporalAt
  <2>3. QED
    BY <1>1, <1>2, <1>5, <2>2, TemporalPasses
<1>6. CASE t.engine = "trueforge"
  <2>1. c \notin {"create_turn", "kill", "tool.response"}
    BY <1>2, <1>6, PlannedTrials DEF SendSteps, ReceiverBarrier
  <2>2. QED
    BY <1>1, <1>2, <1>6, <2>1, TrueForgePasses
<1>7. QED
  BY <1>3, <1>4, <1>5, <1>6, PlannedTrials

\* What a process that sends nothing can have done.
Advances == /\ exit' = "running" /\ todo # << >>
            /\ Moved(trial, harness, todo, disk, todo', disk')
CutShort == /\ exit' = "killed" /\ disk' = disk /\ todo' = << >>
            /\ harness = "crash_run" => Cuts(trial, todo, disk)
            /\ Due(trial, todo, disk) \/ ~ Awaits(todo)
Finishes == exit' = "zero" /\ disk' = disk /\ todo = << >> /\ todo' = << >>
Errs == exit' = "error" /\ disk' = disk /\ todo' = << >>
Stepped == Advances \/ CutShort \/ Finishes \/ Errs

LEMMA QuietSteps ==
  ASSUME trial \in Trials, Planned(trial), RunTyped, Laid(trial, harness, todo, disk),
         exit' = "running", todo # << >>, Head(todo) \in {"await", trial.barrier},
         todo' = Tail(todo), disk' = disk, Head(todo) = ReceiverBarrier => disk.marker
  PROVE  Stepped
<1> DEFINE s == todo
           d == disk
           t == trial
           h == harness
<1>1. t \in Trials /\ Planned(t) /\ s # << >> /\ StateAt(t, h, s, d) /\ Laid(t, h, s, d)
      /\ Head(s) \in {"await", "send", t.barrier} /\ (Head(s) = ReceiverBarrier => d.marker)
  BY DEF RunTyped
<1>2. Head(s) \notin SendSteps
  BY PlannedTrials DEF SendSteps, ReceiverBarrier
<1> HIDE DEF s, d, t, h
<1>3. Moved(t, h, s, d, Tail(s), d)
  BY <1>1, <1>2, QuietPasses DEF Moved
<1>4. QED
  BY <1>3 DEF s, d, t, h, Stepped, Advances

LEMMA DbosAdvances ==
  ASSUME trial \in Trials, Planned(trial), trial.engine = "dbos", RunTyped,
         Laid(trial, harness, todo, disk), exit = "running", DbosProcess, ~ SendCharge
  PROVE  Stepped
<1> DEFINE s == todo
           d == disk
           t == trial
           h == harness
           p == todo'
           e == disk'
<1>1. t \in Trials /\ Planned(t) /\ t.engine = "dbos" /\ s \in Programs /\ d \in DbosDisk
      /\ DbosLaid(t, h, s, d)
  BY LaidDbos DEF RunTyped, StateAt, DbosAt
<1>2. ASSUME exit' = "running", s # << >>, p = Tail(s), DbosWrites(s, d, e),
             Head(s) \notin SendSteps \cup {"await"}
      PROVE  Stepped
  <2> HIDE DEF s, d, t, h, p, e
  <2>1. /\ DbosLaid(t, h, p, e)
        /\ Has(SendSteps, p) <=> Has(SendSteps, s)
        /\ Awaits(s) => Awaits(p)
    BY <1>1, <1>2, DbosPasses
  <2>2. /\ Laid(t, h, p, e) <=> DbosLaid(t, h, p, e)
        /\ Due(t, p, e) <=> Has(SendSteps, p)
        /\ Due(t, s, d) <=> Has(SendSteps, s)
    BY <1>1, LaidDbos
  <2>3. Moved(t, h, s, d, p, e)
    BY <2>1, <2>2 DEF Moved
  <2>4. QED
    BY <1>2, <2>3 DEF Stepped, Advances, s, d, t, h, p, e
<1>3. CASE KillSelf(TRUE)
  <2>1. /\ s # << >> /\ Head(s) = t.barrier /\ exit' = "killed" /\ e = d /\ p = << >>
    BY <1>3 DEF KillSelf, Running, ExitWith
  <2> HIDE DEF s, d, t, h, p, e
  <2>2. h = "crash_run" => Cuts(t, s, d)
    BY <1>1, <2>1, DbosCuts
  <2>3. Due(t, s, d) \/ ~ Awaits(s)
    BY <1>1, <2>1, DbosKillAwaits
  <2>4. QED
    BY <2>1, <2>2, <2>3 DEF Stepped, CutShort, s, d, t, h, p, e
<1>4. CASE Enqueue
  <2>1. /\ exit' = "running" /\ s # << >> /\ Head(s) = "enqueue" /\ p = Tail(s)
        /\ e = [d EXCEPT !.wf = "PENDING"]
    BY <1>4 DEF Enqueue, Running, Persists, Advance
  <2>2. DbosWrites(s, d, e)
    BY <2>1 DEF DbosWrites
  <2>3. QED
    BY <1>2, <2>1, <2>2 DEF SendSteps
<1>5. CASE CommitOutcome
  <2>1. /\ exit' = "running" /\ s # << >> /\ Head(s) = "commit_outcome" /\ p = Tail(s)
        /\ e = [d EXCEPT !.wf = "SUCCESS"]
    BY <1>5 DEF CommitOutcome, Running, Persists, Advance
  <2>2. DbosWrites(s, d, e)
    BY <2>1 DEF DbosWrites
  <2>3. QED
    BY <1>2, <2>1, <2>2 DEF SendSteps
<1>6. CASE CommitOutput
  <2>1. PICK step \in StepName : /\ Running(step)
                                 /\ Persists([disk EXCEPT !.outputs = Append(@, step)])
    BY <1>6 DEF CommitOutput
  <2>2. /\ exit' = "running" /\ s # << >> /\ Head(s) = step /\ p = Tail(s)
        /\ e = [d EXCEPT !.outputs = Append(@, Head(s))]
    BY <2>1 DEF Running, Persists, Advance
  <2>3. DbosWrites(s, d, e)
    BY <2>2 DEF DbosWrites
  <2>4. step \notin SendSteps \cup {"await"}
    BY DEF StepName, SendSteps
  <2>5. QED
    BY <1>2, <2>2, <2>3, <2>4
<1>7. CASE Raise("no_workflow")
  BY <1>7 DEF Raise, ExitWith, Stepped, Errs
<1>8. QED
  BY <1>3, <1>4, <1>5, <1>6, <1>7 DEF DbosProcess

LEMMA LangGraphAdvances ==
  ASSUME trial \in Trials, Planned(trial), trial.engine = "langgraph", RunTyped,
         Laid(trial, harness, todo, disk), exit = "running", LangGraphProcess
  PROVE  Stepped
<1> DEFINE s == todo
           d == disk
           t == trial
           h == harness
           p == todo'
           e == disk'
<1>1. t \in Trials /\ Planned(t) /\ t.engine = "langgraph" /\ s \in Programs /\ d \in LangGraphDisk
      /\ Laid(t, h, s, d) /\ LangGraphLaid(h, s, d)
  BY LaidLangGraph DEF RunTyped, StateAt, LangGraphAt
<1>2. ASSUME exit' = "running", s # << >>, p = Tail(s), LangGraphWrites(s, d, e),
             Head(s) \notin {"race", "send"}
      PROVE  Stepped
  <2> HIDE DEF s, d, t, h, p, e
  <2>1. Moved(t, h, s, d, p, e)
    BY <1>1, <1>2, LangGraphPasses DEF Moved
  <2>2. QED
    BY <1>2, <2>1 DEF Stepped, Advances, s, d, t, h, p, e
<1>3. d = [checkpoint |-> d.checkpoint, events |-> d.events, writes |-> d.writes,
           report |-> d.report]
  BY <1>1 DEF LangGraphDisk
<1>4. CASE LangGraphKill
  <2>1. /\ s # << >> /\ Head(s) = t.barrier /\ e = d
        /\ \/ exit' = "killed" /\ p = << >> /\ (t.barrier = "b2" => d.writes)
           \/ exit' = "running" /\ p = Tail(s)
    BY <1>4 DEF LangGraphKill, KillSelf, Running, ExitWith, Advance
  <2>2. CASE exit' = "running" /\ p = Tail(s)
    <3>1. t.barrier # ReceiverBarrier
      BY <1>1, PlannedTrials
    <3>2. QED
      BY <1>1, <2>1, <2>2, <3>1, QuietSteps
  <2>3. CASE exit' = "killed" /\ p = << >> /\ (t.barrier = "b2" => d.writes)
    <3> HIDE DEF s, d, t, h, p, e
    <3>1. (h = "crash_run" => Cuts(t, s, d)) /\ (Due(t, s, d) \/ ~ Awaits(s))
      BY <1>1, <2>1, <2>3, LangGraphCuts
    <3>2. QED
      BY <2>1, <2>3, <3>1 DEF Stepped, CutShort, s, d, t, h, p, e
  <2>4. QED
    BY <2>1, <2>2, <2>3
<1>5. ASSUME Running("put_entry"),
             Persists([disk EXCEPT !.checkpoint = "entry", !.writes = FALSE])
      PROVE  Stepped
  <2>1. /\ exit' = "running" /\ s # << >> /\ Head(s) = "put_entry" /\ p = Tail(s)
        /\ e = [d EXCEPT !.checkpoint = "entry", !.writes = FALSE]
    BY <1>5 DEF Running, Persists, Advance
  <2>2. e.checkpoint = "entry"
    BY <1>3, <2>1
  <2>3. QED
    BY <1>2, <2>1, <2>2 DEF LangGraphWrites
<1>6. ASSUME Running("put_prepared"), Persists([disk EXCEPT !.checkpoint = "prepared"])
      PROVE  Stepped
  <2>1. /\ exit' = "running" /\ s # << >> /\ Head(s) = "put_prepared" /\ p = Tail(s)
        /\ e = [d EXCEPT !.checkpoint = "prepared"]
    BY <1>6 DEF Running, Persists, Advance
  <2>2. e.checkpoint = "prepared" /\ e.writes = d.writes
    BY <1>3, <2>1
  <2>3. QED
    BY <1>2, <2>1, <2>2 DEF LangGraphWrites
<1>7. ASSUME Running("put_done"), Persists([disk EXCEPT !.checkpoint = "done"])
      PROVE  Stepped
  <2>1. /\ exit' = "running" /\ s # << >> /\ Head(s) = "put_done" /\ p = Tail(s)
        /\ e = [d EXCEPT !.checkpoint = "done"]
    BY <1>7 DEF Running, Persists, Advance
  <2>2. e.checkpoint = "done" /\ e.writes = d.writes
    BY <1>3, <2>1
  <2>3. QED
    BY <1>2, <2>1, <2>2 DEF LangGraphWrites
<1>8. CASE PutWrites
  <2>1. /\ exit' = "running" /\ s # << >> /\ Head(s) = "put_writes" /\ p = Tail(s)
        /\ e = [d EXCEPT !.writes = TRUE]
    BY <1>8 DEF PutWrites, Running, Persists, Advance
  <2>2. e.checkpoint = d.checkpoint /\ e.writes = TRUE
    BY <1>3, <2>1
  <2>3. QED
    BY <1>2, <2>1, <2>2 DEF LangGraphWrites
<1>9. CASE Race
  <2>1. /\ exit' = "running" /\ s # << >> /\ Head(s) = "race" /\ e = d
    BY <1>9 DEF Race, Running
  <2>2. PICK order \in Interleavings(<<"b1", "put_writes", "lg_pending_writes_after_persist">>,
                                     <<"put_done", "b2">>) :
          p = ArmedWith(order, Armed) \o Tail(s)
    BY <1>9 DEF Race
  <2> DEFINE b == Armed
  <2>3. p = ArmedWith(order, b) \o Tail(s)
    BY <2>2
  <2> HIDE DEF s, d, t, h, p, e, b
  <2>4. Moved(t, h, s, d, p, d)
    BY <1>1, <2>1, <2>3, LangGraphForks
  <2>5. QED
    BY <2>1, <2>4 DEF Stepped, Advances, s, d, t, h, p, e
<1>10. CASE EmptyInput
  <2>1. CASE Raise("empty_input")
    BY <2>1 DEF Raise, ExitWith, Stepped, Errs
  <2>2. CASE ~ Raise("empty_input")
    <3>1. /\ exit' = "running" /\ s # << >> /\ Head(s) = "empty_input" /\ p = Tail(s)
          /\ e = [d EXCEPT !.report = @ \cup {"EmptyInputError"}]
      BY <1>10, <2>2 DEF EmptyInput, Running, Persists, Advance
    <3>2. e.checkpoint = d.checkpoint /\ e.writes = d.writes
      BY <1>3, <3>1
    <3>3. QED
      BY <1>2, <3>1, <3>2 DEF LangGraphWrites
  <2>3. QED
    BY <2>1, <2>2
<1>11. ~ ReadAdmission /\ ~ Complete
  <2>1. s # << >> => ~ (Head(s) \in AdmissionSteps)
    BY <1>1, HasTail DEF LangGraphLaid
  <2>2. QED
    BY <2>1 DEF ReadAdmission, Complete, Running, AdmissionSteps
<1>12. QED
  BY <1>4, <1>5, <1>6, <1>7, <1>8, <1>9, <1>10, <1>11 DEF LangGraphProcess, PutCheckpoint

LEMMA TemporalAdvances ==
  ASSUME trial \in Trials, Planned(trial), trial.engine = "temporal", RunTyped, ~ Failures,
         Laid(trial, harness, todo, disk), exit = "running", TemporalProcess
  PROVE  Stepped
<1> DEFINE s == todo
           d == disk
           t == trial
           h == harness
           p == todo'
           e == disk'
<1>1. t \in Trials /\ Planned(t) /\ t.engine = "temporal" /\ s \in Programs /\ d \in TemporalDisk
      /\ TemporalAt(t, d) /\ Laid(t, h, s, d)
  BY DEF RunTyped, StateAt, TemporalAt
<1>2. ASSUME exit' = "running", s # << >>, p = Tail(s), TemporalWrites(t, s, d, e),
             Head(s) # "send"
      PROVE  Stepped
  <2> HIDE DEF s, d, t, h, p, e
  <2>1. Moved(t, h, s, d, p, e)
    BY <1>1, <1>2, TemporalPasses DEF Moved
  <2>2. QED
    BY <1>2, <2>1 DEF Stepped, Advances, s, d, t, h, p, e
<1>3. CASE StartWorkflow
  <2>1. /\ exit' = "running" /\ s # << >> /\ Head(s) = "start_workflow" /\ p = Tail(s)
        /\ e = [d EXCEPT !.wf = "open", !.wft = "ready"]
    BY <1>3 DEF StartWorkflow, Running, Persists, Advance
  <2>2. QED
    BY <1>2, <2>1 DEF TemporalWrites
<1>4. CASE Decide
  <2>1. /\ exit' = "running" /\ s # << >> /\ Head(s) = "decide" /\ p = Tail(s)
        /\ e = IF d.next < Len(Activities(t))
                 THEN [d EXCEPT !.wft = "none", !.act = "ready", !.attempt = 1]
                 ELSE [d EXCEPT !.wft = "none", !.wf = "closed"]
    BY <1>4 DEF Decide, Running, Persists, Advance
  <2>2. QED
    BY <1>2, <2>1 DEF TemporalWrites
<1>5. CASE ReportActivity
  <2>1. /\ exit' = "running" /\ s # << >> /\ Head(s) = "report" /\ p = Tail(s)
        /\ e = IF d.act # "taken" THEN d
               ELSE [d EXCEPT !.next = @ + 1, !.act = "none", !.wft = "ready",
                              !.started = IF d.next = 0 THEN d.attempt ELSE @]
    BY <1>5 DEF ReportActivity, Running, Persists, Advance
  <2>2. QED
    BY <1>2, <2>1 DEF TemporalWrites
<1>6. CASE AwaitResult
  <2>1. CASE Raise("poll")
    BY <2>1 DEF Raise, ExitWith, Stepped, Errs
  <2>2. CASE ~ Raise("poll")
    <3>1. /\ exit' = "running" /\ s # << >> /\ Head(s) = "poll" /\ p = Tail(s) /\ e = d
          /\ d.wf = "closed"
      BY <1>6, <2>2 DEF AwaitResult, Running, Persists, Advance
    <3>2. QED
      BY <1>2, <3>1 DEF TemporalWrites
  <2>3. QED
    BY <2>1, <2>2
<1>7. ASSUME NEW b, exit' = "running", s # << >>, Head(s) = "poll", TemporalTaken(t, b, s, d, p, e)
      PROVE  Stepped
  <2> HIDE DEF s, d, t, h, p, e
  <2>1. Moved(t, h, s, d, p, e)
    BY <1>1, <1>7, TemporalTakings
  <2>2. QED
    BY <1>7, <2>1 DEF Stepped, Advances, s, d, t, h, p, e
<1>8. CASE PollWorkflowTask
  <2> DEFINE b == Armed
  <2>1. exit' = "running" /\ s # << >> /\ Head(s) = "poll" /\ TemporalTaken(t, b, s, d, p, e)
    BY <1>8 DEF PollWorkflowTask, Takes, Running, TemporalTaken
  <2> HIDE DEF b
  <2>2. QED
    BY <1>7, <2>1
<1>9. CASE PollActivity
  <2> DEFINE b == Armed
  <2>1. exit' = "running" /\ s # << >> /\ Head(s) = "poll" /\ TemporalTaken(t, b, s, d, p, e)
    BY <1>9 DEF PollActivity, Takes, Running, TemporalTaken
  <2> HIDE DEF b
  <2>2. QED
    BY <1>7, <2>1
<1>10. ASSUME s # << >>, e = d, p = << >>, exit' = "killed",
              \/ Head(s) = t.barrier /\ (t.barrier = "tmp_workflow_task_replay" => d.next = 1)
              \/ /\ Head(s) = "poll" /\ d.act = "ready"
                 /\ t.barrier = "tmp_activity_scheduled_before_worker_poll"
       PROVE  Stepped
  <2> HIDE DEF s, d, t, h, p, e
  <2>1. Cuts(t, s, d) /\ (Due(t, s, d) \/ ~ Awaits(s))
    BY <1>1, <1>10, TemporalCuts
  <2>2. QED
    BY <1>10, <2>1 DEF Stepped, CutShort, s, d, t, h, p, e
<1>11. CASE TemporalKill
  <2>1. /\ s # << >> /\ Head(s) = t.barrier /\ e = d
        /\ \/ /\ exit' = "killed" /\ p = << >>
              /\ t.barrier = "tmp_workflow_task_replay" => d.next = 1
           \/ exit' = "running" /\ p = Tail(s)
    BY <1>11 DEF TemporalKill, KillSelf, Running, ExitWith, Advance
  <2>2. t.barrier # ReceiverBarrier
    BY <1>1, PlannedTrials
  <2>3. QED
    BY <1>1, <1>10, <2>1, <2>2, QuietSteps
<1>12. CASE WatchHistory
  <2>1. /\ s # << >> /\ Head(s) = "poll" /\ e = d /\ p = << >> /\ exit' = "killed"
        /\ d.act = "ready" /\ Armed = "tmp_activity_scheduled_before_worker_poll"
    BY <1>12 DEF WatchHistory, OnlyWorkflows, Running, ExitWith
  <2>2. t.barrier = "tmp_activity_scheduled_before_worker_poll"
    BY <2>1 DEF Armed
  <2>3. QED
    BY <1>10, <2>1, <2>2
<1>13. ~ TemporalSamplerFails
  BY DEF TemporalSamplerFails
<1>14. QED
  BY <1>3, <1>4, <1>5, <1>6, <1>8, <1>9, <1>11, <1>12, <1>13 DEF TemporalProcess

TurnsKept == {"first", "retry"}

LEMMA TrueForgeMarker ==
  ASSUME NEW d \in TrueForgeDisk, NEW k \in TurnsKept
  PROVE  /\ d.marker \in BOOLEAN
         /\ [d EXCEPT !.marker = TRUE].marker = TRUE
         /\ [d EXCEPT !.answered = TRUE].marker = d.marker
         /\ \A event : [d EXCEPT ![k].events = @ \cup {event}].marker = d.marker
         /\ [d EXCEPT ![k].status = "done"].marker = d.marker
         /\ Shown([d EXCEPT ![k].status = "done"]) => Shown(d)
         /\ [d EXCEPT !.first.status = IF @ = "running" THEN "cancelled" ELSE @,
                      ![k] = [events |-> {"turn.created"}, status |-> "running"]].marker
              = d.marker
<1>1. /\ d.first \in Turn /\ d.retry \in Turn /\ d.marker \in BOOLEAN
      /\ d = [answered |-> d.answered, marker |-> d.marker, first |-> d.first,
              retry |-> d.retry]
  BY DEF TrueForgeDisk
<1>2. /\ [d EXCEPT !.marker = TRUE].marker = TRUE
      /\ [d EXCEPT !.answered = TRUE].marker = d.marker
  BY <1>1
<1>3. CASE k = "first"
  <2>1. /\ \A event : [d EXCEPT !["first"].events = @ \cup {event}].marker = d.marker
        /\ [d EXCEPT !["first"].status = "done"].marker = d.marker
    BY <1>1
  <2>2. [d EXCEPT !.first.status = IF @ = "running" THEN "cancelled" ELSE @,
                  !["first"] = [events |-> {"turn.created"}, status |-> "running"]].marker
          = d.marker
    BY <1>1
  <2>3. Shown([d EXCEPT !["first"].status = "done"]) => Shown(d)
    BY <1>1 DEF Shown, Turn
  <2>4. QED
    BY <1>1, <1>2, <1>3, <2>1, <2>2, <2>3
<1>4. CASE k = "retry"
  <2>1. /\ \A event : [d EXCEPT !["retry"].events = @ \cup {event}].marker = d.marker
        /\ [d EXCEPT !["retry"].status = "done"].marker = d.marker
    BY <1>1
  <2>2. [d EXCEPT !.first.status = IF @ = "running" THEN "cancelled" ELSE @,
                  !["retry"] = [events |-> {"turn.created"}, status |-> "running"]].marker
          = d.marker
    BY <1>1
  <2>3. Shown([d EXCEPT !["retry"].status = "done"]) => Shown(d)
    BY <1>1 DEF Shown, Turn
  <2>4. QED
    BY <1>1, <1>2, <1>4, <2>1, <2>2, <2>3
<1>5. QED
  BY <1>3, <1>4 DEF TurnsKept

LEMMA LoggedMarker ==
  ASSUME NEW d \in TrueForgeDisk, NEW k \in TurnsKept, NEW event
  PROVE  [d EXCEPT ![k].events = @ \cup {event}].marker = d.marker
<1>1. d.marker = [d EXCEPT !["first"].events = @ \cup {event}].marker
  BY DEF TrueForgeDisk
<1>2. d.marker = [d EXCEPT !["retry"].events = @ \cup {event}].marker
  BY DEF TrueForgeDisk
<1>3. QED
  BY <1>1, <1>2 DEF TurnsKept

LEMMA TrueForgeAdvances ==
  ASSUME trial \in Trials, Planned(trial), trial.engine = "trueforge", RunTyped,
         Laid(trial, harness, todo, disk), exit = "running", TrueForgeProcess
  PROVE  Stepped
<1> DEFINE s == todo
           d == disk
           t == trial
           h == harness
           p == todo'
           e == disk'
           k == CurrentTurn
<1>1. t \in Trials /\ Planned(t) /\ t.engine = "trueforge" /\ s \in Programs /\ d \in TrueForgeDisk
      /\ Laid(t, h, s, d) /\ t.barrier = ReceiverBarrier
  BY PlannedTrials DEF RunTyped, StateAt
<1>2. k \in TurnsKept
  BY DEF CurrentTurn, TurnsKept
<1>3. ASSUME exit' = "running", s # << >>, p = Tail(s), e.marker = d.marker,
             Head(s) # "tool.response" => (Shown(e) => Shown(d)),
             Head(s) \notin {"send", "create_turn", "kill"},
             Head(s) = ReceiverBarrier => d.marker
      PROVE  Stepped
  <2> HIDE DEF s, d, t, h, p, e
  <2>1. Moved(t, h, s, d, p, e)
    BY <1>1, <1>3, TrueForgePasses DEF Moved
  <2>2. QED
    BY <1>3, <2>1 DEF Stepped, Advances, s, d, t, h, p, e
<1>4. CASE AnswerCreate
  <2>1. /\ exit' = "running" /\ s # << >> /\ Head(s) = "answer_create" /\ p = Tail(s)
        /\ e = [d EXCEPT !.answered = TRUE]
    BY <1>4 DEF AnswerCreate, Running, Persists, Advance
  <2>2. e.marker = d.marker /\ (Shown(e) => Shown(d))
    BY <1>1, <1>2, <2>1, TrueForgeMarker, TrueForgeShown, Zenon
  <2>3. QED
    BY <1>3, <2>1, <2>2 DEF ReceiverBarrier
<1>5. CASE LogEvent
  <2>1. PICK event \in {"model.message", "tool.response"} : Running(event) /\ Logs(event)
    BY <1>5 DEF LogEvent
  <2>2. /\ exit' = "running" /\ s # << >> /\ Head(s) = event /\ p = Tail(s)
        /\ e = [d EXCEPT ![k].events = @ \cup {event}]
    BY <2>1 DEF Logs, Running, Persists, Advance
  <2> HIDE DEF k, d
  <2>3. e.marker = d.marker
    <3>1. \A ev : [d EXCEPT ![k].events = @ \cup {ev}].marker = d.marker
      BY <1>1, <1>2, LoggedMarker
    <3>2. QED
      BY <2>2, <3>1
  <2>4. event = "model.message" => (Shown(e) => Shown(d))
    <3>1. CASE k = "first"
      BY <1>1, <2>2, <3>1, TrueForgeShown, Zenon
    <3>2. CASE k = "retry"
      BY <1>1, <2>2, <3>2, TrueForgeShown, Zenon
    <3>3. QED
      BY <1>2, <3>1, <3>2 DEF TurnsKept
  <2>5. QED
    BY <1>3, <2>2, <2>3, <2>4 DEF ReceiverBarrier
<1>6. CASE TurnDone
  <2>1. /\ exit' = "running" /\ s # << >> /\ Head(s) = "turn_done" /\ p = Tail(s)
        /\ e = [d EXCEPT ![k].status = "done"]
    BY <1>6 DEF TurnDone, Running, Persists, Advance
  <2> HIDE DEF k, d
  <2>2. e.marker = d.marker /\ (Shown(e) => Shown(d))
    <3>1. /\ [d EXCEPT ![k].status = "done"].marker = d.marker
          /\ Shown([d EXCEPT ![k].status = "done"]) => Shown(d)
      BY <1>1, <1>2, TrueForgeMarker, Zenon
    <3>2. QED
      BY <2>1, <3>1, Zenon
  <2>3. QED
    BY <1>3, <2>1, <2>2 DEF ReceiverBarrier
<1>7. CASE CrashOnce
  <2>1. /\ exit' = "running" /\ s # << >> /\ Head(s) = ReceiverBarrier
        /\ p = (IF d.marker THEN Tail(s) ELSE <<"kill">>)
        /\ e = [d EXCEPT !.marker = TRUE]
    BY <1>1, <1>7 DEF CrashOnce, Running
  <2>2. d.marker \in BOOLEAN /\ e.marker = TRUE /\ (Shown(e) => Shown(d))
    BY <1>1, <1>2, <2>1, TrueForgeMarker, TrueForgeShown, Zenon
  <2>3. CASE d.marker
    BY <1>3, <2>1, <2>2, <2>3 DEF ReceiverBarrier
  <2>4. CASE ~ d.marker
    <3>1. p = <<"kill">>
      BY <2>1, <2>4
    <3> HIDE DEF s, d, t, h, p, e
    <3>2. Moved(t, h, s, d, p, e)
      BY <1>1, <2>1, <2>2, <3>1, TrueForgeStrikes
    <3>3. QED
      BY <2>1, <3>2 DEF Stepped, Advances, s, d, t, h, p, e
  <2>5. QED
    BY <2>3, <2>4
<1>8. CASE Kill
  <2>1. /\ s # << >> /\ Head(s) = "kill" /\ e = d /\ p = << >> /\ exit' = "killed"
    BY <1>8 DEF Kill, Running, ExitWith
  <2> HIDE DEF s, d, t, h, p, e
  <2>2. (h = "crash_run" => Cuts(t, s, d)) /\ (Due(t, s, d) \/ ~ Awaits(s))
    BY <1>1, <2>1, TrueForgeCuts
  <2>3. QED
    BY <2>1, <2>2 DEF Stepped, CutShort, s, d, t, h, p, e
<1>9. CASE CreateTurn
  <2>1. /\ exit' = "running" /\ s # << >> /\ Head(s) = "create_turn"
        /\ e = [d EXCEPT !.first.status = IF @ = "running" THEN "cancelled" ELSE @,
                         ![k] = [events |-> {"turn.created"}, status |-> "running"]]
    BY <1>9 DEF CreateTurn, Running
  <2>2. PICK order \in Interleavings(<<"answer_create">>, ModelResponse(d)) : p = order
    BY <1>9 DEF CreateTurn
  <2> HIDE DEF k, d
  <2>3. e.marker = d.marker
    <3>1. [d EXCEPT !.first.status = IF @ = "running" THEN "cancelled" ELSE @,
                    ![k] = [events |-> {"turn.created"}, status |-> "running"]].marker
            = d.marker
      BY <1>1, <1>2, TrueForgeMarker, Zenon
    <3>2. QED
      BY <2>1, <3>1, Zenon
  <2>4. Shown(e) => Shown(d)
    <3>1. CASE k = "first"
      BY <1>1, <2>1, <3>1, TrueForgeShown, Zenon
    <3>2. CASE k = "retry"
      BY <1>1, <2>1, <3>2, TrueForgeShown, Zenon
    <3>3. QED
      BY <1>2, <3>1, <3>2 DEF TurnsKept
  <2> HIDE DEF s, d, t, h, p, e
  <2>5. Moved(t, h, s, d, order, e)
    BY <1>1, <2>1, <2>3, <2>4, TrueForgeCreated
  <2>6. QED
    BY <2>1, <2>2, <2>5 DEF Stepped, Advances, s, d, t, h, p, e
<1>10. QED
  BY <1>4, <1>5, <1>6, <1>7, <1>8, <1>9 DEF TrueForgeProcess

\* Any of their processes.
LEMMA PlannedSteps ==
  ASSUME EngineTyped, Planned(trial), ~ Failures, Laid(trial, harness, todo, disk),
         EngineProcess, ~ EngineSend
  PROVE  Stepped
<1>1. trial \in Trials /\ RunTyped /\ exit = "running"
  BY ProcessTyped DEF EngineTyped, HarnessTypeOK
<1>2. trial.engine \in {"langgraph", "dbos", "temporal", "trueforge"}
  BY <1>1, PlannedTrials
<1>3. CASE ReceiveReply
  <2>1. /\ exit' = "running" /\ todo # << >> /\ Head(todo) = "await" /\ todo' = Tail(todo)
        /\ disk' = disk
    BY <1>3 DEF ReceiveReply, Running, Advance
  <2>2. "await" # ReceiverBarrier
    BY DEF ReceiverBarrier
  <2>3. QED
    BY <1>1, <2>1, <2>2, QuietSteps
<1>4. CASE Return
  BY <1>4 DEF Return, ExitWith, Stepped, Finishes
<1>11. CASE EngineRejects
  <2>1. /\ exit' = "running" /\ todo # << >> /\ Head(todo) = "await" /\ disk' = disk
    BY <1>11, RejectedReply
  <2>2. trial.engine = "trueforge" /\ todo' = ArmedWith(Tail(todo), "none")
    BY <1>2, <1>11 DEF EngineRejects, ToolThrows, RejectReply
  <2>3. todo \in Programs
    BY <1>1 DEF RunTyped, StateAt
  <2>4. Moved(trial, harness, todo, disk, todo', disk)
    BY <1>1, <2>1, <2>2, <2>3, TrueForgeThrows
  <2>5. QED
    BY <2>1, <2>4 DEF Stepped, Advances
<1>5. ~ EngineSamplerFails
  BY DEF EngineSamplerFails, SamplerFails
<1>6. CASE trial.engine = "langgraph" /\ LangGraphProcess
  BY <1>1, <1>6, LangGraphAdvances
<1>7. CASE trial.engine = "dbos" /\ DbosProcess
  BY <1>1, <1>7, DbosAdvances DEF EngineSend
<1>8. CASE trial.engine = "temporal" /\ TemporalProcess
  BY <1>1, <1>8, TemporalAdvances
<1>9. CASE trial.engine = "trueforge" /\ TrueForgeProcess
  BY <1>1, <1>9, TrueForgeAdvances
<1>10. QED
  BY <1>2, <1>3, <1>4, <1>5, <1>6, <1>7, <1>8, <1>9, <1>11 DEF EngineProcess, EngineSend,
     EngineRejects

\* A process that waits takes no other step than the one its answer lets it take.
LEMMA WaitsForIt ==
  ASSUME EngineTyped, EngineProcess, todo # << >>, Head(todo) = "await", trial.engine # "vercel"
  PROVE  \E a \in answers : a.req.id = request
<1>1. trial \in Trials /\ trial.barrier # "await"
  BY BarrierSteps DEF EngineTyped, HarnessTypeOK
<1>2. ~ EngineSend /\ ~ EngineSamplerFails /\ ~ Return
  BY SendMoves DEF EngineSamplerFails, SamplerFails, Raise, Running, Return
<1>3. ~ LangGraphProcess
  BY <1>1 DEF LangGraphProcess, LangGraphKill, KillSelf, PutCheckpoint, PutWrites, Race,
              EmptyInput, ReadAdmission, Complete, Raise, Running
<1>4. ~ DbosProcess
  BY <1>1 DEF DbosProcess, KillSelf, Enqueue, CommitOutput, CommitOutcome, SendCharge, SendPayload,
              Raise, Running, StepName
<1>5. ~ TemporalProcess
  BY <1>1 DEF TemporalProcess, StartWorkflow, PollWorkflowTask, Decide, TemporalKill, KillSelf,
              PollActivity, Takes, WatchHistory, ReportActivity, TemporalSamplerFails,
              AwaitResult, Raise, Running
<1>6. ~ RestateProcess
  BY <1>1 DEF RestateProcess, CrashOnce, Kill, Journal, Running
<1>7. ~ TrueForgeProcess
  BY <1>1 DEF TrueForgeProcess, CreateTurn, AnswerCreate, LogEvent, CrashOnce, Kill, TurnDone,
              Running
<1>8. ReceiveReply \/ EngineRejects
  BY <1>2, <1>3, <1>4, <1>5, <1>6, <1>7 DEF EngineProcess, EngineSend, EngineRejects
<1>9. QED
  BY <1>8, RejectedReply DEF ReceiveReply

LEMMA PlannedSends ==
  ASSUME EngineTyped, Planned(trial), Laid(trial, harness, todo, disk), EngineSend
  PROVE  /\ Laid(trial, harness, Tail(todo), disk) /\ Due(trial, todo, disk)
         /\ ~ Due(trial, Tail(todo), disk) /\ Awaits(Tail(todo))
<1> DEFINE s == todo
           d == disk
           t == trial
           h == harness
<1>1. /\ t \in Trials /\ Planned(t) /\ s # << >> /\ StateAt(t, h, s, d) /\ Laid(t, h, s, d)
      /\ Head(s) \in SendSteps
  BY SendMoves DEF EngineTyped, HarnessTypeOK, RunTyped, SendSteps
<1>2. Head(s) = "send" \/ t.engine = "dbos"
  BY DEF EngineSend, SendEffect, SendPayload, Running
<1>3. ReceiverBarrier \notin SendSteps
  BY DEF SendSteps, ReceiverBarrier
<1> HIDE DEF s, d, t, h
<1>4. /\ Laid(t, h, Tail(s), d)
      /\ ~ Due(t, Tail(s), d) /\ Awaits(Tail(s)) /\ Due(t, s, d)
  BY <1>1, <1>2, <1>3, QuietPasses
<1>5. QED
  BY <1>4 DEF s, d, t, h

LEMMA PlannedBegins ==
  ASSUME NEW t \in Trials, Planned(t), NEW h, h = "crash_run", NEW s, s = CrashRun(t),
         NEW d, d = Fresh(t)
  PROVE  Laid(t, h, s, d) /\ Due(t, s, d)
<1>1. CASE t.engine = "langgraph"
  <2>1. s = ArmedWith(InvokeInput(t), t.barrier)
    BY <1>1 DEF CrashRun, LangGraphCrashRun, Planned
  <2>2. d.checkpoint = "none"
    BY <1>1 DEF Fresh, LangGraphFiles
  <2> DEFINE b == t.barrier
  <2>3. s = ArmedWith(InvokeInput(t), b)
    BY <2>1
  <2> HIDE DEF b
  <2>4. QED
    BY <1>1, <2>2, <2>3, LangGraphBegun
<1>2. CASE t.engine = "dbos"
  <2>1. s = DbosCrashRun(t) /\ d = DbosTables(t)
    BY <1>2 DEF CrashRun, Fresh
  <2>2. DbosLaid(t, h, s, d) /\ Has(SendSteps, s)
    BY <1>2, <2>1, DbosBegun
  <2>3. QED
    BY <1>2, <2>2, LaidDbos
<1>3. CASE t.engine = "temporal"
  <2>1. s = TemporalCrashRun(t) /\ d = TemporalHistory(t)
    BY <1>3 DEF CrashRun, Fresh
  <2>2. QED
    BY <1>3, <2>1, TemporalBegun
<1>4. CASE t.engine = "trueforge"
  <2>1. s = <<"create_turn">> /\ d = Turns(t)
    BY <1>4 DEF CrashRun, TrueForgeCrashRun, Fresh
  <2>2. ~ Shown(d) /\ ~ d.marker
    BY <2>1 DEF Turns, NoTurn, Shown
  <2>3. QED
    BY <1>4, <2>1, <2>2, TrueForgeBegun
<1>5. QED
  BY <1>1, <1>2, <1>3, <1>4, PlannedTrials

LEMMA PlannedDone ==
  ASSUME NEW t \in Trials, Planned(t), NEW h, NEW d, Laid(t, h, << >>, d)
  PROVE  ~ Due(t, << >>, d)
BY PlannedTrials, LangGraphDone, DbosDone, TemporalDone, TrueForgeDone

LEMMA Placed ==
  ASSUME NEW t \in Trials
  PROVE  /\ t.barrier \in EarlyBarriers \cup MiddleBarriers \cup LateBarriers
         /\ Unstored(t) => t.barrier \in EarlyBarriers
<1>1. t.barrier \in Barrier \cup HiddenBarrier
  BY EngineRow
<1>2. QED
  BY <1>1 DEF LateBarriers, EarlyBarriers, Unstored

(***************************************************************************)
(* What the steps of a trial make of where it is.                          *)
(***************************************************************************)
LEMMA PlanPasses ==
  ASSUME NEW t, NEW h, NEW x, x = "running", NEW s, NEW d, NEW p, NEW e,
         Moved(t, h, s, d, p, e), NEW b, NEW own, NEW ears, NEW asked,
         PlanAt(t, h, x, s, d, b, own, ears, asked),
         Head(s) = "await" => \A r \in own : r.id = asked => r \in ears
  PROVE  PlanAt(t, h, x, p, e, b, own, ears, asked)
<1>1. Laid(t, h, p, e) /\ (Due(t, p, e) <=> Due(t, s, d))
  BY DEF Moved
<1>2. ASSUME NEW r \in own, Told(r, s, ears, asked) PROVE Told(r, p, ears, asked)
  BY <1>2 DEF Told, Moved
<1>3. DueOnce(t, s, d, own, ears, asked) => DueOnce(t, p, e, own, ears, asked)
  BY <1>1, <1>2 DEF DueOnce
<1>4. DueTwice(t, s, d, own, ears, asked) => DueTwice(t, p, e, own, ears, asked)
  BY <1>1, <1>2 DEF DueTwice
<1>5. QED
  BY <1>1, <1>3, <1>4 DEF PlanAt

LEMMA PlanSends ==
  ASSUME NEW t, NEW h, NEW x, x = "running", NEW s, NEW d, NEW p,
         Laid(t, h, p, d), Due(t, s, d), ~ Due(t, p, d), Awaits(p),
         NEW b, NEW own, NEW ears, ears \subseteq own, NEW asked,
         PlanAt(t, h, x, s, d, b, own, ears, asked),
         NEW r, r \notin own, NEW more, more = own \cup {r}
  PROVE  PlanAt(t, h, x, p, d, b, more, ears, r.id)
<1>1. Told(r, p, ears, r.id)
  BY DEF Told
<1>2. DueOnce(t, p, d, more, ears, r.id)
  BY <1>1 DEF DueOnce
<1>3. DueTwice(t, s, d, own, ears, asked) => DueTwice(t, p, d, more, ears, r.id)
  <2>1. SUFFICES ASSUME DueTwice(t, s, d, own, ears, asked)
                 PROVE  DueTwice(t, p, d, more, ears, r.id)
    OBVIOUS
  <2>2. PICK q \in ears : TRUE
    BY <2>1 DEF DueTwice
  <2>3. r \in more \ {q}
    BY <2>2
  <2>4. QED
    BY <1>1, <2>2, <2>3 DEF DueTwice
<1>4. own = {} => Single(more)
  BY DEF Single
<1>5. QED
  BY <1>2, <1>3, <1>4 DEF PlanAt

LEMMA PlanCuts ==
  ASSUME NEW t, NEW h, NEW x, x = "running", NEW s, NEW d, NEW y, y = "killed",
         NEW p, h = "crash_run" => Cuts(t, s, d),
         NEW b, NEW own, NEW ears, NEW asked, PlanAt(t, h, x, s, d, b, own, ears, asked)
  PROVE  PlanAt(t, h, y, p, d, b, own, ears, asked)
<1>1. h = "crash_run" => Severed(t, d, own, ears)
  <2>1. SUFFICES ASSUME h = "crash_run" PROVE Severed(t, d, own, ears)
    OBVIOUS
  <2>2. ~ Repeats(t, h, b)
    BY <2>1 DEF Repeats
  <2>3. t.barrier \in EarlyBarriers => own = {}
    BY <2>1, <2>2 DEF Cuts, PlanAt
  <2>4. t.barrier \in MiddleBarriers => ears # {}
    BY <2>1 DEF Cuts, PlanAt, DueOnce, Told
  <2>5. QED
    BY <2>1, <2>3, <2>4 DEF Cuts, Severed
<1>2. QED
  BY <1>1 DEF PlanAt

\* The process is gone, and its trial with it unless it had nothing left to do.
LEMMA PlanEnds ==
  ASSUME NEW t \in Trials, Planned(t), NEW h, NEW x, x = "running", NEW s, NEW d,
         NEW y, y \notin {"running", "killed"}, NEW p, p = << >>, y = "zero" => s = p,
         NEW b, NEW own, NEW ears, NEW asked, PlanAt(t, h, x, s, d, b, own, ears, asked)
  PROVE  PlanAt(t, h, y, p, d, b, own, ears, asked)
<1>1. y = "zero" /\ Repeats(t, h, b) => \E q, r \in ears : q # r
  <2>1. SUFFICES ASSUME y = "zero", Repeats(t, h, b) PROVE \E q, r \in ears : q # r
    OBVIOUS
  <2>2. Laid(t, h, p, d) /\ DueTwice(t, p, d, own, ears, asked)
    BY <2>1 DEF PlanAt
  <2>3. ~ Due(t, p, d) /\ ~ Awaits(p)
    BY <2>2, PlannedDone DEF Awaits, Has
  <2>4. PICK q \in ears : \E r \in own \ {q} : Told(r, p, ears, asked)
    BY <2>2, <2>3 DEF DueTwice
  <2>5. QED
    BY <2>3, <2>4 DEF Told
<1>2. QED
  BY <1>1 DEF PlanAt

LEMMA PlanLater ==
  ASSUME NEW t, NEW h, NEW i, h # "crash_run", i # "crash_run",
         NEW x, x # "running", NEW s, NEW d,
         NEW b, NEW own, NEW ears, NEW asked, PlanAt(t, h, x, s, d, b, own, ears, asked)
  PROVE  PlanAt(t, i, x, s, d, b, own, ears, asked)
BY DEF PlanAt, Repeats

LEMMA PlanHears ==
  ASSUME NEW t, NEW h, NEW x, NEW s, NEW d, NEW b,
         NEW own, NEW ears, NEW asked, PlanAt(t, h, x, s, d, b, own, ears, asked),
         NEW more, ears \subseteq more
  PROVE  PlanAt(t, h, x, s, d, b, own, more, asked)
<1>1. DueOnce(t, s, d, own, ears, asked) => DueOnce(t, s, d, own, more, asked)
  BY DEF DueOnce, Told
<1>2. DueTwice(t, s, d, own, ears, asked) => DueTwice(t, s, d, own, more, asked)
  BY DEF DueTwice, Told
<1>3. Severed(t, d, own, ears) => Severed(t, d, own, more)
  BY DEF Severed
<1>4. (\E q, r \in ears : q # r) => \E q, r \in more : q # r
  OBVIOUS
<1>5. QED
  BY <1>1, <1>2, <1>3, <1>4 DEF PlanAt

LEMMA PlanBegins ==
  ASSUME NEW t \in Trials, Planned(t), NEW s, s = CrashRun(t), NEW d, d = Fresh(t),
         NEW h, h = "crash_run", NEW x, x = "running", NEW b,
         NEW own, own = {}, NEW ears, NEW asked
  PROVE  PlanAt(t, h, x, s, d, b, own, ears, asked)
<1>1. Laid(t, h, s, d) /\ Due(t, s, d)
  BY PlannedBegins
<1>2. Single(own) /\ DueOnce(t, s, d, own, ears, asked) /\ ~ Repeats(t, h, b)
  BY <1>1 DEF Single, DueOnce, Repeats
<1>3. QED
  BY <1>1, <1>2 DEF PlanAt

LEMMA PlanResumes ==
  ASSUME NEW t \in Trials, Planned(t), NEW h, h = "crash_run", NEW x, x = "killed",
         NEW p, NEW d, NEW b,
         NEW own, NEW ears, NEW asked, PlanAt(t, h, x, p, d, b, own, ears, asked),
         NEW s, s = RecoveryRun(t, d), NEW i, i = "recovery_run", NEW y, y = "running",
         NEW now
  PROVE  PlanAt(t, i, y, s, d, d, own, ears, now)
<1>1. Severed(t, d, own, ears) /\ Recovers(t, d)
  BY DEF PlanAt, Severed
<1>2. Single(own)
  BY DEF PlanAt, Repeats
<1> DEFINE again == Due(t, s, d)
<1>3. /\ t.barrier \in MiddleBarriers => /\ Durable(t, d) => t.engine = "langgraph"
                                         /\ again \/ Durable(t, d)
      /\ t.barrier \in LateBarriers => Durable(t, d)
      /\ Unstored(t) => ~ again
      /\ Durable(t, d) => ~ again
      /\ Laid(t, i, s, d)
  BY <1>1 DEF Recovers
<1> HIDE DEF again
<1>4. ~ Repeats(t, i, d) => (again => own = {})
  <2>1. SUFFICES ASSUME ~ Repeats(t, i, d), again PROVE own = {}
    OBVIOUS
  <2>2. t.barrier \notin MiddleBarriers \cup LateBarriers
    BY <1>3, <2>1 DEF Repeats
  <2>3. QED
    BY <1>1, <2>2, Placed DEF Severed
<1>5. Repeats(t, i, d) => DueTwice(t, s, d, own, ears, now)
  <2>1. SUFFICES ASSUME Repeats(t, i, d) PROVE DueTwice(t, s, d, own, ears, now)
    OBVIOUS
  <2>2. again /\ ears # {}
    BY <1>1, <1>3, <2>1 DEF Repeats, Severed
  <2>3. QED
    BY <2>2 DEF DueTwice, again
<1>6. Unstored(t) => own = {}
  BY <1>1, Placed DEF Severed
<1>7. QED
  BY <1>2, <1>3, <1>4, <1>5, <1>6 DEF PlanAt, again

\* The server times out what nobody works on.
LEMMA PlanTimesOut ==
  ASSUME NEW t, NEW h, NEW x, NEW s, NEW d, NEW e,
         Due(t, s, e) <=> Due(t, s, d), Recovers(t, d) => Recovers(t, e),
         x = "running" /\ Laid(t, h, s, d) => Laid(t, h, s, e),
         NEW b, NEW own, NEW ears, NEW asked, PlanAt(t, h, x, s, d, b, own, ears, asked)
  PROVE  PlanAt(t, h, x, s, e, b, own, ears, asked)
<1>1. DueOnce(t, s, d, own, ears, asked) => DueOnce(t, s, e, own, ears, asked)
  BY DEF DueOnce
<1>2. DueTwice(t, s, d, own, ears, asked) => DueTwice(t, s, e, own, ears, asked)
  BY DEF DueTwice
<1>3. Severed(t, d, own, ears) => Severed(t, e, own, ears)
  BY DEF Severed
<1>4. QED
  BY <1>1, <1>2, <1>3 DEF PlanAt

-----------------------------------------------------------------------------
(***************************************************************************)
(* The steps of a trial where nothing else goes wrong.                     *)
(***************************************************************************)
Plain == ~ StrayKills /\ ~ Failures /\ ~ SlowAttempts

LEMMA PlainSteps ==
  ASSUME Plain, EngineNext
  PROVE  \/ EngineProcess \/ RecoveryStalls \/ WorkflowTaskTimesOut \/ LostAttemptTimesOut
         \/ TrialStarts \/ CrashRunEnds(RecoveryRun(trial, disk)) \/ GivenUp \/ RecoveryRunEnds
         \/ SealLedger \/ ReadDump \/ ClassifyTrial(Verdict) \/ Daemon
<1>1. ~ StrayKill /\ ~ Timeout /\ ~ SlowAttemptTimesOut
  BY DEF Plain, StrayKill, Timeout, SlowAttemptTimesOut
<1>2. NoRunFound \/ TurnUnanswered \/ TrialFails => GivenUp
  BY DEF NoRunFound, TurnUnanswered, TrialFails, Expected, GivenUp
<1>3. QED
  BY <1>1, <1>2 DEF EngineNext, EngineHarness, EngineGoesOn, TrialStarts

\* Nothing of theirs hangs.
LEMMA PlannedNeverStall ==
  ASSUME EngineSafe, StallOK, Planned(trial)
  PROVE  ~ RecoveryStalls /\ exit # "stalled"
<1>1. todo \in Programs /\ trial \in Trials
  BY DEF EngineSafe, EngineTyped, RunTyped, HarnessTypeOK, StateAt
<1>2. trial.engine # "vercel"
  BY <1>1, PlannedTrials
<1>3. exit # "stalled"
  BY <1>2 DEF StallOK
<1>4. ~ RecoveryStalls
  <2>1. SUFFICES ASSUME RecoveryStalls PROVE FALSE
    OBVIOUS
  <2>2. exit = "running" /\ todo # << >> /\ Head(todo) = "hang"
    BY <2>1 DEF RecoveryStalls, Running
  <2>3. Hangs(todo)
    BY <1>1, <2>2, HasTail DEF Hangs
  <2>4. QED
    BY <1>2, <2>2, <2>3 DEF StallOK, StallAt
<1>5. QED
  BY <1>3, <1>4

LEMMA AnswerHeard ==
  ASSUME EngineSafe, AllCounted, EngineProcess, todo # << >>, Head(todo) = "await",
         trial.engine # "vercel", NEW r \in Own, r.id = request
  PROVE  r \in Ears
<1>1. EngineTyped /\ exit = "running"
  BY ProcessTyped DEF EngineSafe
<1>2. PICK a \in answers : a.req.id = request
  BY <1>1, WaitsForIt
<1>3. a.req = r /\ r.epoch = epoch
  BY <1>2 DEF EngineSafe, RequestsOK, Own, Issued
<1>4. ~ sealed
  BY <1>1 DEF EngineTyped, PhaseOK
<1>5. Heard(r)
  BY <1>2, <1>3, <1>4 DEF AllCounted, Heard
<1>6. QED
  BY <1>5 DEF Ears

LEMMA PlannedProcess ==
  ASSUME EngineSafe, AllCounted, Planned(trial), ~ Failures, EngineProcess, ~ EngineSend,
         NEW b, NEW own, own = Own, NEW ears, ears = Ears,
         PlanAt(trial, harness, exit, todo, disk, b, own, ears, request)
  PROVE  /\ UNCHANGED <<trial, harness, before>>
         /\ PlanAt(trial, harness, exit', todo', disk', b, own, ears, request')
<1>1. EngineTyped /\ trial \in Trials /\ exit = "running"
  BY ProcessTyped DEF EngineSafe, EngineTyped, HarnessTypeOK
<1>2. UNCHANGED <<daemonVars, harnessVars, request>>
  BY ProcessSplit DEF ProcessOnly
<1>3. Laid(trial, harness, todo, disk) /\ trial.engine # "vercel"
  BY <1>1, PlannedTrials DEF PlanAt
<1>4. Stepped
  BY <1>1, <1>3, PlannedSteps
<1> DEFINE t == trial
           h == harness
           s == todo
           d == disk
           e == disk'
           p == todo'
           x == exit
           y == exit'
           asked == request
<1>5. t \in Trials /\ Planned(t) /\ x = "running" /\ PlanAt(t, h, x, s, d, b, own, ears, asked)
  BY <1>1
<1>6. CASE Advances
  <2>1. y = "running" /\ s # << >> /\ Moved(t, h, s, d, p, e)
    BY <1>6 DEF Advances
  <2>2. Head(s) = "await" => \A r \in own : r.id = asked => r \in ears
    BY <1>3, <2>1, AnswerHeard
  <2> HIDE DEF t, h, s, d, e, p, x, y, asked
  <2>3. PlanAt(t, h, x, p, e, b, own, ears, asked)
    BY <1>5, <2>1, <2>2, PlanPasses
  <2>4. QED
    BY <1>2, <1>5, <2>1, <2>3 DEF harnessVars, t, h, e, p, x, y, asked
<1>7. CASE CutShort
  <2>1. y = "killed" /\ e = d /\ (h = "crash_run" => Cuts(t, s, d))
    BY <1>7 DEF CutShort
  <2> HIDE DEF t, h, s, d, e, p, x, y, asked
  <2>2. PlanAt(t, h, y, p, d, b, own, ears, asked)
    BY <1>5, <2>1, PlanCuts
  <2>3. QED
    BY <1>2, <2>1, <2>2 DEF harnessVars, t, h, e, p, y, asked
<1>8. CASE Finishes \/ Errs
  <2>1. y \notin {"running", "killed"} /\ e = d /\ p = << >> /\ (y = "zero" => s = p)
    BY <1>8 DEF Finishes, Errs
  <2> HIDE DEF t, h, s, d, e, p, x, y, asked
  <2>2. PlanAt(t, h, y, p, d, b, own, ears, asked)
    BY <1>5, <2>1, PlanEnds
  <2>3. QED
    BY <1>2, <2>1, <2>2 DEF harnessVars, t, h, e, p, y, asked
<1>9. QED
  BY <1>4, <1>6, <1>7, <1>8 DEF Stepped

LEMMA PlannedRequests ==
  ASSUME EngineSafe, Planned(trial), EngineSend,
         NEW b, NEW own, own = Own, NEW ears, ears = Ears,
         PlanAt(trial, harness, exit, todo, disk, b, own, ears, request)
  PROVE  /\ UNCHANGED <<trial, harness, before>>
         /\ PlanAt(trial, harness, exit', todo', disk', b, Own', ears, request')
<1>1. /\ exit = "running" /\ todo' = Tail(todo) /\ UNCHANGED <<harnessVars, exit, disk>>
  BY SendMoves
<1>2. /\ Laid(trial, harness, Tail(todo), disk) /\ Due(trial, todo, disk)
      /\ ~ Due(trial, Tail(todo), disk) /\ Awaits(Tail(todo))
  <2>1. Laid(trial, harness, todo, disk)
    BY <1>1 DEF PlanAt
  <2>2. QED
    BY <2>1, PlannedSends DEF EngineSafe
<1>3. PICK r : Sends(r)
  BY SendRequest DEF EngineSafe
<1>4. request' = r.id /\ r.id = sent + 1 /\ epoch' = epoch /\ r.epoch = epoch
      /\ Issued' = Issued \cup {r}
  BY <1>3 DEF Sends, Issued
<1>5. r \notin own
  <2>1. sent \in Nat /\ \A q \in Own : q.id \in Nat /\ q.id <= sent
    BY DaemonAssumption
       DEF EngineSafe, EngineTyped, HarnessTypeOK, DaemonTypeOK, RequestsOK, Own, Request, RequestId
  <2>2. \A q \in Own : q.id # sent + 1
    BY <2>1
  <2>3. QED
    BY <1>4, <2>2
<1>6. Own' = own \cup {r}
  BY <1>4 DEF Own
<1>7. ears \subseteq own
  BY DEF Ears
<1> DEFINE more == Own'
           p == Tail(todo)
<1>8. more = own \cup {r}
  BY <1>6
<1> HIDE DEF more, p
<1>9. PlanAt(trial, harness, exit, p, disk, b, more, ears, r.id)
  BY <1>1, <1>2, <1>5, <1>7, <1>8, PlanSends DEF p
<1>10. QED
  BY <1>1, <1>4, <1>9 DEF harnessVars, more, p

LEMMA PlannedTimesOut ==
  ASSUME EngineSafe, Planned(trial), WorkflowTaskTimesOut \/ LostAttemptTimesOut,
         NEW b, NEW own, NEW ears,
         PlanAt(trial, harness, exit, todo, disk, b, own, ears, request)
  PROVE  /\ UNCHANGED <<trial, harness, before, exit, todo, request>>
         /\ PlanAt(trial, harness, exit, todo, disk', b, own, ears, request)
<1> DEFINE t == trial
           h == harness
           s == todo
           d == disk
           e == disk'
<1>1. /\ t \in Trials /\ t.engine = "temporal" /\ d \in TemporalDisk
      /\ UNCHANGED <<trial, harness, before, exit, todo, request>>
  BY DEF EngineSafe, EngineTyped, HarnessTypeOK, RunTyped, StateAt, TemporalAt, ServerStep,
         WorkflowTaskTimesOut, LostAttemptTimesOut, ActivityTimesOut, harnessVars
<1>2. \/ e = [d EXCEPT !.wft = "ready", !.timedOut = TRUE]
      \/ e = [d EXCEPT !.act = "ready", !.attempt = @ + 1]
  BY DEF WorkflowTaskTimesOut, LostAttemptTimesOut, ActivityTimesOut, ServerStep
<1>3. exit = "running" => ~ Has({"report"}, s) \/ e.act = d.act
  <2>1. CASE WorkflowTaskTimesOut
    <3>1. e = [d EXCEPT !.wft = "ready", !.timedOut = TRUE]
      BY <2>1 DEF WorkflowTaskTimesOut, ServerStep
    <3>2. e.act = d.act
      BY <1>1, <3>1 DEF TemporalDisk
    <3>3. QED
      BY <3>2
  <2>2. CASE LostAttemptTimesOut
    <3>1. s \in Programs
      BY DEF EngineSafe, EngineTyped, RunTyped, StateAt
    <3>2. QED
      BY <2>2, <3>1 DEF LostAttemptTimesOut, Working, Has, Programs
  <2>3. QED
    BY <2>1, <2>2
<1> HIDE DEF t, h, s, d, e
<1>4. /\ Due(t, s, e) <=> Due(t, s, d)
      /\ Laid(t, h, s, d) /\ ((~ Has({"report"}, s)) \/ e.act = d.act) => Laid(t, h, s, e)
      /\ Recovers(t, d) => Recovers(t, e)
  BY <1>1, <1>2, TemporalTimesOut
<1> DEFINE x == exit
           asked == request
<1>5. /\ PlanAt(t, h, x, s, d, b, own, ears, asked)
      /\ x = "running" => ~ Has({"report"}, s) \/ e.act = d.act
  BY <1>3 DEF t, h, s, d
<1> HIDE DEF x, asked
<1>6. PlanAt(t, h, x, s, e, b, own, ears, asked)
  BY <1>4, <1>5, PlanTimesOut
<1>7. QED
  BY <1>1, <1>6 DEF t, h, s, d, e, x, asked

\* Whatever step is taken, the trial remains where its barrier and what is durable
\* put it.
LEMMA PlanOKStep ==
  Plain /\ EngineSafe /\ StallOK /\ AllCounted /\ PlanOK /\ [EngineNext]_allVars => PlanOK'
<1> SUFFICES ASSUME Plain, EngineSafe, StallOK, AllCounted, PlanOK, [EngineNext]_allVars,
                    Planned(trial)', (harness \notin {"idle", "failed"})'
             PROVE  PlanAt(trial', harness', exit', todo', disk', before'.disk,
                           Own', Ears', request')
  BY DEF PlanOK
<1>1. CASE TrialStarts
  <2>1. PICK t \in Trials : StartTrial(t, Fresh(t), CrashRun(t))
    BY <1>1 DEF TrialStarts
  <2>2. /\ trial' = t /\ harness' = "crash_run" /\ exit' = "running" /\ todo' = CrashRun(t)
        /\ disk' = Fresh(t) /\ Planned(t)
    BY <2>1 DEF StartTrial, Spawn
  <2>3. Own' = {}
    BY <1>1, OwnMoves
  <2>4. PICK s : s = CrashRun(t)
    OBVIOUS
  <2>5. PICK d : d = Fresh(t)
    OBVIOUS
  <2> DEFINE own == Own'
             ears == Ears'
             h == harness'
             x == exit'
             b == before'.disk
             asked == request'
  <2>6. own = {} /\ h = "crash_run" /\ x = "running"
    BY <2>2, <2>3
  <2> HIDE DEF own, ears, h, x, b, asked
  <2>7. PlanAt(t, h, x, s, d, b, own, ears, asked)
    BY <2>2, <2>4, <2>5, <2>6, PlanBegins
  <2>8. QED
    BY <2>2, <2>4, <2>5, <2>7 DEF own, ears, h, x, b, asked
<1>2. CASE ~ TrialStarts
  <2>1. /\ trial' = trial /\ harness # "idle" /\ Planned(trial) /\ trial \in Trials
    BY <1>2, TrialGoesOn DEF EngineSafe, EngineTyped, HarnessTypeOK
  <2>2. PICK b : b = before.disk
    OBVIOUS
  <2>3. PICK own : own = Own
    OBVIOUS
  <2>4. PICK ears : ears = Ears
    OBVIOUS
  <2>5. harness # "failed" => PlanAt(trial, harness, exit, todo, disk, b, own, ears, request)
    BY <2>1, <2>2, <2>3, <2>4 DEF PlanOK
  <2>6. ears \subseteq Ears'
    BY <1>2, <2>1, <2>4, EarsGrow
  <2>7. ~ EngineSend => Own' = own
    BY <1>2, <2>3, OwnMoves
  <2>8. SUFFICES PlanAt(trial, harness', exit', todo', disk', before'.disk, Own', ears, request')
    <3> DEFINE h == harness'
               x == exit'
               s == todo'
               d == disk'
               n == before'.disk
               o == Own'
               more == Ears'
               asked == request'
    <3>1. PlanAt(trial, h, x, s, d, n, o, ears, asked) /\ ears \subseteq more
      BY <2>6, <2>8
    <3> HIDE DEF h, x, s, d, n, o, more, asked
    <3>2. PlanAt(trial, h, x, s, d, n, o, more, asked)
      BY <3>1, PlanHears
    <3>3. QED
      BY <2>1, <3>2 DEF h, x, s, d, n, o, more, asked
  <2>9. CASE EngineSend
    <3>1. harness # "failed"
      BY <2>9, SendMoves DEF harnessVars
    <3>2. QED
      BY <2>1, <2>2, <2>3, <2>4, <2>5, <2>9, <3>1, PlannedRequests
  <2>10. CASE EngineProcess /\ ~ EngineSend
    <3>1. harness # "failed"
      BY <2>10, ProcessTyped DEF harnessVars, EngineSafe
    <3>2. QED
      BY <2>1, <2>2, <2>3, <2>4, <2>5, <2>7, <2>10, <3>1, PlannedProcess DEF Plain
  <2>11. CASE (WorkflowTaskTimesOut \/ LostAttemptTimesOut) /\ ~ EngineSend
    <3>1. UNCHANGED <<trial, harness, before, exit, todo, request>>
      BY <2>11 DEF WorkflowTaskTimesOut, LostAttemptTimesOut, ActivityTimesOut, ServerStep,
                   harnessVars
    <3>2. PlanAt(trial, harness, exit, todo, disk', b, own, ears, request)
      BY <2>1, <2>5, <2>11, <3>1, PlannedTimesOut
    <3>3. QED
      BY <2>2, <2>7, <2>11, <3>1, <3>2
  <2>12. CASE CrashRunEnds(RecoveryRun(trial, disk)) /\ ~ EngineSend
    <3>1. /\ harness = "crash_run" /\ harness' = "recovery_run" /\ exit' = "running"
          /\ todo' = RecoveryRun(trial, disk) /\ before'.disk = disk /\ disk' = disk
          /\ exit = "killed"
      BY <2>12 DEF CrashRunEnds, Spawn, Expected
    <3>2. PlanAt(trial, harness, exit, todo, disk, b, own, ears, request)
      BY <2>5, <3>1
    <3> DEFINE h == harness
               i == harness'
               x == exit
               y == exit'
               p == todo
               s == todo'
               d == disk
               asked == request
               now == request'
    <3>3. i = "recovery_run" /\ y = "running" /\ s = RecoveryRun(trial, d)
          /\ h = "crash_run" /\ x = "killed"
          /\ PlanAt(trial, h, x, p, d, b, own, ears, asked)
      BY <3>1, <3>2
    <3> HIDE DEF h, i, x, y, p, s, d, asked, now
    <3>4. PlanAt(trial, i, y, s, d, d, own, ears, now)
      BY <2>1, <3>3, PlanResumes
    <3>5. QED
      BY <2>7, <2>12, <3>1, <3>4 DEF i, y, s, d, now
  <2>13. CASE (RecoveryRunEnds \/ SealLedger \/ ReadDump \/ ClassifyTrial(Verdict)) /\ ~ EngineSend
    <3>1. /\ UNCHANGED <<processVars, before>> /\ exit # "running"
          /\ harness \in {"recovery_run", "seal", "dump", "classify"}
          /\ harness' \in {"seal", "dump", "classify", "classified"}
      BY <2>13 DEF RecoveryRunEnds, SealLedger, ReadDump, ClassifyTrial, Expected,
                   EngineSafe, EngineTyped, PhaseOK
    <3> DEFINE h == harness
               i == harness'
               x == exit
               s == todo
               d == disk
               asked == request
    <3>2. /\ h # "crash_run" /\ i # "crash_run" /\ x # "running"
          /\ PlanAt(trial, h, x, s, d, b, own, ears, asked)
      BY <2>5, <3>1
    <3> HIDE DEF h, i, x, s, d, asked
    <3>3. PlanAt(trial, i, x, s, d, b, own, ears, asked)
      BY <3>2, PlanLater
    <3>4. QED
      BY <2>2, <2>7, <2>13, <3>1, <3>3 DEF i, x, s, d, asked, processVars
  <2>14. CASE Daemon \/ UNCHANGED allVars
    <3>1. UNCHANGED <<processVars, harnessVars>>
      BY <2>14 DEF Daemon, allVars, trialVars, harnessVars, processVars
    <3>2. CASE EngineSend
      BY <2>9, <3>2
    <3>3. CASE ~ EngineSend
      BY <2>2, <2>5, <2>7, <3>1, <3>3 DEF harnessVars, processVars
    <3>4. QED
      BY <3>2, <3>3
  <2>15. ~ RecoveryStalls
    BY <2>1, PlannedNeverStall
  <2>16. ~ GivenUp
    BY DEF GivenUp
  <2>17. QED
    BY <1>2, <2>9, <2>10, <2>11, <2>12, <2>13, <2>14, <2>15, <2>16, PlainSteps
<1>3. QED
  BY <1>1, <1>2

LEMMA PlannedHarness ==
  ASSUME NEW t \in Trials, NEW q \in Trials, Planned(t), HarnessOf(t) = HarnessOf(q)
  PROVE  Planned(q)
<1>1. /\ HarnessOf(t) \notin {"restate", "vercel", "admission"}
  <2>1. t.barrier \in DOMAIN HiddenPredictions =>
          t.barrier \notin {"restate", "vercel", "admission"}
    BY DEF HiddenPredictions
  <2>2. QED
    BY <2>1 DEF HarnessOf, Planned
<1>2. ASSUME q.engine \in {"restate", "vercel"} PROVE HarnessOf(q) = q.engine
  <2>1. q.barrier \in {"b0", "b1", "b2"} /\ q.mode \in {"naive", "idem", "nondet", "twophase"}
    BY <1>2, ServiceTrials DEF Service
  <2>2. q.barrier \notin DOMAIN HiddenPredictions /\ q.mode \notin AdmissionArms
    BY <2>1 DEF HiddenPredictions, AdmissionArms
  <2>3. QED
    BY <1>2, <2>2 DEF HarnessOf
<1>3. ASSUME q.mode \in AdmissionArms PROVE HarnessOf(q) = "admission"
  <2>1. q.engine = "langgraph"
    BY <1>3, EngineRow
  <2>2. QED
    BY <1>3, <2>1 DEF HarnessOf
<1>4. QED
  BY <1>1, <1>2, <1>3 DEF Planned

\* The answer a process goes on with is that to the one request it has sent last.
LEMMA NothingWaits ==
  ASSUME RequestsOK, NEW a \in answers, a.req.id = request, \A r \in wire : r.id = request
  PROVE  wire = {}
<1>1. ASSUME NEW r \in wire PROVE FALSE
  <2>1. r \in Issued /\ a.req \in Issued /\ r.id = a.req.id
    BY DEF Issued
  <2>2. a.req = r
    BY <2>1 DEF RequestsOK
  <2>3. QED
    BY <2>2 DEF RequestsOK
<1>2. QED
  BY <1>1

LEMMA PendingSends ==
  ASSUME EngineSafe, PlanOK, PendingOK, Planned(trial), EngineSend
  PROVE  PendingOK'
<1>1. /\ exit = "running" /\ todo' = Tail(todo) /\ UNCHANGED <<harnessVars, exit, disk>>
  BY SendMoves
<1>2. Laid(trial, harness, todo, disk)
  BY <1>1 DEF PlanOK, PlanAt, EngineSafe, EngineTyped, PhaseOK
<1>3. /\ Due(trial, todo, disk) /\ ~ Due(trial, Tail(todo), disk) /\ Awaits(Tail(todo))
  BY <1>2, PlannedSends DEF EngineSafe
<1>4. wire = {}
  BY <1>1, <1>3 DEF PendingOK
<1>5. PICK r : Sends(r)
  BY SendRequest DEF EngineSafe
<1>6. wire' = {r} /\ r.id = request'
  BY <1>4, <1>5 DEF Sends
<1>7. /\ trial' = trial /\ disk' = disk /\ exit' = exit
      /\ harness' = harness /\ harness # "idle"
  BY <1>1 DEF harnessVars, EngineSafe, EngineTyped, PhaseOK
<1> DEFINE p == todo'
           e == disk'
           t == trial'
<1>8. Awaits(p) /\ ~ Due(t, p, e)
  BY <1>1, <1>3, <1>7
<1> HIDE DEF p, e, t
<1>9. QED
  BY <1>1, <1>6, <1>7, <1>8 DEF PendingOK, p, e, t

LEMMA PendingProcess ==
  ASSUME EngineSafe, PlanOK, PendingOK, Planned(trial), ~ Failures, EngineProcess, ~ EngineSend
  PROVE  PendingOK'
<1>1. EngineTyped /\ trial \in Trials /\ exit = "running"
  BY ProcessTyped DEF EngineSafe, EngineTyped, HarnessTypeOK
<1>2. UNCHANGED <<daemonVars, harnessVars, request>>
  BY ProcessSplit DEF ProcessOnly
<1>3. Laid(trial, harness, todo, disk) /\ trial.engine # "vercel"
  BY <1>1, PlannedTrials DEF PlanOK, PlanAt, EngineTyped, PhaseOK
<1>4. Stepped
  BY <1>1, <1>3, PlannedSteps
<1>5. SUFFICES ASSUME wire # {} PROVE PendingOK'
  BY <1>2 DEF PendingOK, daemonVars
<1>6. Awaits(todo) /\ ~ Due(trial, todo, disk) /\ \A r \in wire : r.id = request
  BY <1>1, <1>5 DEF PendingOK
<1>7. /\ wire' = wire /\ trial' = trial /\ request' = request
      /\ harness' = harness /\ harness # "idle"
  BY <1>2, <1>5 DEF daemonVars, harnessVars, PendingOK
<1>8. CASE Advances
  <2>1. /\ exit' = "running" /\ todo # << >> /\ Moved(trial, harness, todo, disk, todo', disk')
    BY <1>8 DEF Advances
  <2>2. Head(todo) # "await"
    <3>1. SUFFICES ASSUME Head(todo) = "await" PROVE FALSE
      OBVIOUS
    <3>2. PICK a \in answers : a.req.id = request
      BY <1>1, <1>3, <2>1, <3>1, WaitsForIt
    <3>3. QED
      BY <1>5, <1>6, <3>2, NothingWaits DEF EngineSafe
  <2> DEFINE p == todo'
             e == disk'
             t == trial
  <2>3. Awaits(p) /\ ~ Due(t, p, e)
    BY <1>6, <2>1, <2>2 DEF Moved
  <2>4. trial' = t
    BY <1>7
  <2> HIDE DEF p, e, t
  <2>5. QED
    BY <1>6, <1>7, <2>1, <2>3, <2>4 DEF PendingOK, p, e
<1>9. CASE CutShort
  BY <1>6, <1>9 DEF CutShort
<1>10. CASE Finishes
  <2>1. todo = << >>
    BY <1>10 DEF Finishes
  <2>2. QED
    BY <1>6, <2>1 DEF Awaits, Has
<1>11. CASE Errs
  BY <1>6, <1>7, <1>11 DEF Errs, PendingOK
<1>12. QED
  BY <1>4, <1>8, <1>9, <1>10, <1>11 DEF Stepped

LEMMA DueTimesOut ==
  ASSUME EngineSafe, Planned(trial), WorkflowTaskTimesOut \/ LostAttemptTimesOut
  PROVE  Due(trial, todo, disk') <=> Due(trial, todo, disk)
<1> DEFINE t == trial
           h == harness
           s == todo
           d == disk
           e == disk'
<1>1. t \in Trials /\ t.engine = "temporal" /\ d \in TemporalDisk
  BY DEF EngineSafe, EngineTyped, HarnessTypeOK, RunTyped, StateAt, TemporalAt, ServerStep,
         WorkflowTaskTimesOut, LostAttemptTimesOut, ActivityTimesOut
<1>2. \/ e = [d EXCEPT !.wft = "ready", !.timedOut = TRUE]
      \/ e = [d EXCEPT !.act = "ready", !.attempt = @ + 1]
  BY DEF WorkflowTaskTimesOut, LostAttemptTimesOut, ActivityTimesOut, ServerStep
<1> HIDE DEF t, h, s, d, e
<1>3. Due(t, s, e) <=> Due(t, s, d)
  BY <1>1, <1>2, TemporalTimesOut
<1>4. QED
  BY <1>3 DEF t, s, d, e

LEMMA PendingOKStep ==
  Plain /\ EngineSafe /\ StallOK /\ PlanOK /\ PendingOK /\ [EngineNext]_allVars => PendingOK'
<1> SUFFICES ASSUME Plain, EngineSafe, StallOK, PlanOK, PendingOK, [EngineNext]_allVars,
                    Planned(trial)'
             PROVE  PendingOK'
  BY DEF PendingOK
<1>1. CASE TrialStarts
  <2>1. PICK t \in Trials : StartTrial(t, Fresh(t), CrashRun(t))
    BY <1>1 DEF TrialStarts
  <2>2. /\ trial' = t /\ HarnessOf(t) = HarnessOf(trial) /\ harness \in {"idle", "classified"}
        /\ wire' = wire
    BY <2>1 DEF StartTrial, HandleReset
  <2>3. trial \in Trials /\ exit # "running"
    BY <2>2 DEF EngineSafe, EngineTyped, HarnessTypeOK, PhaseOK
  <2>4. Planned(trial)
    BY <2>2, <2>3, PlannedHarness
  <2>5. harness = "classified" => exit # "error"
    BY DEF EngineSafe, EngineTyped, PhaseOK
  <2>6. QED
    BY <2>2, <2>3, <2>4, <2>5 DEF PendingOK
<1>2. CASE ~ TrialStarts
  <2>1. trial' = trial /\ Planned(trial) /\ trial \in Trials
    BY <1>2, TrialGoesOn DEF EngineSafe, EngineTyped, HarnessTypeOK
  <2>2. CASE EngineSend
    BY <2>1, <2>2, PendingSends
  <2>3. CASE EngineProcess /\ ~ EngineSend
    BY <2>1, <2>3, PendingProcess DEF Plain
  <2>4. CASE WorkflowTaskTimesOut \/ LostAttemptTimesOut
    <3>1. UNCHANGED <<trial, harness, wire, exit, todo, request>>
      BY <2>4 DEF WorkflowTaskTimesOut, LostAttemptTimesOut, ActivityTimesOut, ServerStep,
                  harnessVars, daemonVars
    <3>2. Due(trial, todo, disk') <=> Due(trial, todo, disk)
      BY <2>1, <2>4, DueTimesOut
    <3> DEFINE p == todo'
               e == disk'
               t == trial
    <3>3. trial' = t /\ (Due(t, p, e) <=> Due(trial, todo, disk)) /\ (Awaits(p) <=> Awaits(todo))
      BY <3>1, <3>2
    <3> HIDE DEF p, e, t
    <3>4. QED
      BY <2>1, <3>1, <3>3 DEF PendingOK, p, e
  <2>5. CASE CrashRunEnds(RecoveryRun(trial, disk))
    <3>1. exit = "killed" /\ wire' = wire
      BY <2>5 DEF CrashRunEnds, Expected, daemonVars
    <3>2. QED
      BY <2>1, <3>1 DEF PendingOK
  <2>6. CASE GivenUp \/ RecoveryRunEnds \/ SealLedger \/ ReadDump \/ ClassifyTrial(Verdict)
               \/ UNCHANGED allVars
    <3>1. UNCHANGED <<processVars, wire>> /\ (harness # "idle" => harness' # "idle")
      BY <2>6 DEF GivenUp, RecoveryRunEnds, SealLedger, HandleSeal, ReadDump, ClassifyTrial,
                  allVars, trialVars, processVars, daemonVars
    <3>2. UNCHANGED <<wire, exit, todo, request, disk>>
      BY <3>1 DEF processVars
    <3> DEFINE p == todo'
               e == disk'
               t == trial'
    <3>3. (Due(t, p, e) <=> Due(trial, todo, disk)) /\ (Awaits(p) <=> Awaits(todo))
      BY <2>1, <3>2
    <3> HIDE DEF p, e, t
    <3>4. QED
      BY <2>1, <3>1, <3>2, <3>3 DEF PendingOK, p, e, t
  <2>7. CASE Daemon
    <3>1. UNCHANGED <<harness, exit, todo, request, disk>>
      BY <2>7 DEF Daemon, trialVars
    <3>2. PICK req \in wire : Handle(req)
      BY <2>7 DEF Daemon
    <3>3. wire' \subseteq wire
      BY <3>2, DaemonMoves
    <3> DEFINE p == todo'
               e == disk'
               t == trial'
    <3>4. (Due(t, p, e) <=> Due(trial, todo, disk)) /\ (Awaits(p) <=> Awaits(todo))
      BY <2>1, <3>1
    <3> HIDE DEF p, e, t
    <3>5. QED
      BY <2>1, <3>1, <3>3, <3>4 DEF PendingOK, p, e, t
  <2>8. ~ RecoveryStalls
    BY <2>1, PlannedNeverStall
  <2>9. QED
    BY <1>2, <2>2, <2>3, <2>4, <2>5, <2>6, <2>7, <2>8, PlainSteps
<1>3. QED
  BY <1>1, <1>2

\* Nothing such a trial asked for is counted in a later one.
PunctualOK == Planned(trial) => \A a \in answers : a.req.epoch = a.epoch

LEMMA PunctualStep ==
  Plain /\ EngineSafe /\ PendingOK /\ PunctualOK /\ [EngineNext]_allVars => PunctualOK'
<1> SUFFICES ASSUME Plain, EngineSafe, PendingOK, PunctualOK, [EngineNext]_allVars,
                    Planned(trial)'
             PROVE  \A a \in answers' : a.req.epoch = a.epoch
  BY DEF PunctualOK
<1>1. CASE TrialStarts
  <2>1. PICK t \in Trials : StartTrial(t, Fresh(t), CrashRun(t))
    BY <1>1 DEF TrialStarts
  <2>2. trial' = t /\ HarnessOf(t) = HarnessOf(trial) /\ answers' = answers
    BY <2>1 DEF StartTrial, HandleReset
  <2>3. Planned(trial)
    BY <2>2, PlannedHarness DEF EngineSafe, EngineTyped, HarnessTypeOK
  <2>4. QED
    BY <2>2, <2>3 DEF PunctualOK
<1>2. CASE ~ TrialStarts
  <2>1. Planned(trial) /\ \A a \in answers : a.req.epoch = a.epoch
    BY <1>2, TrialGoesOn DEF PunctualOK
  <2>2. CASE Daemon
    <3>1. PICK req \in wire : Handle(req)
      BY <2>2 DEF Daemon
    <3>2. PICK status \in {"ok", "sealed", "refused", "no response"} :
            answers' = answers \cup {[req |-> req, status |-> status, epoch |-> epoch]}
      BY <3>1, DaemonMoves
    <3>3. req.epoch = epoch
      BY <2>1, <3>1 DEF PendingOK, EngineSafe, RequestsOK, Issued
    <3> DEFINE new == [req |-> req, status |-> status, epoch |-> epoch]
    <3>4. new.req = req /\ new.epoch = epoch /\ answers' = answers \cup {new}
      BY <3>2
    <3> HIDE DEF new
    <3>5. QED
      BY <2>1, <3>3, <3>4
  <2>3. CASE EngineSend
    <3>1. PICK r : Sends(r)
      BY <2>3, SendRequest DEF EngineSafe
    <3>2. QED
      BY <2>1, <3>1 DEF Sends
  <2>4. CASE EngineProcess /\ ~ EngineSend
    BY <2>1, <2>4, ProcessSplit DEF ProcessOnly, daemonVars
  <2>5. CASE UNCHANGED answers
    BY <2>1, <2>5
  <2>6. QED
    BY <1>2, <2>2, <2>3, <2>4, <2>5, EngineSteps
       DEF Removed, ServerTimesOut, WorkflowTaskTimesOut, ActivityTimesOut, ServerStep,
           CrashRunEnds, GivenUp, RecoveryRunEnds, SealLedger, HandleSeal, ReadDump,
           ClassifyTrial, allVars, daemonVars
<1>3. QED
  BY <1>1, <1>2

LEMMA PunctualOwn ==
  ASSUME PunctualOK, Planned(trial)
  PROVE  OwnTrial
BY DEF PunctualOK, OwnTrial

-----------------------------------------------------------------------------
(***************************************************************************)
(* What a request without a key leaves in the ledger: a crossing that      *)
(* bears its payload.                                                      *)
(***************************************************************************)
Bears(digests, p) == \E n \in 1 .. Len(digests) : digests[n] = p

Borne(i, digests, replies, now) ==
  \A a \in replies : /\ a.epoch = now /\ Counts(a.req, a.status)
                     /\ a.req.intent = i /\ a.req.key = NoKey
                     => Bears(digests, a.req.payload)

KeylessShown == \A i \in Intents : Borne(i, effect_digests[i], answers, epoch)

LEMMA ShownAppend ==
  ASSUME NEW i, NEW digests \in Seq(Payloads), NEW p \in Payloads, NEW replies, NEW now,
         Borne(i, digests, replies, now)
  PROVE  Borne(i, Append(digests, p), replies, now) /\ Bears(Append(digests, p), p)
<1> DEFINE more == Append(digests, p)
<1>1. /\ Len(digests) \in Nat /\ Len(more) = Len(digests) + 1 /\ more[Len(digests) + 1] = p
      /\ \A n \in 1 .. Len(digests) : more[n] = digests[n]
  BY AppendProperties
<1> HIDE DEF more
<1>2. \A n \in 1 .. Len(digests) : n \in 1 .. Len(more)
  BY <1>1
<1>3. Len(digests) + 1 \in 1 .. Len(more)
  BY <1>1
<1>4. \A q : Bears(digests, q) => Bears(more, q)
  BY <1>1, <1>2 DEF Bears
<1>5. Bears(more, p)
  BY <1>1, <1>3 DEF Bears
<1>6. Borne(i, more, replies, now)
  BY <1>4 DEF Borne
<1>7. QED
  BY <1>5, <1>6 DEF more

LEMMA HandleShown ==
  ASSUME DaemonTypeOK, KeylessShown, NEW req \in wire, Handle(req)
  PROVE  KeylessShown'
<1>1. PICK status \in {"ok", "sealed", "refused", "no response"} :
        /\ Reply(req, status)
        /\ IF Counts(req, status) THEN CountEffect(req.intent, req.key, req.payload)
           ELSE UNCHANGED <<seen_keys, effect_keys, effect_digests>>
  BY HandleCounts
<1> DEFINE answer == [req |-> req, status |-> status, epoch |-> epoch]
<1>2. /\ answers' = answers \cup {answer} /\ epoch' = epoch
      /\ answer.req = req /\ answer.status = status /\ answer.epoch = epoch
  BY <1>1 DEF Reply
<1> HIDE DEF answer
<1>3. /\ effect_digests \in [Intents -> Seq(Payloads)] /\ req.payload \in Payloads
  BY DEF DaemonTypeOK, LedgerTypeOK, Request
<1> SUFFICES ASSUME NEW i \in Intents
             PROVE  Borne(i, effect_digests'[i], answers', epoch')
  BY DEF KeylessShown
<1>4. Borne(i, effect_digests[i], answers, epoch) /\ effect_digests[i] \in Seq(Payloads)
  BY <1>3 DEF KeylessShown
<1>5. /\ Borne(i, Append(effect_digests[i], req.payload), answers, epoch)
      /\ Bears(Append(effect_digests[i], req.payload), req.payload)
  BY <1>3, <1>4, ShownAppend
<1>6. CASE Counts(req, status) /\ req.intent = i /\ req.key = NoKey
  <2>1. effect_digests'[i] = Append(effect_digests[i], req.payload)
    BY <1>1, <1>3, <1>6 DEF CountEffect, Deduped, Crossed
  <2> DEFINE more == Append(effect_digests[i], req.payload)
  <2>2. Borne(i, more, answers, epoch) /\ Bears(more, req.payload)
    BY <1>5
  <2> HIDE DEF more
  <2>3. Borne(i, more, answers', epoch)
    BY <1>2, <2>2 DEF Borne
  <2>4. QED
    BY <1>2, <2>1, <2>3 DEF more
<1>7. CASE ~ (Counts(req, status) /\ req.intent = i /\ req.key = NoKey)
  <2>1. \/ effect_digests'[i] = effect_digests[i]
        \/ effect_digests'[i] = Append(effect_digests[i], req.payload)
    BY <1>1, <1>3 DEF CountEffect, Crossed
  <2>2. Borne(i, effect_digests'[i], answers, epoch)
    BY <1>4, <1>5, <2>1
  <2> DEFINE more == effect_digests'[i]
  <2> HIDE DEF more
  <2>3. Borne(i, more, answers', epoch)
    BY <1>2, <1>7, <2>2 DEF Borne, more
  <2>4. QED
    BY <1>2, <2>3 DEF more
<1>8. QED
  BY <1>6, <1>7

LEMMA ShownStep ==
  DaemonTypeOK /\ AnswersOK /\ KeylessShown /\ [DaemonNext]_daemonVars => KeylessShown'
<1> SUFFICES ASSUME DaemonTypeOK, AnswersOK, KeylessShown, [DaemonNext]_daemonVars
             PROVE  KeylessShown'
  OBVIOUS
<1>1. ASSUME NEW req \in wire, Handle(req) PROVE KeylessShown'
  BY <1>1, HandleShown
<1>2. CASE UNCHANGED <<effect_digests, answers, epoch>>
  BY <1>2 DEF KeylessShown
<1>3. CASE HandleReset
  <2>1. \A a \in answers' : a.epoch # epoch'
    <3>1. answers' = answers /\ epoch' = epoch + 1 /\ epoch \in Nat
      BY <1>3, DaemonAssumption DEF HandleReset, DaemonTypeOK
    <3>2. \A a \in answers : a.epoch \in 0 .. MaxEpochs
      BY DEF DaemonTypeOK, Answer
    <3>3. QED
      BY <3>1, <3>2 DEF AnswersOK
  <2>2. QED
    BY <2>1 DEF KeylessShown, Borne
<1>4. QED
  BY <1>1, <1>2, <1>3
     DEF DaemonNext, SendExecute, SendControl, Send, HandleSeal, daemonVars, ledgerVars

LEMMA KeylessAlwaysShown == DaemonSpec => []KeylessShown
<1>1. DaemonInit => AnswersOK /\ KeylessShown
  BY FS_EmptySet DEF DaemonInit, AnswersOK, KeylessShown, Borne
<1>2. QED
  BY <1>1, DaemonTypeCorrect, AnswersStep, ShownStep, PTL DEF DaemonSpec

-----------------------------------------------------------------------------
(***************************************************************************)
(* Two modules that register one workflow name: the crash run charges      *)
(* through the first, and the recovery through the second.                 *)
(***************************************************************************)
Billed(r) == r.payload = "billing"

ChargesAt(h, s, own, ears) ==
  /\ ~ Has({"send"}, s)
  /\ \A r \in own : r.key = NoKey /\ r.payload \in ModulePayloads
  /\ h = "crash_run" => ~ Has({"send_shipping"}, s) /\ \A r \in own : Billed(r)
  /\ h # "crash_run" => /\ ~ Has({"send_billing"}, s)
                        /\ \A q, r \in own : Billed(q) /\ Billed(r) => q = r
                        /\ \E q \in ears : Billed(q)

ChargesOK == DuplicateName(trial) /\ harness \notin {"idle", "failed"} =>
               ChargesAt(harness, todo, Own, Ears)

LEMMA DuplicateTrials ==
  ASSUME NEW t \in Trials, DuplicateName(t)
  PROVE  /\ Planned(t) /\ t.engine = "dbos" /\ t.mode = "naive"
         /\ t.barrier \in MiddleBarriers
<1>1. t.mode = "naive" /\ t.engine = "dbos"
  BY EngineRow
<1>2. QED
  BY <1>1 DEF Planned, AdmissionArms, DuplicateName, MiddleBarriers

LEMMA ChargePrograms ==
  ASSUME NEW step \in StepName, NEW body, body \in {<<"billing_charge">>, <<"shipping_charge">>},
         NEW r \in Nat, Performed(step, body, r)
  PROVE  LET s == StepProgram(step) IN
         /\ ~ Has({"send"}, s)
         /\ body = <<"billing_charge">> => ~ Has({"send_shipping"}, s)
         /\ body = <<"shipping_charge">> => ~ Has({"send_billing"}, s)
<1>1. PICK x \in {"billing_charge", "shipping_charge"} : body = <<x>>
  OBVIOUS
<1>2. Len(body) = 1 /\ body[1] = x
  BY <1>1
<1>3. \A n \in r + 1 .. Len(body) : n = 1
  BY <1>2
<1>4. step = x
  BY <1>2, <1>3 DEF Performed
<1>5. CASE x = "billing_charge"
  <2>1. StepProgram(step) = <<"send_billing", "await", "dbos_duplicate_workflow_name_recovery",
                              "billing_charge">>
    BY <1>4, <1>5 DEF StepProgram
  <2>2. body # <<"shipping_charge">>
    BY <1>2, <1>5
  <2>3. QED
    BY <2>1, <2>2 DEF Has
<1>6. CASE x = "shipping_charge"
  <2>1. StepProgram(step) = <<"send_shipping", "await", "shipping_charge">>
    BY <1>4, <1>6 DEF StepProgram
  <2>2. body # <<"billing_charge">>
    BY <1>2, <1>6
  <2>3. QED
    BY <2>1, <2>2 DEF Has
<1>7. QED
  BY <1>1, <1>5, <1>6

LEMMA ChargeBodies ==
  ASSUME NEW body, body \in {<<"billing_charge">>, <<"shipping_charge">>}, NEW r \in Nat
  PROVE  LET s == Workflow(body, r) IN
         /\ ~ Has({"send"}, s)
         /\ body = <<"billing_charge">> => ~ Has({"send_shipping"}, s)
         /\ body = <<"shipping_charge">> => ~ Has({"send_billing"}, s)
<1>1. \A X \in {{"send"}, {"send_billing"}, {"send_shipping"}} :
        ~ Has(X, <<"dbos_workflow_outcome_uncommitted", "commit_outcome">>)
  BY DEF Has
<1>2. ~ Has({"send"}, Workflow(body, r))
  BY <1>1, HasWorkflow, ChargePrograms
<1>3. body = <<"billing_charge">> => ~ Has({"send_shipping"}, Workflow(body, r))
  BY <1>1, HasWorkflow, ChargePrograms
<1>4. body = <<"shipping_charge">> => ~ Has({"send_billing"}, Workflow(body, r))
  BY <1>1, HasWorkflow, ChargePrograms
<1>5. QED
  BY <1>2, <1>3, <1>4

LEMMA ChargesBegin ==
  ASSUME NEW t \in Trials, DuplicateName(t), NEW s, s = DbosCrashRun(t)
  PROVE  ~ Has({"send"}, s) /\ ~ Has({"send_shipping"}, s)
<1> DEFINE w == Workflow(CrashBody(t), 0)
           u == <<"enqueue">>
<1>1. CrashBody(t) = <<"billing_charge">>
  BY DEF CrashBody
<1>2. w \in Programs /\ ~ Has({"send"}, w) /\ ~ Has({"send_shipping"}, w)
  <2>1. w \in Programs
    BY WorkflowSpans DEF Spans
  <2>2. QED
    BY <1>1, <2>1, ChargeBodies
<1>3. u \in Programs /\ ~ Has({"send"}, u) /\ ~ Has({"send_shipping"}, u)
  BY Labels DEF Programs, Has
<1>4. s = ArmedWith(u \o w, t.barrier)
  BY DEF DbosCrashRun
<1> HIDE DEF w, u
<1>5. u \o w \in Programs /\ ~ Has({"send"}, u \o w) /\ ~ Has({"send_shipping"}, u \o w)
  BY <1>2, <1>3, ConcatPrograms, HasConcat
<1>6. QED
  BY <1>4, <1>5, HasArmed

LEMMA ChargesResume ==
  ASSUME NEW t \in Trials, DuplicateName(t), NEW d \in DbosDisk,
         NEW s, s = DbosRecoveryRun(t, d)
  PROVE  ~ Has({"send"}, s) /\ ~ Has({"send_billing"}, s)
<1> DEFINE w == Workflow(RecoveryBody(t), Len(d.outputs))
<1>1. RecoveryBody(t) = <<"shipping_charge">> /\ Len(d.outputs) \in Nat
  BY DEF RecoveryBody, DbosDisk
<1>2. w \in Programs /\ ~ Has({"send"}, w) /\ ~ Has({"send_billing"}, w)
  <2>1. w \in Programs
    BY <1>1, WorkflowSpans DEF Spans
  <2>2. QED
    BY <1>1, <2>1, ChargeBodies
<1>3. s \in {<<"no_workflow">>, << >>, ArmedWith(w, "none")}
  BY DEF DbosRecoveryRun, DbosDisk
<1>4. \A X \in {{"send"}, {"send_billing"}} : ~ Has(X, <<"no_workflow">>) /\ ~ Has(X, << >>)
  BY DEF Has
<1> HIDE DEF w
<1>5. QED
  BY <1>2, <1>3, <1>4, HasArmed

\* Of a process that sends nothing what is left to do is what was, but for its
\* first steps.
LEMMA ChargesDrop ==
  ASSUME trial \in Trials, trial.engine = "dbos", EngineProcess, ~ EngineSend
  PROVE  /\ UNCHANGED harnessVars
         /\ todo' = << >> \/ (todo # << >> /\ todo' = Tail(todo))
<1>1. CASE DbosProcess
  BY <1>1 DEF DbosProcess, KillSelf, Enqueue, CommitOutput, CommitOutcome, Raise, Persists,
              Running, Advance, ExitWith, EngineSend
<1>2. CASE ReceiveReply \/ EngineSamplerFails \/ Return
  BY <1>2 DEF ReceiveReply, EngineSamplerFails, SamplerFails, Raise, Return, Running, Advance,
              ExitWith
<1>3. QED
  BY <1>1, <1>2 DEF EngineProcess, EngineSend

LEMMA ChargesPass ==
  ASSUME NEW h, NEW s \in Programs, NEW p, p = << >> \/ (s # << >> /\ p = Tail(s)),
         NEW own, NEW ears, NEW more, ears \subseteq more, ChargesAt(h, s, own, ears)
  PROVE  ChargesAt(h, p, own, more)
<1>1. \A X : Has(X, p) => Has(X, s)
  <2>1. \A X : ~ Has(X, << >>)
    BY DEF Has
  <2>2. s # << >> => \A X : Has(X, Tail(s)) => Has(X, s)
    BY HasTail
  <2>3. QED
    BY <2>1, <2>2, Zenon
<1>2. QED
  BY <1>1 DEF ChargesAt

LEMMA ChargesSend ==
  ASSUME NEW h, NEW s \in Programs, s # << >>, NEW own, NEW ears, NEW more, ears \subseteq more,
         ChargesAt(h, s, own, ears), Head(s) \in SendSteps,
         NEW r, r.key = NoKey,
         r.payload = IF Head(s) = "send_billing" THEN "billing" ELSE "shipping"
  PROVE  ChargesAt(h, Tail(s), own \cup {r}, more)
<1>1. \A X : Has(X, s) <=> Head(s) \in X \/ Has(X, Tail(s))
  BY HasTail
<1>2. /\ Head(s) # "send" /\ ~ Has({"send"}, Tail(s))
      /\ h = "crash_run" => Head(s) = "send_billing" /\ ~ Has({"send_shipping"}, Tail(s))
      /\ h # "crash_run" => Head(s) = "send_shipping" /\ ~ Has({"send_billing"}, Tail(s))
  BY <1>1 DEF ChargesAt, SendSteps
<1>3. r.payload \in ModulePayloads
  BY DEF ModulePayloads
<1>4. h = "crash_run" => Billed(r)
  BY <1>2 DEF Billed
<1>5. h # "crash_run" => ~ Billed(r)
  BY <1>2 DEF Billed
<1>6. QED
  BY <1>2, <1>3, <1>4, <1>5 DEF ChargesAt

\* A charge is sent under the name of its module and no key.
LEMMA ChargeSent ==
  ASSUME EngineSafe, trial.engine = "dbos", ~ Has({"send"}, todo), EngineSend
  PROVE  \E r : /\ r.key = NoKey
                /\ r.payload = IF Head(todo) = "send_billing" THEN "billing" ELSE "shipping"
                /\ Own' = Own \cup {r}
<1>1. todo # << >> /\ todo \in Programs
  BY SendMoves DEF EngineSafe, EngineTyped, RunTyped, StateAt
<1>2. Head(todo) # "send"
  BY <1>1, HasTail
<1>3. PICK payload : /\ SendExecute(Intent, NoKey, payload)
                     /\ payload = IF Head(todo) = "send_billing" THEN "billing" ELSE "shipping"
  BY <1>2 DEF EngineSend, SendEffect, SendCharge, SendPayload, Running
<1> DEFINE r == [id |-> sent + 1, op |-> "execute", intent |-> Intent,
                 key |-> NoKey, payload |-> payload, epoch |-> epoch]
<1>4. wire' = wire \cup {r} /\ UNCHANGED <<answers, epoch>>
  BY <1>3 DEF SendExecute, Send
<1>5. r.payload = payload /\ r.key = NoKey /\ r.epoch = epoch
  OBVIOUS
<1> HIDE DEF r
<1>6. Own' = Own \cup {r}
  BY <1>4, <1>5 DEF Own, Issued
<1>7. QED
  BY <1>3, <1>5, <1>6

\* The crash run charged once, through the first module.
LEMMA ChargesRecover ==
  ASSUME NEW t \in Trials, DuplicateName(t), NEW h, h = "crash_run", NEW x, x = "killed",
         NEW p, NEW d \in DbosDisk, NEW b, NEW own, NEW ears, ears \subseteq own, NEW asked,
         PlanAt(t, h, x, p, d, b, own, ears, asked), ChargesAt(h, p, own, ears),
         NEW s, s = DbosRecoveryRun(t, d), NEW i, i # "crash_run"
  PROVE  ChargesAt(i, s, own, ears)
<1>1. Single(own) /\ ears # {}
  BY DuplicateTrials DEF PlanAt, Repeats, Severed
<1>2. \A r \in own : r.key = NoKey /\ r.payload \in ModulePayloads /\ Billed(r)
  BY DEF ChargesAt
<1>3. ~ Has({"send"}, s) /\ ~ Has({"send_billing"}, s)
  BY ChargesResume
<1>4. \A q, r \in own : q = r
  BY <1>1 DEF Single
<1>5. \E q \in ears : Billed(q)
  BY <1>1, <1>2
<1>6. QED
  BY <1>2, <1>3, <1>4, <1>5 DEF ChargesAt

LEMMA ChargesStep ==
  Plain /\ EngineSafe /\ StallOK /\ PlanOK /\ ChargesOK /\ [EngineNext]_allVars => ChargesOK'
<1> SUFFICES ASSUME Plain, EngineSafe, StallOK, PlanOK, ChargesOK, [EngineNext]_allVars,
                    DuplicateName(trial)', (harness \notin {"idle", "failed"})'
             PROVE  ChargesAt(harness', todo', Own', Ears')
  BY DEF ChargesOK
<1>1. CASE TrialStarts
  <2>1. PICK t \in Trials : StartTrial(t, Fresh(t), CrashRun(t))
    BY <1>1 DEF TrialStarts
  <2>2. trial' = t /\ harness' = "crash_run" /\ todo' = CrashRun(t) /\ DuplicateName(t)
    BY <2>1 DEF StartTrial, Spawn, DuplicateName
  <2>3. todo' = DbosCrashRun(t)
    BY <2>2, DuplicateTrials DEF CrashRun
  <2>4. Own' = {}
    BY <1>1, OwnMoves
  <2>5. ~ Has({"send"}, todo') /\ ~ Has({"send_shipping"}, todo')
    BY <2>2, <2>3, ChargesBegin
  <2>6. QED
    BY <2>2, <2>4, <2>5 DEF ChargesAt
<1>2. CASE ~ TrialStarts
  <2>1. /\ trial' = trial /\ harness # "idle" /\ DuplicateName(trial) /\ trial \in Trials
        /\ todo \in Programs
    BY <1>2, TrialGoesOn
       DEF EngineSafe, EngineTyped, HarnessTypeOK, RunTyped, StateAt, DuplicateName
  <2>2. Planned(trial) /\ trial.engine = "dbos"
    BY <2>1, DuplicateTrials
  <2>3. Ears \subseteq Ears'
    BY <1>2, <2>1, EarsGrow
  <2>4. ~ EngineSend => Own' = Own
    BY <1>2, OwnMoves
  <2>5. harness # "failed" => ChargesAt(harness, todo, Own, Ears)
    BY <2>1 DEF ChargesOK
  <2>6. PICK own : own = Own
    OBVIOUS
  <2>7. PICK ears : ears = Ears
    OBVIOUS
  <2> DEFINE h == harness
             i == harness'
             s == todo
             p == todo'
             more == Ears'
  <2>8. ASSUME (i # "crash_run" /\ h \notin {"crash_run", "failed"}) \/ i = h, p = s,
               ~ EngineSend
        PROVE  ChargesAt(i, p, Own', more)
    <3>1. ChargesAt(h, s, own, ears) /\ ears \subseteq more /\ Own' = own
      BY <2>3, <2>4, <2>5, <2>6, <2>7, <2>8
    <3> HIDE DEF h, i, s, p, more
    <3>2. ChargesAt(i, p, own, more)
      BY <2>8, <3>1 DEF ChargesAt
    <3>3. QED
      BY <3>1, <3>2
  <2>9. CASE EngineSend
    <3>1. /\ s # << >> /\ p = Tail(s) /\ i = h /\ Head(s) \in SendSteps /\ h # "failed"
      BY <2>9, SendMoves DEF harnessVars, SendSteps
    <3>2. ChargesAt(h, s, own, ears) /\ ears \subseteq more
      BY <2>3, <2>5, <2>6, <2>7, <3>1
    <3>3. ~ Has({"send"}, todo)
      BY <3>2 DEF ChargesAt
    <3>4. PICK r : /\ r.key = NoKey
                   /\ r.payload = IF Head(todo) = "send_billing" THEN "billing" ELSE "shipping"
                   /\ Own' = own \cup {r}
      BY <2>2, <2>6, <2>9, <3>3, ChargeSent
    <3> HIDE DEF h, i, s, p, more
    <3>5. ChargesAt(h, Tail(s), own \cup {r}, more)
      BY <2>1, <3>1, <3>2, <3>4, ChargesSend DEF s
    <3>6. QED
      BY <3>1, <3>4, <3>5 DEF i, p, more
  <2>10. CASE EngineProcess /\ ~ EngineSend
    <3>1. i = h /\ (p = << >> \/ (s # << >> /\ p = Tail(s))) /\ h # "failed"
      BY <2>1, <2>2, <2>10, ChargesDrop DEF harnessVars
    <3>2. ChargesAt(h, s, own, ears) /\ ears \subseteq more /\ Own' = own /\ s \in Programs
      BY <2>1, <2>3, <2>4, <2>5, <2>6, <2>7, <2>10, <3>1
    <3> HIDE DEF h, i, s, p, more
    <3>3. ChargesAt(h, p, own, more)
      BY <3>1, <3>2, ChargesPass
    <3>4. QED
      BY <3>1, <3>2, <3>3 DEF i, p, more
  <2>11. CASE CrashRunEnds(RecoveryRun(trial, disk)) /\ ~ EngineSend
    <3>1. /\ h = "crash_run" /\ i = "recovery_run" /\ p = RecoveryRun(trial, disk)
          /\ exit = "killed"
      BY <2>11 DEF CrashRunEnds, Spawn, Expected
    <3>2. p = DbosRecoveryRun(trial, disk) /\ disk \in DbosDisk
      BY <2>2, <3>1 DEF RecoveryRun, EngineSafe, EngineTyped, RunTyped, StateAt, DbosAt
    <3>3. /\ PlanAt(trial, h, exit, s, disk, before.disk, own, ears, request)
          /\ ChargesAt(h, s, own, ears) /\ ears \subseteq own
      BY <2>2, <2>5, <2>6, <2>7, <3>1 DEF PlanOK, Ears
    <3> DEFINE x == exit
               d == disk
               b == before.disk
               asked == request
    <3>4. /\ h = "crash_run" /\ x = "killed" /\ d \in DbosDisk /\ i # "crash_run"
          /\ PlanAt(trial, h, x, s, d, b, own, ears, asked) /\ p = DbosRecoveryRun(trial, d)
          /\ ears \subseteq more /\ Own' = own
      BY <2>3, <2>4, <2>6, <2>7, <2>11, <3>1, <3>2, <3>3
    <3> HIDE DEF h, i, s, p, more, x, d, b, asked
    <3>5. ChargesAt(i, p, own, ears)
      BY <2>1, <3>3, <3>4, ChargesRecover
    <3>6. ChargesAt(i, p, own, more)
      BY <3>4, <3>5 DEF ChargesAt
    <3>7. QED
      BY <3>4, <3>6 DEF i, p, more
  <2>12. CASE (RecoveryRunEnds \/ SealLedger \/ ReadDump \/ ClassifyTrial(Verdict)) /\ ~ EngineSend
    <3>1. /\ p = s /\ h \in {"recovery_run", "seal", "dump", "classify"}
          /\ i \in {"seal", "dump", "classify", "classified", "failed"}
      BY <2>12 DEF RecoveryRunEnds, SealLedger, ReadDump, ClassifyTrial, processVars
    <3>2. QED
      BY <2>8, <2>12, <3>1
  <2>13. CASE (WorkflowTaskTimesOut \/ LostAttemptTimesOut \/ Daemon \/ UNCHANGED allVars)
                /\ ~ EngineSend
    <3>1. p = s /\ i = h
      BY <2>13 DEF WorkflowTaskTimesOut, LostAttemptTimesOut, ActivityTimesOut, ServerStep,
                   harnessVars, Daemon, allVars, trialVars
    <3>2. QED
      BY <2>8, <2>13, <3>1
  <2>14. ~ RecoveryStalls
    BY <2>2, PlannedNeverStall
  <2>15. ~ GivenUp
    BY DEF GivenUp
  <2>16. QED
    BY <1>2, <2>9, <2>10, <2>11, <2>12, <2>13, <2>14, <2>15, PlainSteps
<1>3. QED
  BY <1>1, <1>2

-----------------------------------------------------------------------------
(***************************************************************************)
(* What the recovery found completed had been counted.                     *)
(***************************************************************************)
FoundMade == harness \notin {"idle", "crash_run", "failed"} /\ Durable(trial, before.disk) => Made

LEMMA FoundMadeStep ==
  EngineSafe /\ Progress /\ FoundMade /\ [EngineNext]_allVars => FoundMade'
<1> SUFFICES ASSUME EngineSafe, Progress, FoundMade, [EngineNext]_allVars,
                    (harness \notin {"idle", "crash_run", "failed"})',
                    Durable(trial', before'.disk)
             PROVE  Made'
  BY DEF FoundMade
<1>1. ~ TrialStarts
  BY DEF TrialStarts, StartTrial
<1>2. trial' = trial /\ harness # "idle"
  BY <1>1, TrialGoesOn
<1>3. Made => Made'
  BY <1>1, <1>2, MadeStays DEF EngineSafe
<1>4. CASE CrashRunEnds(RecoveryRun(trial, disk))
  <2>1. before'.disk = disk
    BY <1>4 DEF CrashRunEnds
  <2>2. QED
    BY <1>2, <1>3, <2>1 DEF Progress
<1>5. CASE /\ before' = before
           /\ harness' = harness \/ harness \notin {"crash_run", "failed"} \/ harness' = "failed"
  BY <1>2, <1>3, <1>5 DEF FoundMade
<1>6. CASE EngineProcess
  BY <1>5, <1>6, ProcessTyped DEF EngineSafe, harnessVars
<1>7. QED
  BY <1>1, <1>4, <1>5, <1>6, EngineSteps
     DEF Removed, ServerTimesOut, WorkflowTaskTimesOut, ActivityTimesOut, ServerStep,
         GivenUp, RecoveryRunEnds, SealLedger, ReadDump, ClassifyTrial,
         Daemon, allVars, trialVars, harnessVars

-----------------------------------------------------------------------------
(***************************************************************************)
(* The outcome of a trial of theirs, and what the prediction says of it.   *)
(***************************************************************************)
LEMMA PredictedInMatrix ==
  ASSUME NEW t \in Trials, Planned(t), t.barrier \in Barrier
  PROVE  /\ t.barrier # "b1" => Predicted(t) = "exactly_once"
         /\ t.barrier = "b1" =>
              /\ t.mode = "naive" => Predicted(t) = "duplicated"
              /\ t.mode = "nondet" => Predicted(t) = "diverged"
              /\ t.mode \in {"idem", "twophase"} => Predicted(t) = "exactly_once"
<1>1. /\ t.barrier \in {"b0", "b1", "b2"} /\ t.barrier # ReceiverBarrier
      /\ t.barrier \notin DOMAIN HiddenPredictions
      /\ t.barrier # "dbos_duplicate_workflow_name_recovery"
  BY DEF Barrier, ReceiverBarrier, HiddenPredictions
<1>2. t.engine \in {"langgraph", "dbos", "temporal"}
  BY <1>1, PlannedTrials
<1>3. t.mode \in {"naive", "idem", "nondet", "twophase"} /\ t.mode \notin AdmissionArms
  BY EngineRow DEF Planned, AdmissionArms
<1>4. RowOf(t) = Registry[t.engine][t.mode]
  BY <1>1, <1>3 DEF RowOf
<1>5. PICK order \in {"race", "effect_then_persist"} : RowOf(t) = EngineRows(order)[t.mode]
  BY <1>2, <1>4 DEF Registry, LangGraphRows, DBOSRows, TemporalRows
<1>6. /\ RowOf(t).durability = "durable" /\ RowOf(t).persist_order = order
      /\ t.mode = "naive" => /\ RowOf(t).effect_mode = "naive"
                             /\ RowOf(t).determinism = "deterministic"
      /\ t.mode = "idem" => /\ RowOf(t).effect_mode = "idempotent"
                            /\ RowOf(t).determinism = "deterministic"
      /\ t.mode = "nondet" => /\ RowOf(t).effect_mode = "idempotent"
                              /\ RowOf(t).determinism = "nondeterministic"
      /\ t.mode = "twophase" => /\ RowOf(t).effect_mode = "two_phase"
                                /\ RowOf(t).determinism = "nondeterministic"
  BY <1>3, <1>5 DEF EngineRows, Row
<1>7. Predicted(t) = Predict(RowOf(t), PhaseOf[t.barrier])
  BY <1>1 DEF Predicted
<1>8. PhaseOf[t.barrier] = CASE t.barrier = "b0" -> "before"
                             [] t.barrier = "b1" -> "between" [] OTHER -> "after"
  BY <1>1 DEF PhaseOf, Barrier
<1>9. t.barrier # "b1" => Predicted(t) = "exactly_once"
  BY <1>1, <1>6, <1>7, <1>8 DEF Predict
<1>10. t.barrier = "b1" => Predicted(t) = PredictBetween(RowOf(t))
  BY <1>6, <1>7, <1>8 DEF Predict
<1>11. order # "persist_then_effect"
  OBVIOUS
<1>12. /\ t.mode = "naive" => PredictBetween(RowOf(t)) = "duplicated"
       /\ t.mode = "nondet" => PredictBetween(RowOf(t)) = "diverged"
       /\ t.mode \in {"idem", "twophase"} => PredictBetween(RowOf(t)) = "exactly_once"
  BY <1>6, <1>11 DEF PredictBetween
<1>13. QED
  BY <1>9, <1>10, <1>12

LEMMA PredictedHidden ==
  ASSUME NEW t \in Trials, Planned(t), t.barrier \notin Barrier
  PROVE  /\ Unstored(t) => Predicted(t) = "lost"
         /\ t.barrier \in EarlyBarriers \cup LateBarriers /\ ~ Unstored(t) =>
              Predicted(t) = "exactly_once"
         /\ DuplicateName(t) => Predicted(t) = "diverged"
         /\ t.barrier \in MiddleBarriers /\ ~ DuplicateName(t) =>
              /\ t.mode = "naive" => Predicted(t) = "duplicated"
              /\ t.mode # "naive" => t.mode = "idem" /\ Predicted(t) = "exactly_once"
<1>1. t.barrier # ReceiverBarrier => t.barrier \in DOMAIN HiddenPredictions
  BY EngineRow DEF HiddenBarrier
<1>2. CASE t.barrier = ReceiverBarrier
  <2>1. t.barrier \notin DOMAIN HiddenPredictions
    BY <1>2 DEF ReceiverBarrier, HiddenPredictions
  <2>2. Predicted(t) = IF t.mode = "naive" THEN "duplicated" ELSE "exactly_once"
    BY <1>2, <2>1 DEF Predicted
  <2>3. t.mode \in {"naive", "idem"}
    BY <1>2, EngineAssumption
  <2>4. t.barrier \in MiddleBarriers /\ ~ DuplicateName(t) /\ ~ Unstored(t)
    BY <1>2 DEF MiddleBarriers, DuplicateName, Unstored, ReceiverBarrier
  <2>5. t.barrier \notin EarlyBarriers \cup LateBarriers
    BY <1>2, <2>4 DEF EarlyBarriers, LateBarriers, ReceiverBarrier
  <2>6. QED
    BY <2>2, <2>3, <2>4, <2>5
<1>3. CASE t.barrier # ReceiverBarrier
  <2>1. t.barrier \in DOMAIN HiddenPredictions /\ t.mode = "naive"
    BY <1>1, <1>3, EngineAssumption DEF Planned
  <2>2. Predicted(t) = HiddenPredictions[t.barrier]
    BY <1>3, <2>1 DEF Predicted
  <2>3. Unstored(t) => HiddenPredictions[t.barrier] = "lost"
    BY DEF Unstored, HiddenPredictions
  <2>4. DuplicateName(t) => HiddenPredictions[t.barrier] = "diverged"
    BY DEF DuplicateName, HiddenPredictions
  <2>5. t.barrier \in MiddleBarriers /\ ~ DuplicateName(t) =>
          HiddenPredictions[t.barrier] = "duplicated"
    <3>1. t.barrier \in MiddleBarriers /\ ~ DuplicateName(t) =>
            t.barrier = "dbos_step_output_uncommitted"
      BY <1>3 DEF MiddleBarriers, DuplicateName, Barrier
    <3>2. QED
      BY <3>1 DEF HiddenPredictions
  <2>6. t.barrier \in EarlyBarriers \cup LateBarriers /\ ~ Unstored(t) =>
          HiddenPredictions[t.barrier] = "exactly_once"
    <3>1. t.barrier \in LateBarriers =>
            t.barrier \in {"lg_pending_writes_after_persist", "tmp_workflow_task_replay",
                           "dbos_step_output_committed_before_resume",
                           "dbos_workflow_outcome_uncommitted"}
      BY BarrierTable DEF Barrier
    <3>2. t.barrier \in EarlyBarriers /\ ~ Unstored(t) =>
            t.barrier = "tmp_activity_scheduled_before_worker_poll"
      BY DEF EarlyBarriers, Unstored, Barrier
    <3>3. QED
      BY <3>1, <3>2 DEF HiddenPredictions
  <2>7. QED
    BY <2>1, <2>2, <2>3, <2>4, <2>5, <2>6
<1>4. QED
  BY <1>2, <1>3

LEMMA PlannedPredicted ==
  ASSUME NEW t \in Trials, Planned(t)
  PROVE  /\ Unstored(t) => Predicted(t) = "lost"
         /\ t.barrier \in EarlyBarriers \cup LateBarriers /\ ~ Unstored(t) =>
              Predicted(t) = "exactly_once"
         /\ DuplicateName(t) => Predicted(t) = "diverged"
         /\ t.barrier \in MiddleBarriers /\ ~ DuplicateName(t) =>
              /\ t.mode = "naive" => Predicted(t) = "duplicated"
              /\ t.mode = "nondet" => Predicted(t) = "diverged"
              /\ t.mode \in {"idem", "twophase"} => Predicted(t) = "exactly_once"
<1>1. CASE t.barrier \in Barrier
  <2>1. ~ Unstored(t) /\ ~ DuplicateName(t)
    BY <1>1 DEF Unstored, DuplicateName, Barrier
  <2>2. t.barrier \in MiddleBarriers <=> t.barrier = "b1"
    BY <1>1 DEF MiddleBarriers, Barrier, ReceiverBarrier
  <2>3. t.barrier \in EarlyBarriers \cup LateBarriers => t.barrier # "b1"
    BY DEF EarlyBarriers, LateBarriers, MiddleBarriers
  <2>4. QED
    BY <1>1, <2>1, <2>2, <2>3, PredictedInMatrix
<1>2. CASE t.barrier \notin Barrier
  BY <1>2, PredictedHidden
<1>3. QED
  BY <1>1, <1>2

\* A trial that asked for nothing is scored as lost.
LEMMA CountedNothing ==
  ASSUME EngineSafe, VerdictOK, StoreOnChain, CrossedAsAsked, Scored, Undisturbed, Own = {}
  PROVE  outcome = "lost"
<1> DEFINE keys == effect_keys[Intent]
<1>1. Intent \in Intents /\ LedgerTypeOK /\ harness = "classified"
  BY IntentTyped DEF Scored, EngineSafe, EngineTyped, HarnessTypeOK, DaemonTypeOK
<1>2. Len(keys) \in Nat
  BY <1>1 DEF LedgerTypeOK
<1>3. Len(keys) = 0
  <2>1. \A n \in 1 .. Len(keys) : FALSE
    BY <1>1, CrossedForThis
  <2>2. Len(keys) # 0 => 1 \in 1 .. Len(keys)
    BY <1>2
  <2>3. QED
    BY <2>1, <2>2
<1>4. Dump.side_effects[Intent] = 0
  BY <1>1, <1>3 DEF EngineSafe, CrossingsAgree, Dump
<1>5. outcome = Classify(Intent, Dump, store) /\ outcome # "raises"
  BY DEF VerdictOK, Scored, Verdict
<1>6. Verify(store) \in {"ok", "raises"}
  BY ChainNeverBroken
<1>7. Verify(store) = "raises" => Classify(Intent, Dump, store) = "raises"
  BY DEF Classify
<1>8. Verify(store) # "raises" /\ Verify(store) # "broken"
  BY <1>5, <1>6, <1>7
<1>9. ~ (0 >= 2) /\ 0 # 1
  OBVIOUS
<1>10. Classify(Intent, Dump, store) = "lost"
  BY <1>4, <1>8, <1>9, Zenon DEF Classify
<1>11. QED
  BY <1>5, <1>10

\* One that charged through both modules left a crossing of each.
LEMMA ChargedTwice ==
  ASSUME EngineSafe, VerdictOK, StoreOnChain, KeylessShown, ChargesOK, Scored,
         DuplicateName(trial), NEW q \in Ears, NEW r \in Ears, q # r
  PROVE  outcome = "diverged"
<1>1. harness = "classified" /\ Ears \subseteq Own /\ Intent \in Intents
  BY IntentTyped DEF Scored, Ears, EngineSafe, EngineTyped, HarnessTypeOK, DaemonTypeOK
<1>2. ChargesAt(harness, todo, Own, Ears)
  BY <1>1 DEF ChargesOK
<1>3. PICK b \in Ears : Billed(b)
  BY <1>1, <1>2 DEF ChargesAt
<1>4. PICK c \in Ears : ~ Billed(c)
  BY <1>1, <1>2 DEF ChargesAt
<1>5. ASSUME NEW o \in Ears
      PROVE  \E n \in 1 .. Len(effect_keys[Intent]) : effect_digests[Intent][n] = o.payload
  <2>1. PICK a \in ExecutedNow(Intent, o.key) : a.req = o
    BY HeardCounts
  <2>2. o.key = NoKey
    BY <1>1, <1>2 DEF ChargesAt
  <2>3. a \in answers /\ a.epoch = epoch /\ Counts(a.req, a.status) /\ a.req.intent = Intent
    BY <2>1 DEF ExecutedNow, Counts
  <2>4. \E n \in 1 .. Len(effect_digests[Intent]) : effect_digests[Intent][n] = o.payload
    BY <1>1, <2>1, <2>2, <2>3 DEF KeylessShown, Borne, Bears
  <2>5. Len(effect_digests[Intent]) = Len(effect_keys[Intent])
    BY <1>1 DEF EngineSafe, CrossingsAgree
  <2>6. QED
    BY <2>4, <2>5
<1>6. b.payload # c.payload
  BY <1>3, <1>4 DEF Billed
<1>7. PICK m \in 1 .. Len(effect_keys[Intent]) : effect_digests[Intent][m] = b.payload
  BY <1>5
<1>8. PICK n \in 1 .. Len(effect_keys[Intent]) : effect_digests[Intent][n] = c.payload
  BY <1>5
<1>9. QED
  BY <1>6, <1>7, <1>8, TwoEffects

LEMMA PlannedShown ==
  ASSUME EngineSafe, Progress, VerdictOK, StoreOnChain, AcknowledgedOnce, AnsweredOnce,
         AnswersOK, CrossedAsAsked, KeylessShown, EngineKilledAnywhereOnce, PayloadsOK,
         PlanOK, PunctualOK, ChargesOK, FoundMade, Scored, Planned(trial),
         trial.mode = "nondet" => NewDraws
  PROVE  outcome = Predicted(trial) \/ (Races(trial) /\ outcome = "exactly_once")
<1> DEFINE b == before.disk
<1>1. trial \in Trials /\ harness = "classified" /\ exit = "zero"
  BY DEF Scored, EngineSafe, EngineTyped, HarnessTypeOK, PhaseOK
<1>2. Undisturbed
  BY PunctualOwn DEF Undisturbed
<1>3. PlanAt(trial, harness, exit, todo, disk, b, Own, Ears, request)
  BY <1>1 DEF PlanOK
<1>4. /\ ~ Repeats(trial, harness, b) => Single(Own)
      /\ trial.barrier \in MiddleBarriers /\ Durable(trial, b) => trial.engine = "langgraph"
      /\ trial.barrier \in LateBarriers => Durable(trial, b)
      /\ Unstored(trial) => Own = {}
      /\ Repeats(trial, harness, b) => \E q, r \in Ears : q # r
  BY <1>1, <1>3 DEF PlanAt
<1>5. Durable(trial, b) => Made
  BY <1>1 DEF FoundMade
<1>6. ASSUME Single(Own), Made PROVE outcome = "exactly_once"
  <2>1. \A k, l \in 1 .. Len(effect_keys[Intent]) : k = l
    BY <1>1, <1>2, <1>6, SingleCrosses
  <2>2. QED
    BY <1>6, <2>1, CountedOnce
<1>7. /\ trial.mode \in {"naive", "idem", "nondet", "twophase"}
      /\ trial.barrier \in EarlyBarriers \cup MiddleBarriers \cup LateBarriers
  BY <1>1, EngineRow, Placed DEF Planned
<1>8. CASE Unstored(trial)
  BY <1>1, <1>2, <1>4, <1>8, CountedNothing, PlannedPredicted
<1>9. CASE trial.barrier \in EarlyBarriers \cup LateBarriers /\ ~ Unstored(trial)
  <2>1. trial.barrier \notin MiddleBarriers
    BY <1>9, BarrierTable DEF EarlyBarriers
  <2>2. Single(Own)
    BY <1>4, <2>1 DEF Repeats
  <2>3. Made
    <3>1. CASE trial.barrier \in LateBarriers
      BY <1>4, <1>5, <3>1
    <3>2. CASE trial.barrier \in EarlyBarriers
      <4>1. trial.engine = "langgraph" => trial.barrier = "b0"
        BY <1>1, <1>9, <3>2, PlannedTrials DEF EarlyBarriers, Unstored
      <4>2. trial.engine = "langgraph" => HarnessOf(trial) = "matrix"
        BY <4>1 DEF HarnessOf, Planned, HiddenPredictions
      <4>3. ~ Lost
        BY <4>2 DEF Lost, LostAt
      <4>4. QED
        BY <1>1, <4>3 DEF Progress
    <3>3. QED
      BY <1>9, <3>1, <3>2
  <2>4. QED
    BY <1>1, <1>6, <1>9, <2>2, <2>3, PlannedPredicted
<1>10. CASE trial.barrier \in MiddleBarriers /\ trial.mode \in {"idem", "twophase"}
  <2>1. outcome = "exactly_once"
    BY <1>2, <1>10 DEF EngineKilledAnywhereOnce
  <2>2. ~ DuplicateName(trial)
    BY <1>1, <1>10, EngineRow
  <2>3. QED
    BY <1>1, <1>10, <2>1, <2>2, PlannedPredicted
<1>11. CASE trial.barrier \in MiddleBarriers /\ trial.mode \in {"naive", "nondet"}
  <2>1. CASE Durable(trial, b)
    <3>1. Races(trial)
      BY <1>1, <1>4, <1>11, <2>1, PlannedTrials DEF Races, MiddleBarriers, ReceiverBarrier
    <3>2. Single(Own)
      BY <1>4, <2>1 DEF Repeats
    <3>3. QED
      BY <1>5, <1>6, <2>1, <3>1, <3>2
  <2>2. CASE ~ Durable(trial, b)
    <3>1. PICK q \in Ears, r \in Ears : q # r
      BY <1>1, <1>4, <1>11, <2>2 DEF Repeats
    <3>2. CASE DuplicateName(trial)
      BY <1>1, <3>1, <3>2, ChargedTwice, PlannedPredicted
    <3>3. CASE ~ DuplicateName(trial)
      <4>1. trial.mode = "naive" => outcome = "duplicated"
        BY <1>2, <3>1, <3>3, NaiveTwice
      <4>2. trial.mode = "nondet" => outcome = "diverged"
        BY <1>2, <3>1, <3>3, NondetTwice
      <4>3. QED
        BY <1>1, <1>11, <3>3, <4>1, <4>2, PlannedPredicted
    <3>4. QED
      BY <3>2, <3>3
  <2>3. QED
    BY <2>1, <2>2
<1>12. QED
  BY <1>7, <1>8, <1>9, <1>10, <1>11

\* At every barrier of every engine a trial that nothing but its barrier kills,
\* whose sampler answers and whose attempts are not taken for lost while they
\* work, ends in the outcome its harness compares it with, but for LangGraph's race
\* at b1: the barrier strikes once, what the process had left to do at it says
\* what is durable and what was asked for, and the recovery asks again exactly
\* where nothing durable tells it not to (run_cell, and run of the hidden
\* harnesses, agrees).  Writes of the ledger may fail: only the Vercel fixture runs
\* an effect again for one, and then the unkeyed effect ends duplicated and the
\* redrawn one diverged (crashpoint.ts ledgerExecute).  A source that may repeat itself is left out where a
\* nondeterministic action has no other: two equal draws are one effect.
THEOREM EndsAsPredicted ==
  ASSUME ~ StrayKills, ~ Failures, ~ SlowAttempts,
         UuidDraws \/ \A t \in Trials : t.engine # "vercel" => t.mode # "nondet"
  PROVE  EngineSpec => []EngineOutcomeAsPredicted
<1>1. Plain
  BY DEF Plain
<1>2. EngineInit => /\ AnsweredOnce /\ AllCounted /\ PayloadsOK /\ StallOK /\ PlanOK
                    /\ PendingOK /\ PunctualOK /\ ChargesOK /\ FoundMade
  BY DEF EngineInit, TrialInit, DaemonInit, AnsweredOnce, AllCounted, PayloadsOK, StallOK,
         PlanOK, PendingOK, PunctualOK, ChargesOK, FoundMade
<1>3. DaemonInit => AnswersOK
  BY FS_EmptySet DEF DaemonInit, AnswersOK
<1>4. EngineSpec => []AnswersOK
  BY <1>3, EngineRunsDaemon, DaemonTypeCorrect, AnswersStep, PTL DEF DaemonSpec
<1>5. EngineSafe /\ StallOK /\ [EngineNext]_allVars => StallOK'
  BY StallStep DEF EngineSafe
<1>6. EngineSpec => [](AnsweredOnce /\ AllCounted /\ PayloadsOK /\ StallOK)
  BY <1>2, <1>5, EngineSafeAlways, AnsweredOnceStep, AllCountedStep, PayloadsStep, PTL
     DEF EngineSpec
<1>7. EngineSafe /\ StallOK /\ AllCounted /\ PlanOK /\ [EngineNext]_allVars => PlanOK'
  BY <1>1, PlanOKStep
<1>8. EngineSpec => []PlanOK
  BY <1>2, <1>6, <1>7, EngineSafeAlways, PTL DEF EngineSpec
<1>9. EngineSafe /\ StallOK /\ PlanOK /\ PendingOK /\ [EngineNext]_allVars => PendingOK'
  BY <1>1, PendingOKStep
<1>10. EngineSpec => []PendingOK
  BY <1>2, <1>6, <1>8, <1>9, EngineSafeAlways, PTL DEF EngineSpec
<1>11. EngineSafe /\ PendingOK /\ PunctualOK /\ [EngineNext]_allVars => PunctualOK'
  BY <1>1, PunctualStep
<1>12. EngineSpec => []PunctualOK
  BY <1>2, <1>10, <1>11, EngineSafeAlways, PTL DEF EngineSpec
<1>13. EngineSafe /\ StallOK /\ PlanOK /\ ChargesOK /\ [EngineNext]_allVars => ChargesOK'
  BY <1>1, ChargesStep
<1>14. EngineSpec => []ChargesOK
  BY <1>2, <1>6, <1>8, <1>13, EngineSafeAlways, PTL DEF EngineSpec
<1>15. EngineSpec => []FoundMade
  BY <1>2, EngineSafeAlways, FoundMadeStep, PTL DEF EngineSpec
<1>16. EngineSpec => [](AcknowledgedOnce /\ CrossedAsAsked /\ KeylessShown)
  BY EngineRunsDaemon, EachAcknowledgedOnce, CrossedAlwaysAsAsked, KeylessAlwaysShown, PTL
<1>17. EngineSafe /\ Progress /\ VerdictOK /\ StoreOnChain /\ AcknowledgedOnce /\ AnsweredOnce
         /\ AnswersOK /\ CrossedAsAsked /\ KeylessShown /\ EngineKilledAnywhereOnce
         /\ PayloadsOK /\ PlanOK /\ PunctualOK /\ ChargesOK /\ FoundMade /\ MarkerMeansBarrier
         => EngineOutcomeAsPredicted
  <2> SUFFICES ASSUME EngineSafe, Progress, VerdictOK, StoreOnChain, AcknowledgedOnce,
                      AnsweredOnce, AnswersOK, CrossedAsAsked, KeylessShown,
                      EngineKilledAnywhereOnce, PayloadsOK, PlanOK, PunctualOK, ChargesOK,
                      FoundMade, MarkerMeansBarrier, Scored
               PROVE  \/ outcome = OutcomeToExpect
                      \/ Races(trial) /\ outcome = "exactly_once"
    BY DEF EngineOutcomeAsPredicted
  <2>1. CASE trial.engine \in {"restate", "vercel"}
    BY <2>1 DEF MarkerMeansBarrier
  <2>2. CASE trial.engine \notin {"restate", "vercel"}
    <3>1. Planned(trial)
      BY <2>2 DEF Planned, Scored
    <3>2. trial.mode = "nondet" => NewDraws
      BY DEF NewDraws, EngineSafe, EngineTyped, HarnessTypeOK
    <3>3. ~ ChargedAgain
      BY <2>2 DEF ChargedAgain, Recharged
    <3>4. QED
      BY <3>1, <3>2, <3>3, PlannedShown DEF OutcomeToExpect
  <2>3. QED
    BY <2>1, <2>2
<1>18. EngineSpec => []MarkerMeansBarrier
  <2>1. UuidDraws \/ \A t \in Trials : t.engine = "restate" => t.mode # "nondet"
    OBVIOUS
  <2>2. QED
    BY <2>1, ScoredWithItsMarker
<1>19. QED
  BY <1>4, <1>6, <1>8, <1>12, <1>14, <1>15, <1>16, <1>17, <1>18, EngineSafeAlways,
     OnceWhicheverEngine, PTL

-----------------------------------------------------------------------------
(***************************************************************************)
(* The mechanism each hidden trial has to show.  What its tables, history  *)
(* or turns hold is read off what its process has still to do, so that the *)
(* barrier leaves the rows its rule names and the recovery the rows it has *)
(* to end with.                                                            *)
(***************************************************************************)
\* A hidden trial whose durable state is evidence.
Judged(t) == t.engine \in {"dbos", "temporal", "trueforge"} /\ t.barrier \in HiddenBarrier

\* The rows each rule of DBOS's names, before the recovery and after it.
BothSteps == <<"effect_step", "sentinel_step">>
TablesWere(t) ==
  CASE t.barrier = "dbos_step_output_uncommitted" -> << >>
    [] t.barrier = "dbos_step_output_committed_before_resume" -> <<"effect_step">>
    [] t.barrier = "dbos_workflow_outcome_uncommitted" -> BothSteps
    [] DuplicateName(t) -> << >>
TablesAre(t) == IF DuplicateName(t) THEN <<"shipping_charge">> ELSE BothSteps

\* The steps a process of the trial may have to take and record, and what it has
\* recorded with s still to do.
OwnSteps(t, h) ==
  IF ~ DuplicateName(t) THEN {"effect_step", "sentinel_step"}
  ELSE IF h = "crash_run" THEN {"billing_charge"} ELSE {"shipping_charge"}
OutputsOf(t, h, s) ==
  IF Has(ChargeSteps, s) THEN << >>
  ELSE IF DuplicateName(t) THEN IF h = "crash_run" THEN <<"billing_charge">>
                                ELSE <<"shipping_charge">>
  ELSE IF Has({"sentinel_step"}, s) THEN <<"effect_step">> ELSE BothSteps

TableRows(t, h, s, d) ==
  /\ ~ Has(StepName \ OwnSteps(t, h), s)
  /\ d.outputs = OutputsOf(t, h, s)
  /\ Has({"enqueue"}, s) <=> d.wf = "absent"
  /\ Has({"commit_outcome"}, s) <=> d.wf # "SUCCESS"
  /\ Has({t.barrier}, s) => Has({"commit_outcome"}, s)
  /\ ~ DuplicateName(t) /\ Has({"effect_step", "dbos_step_output_committed_before_resume"}, s)
       => Has({"sentinel_step"}, s)

\* The one activity of a hidden workflow is done at its first attempt.
Replays(t) == t.barrier = "tmp_workflow_task_replay"
HistoryRows(t, h, s, d) ==
  /\ d.next = 0 => d.attempt = 1
  /\ d.started = IF d.next = 0 THEN 0 ELSE 1
  /\ d.act = "taken" => Has({"report"}, s)
  /\ d.wf = "closed" => d.wft = "none"
  /\ Has({"tmp_workflow_task_replay"}, s) => Has({"decide"}, s)
  /\ h = "crash_run" \/ ~ Replays(t) =>
       ~ d.timedOut /\ (d.wft = "taken" => Has({"decide"}, s))
  /\ h # "crash_run" /\ Replays(t) =>
       /\ d.next = 1
       /\ d.timedOut \/ (d.wft = "taken" /\ d.wf # "closed" /\ s = <<"poll">>)
       /\ d.timedOut /\ d.wft = "taken" => Has({"decide"}, s)

HistoryWas(t, d) ==
  IF Replays(t)
    THEN /\ d.next = 1 /\ d.started = 1 /\ d.act = "none" /\ d.wf # "closed"
         /\ d.timedOut <=> d.wft # "taken"
    ELSE /\ d.next = 0 /\ d.started = 0 /\ d.act = "ready" /\ d.attempt = 1 /\ ~ d.timedOut
         /\ d.wft # "taken" /\ d.wf # "closed"

\* A turn is created and asks the model before the tool performs the effect, and
\* the next turn cancels it.
Orphan == [events |-> {"turn.created", "model.message"}, status |-> "running"]

TurnRows(h, s, d) ==
  IF h = "crash_run"
    THEN \/ s = <<"create_turn">> \/ Disarmed(s)
         \/ /\ d.first.status = "running"
            /\ d.first.events = {"turn.created"}
                 \cup IF Has({"model.message"}, s) THEN {} ELSE {"model.message"}
            /\ (s = <<"kill">> /\ d.marker) \/ Has({ReceiverBarrier}, s)
    ELSE /\ d.marker
         /\ \/ s = <<"create_turn">> /\ d.first = Orphan
            \/ d.first.status = "cancelled" /\ (Has({"turn_done"}, s) \/ d.retry.status = "done")

Rows(t, h, s, d) == CASE t.engine = "dbos" -> TableRows(t, h, s, d)
                      [] t.engine = "temporal" -> HistoryRows(t, h, s, d)
                      [] t.engine = "trueforge" -> TurnRows(h, s, d)
Was(t, d) == CASE t.engine = "dbos" -> d.wf = "PENDING" /\ d.outputs = TablesWere(t)
               [] t.engine = "temporal" -> HistoryWas(t, d)
               [] t.engine = "trueforge" -> d.first = Orphan /\ d.marker
Is(t, d) == CASE t.engine = "dbos" -> d.wf = "SUCCESS" /\ d.outputs = TablesAre(t)
              [] t.engine = "temporal" -> /\ d.started = 1 /\ d.timedOut = Replays(t)
                                          /\ d.wft # "taken"
              [] t.engine = "trueforge" -> d.first.status = "cancelled" /\ d.retry.status = "done"

TraceAt(t, h, x, s, d, b) ==
  /\ x = "running" => Rows(t, h, s, d)
  /\ h = "crash_run" /\ x = "killed" => Was(t, d)
  /\ h # "crash_run" => Was(t, b) /\ (x = "zero" => Is(t, d))

TraceOK == Judged(trial) /\ harness \notin {"idle", "failed"} =>
             TraceAt(trial, harness, exit, todo, disk, before.disk)

LEMMA JudgedTrials ==
  ASSUME NEW t \in Trials, Judged(t)
  PROVE  /\ Planned(t)
         /\ t.engine = "dbos" =>
              /\ t.barrier \in {"dbos_step_output_uncommitted",
                                "dbos_step_output_committed_before_resume",
                                "dbos_workflow_outcome_uncommitted",
                                "dbos_duplicate_workflow_name_recovery"}
              /\ ~ TwoPhase(t)
         /\ t.engine = "temporal" =>
              /\ t.barrier \in {"tmp_activity_scheduled_before_worker_poll",
                                "tmp_workflow_task_replay"}
              /\ WatchedTemporal(t)
         /\ t.engine = "trueforge" => t.barrier = ReceiverBarrier
<1>1. Planned(t)
  <2>1. t.mode \in AdmissionArms => t.engine = "langgraph"
    BY EngineRow
  <2>2. QED
    BY <2>1 DEF Judged, Planned
<1>2. t.barrier \notin {"b0", "b1", "b2"}
  BY DEF Judged, HiddenBarrier, HiddenPredictions, ReceiverBarrier
<1>3. t.barrier \in DOMAIN HiddenPredictions => ~ TwoPhase(t)
  <2>1. t.mode # "twophase" \/ t.barrier \notin DOMAIN HiddenPredictions
    BY EngineRow
  <2>2. QED
    BY <2>1, Modes
<1>4. t.engine \in {"dbos", "temporal"} => t.barrier \in DOMAIN HiddenPredictions
  BY HiddenTrials DEF Judged
<1>5. QED
  BY <1>1, <1>2, <1>3, <1>4, PlannedTrials DEF WatchedTemporal

-----------------------------------------------------------------------------
(***************************************************************************)
(* DBOS's tables.                                                          *)
(***************************************************************************)
\* Of the steps that are recorded each program has its own and no other.
LEMMA StepRecords ==
  ASSUME NEW step \in StepName
  PROVE  LET s == StepProgram(step) IN
         /\ \A X : X \subseteq StepName => (Has(X, s) <=> step \in X)
         /\ Has({"dbos_step_output_committed_before_resume"}, s) => step = "effect_step"
         /\ ~ Has({"commit_outcome"}, s)
<1> DEFINE s == StepProgram(step)
<1>1. /\ \E n \in 1 .. Len(s) : s[n] = step
      /\ \A n \in 1 .. Len(s) : /\ s[n] \in StepName => s[n] = step
                                /\ s[n] = "dbos_step_output_committed_before_resume"
                                     => step = "effect_step"
                                /\ s[n] # "commit_outcome"
  <2>1. CASE step = "prepare_identity_step"
    <3>1. Len(s) = 1 /\ s[1] = "prepare_identity_step"
      BY <2>1 DEF StepProgram
    <3> HIDE DEF s
    <3>2. 1 .. 1 = {1}
      OBVIOUS
    <3>3. QED
      BY <2>1, <3>1, <3>2
  <2>2. CASE step = "effect_step"
    <3>1. /\ Len(s) = 7 /\ s[1] = "b0" /\ s[2] = "send" /\ s[3] = "await" /\ s[4] = "b1"
          /\ s[5] = "dbos_step_output_uncommitted" /\ s[6] = "effect_step"
          /\ s[7] = "dbos_step_output_committed_before_resume"
      BY <2>2 DEF StepProgram
    <3> HIDE DEF s
    <3>2. 1 .. 7 = {1, 2, 3, 4, 5, 6, 7}
      OBVIOUS
    <3>3. QED
      BY <2>2, <3>1, <3>2 DEF StepName
  <2>3. CASE step = "sentinel_step"
    <3>1. Len(s) = 2 /\ s[1] = "b2" /\ s[2] = "sentinel_step"
      BY <2>3 DEF StepProgram
    <3> HIDE DEF s
    <3>2. 1 .. 2 = {1, 2}
      OBVIOUS
    <3>3. QED
      BY <2>3, <3>1, <3>2 DEF StepName
  <2>4. CASE step = "billing_charge"
    <3>1. /\ Len(s) = 4 /\ s[1] = "send_billing" /\ s[2] = "await"
          /\ s[3] = "dbos_duplicate_workflow_name_recovery" /\ s[4] = "billing_charge"
      BY <2>4 DEF StepProgram
    <3> HIDE DEF s
    <3>2. 1 .. 4 = {1, 2, 3, 4}
      OBVIOUS
    <3>3. QED
      BY <2>4, <3>1, <3>2 DEF StepName
  <2>5. CASE step = "shipping_charge"
    <3>1. /\ Len(s) = 3 /\ s[1] = "send_shipping" /\ s[2] = "await" /\ s[3] = "shipping_charge"
      BY <2>5 DEF StepProgram
    <3> HIDE DEF s
    <3>2. 1 .. 3 = {1, 2, 3}
      OBVIOUS
    <3>3. QED
      BY <2>5, <3>1, <3>2 DEF StepName
  <2>6. QED
    BY <2>1, <2>2, <2>3, <2>4, <2>5 DEF StepName
<1> HIDE DEF s
<1>2. \A X : X \subseteq StepName => (Has(X, s) <=> step \in X)
  BY <1>1 DEF Has
<1>3. QED
  BY <1>1, <1>2 DEF Has, s

\* The steps a workflow takes with r of them recorded.
LEMMA WorkflowRecords ==
  ASSUME NEW t \in Trials, t.engine = "dbos", Judged(t), NEW h,
         NEW body, body = IF h = "crash_run" THEN CrashBody(t) ELSE RecoveryBody(t),
         NEW r \in Nat
  PROVE  LET s == Workflow(body, r) IN
         /\ ~ Has(StepName \ OwnSteps(t, h), s)
         /\ Has(ChargeSteps, s) <=> r = 0
         /\ Has({"commit_outcome"}, s) /\ ~ Has({"enqueue"}, s)
         /\ ~ DuplicateName(t) => /\ Has({"sentinel_step"}, s) <=> r < 2
                                  /\ Has({"effect_step",
                                          "dbos_step_output_committed_before_resume"}, s) => r = 0
<1> DEFINE s == Workflow(body, r)
           end == <<"dbos_workflow_outcome_uncommitted", "commit_outcome">>
<1>1. /\ end[1] = "dbos_workflow_outcome_uncommitted" /\ end[2] = "commit_outcome"
      /\ 1 .. Len(end) = {1, 2}
  OBVIOUS
<1>2. /\ Has({"commit_outcome"}, end) /\ \A X : X \subseteq StepName => ~ Has(X, end)
      /\ ~ Has({"effect_step", "dbos_step_output_committed_before_resume"}, end)
  BY <1>1 DEF Has, StepName
<1>3. ~ TwoPhase(t) /\ ChargeAt(t) = 1 /\ body \in {CrashBody(t), RecoveryBody(t)}
  BY JudgedTrials DEF ChargeAt
<1>4. ~ Has({"enqueue"}, s) /\ (Has(ChargeSteps, s) <=> r < 1)
  BY <1>3, WorkflowHas
<1> HIDE DEF end
<1>5. \A X : Has(X, s) <=> \/ \E step \in StepName : /\ Performed(step, body, r)
                                                     /\ Has(X, StepProgram(step))
                           \/ Has(X, end)
  BY HasWorkflow DEF end
<1> HIDE DEF s
<1>6. ASSUME NEW X, X \subseteq StepName
      PROVE  Has(X, s) <=> \E step \in X : Performed(step, body, r)
  BY <1>2, <1>5, <1>6, StepRecords
<1>7. Has({"commit_outcome"}, s)
  BY <1>2, <1>5
<1>8. CASE DuplicateName(t)
  <2>1. PICK x \in {"billing_charge", "shipping_charge"} : body = <<x>> /\ OwnSteps(t, h) = {x}
    BY <1>8, Bodies DEF OwnSteps
  <2>2. \A step : Performed(step, body, r) => step = x
    <3>1. Len(body) = 1 /\ body[1] = x
      BY <2>1
    <3>2. \A n \in r + 1 .. 1 : n = 1
      OBVIOUS
    <3>3. QED
      BY <3>1, <3>2 DEF Performed
  <2>3. ~ Has(StepName \ OwnSteps(t, h), s)
    BY <1>6, <2>1, <2>2
  <2>4. QED
    BY <1>4, <1>7, <1>8, <2>3 DEF s
<1>9. CASE ~ DuplicateName(t)
  <2>1. body = <<"effect_step", "sentinel_step">> /\ OwnSteps(t, h) = {"effect_step", "sentinel_step"}
    BY <1>3, <1>9, Bodies DEF OwnSteps
  <2>2. Len(body) = 2 /\ body[1] = "effect_step" /\ body[2] = "sentinel_step"
    BY <2>1
  <2>3. \A n \in r + 1 .. 2 : n \in {1, 2} /\ (n = 1 => r = 0)
    OBVIOUS
  <2>4. \A step : Performed(step, body, r) => step \in {"effect_step", "sentinel_step"}
    BY <2>2, <2>3 DEF Performed
  <2>5. Performed("effect_step", body, r) => r = 0
    BY <2>2, <2>3 DEF Performed
  <2>6. Performed("sentinel_step", body, r) <=> r < 2
    <3>1. r < 2 => 2 \in r + 1 .. 2
      OBVIOUS
    <3>2. ~ (r < 2) => \A n \in r + 1 .. 2 : FALSE
      OBVIOUS
    <3>3. QED
      BY <2>2, <3>1, <3>2 DEF Performed
  <2>7. ~ Has(StepName \ OwnSteps(t, h), s)
    BY <1>6, <2>1, <2>4
  <2>8. Has({"sentinel_step"}, s) <=> r < 2
    BY <1>6, <2>6 DEF StepName
  <2>9. Has({"effect_step", "dbos_step_output_committed_before_resume"}, s) => r = 0
    <3>1. ASSUME NEW step \in StepName,
                 Has({"effect_step", "dbos_step_output_committed_before_resume"},
                     StepProgram(step))
          PROVE  step = "effect_step"
      <4> DEFINE p == StepProgram(step)
      <4>1. Has({"effect_step"}, p) \/ Has({"dbos_step_output_committed_before_resume"}, p)
        BY <3>1 DEF Has
      <4>2. {"effect_step"} \subseteq StepName
        BY DEF StepName
      <4>3. QED
        BY <4>1, <4>2, StepRecords
    <3>2. QED
      BY <1>2, <1>5, <2>5, <3>1
  <2>10. QED
    BY <1>4, <1>7, <1>9, <2>7, <2>8, <2>9 DEF s
<1>10. QED
  BY <1>8, <1>9

LEMMA TablesBegin ==
  ASSUME NEW t \in Trials, t.engine = "dbos", Judged(t), NEW h, h = "crash_run"
  PROVE  TableRows(t, h, DbosCrashRun(t), DbosTables(t))
<1> DEFINE d == DbosTables(t)
           w == Workflow(CrashBody(t), 0)
           u == <<"enqueue">>
           v == u \o w
           s == DbosCrashRun(t)
<1>1. d.wf = "absent" /\ d.outputs = << >>
  BY DEF DbosTables
<1>2. /\ ~ Has(StepName \ OwnSteps(t, h), w) /\ Has(ChargeSteps, w)
      /\ Has({"commit_outcome"}, w)
      /\ ~ DuplicateName(t) => Has({"sentinel_step"}, w)
  <2>1. CrashBody(t) = IF h = "crash_run" THEN CrashBody(t) ELSE RecoveryBody(t)
    OBVIOUS
  <2>2. 0 \in Nat /\ 0 < 2
    OBVIOUS
  <2>3. QED
    BY <2>1, <2>2, WorkflowRecords
<1>3. u \in Programs /\ w \in Programs
  <2>1. Spans(Rank, 2, 14, w)
    BY WorkflowSpans
  <2>2. Spans(Rank, 1, 1, u)
    BY StepSpans
  <2>3. QED
    BY <2>1, <2>2 DEF Spans
<1>4. \A X : Has(X, v) <=> "enqueue" \in X \/ Has(X, w)
  <2>1. \A X : Has(X, u) <=> "enqueue" \in X
    BY DEF Has
  <2> HIDE DEF u, w
  <2>2. QED
    BY <1>3, <2>1, HasConcat
<1>5. s = ArmedWith(v, t.barrier) /\ v \in Programs
  BY <1>3 DEF DbosCrashRun, Programs
<1> HIDE DEF u, v, w, s, d
<1>6. \A X : /\ Has(X, s) => Has(X, v)
             /\ X \cap Unarmed(t.barrier) = {} /\ Has(X, v) => Has(X, s)
  BY <1>5, HasArmed
<1>7. ~ Has(StepName \ OwnSteps(t, h), s)
  BY <1>2, <1>4, <1>6 DEF StepName
<1>8. Has(ChargeSteps, s) /\ Has({"enqueue"}, s)
  <2>1. ChargeSteps \cap Unarmed(t.barrier) = {} /\ {"enqueue"} \cap Unarmed(t.barrier) = {}
    BY DbosUnarmed
  <2>2. Has(ChargeSteps, v) /\ Has({"enqueue"}, v)
    BY <1>2, <1>4
  <2>3. QED
    BY <1>6, <2>1, <2>2
<1>9. Has({"commit_outcome"}, s) /\ (~ DuplicateName(t) => Has({"sentinel_step"}, s))
  <2>1. {"commit_outcome"} \cap Unarmed(t.barrier) = {} /\ {"sentinel_step"} \cap Unarmed(t.barrier) = {}
    BY DEF Unarmed, Barrier, HiddenBarrier, HiddenPredictions, ReceiverBarrier
  <2>2. QED
    BY <1>2, <1>4, <1>6, <2>1
<1>10. d.outputs = OutputsOf(t, h, s)
  BY <1>1, <1>8 DEF OutputsOf
<1>11. QED
  BY <1>1, <1>7, <1>8, <1>9, <1>10 DEF TableRows, s, d

\* The rows its barrier left are the ones a recovery goes on from.
LEMMA TablesResume ==
  ASSUME NEW t \in Trials, t.engine = "dbos", Judged(t), NEW h, h # "crash_run",
         NEW d, d.wf = "PENDING", d.outputs = TablesWere(t), NEW s, s = DbosRecoveryRun(t, d)
  PROVE  TableRows(t, h, s, d)
<1> DEFINE r == Len(d.outputs)
           w == Workflow(RecoveryBody(t), r)
<1>1. /\ DuplicateName(t) => d.outputs = << >>
      /\ ~ DuplicateName(t) => d.outputs \in {<< >>, <<"effect_step">>, BothSteps}
  BY JudgedTrials DEF TablesWere, DuplicateName
<1>2. /\ r \in Nat /\ (d.outputs = << >> => r = 0) /\ (d.outputs = <<"effect_step">> => r = 1)
      /\ d.outputs = BothSteps => r = 2
  BY <1>1 DEF BothSteps
<1>3. /\ ~ Has(StepName \ OwnSteps(t, h), w)
      /\ Has(ChargeSteps, w) <=> r = 0
      /\ Has({"commit_outcome"}, w) /\ ~ Has({"enqueue"}, w)
      /\ ~ DuplicateName(t) => /\ Has({"sentinel_step"}, w) <=> r < 2
                               /\ Has({"effect_step",
                                       "dbos_step_output_committed_before_resume"}, w) => r = 0
  <2>1. RecoveryBody(t) = IF h = "crash_run" THEN CrashBody(t) ELSE RecoveryBody(t)
    OBVIOUS
  <2> HIDE DEF r
  <2>2. QED
    BY <1>2, <2>1, WorkflowRecords
<1>4. s = ArmedWith(w, "none") /\ w \in Programs
  <2>1. Spans(Rank, 2, 14, w)
    BY <1>2, WorkflowSpans
  <2>2. QED
    BY <2>1 DEF Spans, DbosRecoveryRun
<1> HIDE DEF r, w
<1>5. \A X : /\ Has(X, s) => Has(X, w)
             /\ X \cap Unarmed("none") = {} /\ Has(X, w) => Has(X, s)
  BY <1>4, HasArmed
<1>6. /\ ChargeSteps \cap Unarmed("none") = {} /\ {"commit_outcome"} \cap Unarmed("none") = {}
      /\ {"sentinel_step"} \cap Unarmed("none") = {}
  BY DEF Unarmed, Barrier, HiddenBarrier, HiddenPredictions, ReceiverBarrier, ChargeSteps
<1>7. /\ ~ Has(StepName \ OwnSteps(t, h), s)
      /\ Has(ChargeSteps, s) <=> r = 0
      /\ Has({"commit_outcome"}, s) /\ ~ Has({"enqueue"}, s)
      /\ ~ DuplicateName(t) => /\ Has({"sentinel_step"}, s) <=> r < 2
                               /\ Has({"effect_step",
                                       "dbos_step_output_committed_before_resume"}, s) => r = 0
  BY <1>3, <1>5, <1>6
<1>8. d.outputs = OutputsOf(t, h, s)
  <2>1. CASE DuplicateName(t)
    BY <1>1, <1>2, <1>7, <2>1 DEF OutputsOf
  <2>2. CASE ~ DuplicateName(t)
    <3>1. d.outputs = << >> \/ d.outputs = <<"effect_step">> \/ d.outputs = BothSteps
      BY <1>1, <2>2
    <3>2. r = 0 \/ r = 1 \/ r = 2
      BY <1>2, <3>1
    <3>3. QED
      BY <1>2, <1>7, <2>2, <3>1, <3>2 DEF OutputsOf
  <2>3. QED
    BY <2>1, <2>2
<1>9. ~ DuplicateName(t) /\ r = 0 => Has({"sentinel_step"}, s)
  BY <1>2, <1>7
<1>10. QED
  BY <1>7, <1>8, <1>9 DEF TableRows

\* The barrier cuts the run with the rows its rule names.
LEMMA TablesCut ==
  ASSUME NEW t \in Trials, t.engine = "dbos", Judged(t), NEW h, NEW s \in Programs, s # << >>,
         Head(s) = t.barrier, NEW d \in DbosDisk, DbosLaid(t, h, s, d), TableRows(t, h, s, d)
  PROVE  d.wf = "PENDING" /\ d.outputs = TablesWere(t)
<1>1. \A X : Has(X, s) <=> Head(s) \in X \/ Has(X, Tail(s))
  BY DbosOnward
<1>2. Has({t.barrier}, s) /\ Sorted(Rank, s)
  BY <1>1 DEF DbosLaid
<1>3. /\ t.barrier \in {"dbos_step_output_uncommitted",
                        "dbos_step_output_committed_before_resume",
                        "dbos_workflow_outcome_uncommitted",
                        "dbos_duplicate_workflow_name_recovery"}
  BY JudgedTrials
<1>4. ~ Has({"enqueue"}, s)
  <2>1. \A x \in {"enqueue"} : x \in Label /\ Rank[x] \in 1 .. Rank[Head(s)]
    BY <1>3, RankTable DEF Label
  <2>2. Head(s) \notin {"enqueue"}
    BY <1>3
  <2>3. QED
    BY <1>2, <2>1, <2>2, SortedPast, RankTyped
<1>5. d.wf = "PENDING"
  BY <1>2, <1>4 DEF TableRows, DbosDisk
<1>6. CASE t.barrier \in {"dbos_step_output_uncommitted", "dbos_duplicate_workflow_name_recovery"}
  <2>1. Has(SendSteps \cup {"b1", "dbos_step_output_uncommitted",
                            "dbos_duplicate_workflow_name_recovery"}, s)
    BY <1>1, <1>6
  <2>2. Has(ChargeSteps, s)
    BY <2>1 DEF DbosLaid
  <2>3. QED
    BY <1>5, <1>6, <2>2 DEF TableRows, OutputsOf, TablesWere, DuplicateName
<1>7. CASE t.barrier = "dbos_step_output_committed_before_resume"
  <2>1. ~ DuplicateName(t)
    BY <1>7 DEF DuplicateName
  <2>2. Has({"sentinel_step"}, s)
    <3>1. Has({"effect_step", "dbos_step_output_committed_before_resume"}, s)
      BY <1>1, <1>7
    <3>2. QED
      BY <2>1, <3>1 DEF TableRows
  <2>3. ~ Has(ChargeSteps, s)
    <3>1. \A x \in ChargeSteps : x \in Label /\ Rank[x] \in 1 .. Rank[Head(s)]
      BY <1>7, RankTable DEF Label, ChargeSteps, StepName
    <3>2. Head(s) \notin ChargeSteps
      BY <1>7 DEF ChargeSteps
    <3>3. QED
      BY <1>2, <3>1, <3>2, SortedPast, RankTyped
  <2>4. QED
    BY <1>5, <1>7, <2>1, <2>2, <2>3 DEF TableRows, OutputsOf, TablesWere
<1>8. CASE t.barrier = "dbos_workflow_outcome_uncommitted"
  <2>1. ~ DuplicateName(t)
    BY <1>8 DEF DuplicateName
  <2>2. ~ Has(ChargeSteps, s) /\ ~ Has({"sentinel_step"}, s)
    <3>1. \A x \in ChargeSteps \cup {"sentinel_step"} :
            x \in Label /\ Rank[x] \in 1 .. Rank[Head(s)]
      BY <1>8, RankTable DEF Label, ChargeSteps, StepName
    <3>2. Head(s) \notin ChargeSteps \cup {"sentinel_step"}
      BY <1>8 DEF ChargeSteps
    <3>3. ~ Has(ChargeSteps \cup {"sentinel_step"}, s)
      BY <1>2, <3>1, <3>2, SortedPast, RankTyped
    <3>4. QED
      BY <3>3 DEF Has
  <2>3. QED
    BY <1>5, <1>8, <2>1, <2>2 DEF TableRows, OutputsOf, TablesWere
<1>9. QED
  BY <1>3, <1>6, <1>7, <1>8

\* A step of a DBOS process records what it does and nothing else.
LEMMA TablesPass ==
  ASSUME NEW t \in Trials, t.engine = "dbos", Judged(t), NEW h, NEW s \in Programs, s # << >>,
         NEW d \in DbosDisk, DbosLaid(t, h, s, d), TableRows(t, h, s, d),
         NEW e, DbosWrites(s, d, e)
  PROVE  TableRows(t, h, Tail(s), e)
<1> DEFINE p == Tail(s)
           x == Head(s)
<1>1. /\ \A X : Has(X, s) <=> x \in X \/ Has(X, p)
      /\ x \in ChargeSteps \cup {"sentinel_step", "commit_outcome"} => ~ Has(ChargeSteps, p)
      /\ x \in StepName => x \notin {"enqueue"} \cup SendSteps
  BY DbosOnward
<1>2. /\ x \in StepName => e.outputs = Append(d.outputs, x)
      /\ x \notin StepName => e.outputs = d.outputs
      /\ x = "enqueue" => e.wf = "PENDING"
      /\ x = "commit_outcome" => e.wf = "SUCCESS"
      /\ x \notin {"enqueue", "commit_outcome"} => e.wf = d.wf
  <2>1. d = [wf |-> d.wf, outputs |-> d.outputs]
    BY DEF DbosDisk
  <2>2. QED
    BY <2>1, DbosWritten DEF DbosWrites
<1>3. Sorted(Rank, s)
  BY DEF DbosLaid
<1>4. ASSUME NEW X, \A y \in X : y \in Label /\ Rank[y] \in 1 .. Rank[x] PROVE ~ Has(X, p)
  BY <1>3, <1>4, SortedPast, RankTyped
<1>5. t.barrier \in {"dbos_step_output_uncommitted", "dbos_step_output_committed_before_resume",
                     "dbos_workflow_outcome_uncommitted",
                     "dbos_duplicate_workflow_name_recovery"}
  BY JudgedTrials
<1>6. ~ Has(StepName \ OwnSteps(t, h), p) /\ (x \in StepName => x \in OwnSteps(t, h))
  BY <1>1 DEF TableRows
<1>7. Has({"enqueue"}, p) <=> e.wf = "absent"
  <2>1. CASE x = "enqueue"
    <3>1. ~ Has({"enqueue"}, p)
      BY <1>4, <2>1, RankTable DEF Label
    <3>2. QED
      BY <1>2, <2>1, <3>1
  <2>2. CASE x = "commit_outcome"
    <3>1. ~ Has({"enqueue"}, p)
      BY <1>4, <2>2, RankTable DEF Label
    <3>2. QED
      BY <1>2, <2>2, <3>1
  <2>3. CASE x \notin {"enqueue", "commit_outcome"}
    BY <1>1, <1>2, <2>3 DEF TableRows
  <2>4. QED
    BY <2>1, <2>2, <2>3
<1>8. Has({"commit_outcome"}, p) <=> e.wf # "SUCCESS"
  <2>1. CASE x = "enqueue"
    <3>1. Has({"enqueue"}, s)
      BY <1>1, <2>1
    <3>2. d.wf = "absent"
      BY <3>1 DEF TableRows
    <3>3. Has({"commit_outcome"}, s)
      BY <3>2 DEF TableRows
    <3>4. QED
      BY <1>1, <1>2, <2>1, <3>3
  <2>2. CASE x = "commit_outcome"
    <3>1. \A y \in {"commit_outcome"} : y \in Label /\ Rank[y] \in 1 .. Rank[x]
      BY <2>2, RankTable DEF Label
    <3>2. ~ Has({"commit_outcome"}, p)
      BY <1>4, <3>1
    <3>3. QED
      BY <1>2, <2>2, <3>2
  <2>3. CASE x \notin {"enqueue", "commit_outcome"}
    BY <1>1, <1>2, <2>3 DEF TableRows
  <2>4. QED
    BY <2>1, <2>2, <2>3
<1>9. Has({t.barrier}, p) => Has({"commit_outcome"}, p)
  <2>1. CASE x = "commit_outcome"
    <3>1. t.barrier \in Label /\ Rank[t.barrier] \in 1 .. 14
      BY <1>5, RankTable, Labels
    <3>2. ~ Has({t.barrier}, p)
      BY <1>4, <2>1, <3>1, RankTable
    <3>3. QED
      BY <3>2
  <2>2. CASE x # "commit_outcome"
    BY <1>1, <2>2 DEF TableRows
  <2>3. QED
    BY <2>1, <2>2
<1>10. ~ DuplicateName(t) /\ Has({"effect_step", "dbos_step_output_committed_before_resume"}, p)
         => Has({"sentinel_step"}, p)
  <2>1. CASE x = "sentinel_step"
    <3>1. \A y \in {"effect_step", "dbos_step_output_committed_before_resume"} :
            y \in Label /\ Rank[y] \in 1 .. Rank[x]
      BY <2>1, RankTable, Labels DEF Label, StepName
    <3>2. QED
      BY <1>4, <3>1
  <2>2. CASE x # "sentinel_step"
    BY <1>1, <2>2 DEF TableRows
  <2>3. QED
    BY <2>1, <2>2
<1>11. e.outputs = OutputsOf(t, h, p)
  <2>1. CASE x \notin StepName
    <3>1. x \notin ChargeSteps /\ x # "sentinel_step"
      BY <2>1 DEF StepName, ChargeSteps
    <3>2. (Has(ChargeSteps, s) <=> Has(ChargeSteps, p))
          /\ (Has({"sentinel_step"}, s) <=> Has({"sentinel_step"}, p))
      BY <1>1, <3>1
    <3>3. QED
      BY <1>2, <2>1, <3>2 DEF TableRows, OutputsOf
  <2>2. CASE x \in ChargeSteps /\ DuplicateName(t)
    <3>1. x = (IF h = "crash_run" THEN "billing_charge" ELSE "shipping_charge")
      BY <1>6, <2>2 DEF OwnSteps, ChargeSteps, StepName
    <3>2. d.outputs = << >> /\ ~ Has(ChargeSteps, p) /\ x \in StepName
      BY <1>1, <2>2 DEF TableRows, OutputsOf, ChargeSteps, StepName
    <3>3. e.outputs = <<x>>
      BY <1>2, <3>2
    <3> HIDE DEF p, x
    <3>4. QED
      BY <2>2, <3>1, <3>2, <3>3 DEF OutputsOf
  <2>3. CASE x \in ChargeSteps /\ ~ DuplicateName(t)
    <3>1. x = "effect_step"
      BY <1>6, <2>3 DEF OwnSteps, ChargeSteps, StepName
    <3>2. d.outputs = << >> /\ ~ Has(ChargeSteps, p) /\ x \in StepName
      BY <1>1, <2>3 DEF TableRows, OutputsOf, ChargeSteps, StepName
    <3>3. Has({"sentinel_step"}, p)
      <4>1. Has({"effect_step", "dbos_step_output_committed_before_resume"}, s)
        BY <1>1, <3>1
      <4>2. Has({"sentinel_step"}, s)
        BY <2>3, <4>1 DEF TableRows
      <4>3. QED
        BY <1>1, <3>1, <4>2
    <3>4. e.outputs = <<"effect_step">>
      BY <1>2, <3>1, <3>2
    <3> HIDE DEF p, x
    <3>5. QED
      BY <2>3, <3>2, <3>3, <3>4 DEF OutputsOf
  <2>4. CASE x \in StepName /\ x \notin ChargeSteps
    <3>1. x = "sentinel_step" /\ ~ DuplicateName(t)
      BY <1>6, <2>4 DEF OwnSteps, ChargeSteps, StepName
    <3>2. Has({"sentinel_step"}, s) /\ ~ Has(ChargeSteps, p) /\ ~ Has(ChargeSteps, s)
      BY <1>1, <2>4, <3>1
    <3>3. d.outputs = <<"effect_step">>
      BY <3>1, <3>2 DEF TableRows, OutputsOf
    <3>4. e.outputs = BothSteps
      BY <1>2, <2>4, <3>1, <3>3 DEF BothSteps
    <3>5. ~ Has({"sentinel_step"}, p)
      BY <1>4, <3>1, RankTable DEF Label, StepName
    <3> HIDE DEF p, x
    <3>6. QED
      BY <3>1, <3>2, <3>4, <3>5 DEF OutputsOf
  <2>5. QED
    BY <2>1, <2>2, <2>3, <2>4
<1>12. QED
  BY <1>6, <1>7, <1>8, <1>9, <1>10, <1>11 DEF TableRows

\* A recovery at its end has the rows its rule names.
LEMMA TablesEnd ==
  ASSUME NEW t, NEW h, h # "crash_run", NEW d, TableRows(t, h, << >>, d)
  PROVE  d.wf = "SUCCESS" /\ d.outputs = TablesAre(t)
<1>1. \A X : ~ Has(X, << >>)
  BY DEF Has
<1>2. QED
  BY <1>1 DEF TableRows, OutputsOf, TablesAre

-----------------------------------------------------------------------------
(***************************************************************************)
(* Temporal's history.                                                     *)
(***************************************************************************)
\* What a hidden trial's history can be, and what it is written as.
LEMMA JudgedHistory ==
  ASSUME NEW t \in Trials, t.engine = "temporal", Judged(t), NEW d, TemporalAt(t, d)
  PROVE  /\ Len(Activities(t)) = 1 /\ d.next \in Nat
         /\ d.act # "none" => d.next = 0
         /\ d.wf \in {"absent", "open", "closed"} /\ d.wft \in {"none", "ready", "taken"}
         /\ d.act \in {"none", "ready", "taken"} /\ d.timedOut \in BOOLEAN
         /\ d = [wf |-> d.wf, wft |-> d.wft, next |-> d.next, act |-> d.act,
                 attempt |-> d.attempt, started |-> d.started, timedOut |-> d.timedOut]
<1>1. Activities(t) = <<"effect">> /\ d \in TemporalDisk /\ d.next \in 0 .. 2
      /\ (d.act # "none" => d.next = 0)
  BY JudgedTrials, WatchedActivity
<1>2. Len(Activities(t)) = 1
  BY <1>1
<1>3. QED
  BY <1>1, <1>2 DEF TemporalDisk

LEMMA HistoryBegins ==
  ASSUME NEW t, NEW h, h = "crash_run"
  PROVE  HistoryRows(t, h, TemporalCrashRun(t), TemporalHistory(t))
<1> DEFINE s == TemporalCrashRun(t)
<1>1. ~ Has({"tmp_workflow_task_replay"}, s)
  BY DEF Has, TemporalCrashRun
<1>2. QED
  BY <1>1 DEF HistoryRows, TemporalHistory

\* What the barrier left is what a worker that polls goes on from.
LEMMA HistoryResumes ==
  ASSUME NEW t, NEW h, h # "crash_run", NEW d, HistoryWas(t, d), NEW s, s = <<"poll">>
  PROVE  HistoryRows(t, h, s, d)
<1>1. ~ Has({"tmp_workflow_task_replay"}, s)
  BY DEF Has
<1>2. CASE Replays(t)
  BY <1>1, <1>2 DEF HistoryRows, HistoryWas
<1>3. CASE ~ Replays(t)
  BY <1>1, <1>3 DEF HistoryRows, HistoryWas
<1>4. QED
  BY <1>2, <1>3

LEMMA HistoryPass ==
  ASSUME NEW t \in Trials, t.engine = "temporal", Judged(t), NEW h, NEW s \in Programs, s # << >>,
         NEW d, TemporalAt(t, d), Laid(t, h, s, d), HistoryRows(t, h, s, d),
         NEW e, TemporalWrites(t, s, d, e)
  PROVE  HistoryRows(t, h, Tail(s), e)
<1> DEFINE p == Tail(s)
           x == Head(s)
<1>1. TemporalLaid(s, d)
  BY LaidTemporal
<1>2. \A X : Has(X, s) <=> x \in X \/ Has(X, p)
  BY <1>1, TemporalOnward
<1>3. Len(Activities(t)) = 1 /\ d.next \in Nat /\ (d.act # "none" => d.next = 0)
      /\ d = [wf |-> d.wf, wft |-> d.wft, next |-> d.next, act |-> d.act,
              attempt |-> d.attempt, started |-> d.started, timedOut |-> d.timedOut]
  BY JudgedHistory
<1>4. x # "poll" => s # <<"poll">>
  OBVIOUS
<1> HIDE DEF p, x
<1>5. CASE x \notin {"start_workflow", "poll", "decide", "report"}
  <2>1. e = d
    BY <1>5 DEF TemporalWrites, x
  <2>2. (Has({"report"}, s) <=> Has({"report"}, p)) /\ (Has({"decide"}, s) <=> Has({"decide"}, p))
        /\ (Has({"tmp_workflow_task_replay"}, p) => Has({"tmp_workflow_task_replay"}, s))
    BY <1>2, <1>5
  <2>3. s # <<"poll">>
    BY <1>4, <1>5
  <2>4. QED
    BY <2>1, <2>2, <2>3 DEF HistoryRows, p
<1>6. CASE x = "start_workflow"
  <2>1. e = [d EXCEPT !.wf = "open", !.wft = "ready"]
    BY <1>6 DEF TemporalWrites, x
  <2>2. (Has({"report"}, s) <=> Has({"report"}, p)) /\ (Has({"decide"}, s) <=> Has({"decide"}, p))
        /\ (Has({"tmp_workflow_task_replay"}, p) => Has({"tmp_workflow_task_replay"}, s))
    BY <1>2, <1>6
  <2>3. /\ e.wf = "open" /\ e.wft = "ready" /\ e.next = d.next /\ e.act = d.act
        /\ e.attempt = d.attempt /\ e.started = d.started /\ e.timedOut = d.timedOut
    BY <1>3, <2>1
  <2>4. s # <<"poll">>
    BY <1>4, <1>6
  <2>5. QED
    BY <2>2, <2>3, <2>4 DEF HistoryRows, p
<1>7. CASE x = "decide"
  <2>1. e = IF d.next < 1
              THEN [d EXCEPT !.wft = "none", !.act = "ready", !.attempt = 1]
              ELSE [d EXCEPT !.wft = "none", !.wf = "closed"]
    BY <1>3, <1>7 DEF TemporalWrites, x
  <2>2. (Has({"report"}, s) <=> Has({"report"}, p)) /\ ~ Has({"tmp_workflow_task_replay"}, p)
    <3>1. \A y \in {"tmp_workflow_task_replay"} : y \in Label /\ Rank[y] \in 1 .. Rank[Head(s)]
      BY <1>7, RankTable, Labels DEF x
    <3>2. ~ Has({"tmp_workflow_task_replay"}, Tail(s))
      BY <1>1, <3>1, SortedPast, RankTyped DEF TemporalLaid
    <3>3. QED
      BY <1>2, <1>7, <3>2 DEF p
  <2>3. /\ e.wft = "none" /\ e.next = d.next
        /\ e.started = d.started /\ e.timedOut = d.timedOut
        /\ d.next = 0 => e.attempt = 1
        /\ e.act \in {"ready", d.act}
    BY <1>3, <2>1
  <2>4. s # <<"poll">>
    BY <1>4, <1>7
  <2>5. QED
    BY <2>2, <2>3, <2>4 DEF HistoryRows, p
<1>8. CASE x = "report"
  <2>1. d.act = "taken" /\ d.next = 0 /\ d.wf # "closed" /\ d.attempt = 1
    <3>1. Has({"report"}, s)
      BY <1>2, <1>8
    <3>2. d.act = "taken"
      BY <1>1, <3>1 DEF TemporalLaid
    <3>3. d.next = 0
      BY <1>3, <3>2
    <3>4. QED
      BY <1>1, <3>2, <3>3 DEF TemporalLaid, HistoryRows
  <2>2. e = [d EXCEPT !.next = @ + 1, !.act = "none", !.wft = "ready", !.started = d.attempt]
    BY <1>8, <2>1 DEF TemporalWrites, x
  <2>3. /\ e.wf = d.wf /\ e.wft = "ready" /\ e.next = 1 /\ e.act = "none" /\ e.started = 1
        /\ e.timedOut = d.timedOut
    BY <1>3, <2>1, <2>2
  <2>4. (Has({"decide"}, s) <=> Has({"decide"}, p))
        /\ (Has({"tmp_workflow_task_replay"}, p) => Has({"tmp_workflow_task_replay"}, s))
    BY <1>2, <1>8
  <2>5. QED
    BY <2>1, <2>3, <2>4 DEF HistoryRows, p
<1>9. CASE x = "poll"
  <2>1. e = d /\ d.wf = "closed"
    BY <1>9 DEF TemporalWrites, x
  <2>2. (Has({"report"}, s) <=> Has({"report"}, p)) /\ (Has({"decide"}, s) <=> Has({"decide"}, p))
        /\ (Has({"tmp_workflow_task_replay"}, p) => Has({"tmp_workflow_task_replay"}, s))
    BY <1>2, <1>9
  <2>3. QED
    BY <2>1, <2>2 DEF HistoryRows, p
<1>10. QED
  BY <1>5, <1>6, <1>7, <1>8, <1>9

\* A worker that takes a task is to answer it.
LEMMA HistoryTakes ==
  ASSUME NEW t \in Trials, t.engine = "temporal", Judged(t), NEW h, NEW s \in Programs, s # << >>,
         Head(s) = "poll", NEW d, TemporalAt(t, d), Laid(t, h, s, d), HistoryRows(t, h, s, d),
         NEW b, b = t.barrier \/ b = "none", NEW p, NEW e, TemporalTaken(t, b, s, d, p, e)
  PROVE  HistoryRows(t, h, p, e)
<1>1. TemporalLaid(s, d) /\ Sorted(Rank, s)
  BY LaidTemporal DEF TemporalLaid
<1>2. ~ Has({"tmp_workflow_task_replay"}, s)
  <2>1. \A y \in {"tmp_workflow_task_replay"} : y \in Label /\ Rank[y] \in 1 .. Rank[Head(s)]
    BY RankTable, Labels
  <2>2. Head(s) \notin {"tmp_workflow_task_replay"}
    OBVIOUS
  <2>3. QED
    BY <1>1, <2>1, <2>2, SortedPast, RankTyped
<1>3. (d.act # "none" => d.next = 0)
      /\ d = [wf |-> d.wf, wft |-> d.wft, next |-> d.next, act |-> d.act,
              attempt |-> d.attempt, started |-> d.started, timedOut |-> d.timedOut]
  BY JudgedHistory
<1>4. ASSUME d.wft = "ready", e = [d EXCEPT !.wft = "taken"],
             p = ArmedWith(<<"tmp_workflow_task_replay", "decide">>, b) \o s
      PROVE  HistoryRows(t, h, p, e)
  <2> DEFINE v == <<"tmp_workflow_task_replay", "decide">>
             u == ArmedWith(v, b)
  <2>1. v \in Programs /\ Has({"decide"}, v)
    <3>1. v[2] = "decide" /\ Len(v) = 2
      OBVIOUS
    <3>2. QED
      BY <3>1, Labels DEF Programs, Has, Label
  <2>2. {"decide"} \cap Unarmed(b) = {}
    BY DEF Unarmed, Barrier, HiddenBarrier, HiddenPredictions, ReceiverBarrier
  <2>3. u \in Programs
    BY TasksRanked DEF Spans
  <2>a. p = u \o s
    BY <1>4
  <2> HIDE DEF v
  <2>4. Has({"decide"}, u)
    BY <2>1, <2>2, HasArmed
  <2> HIDE DEF u
  <2>5. Has({"decide"}, p) /\ (Has({"report"}, s) => Has({"report"}, p))
    BY <2>3, <2>4, <2>a, HasConcat
  <2>6. /\ e.wf = d.wf /\ e.wft = "taken" /\ e.next = d.next /\ e.act = d.act
        /\ e.attempt = d.attempt /\ e.started = d.started /\ e.timedOut = d.timedOut
    BY <1>3, <1>4
  <2>7. QED
    BY <1>4, <2>5, <2>6 DEF HistoryRows
<1>5. ASSUME d.act = "ready", e = [d EXCEPT !.act = "taken"],
             p = ArmedWith(IF Activities(t)[d.next + 1] = "effect"
                             THEN <<"b0", "send", "await", "b1", "report">>
                             ELSE <<"b2", "report">>, b) \o s
      PROVE  HistoryRows(t, h, p, e)
  <2>1. PICK v \in {<<"b0", "send", "await", "b1", "report">>, <<"b2", "report">>} :
          p = ArmedWith(v, b) \o s
    BY <1>5
  <2> DEFINE u == ArmedWith(v, b)
  <2>2. u \in Programs /\ Has({"report"}, u) /\ ~ Has({"tmp_workflow_task_replay"}, u)
    <3>1. /\ ~ Has({"tmp_workflow_task_replay"}, <<"b0", "send", "await", "b1", "report">>)
          /\ ~ Has({"tmp_workflow_task_replay"}, <<"b2", "report">>)
      BY DEF Has
    <3>2. /\ <<"b0", "send", "await", "b1", "report">> \in Programs
          /\ <<"b2", "report">> \in Programs
      BY Labels DEF Programs
    <3>3. QED
      BY <2>1, <3>1, <3>2, HasArmed, TasksRanked DEF Spans
  <2>a. p = u \o s
    BY <2>1
  <2> HIDE DEF u
  <2>3. Has({"report"}, p) /\ ~ Has({"tmp_workflow_task_replay"}, p)
        /\ (Has({"decide"}, s) => Has({"decide"}, p))
    BY <1>2, <2>2, <2>a, HasConcat
  <2>4. /\ e.wf = d.wf /\ e.wft = d.wft /\ e.next = d.next
        /\ e.attempt = d.attempt /\ e.started = d.started /\ e.timedOut = d.timedOut
    BY <1>3, <1>5
  <2>5. d.next = 0
    BY <1>3, <1>5
  <2>6. QED
    BY <2>3, <2>4, <2>5 DEF HistoryRows
<1>6. QED
  BY <1>4, <1>5 DEF TemporalTaken

\* The barrier cuts the run with the history its rule names.
LEMMA HistoryCut ==
  ASSUME NEW t \in Trials, t.engine = "temporal", Judged(t), NEW h, h = "crash_run",
         NEW s \in Programs, s # << >>,
         NEW d, TemporalAt(t, d), Laid(t, h, s, d), HistoryRows(t, h, s, d),
         Has({"decide"}, s) => d.wft = "taken",
         \/ Head(s) = t.barrier /\ (t.barrier = "tmp_workflow_task_replay" => d.next = 1)
         \/ /\ Head(s) = "poll" /\ d.act = "ready"
            /\ t.barrier = "tmp_activity_scheduled_before_worker_poll"
  PROVE  HistoryWas(t, d)
<1>1. TemporalLaid(s, d) /\ Sorted(Rank, s)
  BY LaidTemporal DEF TemporalLaid
<1>2. \A X : Has(X, s) <=> Head(s) \in X \/ Has(X, Tail(s))
  BY <1>1, TemporalOnward
<1>3. /\ d.act # "none" => d.next = 0
      /\ d.act \in {"none", "ready", "taken"} /\ d.timedOut \in BOOLEAN
  BY JudgedHistory
<1>4. CASE Head(s) = t.barrier /\ (t.barrier = "tmp_workflow_task_replay" => d.next = 1)
  <2>1. t.barrier = "tmp_workflow_task_replay"
    <3>1. ~ Has({"tmp_activity_scheduled_before_worker_poll"}, s)
      BY <1>1 DEF TemporalLaid
    <3>2. QED
      BY <1>2, <1>4, <3>1, JudgedTrials
  <2>2. Has({"tmp_workflow_task_replay"}, s) /\ d.next = 1
    BY <1>2, <1>4, <2>1
  <2>3. Has({"decide"}, s) /\ d.wft = "taken" /\ d.wf # "closed"
    BY <2>2 DEF HistoryRows
  <2>4. d.act = "none" /\ ~ d.timedOut /\ d.started = 1
    BY <1>3, <2>2 DEF HistoryRows
  <2>5. QED
    BY <2>1, <2>2, <2>3, <2>4 DEF HistoryWas, Replays
<1>5. CASE /\ Head(s) = "poll" /\ d.act = "ready"
           /\ t.barrier = "tmp_activity_scheduled_before_worker_poll"
  <2>1. d.next = 0 /\ d.started = 0 /\ d.attempt = 1 /\ ~ d.timedOut
    BY <1>3, <1>5 DEF HistoryRows
  <2>2. ~ Has({"decide"}, s)
    <3>1. \A y \in {"decide"} : y \in Label /\ Rank[y] \in 1 .. Rank[Head(s)]
      BY <1>5, RankTable DEF Label
    <3>2. Head(s) \notin {"decide"}
      BY <1>5
    <3>3. QED
      BY <1>1, <3>1, <3>2, SortedPast, RankTyped
  <2>3. d.wft # "taken" /\ d.wf # "closed"
    BY <1>1, <2>1, <2>2 DEF HistoryRows, TemporalLaid
  <2>4. QED
    BY <1>5, <2>1, <2>3 DEF HistoryWas, Replays
<1>6. QED
  BY <1>4, <1>5

LEMMA HistoryEnd ==
  ASSUME NEW t, NEW h, h # "crash_run", NEW d, TemporalLaid(<< >>, d), HistoryRows(t, h, << >>, d),
         d.timedOut \in BOOLEAN
  PROVE  d.started = 1 /\ d.timedOut = Replays(t) /\ d.wft # "taken"
<1>1. \A X : ~ Has(X, << >>)
  BY DEF Has
<1>2. d.next # 0
  BY <1>1 DEF TemporalLaid
<1>3. << >> # <<"poll">>
  OBVIOUS
<1>4. QED
  BY <1>1, <1>2, <1>3 DEF HistoryRows, Replays

\* What times out where nobody works on it is the task the barrier left.
LEMMA HistoryTimesOut ==
  ASSUME NEW t \in Trials, t.engine = "temporal", Judged(t), NEW h, NEW s, NEW d, TemporalAt(t, d),
         HistoryRows(t, h, s, d), NEW e,
         \/ /\ d.wft = "taken" /\ ~ Has({"decide"}, s)
            /\ e = [d EXCEPT !.wft = "ready", !.timedOut = TRUE]
         \/ /\ d.act = "taken" /\ ~ Has({"report"}, s)
            /\ e = [d EXCEPT !.act = "ready", !.attempt = @ + 1]
  PROVE  HistoryRows(t, h, s, e)
<1>1. d = [wf |-> d.wf, wft |-> d.wft, next |-> d.next, act |-> d.act,
           attempt |-> d.attempt, started |-> d.started, timedOut |-> d.timedOut]
  BY JudgedHistory
<1>2. d.wft = "taken" /\ ~ Has({"decide"}, s) /\ e = [d EXCEPT !.wft = "ready", !.timedOut = TRUE]
  BY DEF HistoryRows
<1>3. /\ e.wf = d.wf /\ e.wft = "ready" /\ e.next = d.next /\ e.act = d.act
      /\ e.attempt = d.attempt /\ e.started = d.started /\ e.timedOut
  BY <1>1, <1>2
<1>4. h # "crash_run" /\ Replays(t) /\ d.wf # "closed"
  BY <1>2 DEF HistoryRows
<1>5. QED
  BY <1>2, <1>3, <1>4 DEF HistoryRows

\* After the crash only the task it took times out, and after the recovery nothing
\* that the rule speaks of does.
LEMMA LeftTimesOut ==
  ASSUME NEW t \in Trials, t.engine = "temporal", Judged(t), NEW d, TemporalAt(t, d), NEW e,
         \/ d.wft = "taken" /\ e = [d EXCEPT !.wft = "ready", !.timedOut = TRUE]
         \/ d.act = "taken" /\ e = [d EXCEPT !.act = "ready", !.attempt = @ + 1]
  PROVE  /\ HistoryWas(t, d) => HistoryWas(t, e)
         /\ d.wft # "taken" => /\ e.started = d.started /\ e.timedOut = d.timedOut
                               /\ e.wft = d.wft
<1>1. d = [wf |-> d.wf, wft |-> d.wft, next |-> d.next, act |-> d.act,
           attempt |-> d.attempt, started |-> d.started, timedOut |-> d.timedOut]
  BY JudgedHistory
<1>2. CASE d.wft = "taken" /\ e = [d EXCEPT !.wft = "ready", !.timedOut = TRUE]
  <2>1. /\ e.wf = d.wf /\ e.wft = "ready" /\ e.next = d.next /\ e.act = d.act
        /\ e.attempt = d.attempt /\ e.started = d.started /\ e.timedOut
    BY <1>1, <1>2
  <2>2. QED
    BY <1>2, <2>1 DEF HistoryWas
<1>3. CASE d.act = "taken" /\ e = [d EXCEPT !.act = "ready", !.attempt = @ + 1]
  <2>1. e.started = d.started /\ e.timedOut = d.timedOut /\ e.wft = d.wft
    BY <1>1, <1>3
  <2>2. QED
    BY <1>3, <2>1 DEF HistoryWas
<1>4. QED
  BY <1>2, <1>3

-----------------------------------------------------------------------------
(***************************************************************************)
(* TrueForge's turns.                                                      *)
(***************************************************************************)
\* What each of its writes makes of the first turn and of the next.
LEMMA TurnFields ==
  ASSUME NEW d \in TrueForgeDisk
  PROVE  /\ d.first = [events |-> d.first.events, status |-> d.first.status]
         /\ d.retry = [events |-> d.retry.events, status |-> d.retry.status]
         /\ d = [answered |-> d.answered, marker |-> d.marker, first |-> d.first,
                 retry |-> d.retry]
BY DEF TrueForgeDisk, Turn

LEMMA FirstLogged ==
  ASSUME NEW d \in TrueForgeDisk, NEW event, NEW e,
         e = [d EXCEPT !["first"].events = @ \cup {event}]
  PROVE  /\ e.first.status = d.first.status /\ e.first.events = d.first.events \cup {event}
         /\ e.marker = d.marker
<1>1. /\ d.first = [events |-> d.first.events, status |-> d.first.status]
      /\ d.retry = [events |-> d.retry.events, status |-> d.retry.status]
      /\ d = [answered |-> d.answered, marker |-> d.marker, first |-> d.first,
              retry |-> d.retry]
  BY TurnFields
<1>2. e.marker = d.marker /\ e.first = [events |-> d.first.events \cup {event},
                                        status |-> d.first.status]
  BY <1>1
<1>3. QED
  BY <1>2

LEMMA NextLogged ==
  ASSUME NEW d \in TrueForgeDisk, NEW event, NEW e,
         e = [d EXCEPT !["retry"].events = @ \cup {event}]
  PROVE  e.first = d.first /\ e.retry.status = d.retry.status /\ e.marker = d.marker
<1>1. /\ d.first = [events |-> d.first.events, status |-> d.first.status]
      /\ d.retry = [events |-> d.retry.events, status |-> d.retry.status]
      /\ d = [answered |-> d.answered, marker |-> d.marker, first |-> d.first,
              retry |-> d.retry]
  BY TurnFields
<1>2. e.marker = d.marker /\ e.first = d.first
      /\ e.retry = [events |-> d.retry.events \cup {event}, status |-> d.retry.status]
  BY <1>1
<1>3. QED
  BY <1>2

LEMMA FirstMade ==
  ASSUME NEW d \in TrueForgeDisk, NEW e,
         e = [d EXCEPT !.first.status = IF @ = "running" THEN "cancelled" ELSE @,
                       !["first"] = [events |-> {"turn.created"}, status |-> "running"]]
  PROVE  e.first.events = {"turn.created"} /\ e.first.status = "running"
<1>1. /\ d.first = [events |-> d.first.events, status |-> d.first.status]
      /\ d.retry = [events |-> d.retry.events, status |-> d.retry.status]
      /\ d = [answered |-> d.answered, marker |-> d.marker, first |-> d.first,
              retry |-> d.retry]
  BY TurnFields
<1>2. e.first = [events |-> {"turn.created"}, status |-> "running"]
  BY <1>1
<1>3. QED
  BY <1>2

LEMMA NextMade ==
  ASSUME NEW d \in TrueForgeDisk, NEW e,
         e = [d EXCEPT !.first.status = IF @ = "running" THEN "cancelled" ELSE @,
                       !["retry"] = [events |-> {"turn.created"}, status |-> "running"]],
         d.first.status \in {"running", "cancelled"}
  PROVE  e.first.status = "cancelled" /\ e.marker = d.marker
<1>1. /\ d.first = [events |-> d.first.events, status |-> d.first.status]
      /\ d.retry = [events |-> d.retry.events, status |-> d.retry.status]
      /\ d = [answered |-> d.answered, marker |-> d.marker, first |-> d.first,
              retry |-> d.retry]
  BY TurnFields
<1>2. e.marker = d.marker
      /\ e.first = [events |-> d.first.events,
                    status |-> IF d.first.status = "running" THEN "cancelled"
                               ELSE d.first.status]
  BY <1>1
<1>3. QED
  BY <1>2

LEMMA TurnEnded ==
  ASSUME NEW d \in TrueForgeDisk, NEW e, e = [d EXCEPT !["retry"].status = "done"]
  PROVE  e.first = d.first /\ e.retry.status = "done" /\ e.marker = d.marker
<1>1. /\ d.retry = [events |-> d.retry.events, status |-> d.retry.status]
      /\ d = [answered |-> d.answered, marker |-> d.marker, first |-> d.first,
              retry |-> d.retry]
  BY DEF TrueForgeDisk, Turn
<1>2. QED
  BY <1>1

\* A response ends its turn, and one that calls the tool asks the model first.
LEMMA ResponseHas ==
  ASSUME NEW d, NEW w, w = ModelResponse(d)
  PROVE  /\ Has({"turn_done"}, w)
         /\ "tool.response" \notin d.first.events =>
              Has({"model.message"}, w) /\ Has({ReceiverBarrier}, w)
<1>1. CASE "tool.response" \in d.first.events
  <2>1. Len(w) = 1 /\ w[1] = "turn_done"
    BY <1>1 DEF ModelResponse
  <2>2. QED
    BY <1>1, <2>1 DEF Has
<1>2. CASE "tool.response" \notin d.first.events
  <2>1. Len(w) = 6 /\ w[1] = "model.message" /\ w[4] = ReceiverBarrier /\ w[6] = "turn_done"
    BY <1>2 DEF ModelResponse
  <2>2. 1 \in 1 .. Len(w) /\ 4 \in 1 .. Len(w) /\ 6 \in 1 .. Len(w)
    BY <2>1
  <2>3. QED
    BY <2>1, <2>2 DEF Has
<1>3. QED
  BY <1>1, <1>2

LEMMA TurnCreated ==
  ASSUME NEW h, NEW s \in Programs, s # << >>, Head(s) = "create_turn",
         NEW d \in TrueForgeDisk, TrueForgeLaid(h, s, d), TurnRows(h, s, d),
         NEW k, k = IF h = "crash_run" THEN "first" ELSE "retry", NEW e,
         e = [d EXCEPT !.first.status = IF @ = "running" THEN "cancelled" ELSE @,
                       ![k] = [events |-> {"turn.created"}, status |-> "running"]],
         NEW order \in Interleavings(<<"answer_create">>, ModelResponse(d))
  PROVE  TurnRows(h, order, e)
<1> DEFINE v == <<"answer_create">>
           w == ModelResponse(d)
<1>1. v \in Programs /\ w \in Programs
  BY Labels, OneStepLeft, ResponseRanked
<1>2. \A X : Has(X, order) <=> Has(X, v) \/ Has(X, w)
  BY <1>1, HasMerge
<1>3. Has({"turn_done"}, w) /\ ("tool.response" \notin d.first.events =>
        Has({"model.message"}, w) /\ Has({ReceiverBarrier}, w))
  BY ResponseHas
<1>4. ASSUME h = "crash_run"
      PROVE  e.first.events = {"turn.created"} /\ e.first.status = "running"
  <2>1. e = [d EXCEPT !.first.status = IF @ = "running" THEN "cancelled" ELSE @,
                      !["first"] = [events |-> {"turn.created"}, status |-> "running"]]
    BY <1>4
  <2>2. QED
    BY <2>1, FirstMade
<1>5. ASSUME h # "crash_run", d.first.status \in {"running", "cancelled"}
      PROVE  e.first.status = "cancelled" /\ e.marker = d.marker
  <2>1. e = [d EXCEPT !.first.status = IF @ = "running" THEN "cancelled" ELSE @,
                      !["retry"] = [events |-> {"turn.created"}, status |-> "running"]]
    BY <1>5
  <2>2. QED
    BY <1>5, <2>1, NextMade
<1> HIDE DEF v, w
<1>6. CASE h = "crash_run"
  <2>1. Has({"create_turn"}, s)
    BY HasTail
  <2>2. ~ Has({"kill"}, s) /\ ~ Disarmed(s)
    BY <2>1, Labels, OneStepLeft DEF TrueForgeLaid, Disarmed
  <2>3. "tool.response" \notin d.first.events
    BY <1>6, <2>2 DEF TrueForgeLaid
  <2>4. Has({"model.message"}, order) /\ Has({ReceiverBarrier}, order)
    BY <1>2, <1>3, <2>3
  <2>5. e.first.events = {"turn.created"} /\ e.first.status = "running"
    BY <1>4, <1>6
  <2>6. QED
    BY <1>6, <2>4, <2>5 DEF TurnRows
<1>7. CASE h # "crash_run"
  <2>1. Has({"turn_done"}, order)
    BY <1>2, <1>3
  <2>2. d.first = Orphan \/ d.first.status = "cancelled"
    BY <1>7 DEF TurnRows
  <2>3. s = <<"create_turn">>
    BY HasTail DEF TrueForgeLaid
  <2>4. CASE d.first = Orphan
    <3>1. e.first.status = "cancelled" /\ e.marker = d.marker
      BY <1>5, <1>7, <2>4 DEF Orphan
    <3>2. QED
      BY <1>7, <2>1, <3>1 DEF TurnRows
  <2>5. CASE d.first.status = "cancelled"
    <3>1. e.first.status = "cancelled" /\ e.marker = d.marker
      BY <1>5, <1>7, <2>5
    <3>2. QED
      BY <1>7, <2>1, <3>1 DEF TurnRows
  <2>6. QED
    BY <2>2, <2>4, <2>5
<1>8. QED
  BY <1>6, <1>7

\* A step of server and sidecar that neither creates a turn nor kills.
TurnWrites(h, s, d, e) ==
  LET k == IF h = "crash_run" THEN "first" ELSE "retry" IN
    \/ /\ Head(s) \notin {"model.message", "tool.response", "turn_done", "create_turn", "kill"}
       /\ e.first = d.first /\ e.retry = d.retry /\ e.marker = d.marker
    \/ /\ Head(s) \in {"model.message", "tool.response"}
       /\ e = [d EXCEPT ![k].events = @ \cup {Head(s)}]
    \/ Head(s) = "turn_done" /\ e = [d EXCEPT ![k].status = "done"]

LEMMA TurnPass ==
  ASSUME NEW h, NEW s \in Programs, s # << >>, NEW d \in TrueForgeDisk,
         TrueForgeLaid(h, s, d), TurnRows(h, s, d), NEW e, TurnWrites(h, s, d, e),
         h = "crash_run" => Head(s) # ReceiverBarrier
  PROVE  TurnRows(h, Tail(s), e)
<1> DEFINE p == Tail(s)
           x == Head(s)
<1>1. Sorted(Rank, s) /\ \A X : Has(X, s) <=> x \in X \/ Has(X, p)
  BY TrueForgeOnward DEF TrueForgeLaid
<1>2. x \notin {"create_turn", "kill"}
  BY DEF TurnWrites
<1>3. s # <<"create_turn">> /\ s # <<"kill">>
  BY <1>2
<1>7. CASE h = "crash_run" /\ Disarmed(s)
  <2>1. Disarmed(p)
    BY <1>1, <1>7 DEF Disarmed
  <2>2. QED
    BY <1>7, <2>1 DEF TurnRows
<1>4. CASE h = "crash_run" /\ ~ Disarmed(s)
  <2>1. /\ d.first.status = "running" /\ Has({ReceiverBarrier}, s)
        /\ d.first.events = {"turn.created"}
             \cup IF Has({"model.message"}, s) THEN {} ELSE {"model.message"}
    BY <1>3, <1>4 DEF TurnRows
  <2>2. Has({ReceiverBarrier}, p)
    BY <1>1, <1>4, <2>1
  <2>3. x \notin {"tool.response", "turn_done"}
    <3>1. ASSUME x \in {"tool.response", "turn_done"}
          PROVE  \A y \in {ReceiverBarrier} : y \in Label /\ Rank[y] \in 1 .. Rank[Head(s)]
      BY <3>1, RankTable, Labels
    <3>2. QED
      BY <1>1, <2>2, <3>1, SortedPast, RankTyped
  <2>4. CASE x = "model.message"
    <3>1. e = [d EXCEPT !["first"].events = @ \cup {"model.message"}]
      BY <1>4, <2>4 DEF TurnWrites
    <3>2. e.first.status = d.first.status
          /\ e.first.events = d.first.events \cup {"model.message"} /\ e.marker = d.marker
      BY <3>1, FirstLogged
    <3>3. ~ Has({"model.message"}, p)
      <4>1. \A y \in {"model.message"} : y \in Label /\ Rank[y] \in 1 .. Rank[Head(s)]
        BY <2>4, RankTable, Labels
      <4>2. QED
        BY <1>1, <4>1, SortedPast, RankTyped
    <3>4. e.first.events = {"turn.created", "model.message"}
      BY <1>1, <2>1, <2>4, <3>2
    <3>5. QED
      BY <1>4, <2>1, <2>2, <3>2, <3>3, <3>4 DEF TurnRows
  <2>5. CASE x # "model.message"
    <3>1. e.first = d.first
      BY <2>3, <2>5 DEF TurnWrites
    <3>2. Has({"model.message"}, s) <=> Has({"model.message"}, p)
      BY <1>1, <2>5
    <3>3. QED
      BY <1>4, <2>1, <2>2, <3>1, <3>2 DEF TurnRows
  <2>6. QED
    BY <2>4, <2>5
<1>5. CASE h # "crash_run"
  <2>1. d.marker /\ d.first.status = "cancelled" /\ (Has({"turn_done"}, s) \/ d.retry.status = "done")
    BY <1>3, <1>5 DEF TurnRows
  <2>2. CASE x = "turn_done"
    <3>1. e = [d EXCEPT !["retry"].status = "done"]
      BY <1>5, <2>2 DEF TurnWrites
    <3>2. e.first = d.first /\ e.retry.status = "done" /\ e.marker = d.marker
      BY <3>1, TurnEnded
    <3>3. QED
      BY <1>5, <2>1, <3>2 DEF TurnRows
  <2>3. CASE x # "turn_done"
    <3>1. e.first.status = d.first.status /\ e.retry.status = d.retry.status
          /\ e.marker = d.marker
      <4>1. CASE x \in {"model.message", "tool.response"}
        <5>1. e = [d EXCEPT !["retry"].events = @ \cup {x}]
          BY <1>5, <4>1 DEF TurnWrites
        <5>2. QED
          BY <5>1, NextLogged
      <4>2. CASE x \notin {"model.message", "tool.response"}
        BY <2>3, <4>2 DEF TurnWrites
      <4>3. QED
        BY <4>1, <4>2
    <3>2. Has({"turn_done"}, s) <=> Has({"turn_done"}, p)
      BY <1>1, <2>3
    <3>3. QED
      BY <1>5, <2>1, <3>1, <3>2 DEF TurnRows
  <2>4. QED
    BY <2>2, <2>3
<1>6. QED
  BY <1>4, <1>5, <1>7

\* A tool that throws leaves its turn to be ended all the same.
LEMMA TurnThrown ==
  ASSUME NEW h, NEW s \in Programs, s # << >>, Head(s) = "await", NEW d,
         TrueForgeLaid(h, s, d), TurnRows(h, s, d), NEW p, p = ArmedWith(Tail(s), "none")
  PROVE  TurnRows(h, p, d)
<1> DEFINE u == Tail(s)
<1>1. /\ u \in Programs /\ \A X : Has(X, s) <=> Head(s) \in X \/ Has(X, u)
      /\ ~ Has({"create_turn", "kill"}, s)
  BY TrueForgeOnward
<1>2. /\ \A X : Has(X, p) => Has(X, u)
      /\ \A X : X \cap Unarmed("none") = {} /\ Has(X, u) => Has(X, p)
      /\ ~ Has(Unarmed("none"), p)
  BY <1>1, HasArmed, ArmedPlaces
<1> HIDE DEF u
<1>3. ~ Has({"create_turn", "kill"}, p)
  BY <1>1, <1>2
<1>4. ReceiverBarrier \in Unarmed("none") /\ {"turn_done"} \cap Unarmed("none") = {}
  BY DEF Unarmed, Barrier, HiddenBarrier, HiddenPredictions, ReceiverBarrier
<1>5. Disarmed(p)
  BY <1>2, <1>3, <1>4 DEF Has, Disarmed
<1>6. Has({"turn_done"}, s) => Has({"turn_done"}, p)
  BY <1>1, <1>2, <1>4
<1>7. s # <<"create_turn">>
  OBVIOUS
<1>8. QED
  BY <1>5, <1>6, <1>7 DEF TurnRows

\* The tool leaves its marker once: the crash run dies of it and the next turn's
\* passes it.
LEMMA TurnStruck ==
  ASSUME NEW h, NEW s \in Programs, s # << >>, Head(s) = ReceiverBarrier,
         NEW d \in TrueForgeDisk, TrueForgeLaid(h, s, d), TurnRows(h, s, d), NEW e,
         e = [d EXCEPT !.marker = TRUE],
         NEW p, p = IF d.marker THEN Tail(s) ELSE <<"kill">>
  PROVE  TurnRows(h, p, e)
<1>1. e.first = d.first /\ e.retry = d.retry /\ e.marker
  BY DEF TrueForgeDisk
<1>2. Sorted(Rank, s) /\ \A X : Has(X, s) <=> Head(s) \in X \/ Has(X, Tail(s))
  BY TrueForgeOnward DEF TrueForgeLaid
<1>3. ReceiverBarrier \notin {"create_turn", "kill", "model.message", "tool.response", "turn_done"}
  BY DEF ReceiverBarrier
<1>4. s # <<"create_turn">> /\ s # <<"kill">>
  BY <1>3
<1>8. ~ Disarmed(s)
  BY HasTail DEF Disarmed
<1>5. CASE h = "crash_run"
  <2>1. ~ d.marker
    <3>1. ~ Has({"kill"}, s)
      BY <1>4 DEF TrueForgeLaid
    <3>2. QED
      BY <1>5, <1>8, <3>1 DEF TrueForgeLaid
  <2>2. p = <<"kill">>
    BY <2>1
  <2>3. ~ Has({"model.message"}, s) /\ ~ Has({"model.message"}, p)
    <3>1. \A y \in {"model.message"} : y \in Label /\ Rank[y] \in 1 .. Rank[Head(s)]
      BY RankTable, Labels
    <3>2. ~ Has({"model.message"}, s)
      BY <1>2, <1>3, <3>1, SortedPast, RankTyped
    <3>3. \A X : Has(X, p) <=> "kill" \in X
      BY <2>2, Labels, OneStepLeft
    <3>4. QED
      BY <3>2, <3>3
  <2>4. d.first.status = "running"
        /\ d.first.events = {"turn.created"} \cup {"model.message"}
    BY <1>4, <1>5, <1>8, <2>3 DEF TurnRows
  <2>5. QED
    BY <1>1, <1>5, <2>2, <2>3, <2>4 DEF TurnRows
<1>6. CASE h # "crash_run"
  <2>1. d.marker /\ d.first.status = "cancelled"
        /\ (Has({"turn_done"}, s) \/ d.retry.status = "done")
    BY <1>4, <1>6 DEF TurnRows
  <2>2. p = Tail(s) /\ (Has({"turn_done"}, s) <=> Has({"turn_done"}, p))
    BY <1>2, <1>3, <2>1
  <2>3. QED
    BY <1>1, <1>6, <2>1, <2>2 DEF TurnRows
<1>7. QED
  BY <1>5, <1>6

\* The server that is killed leaves the orphan, and the next one ends its own turn.
LEMMA TurnCut ==
  ASSUME NEW s \in Programs, s # << >>, Head(s) = "kill", NEW d \in TrueForgeDisk,
         TrueForgeLaid("crash_run", s, d), TurnRows("crash_run", s, d)
  PROVE  d.first = Orphan /\ d.marker
<1>1. s = <<"kill">>
  BY HasTail DEF TrueForgeLaid
<1>2. \A X : Has(X, s) <=> "kill" \in X
  BY <1>1, Labels, OneStepLeft
<1>3. ~ Has({ReceiverBarrier}, s) /\ ~ Has({"model.message"}, s) /\ s # <<"create_turn">>
  BY <1>1, <1>2 DEF ReceiverBarrier
<1>4. d.first.status = "running" /\ d.first.events = {"turn.created"} \cup {"model.message"}
      /\ d.marker
  <2>1. Has({"create_turn", ReceiverBarrier, "kill"}, s)
    BY <1>2
  <2>2. QED
    BY <1>3, <2>1 DEF TurnRows, Disarmed
<1>5. d.first = [events |-> d.first.events, status |-> d.first.status]
  BY DEF TrueForgeDisk, Turn
<1>6. QED
  BY <1>4, <1>5 DEF Orphan

LEMMA TurnEnd ==
  ASSUME NEW h, h # "crash_run", NEW d, TurnRows(h, << >>, d)
  PROVE  d.first.status = "cancelled" /\ d.retry.status = "done"
<1>1. ~ Has({"turn_done"}, << >>) /\ << >> # <<"create_turn">>
  BY DEF Has
<1>2. QED
  BY <1>1 DEF TurnRows

-----------------------------------------------------------------------------
(***************************************************************************)
(* Every step of a judged trial's process keeps what it leaves behind.     *)
(***************************************************************************)
Traced ==
  \/ exit' = "running" /\ Rows(trial, harness, todo', disk')
  \/ exit' = "killed" /\ disk' = disk /\ (harness = "crash_run" => Was(trial, disk))
  \/ exit' = "zero" /\ disk' = disk /\ (harness # "crash_run" => Is(trial, disk))
  \/ exit' = "error" /\ disk' = disk

LEMMA TraceCases ==
  ASSUME NEW t, NEW h, NEW s, NEW d
  PROVE  /\ t.engine = "dbos" => /\ Rows(t, h, s, d) <=> TableRows(t, h, s, d)
                                 /\ Was(t, d) <=> d.wf = "PENDING" /\ d.outputs = TablesWere(t)
                                 /\ Is(t, d) <=> d.wf = "SUCCESS" /\ d.outputs = TablesAre(t)
         /\ t.engine = "temporal" => /\ Rows(t, h, s, d) <=> HistoryRows(t, h, s, d)
                                     /\ Was(t, d) <=> HistoryWas(t, d)
                                     /\ Is(t, d) <=> /\ d.started = 1 /\ d.timedOut = Replays(t)
                                                     /\ d.wft # "taken"
         /\ t.engine = "trueforge" => /\ Rows(t, h, s, d) <=> TurnRows(h, s, d)
                                      /\ Was(t, d) <=> d.first = Orphan /\ d.marker
                                      /\ Is(t, d) <=> /\ d.first.status = "cancelled"
                                                      /\ d.retry.status = "done"
<1>1. CASE t.engine = "dbos"
  BY <1>1, Zenon DEF Rows, Was, Is
<1>2. CASE t.engine = "temporal"
  BY <1>2, Zenon DEF Rows, Was, Is
<1>3. CASE t.engine = "trueforge"
  BY <1>3, Zenon DEF Rows, Was, Is
<1>4. QED
  BY <1>1, <1>2, <1>3

LEMMA DbosTraces ==
  ASSUME trial \in Trials, Judged(trial), trial.engine = "dbos", RunTyped,
         Laid(trial, harness, todo, disk), Rows(trial, harness, todo, disk), exit = "running",
         \/ DbosProcess
         \/ /\ todo # << >> /\ Head(todo) \in SendSteps \cup {"await"}
            /\ todo' = Tail(todo) /\ disk' = disk /\ exit' = "running"
         \/ Return
  PROVE  Traced
<1> DEFINE s == todo
           d == disk
           t == trial
           h == harness
           p == todo'
           e == disk'
<1>1. t \in Trials /\ Judged(t) /\ t.engine = "dbos" /\ s \in Programs /\ d \in DbosDisk
      /\ DbosLaid(t, h, s, d) /\ TableRows(t, h, s, d)
  BY LaidDbos, TraceCases DEF RunTyped, StateAt, DbosAt
<1>2. ASSUME exit' = "running", s # << >>, p = Tail(s), DbosWrites(s, d, e)
      PROVE  Traced
  <2> HIDE DEF s, d, t, h, p, e
  <2>1. TableRows(t, h, p, e)
    BY <1>1, <1>2, TablesPass
  <2>2. Rows(t, h, p, e)
    BY <1>1, <2>1, TraceCases
  <2>3. QED
    BY <1>2, <2>2 DEF Traced, t, h, p, e
<1>3. CASE KillSelf(TRUE)
  <2>1. s # << >> /\ Head(s) = t.barrier /\ exit' = "killed" /\ e = d
    BY <1>3 DEF KillSelf, Running, ExitWith
  <2> HIDE DEF s, d, t, h, p, e
  <2>2. d.wf = "PENDING" /\ d.outputs = TablesWere(t)
    BY <1>1, <2>1, TablesCut
  <2>3. Was(t, d)
    BY <1>1, <2>2, TraceCases
  <2>4. QED
    BY <2>1, <2>3 DEF Traced, d, t, e
<1>4. CASE Enqueue
  <2>1. /\ exit' = "running" /\ s # << >> /\ Head(s) = "enqueue" /\ p = Tail(s)
        /\ e = [d EXCEPT !.wf = "PENDING"]
    BY <1>4 DEF Enqueue, Running, Persists, Advance
  <2>2. QED
    BY <1>2, <2>1 DEF DbosWrites
<1>5. CASE CommitOutcome
  <2>1. /\ exit' = "running" /\ s # << >> /\ Head(s) = "commit_outcome" /\ p = Tail(s)
        /\ e = [d EXCEPT !.wf = "SUCCESS"]
    BY <1>5 DEF CommitOutcome, Running, Persists, Advance
  <2>2. QED
    BY <1>2, <2>1 DEF DbosWrites
<1>6. CASE CommitOutput
  <2>1. PICK step \in StepName : /\ Running(step)
                                 /\ Persists([disk EXCEPT !.outputs = Append(@, step)])
    BY <1>6 DEF CommitOutput
  <2>2. /\ exit' = "running" /\ s # << >> /\ Head(s) = step /\ p = Tail(s)
        /\ e = [d EXCEPT !.outputs = Append(@, Head(s))]
    BY <2>1 DEF Running, Persists, Advance
  <2>3. QED
    BY <1>2, <2>2 DEF DbosWrites
<1>7. CASE Raise("no_workflow")
  BY <1>7 DEF Raise, ExitWith, Traced
<1>8. ASSUME s # << >>, Head(s) \in SendSteps \cup {"await"}, p = Tail(s), e = d,
             exit' = "running"
      PROVE  Traced
  <2>1. DbosWrites(s, d, e)
    BY <1>8 DEF DbosWrites, SendSteps, StepName
  <2>2. QED
    BY <1>2, <1>8, <2>1
<1>9. CASE SendCharge
  <2>1. /\ s # << >> /\ Head(s) \in SendSteps \cup {"await"} /\ p = Tail(s) /\ e = d
        /\ exit' = "running"
    BY <1>9 DEF SendCharge, SendPayload, Running, Advance, SendSteps
  <2>2. QED
    BY <1>8, <2>1
<1>10. CASE Return
  <2>1. exit' = "zero" /\ e = d /\ s = << >>
    BY <1>10 DEF Return, ExitWith
  <2> HIDE DEF s, d, t, h, p, e
  <2>2. h # "crash_run" => d.wf = "SUCCESS" /\ d.outputs = TablesAre(t)
    BY <1>1, <2>1, TablesEnd
  <2>3. h # "crash_run" => Is(t, d)
    BY <1>1, <2>2, TraceCases
  <2>4. QED
    BY <2>1, <2>3 DEF Traced, d, t, h, e
<1>11. QED
  BY <1>3, <1>4, <1>5, <1>6, <1>7, <1>8, <1>9, <1>10 DEF DbosProcess

LEMMA TemporalTraces ==
  ASSUME trial \in Trials, Judged(trial), trial.engine = "temporal", RunTyped, ~ Failures,
         Laid(trial, harness, todo, disk), Rows(trial, harness, todo, disk), exit = "running",
         Has({"decide"}, todo) => disk.wft = "taken",
         \/ TemporalProcess
         \/ /\ todo # << >> /\ Head(todo) \in {"send", "await"}
            /\ todo' = Tail(todo) /\ disk' = disk /\ exit' = "running"
         \/ Return
  PROVE  Traced
<1> DEFINE s == todo
           d == disk
           t == trial
           h == harness
           p == todo'
           e == disk'
<1>1. t \in Trials /\ Judged(t) /\ t.engine = "temporal" /\ s \in Programs
      /\ TemporalAt(t, d) /\ Laid(t, h, s, d) /\ HistoryRows(t, h, s, d)
  BY TraceCases DEF RunTyped, StateAt
<1>2. ASSUME exit' = "running", s # << >>, p = Tail(s), TemporalWrites(t, s, d, e)
      PROVE  Traced
  <2> HIDE DEF s, d, t, h, p, e
  <2>1. HistoryRows(t, h, p, e)
    BY <1>1, <1>2, HistoryPass
  <2>2. Rows(t, h, p, e)
    BY <1>1, <2>1, TraceCases
  <2>3. QED
    BY <1>2, <2>2 DEF Traced, t, h, p, e
<1>3. CASE StartWorkflow
  <2>1. /\ exit' = "running" /\ s # << >> /\ Head(s) = "start_workflow" /\ p = Tail(s)
        /\ e = [d EXCEPT !.wf = "open", !.wft = "ready"]
    BY <1>3 DEF StartWorkflow, Running, Persists, Advance
  <2>2. QED
    BY <1>2, <2>1 DEF TemporalWrites
<1>4. CASE Decide
  <2>1. /\ exit' = "running" /\ s # << >> /\ Head(s) = "decide" /\ p = Tail(s)
        /\ e = IF d.next < Len(Activities(t))
                 THEN [d EXCEPT !.wft = "none", !.act = "ready", !.attempt = 1]
                 ELSE [d EXCEPT !.wft = "none", !.wf = "closed"]
    BY <1>4 DEF Decide, Running, Persists, Advance
  <2>2. QED
    BY <1>2, <2>1 DEF TemporalWrites
<1>5. CASE ReportActivity
  <2>1. /\ exit' = "running" /\ s # << >> /\ Head(s) = "report" /\ p = Tail(s)
        /\ e = IF d.act # "taken" THEN d
               ELSE [d EXCEPT !.next = @ + 1, !.act = "none", !.wft = "ready",
                              !.started = IF d.next = 0 THEN d.attempt ELSE @]
    BY <1>5 DEF ReportActivity, Running, Persists, Advance
  <2>2. QED
    BY <1>2, <2>1 DEF TemporalWrites
<1>6. CASE AwaitResult
  <2>1. CASE Raise("poll")
    BY <2>1 DEF Raise, ExitWith, Traced
  <2>2. CASE ~ Raise("poll")
    <3>1. /\ exit' = "running" /\ s # << >> /\ Head(s) = "poll" /\ p = Tail(s) /\ e = d
          /\ d.wf = "closed"
      BY <1>6, <2>2 DEF AwaitResult, Running, Persists, Advance
    <3>2. QED
      BY <1>2, <3>1 DEF TemporalWrites
  <2>3. QED
    BY <2>1, <2>2
<1>7. ASSUME NEW b, b = t.barrier \/ b = "none", exit' = "running", s # << >>,
             Head(s) = "poll", TemporalTaken(t, b, s, d, p, e)
      PROVE  Traced
  <2> HIDE DEF s, d, t, h, p, e
  <2>1. HistoryRows(t, h, p, e)
    BY <1>1, <1>7, HistoryTakes
  <2>2. Rows(t, h, p, e)
    BY <1>1, <2>1, TraceCases
  <2>3. QED
    BY <1>7, <2>2 DEF Traced, t, h, p, e
<1>8. ASSUME PollWorkflowTask \/ PollActivity
      PROVE  Traced
  <2> DEFINE b == Armed
  <2>1. exit' = "running" /\ s # << >> /\ Head(s) = "poll" /\ TemporalTaken(t, b, s, d, p, e)
    BY <1>8 DEF PollWorkflowTask, PollActivity, Takes, Running, TemporalTaken
  <2>2. b = t.barrier \/ b = "none"
    BY DEF Armed
  <2> HIDE DEF b
  <2>3. QED
    BY <1>7, <2>1, <2>2
<1>9. ASSUME s # << >>, e = d, exit' = "killed",
             \/ Head(s) = t.barrier /\ (t.barrier = "tmp_workflow_task_replay" => d.next = 1)
             \/ /\ Head(s) = "poll" /\ d.act = "ready"
                /\ t.barrier = "tmp_activity_scheduled_before_worker_poll"
      PROVE  Traced
  <2>1. Has({"decide"}, s) => d.wft = "taken"
    OBVIOUS
  <2> HIDE DEF s, d, t, h, p, e
  <2>2. h = "crash_run" => HistoryWas(t, d)
    BY <1>1, <1>9, <2>1, HistoryCut
  <2>3. h = "crash_run" => Was(t, d)
    BY <1>1, <2>2, TraceCases
  <2>4. QED
    BY <1>9, <2>3 DEF Traced, d, t, h, e
<1>10. ASSUME s # << >>, Head(s) \in {"send", "await", t.barrier}, p = Tail(s), e = d,
              exit' = "running"
       PROVE  Traced
  <2>1. Head(s) \notin {"start_workflow", "poll", "decide", "report"}
    BY <1>1, <1>10, JudgedTrials
  <2>2. QED
    BY <1>2, <1>10, <2>1 DEF TemporalWrites
<1>11. CASE TemporalKill
  <2>1. /\ s # << >> /\ Head(s) = t.barrier /\ e = d
        /\ \/ exit' = "killed" /\ (t.barrier = "tmp_workflow_task_replay" => d.next = 1)
           \/ exit' = "running" /\ p = Tail(s)
    BY <1>11 DEF TemporalKill, KillSelf, Running, ExitWith, Advance
  <2>2. QED
    BY <1>9, <1>10, <2>1
<1>12. CASE WatchHistory
  <2>1. /\ s # << >> /\ Head(s) = "poll" /\ e = d /\ exit' = "killed"
        /\ d.act = "ready" /\ Armed = "tmp_activity_scheduled_before_worker_poll"
    BY <1>12 DEF WatchHistory, OnlyWorkflows, Running, ExitWith
  <2>2. t.barrier = "tmp_activity_scheduled_before_worker_poll"
    BY <2>1 DEF Armed
  <2>3. QED
    BY <1>9, <2>1, <2>2
<1>13. ~ TemporalSamplerFails
  BY DEF TemporalSamplerFails
<1>14. CASE Return
  <2>1. exit' = "zero" /\ e = d /\ s = << >>
    BY <1>14 DEF Return, ExitWith
  <2> HIDE DEF s, d, t, h, p, e
  <2>2. TemporalLaid(<< >>, d) /\ HistoryRows(t, h, << >>, d) /\ d.timedOut \in BOOLEAN
    BY <1>1, <2>1, LaidTemporal, JudgedHistory
  <2>3. h # "crash_run" => d.started = 1 /\ d.timedOut = Replays(t) /\ d.wft # "taken"
    BY <2>2, HistoryEnd
  <2>4. h # "crash_run" => Is(t, d)
    BY <1>1, <2>3, TraceCases
  <2>5. QED
    BY <2>1, <2>4 DEF Traced, d, t, h, e
<1>15. QED
  BY <1>3, <1>4, <1>5, <1>6, <1>8, <1>10, <1>11, <1>12, <1>13, <1>14 DEF TemporalProcess

LEMMA TrueForgeTraces ==
  ASSUME trial \in Trials, Judged(trial), trial.engine = "trueforge", RunTyped,
         Laid(trial, harness, todo, disk), Rows(trial, harness, todo, disk), exit = "running",
         \/ TrueForgeProcess
         \/ /\ todo # << >> /\ Head(todo) \in {"send", "await"}
            /\ todo' = Tail(todo) /\ disk' = disk /\ exit' = "running"
         \/ EngineRejects
         \/ Return
  PROVE  Traced
<1> DEFINE s == todo
           d == disk
           t == trial
           h == harness
           p == todo'
           e == disk'
           k == CurrentTurn
<1>1. t \in Trials /\ Judged(t) /\ t.engine = "trueforge" /\ s \in Programs /\ d \in TrueForgeDisk
      /\ TrueForgeLaid(h, s, d) /\ TurnRows(h, s, d) /\ t.barrier = ReceiverBarrier
  BY LaidTrueForge, TraceCases, JudgedTrials DEF RunTyped, StateAt
<1>2. k = IF h = "crash_run" THEN "first" ELSE "retry"
  BY DEF CurrentTurn
<1>3. ASSUME exit' = "running", TurnRows(h, p, e)
      PROVE  Traced
  <2> HIDE DEF s, d, t, h, p, e
  <2>1. Rows(t, h, p, e)
    BY <1>1, <1>3, TraceCases
  <2>2. QED
    BY <1>3, <2>1 DEF Traced, t, h, p, e
<1>4. ASSUME exit' = "running", s # << >>, p = Tail(s), TurnWrites(h, s, d, e),
             Head(s) # ReceiverBarrier
      PROVE  Traced
  <2> HIDE DEF s, d, t, h, p, e
  <2>1. TurnRows(h, p, e)
    BY <1>1, <1>4, TurnPass
  <2>2. QED
    BY <1>3, <1>4, <2>1
<1>5. CASE AnswerCreate
  <2>1. /\ exit' = "running" /\ s # << >> /\ Head(s) = "answer_create" /\ p = Tail(s)
        /\ e = [d EXCEPT !.answered = TRUE]
    BY <1>5 DEF AnswerCreate, Running, Persists, Advance
  <2>2. e.first = d.first /\ e.retry = d.retry /\ e.marker = d.marker
    BY <1>1, <2>1 DEF TrueForgeDisk
  <2>3. QED
    BY <1>4, <2>1, <2>2 DEF TurnWrites, ReceiverBarrier
<1>6. CASE LogEvent
  <2>1. PICK event \in {"model.message", "tool.response"} : Running(event) /\ Logs(event)
    BY <1>6 DEF LogEvent
  <2>2. /\ exit' = "running" /\ s # << >> /\ Head(s) = event /\ p = Tail(s)
        /\ e = [d EXCEPT ![k].events = @ \cup {Head(s)}]
    BY <2>1 DEF Logs, Running, Persists, Advance
  <2> HIDE DEF k, d, s, h, e, p
  <2>3. TurnWrites(h, s, d, e)
    BY <1>2, <2>2 DEF TurnWrites
  <2>4. QED
    BY <1>4, <2>2, <2>3 DEF ReceiverBarrier
<1>7. CASE TurnDone
  <2>1. /\ exit' = "running" /\ s # << >> /\ Head(s) = "turn_done" /\ p = Tail(s)
        /\ e = [d EXCEPT ![k].status = "done"]
    BY <1>7 DEF TurnDone, Running, Persists, Advance
  <2> HIDE DEF k, d, s, h, e, p
  <2>2. TurnWrites(h, s, d, e)
    BY <1>2, <2>1 DEF TurnWrites
  <2>3. QED
    BY <1>4, <2>1, <2>2 DEF ReceiverBarrier
<1>8. CASE CrashOnce
  <2>1. /\ exit' = "running" /\ s # << >> /\ Head(s) = ReceiverBarrier
        /\ p = (IF d.marker THEN Tail(s) ELSE <<"kill">>)
        /\ e = [d EXCEPT !.marker = TRUE]
    BY <1>1, <1>8 DEF CrashOnce, Running
  <2> HIDE DEF s, d, t, h, p, e
  <2>2. TurnRows(h, p, e)
    BY <1>1, <2>1, TurnStruck
  <2>3. QED
    BY <1>3, <2>1, <2>2
<1>9. CASE Kill
  <2>1. s # << >> /\ Head(s) = "kill" /\ e = d /\ exit' = "killed"
    BY <1>9 DEF Kill, Running, ExitWith
  <2> HIDE DEF s, d, t, h, p, e
  <2>2. h = "crash_run" => d.first = Orphan /\ d.marker
    BY <1>1, <2>1, TurnCut
  <2>3. h = "crash_run" => Was(t, d)
    BY <1>1, <2>2, TraceCases
  <2>4. QED
    BY <2>1, <2>3 DEF Traced, d, t, h, e
<1>10. CASE CreateTurn
  <2>1. /\ exit' = "running" /\ s # << >> /\ Head(s) = "create_turn"
        /\ e = [d EXCEPT !.first.status = IF @ = "running" THEN "cancelled" ELSE @,
                         ![k] = [events |-> {"turn.created"}, status |-> "running"]]
    BY <1>10 DEF CreateTurn, Running
  <2>2. PICK order \in Interleavings(<<"answer_create">>, ModelResponse(d)) : p = order
    BY <1>10 DEF CreateTurn
  <2> HIDE DEF k, s, d, t, h, p, e
  <2>3. TurnRows(h, order, e)
    BY <1>1, <1>2, <2>1, TurnCreated, Zenon
  <2>4. QED
    BY <1>3, <2>1, <2>2, <2>3
<1>11. ASSUME s # << >>, Head(s) \in {"send", "await"}, p = Tail(s), e = d, exit' = "running"
       PROVE  Traced
  <2>1. TurnWrites(h, s, d, e) /\ Head(s) # ReceiverBarrier
    BY <1>11 DEF TurnWrites, ReceiverBarrier
  <2>2. QED
    BY <1>4, <1>11, <2>1
<1>12. CASE Return
  <2>1. exit' = "zero" /\ e = d /\ s = << >>
    BY <1>12 DEF Return, ExitWith
  <2> HIDE DEF s, d, t, h, p, e
  <2>2. h # "crash_run" => d.first.status = "cancelled" /\ d.retry.status = "done"
    BY <1>1, <2>1, TurnEnd
  <2>3. h # "crash_run" => Is(t, d)
    BY <1>1, <2>2, TraceCases
  <2>4. QED
    BY <2>1, <2>3 DEF Traced, d, t, h, e
<1>14. CASE EngineRejects
  <2>1. /\ exit' = "running" /\ s # << >> /\ Head(s) = "await" /\ e = d
    BY <1>14, RejectedReply
  <2>2. p = ArmedWith(Tail(s), "none")
    BY <1>1, <1>14 DEF EngineRejects, ToolThrows, RejectReply
  <2> HIDE DEF s, d, t, h, p, e
  <2>3. TurnRows(h, p, d)
    BY <1>1, <2>1, <2>2, TurnThrown
  <2>4. QED
    BY <1>3, <2>1, <2>3
<1>13. QED
  BY <1>5, <1>6, <1>7, <1>8, <1>9, <1>10, <1>11, <1>12, <1>14 DEF TrueForgeProcess

LEMMA TraceSteps ==
  ASSUME EngineTyped, Judged(trial), ~ Failures, Laid(trial, harness, todo, disk),
         Rows(trial, harness, todo, disk), EngineProcess,
         trial.engine = "temporal" /\ Has({"decide"}, todo) => disk.wft = "taken"
  PROVE  Traced
<1>1. trial \in Trials /\ RunTyped /\ exit = "running"
  BY ProcessTyped DEF EngineTyped, HarnessTypeOK
<1>2. ASSUME ReceiveReply \/ \E memo \in Draws : SendEffect(memo, EngineKeyOf(memo))
      PROVE  /\ todo # << >> /\ Head(todo) \in {"send", "await"}
             /\ todo' = Tail(todo) /\ disk' = disk /\ exit' = "running"
  BY <1>1, <1>2 DEF ReceiveReply, SendEffect, SendPayload, Running, Advance
<1>3. ~ EngineSamplerFails
  BY DEF EngineSamplerFails, SamplerFails
<1>4. CASE trial.engine = "dbos"
  <2>1. "send" \in SendSteps
    BY DEF SendSteps
  <2>2. \/ DbosProcess
        \/ /\ todo # << >> /\ Head(todo) \in SendSteps \cup {"await"}
           /\ todo' = Tail(todo) /\ disk' = disk /\ exit' = "running"
        \/ Return
    BY <1>2, <1>3, <1>4, <2>1 DEF EngineProcess
  <2>3. QED
    BY <1>1, <1>4, <2>2, DbosTraces
<1>5. CASE trial.engine = "temporal"
  <2>1. \/ TemporalProcess
        \/ /\ todo # << >> /\ Head(todo) \in {"send", "await"}
           /\ todo' = Tail(todo) /\ disk' = disk /\ exit' = "running"
        \/ Return
    BY <1>2, <1>3, <1>5 DEF EngineProcess
  <2>2. QED
    BY <1>1, <1>5, <2>1, TemporalTraces
<1>6. CASE trial.engine = "trueforge"
  <2>1. \/ TrueForgeProcess
        \/ /\ todo # << >> /\ Head(todo) \in {"send", "await"}
           /\ todo' = Tail(todo) /\ disk' = disk /\ exit' = "running"
        \/ EngineRejects
        \/ Return
    BY <1>2, <1>3, <1>6 DEF EngineProcess, EngineRejects
  <2>2. QED
    BY <1>1, <1>6, <2>1, TrueForgeTraces
<1>7. QED
  BY <1>4, <1>5, <1>6 DEF Judged

LEMMA TraceBegins ==
  ASSUME NEW t \in Trials, Judged(t), NEW h, h = "crash_run", NEW s, s = CrashRun(t),
         NEW d, d = Fresh(t)
  PROVE  Rows(t, h, s, d)
<1>1. CASE t.engine = "dbos"
  <2>1. s = DbosCrashRun(t) /\ d = DbosTables(t)
    BY <1>1 DEF CrashRun, Fresh
  <2>2. QED
    BY <1>1, <2>1, TablesBegin, TraceCases
<1>2. CASE t.engine = "temporal"
  <2>1. s = TemporalCrashRun(t) /\ d = TemporalHistory(t)
    BY <1>2 DEF CrashRun, Fresh
  <2>2. QED
    BY <1>2, <2>1, HistoryBegins, TraceCases
<1>3. CASE t.engine = "trueforge"
  <2>1. s = <<"create_turn">>
    BY <1>3 DEF CrashRun, TrueForgeCrashRun
  <2>2. TurnRows(h, s, d)
    BY <2>1 DEF TurnRows
  <2>3. QED
    BY <1>3, <2>2, TraceCases
<1>4. QED
  BY <1>1, <1>2, <1>3 DEF Judged

LEMMA TraceResumes ==
  ASSUME NEW t \in Trials, Judged(t), NEW h, h # "crash_run", NEW d, Was(t, d),
         NEW s, s = RecoveryRun(t, d)
  PROVE  Rows(t, h, s, d)
<1>1. CASE t.engine = "dbos"
  <2>1. s = DbosRecoveryRun(t, d)
    BY <1>1 DEF RecoveryRun
  <2>2. d.wf = "PENDING" /\ d.outputs = TablesWere(t)
    BY <1>1, TraceCases
  <2>3. TableRows(t, h, s, d)
    BY <1>1, <2>1, <2>2, TablesResume
  <2>4. QED
    BY <1>1, <2>3, TraceCases
<1>2. CASE t.engine = "temporal"
  <2>1. s = <<"poll">>
    BY <1>2 DEF RecoveryRun, TemporalRecoveryRun
  <2>2. HistoryRows(t, h, s, d)
    BY <1>2, <2>1, HistoryResumes, TraceCases
  <2>3. QED
    BY <1>2, <2>2, TraceCases
<1>3. CASE t.engine = "trueforge"
  <2>1. s = <<"create_turn">>
    BY <1>3 DEF RecoveryRun, TrueForgeRecoveryRun
  <2>2. d.first = Orphan /\ d.marker
    BY <1>3, TraceCases
  <2>3. TurnRows(h, s, d)
    BY <2>1, <2>2 DEF TurnRows
  <2>4. QED
    BY <1>3, <2>3, TraceCases
<1>4. QED
  BY <1>1, <1>2, <1>3 DEF Judged

LEMMA TraceTimesOut ==
  ASSUME EngineTyped, Judged(trial), WorkflowTaskTimesOut \/ LostAttemptTimesOut,
         NEW b, TraceAt(trial, harness, exit, todo, disk, b)
  PROVE  /\ UNCHANGED <<trial, harness, before, exit, todo>>
         /\ TraceAt(trial, harness, exit, todo, disk', b)
<1> DEFINE t == trial
           h == harness
           x == exit
           s == todo
           d == disk
           e == disk'
<1>1. /\ t \in Trials /\ Judged(t) /\ t.engine = "temporal" /\ TemporalAt(t, d)
      /\ UNCHANGED <<trial, harness, before, exit, todo>>
      /\ h # "crash_run" => h = "recovery_run"
  BY DEF EngineTyped, HarnessTypeOK, RunTyped, StateAt, WorkflowTaskTimesOut, LostAttemptTimesOut,
         ActivityTimesOut, ServerStep, harnessVars
<1>2. \/ /\ d.wft = "taken" /\ (x = "running" => ~ Has({"decide"}, s))
         /\ e = [d EXCEPT !.wft = "ready", !.timedOut = TRUE]
      \/ /\ d.act = "taken" /\ (x = "running" => ~ Has({"report"}, s))
         /\ e = [d EXCEPT !.act = "ready", !.attempt = @ + 1]
  BY DEF WorkflowTaskTimesOut, LostAttemptTimesOut, ActivityTimesOut, ServerStep, Working, Has
<1>3. TraceAt(t, h, x, s, d, b)
  OBVIOUS
<1> HIDE DEF t, h, x, s, d, e
<1>4. x = "running" => Rows(t, h, s, e)
  <2>1. SUFFICES ASSUME x = "running" PROVE Rows(t, h, s, e)
    OBVIOUS
  <2>2. HistoryRows(t, h, s, d)
    BY <1>1, <1>3, <2>1, TraceCases DEF TraceAt
  <2>3. HistoryRows(t, h, s, e)
    BY <1>1, <1>2, <2>1, <2>2, HistoryTimesOut
  <2>4. QED
    BY <1>1, <2>3, TraceCases
<1>5. (HistoryWas(t, d) => HistoryWas(t, e))
      /\ (d.wft # "taken" => e.started = d.started /\ e.timedOut = d.timedOut
                             /\ e.wft = d.wft)
  BY <1>1, <1>2, LeftTimesOut
<1>6. (Was(t, d) => Was(t, e)) /\ (Is(t, d) => Is(t, e))
  BY <1>1, <1>5, TraceCases
<1>7. TraceAt(t, h, x, s, e, b)
  BY <1>3, <1>4, <1>6 DEF TraceAt
<1>8. QED
  BY <1>1, <1>7 DEF t, h, x, s, e

\* Whatever step is taken, a judged trial leaves what its process has still to do
\* says it does.
LEMMA TraceOKStep ==
  Plain /\ EngineSafe /\ StallOK /\ PlanOK /\ TemporalFine /\ TraceOK /\ [EngineNext]_allVars
    => TraceOK'
<1> SUFFICES ASSUME Plain, EngineSafe, StallOK, PlanOK, TemporalFine, TraceOK,
                    [EngineNext]_allVars, Judged(trial)', (harness \notin {"idle", "failed"})'
             PROVE  TraceAt(trial', harness', exit', todo', disk', before'.disk)
  BY DEF TraceOK
<1>1. CASE TrialStarts
  <2>1. PICK t \in Trials : StartTrial(t, Fresh(t), CrashRun(t))
    BY <1>1 DEF TrialStarts
  <2>2. /\ trial' = t /\ harness' = "crash_run" /\ exit' = "running" /\ todo' = CrashRun(t)
        /\ disk' = Fresh(t) /\ Judged(t)
    BY <2>1 DEF StartTrial, Spawn
  <2>3. Rows(t, harness', todo', disk')
    BY <2>2, TraceBegins
  <2>4. QED
    BY <2>2, <2>3 DEF TraceAt
<1>2. CASE ~ TrialStarts
  <2>1. /\ trial' = trial /\ harness # "idle" /\ Judged(trial) /\ trial \in Trials
    BY <1>2, TrialGoesOn DEF EngineSafe, EngineTyped, HarnessTypeOK
  <2>2. PICK b : b = before.disk
    OBVIOUS
  <2>3. harness # "failed" => TraceAt(trial, harness, exit, todo, disk, b)
    BY <2>1, <2>2 DEF TraceOK
  <2>4. Planned(trial)
    BY <2>1, JudgedTrials
  <2>5. CASE EngineProcess
    <3>1. /\ harness # "failed" /\ harness' = harness /\ before' = before /\ exit = "running"
      BY <2>5, ProcessTyped DEF harnessVars, EngineSafe
    <3>2. Laid(trial, harness, todo, disk)
      BY <2>1, <2>4, <3>1 DEF PlanOK, PlanAt
    <3>3. Rows(trial, harness, todo, disk)
      BY <2>3, <3>1 DEF TraceAt
    <3>4. trial.engine = "temporal" /\ Has({"decide"}, todo) => disk.wft = "taken"
      BY <2>1, JudgedTrials DEF TemporalFine, TemporalOnce
    <3>5. Traced
      BY <2>1, <2>5, <3>2, <3>3, <3>4, TraceSteps DEF Plain, EngineSafe
    <3>6. QED
      BY <2>1, <2>2, <2>3, <3>1, <3>5 DEF Traced, TraceAt
  <2>6. CASE WorkflowTaskTimesOut \/ LostAttemptTimesOut
    <3>1. harness # "failed"
      BY <2>6 DEF WorkflowTaskTimesOut, LostAttemptTimesOut, ActivityTimesOut, ServerStep
    <3>2. QED
      BY <2>1, <2>2, <2>3, <2>6, <3>1, TraceTimesOut DEF EngineSafe
  <2>7. CASE CrashRunEnds(RecoveryRun(trial, disk))
    <3>1. /\ harness = "crash_run" /\ harness' = "recovery_run" /\ exit' = "running"
          /\ todo' = RecoveryRun(trial, disk) /\ before'.disk = disk /\ disk' = disk
          /\ exit = "killed"
      BY <2>7 DEF CrashRunEnds, Spawn, Expected
    <3>2. Was(trial, disk)
      BY <2>3, <3>1 DEF TraceAt
    <3>3. Rows(trial, harness', todo', disk)
      BY <2>1, <3>1, <3>2, TraceResumes
    <3>4. QED
      BY <2>1, <3>1, <3>2, <3>3 DEF TraceAt
  <2>8. CASE RecoveryRunEnds \/ SealLedger \/ ReadDump \/ ClassifyTrial(Verdict)
    <3>1. /\ UNCHANGED <<processVars, before>> /\ exit # "running"
          /\ harness \in {"recovery_run", "seal", "dump", "classify"}
          /\ harness' \in {"seal", "dump", "classify", "classified"}
      BY <2>8 DEF RecoveryRunEnds, SealLedger, ReadDump, ClassifyTrial, Expected,
                  EngineSafe, EngineTyped, PhaseOK
    <3>2. QED
      BY <2>1, <2>2, <2>3, <3>1 DEF TraceAt, processVars
  <2>9. CASE Daemon \/ UNCHANGED allVars
    <3>1. UNCHANGED <<processVars, harnessVars>>
      BY <2>9 DEF Daemon, allVars, trialVars, harnessVars, processVars
    <3>2. QED
      BY <2>1, <2>2, <2>3, <3>1 DEF harnessVars, processVars
  <2>10. ~ RecoveryStalls
    BY <2>4, PlannedNeverStall
  <2>11. ~ GivenUp
    BY DEF GivenUp
  <2>12. QED
    BY <1>2, <2>5, <2>6, <2>7, <2>8, <2>9, <2>10, <2>11, PlainSteps
<1>3. QED
  BY <1>1, <1>2

\* What is judged is what the rule names.
LEMMA TraceShown ==
  ASSUME EngineSafe, StallOK, TraceOK, Judged(trial), harness = "classified"
  PROVE  /\ exit = "zero" /\ Was(trial, before.disk) /\ Is(trial, disk)
         /\ trial.engine \in {"dbos", "temporal"} => Evidence
<1>1. trial \in Trials /\ Planned(trial)
  BY JudgedTrials DEF EngineSafe, EngineTyped, HarnessTypeOK
<1>2. exit = "zero"
  BY <1>1, PlannedNeverStall DEF EngineSafe, EngineTyped, PhaseOK
<1>3. Was(trial, before.disk) /\ Is(trial, disk)
  BY <1>2 DEF TraceOK, TraceAt
<1>4. CASE trial.engine = "dbos"
  <2>1. /\ before.disk.wf = "PENDING" /\ before.disk.outputs = TablesWere(trial)
        /\ disk.wf = "SUCCESS" /\ disk.outputs = TablesAre(trial)
    BY <1>3, <1>4, TraceCases
  <2>2. trial.barrier \in {"dbos_step_output_uncommitted",
                           "dbos_step_output_committed_before_resume",
                           "dbos_workflow_outcome_uncommitted",
                           "dbos_duplicate_workflow_name_recovery"}
    BY <1>1, <1>4, JudgedTrials
  <2>3. DbAgrees
    BY <2>1, <2>2 DEF DbAgrees, TablesWere, TablesAre, BothSteps, DuplicateName
  <2>4. QED
    BY <1>2, <1>3, <1>4, <2>3 DEF Evidence, Judged
<1>5. CASE trial.engine = "temporal"
  <2>1. disk.started = 1 /\ disk.timedOut = Replays(trial)
    BY <1>3, <1>5, TraceCases
  <2>2. HistoryAgrees
    BY <2>1 DEF HistoryAgrees, Replays
  <2>3. QED
    BY <1>2, <1>3, <1>5, <2>2 DEF Evidence, Judged
<1>6. QED
  BY <1>2, <1>3, <1>4, <1>5

-----------------------------------------------------------------------------
(***************************************************************************)
(* What TrueForge's ledger has to show: one crossing when its turn is      *)
(* orphaned, two attempts in the end.                                      *)
(***************************************************************************)
\* The requests of this epoch that were tried under intent i.
Tried(i) == {a \in answers : /\ a.epoch = epoch /\ a.req.intent = i
                             /\ a.status \in {"ok", "no response"}}
TriedOK == \A i \in Intents : attempts[i] = Cardinality(Tried(i))

LEMMA HandleTries ==
  ASSUME NEW req, Handle(req)
  PROVE  \E status \in {"ok", "sealed", "refused", "no response"} :
           /\ Reply(req, status)
           /\ IF status \in {"ok", "no response"} THEN CountAttempt(req.intent)
              ELSE UNCHANGED attempts
<1>1. CASE HandleExecute(req)
  BY <1>1 DEF HandleExecute, Execute
<1>2. CASE HandleSealed(req)
  BY <1>2 DEF HandleSealed, ledgerVars
<1>3. CASE HandleUnhashable(req)
  BY <1>3 DEF HandleUnhashable, ExecuteUnhashable
<1>4. CASE HandleAppendFails(req)
  BY <1>4 DEF HandleAppendFails, ExecuteAppendFails
<1>5. CASE HandleUnprivileged(req)
  BY <1>5 DEF HandleUnprivileged, ledgerVars
<1>6. QED
  BY <1>1, <1>2, <1>3, <1>4, <1>5 DEF Handle

LEMMA HandleTried ==
  ASSUME DaemonTypeOK, AnswersOK, TriedOK, NEW req \in wire, Handle(req)
  PROVE  TriedOK'
<1>1. PICK status \in {"ok", "sealed", "refused", "no response"} :
        /\ Reply(req, status)
        /\ IF status \in {"ok", "no response"} THEN CountAttempt(req.intent)
           ELSE UNCHANGED attempts
  BY HandleTries
<1> DEFINE a == [req |-> req, status |-> status, epoch |-> epoch]
<1>2. a \notin answers /\ answers' = answers \cup {a} /\ epoch' = epoch
  BY <1>1 DEF AnswersOK, Reply
<1>3. a.req = req /\ a.status = status /\ a.epoch = epoch
  OBVIOUS
<1> HIDE DEF a
<1>4. req.intent \in Intents /\ attempts \in [Intents -> Nat]
  BY DEF DaemonTypeOK, LedgerTypeOK, Request
<1>5. SUFFICES ASSUME NEW i \in Intents PROVE attempts'[i] = Cardinality(Tried(i)')
  BY DEF TriedOK
<1>6. attempts[i] = Cardinality(Tried(i)) /\ IsFiniteSet(Tried(i)) /\ a \notin Tried(i)
  <2>1. Tried(i) \in SUBSET answers
    BY DEF Tried
  <2>2. QED
    BY <1>2, <2>1, FS_Subset DEF AnswersOK, TriedOK
<1>7. CASE i = req.intent /\ status \in {"ok", "no response"}
  <2>1. Tried(i)' = Tried(i) \cup {a}
    BY <1>2, <1>3, <1>7 DEF Tried
  <2>2. attempts'[i] = attempts[i] + 1
    BY <1>1, <1>4, <1>7 DEF CountAttempt
  <2>3. QED
    BY <1>6, <2>1, <2>2, FS_AddElement
<1>8. CASE ~ (i = req.intent /\ status \in {"ok", "no response"})
  <2>1. Tried(i)' = Tried(i)
    BY <1>2, <1>3, <1>8 DEF Tried
  <2>2. attempts'[i] = attempts[i]
    BY <1>1, <1>4, <1>8 DEF CountAttempt
  <2>3. QED
    BY <1>6, <2>1, <2>2
<1>9. QED
  BY <1>7, <1>8

LEMMA TriedStep ==
  DaemonTypeOK /\ AnswersOK /\ TriedOK /\ [DaemonNext]_daemonVars => TriedOK'
<1> SUFFICES ASSUME DaemonTypeOK, AnswersOK, TriedOK, [DaemonNext]_daemonVars PROVE TriedOK'
  OBVIOUS
<1>1. ASSUME NEW req \in wire, Handle(req) PROVE TriedOK'
  BY <1>1, HandleTried
<1>2. CASE UNCHANGED <<attempts, answers, epoch>>
  <2>1. \A i : Tried(i)' = Tried(i)
    BY <1>2 DEF Tried
  <2>2. QED
    BY <1>2, <2>1 DEF TriedOK
<1>3. CASE HandleReset
  <2>1. \A a \in answers' : a.epoch # epoch'
    <3>1. answers' = answers /\ epoch' = epoch + 1 /\ epoch \in Nat
      BY <1>3, DaemonAssumption DEF HandleReset, DaemonTypeOK
    <3>2. \A a \in answers : a.epoch \in 0 .. MaxEpochs
      BY DEF DaemonTypeOK, Answer
    <3>3. QED
      BY <3>1, <3>2 DEF AnswersOK
  <2>2. \A i \in Intents : attempts'[i] = 0
    BY <1>3 DEF HandleReset, NewState
  <2>3. \A i : Tried(i)' = {}
    BY <2>1 DEF Tried
  <2>4. QED
    BY <2>2, <2>3, FS_EmptySet DEF TriedOK
<1>4. QED
  BY <1>1, <1>2, <1>3
     DEF DaemonNext, SendExecute, SendControl, Send, HandleSeal, daemonVars, ledgerVars

\* Whatever is tried counts as an attempt, whether or not it crosses.
LEMMA TriedAlways == DaemonSpec => []TriedOK
<1>1. DaemonInit => AnswersOK /\ TriedOK
  <2> SUFFICES ASSUME DaemonInit PROVE AnswersOK /\ TriedOK
    OBVIOUS
  <2>1. AnswersOK
    BY FS_EmptySet DEF DaemonInit, AnswersOK
  <2>2. \A i \in Intents : attempts[i] = 0
    BY DEF DaemonInit, FreshState
  <2>3. \A i : Tried(i) = {}
    BY DEF DaemonInit, Tried
  <2>4. QED
    BY <2>1, <2>2, <2>3, FS_EmptySet DEF TriedOK
<1>2. QED
  BY <1>1, DaemonTypeCorrect, AnswersStep, TriedStep, PTL DEF DaemonSpec

\* No process of it asks twice, and no trial for a third time.
Paired(S) == \E q, r : S \subseteq {q, r}

PairedOK == trial.engine = "trueforge" /\ harness \notin {"idle", "failed"} =>
              /\ Paired(Own)
              /\ exit = "running" /\ Due(trial, todo, disk) => Single(Own)

\* The harness found the orphan's one crossing.
OrphanOK == trial.engine = "trueforge" /\ harness \notin {"idle", "failed", "crash_run"} =>
              before.effects = 1

LEMMA ForgeTrials ==
  ASSUME NEW t \in Trials, t.engine = "trueforge"
  PROVE  /\ Planned(t) /\ t.barrier = ReceiverBarrier /\ t.barrier \in MiddleBarriers
         /\ Judged(t) /\ t.mode \notin AdmissionArms
<1>1. t.mode \notin AdmissionArms /\ t.barrier = ReceiverBarrier
  BY EngineAssumption DEF AdmissionArms
<1>2. QED
  BY <1>1 DEF Planned, Judged, MiddleBarriers, HiddenBarrier

LEMMA SinglePaired ==
  ASSUME NEW S, Single(S)
  PROVE  Paired(S)
<1>1. CASE S = {}
  BY <1>1 DEF Paired
<1>2. CASE S # {}
  <2>1. PICK q : q \in S
    BY <1>2
  <2>2. S \subseteq {q, q}
    BY <2>1 DEF Single
  <2>3. QED
    BY <2>2 DEF Paired
<1>3. QED
  BY <1>1, <1>2

LEMMA SingleMore ==
  ASSUME NEW S, Single(S), NEW r
  PROVE  Paired(S \cup {r})
<1>1. CASE S = {}
  <2>1. S \cup {r} \subseteq {r, r}
    BY <1>1
  <2>2. QED
    BY <2>1 DEF Paired
<1>2. CASE S # {}
  <2>1. PICK q : q \in S
    BY <1>2
  <2>2. S \cup {r} \subseteq {q, r}
    BY <2>1 DEF Single
  <2>3. QED
    BY <2>2 DEF Paired
<1>3. QED
  BY <1>1, <1>2

\* The crash run asks once at most, and with nothing more to ask for once it did.
LEMMA ForgeCrashed ==
  ASSUME EngineSafe, PlanOK, trial.engine = "trueforge", harness = "crash_run"
  PROVE  /\ Single(Own)
         /\ exit = "running" /\ Due(trial, todo, disk) => Own = {}
         /\ exit = "killed" => Ears # {}
<1>1. trial \in Trials /\ Planned(trial) /\ trial.barrier \in MiddleBarriers
  BY ForgeTrials DEF EngineSafe, EngineTyped, HarnessTypeOK
<1>2. PlanAt(trial, harness, exit, todo, disk, before.disk, Own, Ears, request)
  BY <1>1 DEF PlanOK
<1>3. ~ Repeats(trial, harness, before.disk)
  BY DEF Repeats
<1>4. QED
  BY <1>1, <1>2, <1>3 DEF PlanAt, Severed

LEMMA PairedSends ==
  ASSUME EngineSafe, PlanOK, PairedOK, trial.engine = "trueforge", EngineSend
  PROVE  PairedOK'
<1>1. /\ trial \in Trials /\ Planned(trial) /\ exit = "running"
      /\ todo' = Tail(todo) /\ UNCHANGED <<harnessVars, exit, disk>>
      /\ harness \notin {"idle", "failed"}
  BY ForgeTrials, SendMoves
     DEF EngineSafe, EngineTyped, HarnessTypeOK, PhaseOK
<1>2. Laid(trial, harness, todo, disk)
  BY <1>1 DEF PlanOK, PlanAt
<1>3. Due(trial, todo, disk) /\ ~ Due(trial, Tail(todo), disk)
  BY <1>1, <1>2, PlannedSends DEF EngineSafe
<1>4. Single(Own)
  BY <1>1, <1>3 DEF PairedOK
<1>5. PICK r : Sends(r)
  BY SendRequest DEF EngineSafe
<1>6. Own' = Own \cup {r}
  BY <1>5 DEF Sends, Own, Issued
<1>7. Paired(Own')
  BY <1>4, <1>6, SingleMore
<1>8. QED
  BY <1>1, <1>3, <1>7 DEF PairedOK, harnessVars

LEMMA PairedProcess ==
  ASSUME EngineSafe, ~ Failures, PlanOK, PairedOK, trial.engine = "trueforge",
         EngineProcess, ~ EngineSend, Own' = Own
  PROVE  PairedOK'
<1>1. /\ trial \in Trials /\ Planned(trial) /\ exit = "running" /\ UNCHANGED harnessVars
      /\ harness \notin {"idle", "failed"}
  BY ForgeTrials, ProcessTyped DEF EngineSafe, EngineTyped, HarnessTypeOK, PhaseOK
<1>2. Laid(trial, harness, todo, disk)
  BY <1>1 DEF PlanOK, PlanAt
<1>3. Stepped
  BY <1>1, <1>2, PlannedSteps DEF EngineSafe
<1>4. exit' = "running" => (Due(trial, todo', disk') <=> Due(trial, todo, disk))
  BY <1>3 DEF Stepped, Advances, CutShort, Finishes, Errs, Moved
<1>5. QED
  BY <1>1, <1>4 DEF PairedOK, harnessVars

LEMMA PairedStep ==
  Plain /\ EngineSafe /\ StallOK /\ PlanOK /\ PlanOK' /\ EngineSafe' /\ PairedOK
    /\ [EngineNext]_allVars => PairedOK'
<1> SUFFICES ASSUME Plain, EngineSafe, StallOK, PlanOK, PlanOK', EngineSafe', PairedOK,
                    [EngineNext]_allVars,
                    trial'.engine = "trueforge", harness' \notin {"idle", "failed"}
             PROVE  /\ Paired(Own')
                    /\ exit' = "running" /\ Due(trial, todo, disk)' => Single(Own')
  BY DEF PairedOK
<1>1. CASE harness' = "crash_run"
  <2>1. Single(Own') /\ (exit' = "running" /\ Due(trial, todo, disk)' => Own' = {})
    <3>1. trial' \in Trials
      BY DEF EngineSafe, EngineTyped, HarnessTypeOK
    <3>2. Planned(trial')
      BY <3>1, ForgeTrials
    <3>3. PlanAt(trial, harness, exit, todo, disk, before.disk, Own, Ears, request)'
      BY <3>2 DEF PlanOK
    <3>4. ~ Repeats(trial, harness, before.disk)'
      BY <1>1 DEF Repeats
    <3>5. QED
      BY <3>3, <3>4 DEF PlanAt
  <2>2. QED
    BY <2>1, SinglePaired DEF Single
<1>2. CASE harness' # "crash_run"
  <2>1. ~ TrialStarts
    BY <1>2 DEF TrialStarts, StartTrial
  <2>2. trial' = trial /\ harness # "idle" /\ trial.engine = "trueforge"
    BY <2>1, TrialGoesOn
  <2>3. Planned(trial) /\ ~ RecoveryStalls
    BY <2>2, ForgeTrials, PlannedNeverStall DEF EngineSafe, EngineTyped, HarnessTypeOK
  <2>4. ~ EngineSend => Own' = Own
    BY <2>1, OwnMoves
  <2>5. CASE EngineSend
    BY <2>2, <2>5, PairedSends DEF PairedOK
  <2>6. CASE EngineProcess /\ ~ EngineSend
    BY <2>2, <2>4, <2>6, PairedProcess DEF PairedOK, Plain
  <2>7. CASE CrashRunEnds(RecoveryRun(trial, disk)) /\ ~ EngineSend
    <3>1. Single(Own')
      BY <2>2, <2>4, <2>7, ForgeCrashed DEF CrashRunEnds
    <3>2. QED
      BY <3>1, SinglePaired
  <2>8. CASE /\ RecoveryRunEnds \/ SealLedger \/ ReadDump \/ ClassifyTrial(Verdict)
             /\ ~ EngineSend
    <3>1. harness # "failed" /\ exit' = exit /\ exit # "running"
      BY <2>8 DEF RecoveryRunEnds, SealLedger, ReadDump, ClassifyTrial, Expected, processVars,
                  EngineSafe, EngineTyped, PhaseOK
    <3>2. QED
      BY <2>2, <2>4, <2>8, <3>1 DEF PairedOK
  <2>9. CASE (Daemon \/ UNCHANGED allVars) /\ ~ EngineSend
    <3>1. UNCHANGED <<trial, harness, exit, todo, disk>>
      BY <2>9 DEF Daemon, allVars, trialVars
    <3>2. QED
      BY <2>2, <2>4, <2>9, <3>1 DEF PairedOK
  <2>10. ~ WorkflowTaskTimesOut /\ ~ LostAttemptTimesOut
    BY <2>2 DEF WorkflowTaskTimesOut, LostAttemptTimesOut, ActivityTimesOut
  <2>11. ~ GivenUp
    BY DEF GivenUp
  <2>12. QED
    BY <2>1, <2>3, <2>5, <2>6, <2>7, <2>8, <2>9, <2>10, <2>11, PlainSteps
<1>3. QED
  BY <1>1, <1>2

\* What a trial that asked once had made crossed once.
LEMMA SingleCounted ==
  ASSUME EngineSafe, AnsweredOnce, AcknowledgedOnce, harness # "idle", Undisturbed, Made,
         Single(Own)
  PROVE  side_effects[Intent] = 1
<1> DEFINE keys == effect_keys[Intent]
<1>1. Intent \in Intents /\ LedgerTypeOK
  BY IntentTyped DEF EngineSafe, EngineTyped, HarnessTypeOK, DaemonTypeOK
<1>2. keys \in Seq(Keys \cup {NoKey})
  BY <1>1 DEF LedgerTypeOK
<1>3. Len(keys) \in Nat \ {0}
  BY <1>2 DEF Made
<1>4. 1 \in 1 .. Len(keys) /\ (Len(keys) >= 2 => 2 \in 1 .. Len(keys))
  BY <1>3
<1>5. \A m, n \in 1 .. Len(keys) : m = n
  BY SingleCrosses
<1>6. ~ (Len(keys) >= 2)
  BY <1>4, <1>5
<1>7. \A n \in Nat \ {0} : n >= 2 \/ n = 1
  OBVIOUS
<1>8. Len(keys) = 1
  BY <1>3, <1>6, <1>7, Zenon
<1>9. QED
  BY <1>1, <1>8 DEF EngineSafe, CrossingsAgree

LEMMA OrphanCounted ==
  ASSUME EngineSafe, Progress, AnsweredOnce, AcknowledgedOnce, PunctualOK,
         trial.engine = "trueforge", harness = "crash_run", Single(Own), Ears # {}
  PROVE  side_effects[Intent] = 1
<1>1. Planned(trial) /\ harness # "idle"
  BY ForgeTrials DEF EngineSafe, EngineTyped, HarnessTypeOK
<1>2. Undisturbed
  BY <1>1, PunctualOwn DEF Undisturbed
<1>3. PICK r \in Own : Heard(r)
  BY DEF Ears
<1>4. \E a \in answers : a.req.epoch = epoch
  BY <1>3 DEF Heard, Own
<1>5. Made
  BY <1>4 DEF Progress
<1>6. QED
  BY <1>1, <1>2, <1>5, SingleCounted

LEMMA OrphanStep ==
  EngineSafe /\ Progress /\ AnsweredOnce /\ AcknowledgedOnce /\ PunctualOK /\ PlanOK
    /\ OrphanOK /\ [EngineNext]_allVars => OrphanOK'
<1> SUFFICES ASSUME EngineSafe, Progress, AnsweredOnce, AcknowledgedOnce, PunctualOK, PlanOK,
                    OrphanOK, [EngineNext]_allVars, trial'.engine = "trueforge",
                    harness' \notin {"idle", "failed", "crash_run"}
             PROVE  before'.effects = 1
  BY DEF OrphanOK
<1>1. ~ TrialStarts
  BY DEF TrialStarts, StartTrial
<1>2. trial' = trial /\ harness # "idle" /\ trial.engine = "trueforge"
  BY <1>1, TrialGoesOn
<1>3. CASE CrashRunEnds(RecoveryRun(trial, disk))
  <2>1. /\ harness = "crash_run" /\ exit = "killed"
        /\ before' = [disk |-> disk, effects |-> side_effects[Intent]]
    BY <1>3 DEF CrashRunEnds, Expected
  <2>2. Single(Own) /\ Ears # {}
    BY <1>2, <2>1, ForgeCrashed
  <2>3. side_effects[Intent] = 1
    BY <1>2, <2>1, <2>2, OrphanCounted
  <2>4. QED
    BY <2>1, <2>3
<1>4. CASE before' = before /\ harness \notin {"crash_run", "failed"}
  BY <1>2, <1>4 DEF OrphanOK
<1>5. CASE UNCHANGED harnessVars
  BY <1>2, <1>5 DEF OrphanOK, harnessVars
<1>6. CASE EngineProcess
  BY <1>5, <1>6, ProcessTyped DEF EngineSafe
<1>7. QED
  BY <1>1, <1>3, <1>4, <1>5, <1>6, EngineSteps
     DEF Removed, ServerTimesOut, WorkflowTaskTimesOut, ActivityTimesOut, ServerStep,
         GivenUp, RecoveryRunEnds, SealLedger, ReadDump, ClassifyTrial, Daemon,
         allVars, trialVars, harnessVars, EngineTyped, PhaseOK, EngineSafe

\* Its turns and its ledger show what the rule wants shown.
LEMMA ForgeShown ==
  ASSUME EngineSafe, StallOK, VerdictOK, AnsweredOnce, AnswersOK, PunctualOK, TriedOK,
         PlanOK, TraceOK, PairedOK, OrphanOK, trial.engine = "trueforge",
         harness = "classified"
  PROVE  TurnsAgree
<1>1. trial \in Trials /\ Planned(trial) /\ Judged(trial) /\ trial.barrier \in MiddleBarriers
  BY ForgeTrials DEF EngineSafe, EngineTyped, HarnessTypeOK
<1>2. exit = "zero" /\ Was(trial, before.disk) /\ Is(trial, disk)
  BY <1>1, TraceShown
<1>3. /\ before.disk.first = Orphan
      /\ disk.first.status = "cancelled" /\ disk.retry.status = "done"
  BY <1>2, TraceCases
<1>4. before.effects = 1
  BY DEF OrphanOK
<1>5. PICK q \in Ears, r \in Ears : q # r
  <2>1. PlanAt(trial, harness, exit, todo, disk, before.disk, Own, Ears, request)
    BY <1>1 DEF PlanOK
  <2>2. ~ Durable(trial, before.disk)
    BY <1>1, <2>1 DEF PlanAt
  <2>3. Repeats(trial, harness, before.disk)
    BY <1>1, <2>2 DEF Repeats
  <2>4. QED
    BY <1>2, <2>1, <2>3 DEF PlanAt
<1>6. Own \subseteq {q, r}
  BY <1>5 DEF PairedOK, Paired, Ears
<1>7. Intent \in Intents /\ dump = Dump
  BY IntentTyped DEF EngineSafe, VerdictOK
<1>8. PICK a \in answers : a.req = q /\ a.epoch = epoch /\ a.status \in {"ok", "no response"}
  BY <1>5 DEF Ears, Heard
<1>9. PICK b \in answers : b.req = r /\ b.epoch = epoch /\ b.status \in {"ok", "no response"}
  BY <1>5 DEF Ears, Heard
<1>10. q.intent = Intent /\ r.intent = Intent
  BY <1>5 DEF Ears, Own, EngineSafe, RequestsOK, Intent
<1>11. Tried(Intent) = {a} \cup {b} /\ a # b
  <2>1. a \in Tried(Intent) /\ b \in Tried(Intent) /\ a # b
    BY <1>5, <1>8, <1>9, <1>10 DEF Tried
  <2>2. ASSUME NEW c \in Tried(Intent) PROVE c = a \/ c = b
    <3>1. c \in answers /\ c.req \in Own
      BY <1>1 DEF Tried, PunctualOK, Own, Issued
    <3>2. c.req = q \/ c.req = r
      BY <1>6, <3>1
    <3>3. QED
      BY <1>8, <1>9, <3>1, <3>2 DEF AnsweredOnce
  <2>3. QED
    BY <2>1, <2>2
<1>12. Cardinality(Tried(Intent)) = 2
  <2>1. IsFiniteSet({a}) /\ Cardinality({a}) = 1
    BY FS_Singleton
  <2>2. b \notin {a}
    BY <1>11
  <2>3. Cardinality({a} \cup {b}) = 1 + 1
    BY <2>1, <2>2, FS_AddElement
  <2>4. QED
    BY <1>11, <2>3
<1>13. dump.attempts[Intent] = 2
  BY <1>7, <1>12 DEF TriedOK, Dump
<1>14. QED
  BY <1>3, <1>4, <1>13 DEF TurnsAgree, Orphan

-----------------------------------------------------------------------------
(***************************************************************************)
(* The admission trials: the crash comes before the first checkpoint, so   *)
(* the runtime has nothing to resume, and a run admitted outside it is     *)
(* replayed from its input, once.                                          *)
(***************************************************************************)
Admission(t) == t.mode \in AdmissionArms

\* A process invoked with the input, with s still to do over d.
Straight(t, s, d, own) == /\ Laid(t, "crash_run", s, d)
                          /\ Single(own)
                          /\ Sending(s) => own = {}

\* What a crash before the first put leaves, and what the runtime says of it.
Untouched(t, d, own) == /\ d.checkpoint = "none" /\ d.events = LangGraphFiles(t).events
                        /\ "replayed" \notin d.report
                        /\ own = {}
Refused(t, d, own) == Untouched(t, d, own) /\ "EmptyInputError" \in d.report

\* What a replay leaves.
Replayed(d, own) == /\ d.checkpoint # "none" /\ Single(own)
                    /\ d.events = <<"accepted", "recovery_required", "completed">>
                    /\ {"EmptyInputError", "replayed"} \subseteq d.report

Replaying(t, s, d, own) ==
  /\ d.events = <<"accepted", "recovery_required">> /\ "EmptyInputError" \in d.report
  /\ \E u \in Programs : s = u \o Completed /\ Straight(t, u, d, own)

\* The recovery is told that there is nothing to resume, then reads the admission.
Readmits(t, s, d, own) ==
  \/ s = <<"empty_input", "read_admission">> /\ Untouched(t, d, own)
  \/ s = <<"read_admission">> /\ Refused(t, d, own)
  \/ t.mode = "runtime_only" /\ s = << >> /\ Refused(t, d, own)
  \/ t.mode # "runtime_only" /\ (Replaying(t, s, d, own) \/ (s = << >> /\ Replayed(d, own)))

AdmissionAt(t, h, x, s, d, b, own) ==
  /\ h = "crash_run" =>
       /\ x = "running" => Straight(t, s, d, own) /\ d.events = LangGraphFiles(t).events
                             /\ "replayed" \notin d.report
       /\ x = "killed" => Untouched(t, d, own)
  /\ h # "crash_run" =>
       /\ b.disk.checkpoint = "none" /\ b.disk.events = LangGraphFiles(t).events
       /\ b.effects = 0
       /\ x = "running" => Readmits(t, s, d, own)
       /\ x = "zero" => IF t.mode = "runtime_only" THEN Refused(t, d, own)
                        ELSE Replayed(d, own)

AdmissionOK == Admission(trial) /\ harness \notin {"idle", "failed"} =>
                 AdmissionAt(trial, harness, exit, todo, disk, before, Own)

LEMMA AdmissionTrials ==
  ASSUME NEW t \in Trials, Admission(t)
  PROVE  /\ t.engine = "langgraph" /\ t.barrier = "lg_pre_first_checkpoint"
         /\ HarnessOf(t) = "admission"
         /\ t.mode \in {"runtime_only", "external_admission_ledger"}
         /\ LangGraphFiles(t).checkpoint = "none" /\ LangGraphFiles(t).report = {}
         /\ LangGraphFiles(t).events = IF t.mode = "runtime_only" THEN << >> ELSE <<"accepted">>
         /\ Fresh(t) = LangGraphFiles(t)
         /\ CrashRun(t) = ArmedWith(InvokeInput(t), "lg_pre_first_checkpoint")
<1>1. t.engine = "langgraph" /\ t.barrier = "lg_pre_first_checkpoint"
  BY EngineRow DEF Admission
<1>2. t.mode \in {"runtime_only", "external_admission_ledger"}
  BY DEF Admission, AdmissionArms
<1>3. HarnessOf(t) = "admission"
  BY <1>1 DEF HarnessOf, Admission
<1>4. Fresh(t) = LangGraphFiles(t) /\ CrashRun(t) = LangGraphCrashRun(t)
  BY <1>1 DEF Fresh, CrashRun
<1>5. QED
  BY <1>1, <1>2, <1>3, <1>4 DEF LangGraphFiles, LangGraphCrashRun, Admission

\* What stands behind the steps of a program stays behind what they become.
LEMMA ConcatOnward ==
  ASSUME NEW u \in Programs, u # << >>, NEW v \in Programs
  PROVE  /\ u \o v # << >> /\ Head(u \o v) = Head(u) /\ Tail(u \o v) = Tail(u) \o v
         /\ Tail(u) \in Programs
BY DEF Programs

LEMMA ConcatThree ==
  ASSUME NEW u \in Programs, NEW v \in Programs, NEW w \in Programs
  PROVE  (u \o v) \o w = u \o (v \o w)
BY DEF Programs

LEMMA StraightPasses ==
  ASSUME NEW t \in Trials, Admission(t), NEW u \in Programs, u # << >>, NEW d, NEW own,
         Straight(t, u, d, own), NEW e, LangGraphWrites(u, d, e),
         Head(u) \notin {"race", "send"}
  PROVE  Straight(t, Tail(u), e, own)
<1>1. t.engine = "langgraph" /\ Laid(t, "crash_run", u, d)
  BY AdmissionTrials DEF Straight
<1>2. Laid(t, "crash_run", Tail(u), e) /\ (Due(t, Tail(u), e) <=> Due(t, u, d))
  BY <1>1, LangGraphPasses
<1>3. Sending(Tail(u)) => Sending(u)
  BY <1>1, <1>2, LaidLangGraph
<1>4. QED
  BY <1>2, <1>3 DEF Straight

LEMMA StraightSends ==
  ASSUME NEW t \in Trials, Admission(t), NEW u \in Programs, u # << >>, NEW d, NEW own,
         Straight(t, u, d, own), Head(u) = "send", NEW more, Single(more)
  PROVE  own = {} /\ Straight(t, Tail(u), d, more)
<1>1. t.engine = "langgraph" /\ Laid(t, "crash_run", u, d)
  BY AdmissionTrials DEF Straight
<1>2. LangGraphWrites(u, d, d)
  BY DEF LangGraphWrites
<1>3. Laid(t, "crash_run", Tail(u), d) /\ ~ Due(t, Tail(u), d) /\ Due(t, u, d)
  BY <1>1, <1>2, LangGraphPasses
<1>4. Sending(u) /\ ~ Sending(Tail(u))
  BY <1>1, <1>3, LaidLangGraph
<1>5. QED
  BY <1>3, <1>4 DEF Straight

LEMMA StraightForks ==
  ASSUME NEW t \in Trials, Admission(t), NEW u \in Programs, u # << >>, NEW d, NEW own,
         Straight(t, u, d, own), Head(u) = "race", NEW b,
         NEW order \in Interleavings(<<"b1", "put_writes", "lg_pending_writes_after_persist">>,
                                     <<"put_done", "b2">>)
  PROVE  /\ ArmedWith(order, b) \in Programs
         /\ Straight(t, ArmedWith(order, b) \o Tail(u), d, own)
<1> DEFINE p == ArmedWith(order, b) \o Tail(u)
<1>1. t.engine = "langgraph" /\ Laid(t, "crash_run", u, d)
  BY AdmissionTrials DEF Straight
<1>2. Moved(t, "crash_run", u, d, p, d)
  BY <1>1, LangGraphForks
<1>3. Sending(p) => Sending(u)
  BY <1>1, <1>2, LaidLangGraph DEF Moved
<1>4. Straight(t, p, d, own)
  BY <1>2, <1>3 DEF Straight, Moved
<1>5. ArmedWith(order, b) \in Programs
  <2>1. /\ <<"b1", "put_writes", "lg_pending_writes_after_persist">> \in Programs
        /\ <<"put_done", "b2">> \in Programs
    BY Labels DEF Programs
  <2>2. order \in Programs
    BY <2>1, MergePlaces
  <2>3. QED
    BY <2>2, ArmedPlaces
<1>6. QED
  BY <1>4, <1>5

\* The first step of such a process, with v to do behind it.
StraightOn(u, v, own) ==
  \/ exit' = "killed" /\ disk' = disk /\ Head(u) = trial.barrier
  \/ /\ exit' = "running" /\ disk'.events = disk.events
     /\ disk.report \subseteq disk'.report
     /\ disk'.report \subseteq disk.report \cup {"EmptyInputError"}
     /\ \E p \in Programs : todo' = p \o v /\ Straight(trial, p, disk', own)

LEMMA StraightMoves ==
  ASSUME trial \in Trials, Admission(trial), NEW u \in Programs, u # << >>,
         NEW v \in Programs, todo = u \o v, disk \in LangGraphDisk, NEW own,
         Straight(trial, u, disk, own), exit = "running",
         LangGraphProcess \/ ReceiveReply
  PROVE  StraightOn(u, v, own)
<1> DEFINE d == disk
           e == disk'
           t == trial
<1>1. /\ todo # << >> /\ Head(todo) = Head(u) /\ Tail(todo) = Tail(u) \o v
      /\ Tail(u) \in Programs
  BY ConcatOnward
<1>2. ASSUME exit' = "running", todo' = Tail(todo), LangGraphWrites(u, d, e),
             Head(u) \notin {"race", "send"}, e.events = d.events,
             e.report = d.report \/ e.report = d.report \cup {"EmptyInputError"}
      PROVE  StraightOn(u, v, own)
  <2> HIDE DEF d, e, t
  <2>1. Straight(t, Tail(u), e, own)
    BY <1>2, StraightPasses DEF t, d
  <2>2. QED
    BY <1>1, <1>2, <2>1 DEF StraightOn, d, e, t
<1>3. d = [checkpoint |-> d.checkpoint, events |-> d.events, writes |-> d.writes,
           report |-> d.report]
  BY DEF LangGraphDisk
<1>4. CASE LangGraphKill
  <2>1. t.barrier = "lg_pre_first_checkpoint"
    BY AdmissionTrials
  <2>2. Head(todo) = t.barrier /\ exit' = "killed" /\ e = d
    BY <1>4, <2>1 DEF LangGraphKill, KillSelf, Running, ExitWith
  <2>3. QED
    BY <1>1, <2>2 DEF StraightOn
<1>5. ASSUME Running("put_entry"),
             Persists([disk EXCEPT !.checkpoint = "entry", !.writes = FALSE])
      PROVE  StraightOn(u, v, own)
  <2>1. /\ exit' = "running" /\ Head(u) = "put_entry" /\ todo' = Tail(todo)
        /\ e = [d EXCEPT !.checkpoint = "entry", !.writes = FALSE]
    BY <1>1, <1>5 DEF Running, Persists, Advance
  <2>2. e.checkpoint = "entry" /\ e.events = d.events /\ e.report = d.report
    BY <1>3, <2>1
  <2>3. QED
    BY <1>2, <2>1, <2>2 DEF LangGraphWrites
<1>6. ASSUME Running("put_prepared"), Persists([disk EXCEPT !.checkpoint = "prepared"])
      PROVE  StraightOn(u, v, own)
  <2>1. /\ exit' = "running" /\ Head(u) = "put_prepared" /\ todo' = Tail(todo)
        /\ e = [d EXCEPT !.checkpoint = "prepared"]
    BY <1>1, <1>6 DEF Running, Persists, Advance
  <2>2. /\ e.checkpoint = "prepared" /\ e.writes = d.writes
        /\ e.events = d.events /\ e.report = d.report
    BY <1>3, <2>1
  <2>3. QED
    BY <1>2, <2>1, <2>2 DEF LangGraphWrites
<1>7. ASSUME Running("put_done"), Persists([disk EXCEPT !.checkpoint = "done"])
      PROVE  StraightOn(u, v, own)
  <2>1. /\ exit' = "running" /\ Head(u) = "put_done" /\ todo' = Tail(todo)
        /\ e = [d EXCEPT !.checkpoint = "done"]
    BY <1>1, <1>7 DEF Running, Persists, Advance
  <2>2. /\ e.checkpoint = "done" /\ e.writes = d.writes
        /\ e.events = d.events /\ e.report = d.report
    BY <1>3, <2>1
  <2>3. QED
    BY <1>2, <2>1, <2>2 DEF LangGraphWrites
<1>8. CASE PutWrites
  <2>1. /\ exit' = "running" /\ Head(u) = "put_writes" /\ todo' = Tail(todo)
        /\ e = [d EXCEPT !.writes = TRUE]
    BY <1>1, <1>8 DEF PutWrites, Running, Persists, Advance
  <2>2. /\ e.checkpoint = d.checkpoint /\ e.writes = TRUE
        /\ e.events = d.events /\ e.report = d.report
    BY <1>3, <2>1
  <2>3. QED
    BY <1>2, <2>1, <2>2 DEF LangGraphWrites
<1>9. CASE Race
  <2> DEFINE b == Armed
  <2>1. /\ exit' = "running" /\ Head(u) = "race" /\ e = d
    BY <1>1, <1>9 DEF Race, Running
  <2>2. PICK order \in Interleavings(<<"b1", "put_writes", "lg_pending_writes_after_persist">>,
                                     <<"put_done", "b2">>) :
          todo' = ArmedWith(order, b) \o Tail(todo)
    BY <1>9 DEF Race
  <2> DEFINE w == ArmedWith(order, b)
  <2> HIDE DEF b, d, e, t
  <2>3. w \in Programs /\ Straight(t, w \o Tail(u), d, own)
    BY <2>1, StraightForks DEF d, t
  <2> HIDE DEF w
  <2>4. w \o Tail(u) \in Programs /\ todo' = (w \o Tail(u)) \o v
    <3>1. todo' = w \o (Tail(u) \o v)
      BY <1>1, <2>2 DEF w
    <3>2. w \in Programs /\ Tail(u) \in Programs
      BY <1>1, <2>3
    <3>3. (w \o Tail(u)) \o v = w \o (Tail(u) \o v)
      BY <3>2, ConcatThree, Zenon
    <3>4. w \o Tail(u) \in Programs
      BY <3>2, ConcatPrograms, Zenon
    <3>5. QED
      BY <3>1, <3>3, <3>4, Zenon
  <2>5. QED
    BY <2>1, <2>3, <2>4 DEF StraightOn, d, e, t
<1>10. CASE EmptyInput
  <2>1. HarnessOf(t) # "matrix"
    BY AdmissionTrials
  <2>2. /\ exit' = "running" /\ Head(u) = "empty_input" /\ todo' = Tail(todo)
        /\ e = [d EXCEPT !.report = @ \cup {"EmptyInputError"}]
    BY <1>1, <1>10, <2>1 DEF EmptyInput, Running, Persists, Advance
  <2>3. /\ e.checkpoint = d.checkpoint /\ e.writes = d.writes /\ e.events = d.events
        /\ e.report = d.report \cup {"EmptyInputError"}
    BY <1>3, <2>2
  <2>4. QED
    BY <1>2, <2>2, <2>3 DEF LangGraphWrites
<1>11. ~ ReadAdmission /\ ~ Complete
  <2>1. ~ Has(AdmissionSteps, u)
    BY AdmissionTrials, LaidLangGraph DEF Straight, LangGraphLaid
  <2>2. Head(todo) \notin AdmissionSteps
    BY <1>1, <2>1, HasTail
  <2>3. QED
    BY <2>2 DEF ReadAdmission, Complete, Running, AdmissionSteps
<1>12. CASE ReceiveReply
  <2>1. exit' = "running" /\ Head(u) = "await" /\ todo' = Tail(todo) /\ e = d
    BY <1>1, <1>12 DEF ReceiveReply, Running, Advance
  <2>2. LangGraphWrites(u, d, e)
    BY <2>1 DEF LangGraphWrites
  <2>3. QED
    BY <1>2, <2>1, <2>2
<1>13. QED
  BY <1>4, <1>5, <1>6, <1>7, <1>8, <1>9, <1>10, <1>11, <1>12 DEF LangGraphProcess, PutCheckpoint

\* What an admission trial's process does when it sends nothing.
LEMMA AdmissionActs ==
  ASSUME trial \in Trials, Admission(trial), ~ Failures, EngineProcess, ~ EngineSend
  PROVE  /\ exit = "running"
         /\ todo = << >> => exit' = "zero" /\ todo' = << >> /\ disk' = disk
         /\ todo # << >> => /\ LangGraphProcess \/ ReceiveReply
                            /\ exit' # "zero"
<1>1. trial.engine = "langgraph" /\ trial.barrier # "b2" /\ HarnessOf(trial) # "matrix"
  BY AdmissionTrials
<1>2. LangGraphProcess \/ ReceiveReply \/ Return
  BY <1>1 DEF EngineProcess, EngineSend, EngineSamplerFails, SamplerFails
<1>3. LangGraphProcess \/ ReceiveReply => exit = "running" /\ exit' # "zero" /\ todo # << >>
  BY DEF LangGraphProcess, LangGraphKill, KillSelf, PutCheckpoint, PutWrites, Race, EmptyInput,
         ReadAdmission, Complete, ReceiveReply, Raise, Persists, Running, ExitWith
<1>4. Return => /\ exit = "running" /\ exit' = "zero" /\ todo = << >> /\ todo' = << >>
                /\ disk' = disk
  BY DEF Return, ExitWith
<1>5. QED
  BY <1>2, <1>3, <1>4

\* What the steps of an admission do.
LEMMA AdmissionHeads ==
  ASSUME trial \in Trials, Admission(trial), LangGraphProcess \/ ReceiveReply
  PROVE  /\ Head(todo) = "empty_input" =>
              /\ exit' = "running" /\ todo' = Tail(todo)
              /\ disk' = [disk EXCEPT !.report = @ \cup {"EmptyInputError"}]
         /\ Head(todo) = "read_admission" => ReadAdmission /\ exit' = "running"
         /\ Head(todo) = "completed" =>
              /\ exit' = "running" /\ todo' = Tail(todo)
              /\ disk' = [disk EXCEPT !.events = Append(@, "completed"),
                                      !.report = @ \cup {"replayed"}]
<1>1. trial.barrier = "lg_pre_first_checkpoint" /\ HarnessOf(trial) # "matrix"
  BY AdmissionTrials
<1>2. \/ /\ Head(todo) \notin {"empty_input", "read_admission", "completed"}
      \/ EmptyInput \/ ReadAdmission \/ Complete
  BY <1>1 DEF LangGraphProcess, LangGraphKill, KillSelf, PutCheckpoint, PutWrites, Race,
              ReceiveReply, Running
<1>3. EmptyInput => /\ Head(todo) = "empty_input" /\ exit' = "running" /\ todo' = Tail(todo)
                    /\ disk' = [disk EXCEPT !.report = @ \cup {"EmptyInputError"}]
  BY <1>1 DEF EmptyInput, Running, Persists, Advance
<1>4. ReadAdmission => Head(todo) = "read_admission" /\ exit' = "running"
  BY DEF ReadAdmission, Running
<1>5. Complete => /\ Head(todo) = "completed" /\ exit' = "running" /\ todo' = Tail(todo)
                  /\ disk' = [disk EXCEPT !.events = Append(@, "completed"),
                                          !.report = @ \cup {"replayed"}]
  BY DEF Complete, Running, Persists, Advance
<1>6. QED
  BY <1>2, <1>3, <1>4, <1>5

LEMMA StraightBegun ==
  ASSUME NEW t \in Trials, Admission(t), NEW d, d.checkpoint = "none", NEW b, NEW own, own = {}
  PROVE  /\ ArmedWith(InvokeInput(t), b) \in Programs
         /\ Straight(t, ArmedWith(InvokeInput(t), b), d, own)
<1>1. Laid(t, "crash_run", ArmedWith(InvokeInput(t), b), d)
  BY AdmissionTrials, LangGraphBegun
<1>2. QED
  BY <1>1, LangGraphInput DEF Straight, Single

\* The process the barrier is armed in dies before its first put.
LEMMA AdmissionCrashes ==
  ASSUME trial \in Trials, Admission(trial), ~ Failures, EngineProcess, ~ EngineSend,
         todo \in Programs, disk \in LangGraphDisk, harness = "crash_run", NEW b, NEW own,
         AdmissionAt(trial, harness, exit, todo, disk, b, own)
  PROVE  AdmissionAt(trial, harness, exit', todo', disk', b, own)
<1>1. /\ exit = "running" /\ Straight(trial, todo, disk, own)
      /\ disk.events = LangGraphFiles(trial).events /\ "replayed" \notin disk.report
  BY AdmissionActs DEF AdmissionAt
<1>2. CASE todo = << >>
  BY <1>2, AdmissionActs DEF AdmissionAt
<1>3. CASE todo # << >>
  <2>1. << >> \in Programs /\ todo = todo \o << >>
    BY DEF Programs
  <2>2. PICK v \in Programs : v = << >>
    BY <2>1
  <2>3. todo = todo \o v /\ (LangGraphProcess \/ ReceiveReply)
    BY <1>3, <2>1, <2>2, AdmissionActs
  <2>4. StraightOn(todo, v, own)
    BY <1>1, <1>3, <2>3, StraightMoves
  <2>5. CASE exit' = "killed" /\ disk' = disk /\ Head(todo) = trial.barrier
    <3>1. Has({"lg_pre_first_checkpoint"}, todo)
      BY <1>3, <2>5, HasTail, AdmissionTrials
    <3>2. Has({"lg_pre_first_checkpoint", "put_entry", "b0", "put_prepared"}, todo)
      BY <3>1 DEF Has
    <3>3. LangGraphLaid("crash_run", todo, disk)
      BY <1>1, AdmissionTrials, LaidLangGraph DEF Straight
    <3>4. disk.checkpoint = "none" /\ Sending(todo)
      BY <3>1, <3>2, <3>3 DEF LangGraphLaid
    <3>5. own = {}
      BY <1>1, <3>4 DEF Straight
    <3>6. QED
      BY <1>1, <2>5, <3>4, <3>5 DEF AdmissionAt, Untouched
  <2>6. CASE ~ (exit' = "killed" /\ disk' = disk /\ Head(todo) = trial.barrier)
    <3>1. PICK p \in Programs : todo' = p \o v /\ Straight(trial, p, disk', own)
      BY <2>4, <2>6 DEF StraightOn
    <3>2. todo' = p
      BY <2>2, <3>1 DEF Programs
    <3>3. /\ exit' = "running" /\ disk'.events = disk.events
          /\ disk'.report \subseteq disk.report \cup {"EmptyInputError"}
      BY <2>4, <2>6 DEF StraightOn
    <3>4. "replayed" \notin disk'.report
      BY <1>1, <3>3
    <3>5. Straight(trial, todo', disk', own)
      BY <3>1, <3>2
    <3>6. QED
      BY <1>1, <3>3, <3>4, <3>5 DEF AdmissionAt
  <2>7. QED
    BY <2>5, <2>6
<1>4. QED
  BY <1>2, <1>3

\* The recovery's reading of the admission.
LEMMA AdmissionRead ==
  ASSUME trial \in Trials, Admission(trial), disk \in LangGraphDisk, ReadAdmission,
         todo = <<"read_admission">>, NEW own, Refused(trial, disk, own)
  PROVE  Readmits(trial, todo', disk', own)
<1>1. Tail(todo) = << >>
  OBVIOUS
<1>2. /\ disk.checkpoint = "none" /\ "replayed" \notin disk.report /\ own = {}
      /\ "EmptyInputError" \in disk.report
      /\ disk.events = IF trial.mode = "runtime_only" THEN << >> ELSE <<"accepted">>
  BY AdmissionTrials DEF Refused, Untouched
<1>3. CASE trial.mode = "runtime_only"
  <2>1. todo' = << >> /\ disk' = disk
    BY <1>1, <1>2, <1>3 DEF ReadAdmission, Advance
  <2>2. QED
    BY <1>3, <2>1 DEF Readmits
<1>4. CASE trial.mode # "runtime_only"
  <2> DEFINE u == ArmedWith(InvokeInput(trial), "none")
             files == [disk EXCEPT !.events = Append(@, "recovery_required")]
  <2>1. disk.events # << >>
    BY <1>2, <1>4
  <2>2. todo' = u \o Completed \o Tail(todo) /\ disk' = files
    BY <2>1 DEF ReadAdmission
  <2>3. Append(<<"accepted">>, "recovery_required") = <<"accepted", "recovery_required">>
    BY Appended
  <2>4. /\ disk'.events = <<"accepted", "recovery_required">> /\ disk'.checkpoint = "none"
        /\ disk'.report = disk.report
    BY <1>2, <1>4, <2>2, <2>3 DEF LangGraphDisk
  <2>5. u \in Programs /\ Straight(trial, u, disk', own)
    BY <1>2, <2>4, StraightBegun
  <2> HIDE DEF u, files
  <2>6. Completed \in Programs
    BY Labels DEF Completed, Programs
  <2>7. u \o Completed \in Programs
    BY <2>5, <2>6, ConcatPrograms, Zenon
  <2>8. todo' = u \o Completed
    BY <1>1, <2>2, <2>7 DEF Programs
  <2>9. Replaying(trial, todo', disk', own)
    BY <1>2, <2>4, <2>5, <2>8 DEF Replaying
  <2>10. QED
    BY <1>4, <2>9 DEF Readmits
<1>5. QED
  BY <1>3, <1>4

\* A replay goes on to its completion.
LEMMA AdmissionReplays ==
  ASSUME trial \in Trials, Admission(trial), disk \in LangGraphDisk, exit = "running",
         LangGraphProcess \/ ReceiveReply, todo # << >>, NEW own,
         trial.mode # "runtime_only", Replaying(trial, todo, disk, own)
  PROVE  exit' = "running" => Readmits(trial, todo', disk', own)
<1>1. /\ disk.events = <<"accepted", "recovery_required">> /\ "EmptyInputError" \in disk.report
  BY DEF Replaying
<1>2. PICK u \in Programs : todo = u \o Completed /\ Straight(trial, u, disk, own)
  BY DEF Replaying
<1>3. Completed \in Programs
  BY Labels DEF Completed, Programs
<1>4. CASE u = << >>
  <2>1. todo = Completed
    BY <1>2, <1>3, <1>4 DEF Programs
  <2>2. Head(todo) = "completed" /\ Tail(todo) = << >>
    BY <2>1 DEF Completed
  <2>3. /\ todo' = << >>
        /\ disk' = [disk EXCEPT !.events = Append(@, "completed"),
                                !.report = @ \cup {"replayed"}]
    BY <2>2, AdmissionHeads
  <2>4. LangGraphLaid("crash_run", u, disk)
    BY <1>2, AdmissionTrials, LaidLangGraph DEF Straight
  <2>5. ~ Has({"put_entry"}, u)
    BY <1>4 DEF Has
  <2>6. disk.checkpoint # "none" /\ Single(own)
    BY <1>2, <2>4, <2>5 DEF LangGraphLaid, Straight
  <2>7. Append(<<"accepted", "recovery_required">>, "completed")
          = <<"accepted", "recovery_required", "completed">>
    BY Appended
  <2>8. /\ disk'.events = <<"accepted", "recovery_required", "completed">>
        /\ disk'.checkpoint = disk.checkpoint /\ disk'.report = disk.report \cup {"replayed"}
    BY <1>1, <2>3, <2>7 DEF LangGraphDisk
  <2>9. Replayed(disk', own)
    BY <1>1, <2>6, <2>8 DEF Replayed
  <2>10. QED
    BY <2>3, <2>9 DEF Readmits
<1>5. CASE u # << >>
  <2> DEFINE v == Completed
  <2>1. v \in Programs /\ todo = u \o v
    BY <1>2, <1>3
  <2> HIDE DEF v
  <2>2. StraightOn(u, v, own)
    BY <1>2, <1>5, <2>1, StraightMoves
  <2>3. SUFFICES ASSUME exit' = "running" PROVE Readmits(trial, todo', disk', own)
    OBVIOUS
  <2>4. /\ disk'.events = disk.events /\ disk.report \subseteq disk'.report
        /\ \E p \in Programs : todo' = p \o v /\ Straight(trial, p, disk', own)
    BY <2>2, <2>3 DEF StraightOn
  <2>5. Replaying(trial, todo', disk', own)
    BY <1>1, <2>4 DEF Replaying, v
  <2>6. QED
    BY <2>5 DEF Readmits
<1>6. QED
  BY <1>4, <1>5

LEMMA AdmissionRecovers ==
  ASSUME trial \in Trials, Admission(trial), ~ Failures, EngineProcess, ~ EngineSend,
         disk \in LangGraphDisk, harness # "crash_run", NEW b, NEW own,
         AdmissionAt(trial, harness, exit, todo, disk, b, own)
  PROVE  AdmissionAt(trial, harness, exit', todo', disk', b, own)
<1>1. exit = "running" /\ Readmits(trial, todo, disk, own)
  BY AdmissionActs DEF AdmissionAt
<1>2. SUFFICES /\ exit' = "running" => Readmits(trial, todo', disk', own)
               /\ exit' = "zero" => IF trial.mode = "runtime_only" THEN Refused(trial, disk', own)
                                    ELSE Replayed(disk', own)
  BY DEF AdmissionAt
<1>3. CASE todo = << >>
  <2>1. exit' = "zero" /\ disk' = disk
    BY <1>3, AdmissionActs
  <2>2. \/ trial.mode = "runtime_only" /\ Refused(trial, disk, own)
        \/ trial.mode # "runtime_only" /\ (Replaying(trial, todo, disk, own) \/ Replayed(disk, own))
    BY <1>1, <1>3 DEF Readmits
  <2>3. ~ Replaying(trial, todo, disk, own)
    <3>1. \A u \in Programs : u \o Completed # << >>
      <4>1. Completed \in Programs /\ Has({"completed"}, Completed)
        BY Labels DEF Completed, Programs, Has
      <4>2. \A u \in Programs : Has({"completed"}, u \o Completed)
        BY <4>1, HasConcat
      <4>3. ~ Has({"completed"}, << >>)
        BY DEF Has
      <4>4. QED
        BY <4>2, <4>3, Zenon
    <3>2. QED
      BY <1>3, <3>1 DEF Replaying
  <2>4. QED
    BY <2>1, <2>2, <2>3
<1>4. CASE todo # << >>
  <2>1. (LangGraphProcess \/ ReceiveReply) /\ exit' # "zero"
    BY <1>4, AdmissionActs
  <2>2. CASE todo = <<"empty_input", "read_admission">> /\ Untouched(trial, disk, own)
    <3>1. Head(todo) = "empty_input" /\ Tail(todo) = <<"read_admission">>
      BY <2>2
    <3>2. /\ todo' = <<"read_admission">>
          /\ disk' = [disk EXCEPT !.report = @ \cup {"EmptyInputError"}]
      BY <2>1, <3>1, AdmissionHeads
    <3>3. /\ disk'.checkpoint = disk.checkpoint /\ disk'.events = disk.events
          /\ disk'.report = disk.report \cup {"EmptyInputError"}
      BY <3>2 DEF LangGraphDisk
    <3>4. Refused(trial, disk', own)
      BY <2>2, <3>3 DEF Refused, Untouched
    <3>5. QED
      BY <2>1, <3>2, <3>4 DEF Readmits
  <2>3. CASE todo = <<"read_admission">> /\ Refused(trial, disk, own)
    <3>1. Head(todo) = "read_admission"
      BY <2>3
    <3>2. ReadAdmission
      BY <2>1, <3>1, AdmissionHeads
    <3>3. QED
      BY <2>1, <2>3, <3>2, AdmissionRead
  <2>4. CASE trial.mode # "runtime_only" /\ Replaying(trial, todo, disk, own)
    BY <1>1, <1>4, <2>1, <2>4, AdmissionReplays
  <2>5. QED
    BY <1>1, <1>4, <2>2, <2>3, <2>4 DEF Readmits
<1>5. QED
  BY <1>3, <1>4

\* Only a process that runs the input sends.
LEMMA AdmissionSends ==
  ASSUME trial \in Trials, Admission(trial), EngineSend, todo \in Programs, NEW b, NEW own,
         AdmissionAt(trial, harness, exit, todo, disk, b, own), NEW more, Single(more)
  PROVE  own = {} /\ AdmissionAt(trial, harness, exit, Tail(todo), disk, b, more)
<1>1. /\ exit = "running" /\ todo # << >> /\ Head(todo) = "send"
  <2>1. trial.engine # "dbos"
    BY AdmissionTrials
  <2>2. QED
    BY <2>1, SendMoves DEF EngineSend, SendEffect, SendPayload, Running
<1>2. CASE harness = "crash_run"
  <2>1. Straight(trial, todo, disk, own)
    BY <1>1, <1>2 DEF AdmissionAt
  <2>2. own = {} /\ Straight(trial, Tail(todo), disk, more)
    BY <1>1, <2>1, StraightSends
  <2>3. QED
    BY <1>1, <1>2, <2>2 DEF AdmissionAt
<1>3. CASE harness # "crash_run"
  <2>1. Readmits(trial, todo, disk, own)
    BY <1>1, <1>3 DEF AdmissionAt
  <2>2. Head(<<"empty_input", "read_admission">>) # "send" /\ Head(<<"read_admission">>) # "send"
    OBVIOUS
  <2>3. trial.mode # "runtime_only" /\ Replaying(trial, todo, disk, own)
    BY <1>1, <2>1, <2>2 DEF Readmits
  <2>4. PICK u \in Programs : todo = u \o Completed /\ Straight(trial, u, disk, own)
    BY <2>3 DEF Replaying
  <2>5. Completed \in Programs
    BY Labels DEF Completed, Programs
  <2>6. u # << >>
    <3>1. << >> \o Completed = Completed /\ Head(Completed) = "completed"
      BY <2>5 DEF Completed
    <3>2. QED
      BY <1>1, <2>4, <3>1
  <2> DEFINE v == Completed
  <2>7. v \in Programs /\ todo = u \o v
    BY <2>4, <2>5
  <2> HIDE DEF v
  <2>8. Head(u) = "send" /\ Tail(todo) = Tail(u) \o v /\ Tail(u) \in Programs
    BY <1>1, <2>6, <2>7, ConcatOnward
  <2>9. own = {} /\ Straight(trial, Tail(u), disk, more)
    BY <2>4, <2>6, <2>8, StraightSends
  <2>10. Replaying(trial, Tail(todo), disk, more)
    BY <2>3, <2>8, <2>9 DEF Replaying, v
  <2>11. QED
    BY <1>1, <1>3, <2>3, <2>9, <2>10 DEF AdmissionAt, Readmits
<1>4. QED
  BY <1>2, <1>3

LEMMA NothingCounted ==
  ASSUME EngineSafe, CrossedAsAsked, harness # "idle", Undisturbed, Own = {}
  PROVE  side_effects[Intent] = 0
<1>1. Intent \in Intents /\ LedgerTypeOK
  BY IntentTyped DEF EngineSafe, EngineTyped, HarnessTypeOK, DaemonTypeOK
<1>2. \A n \in 1 .. Len(effect_keys[Intent]) : FALSE
  BY CrossedForThis
<1>3. Len(effect_keys[Intent]) \in Nat
  BY <1>1 DEF LedgerTypeOK
<1>4. Len(effect_keys[Intent]) # 0 => 1 \in 1 .. Len(effect_keys[Intent])
  BY <1>3
<1>5. Len(effect_keys[Intent]) = 0
  BY <1>2, <1>4
<1>6. QED
  BY <1>1, <1>5 DEF EngineSafe, CrossingsAgree

LEMMA AdmissionFinds ==
  ASSUME EngineSafe, CrossedAsAsked, AdmissionOK, Admission(trial), harness = "crash_run",
         CrashRunEnds(RecoveryRun(trial, disk))
  PROVE  AdmissionAt(trial, harness', exit', todo', disk', before', Own)
<1>1. trial \in Trials /\ harness # "idle"
  BY DEF EngineSafe, EngineTyped, HarnessTypeOK
<1>2. /\ exit = "killed" /\ harness' = "recovery_run" /\ exit' = "running" /\ disk' = disk
      /\ todo' = RecoveryRun(trial, disk)
      /\ before' = [disk |-> disk, effects |-> side_effects[Intent]]
  BY DEF CrashRunEnds, Expected, Spawn
<1>3. Untouched(trial, disk, Own)
  BY <1>2 DEF AdmissionOK, AdmissionAt
<1>4. todo' = <<"empty_input", "read_admission">>
  <2>1. InvokeNothing(trial, disk) = <<"empty_input">>
    BY <1>3 DEF InvokeNothing, Untouched
  <2>2. todo' = LangGraphRecoveryRun(trial, disk)
    BY <1>1, <1>2, AdmissionTrials DEF RecoveryRun
  <2>3. todo' = <<"empty_input">> \o <<"read_admission">>
    BY <2>1, <2>2, Zenon DEF LangGraphRecoveryRun, Admission
  <2> DEFINE u == <<"empty_input">>
             v == <<"read_admission">>
  <2>4. u \in Programs /\ v \in Programs
    BY Labels DEF Programs
  <2>5. Len(u) = 1 /\ u[1] = "empty_input" /\ Len(v) = 1 /\ v[1] = "read_admission"
    OBVIOUS
  <2> HIDE DEF u, v
  <2> DEFINE w == u \o v
  <2>6. /\ w \in Programs /\ Len(w) = Len(u) + Len(v)
        /\ \A n \in 1 .. Len(u) : w[n] = u[n]
        /\ \A n \in 1 .. Len(v) : w[Len(u) + n] = v[n]
    BY <2>4, ConcatPrograms
  <2> HIDE DEF w
  <2>7. 1 \in 1 .. 1 /\ 1 + 1 = 2
    OBVIOUS
  <2>8. w \in Programs /\ Len(w) = 2 /\ w[1] = "empty_input" /\ w[2] = "read_admission"
    BY <2>5, <2>6, <2>7
  <2>9. w = <<"empty_input", "read_admission">>
    BY <2>8 DEF Programs
  <2>10. QED
    BY <2>3, <2>9 DEF w, u, v
<1>5. side_effects[Intent] = 0
  <2>1. Undisturbed
    BY <1>1, AdmissionTrials DEF Undisturbed
  <2>2. QED
    BY <1>1, <1>3, <2>1, NothingCounted DEF Untouched
<1>6. QED
  BY <1>2, <1>3, <1>4, <1>5 DEF AdmissionAt, Readmits, Untouched

LEMMA AdmissionStep ==
  Plain /\ EngineSafe /\ StallOK /\ CrossedAsAsked /\ AdmissionOK /\ [EngineNext]_allVars
    => AdmissionOK'
<1> SUFFICES ASSUME Plain, EngineSafe, StallOK, CrossedAsAsked, AdmissionOK,
                    [EngineNext]_allVars, Admission(trial'),
                    harness' \notin {"idle", "failed"}
             PROVE  AdmissionAt(trial', harness', exit', todo', disk', before', Own')
  BY DEF AdmissionOK
<1>1. CASE TrialStarts
  <2>1. PICK t \in Trials : StartTrial(t, Fresh(t), CrashRun(t))
    BY <1>1 DEF TrialStarts
  <2>2. /\ trial' = t /\ harness' = "crash_run" /\ todo' = CrashRun(t) /\ Admission(t)
        /\ exit' = "running" /\ disk' = LangGraphFiles(t)
    BY <2>1, AdmissionTrials DEF StartTrial, Spawn
  <2>3. Own' = {}
    BY <1>1, OwnMoves
  <2>4. Straight(t, todo', disk', Own')
    BY <2>2, <2>3, AdmissionTrials, StraightBegun
  <2>5. "replayed" \notin disk'.report
    BY <2>2, AdmissionTrials
  <2>6. QED
    BY <2>2, <2>4, <2>5 DEF AdmissionAt
<1>2. CASE ~ TrialStarts
  <2>1. trial' = trial /\ harness # "idle" /\ Admission(trial)
    BY <1>2, TrialGoesOn
  <2>2. /\ trial \in Trials /\ todo \in Programs /\ EngineTyped /\ ~ Failures
        /\ disk \in LangGraphDisk
    <3>1. /\ trial \in Trials /\ StateAt(trial, harness, todo, disk) /\ EngineTyped
          /\ ~ Failures
      BY DEF Plain, EngineSafe, EngineTyped, RunTyped, HarnessTypeOK
    <3>2. QED
      BY <2>1, <3>1, AdmissionTrials DEF StateAt, LangGraphAt
  <2>3. trial.engine = "langgraph"
    BY <2>1, <2>2, AdmissionTrials
  <2>4. harness # "failed" => AdmissionAt(trial, harness, exit, todo, disk, before, Own)
    BY <2>1 DEF AdmissionOK
  <2>5. ~ EngineSend => Own' = Own
    BY <1>2, OwnMoves
  <2>6. PICK own : own = Own
    OBVIOUS
  <2>7. PICK b : b = before
    OBVIOUS
  <2>8. CASE EngineSend
    <3>1. /\ todo' = Tail(todo) /\ UNCHANGED <<harnessVars, exit, disk>> /\ exit = "running"
      BY <2>8, SendMoves
    <3>2. harness # "failed" /\ harness' = harness /\ before' = before
      BY <2>2, <3>1 DEF EngineTyped, PhaseOK, harnessVars
    <3>3. AdmissionAt(trial, harness, exit, todo, disk, b, own)
      BY <2>4, <2>6, <2>7, <3>2
    <3>4. Single({})
      BY DEF Single
    <3>5. own = {}
      BY <2>1, <2>2, <2>8, <3>3, <3>4, AdmissionSends
    <3>6. PICK more : more = Own'
      OBVIOUS
    <3>7. Single(more)
      BY <2>6, <2>8, <3>5, <3>6, OwnMoves
    <3>8. AdmissionAt(trial, harness, exit, Tail(todo), disk, b, more)
      BY <2>1, <2>2, <2>8, <3>3, <3>7, AdmissionSends
    <3>9. QED
      BY <2>1, <2>7, <3>1, <3>2, <3>6, <3>8
  <2>9. CASE EngineProcess /\ ~ EngineSend
    <3>1. UNCHANGED harnessVars /\ exit = "running"
      BY <2>2, <2>9, ProcessTyped
    <3>2. harness # "failed" /\ harness' = harness /\ before' = before
      BY <2>2, <3>1 DEF EngineTyped, PhaseOK, harnessVars
    <3>3. AdmissionAt(trial, harness, exit, todo, disk, b, own)
      BY <2>4, <2>6, <2>7, <3>2
    <3>4. AdmissionAt(trial, harness, exit', todo', disk', b, own)
      BY <2>1, <2>2, <2>9, <3>3, AdmissionCrashes, AdmissionRecovers
    <3>5. QED
      BY <2>1, <2>5, <2>6, <2>7, <2>9, <3>2, <3>4
  <2>10. CASE CrashRunEnds(RecoveryRun(trial, disk)) /\ ~ EngineSend
    <3>1. harness = "crash_run"
      BY <2>10 DEF CrashRunEnds
    <3>2. AdmissionAt(trial, harness', exit', todo', disk', before', Own)
      BY <2>1, <2>10, <3>1, AdmissionFinds
    <3>3. QED
      BY <2>1, <2>5, <2>10, <3>2
  <2>11. CASE /\ RecoveryRunEnds \/ SealLedger \/ ReadDump \/ ClassifyTrial(Verdict)
              /\ ~ EngineSend
    <3>1. /\ harness \notin {"crash_run", "failed"} /\ harness' # "crash_run"
          /\ UNCHANGED <<exit, todo, disk, before>>
      BY <2>11 DEF RecoveryRunEnds, SealLedger, ReadDump, ClassifyTrial, processVars
    <3>2. AdmissionAt(trial, harness, exit, todo, disk, b, own)
      BY <2>4, <2>6, <2>7, <3>1
    <3>3. AdmissionAt(trial, harness', exit, todo, disk, b, own)
      BY <3>1, <3>2 DEF AdmissionAt
    <3>4. QED
      BY <2>1, <2>5, <2>6, <2>7, <2>11, <3>1, <3>3
  <2>12. CASE (Daemon \/ UNCHANGED allVars) /\ ~ EngineSend
    <3>1. UNCHANGED <<trial, harness, exit, todo, disk, before>>
      BY <2>12 DEF Daemon, allVars, trialVars
    <3>2. QED
      BY <2>4, <2>5, <2>12, <3>1
  <2>13. ~ RecoveryStalls /\ ~ WorkflowTaskTimesOut /\ ~ LostAttemptTimesOut
    <3>1. ~ (Running("hang"))
      <4>1. exit = "running" => ~ Hangs(todo)
        BY <2>3 DEF StallOK, StallAt
      <4>2. QED
        BY <2>2, <4>1, HasTail DEF Running, Hangs
    <3>2. QED
      BY <2>3, <3>1 DEF RecoveryStalls, WorkflowTaskTimesOut, LostAttemptTimesOut,
                        ActivityTimesOut
  <2>14. ~ GivenUp
    BY DEF GivenUp
  <2>15. QED
    BY <1>2, <2>8, <2>9, <2>10, <2>11, <2>12, <2>13, <2>14, PlainSteps
<1>3. QED
  BY <1>1, <1>2

\* The ledger and the files show what each arm wants shown.
LEMMA AdmissionShown ==
  ASSUME EngineSafe, StallOK, Progress, VerdictOK, AnsweredOnce, AcknowledgedOnce,
         CrossedAsAsked, AdmissionOK, Admission(trial), harness = "classified"
  PROVE  AdmissionAgrees
<1>1. trial \in Trials /\ harness # "idle"
  BY DEF EngineSafe, EngineTyped, HarnessTypeOK
<1>2. exit = "zero"
  BY <1>1, AdmissionTrials DEF StallOK, EngineSafe, EngineTyped, PhaseOK
<1>3. /\ before.disk.checkpoint = "none" /\ before.effects = 0
      /\ before.disk.events = IF trial.mode = "runtime_only" THEN << >> ELSE <<"accepted">>
      /\ IF trial.mode = "runtime_only" THEN Refused(trial, disk, Own) ELSE Replayed(disk, Own)
  BY <1>1, <1>2, AdmissionTrials DEF AdmissionOK, AdmissionAt
<1>4. Undisturbed
  BY <1>1, AdmissionTrials DEF Undisturbed
<1>5. dump.side_effects = side_effects
  BY DEF VerdictOK, Dump
<1>6. CASE trial.mode = "runtime_only"
  <2>1. disk.checkpoint = "none" /\ disk.events = << >> /\ "replayed" \notin disk.report
        /\ "EmptyInputError" \in disk.report /\ Own = {}
    BY <1>1, <1>3, <1>6, AdmissionTrials DEF Refused, Untouched
  <2>2. side_effects[Intent] = 0
    BY <1>1, <1>4, <2>1, NothingCounted
  <2>3. QED
    BY <1>3, <1>5, <1>6, <2>1, <2>2 DEF AdmissionAgrees
<1>7. CASE trial.mode # "runtime_only"
  <2>1. Replayed(disk, Own) /\ before.disk.events = <<"accepted">>
    BY <1>3, <1>7
  <2>2. before.disk.events # << >>
    BY <2>1
  <2>3. Made
    BY <1>1, <1>2, <2>2 DEF Progress, Lost, LostAt
  <2>4. side_effects[Intent] = 1
    BY <1>1, <1>4, <2>1, <2>3, SingleCounted DEF Replayed
  <2>5. QED
    BY <1>3, <1>5, <1>7, <2>1, <2>4 DEF AdmissionAgrees, Replayed
<1>8. QED
  BY <1>6, <1>7

\* Nothing the oracle calls a trial is the verdict of an admission trial.
LEMMA ClassifyRange ==
  ASSUME NEW i, NEW d, NEW s
  PROVE  Classify(i, d, s) # "disagrees"
<1>1. CrossingOutcome(d.effect_digests[i]) # "disagrees"
  BY DEF CrossingOutcome
<1> DEFINE n == d.side_effects[i]
           digests == d.effect_digests[i]
           C == IF n >= 2 /\ Len(digests) # n THEN "void"
                ELSE IF n >= 2 THEN CrossingOutcome(digests)
                ELSE IF n = 1 THEN "exactly_once" ELSE "lost"
<1>2. C # "disagrees"
  BY <1>1
<1>3. Classify(i, d, s) = CASE Verify(s) = "raises" -> "raises"
                            [] Verify(s) = "broken" -> "void"
                            [] OTHER -> C
  BY DEF Classify
<1> HIDE DEF C
<1>4. QED
  BY <1>2, <1>3, Zenon

\* Every trial outside the matrix that nothing but its barrier kills, whose sampler
\* answers and whose attempts are not taken for lost while they work, ends with the
\* durable evidence its harness looks for (dbos_hidden.py db_agrees,
\* temporal_hidden.py history_agrees, trueforge_hidden.py run, and
\* langgraph_admission.py run_trial, agrees): the tables and the history are, at the
\* barrier and at the end, the ones the rule names; the orphan's one crossing is
\* found, and tried again once; the run is lost to the runtime and, admitted outside
\* it, replayed once.  The rows are read off what the process has still to do, and
\* the counts off the requests the trial sent.
THEOREM MechanismAlwaysShown ==
  ASSUME ~ StrayKills, ~ Failures, ~ SlowAttempts
  PROVE  EngineSpec => []MechanismShown
<1>1. Plain
  BY DEF Plain
<1>2. EngineInit => /\ AnsweredOnce /\ AllCounted /\ PayloadsOK /\ StallOK /\ PlanOK
                    /\ PendingOK /\ PunctualOK /\ TemporalFine /\ TraceOK /\ PairedOK
                    /\ OrphanOK /\ AdmissionOK
  BY DEF EngineInit, TrialInit, DaemonInit, AnsweredOnce, AllCounted, PayloadsOK, StallOK,
         PlanOK, PendingOK, PunctualOK, TemporalFine, TraceOK, PairedOK, OrphanOK, AdmissionOK
<1>3. DaemonInit => AnswersOK
  BY FS_EmptySet DEF DaemonInit, AnswersOK
<1>4. EngineSpec => []AnswersOK
  BY <1>3, EngineRunsDaemon, DaemonTypeCorrect, AnswersStep, PTL DEF DaemonSpec
<1>5. EngineSpec => [](TriedOK /\ AcknowledgedOnce /\ CrossedAsAsked)
  BY EngineRunsDaemon, TriedAlways, EachAcknowledgedOnce, CrossedAlwaysAsAsked, PTL
<1>6. EngineSafe /\ StallOK /\ [EngineNext]_allVars => StallOK'
  BY StallStep DEF EngineSafe
<1>7. EngineSpec => [](AnsweredOnce /\ AllCounted /\ PayloadsOK /\ StallOK /\ TemporalFine)
  BY <1>2, <1>6, EngineSafeAlways, AnsweredOnceStep, AllCountedStep, PayloadsStep,
     TemporalFineStep, PTL DEF EngineSpec
<1>8. EngineSafe /\ StallOK /\ AllCounted /\ PlanOK /\ [EngineNext]_allVars => PlanOK'
  BY <1>1, PlanOKStep
<1>9. EngineSpec => []PlanOK
  BY <1>2, <1>7, <1>8, EngineSafeAlways, PTL DEF EngineSpec
<1>10. EngineSafe /\ StallOK /\ PlanOK /\ PendingOK /\ [EngineNext]_allVars => PendingOK'
  BY <1>1, PendingOKStep
<1>11. EngineSpec => []PendingOK
  BY <1>2, <1>7, <1>9, <1>10, EngineSafeAlways, PTL DEF EngineSpec
<1>12. EngineSafe /\ PendingOK /\ PunctualOK /\ [EngineNext]_allVars => PunctualOK'
  BY <1>1, PunctualStep
<1>13. EngineSpec => []PunctualOK
  BY <1>2, <1>11, <1>12, EngineSafeAlways, PTL DEF EngineSpec
<1>14. EngineSafe /\ StallOK /\ PlanOK /\ TemporalFine /\ TraceOK /\ [EngineNext]_allVars
         => TraceOK'
  BY <1>1, TraceOKStep
<1>15. EngineSpec => []TraceOK
  BY <1>2, <1>7, <1>9, <1>14, EngineSafeAlways, PTL DEF EngineSpec
<1>16. EngineSafe /\ StallOK /\ PlanOK /\ PlanOK' /\ EngineSafe' /\ PairedOK
         /\ [EngineNext]_allVars => PairedOK'
  BY <1>1, PairedStep
<1>17. EngineSpec => []PairedOK
  BY <1>2, <1>7, <1>9, <1>16, EngineSafeAlways, PTL DEF EngineSpec
<1>18. EngineSpec => []OrphanOK
  BY <1>2, <1>5, <1>7, <1>9, <1>13, EngineSafeAlways, OrphanStep, PTL DEF EngineSpec
<1>19. EngineSafe /\ StallOK /\ CrossedAsAsked /\ AdmissionOK /\ [EngineNext]_allVars
         => AdmissionOK'
  BY <1>1, AdmissionStep
<1>20. EngineSpec => []AdmissionOK
  BY <1>2, <1>5, <1>7, <1>19, EngineSafeAlways, PTL DEF EngineSpec
<1>21. EngineSafe /\ Progress /\ VerdictOK /\ StallOK /\ AnsweredOnce /\ AnswersOK
         /\ AcknowledgedOnce /\ CrossedAsAsked /\ TriedOK /\ PunctualOK /\ PlanOK /\ TraceOK
         /\ PairedOK /\ OrphanOK /\ AdmissionOK => MechanismShown
  <2> SUFFICES ASSUME EngineSafe, Progress, VerdictOK, StallOK, AnsweredOnce, AnswersOK,
                      AcknowledgedOnce, CrossedAsAsked, TriedOK, PunctualOK, PlanOK, TraceOK,
                      PairedOK, OrphanOK, AdmissionOK, harness = "classified"
               PROVE  Evidence /\ outcome # "disagrees"
    BY DEF MechanismShown
  <2>1. trial \in Trials /\ outcome = Verdict
    BY DEF VerdictOK, EngineSafe, EngineTyped, HarnessTypeOK
  <2>2. Evidence
    <3>1. CASE trial.engine = "trueforge"
      <4>1. TurnsAgree
        BY <3>1, ForgeShown
      <4>2. QED
        BY <3>1, <4>1 DEF Evidence
    <3>2. CASE trial.engine \in {"dbos", "temporal"} /\ trial.barrier \in HiddenBarrier
      <4>1. Judged(trial)
        BY <3>2 DEF Judged
      <4>2. QED
        BY <3>2, <4>1, TraceShown
    <3>3. CASE /\ trial.engine # "trueforge"
               /\ ~ (trial.engine \in {"dbos", "temporal"} /\ trial.barrier \in HiddenBarrier)
      BY <3>3 DEF Evidence
    <3>4. QED
      BY <3>1, <3>2, <3>3
  <2>3. outcome # "disagrees"
    <3>1. CASE Admission(trial)
      <4>1. AdmissionAgrees
        BY <3>1, AdmissionShown
      <4>2. Verdict = "agrees"
        BY <3>1, <4>1 DEF Verdict, Admission
      <4>3. QED
        BY <2>1, <4>2
    <3>2. CASE ~ Admission(trial)
      <4>1. Verdict \in {"void", Classify(Intent, dump, store)}
        BY <3>2 DEF Verdict, Admission
      <4>2. QED
        BY <2>1, <4>1, ClassifyRange
    <3>3. QED
      BY <3>1, <3>2
  <2>4. QED
    BY <2>2, <2>3
<1>22. QED
  BY <1>4, <1>5, <1>7, <1>9, <1>13, <1>15, <1>17, <1>18, <1>20, <1>21, EngineSafeAlways, PTL
=============================================================================
