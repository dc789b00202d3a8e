# crashpoint in TLA+

crashpoint crashes a durable-execution runtime at a named barrier, recovers it,
and reads from a ledger in another process how often the step's external effect
happened.  A pure model (`model/`) predicts the answer for every runtime and
barrier; the harness measures it.  This directory holds TLA+ modules translated
from that code, TLC configurations that check them on small instances, and
TLAPS proofs of the facts that hold for every instance.

Paths below are relative to `src/src/crashpoint/` unless they start with `src/`.

## 1. The system

| Component | State it keeps | Operations | Talks to |
|---|---|---|---|
| Lifecycle model and prediction (`model/`) | none; 26 declared rows, 3 barriers | `predict` | read by the matrices and by the tests |
| Ledger core (`ledger/core.py`, `canonical.py`) | counters, digests, keys seen, chain head; a JSONL file | `execute`, `dump`, `verify` | called by the daemon under a lock |
| Ledger daemon (`ledger/daemon.py`) | one `LedgerState`, `sealed` | invoke socket: `execute`; control socket: `dump`, `seal`, `reset` | adapters (invoke), harness (control) |
| Oracle (`ledger/oracle.py`) | none | `classify` over a dump and the file | harness |
| Idempotency keys (`ledger/idempotency.py`) | none | `derive_idempotency_key` | adapters |
| Control adapters (`adapters/controls.py`, `base.py`) | completion marker and identity file of one trial | crash run, recovery run, effect, draw | ledger (invoke socket), own files |
| Trial harness (`harness/trial.py`, `matrix.py`, `ledger_process.py`) | where the trial is | reset, crash run, recovery run, seal, dump, classify | adapter processes, ledger (control socket) |
| Reflexive adversary (`adversaries/reflexive.py`) | none | alters a line of the store | ledger file |
| LangGraph adapter, hidden barriers, admission ledger (`adapters/langgraph_adapter.py`, `harness/langgraph_*.py`) | SQLite checkpoints and pending writes, an admission file of its own | invoke, resume, replay of accepted runs | ledger, executor threads |
| DBOS adapter and hidden barriers (`adapters/dbos_adapter.py`, `harness/dbos_*.py`) | `workflow_status`, `operation_outputs` | steps, launch-time recovery, two modules under one workflow name | ledger |
| Temporal adapter and hidden barriers (`adapters/temporal_adapter.py`, `harness/temporal_*.py`) | the server's history and its pending tasks | workflow and activity tasks, retries, a second worker | ledger, server |
| Restate (`adapters/restate_adapter.py`, `harness/restate_matrix.py`) | server journal, a crash-once marker file | one journaled action, handler called again | ledger, server |
| Vercel Workflow (`src/runtime/vercel-workflow/`, `harness/vercel_matrix.py`) | the Local World: run, claim, completed steps; a marker | steps, recovery, a recovery that stalls | ledger, HTTP |
| CrewAI retry (`harness/crewai_retry*.py`) | event stream, receipts | tool retry, validation of events, receipt, report | ledger |
| TrueForge (`harness/trueforge_hidden.py`, `src/runtime/trueforge/`) | the server's turns, a marker | turn, tool call, effect, kill of the server | sidecar, ledger |
| Recomputability (`harness/recomputability.py`) | none | verdict over the keys of a sealed trial | harness |
| Isolation, inventories, statistics, text | none | pure or operating-system operations | |

What is hard in it:

* *Concurrency.*  The daemon serves every connection on a thread of its own; a
  request is handled when its thread takes the lock.  The client may be dead by
  then, the ledger sealed, or reset for the next trial.
* *Crashes.*  An adapter dies by SIGKILL, at its barrier or wherever somebody
  else kills it; the harness cannot tell the two apart.  Files are truncated
  before they are written.
* *Partial failure.*  `execute` counts an attempt before the payload may turn
  out not to be hashable, and counts the crossing before the store write may
  fail.  The Python adapters never look at the ledger's answer; the Vercel fixture
  and TrueForge's sidecar do, and the fixture's step is then run again.
* *Races inside a runtime.*  LangGraph writes a node's result on an executor
  while the next checkpoint supersedes it; the Vercel fixture writes a step's
  claim while the step runs; TrueForge answers the creation of a turn while it
  runs.  The kill may fall on either side.
* *Timeouts.*  Temporal retries an attempt that outlived its timeout while the
  first still reaches the ledger; a CrewAI subject that timed out is followed at
  once by the next trial; a Vercel recovery may stall for good.
* *Repetition.*  A recovery that re-runs a step redraws its content; whether
  the ledger dedups it depends on how the key was made.
* *Carry-over.*  All the trials of a matrix share one daemon, one file and one
  intent; a reset must leave nothing behind.

Per component, what makes it correct: of the ledger, that counters, digests,
keys, file and answers tell one story whatever fails; of the chain, that a file
which verifies is what was recorded; of the daemon, that a seal is final; of
the lifecycle, that every row ends where `predict` says; of a trial, that its
verdict is predicted, final, and drawn from its own effects only; of the
harness, that a trial ends; of an engine, that its trials end as predicted by
the mechanism their rule names; of CrewAI, that a certified trial is what was
registered.

## 2. Modules

| Module | Models | Used by |
|---|---|---|
| `Lifecycle` | `model/`: enums, barriers, the 26 rows, `predict` | `DurableStep`, `TrialHarness` |
| `LedgerCore` | `LedgerState`, `verify`, `classify` | `LedgerDaemon` |
| `LedgerDaemon` | the daemon, its sockets and its lock | everything with a ledger |
| `StoreFaults` | the daemon's file after it was damaged | |
| `DurableStep` | the abstract specification: one effect, one crash, one recovery | refined by `ControlTrial`, `EngineTrials` |
| `TrialHarness` | `run_trial`, and what every adapter process does | the adapters below |
| `ControlTrial` | the six controls, the recomputability verdict | |
| `LangGraphAdapter`, `DbosAdapter`, `TemporalAdapter`, `ServiceAdapters`, `TrueForgeAdapter` | an engine's durable state, its two programs, its evidence | `EngineTrials` |
| `EngineTrials` | the harnesses of the six engines | |
| `CrewRetry` | the CrewAI run: subject, framework, validation, receipts | |
| `MCLedgerDaemon`, `MCDurableStep`, `MCControlTrial`, `MCEngineTrials`, `MCCrewRetry` | constants and symmetry for TLC | |
| `LedgerProofs`, `FaultProofs`, `DurableStepProofs`, `TrialProofs`, `EngineProofs`, `RecoveryProofs`, `OutcomeProofs`, `CrewProofs` | theorems | |

### Lifecycle

A runtime is the record of the four properties `_predict` reads.  `EngineRows`
gives the four variants in which each of the five engines is declared; the rows
of `runtimes.py` are listed by engine.  Rationales, slugs and rendering are text
and left out.

### LedgerCore

The variables are the fields of `LedgerState` and the lines of its file.
Dictionaries are total functions with the default of `dict.get`; an `effect_keys`
entry of `None` is `NoKey`, and so is the empty string, which `if key:` and the
daemon's `str(key) if key else None` treat alike.

`sha256` is taken to be free of collisions.  The digest of a payload is the
payload; the chain hash `h_i = sha256(h_{i-1} | record)` is the sequence of
records hashed so far, so that two hashes are equal exactly when what is under
them is equal.  A record keeps the fields the oracle and the properties tell
apart; the constant `op` and the optional `attempt_id` are dropped.

`execute` has three ends, each an operator:

* `Execute`: attempt, crossing or dedup, line written, head and count moved;
* `ExecuteUnhashable`: `canonicalize` raises (a float that is not finite, a
  key that is not a string) after the attempt was counted;
* `ExecuteAppendFails`: the file cannot be opened, or the write is cut short.
  Everything but head and count has changed; the file is as it was or ends in a
  line cut short (`Torn`).  The cut is taken to fall inside the JSON text.  A
  line written after it is glued to it, and `verify` raises on either.  A torn
  line is not one that was written in full (`TornAssumption`).

`Verify` has the code's three ends: it accepts, it reports a line, or
`json.loads` raises.  `Classify` is `oracle.classify` for a required intent.

### LedgerDaemon

`wire` holds the requests clients have sent and no handler has taken, in no
order; `answers` what was answered, and in which epoch (resets so far).  One
action per branch of `_Daemon.handle`.  An exception out of `execute` ends the
connection, and the client's `_request` returns "no response".  `dump` changes
nothing; it is the operator `Dump`, read by the harness in `TrialHarness`.

### StoreFaults

After the seal a line is lost, two change places, or a record is altered: the
three kinds of damage `ledger/core.py:8-10` lists, the last as
`adversaries/reflexive.py` does it.

### DurableStep

What `predict.py` derives its cells from, as a state machine: `Effect` crosses
the boundary unless its key already did, `Persist` makes the completion durable,
`Crash` needs the barrier's phase, `Recover` starts the step again, and a
recovery of a durable runtime with a durable completion `Skips`.  Keys are
nothing, derived from the content, or prepared before the draw; a draw is never
repeated.  For a RACE row the crash is at the barrier the harness forces, so the
effect comes first.

`_predict` reads nothing but the phase when there is no durability, so it is
only right there for a naive, deterministic row that does its effect first.
`SupportedRow` says so; every declared row satisfies it (an assumption TLC
evaluates in `MCDurableStep`), and the assumption `RowsAssumption` carries it
into the proofs.

### TrialHarness

The harness, one adapter process at a time and the daemon, trial after trial.

* A process is the list of steps it has still to take; a kill empties the list.
  A barrier is a step too, kept (`ArmedWith`, `CrashAt`) only where it is armed.
* `SendEffect` draws, takes the key the adapter made and puts the request on the
  wire; the process then waits for its answer (`ReceiveReply`).  `base.effect`
  drops it whatever it says.  The Vercel fixture rejects one that is empty or not
  ok, and the sidecar one that is empty (`Rejects`): the effect then throws
  (`RejectReply`), and a barrier behind it does not strike.  A killed process's
  request stays on the wire.
* `uuid` draws are never repeated (`UuidDraws`); a model's may be, and a model's
  sampler may fail.  The Vercel fixture draws uuids whatever it is told.
* `run_trial` is `StartTrial`, `CrashRunEnds`, `RecoveryRunEnds`, `SealLedger`,
  `ReadDump`, `ClassifyTrial`, with `TrialFails` and `Timeout` for
  `TrialExecutionError`, after which the matrix stops.
* The matrix and TrueForge score all their trials under one intent, the other
  harnesses name an intent per trial (`IntentOf`); trials of different harnesses
  do not share a ledger (`HarnessOf`).

`disk` is whatever the runtime makes durable.  Each adapter module gives it a
type, its first value, the programs of the crash and the recovery run over it,
and the actions for the steps in them that are its own.

### ControlTrial

Completion marker and identity file.  `write_text` is two steps: the file is
there and empty, then it has its content.  A kill between them leaves an
identity of `""`, hence no key.  `read_identity` may push the two steps of
`prepare_identity` in front of the process.  `Recomputability` is the verdict of
`recomputability.py` over the keys of the sealed ledger.

`Step == INSTANCE DurableStep` is the refinement mapping: the effect happens
when the daemon handles it (an answer to this process's request exists), the
completion is durable once the marker exists, the crossings are the ledger's
keys and digests, a failed trial, or one whose ledger cannot be read back, is an
aborted step.

### The engines

An engine is modelled from how the repository uses it; what it does on its own
is marked external.

* `LangGraphAdapter`: the last checkpoint and whether writes are pending on it.
  After the charge node its `put_writes` and the superseding `put` run in every
  order (`Race`).  A recovery without a checkpoint meets `EmptyInputError`.  The
  admission trials add a file of events outside the runtime, from which an
  accepted run is replayed.
* `DbosAdapter`: workflow status and recorded step outputs.  An output commits
  after its step returned; launch runs what the outputs leave.  Of two modules
  registered under one name, recovery runs the last.
* `TemporalAdapter`: the server's one pending workflow task and one pending
  activity, each ready or taken.  The server times out what nobody works on, and
  (`SlowAttempts`) what somebody still does; a late report is dropped.
* `ServiceAdapters`: Restate's journaled action, and the Vercel fixture's run,
  claim and completed steps, the claim being written while the step's body
  already runs.  Both leave the crash marker, then kill themselves.  A charge of
  the fixture's that threw is run again (`RetryCharge`, `charge.maxRetries`), under
  the claim it was begun with.
* `TrueForgeAdapter`: the server's two turns; sidecar and server are one process,
  in which the answer to the turn's creation races the turn.  A tool that throws is
  answered by an error, before the marker is written (`ToolThrows`), so its crash
  run ends without the crash the harness waits for.

`EngineTrials` dispatches on the engine of the trial and adds what a hidden
trial or an admission trial judges beyond the outcome (`Evidence`, `Verdict`).
`predict` knows of no failed write.  `OutcomeToExpect` is its prediction but where
the fixture charged again for one (`ChargedAgain`): a naive effect then crossed
twice at whichever barrier, a redrawn one as two effects, and a keyed one once all
the same.

### CrewRetry

One process per trial: the subject and, around its tool, CrewAI's retry loop
(`Caught`), which calls the tool up to three times and gives up.  A subject may
die, be killed when its time is up (its output is then not parsed), or have its
ledger write fail.  A trial is certified from three witnesses: the event stream
(`InjectionShown`), the exit status, the sealed ledger.  `Receipt`, `Valid` and
`Report` are `run_trial`'s end, `validate_receipt` and `run`'s.

## 3. What TLC checks

| Run | Instance | Distinct states | Question |
|---|---|---|---|
| `ledger` | 2 intents, 1 key, 2 payloads and an unhashable one, 3 requests, 1 reset, writes may fail | 849 000 | do counters, file and answers agree, whatever order and failures? |
| `store_faults` | 1 intent, 3 requests, 2 faults | 32 000 | what is a file worth that verifies? |
| `store_lost_tail` | as above | violation | does every loss break the chain? |
| `doubt` | 1 intent, 2 requests, writes may fail | violation | is a doubtful ledger never scored exactly_once? |
| `step` | all 20 supported rows, 3 barriers, 3 draws | 1 200 | is `predict` what the lifecycle does? |
| `trial` | 6 controls, 3 barriers, 2 trials, fresh draws, ledger writes may fail | 46 900 | is every control trial scored as predicted, and does it implement the lifecycle? |
| `trial_kills` | the 3 controls that key their effect, 2 trials, kills anywhere, writes that fail, repeated draws, sampler failures, timeouts | 953 000 | what survives a kill at any point, and does every trial end? |
| `engines` | every engine, mode and barrier, 1 trial, 4 requests, 4 draws, writes that fail | 129 000 | does every engine's trial end as predicted, by the mechanism its rule names, and what does a failed write change, for those who look at the answer and those who do not? |
| `engine_kills` | 2 trials, kills anywhere, slow attempts, repeated draws, sampler failures, timeouts | 1 095 000 | what survives all of that? |
| `langgraph_race` | 4 LangGraph cells | violation | is b1 deterministic? |
| `crewai` | one trial of each case, subjects that die or time out, writes that fail | 791 000 | is what is certified what was registered, and does the run end? |
| `crewai_report` | as above | violation | is a shortfall reported, and not a reason to report nothing? |

Of the ledger:

* `CrossingsAgree`: the four counters of an intent describe the same crossings,
  no key crosses twice, `seen_keys` is exactly the keys that crossed.
* `StoreOnChain`: the file is the chain that ends in the head in memory; only a
  torn last line interrupts it.
* `CrossingsOnRecord`: as long as no write failed, the digests of an intent are
  those of its chained records that were not deduped, in order.
* `AcknowledgedOnce`: one crossing per key however many requests carried it, one
  per keyless request, none nobody asked for.
* `SealFreezes`: between a seal and a reset nothing changes the ledger.
* `VerifiedIsPrefix`: a damaged file that verifies is a prefix of what was
  chained.

Of the trials:

* `PredictionHolds`, `OutcomeAsPredicted`, `EngineOutcomeAsPredicted`: the
  abstract step, each control and each engine's trial end as predicted, the last
  but for LangGraph's race at b1, and in `OutcomeToExpect` where writes fail.
* `AcknowledgedAsPredicted`: however often the Vercel fixture charges again, it is
  told of an effect once per process that got past the charge: twice where the
  crash falls between the answer and the step's completion, once elsewhere.  The
  crossings that are too many are those nobody acknowledged.
* `VerdictStands`: no later request changes what a verdict was read from.
* `OwnEffectsOnly`: without stray kills and timeouts, no crossing counted for one
  trial was asked for by another, acknowledged or not: a write that failed is
  answered by nothing and counted all the same.  What late requests of dead
  processes can do is `VerdictStands`'s and `KilledAnywhereOnce`'s question.
* `KilledAnywhereOnce`, `KilledAnywhereNotLost`, `RepeatedDrawShown`,
  `EngineKilledAnywhereOnce`: what holds when the kill is not at a barrier, when
  draws repeat, and when a dead process's request is handled late.  Three of
  them have the premise `OwnTrial` (`Undisturbed`): with a stray kill, and an
  intent the trials share, the request of one trial can be handled in the next,
  and then a second crossing is its.
* `RecomputableDecides`: at b1 the keys alone tell whether the effect crossed
  once or diverged.
* `MechanismShown`: where nothing else goes wrong a hidden trial's tables, history
  or turns agree with its rule, and an admission trial shows what it claims.
  `EvidenceMeansOnce`: and where other things go wrong, evidence that agrees
  still means one crossing.
* `StallIsTheClaim`: a Vercel recovery stalls exactly when the crash left a step
  claimed and not created.
* `MarkerMeansBarrier`: a service trial is scored only when its barrier's marker
  is there, and then in `OutcomeToExpect`, wherever else a signal struck.
* `LostOnlyUnadmitted`: an accepted run is lost to a crash before its first
  checkpoint and to nothing else, and not at all where it was admitted outside.
* `ImplementsStep`, `EnginesImplementStep`: control trials, and those of every
  engine but LangGraph, whose completion races, implement `DurableStep`.  The
  lifecycle has no second effect within one process, so a Vercel trial is followed
  up to the failed write (that write's own crossing included) and no further.

Of the CrewAI run:

* `CertifiedAsPredicted`: a certified trial ended as registered, whatever failed
  in it or before it.
* `CertifiedIsAcknowledged`: in a certified trial every effect the ledger counts
  was acknowledged to the tool and is on the chained file.
* `ReceiptStands`: a receipt stays true of the ledger until it is reset.

Liveness: `TrialEnds` and `EngineTrialEnds`, a trial that was started is
classified or given up (or, where the ledger rejects more charges than the bound on
requests counts, still asking: `OutOfRequests`); `RunEnds`, a CrewAI run reports or raises.

Fairness assumed: weak fairness of the adapter process (the operating system
runs it), of the daemon (a thread per connection, one lock, no waiting inside
it), of the harness's own steps once a trial runs (a sequential function), and
of a Temporal server's time-outs of tasks nobody works on any more
(`WorkflowTaskTimesOut`, `LostAttemptTimesOut`), without which a recovery waits
for what the crash left taken.  No fairness of `StartTrial`, of kills, of
time-outs of slow attempts, of a subprocess's time-out or of sampler failures.
`RunEnds` assumes only the harness's loop: `subprocess.run` bounds the time of a
subject, and neither subject nor daemon owes anything.

Bounds, and why they are enough:

* `MaxRequests` (3 at the daemon): a first call, a repeat under the same key
  and one for the other intent, any of which may fail; 4 in a trial: two per
  trial and two trials, a process sends at most one; 5 with slow attempts, so
  that one trial can send three; 4 in the one trial of `engines`, so that
  each process can be rejected once, or one of them twice; 5 in the CrewAI run: each
  case's calls and one more that failed and was retried.
* `MaxEpochs`: one reset at the daemon (before and after), two in a trial, so
  that a trial has a predecessor on the same ledger; one in `engines`, where
  the failed writes are (that a trial is not disturbed by its predecessor is what
  the two trials of `engine_kills` are for); three in the CrewAI run.
* `MaxAttempts` 3 (the policy allows 100): one that is late, one that is lost,
  one that completes.
* `MaxFaults` 2: a loss may hide an alteration, a swap may undo a swap.
* `Memos` has two values: the properties only ask whether draws are equal.  In
  `engines` it has four, because fresh draws run out and a charge that is
  repeated draws each time.
* No ledger write fails in `engine_kills`: kills and failed writes together pass ten
  million states.  `MarkerMeansBarrier` is proved with both (`ScoredWithItsMarker`).
* `KilledControls` arms b2 alone: with kills anywhere, a run armed at b2 may end
  at any point before it, which takes in the other two barriers.
* In `MCLedgerDaemon` intents and hashable payloads are symmetric, in
  `engine_kills` memos.  A refused control verb carries the payload and intent
  of no one; nothing reads them.

Deadlock checking is off in every run: the bounds on requests, resets and
trials end each behaviour, and a harness that has failed stays failed.

## 4. Findings

* `store_lost_tail` (`ledger/core.py:106`).  The header of `core.py` says "any
  edit, delete, or reorder breaks the chain and the run is VOID".  `verify` reads
  the file alone, and neither it nor `classify` compares the recomputed head with
  the head and count of the dump: a file without its last lines, or no file,
  verifies.  `VerifiedIsPrefix` says what does hold.
* `doubt` (`ledger/core.py:91`).  `layers.py` says of VOID that "doubt is never
  scored EXACTLY_ONCE".  A store write that fails leaves the crossing counted and
  the record missing; the file verifies and the trial is scored exactly_once.
* `langgraph_race` (`adapters/langgraph_adapter.py:60`).  The adapter's header
  says b1 and b2 show both outcomes of the race "deterministically".  b1 kills in
  `put_writes`, and nothing holds back the superseding `put` on the other thread:
  where it lands first, the recovery skips the node and the trial is exactly_once
  where duplicated is predicted.  `harness/matrix.py:4-5` is more careful ("reads
  its real rate with error bars"), and in the evidence the repository has
  collected the predicted outcome always came.
* `crewai_report` (`harness/crewai_retry.py:346`).  The module says anything short
  of a full observation "reports effect_count=null and classification
  UNVERIFIED".  A subject that timed out or died before it entered the tool has
  no attempt, `validate_receipt` refuses the receipt, and `run` raises: no trial
  is reported at all.

## 5. What is proved

All proofs are checked by TLAPS, for every value of the constants that meets the
named assumptions.

`LedgerProofs` (assumptions `KeyAssumption`, `PayloadAssumption`,
`IntentAssumption`, `DaemonAssumption`):

* `DaemonTypeCorrect`: `DaemonSpec => []DaemonTypeOK`.  `DaemonTypeOK` is
  inductive.  `HandleSplit` reduces the five branches of `handle` to what they
  may do to the ledger (nothing, `Execute`, or one of its two failures), and the
  later proofs reuse it.
* `CrossingsAlwaysAgree`: `DaemonSpec => []CrossingsAgree`, inductive over type
  correctness.  `Agrees` states it of one intent's counters; `AgreesAppend` is
  the only hard case, a crossing under a key not seen yet or under none.
* `StoreAlwaysOnChain`: `DaemonSpec => []StoreOnChain`, inductive over type
  correctness.  `AppendOnChain` says that appending a line which continues the
  chain, or is torn, keeps the lines before it on the chain.
* `SealFreezesLedger`: `DaemonSpec => SealFreezes`, step by step.
* `EachAcknowledgedOnce`: `DaemonSpec => []AcknowledgedOnce`, from `AnswersOK` (a
  request on the wire has no answer yet, and none has two) and `CountedOK`, which
  counts the crossings of one intent under one key.  An execute adds one answer
  to the set it counts and, unless it is deduped, one crossing.
* `CrossingsAlwaysOnRecord`: `DaemonSpec => []CrossingsOnRecord`.  Unless a write
  of this epoch failed the file has no torn line (`Whole`), and the positions of
  an intent's crossing lines form an increasing sequence (`Recorded`, `InOrder`)
  to which an execute appends the line it writes.
* `CrossedAlwaysAsAsked`: `DaemonSpec => []CrossedAsAsked`.  Every crossing counted
  has the key and the digest of one request that was executed in this epoch
  (`AskedAppend`); the proofs about trials read off it which draws crossed.

`FaultProofs` (those of `LedgerProofs`, `TornAssumption`):

* `VerifiedAlwaysPrefix`: a damaged file that verifies is a prefix of what was
  chained, for any number of faults.  No fault makes a hash: every line that is
  not torn carries the hash of some prefix of what was chained (`HashesOK`).  A
  file that verifies has no first bad line, hence none (`LeastMember`: the least
  counterexample, from the well-foundedness of `<`); then the hash of a line is
  as long as its place (`VerifiedLengths`), so it is that of as many records as
  were chained up to it.

`DurableStepProofs` (assumption `RowsAssumption`):

* `PredictionAlwaysHolds`: `StepSpec => []PredictionHolds`.  `PredictionHolds`
  only speaks of finished steps; `StepInv` adds what has crossed on the way.
  While the crash run lasts: nothing before the effect, one crossing after it,
  and the completion on its proper side of it (`CrashRunInv`).  Once recovering
  and before the effect is repeated: what each barrier left (`LeftByCrash`).
  After it was repeated, the outcome is already the predicted one, which is
  `SecondEffect` (two effects under a row's keys read as deduped, duplicated or
  diverged) with `PredictedTwice` (and that is what `predict` names).
* `StepTypeCorrect`: `StepSpec => []StepTypeOK`, from the same invariant.

`TrialProofs` (those of `LedgerProofs`, `TrialAssumption`, `ControlAssumption`),
with stray kills, failures, time-outs and repeated draws all allowed:

* `TrialTypeCorrect`: `TrialSpec => []TrialTypeOK`.  `TrialTyped` adds that the
  harness and the process agree on where they are (`PhaseOK`).
* `TrialRunsDaemon`: `TrialSpec => DaemonSpec`.  Control trials reach the ledger
  through the daemon alone, so whatever `LedgerProofs` establishes holds in
  every trial; the proofs below rest on `CrossingsAgree` and `StoreOnChain`.
* `VerdictAlwaysStands`: `TrialSpec => []VerdictStands`, from `VerdictOK`: what
  was dumped is what the ledger still shows, since it is sealed.
* `NeverLostWhereverKilled`: `TrialSpec => []KilledAnywhereNotLost`.  A verdict of
  lost needs an intent without a crossing.  `ProgressOK` follows the process: an
  effect-first process that got past its wait, or left a marker, was answered;
  `RequestsOK` ties the answer to the intent, and the answer was given before the
  seal, so it is a crossing or a dedup against one.
* `OnceWhereverKilled`: `TrialSpec => []KilledAnywhereOnce`.  Every request of the
  trial carries one and the same key (`KeysOK`): the content key of a
  deterministic payload, or, in two phases, the prepared key.  The latter needs
  that the effect is never sent while the identity file is empty: in the crash
  run because it is written in front of it, in the recovery because a crash
  between the two writes came before any send (`TwoPhaseProgram`).  If it was
  left empty no request of the first run exists, and the second sends one keyless
  request (`CountOK`).  With `CrossingsAgree`, one key is one crossing.
* `RepeatedDrawAlwaysShown`: `TrialSpec => []RepeatedDrawShown`.  Each of the two
  processes draws at most once, and its request carries the draw and the key made
  from it (`DrawsOK`).  By `CrossedAsAsked` each crossing carries a draw under its
  content key; two crossings have two keys, hence two draws, and the oracle
  compares the draws.

The second half of `TrialProofs` (with, as a hypothesis of each theorem,
`Orderly`: no stray kill, no failure but that of a ledger write, fresh draws):

* `ImplementsLifecycle`: `TrialSpec => ImplementsStep`.  The inductive invariant
  says that what a process has done is what it has not left to do: `Rank` orders
  the steps of a control's program, `EndOf` is where an armed barrier cuts it,
  and `OnProgram` and `ProcessOK` read the marker, the identity file, the wire
  and the answers off the steps left.  `ContentOK` says under which key and
  payload each effect crossed.  Then one lemma per action (`...Mapped`): it is a
  step of `DurableStep` under the mapping, or none.
* `OutcomeAlwaysPredicted`: `TrialSpec => []OutcomeAsPredicted`.  The refinement
  carries `PredictionAlwaysHolds` over (`D == INSTANCE DurableStepProofs` under
  the mapping); what is left is that the oracle scores the ledger as the abstract
  step is observed (`ScoredAsObserved`).
* `OwnEffectsAlways`: `TrialSpec => []OwnEffectsOnly`, for answers `ok` and for those
  that never came because the write failed, and `RecomputableAlwaysDecides`:
  `TrialSpec => []RecomputableDecides`, both from the same invariant.

`CrewProofs` (those of `LedgerProofs`, `CrewAssumption`):

* `ReceiptAlwaysStands`: `CrewSpec => []ReceiptStands`.  `ReceiptOK` adds one
  receipt per trial done and that the ledger is sealed from the dump to the next
  reset.
* `CrewTypeCorrect`: `CrewSpec => []CrewTypeOK`.  `RunsDaemon` shows that the run
  asks of the daemon only what its clients may, so `DaemonTypeStep` applies; the
  bound on the tool's calls is `SubjectOK`, in which CrewAI's counter and the
  calls printed so far move together.
* `CertifiedAlwaysAsPredicted`: `CrewSpec => []CertifiedAsPredicted`, and
  `CertifiedAlwaysAcknowledged`: `CrewSpec => []CertifiedIsAcknowledged`.
  `TallyOK` keeps the books of a trial that was not cut short: the calls of the
  tool are the answers to this trial's requests, the failures injected before the
  effect and the call that is still out (`InFlight`), and the acknowledgements
  printed are the answers `ok`.  A stream that `InjectionShown` accepts leaves no
  room in that sum for an answer that was not `ok` (`ShownTallies`), so
  `CountedOK` makes the crossings as many as the acknowledgements, and `LinesOK`
  the lines.  No request of another trial enters either count, because a request
  names its own trial's action (`RequestsOK`).

`EngineProofs` (those of `LedgerProofs`, `TrialAssumption`, `EngineAssumption`,
`TemporalAssumption`, `TrueForgeAssumption`), for all six engines, with stray
kills, failures, time-outs, slow attempts, repeated draws and failing ledger
writes all allowed:

* `EngineTypeCorrect`: `EngineSpec => []EngineTypeOK`, and `EngineRunsDaemon`:
  `EngineSpec => DaemonSpec`, so that `CrossingsAgree` and `AcknowledgedOnce` hold
  in every engine's trial too.
* `EngineVerdictStands`: `EngineSpec => []VerdictStands`, as for the controls.
* `LostOnlyToTheFirstCheckpoint`: `EngineSpec => []LostOnlyUnadmitted`.
* `OnceWhicheverEngine`: `EngineSpec => []EngineKilledAnywhereOnce`.

  A process is a sequence of steps, arming deletes from it (`ArmedWith`), a race
  merges two (`Interleavings`).  The first part of the module says what these do
  to the things the invariants read off a program: which steps it has (`Has`),
  which comes before which (`Before`), which it has at most once (`AtMostOnce`).
  The second is the invariant.  `EngineTyped` relates the steps left to the
  engine's durable state, engine by engine (`StateAt`): the LangGraph checkpoint
  to the nodes still to run, the DBOS outputs to the workflow steps, the Vercel
  steps completed to those to be started, the Temporal server's tasks to what the
  worker holds.  An effect that throws leaves a program of the same kind
  (`EngineRejects`): the fixture's charge begun again, or TrueForge's tool without
  its barrier.  `OrderAt` says that nothing becomes durable before the ledger
  answered: an effect's completion in the file system or at the server is behind
  the wait in every program, race and retry.  So as long as no effect was answered
  (`Made`) and the run was not lost (`Lost`), a recovery has before it a step that
  sends the effect or ends it in failure (`Leads`), and no recovery that exits
  zero has lost the effect (`Progress`).  `RequestsOK` ties each request to its
  trial's intent, `KeysOK` says that a keyed trial has one key: the content key of its
  one payload, or the one prepared before the draw.  Then `AcknowledgedOnce` makes
  one key one crossing.

`RecoveryProofs` (those of `EngineProofs`), with kills anywhere:

* `StalledByTheClaim`: `~ Failures` implies `EngineSpec => []StallIsTheClaim`.  A
  program hangs only where the Vercel recovery found the claim linked; a claim the
  process links itself is behind it before it starts the next step (`StallAt`), and
  a trial that neither hung nor failed has a verdict drawn from a chain that
  verifies.  Where an attempt may fail or time out, a recovery that found no such
  claim may end as stalled too; that is why the hypothesis is there.
* `EvidenceShowsOneCrossing`: `EngineSpec => []EvidenceMeansOnce`, with failures,
  time-outs, retries and slow attempts allowed.  The requests of the trial's own
  epoch (`Own`) are counted against what the engine recorded.  `DbosFine`: the crash
  run sends once, and a recovery that found an output does not send.
  `TemporalFine`: an activity whose history shows a first attempt only was sent by
  that attempt only.  Evidence that agrees therefore leaves at most one request
  (`EvidenceOfOne`), and one request is at most one crossing (`SingleCrosses`).
* `ScoredWithItsMarker`: `EngineSpec => []MarkerMeansBarrier`, where no Restate
  action that may repeat a draw is among the trials; without that hypothesis two
  equal draws are one effect (`exactly_once` at b1, where `diverged` is predicted).
  Failures, retries, stray kills and failing writes are all allowed.

  The invariant is a converse of `OrderAt`.  `Course` says how far a worker of
  Restate's or the Vercel fixture's can be from what it has left to do: nothing
  that is over comes again (`Onward`), and the barrier is still to come as long as
  what lies behind it is not durable.  From it `MarkerAt` reads the two runs
  together.  A worker that finds no marker is `Doomed`: it kills itself at the
  barrier, or hangs, so no recovery without a marker exits zero.  Where the marker
  was left (`Struck`), the crash run had sent nothing at b0, was answered at b1 and
  was durable at b2; the recovery's requests add to these, so that a scored trial
  has one request (`Single`) at b0 and b2 and two answered ones (`Twice`) at b1.
  `AllCounted`: until the seal every answer of this trial's is a counted one.
  Where the fixture threw for a write that failed, the requests counted are those
  since (`own` in `ServiceOK`), and `HeardOK` says that no charge is completed and no
  process over before some effect of the trial was acknowledged: that one and the
  one that was not are two requests, both counted (`OutcomeToExpect`).
  `PayloadsOK`: what each request carries was drawn, and never twice.  One request
  is one crossing; two naive ones are two equal ones, two nondeterministic ones
  have two content keys and two digests (`CrossedAsAsked`); a keyed trial is
  `OnceWhicheverEngine`'s.

`OutcomeProofs` (those of `RecoveryProofs`), for all six engines where nothing but
its barrier kills a trial:

* `EndsAsPredicted`: `EngineSpec => []EngineOutcomeAsPredicted`, with the hypotheses
  `~ StrayKills`, `~ Failures` and `~ SlowAttempts`, under which the code promises a
  prediction at all: each of the three is a second crash, and `engine_kills`
  checks what remains of the claim with them.  The fourth hypothesis
  is that no value is drawn twice, or that no nondeterministic action but the Vercel
  fixture's, which draws uuids, is tried: two equal draws are one effect, so the
  predicted `diverged` would not show.  Any number of trials, requests and memos;
  writes of the ledger may fail, and then the outcome is `OutcomeToExpect`.

  Restate's and Vercel's trials are `ScoredWithItsMarker`'s. A TrueForge trial
  whose tool threw in the crash run never meets its barrier (`Disarmed`), and is
  given up. For the other four (`Planned`) the invariant is `PlanOK`, which follows
  a trial from the program it was started with to its end:

  * `Laid`: how what a process has still to do lies over what is durable, engine by
    engine.  The rest of its program is `Sorted` by the rank of its steps, so that a
    step that is behind it cannot come again, and a step that needs something
    durable either finds it or has in front of it the step that writes it.
    LangGraph's completion races, and its order ends there (`ForkRank`).
  * `Due`: the process has yet to send, or is yet to be told that it need not.
    Every step that sends nothing leaves both alone (`Moved`).
  * `Severed`: what the barrier leaves.  Where it cuts the program is read off its
    name: before the request is sent (`EarlyBarriers`), between the answer and the
    completion (`MiddleBarriers`), or behind both (`LateBarriers`).  So the crash run
    asked for nothing, was counted, or was counted and is durable.
  * `Recovers`: what the recovery's program makes of that.  It is due again exactly
    where nothing durable tells it not to be, and it is not where the run itself was
    lost (`lg_pre_first_checkpoint`).  That b1 may leave a completion behind is
    possible for LangGraph alone, whose writer may have won the race.
  * `DueOnce`, `DueTwice`: a running process either is due or has a request of its
    own that was counted; where the recovery repeats the effect, that and another
    one besides.

  A scored trial therefore has no request (and is lost), exactly one (`Single`), or
  two that were counted.  What they carry says which of the predicted outcomes
  that is: two naive requests are two equal crossings, two draws are two keys and two
  digests (`PayloadsOK`), a keyed trial is `OnceWhicheverEngine`'s, and two workflows
  registered under one name charge through their two modules (`ChargesOK`; that each
  left a crossing is `KeylessShown`, inductive over the daemon alone).  A crossing
  found at the end is this trial's own: nobody waits for an answer but the process
  that sent the request last (`PendingOK`), hence no request of a classified trial
  is left to be counted in the next (`PunctualOK`), whichever trials share an
  intent.  Where one request was sent and the recovery skipped it, it had crossed
  (`FoundMade`: what is durable was answered).

* `MechanismAlwaysShown`: `EngineSpec => []MechanismShown`, with the hypotheses
  `~ StrayKills`, `~ Failures` and `~ SlowAttempts`: the rules of the hidden barriers
  are stated for a crash at the barrier and for none besides.  Nothing is asked of
  the draws.

  What the evidence has to be is read off what the process has still to do:

  * `TraceOK`: the rows of DBOS's tables, the events and counts of Temporal's history
    and TrueForge's turns are tied to the steps left (`TableRows`, `HistoryRows`,
    `TurnRows`), more tightly than by `Laid`, which only bounds them.  At the
    barrier this gives the rows the rule names (`Was`), from which the recovery's
    program starts, and at its end those it has to end with (`Is`).
  * `TriedOK`, inductive over the daemon alone: the attempts of an intent are the
    requests of this epoch that were tried, whether they crossed or not.
  * `PairedOK`, `OrphanOK`: TrueForge's two turns ask once each, so that the orphan's
    crossing is the one that was found, and the trial has two attempts.
  * `AdmissionOK`: an admission trial's crash run leaves no checkpoint and no request
    (`Untouched`).  The runtime then refuses to resume (`Refused`).  Only where the
    run was admitted outside it does the recovery replay the input
    (`Replaying`), and ends with one request and the three admission events
    (`Replayed`), so that each arm's loss or rescue is the one it claims.

Only model-checked: `TrialEnds`, `EngineTrialEnds` and `RunEnds`, which are liveness
under fairness and beyond the provers, and `EnginesImplementStep` and
`AcknowledgedAsPredicted`, which are not proved yet.

## 6. Not modelled

* Hash collisions, the text of JSON, malformed requests (they change nothing),
  the canonical text form and the guard against forbidden field names.
* `required=False` of `classify`, which no caller in the harness uses.
* The daemon dying (`ledger_process.py` starts it once and every trial fails
  without it), file permissions and containers (`adversaries/isolation.py`).
* `run_cell`'s statistics and modal outcome, argument building, rendering.
* Static data: `barrier_inventory.py`, `deferred_runtimes.py`; counts:
  `wilson.py`.
* The engines beyond what the adapters use of them: LangGraph's other channels,
  DBOS's queues, Temporal's timers, sharding and retention.
* TrueForge when a signal strikes the server or the sidecar alone: the model has
  them as one process, so `engine_kills` leaves it out.
* A store line cut between the end of its JSON text and its newline, which
  `json.loads` would still accept.
* A reset whose `unlink` fails, after `sealed` was already cleared.
* The end of retries: the Vercel fixture gives up a step after a hundred.  When it
  begins a step again is the Local World's doing, and taken to be at once.
* That a DBOS process whose sampler failed sleeps and then exits 0
  (`EngineSamplerFails` ends it at once): the harness waits for a SIGKILL and rejects
  both.
* Two conditions of `trueforge_hidden.py`'s agreement: `attempts_before == 1` and the
  412 of the orphan's subscription.
* CrewAI's environment fields and version checks; the wording of its problems.

## 7. What is left

* A proof of the engines' refinement of `DurableStep`: it needs `Cross` matched to
  each counted request as `TrialProofs` matches it for the controls, engine by
  engine over `PlanOK`.
* `canonicalize` and the forbidden-field guard as recursive operators over
  bounded values, for TLC only.
* TrueForge with server and sidecar as two processes.
