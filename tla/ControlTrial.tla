---------------------------- MODULE ControlTrial ----------------------------
(***************************************************************************)
(* adapters/controls.py under harness/trial.py: the six control adapters,  *)
(* whose durable state is a completion marker and an identity file, crash  *)
(* and recover trial after trial on one ledger and one intent.             *)
(*                                                                         *)
(* write_text is two steps, the file being there and empty after the first.*)
(***************************************************************************)
EXTENDS TrialHarness

ASSUME ControlAssumption ==
  \A t \in Trials : /\ t.engine = "control"
                    /\ t.mode \in DOMAIN ControlRows
                    /\ t.barrier \in Barrier

\* The marker and identity files: "absent", "empty" once opened, then "written".
NoFiles(t) == [marker |-> "absent", identity |-> "absent"]

\* controls._KINDS
Durable(t) == RowOf(t).durability = "durable"
PersistThenEffect(t) == RowOf(t).persist_order = "persist_then_effect"

Prepare == <<"open_identity", "write_identity">>
PersistSteps == <<"open_marker", "write_marker">>
EffectSteps == <<"identity", "send", "await">>
StepName == Barrier \cup {"check", "identity", "send", "await", "open_identity",
                           "write_identity", "open_marker", "write_marker"}

\* Mutant: the completion is always written first.
CrashRun_MarkerFirst(t) ==
  CrashAt("b0", t) \o PersistSteps \o CrashAt("b1", t) \o EffectSteps \o CrashAt("b2", t)

\* controls.run.
CrashRun(t) ==
  IF PersistThenEffect(t)
    THEN CrashAt("b0", t) \o PersistSteps \o CrashAt("b1", t) \o EffectSteps
           \o CrashAt("b2", t)
    ELSE (IF TwoPhase(t) THEN Prepare ELSE << >>)
           \o CrashAt("b0", t) \o EffectSteps \o CrashAt("b1", t) \o PersistSteps
           \o CrashAt("b2", t)

RecoveryRun == <<"check">> \o EffectSteps \o PersistSteps

\* Mutant: a recovery does not consult the marker.
CheckMarker_Blind ==
  /\ Running("check")
  /\ Advance
  /\ UNCHANGED <<daemonVars, harnessVars, exit, request, drawn, disk>>

CheckMarker ==
  /\ Running("check")
  /\ todo' = IF Durable(trial) /\ disk.marker # "absent" THEN << >> ELSE Tail(todo)
  /\ UNCHANGED <<daemonVars, harnessVars, exit, request, drawn, disk>>

WriteFile ==
  \/ Running("open_marker") /\ Persists([disk EXCEPT !.marker = "empty"])
  \/ Running("write_marker") /\ Persists([disk EXCEPT !.marker = "written"])
  \/ Running("open_identity") /\ Persists([disk EXCEPT !.identity = "empty"])
  \/ Running("write_identity") /\ Persists([disk EXCEPT !.identity = "written"])

\* read_identity: a missing identity is prepared on the spot.
ReadIdentity ==
  /\ Running("identity")
  /\ todo' = (IF TwoPhase(trial) /\ disk.identity = "absent" THEN Prepare ELSE << >>)
               \o Tail(todo)
  /\ UNCHANGED <<daemonVars, harnessVars, exit, request, drawn, disk>>

\* Mutant: the identity is derived from the draw.
EffectKeyOf_Content(memo) == IF Idempotent(trial) THEN ContentKey(memo) ELSE NoKey

\* Mutant: a drawn effect carries no key.
EffectKeyOf_Keyless(memo) == NoKey

\* Mutant: the payload stands for the key.
EffectKeyOf_Bare(memo) == memo

\* An empty identity file gives the key "", which the daemon takes for none.
EffectKeyOf(memo) ==
  CASE TwoPhase(trial) -> IF disk.identity = "written" THEN PreparedKey ELSE NoKey
    [] ~ TwoPhase(trial) /\ Idempotent(trial) -> ContentKey(memo)
    [] ~ Idempotent(trial) -> NoKey

(***************************************************************************)
(* harness/recomputability.py: from the process that never ran the step.   *)
(***************************************************************************)
\* Mutant: the prepared identity is not what is expected of a two-phase arm.
ExpectedKey_Content(t) == ContentKey(NoMemo)

ExpectedKey(t) == IF TwoPhase(t) THEN PreparedKey ELSE ContentKey(NoMemo)

\* recomputability.verdict.
Recomputability(keys) ==
  LET used == {keys[n] : n \in 1 .. Len(keys)} IN
  CASE used \subseteq {NoKey}                        -> "NO_IDENTITY"
    [] used = {ExpectedKey(trial)}                    -> "RECOMPUTABLE"
    [] used \notin {{}, {NoKey}, {ExpectedKey(trial)}} -> "NOT_RECOMPUTABLE"

DrawnEffect == \E memo \in Draws : SendEffect(memo, EffectKeyOf(memo))

Process == \/ KillSelf(TRUE)
           \/ Return
           \/ CheckMarker
           \/ WriteFile
           \/ ReadIdentity
           \/ DrawnEffect
           \/ SamplerFails
           \/ ReceiveReply

\* Every step of run_trial once it has begun, and neither failure nor another
\* trial, which nobody owes.
HarnessGoesOn == \/ CrashRunEnds(RecoveryRun)
                 \/ RecoveryRunEnds
                 \/ TrialFails
                 \/ SealLedger
                 \/ ReadDump
                 \/ ClassifyTrial(Classify(Intent, dump, store))

Harness == \/ \E t \in Trials : StartTrial(t, NoFiles(t), CrashRun(t))
           \/ Timeout
           \/ HarnessGoesOn

TrialNext == Process \/ StrayKill \/ Harness \/ Daemon

ControlInit == \E t \in Trials : TrialInit(t, NoFiles(t))

TrialSpec == ControlInit /\ [][TrialNext]_allVars

\* Every process that is not killed goes on, the daemon serves every connection
\* and run_trial waits for both.
FairTrialSpec == /\ TrialSpec
                 /\ WF_allVars(Process)
                 /\ WF_allVars(Daemon)
                 /\ WF_allVars(HarnessGoesOn)
-----------------------------------------------------------------------------
TrialTypeOK ==
  /\ HarnessTypeOK
  /\ todo \in Seq(StepName)
  /\ disk \in [marker : {"absent", "empty", "written"},
               identity : {"absent", "empty", "written"}]

\* Wherever the crash run is killed, at a barrier or anywhere between two steps,
\* mid-write or with the effect on the wire, a deterministic idempotent step and
\* a two-phase one cross exactly once (controls.py idem, twophase).
KilledAnywhereOnce ==
  Scored /\ OwnTrial /\ trial.mode \in {"idem", "twophase"} => outcome = "exactly_once"

\* Wherever the crash run is killed, a step that performs its effect before it
\* persists is never lost (controls.py run, recovery).
KilledAnywhereNotLost == Scored /\ ~ PersistThenEffect(trial) => outcome # "lost"

\* A draw that repeats itself makes the content-derived key dedup, and the trial
\* shows it: DIVERGED takes two draws, and a drawn effect is never DUPLICATED
\* (base.py draw_memo).
RepeatedDrawShown ==
  Scored /\ OwnTrial /\ trial.mode = "diverge" =>
    \/ outcome = "exactly_once"
    \/ outcome = "diverged" /\ Cardinality(drawn) = 2

\* The keys alone decide the trial at the lethal barrier: an identity that can be
\* recomputed crossed once, one that cannot diverged, whatever was drawn and
\* whichever process crossed (recomputability.py probe).
RecomputableDecides ==
  Scored /\ trial.barrier = "b1" =>
    LET verdict == Recomputability(dump.effect_keys[Intent]) IN
    /\ verdict = "RECOMPUTABLE" <=> Idempotent(trial) /\ outcome = "exactly_once"
    /\ verdict = "NOT_RECOMPUTABLE" <=> outcome = "diverged"

(***************************************************************************)
(* The trial implements the lifecycle the prediction is derived from.  The *)
(* completion is durable once the marker exists.                           *)
(***************************************************************************)
Step == INSTANCE DurableStep WITH
  Rows <- {RowOf(t) : t \in Trials},
  Fixed <- NoMemo,
  Drawn <- Memos,
  row <- RowOf(trial),
  phase <- PhaseOf[trial.barrier],
  stage <- AbstractStage,
  ran <- AbstractRan,
  persisted <- disk.marker # "absent",
  crossed <- AbstractCrossed

ImplementsStep == Step!StepSpec
==============================================================================
