----------------------------- MODULE DurableStep -----------------------------
(***************************************************************************)
(* What model/ promises of every runtime: one step with one external       *)
(* effect, crashed once at a barrier and recovered, its effect crossing a  *)
(* boundary that dedups by key.  This is the lifecycle predict.py derives  *)
(* its cells from, abstract over the engine: a completion is one bit, an   *)
(* effect crosses in one step.  Detailed modules implement it.             *)
(***************************************************************************)
EXTENDS Lifecycle, Sequences, Integers

CONSTANTS
  Rows,     \* the rows whose steps may be tried
  Fixed,    \* the payload of a deterministic step
  Drawn     \* the payloads a nondeterministic step may draw

\* The rows for which the prediction's rule for no durability, which reads
\* nothing but the phase, is the whole story.  Every declared row is one.
SupportedRow(rt) ==
  rt.durability = "none" => /\ rt.effect_mode = "naive"
                            /\ rt.determinism = "deterministic"
                            /\ rt.persist_order # "persist_then_effect"

ASSUME RowsAssumption == Rows \subseteq RuntimeRow /\ \A rt \in Rows : SupportedRow(rt)
ASSUME DrawAssumption == Fixed \notin Drawn

VARIABLES
  row, phase,  \* the runtime and the barrier of the trial
  stage,       \* "idle", "running", "down", "recovering", "done" or "aborted"
  ran,         \* this incarnation of the process has performed the effect
  persisted,   \* the completion is durable
  crossed      \* the distinct effects, in order: each its key and its payload

stepVars == <<row, phase, stage, ran, persisted, crossed>>

Payload == Drawn \cup {Fixed}

\* The key an effect crosses under: none, derived from the content, or prepared
\* before the draw.
Naive == [by |-> "nothing"]
Derived(p) == [by |-> "content", of |-> p]
Prepared == [by |-> "prepared"]
EffectKey == {Naive, Prepared} \cup {Derived(p) : p \in Payload}

\* Mutant: the content itself stands for the key derived from it.
KeyFor_Bare(rt, p) == IF rt.effect_mode = "idempotent" THEN p ELSE Naive

KeyFor(rt, p) == CASE rt.effect_mode = "naive" -> Naive
                   [] rt.effect_mode = "idempotent" -> Derived(p)
                   [] rt.effect_mode = "two_phase" -> Prepared

Crossings == Seq([key : EffectKey, payload : Payload])

\* A draw made during the step is never repeated; a deterministic step has none.
FreshPayload(p) ==
  IF row.determinism = "deterministic" THEN p = Fixed
  ELSE p \in Drawn /\ \A n \in 1 .. Len(crossed) : crossed[n].payload # p

Cross(key, p) ==
  crossed' = IF key # Naive /\ \E n \in 1 .. Len(crossed) : crossed[n].key = key
               THEN crossed
               ELSE Append(crossed, [key |-> key, payload |-> p])

StepInit ==
  /\ row \in Rows
  /\ phase \in Phase
  /\ stage = "idle"
  /\ ran = FALSE
  /\ persisted = FALSE
  /\ crossed = << >>

Begin ==
  /\ stage \in {"idle", "done", "aborted"}
  /\ row' \in Rows
  /\ phase' \in Phase
  /\ stage' = "running"
  /\ ran' = FALSE
  /\ persisted' = FALSE
  /\ crossed' = << >>

\* The crash run of a persist-then-effect runtime persists first; everything
\* else performs the effect first.  A recovery consults the completion.
PersistsFirst == stage = "running" /\ row.persist_order = "persist_then_effect"
Skips == stage = "recovering" /\ row.durability = "durable" /\ persisted /\ ~ ran

Effect ==
  /\ stage \in {"running", "recovering"}
  /\ ~ ran /\ ~ Skips
  /\ (PersistsFirst => persisted)
  /\ (stage = "running" => (persisted <=> PersistsFirst))
  /\ \E p \in Payload : FreshPayload(p) /\ Cross(KeyFor(row, p), p)
  /\ ran' = TRUE
  /\ UNCHANGED <<row, phase, stage, persisted>>

Persist ==
  /\ stage \in {"running", "recovering"}
  /\ ~ persisted
  /\ (PersistsFirst <=> ~ ran)
  /\ persisted' = TRUE
  /\ UNCHANGED <<row, phase, stage, ran, crossed>>

AtBarrier == CASE phase = "before" -> ~ ran /\ ~ persisted
               [] phase = "between" -> ran # persisted
               [] phase = "after" -> ran /\ persisted

Crash ==
  /\ stage = "running"
  /\ AtBarrier
  /\ stage' = "down"
  /\ UNCHANGED <<row, phase, ran, persisted, crossed>>

Recover ==
  /\ stage = "down"
  /\ stage' = "recovering"
  /\ ran' = FALSE
  /\ UNCHANGED <<row, phase, persisted, crossed>>

Finish ==
  /\ stage = "recovering"
  /\ Skips \/ (ran /\ persisted)
  /\ stage' = "done"
  /\ UNCHANGED <<row, phase, ran, persisted, crossed>>

\* The harness gives a trial up: a run that passes its barrier by, whose process
\* fails, whose recovery stalls or whose ledger cannot be read back is one it does
\* not score.
Abort ==
  /\ stage \notin {"idle", "aborted"}
  /\ stage' = "aborted"
  /\ UNCHANGED <<row, phase, ran, persisted, crossed>>

StepNext == Begin \/ Effect \/ Persist \/ Crash \/ Recover \/ Finish \/ Abort

StepSpec == StepInit /\ [][StepNext]_stepVars
-----------------------------------------------------------------------------
StepTypeOK ==
  /\ row \in Rows
  /\ phase \in Phase
  /\ stage \in {"idle", "running", "down", "recovering", "done", "aborted"}
  /\ ran \in BOOLEAN
  /\ persisted \in BOOLEAN
  /\ crossed \in Crossings

\* The oracle's reading of the crossings (ledger/oracle.py classify).
Observed ==
  CASE Len(crossed) = 0 -> "lost"
    [] Len(crossed) = 1 -> "exactly_once"
    [] OTHER -> IF \E m, n \in 1 .. Len(crossed) : crossed[m].payload # crossed[n].payload
                  THEN "diverged" ELSE "duplicated"

\* For every declared row and every barrier, what a crash there and a recovery
\* leave at the boundary is what predict says (predict.py _predict).
PredictionHolds == stage = "done" => Observed = Predict(row, phase)
==============================================================================
