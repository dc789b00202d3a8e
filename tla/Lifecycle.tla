------------------------------ MODULE Lifecycle ------------------------------
(***************************************************************************)
(* The pure model of the durable-execution lifecycle (package model/): the *)
(* vocabulary of layers.py, the barriers, the declared rows of runtimes.py *)
(* and the prediction of predict.py.  A row keeps only the properties that *)
(* predict reads; slugs, summaries and upstream notes are left out.        *)
(***************************************************************************)

\* layers.py: Outcome, Durability, PersistOrder, EffectMode, Determinism, Phase
Outcome == {"exactly_once", "duplicated", "diverged", "lost", "void"}
Durability == {"durable", "none"}
PersistOrder == {"effect_then_persist", "persist_then_effect", "race"}
EffectMode == {"naive", "idempotent", "two_phase"}
Determinism == {"deterministic", "nondeterministic"}
Phase == {"before", "between", "after"}

Barrier == {"b0", "b1", "b2"}

PhaseOf == [b \in Barrier |->
              CASE b = "b0" -> "before" [] b = "b1" -> "between" [] OTHER -> "after"]

RuntimeRow == [durability : Durability, persist_order : PersistOrder,
               effect_mode : EffectMode, determinism : Determinism]

Row(d, o, m, t) ==
  [durability |-> d, persist_order |-> o, effect_mode |-> m, determinism |-> t]

(***************************************************************************)
(* The four variants every real engine is declared in.                     *)
(***************************************************************************)
EngineRows(order) ==
  [mode \in {"naive", "idem", "nondet", "twophase"} |->
     CASE mode = "naive"    -> Row("durable", order, "naive", "deterministic")
       [] mode = "idem"     -> Row("durable", order, "idempotent", "deterministic")
       [] mode = "nondet"   -> Row("durable", order, "idempotent", "nondeterministic")
       [] mode = "twophase" -> Row("durable", order, "two_phase", "nondeterministic")]

LangGraphRows == EngineRows("race")
TemporalRows == EngineRows("effect_then_persist")
DBOSRows == EngineRows("effect_then_persist")
RestateRows == EngineRows("effect_then_persist")
VercelRows == EngineRows("effect_then_persist")

ControlRows ==
  [null     |-> Row("none", "effect_then_persist", "naive", "deterministic"),
   dup      |-> Row("durable", "effect_then_persist", "naive", "deterministic"),
   lost     |-> Row("durable", "persist_then_effect", "naive", "deterministic"),
   idem     |-> Row("durable", "effect_then_persist", "idempotent", "deterministic"),
   diverge  |-> Row("durable", "effect_then_persist", "idempotent", "nondeterministic"),
   twophase |-> Row("durable", "effect_then_persist", "two_phase", "nondeterministic")]

\* Every row some runtime is declared with.  Six controls and five engines.
DeclaredRows ==
  {ControlRows[k] : k \in DOMAIN ControlRows}
    \cup UNION {{rows[m] : m \in DOMAIN rows} :
                  rows \in {LangGraphRows, TemporalRows, DBOSRows,
                            RestateRows, VercelRows}}

(***************************************************************************)
(* The prediction: a total function of the row and the barrier's phase.    *)
(***************************************************************************)
\* Mutant: the idempotent branch is guarded by the effect mode alone.
PredictBetween_ModeOnly(rt) ==
  CASE rt.persist_order = "persist_then_effect" -> "lost"
    [] OTHER -> IF rt.effect_mode = "naive" THEN "duplicated" ELSE "exactly_once"

PredictBetween(rt) ==
  CASE rt.persist_order = "persist_then_effect" -> "lost"
    [] rt.persist_order # "persist_then_effect" /\ rt.determinism = "nondeterministic" ->
         IF rt.effect_mode = "two_phase" THEN "exactly_once" ELSE "diverged"
    [] rt.persist_order # "persist_then_effect" /\ rt.determinism = "deterministic" ->
         IF rt.effect_mode \in {"idempotent", "two_phase"}
           THEN "exactly_once" ELSE "duplicated"

Predict(rt, phase) ==
  IF rt.durability = "none"
    THEN IF phase = "before" THEN "exactly_once" ELSE "duplicated"
    ELSE IF phase = "between" THEN PredictBetween(rt) ELSE "exactly_once"
==============================================================================
