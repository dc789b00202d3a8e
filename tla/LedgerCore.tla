----------------------------- MODULE LedgerCore -----------------------------
(***************************************************************************)
(* ledger/core.py: the state of one trial's ledger, the execute operation  *)
(* with its partial failures, the chained store file and its verification; *)
(* and ledger/oracle.py, which classifies a dump.                          *)
(*                                                                         *)
(* sha256 is taken to be collision free.  A payload's digest is the        *)
(* payload, and the chain hash h_i = sha256(h_{i-1} || record) is the       *)
(* sequence of the records hashed so far: two hashes are equal exactly     *)
(* when the records under them are.                                        *)
(***************************************************************************)
EXTENDS Integers, Sequences, FiniteSets

CONSTANTS
  Intents,      \* logical actions
  Keys,         \* idempotency keys (non-empty strings)
  NoKey,        \* None or "": a keyless call
  Payloads,     \* payloads, which are also their digests
  Unhashable,   \* the payloads canonicalize rejects
  Torn          \* a store line cut short by a failed write

ASSUME KeyAssumption == NoKey \notin Keys
ASSUME PayloadAssumption == Payloads # {} /\ Unhashable \subseteq Payloads
ASSUME IntentAssumption == Intents # {}

VARIABLES
  attempts, side_effects, effect_digests, effect_keys, seen_keys,
  head, count,  \* the fields of LedgerState
  store         \* the lines of the file at LedgerState.path

ledgerVars == <<attempts, side_effects, effect_digests, effect_keys, seen_keys, head, count>>

Genesis == << >>
Chain(prev, record) == Append(prev, record)

Record == [intent_id : Intents, keyed : BOOLEAN, attempt : Nat,
           deduped : BOOLEAN, payload_digest : Payloads]
Entry(i, prev, record) ==
  [i |-> i, prev |-> prev, record |-> record, hash |-> Chain(prev, record)]

Hash == Seq(Record)
Written == [i : Nat, prev : Hash, record : Record, hash : Hash]
Line == {Torn} \cup Written

ASSUME TornAssumption == Torn \notin Written

FreshState ==
  /\ attempts = [i \in Intents |-> 0]
  /\ side_effects = [i \in Intents |-> 0]
  /\ effect_digests = [i \in Intents |-> << >>]
  /\ effect_keys = [i \in Intents |-> << >>]
  /\ seen_keys = [i \in Intents |-> {}]
  /\ head = Genesis
  /\ count = 0

\* Mutant: the keys seen survive the reset.
NewState_KeepsKeys ==
  /\ attempts' = [i \in Intents |-> 0]
  /\ side_effects' = [i \in Intents |-> 0]
  /\ effect_digests' = [i \in Intents |-> << >>]
  /\ effect_keys' = [i \in Intents |-> << >>]
  /\ head' = Genesis
  /\ count' = 0
  /\ store' = << >>
  /\ UNCHANGED seen_keys

\* LedgerState(path=store) once the old file is unlinked.
NewState ==
  /\ attempts' = [i \in Intents |-> 0]
  /\ side_effects' = [i \in Intents |-> 0]
  /\ effect_digests' = [i \in Intents |-> << >>]
  /\ effect_keys' = [i \in Intents |-> << >>]
  /\ seen_keys' = [i \in Intents |-> {}]
  /\ head' = Genesis
  /\ count' = 0
  /\ store' = << >>

(***************************************************************************)
(* execute.  Deduped when the intent has seen the key; otherwise it is a   *)
(* distinct side effect (_crossed).                                        *)
(***************************************************************************)
\* Mutant: keys are not scoped to their intent.
Deduped_AnyIntent(intent, key) == key # NoKey /\ \E i \in Intents : key \in seen_keys[i]

Deduped(intent, key) == key # NoKey /\ key \in seen_keys[intent]

Crossed(intent, key, digest) ==
  /\ side_effects' = [side_effects EXCEPT ![intent] = @ + 1]
  /\ effect_digests' = [effect_digests EXCEPT ![intent] = Append(@, digest)]
  /\ effect_keys' = [effect_keys EXCEPT ![intent] = Append(@, key)]

\* Everything execute changes before it writes the record.
CountAttempt(intent) == attempts' = [attempts EXCEPT ![intent] = @ + 1]

\* Mutant: a keyless call is remembered as a key of its own.
CountEffect_KeylessSeen(intent, key, digest) ==
  /\ seen_keys' = [seen_keys EXCEPT ![intent] = @ \cup {key}]
  /\ IF Deduped(intent, key)
       THEN UNCHANGED <<side_effects, effect_digests, effect_keys>>
       ELSE Crossed(intent, key, digest)

CountEffect(intent, key, digest) ==
  /\ seen_keys' = IF key = NoKey THEN seen_keys
                  ELSE [seen_keys EXCEPT ![intent] = @ \cup {key}]
  /\ IF Deduped(intent, key)
       THEN UNCHANGED <<side_effects, effect_digests, effect_keys>>
       ELSE Crossed(intent, key, digest)

\* Mutant: the record is built from the keys seen after the crossing.
ExecuteRecord_Late(intent, key, digest) ==
  [intent_id |-> intent, keyed |-> key # NoKey, attempt |-> attempts[intent] + 1,
   deduped |-> key # NoKey, payload_digest |-> digest]

ExecuteRecord(intent, key, digest) ==
  [intent_id |-> intent, keyed |-> key # NoKey, attempt |-> attempts[intent] + 1,
   deduped |-> Deduped(intent, key), payload_digest |-> digest]

\* A line written after a torn one is glued to it; verify never gets past either,
\* so what is written from there on is not told apart.
WriteLine(line) ==
  IF store # << >> /\ store[Len(store)] = Torn THEN store ELSE Append(store, line)

Execute(intent, key, payload) ==
  LET record == ExecuteRecord(intent, key, payload) IN
    /\ payload \notin Unhashable
    /\ CountAttempt(intent)
    /\ CountEffect(intent, key, payload)
    /\ store' = WriteLine(Entry(count, head, record))
    /\ head' = Chain(head, record)
    /\ count' = count + 1

\* canonicalize raises after the attempt was counted.
ExecuteUnhashable(intent, payload) ==
  /\ payload \in Unhashable
  /\ CountAttempt(intent)
  /\ UNCHANGED <<side_effects, effect_digests, effect_keys, seen_keys, head, count, store>>

\* Mutant: head and count move before the line is written.
ExecuteAppendFails_HeadFirst(intent, key, payload) ==
  /\ payload \notin Unhashable
  /\ CountAttempt(intent)
  /\ CountEffect(intent, key, payload)
  /\ store' \in {store, WriteLine(Torn)}
  /\ head' = Chain(head, ExecuteRecord(intent, key, payload))
  /\ count' = count + 1

\* Mutant: the key is remembered after the line is written.
ExecuteAppendFails_KeyAfter(intent, key, payload) ==
  /\ payload \notin Unhashable
  /\ CountAttempt(intent)
  /\ IF Deduped(intent, key)
       THEN UNCHANGED <<side_effects, effect_digests, effect_keys>>
       ELSE Crossed(intent, key, payload)
  /\ store' \in {store, WriteLine(Torn)}
  /\ UNCHANGED <<seen_keys, head, count>>

\* The file cannot be opened, or the write is cut short: the effect has been
\* counted, head and count have not moved.
ExecuteAppendFails(intent, key, payload) ==
  /\ payload \notin Unhashable
  /\ CountAttempt(intent)
  /\ CountEffect(intent, key, payload)
  /\ store' \in {store, WriteLine(Torn)}
  /\ UNCHANGED <<head, count>>

Dump == [attempts |-> attempts, side_effects |-> side_effects,
         effect_digests |-> effect_digests, effect_keys |-> effect_keys,
         head |-> head, count |-> count]

(***************************************************************************)
(* verify scans the lines in order and stops at the first one that is bad: *)
(* a torn line makes json.loads raise, a line off the chain is reported.   *)
(***************************************************************************)
PrevHash(lines, n) == IF n = 1 THEN Genesis ELSE lines[n - 1].hash

\* Mutant: a line is only compared with its own hash.
LineOnChain_SelfOnly(lines, n) ==
  /\ lines[n] # Torn
  /\ lines[n].hash = Chain(lines[n].prev, lines[n].record)

LineOnChain(lines, n) ==
  /\ lines[n] # Torn
  /\ lines[n].prev = PrevHash(lines, n)
  /\ lines[n].hash = Chain(lines[n].prev, lines[n].record)

Verify(lines) ==
  LET bad == {n \in 1 .. Len(lines) :
                /\ \A m \in 1 .. n - 1 : LineOnChain(lines, m)
                /\ ~ LineOnChain(lines, n)} IN
    CASE bad = {} -> "ok"
      [] \E n \in bad : lines[n] = Torn -> "raises"
      [] OTHER -> "broken"

\* oracle.classify, for an intent that was required to cross.  An exception out
\* of verify leaves the trial unclassified.
CrossingOutcome(digests) ==
  CASE Len(digests) = 0 -> "lost"
    [] Len(digests) = 1 -> "exactly_once"
    [] OTHER -> IF \E m, n \in 1 .. Len(digests) : digests[m] # digests[n]
                  THEN "diverged" ELSE "duplicated"

Classify(intent, dump, lines) ==
  CASE Verify(lines) = "raises" -> "raises"
    [] Verify(lines) = "broken" -> "void"
    [] OTHER ->
         LET n == dump.side_effects[intent]
             digests == dump.effect_digests[intent] IN
           IF n >= 2 /\ Len(digests) # n THEN "void"
           ELSE IF n >= 2 THEN CrossingOutcome(digests)
           ELSE IF n = 1 THEN "exactly_once" ELSE "lost"

LedgerTypeOK ==
  /\ attempts \in [Intents -> Nat]
  /\ side_effects \in [Intents -> Nat]
  /\ effect_digests \in [Intents -> Seq(Payloads)]
  /\ effect_keys \in [Intents -> Seq(Keys \cup {NoKey})]
  /\ seen_keys \in [Intents -> SUBSET Keys]
  /\ head \in Hash
  /\ count \in Nat
  /\ store \in Seq(Line)
==============================================================================
