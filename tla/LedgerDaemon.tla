---------------------------- MODULE LedgerDaemon ----------------------------
(***************************************************************************)
(* ledger/daemon.py: the process that owns the ledger.  Clients send       *)
(* requests over the invoke socket; each is handled under the lock, in any *)
(* order, at any later time, whether or not the client still lives.  The   *)
(* control socket carries the harness's reset and seal, and dump, which    *)
(* changes nothing: it answers with Dump.                                  *)
(***************************************************************************)
EXTENDS LedgerCore

CONSTANTS
  MaxRequests,    \* bound: requests sent over the invoke socket
  MaxEpochs,      \* bound: resets of the ledger
  AppendMayFail   \* BOOLEAN: a store write may fail

ASSUME DaemonAssumption == /\ MaxRequests \in Nat
                           /\ MaxEpochs \in Nat
                           /\ AppendMayFail \in BOOLEAN

VARIABLES
  sealed,    \* _Daemon.sealed
  sent,      \* requests sent so far: the next request's number
  wire,      \* requests a client has sent and no handler has taken
  answers,   \* requests handled, each with its answer and the epoch it met
  epoch      \* resets so far

daemonVars == <<ledgerVars, store, sealed, sent, wire, answers, epoch>>

RequestId == 1 .. MaxRequests

\* op "control" stands for dump, seal, reset or an unknown verb sent over the
\* invoke socket.
Request == [id : RequestId, op : {"execute", "control"}, intent : Intents,
            key : Keys \cup {NoKey}, payload : Payloads, epoch : 0 .. MaxEpochs]

Answer == [req : Request, status : {"ok", "sealed", "refused", "no response"},
           epoch : 0 .. MaxEpochs]

DaemonTypeOK ==
  /\ LedgerTypeOK
  /\ sealed \in BOOLEAN
  /\ sent \in 0 .. MaxRequests
  /\ wire \subseteq Request
  /\ answers \subseteq Answer
  /\ epoch \in 0 .. MaxEpochs

DaemonInit ==
  /\ FreshState
  /\ store = << >>
  /\ sealed = FALSE
  /\ sent = 0
  /\ wire = {}
  /\ answers = {}
  /\ epoch = 0

Send(op, intent, key, payload) ==
  /\ sent < MaxRequests
  /\ sent' = sent + 1
  /\ wire' = wire \cup {[id |-> sent + 1, op |-> op, intent |-> intent,
                         key |-> key, payload |-> payload, epoch |-> epoch]}
  /\ UNCHANGED <<ledgerVars, store, sealed, answers, epoch>>

SendExecute(intent, key, payload) == Send("execute", intent, key, payload)
SendControl == Send("control", CHOOSE i \in Intents : TRUE, NoKey, CHOOSE p \in Payloads : TRUE)

\* A handler takes a request off the wire and answers it.
Reply(req, status) ==
  /\ req \in wire
  /\ wire' = wire \ {req}
  /\ answers' = answers \cup {[req |-> req, status |-> status, epoch |-> epoch]}
  /\ UNCHANGED <<sealed, sent, epoch>>

\* Mutant: the seal is not consulted.
HandleExecute_Unsealed(req) ==
  /\ req.op = "execute"
  /\ Execute(req.intent, req.key, req.payload)
  /\ Reply(req, "ok")

HandleExecute(req) ==
  /\ req.op = "execute" /\ ~ sealed
  /\ Execute(req.intent, req.key, req.payload)
  /\ Reply(req, "ok")

HandleSealed(req) ==
  /\ req.op = "execute" /\ sealed
  /\ Reply(req, "sealed")
  /\ UNCHANGED <<ledgerVars, store>>

\* An exception out of execute ends the connection: the client reads nothing.
HandleUnhashable(req) ==
  /\ req.op = "execute" /\ ~ sealed
  /\ ExecuteUnhashable(req.intent, req.payload)
  /\ Reply(req, "no response")

HandleAppendFails(req) ==
  /\ AppendMayFail
  /\ req.op = "execute" /\ ~ sealed
  /\ ExecuteAppendFails(req.intent, req.key, req.payload)
  /\ Reply(req, "no response")

HandleUnprivileged(req) ==
  /\ req.op = "control"
  /\ Reply(req, "refused")
  /\ UNCHANGED <<ledgerVars, store>>

Handle(req) ==
  \/ HandleExecute(req)
  \/ HandleSealed(req)
  \/ HandleUnhashable(req)
  \/ HandleAppendFails(req)
  \/ HandleUnprivileged(req)

HandleSeal ==
  /\ sealed' = TRUE
  /\ UNCHANGED <<ledgerVars, store, sent, wire, answers, epoch>>

HandleReset ==
  /\ epoch < MaxEpochs
  /\ epoch' = epoch + 1
  /\ sealed' = FALSE
  /\ NewState
  /\ UNCHANGED <<sent, wire, answers>>

DaemonNext ==
  \/ \E i \in Intents, k \in Keys \cup {NoKey}, p \in Payloads :
       SendExecute(i, k, p)
  \/ SendControl
  \/ \E req \in wire : Handle(req)
  \/ HandleSeal
  \/ HandleReset

DaemonSpec == DaemonInit /\ [][DaemonNext]_daemonVars

-----------------------------------------------------------------------------
\* The counters of one intent describe the same crossings: as many digests and
\* keys as side effects, no key twice, seen_keys exactly the keys that crossed,
\* and never more crossings than attempts (core.py execute, _crossed).
CrossingsAgree ==
  \A i \in Intents :
    /\ Len(effect_digests[i]) = side_effects[i]
    /\ Len(effect_keys[i]) = side_effects[i]
    /\ side_effects[i] <= attempts[i]
    /\ \A m, n \in 1 .. Len(effect_keys[i]) :
         effect_keys[i][m] = effect_keys[i][n] /\ m # n => effect_keys[i][m] = NoKey
    /\ seen_keys[i] = {effect_keys[i][n] : n \in 1 .. Len(effect_keys[i])} \ {NoKey}

\* The file is the chain that ends in the head held in memory, through every
\* execute, failed write and reset; only a torn line ends it early (core.py
\* _append, verify).
StoreOnChain ==
  /\ \A n \in 1 .. Len(store) : LineOnChain(store, n) \/ (n = Len(store) /\ store[n] = Torn)
  /\ \/ store # << >> /\ store[Len(store)] = Torn
     \/ Len(store) = count /\ head = PrevHash(store, Len(store) + 1)

\* As long as no write of this epoch failed, the chained records tell the same
\* story as the counters: the digests of an intent are those of its records that
\* were not deduped, in order (core.py execute, deduped read before _crossed).
WriteFailed == \E a \in answers : /\ a.epoch = epoch /\ a.status = "no response"
                                  /\ a.req.payload \notin Unhashable

CrossingLines(i) == {n \in 1 .. Len(store) : /\ store[n].record.intent_id = i
                                             /\ ~ store[n].record.deduped}

CrossingsOnRecord ==
  WriteFailed \/ \A i \in Intents :
    \E line \in [DOMAIN effect_digests[i] -> CrossingLines(i)] :
      /\ \A n \in CrossingLines(i) : \E m \in DOMAIN line : line[m] = n
      /\ \A l, m \in DOMAIN line : l < m => line[l] < line[m]
      /\ \A m \in DOMAIN line : store[line[m]].record.payload_digest = effect_digests[i][m]

\* Every acknowledged execute of this epoch counts exactly once: one crossing
\* per key however many requests carried it, one per keyless request, and none
\* that no request asked for (core.py execute under daemon.py handle's lock).
ExecutedNow(i, k) ==
  {a \in answers : /\ a.epoch = epoch /\ a.req.intent = i /\ a.req.key = k
                   /\ \/ a.status = "ok"
                      \/ a.status = "no response" /\ a.req.payload \notin Unhashable}

AcknowledgedOnce ==
  \A i \in Intents, k \in Keys \cup {NoKey} :
    LET crossings == {n \in DOMAIN effect_keys[i] : effect_keys[i][n] = k} IN
      Cardinality(crossings) =
        IF k = NoKey THEN Cardinality(ExecutedNow(i, k))
        ELSE IF ExecutedNow(i, k) = {} THEN 0 ELSE 1

\* Whatever is still on the wire when the harness seals, nothing but a reset
\* changes the ledger or its file afterwards (daemon.py handle).
SealFreezes == [][sealed /\ sealed' => UNCHANGED <<ledgerVars, store>>]_daemonVars

\* Stated by layers.py of VOID: doubt about the ledger's own integrity "is never
\* scored EXACTLY_ONCE".  Here: a trial scored exactly_once has its crossing on
\* the chained record.
DoubtNeverExactlyOnce ==
  \A i \in Intents :
    Classify(i, Dump, store) = "exactly_once" =>
      \E n \in 1 .. Len(store) : /\ store[n].record.intent_id = i
                                 /\ ~ store[n].record.deduped
==============================================================================
