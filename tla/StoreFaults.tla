----------------------------- MODULE StoreFaults -----------------------------
(***************************************************************************)
(* The sealed store file suffers what the chain is meant to reveal: a line *)
(* is lost, two lines change places, a record is altered                   *)
(* (ledger/core.py's header; adversaries/reflexive.py alters a record).    *)
(***************************************************************************)
EXTENDS LedgerDaemon, SequencesExt

CONSTANT MaxFaults   \* bound: faults the file suffers
ASSUME FaultAssumption == MaxFaults \in Nat

VARIABLE faults
faultVars == <<daemonVars, faults>>

FaultyStore(lines) ==
  /\ sealed
  /\ faults < MaxFaults
  /\ faults' = faults + 1
  /\ store' = lines
  /\ UNCHANGED <<ledgerVars, sealed, sent, wire, answers, epoch>>

LoseLine == \E n \in 1 .. Len(store) : FaultyStore(RemoveAt(store, n))

SwapLines ==
  \E m, n \in 1 .. Len(store) :
    m < n /\ FaultyStore([store EXCEPT ![m] = store[n], ![n] = store[m]])

AlterRecord ==
  \E n \in 1 .. Len(store), p \in Payloads :
    /\ store[n] # Torn /\ store[n].record.payload_digest # p
    /\ FaultyStore([store EXCEPT ![n].record.payload_digest = p])

FaultInit == DaemonInit /\ faults = 0
FaultNext == \/ faults = 0 /\ DaemonNext /\ UNCHANGED faults
             \/ LoseLine
             \/ SwapLines
             \/ AlterRecord
FaultSpec == FaultInit /\ [][FaultNext]_faultVars

\* What verification is worth: a file that verifies is a prefix of what the
\* ledger chained, so no interior loss, no reordering and no edit goes unseen
\* (core.py verify).
VerifiedIsPrefix ==
  Verify(store) = "ok" =>
    /\ Len(store) <= Len(head)
    /\ \A n \in 1 .. Len(store) : store[n].record = head[n]

\* What core.py's header states: any edit, delete, or reorder breaks the chain.
AnyFaultBreaksChain ==
  Verify(store) = "ok" => [n \in 1 .. Len(store) |-> store[n].record] = head
==============================================================================
