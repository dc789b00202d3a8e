----------------------------- MODULE FaultProofs -----------------------------
(***************************************************************************)
(* What a store file is worth that verifies, for any number of requests,   *)
(* resets, failed writes and faults.                                       *)
(***************************************************************************)
EXTENDS StoreFaults, LedgerProofs, WellFoundedInduction

\* The provers cannot instantiate an induction theorem, but they can take the
\* least counterexample.
LEMMA LeastMember ==
  ASSUME NEW S \in SUBSET Nat, S # {}
  PROVE  \E x \in S : \A y \in S : x <= y
<1>1. PICK x \in S : \A y \in S : ~ (<<y, x>> \in OpToRel(<, Nat))
  BY NatLessThanWellFounded, WFMin, Zenon
<1>2. \A y \in S : ~ (y < x)
  BY <1>1 DEF OpToRel
<1>3. QED
  BY <1>2

-----------------------------------------------------------------------------
(***************************************************************************)
(* No fault makes a hash: whatever is still in the file carries the hash   *)
(* of some prefix of what was chained.                                     *)
(***************************************************************************)
HashOfPrefix(line, chained) ==
  line = Torn \/ \E k \in 1 .. Len(chained) : line.hash = SubSeq(chained, 1, k)

HashesOK == \A n \in 1 .. Len(store) : HashOfPrefix(store[n], head)

FaultInv == DaemonTypeOK /\ HashesOK

LEMMA PrefixGrows ==
  ASSUME NEW h \in Hash, NEW r \in Record, NEW line, HashOfPrefix(line, h)
  PROVE  HashOfPrefix(line, Append(h, r))
<1>1. CASE line = Torn
  BY <1>1 DEF HashOfPrefix
<1>2. ASSUME NEW k \in 1 .. Len(h), line.hash = SubSeq(h, 1, k)
      PROVE  HashOfPrefix(line, Append(h, r))
  <2>1. k \in 1 .. Len(Append(h, r)) /\ SubSeq(Append(h, r), 1, k) = SubSeq(h, 1, k)
    BY DEF Hash
  <2>2. QED
    BY <1>2, <2>1 DEF HashOfPrefix
<1>3. QED
  BY <1>1, <1>2 DEF HashOfPrefix

\* Writing a line whose hash is one keeps the file's hashes.
LEMMA WriteKeepsHashes ==
  ASSUME NEW h, NEW line, store \in Seq(Line), line \in Line, HashOfPrefix(line, h),
         \A n \in 1 .. Len(store) : HashOfPrefix(store[n], h)
  PROVE  \A n \in 1 .. Len(WriteLine(line)) : HashOfPrefix(WriteLine(line)[n], h)
<1>1. \A n \in 1 .. Len(Append(store, line)) :
        Append(store, line)[n] = IF n = Len(store) + 1 THEN line ELSE store[n]
  OBVIOUS
<1>2. QED
  BY <1>1 DEF WriteLine

LEMMA ExecuteKeepsHashes ==
  ASSUME FaultInv, NEW i \in Intents, NEW k \in Keys \cup {NoKey}, NEW p \in Payloads,
         Execute(i, k, p)
  PROVE  HashesOK'
<1> DEFINE r == ExecuteRecord(i, k, p)
<1>1. head' = Append(head, r) /\ store' = WriteLine(Entry(count, head, r))
  BY DEF Execute, Chain
<1>2. r \in Record /\ head \in Hash /\ store \in Seq(Line) /\ Entry(count, head, r) \in Line
  BY RecordType DEF FaultInv, DaemonTypeOK, LedgerTypeOK
<1>3. HashOfPrefix(Entry(count, head, r), head')
  <2> HIDE DEF r
  <2>1. Len(head') \in 1 .. Len(head') /\ SubSeq(head', 1, Len(head')) = head'
    BY <1>1, <1>2 DEF Hash
  <2>2. Entry(count, head, r).hash = head'
    BY <1>1 DEF Entry, Chain
  <2>3. QED
    BY <2>1, <2>2 DEF HashOfPrefix
<1>4. \A n \in 1 .. Len(store) : HashOfPrefix(store[n], head')
  BY <1>1, <1>2, PrefixGrows DEF FaultInv, HashesOK
<1> HIDE DEF r
<1>5. QED
  BY <1>1, <1>2, <1>3, <1>4, WriteKeepsHashes DEF HashesOK

LEMMA LedgerKeepsHashes ==
  ASSUME FaultInv, NEW req \in Request, Ledger(req)
  PROVE  HashesOK'
<1>1. CASE UNCHANGED <<ledgerVars, store>> \/ ExecuteUnhashable(req.intent, req.payload)
  BY <1>1 DEF FaultInv, HashesOK, ledgerVars, ExecuteUnhashable
<1>2. CASE Execute(req.intent, req.key, req.payload)
  BY <1>2, ExecuteKeepsHashes DEF Request
<1>3. CASE ExecuteAppendFails(req.intent, req.key, req.payload)
  <2>1. head' = head /\ store' \in {store, WriteLine(Torn)}
    BY <1>3 DEF ExecuteAppendFails
  <2>2. Torn \in Line /\ HashOfPrefix(Torn, head) /\ store \in Seq(Line)
    BY DEF Line, Written, HashOfPrefix, FaultInv, DaemonTypeOK, LedgerTypeOK
  <2>3. QED
    BY <2>1, <2>2, WriteKeepsHashes DEF FaultInv, HashesOK
<1>4. QED
  BY <1>1, <1>2, <1>3 DEF Ledger

LEMMA DaemonKeepsHashes == FaultInv /\ DaemonNext => HashesOK'
<1> SUFFICES ASSUME FaultInv, DaemonNext PROVE HashesOK'
  OBVIOUS
<1>1. ASSUME NEW req \in wire, Handle(req) PROVE HashesOK'
  BY <1>1, HandleSplit, LedgerKeepsHashes DEF FaultInv, DaemonTypeOK
<1>2. CASE HandleReset
  BY <1>2 DEF HandleReset, NewState, HashesOK
<1>3. CASE UNCHANGED <<ledgerVars, store>>
  BY <1>3 DEF FaultInv, HashesOK, ledgerVars
<1>4. QED
  BY <1>1, <1>2, <1>3
     DEF DaemonNext, SendExecute, SendControl, Send, HandleSeal

\* A fault leaves lines that were there, but for a record whose hash it keeps.
LEMMA FaultKeepsInv ==
  ASSUME FaultInv, LoseLine \/ SwapLines \/ AlterRecord
  PROVE  FaultInv'
<1>1. store \in Seq(Line)
  BY DEF FaultInv, DaemonTypeOK, LedgerTypeOK
<1>2. /\ UNCHANGED <<ledgerVars, sealed, sent, wire, answers, epoch>>
      /\ store' \in Seq(Line)
      /\ \A n \in 1 .. Len(store') : HashOfPrefix(store'[n], head)
  <2>1. ASSUME NEW n \in 1 .. Len(store), FaultyStore(RemoveAt(store, n))
        PROVE  <1>2!1 /\ <1>2!2 /\ <1>2!3
    <3>1. /\ RemoveAt(store, n) \in Seq(Line)
          /\ \A m \in 1 .. Len(RemoveAt(store, n)) :
               \E o \in 1 .. Len(store) : RemoveAt(store, n)[m] = store[o]
      <4> DEFINE left == SubSeq(store, 1, n - 1)
                 right == SubSeq(store, n + 1, Len(store))
      <4>1. /\ left \in Seq(Line) /\ Len(left) = n - 1
            /\ \A m \in 1 .. n - 1 : left[m] = store[m]
        BY <1>1, <2>1
      <4>2. /\ right \in Seq(Line) /\ Len(right) = Len(store) - n
            /\ \A m \in 1 .. Len(store) - n : right[m] = store[n + m]
        BY <1>1, <2>1
      <4>3. RemoveAt(store, n) = left \o right
        BY DEF RemoveAt
      <4> HIDE DEF left, right
      <4>4. /\ left \o right \in Seq(Line)
            /\ Len(left \o right) = Len(left) + Len(right)
            /\ \A m \in 1 .. Len(left \o right) :
                 (left \o right)[m] = IF m <= Len(left) THEN left[m] ELSE right[m - Len(left)]
        <5>1. left \in Seq(Line) /\ right \in Seq(Line)
          BY <4>1, <4>2
        <5>2. QED
          BY <5>1, ConcatProperties
      <4>5. ASSUME NEW m \in 1 .. Len(left \o right)
            PROVE  \E o \in 1 .. Len(store) : (left \o right)[m] = store[o]
        <5>1. CASE m <= n - 1
          BY <1>1, <2>1, <4>1, <4>2, <4>4, <5>1
        <5>2. CASE m > n - 1
          <6>1. /\ m - (n - 1) \in 1 .. Len(store) - n
                /\ n + (m - (n - 1)) \in 1 .. Len(store)
            BY <1>1, <2>1, <4>1, <4>2, <4>4, <5>2
          <6>2. right[m - (n - 1)] = store[n + (m - (n - 1))]
            BY <4>2, <6>1
          <6>3. (left \o right)[m] = right[m - (n - 1)]
            BY <1>1, <2>1, <4>1, <4>4, <5>2
          <6>4. QED
            BY <6>1, <6>2, <6>3
        <5>3. QED
          BY <5>1, <5>2, <2>1, <4>4
      <4>6. QED
        BY <4>3, <4>4, <4>5
    <3>2. QED
      BY <2>1, <3>1 DEF FaultyStore, FaultInv, HashesOK
  <2>2. ASSUME NEW m \in 1 .. Len(store), NEW n \in 1 .. Len(store),
               FaultyStore([store EXCEPT ![m] = store[n], ![n] = store[m]])
        PROVE  <1>2!1 /\ <1>2!2 /\ <1>2!3
    BY <1>1, <2>2 DEF FaultyStore, FaultInv, HashesOK
  <2>3. ASSUME NEW n \in 1 .. Len(store), NEW p \in Payloads, store[n] # Torn,
               FaultyStore([store EXCEPT ![n].record.payload_digest = p])
        PROVE  <1>2!1 /\ <1>2!2 /\ <1>2!3
    <3> DEFINE altered == [store[n] EXCEPT !.record.payload_digest = p]
    <3>1. store[n] \in Line /\ store[n] # Torn
      BY <1>1, <2>3
    <3>2. altered \in Line /\ altered.hash = store[n].hash
      BY <3>1 DEF Line, Written, Record
    <3>3. store' = [store EXCEPT ![n] = altered]
      BY <2>3 DEF FaultyStore
    <3>4. HashOfPrefix(altered, head)
      BY <3>1, <3>2 DEF FaultInv, HashesOK, HashOfPrefix
    <3> HIDE DEF altered
    <3>5. /\ store' \in Seq(Line) /\ Len(store') = Len(store)
          /\ \A m \in 1 .. Len(store) : store'[m] = IF m = n THEN altered ELSE store[m]
      BY <1>1, <2>3, <3>2, <3>3
    <3>6. \A m \in 1 .. Len(store') : HashOfPrefix(store'[m], head)
      BY <3>4, <3>5 DEF FaultInv, HashesOK
    <3>7. QED
      BY <2>3, <3>5, <3>6 DEF FaultyStore
  <2>4. QED
    BY <2>1, <2>2, <2>3 DEF LoseLine, SwapLines, AlterRecord
<1>3. QED
  BY <1>2 DEF FaultInv, HashesOK, DaemonTypeOK, LedgerTypeOK, ledgerVars

LEMMA FaultInvAlways == FaultSpec => []FaultInv
<1>1. FaultInit => FaultInv
  <2>1. DaemonInit => DaemonTypeOK
    <3>1. DaemonInit => LedgerTypeOK
      BY FreshStateType DEF DaemonInit
    <3>2. 0 \in 0 .. MaxRequests /\ 0 \in 0 .. MaxEpochs
      BY DaemonAssumption
    <3>3. QED
      BY <3>1, <3>2 DEF DaemonInit, DaemonTypeOK
  <2>2. QED
    BY <2>1 DEF FaultInit, DaemonInit, FaultInv, HashesOK
<1>2. FaultInv /\ [FaultNext]_faultVars => FaultInv'
  <2> SUFFICES ASSUME FaultInv, [FaultNext]_faultVars PROVE FaultInv'
    OBVIOUS
  <2>1. CASE DaemonNext
    BY <2>1, DaemonTypeStep, DaemonKeepsHashes DEF FaultInv
  <2>2. CASE LoseLine \/ SwapLines \/ AlterRecord
    BY <2>2, FaultKeepsInv
  <2>3. CASE UNCHANGED faultVars
    BY <2>3, DaemonTypeStep DEF faultVars, daemonVars, ledgerVars, FaultInv, HashesOK
  <2>4. QED
    BY <2>1, <2>2, <2>3 DEF FaultNext
<1>3. QED
  BY <1>1, <1>2, PTL DEF FaultSpec

-----------------------------------------------------------------------------
(***************************************************************************)
(* Verification from such a file.                                          *)
(***************************************************************************)
LEMMA VerifiedOnChain ==
  ASSUME Verify(store) = "ok", store \in Seq(Line)
  PROVE  \A n \in 1 .. Len(store) : LineOnChain(store, n)
<1> DEFINE off == {n \in 1 .. Len(store) : ~ LineOnChain(store, n)}
<1>1. SUFFICES ASSUME off # {} PROVE FALSE
  OBVIOUS
<1>2. PICK first \in off : \A n \in off : first <= n
  <2>1. off \in SUBSET Nat
    OBVIOUS
  <2> HIDE DEF off
  <2>2. QED
    BY <1>1, <2>1, LeastMember
<1>3. \A m \in 1 .. first - 1 : LineOnChain(store, m)
  BY <1>2
<1>4. QED
  BY <1>2, <1>3 DEF Verify

\* Each verified line's hash is as long as its place, hence the hash of as many
\* records as there are lines before it and its own.
LEMMA VerifiedLengths ==
  ASSUME store \in Seq(Line), \A n \in 1 .. Len(store) : LineOnChain(store, n)
  PROVE  \A n \in 1 .. Len(store) :
           /\ store[n].record \in Record /\ store[n].prev \in Hash
           /\ store[n].hash = Append(store[n].prev, store[n].record)
           /\ Len(store[n].hash) = n
<1>1. \A n \in 1 .. Len(store) :
        /\ store[n].record \in Record /\ store[n].prev \in Hash
        /\ store[n].hash = Append(store[n].prev, store[n].record)
        /\ store[n].prev = PrevHash(store, n)
  BY DEF LineOnChain, Line, Written, Chain
<1>2. \A n \in 1 .. Len(store) : Len(store[n].hash) = Len(store[n].prev) + 1
  BY <1>1 DEF Hash
<1> DEFINE off == {n \in 1 .. Len(store) : Len(store[n].hash) # n}
<1>3. ASSUME off # {} PROVE FALSE
  <2>1. PICK first \in off : \A n \in off : first <= n
    <3>1. off \in SUBSET Nat
      OBVIOUS
    <3> HIDE DEF off
    <3>2. QED
      BY <1>3, <3>1, LeastMember
  <2>2. CASE first = 1
    <3>1. store[1].prev = << >> /\ 1 \in 1 .. Len(store)
      BY <1>1, <2>1, <2>2 DEF PrevHash, Genesis
    <3>2. Len(store[1].prev) = 0
      BY <3>1
    <3>3. Len(store[1].hash) = 1
      <4>1. Len(store[1].hash) = Len(store[1].prev) + 1
        BY <1>2, <3>1
      <4>2. QED
        BY <3>2, <4>1
    <3>4. QED
      BY <2>1, <2>2, <3>3
  <2>3. CASE first # 1
    <3>1. first - 1 \in 1 .. Len(store) /\ first - 1 \notin off
      BY <2>1, <2>3
    <3>2. store[first].prev = store[first - 1].hash
      BY <1>1, <2>1, <2>3 DEF PrevHash
    <3>3. QED
      BY <1>2, <2>1, <3>1, <3>2
  <2>4. QED
    BY <2>2, <2>3
<1>4. QED
  BY <1>1, <1>3

\* Whatever lines of the store were lost, swapped or altered, a file that still
\* verifies is a prefix of what the ledger chained (core.py verify).
THEOREM VerifiedAlwaysPrefix == FaultSpec => []VerifiedIsPrefix
<1>1. FaultInv => VerifiedIsPrefix
  <2> SUFFICES ASSUME FaultInv, Verify(store) = "ok" PROVE VerifiedIsPrefix
    BY DEF VerifiedIsPrefix
  <2>1. store \in Seq(Line) /\ head \in Seq(Record)
    BY DEF FaultInv, DaemonTypeOK, LedgerTypeOK, Hash
  <2> SUFFICES ASSUME NEW n \in 1 .. Len(store)
               PROVE  n <= Len(head) /\ store[n].record = head[n]
    <3>1. Len(store) = 0 => Len(store) <= Len(head)
      BY <2>1
    <3>2. Len(store) # 0 => Len(store) \in 1 .. Len(store)
      BY <2>1
    <3>3. QED
      BY <3>1, <3>2 DEF VerifiedIsPrefix
  <2>2. \A m \in 1 .. Len(store) : LineOnChain(store, m)
    BY <2>1, VerifiedOnChain
  <2>3. /\ store[n].record \in Record /\ store[n].prev \in Seq(Record)
        /\ store[n].hash = Append(store[n].prev, store[n].record)
        /\ Len(store[n].hash) = n
    BY <2>1, <2>2, VerifiedLengths DEF Hash
  <2>4. PICK k \in 1 .. Len(head) : store[n].hash = SubSeq(head, 1, k)
    BY <2>2 DEF FaultInv, HashesOK, HashOfPrefix, LineOnChain
  <2>5. k = n
    BY <2>1, <2>3, <2>4
  <2>6. store[n].record = store[n].hash[n]
    BY <2>3
  <2>7. QED
    BY <2>1, <2>4, <2>5, <2>6
<1>2. QED
  BY <1>1, FaultInvAlways, PTL
==============================================================================
