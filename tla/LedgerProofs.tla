---------------------------- MODULE LedgerProofs ----------------------------
(***************************************************************************)
(* What holds of the ledger daemon for every set of intents, keys and      *)
(* payloads, any number of requests and resets, and writes that may fail.  *)
(***************************************************************************)
EXTENDS LedgerDaemon, SequenceTheorems, FiniteSetTheorems, TLAPS

-----------------------------------------------------------------------------
(***************************************************************************)
(* Type correctness.                                                       *)
(***************************************************************************)
LEMMA FreshStateType == FreshState /\ store = << >> => LedgerTypeOK
BY EmptySeq DEF FreshState, LedgerTypeOK, Genesis, Hash

LEMMA NewStateType == NewState => LedgerTypeOK'
BY EmptySeq DEF NewState, LedgerTypeOK, Genesis, Hash

LEMMA CountAttemptType ==
  ASSUME LedgerTypeOK, NEW i \in Intents, CountAttempt(i)
  PROVE  attempts' \in [Intents -> Nat]
BY DEF LedgerTypeOK, CountAttempt

LEMMA CountEffectType ==
  ASSUME LedgerTypeOK, NEW i \in Intents, NEW k \in Keys \cup {NoKey}, NEW p \in Payloads,
         CountEffect(i, k, p)
  PROVE  /\ side_effects' \in [Intents -> Nat]
         /\ effect_digests' \in [Intents -> Seq(Payloads)]
         /\ effect_keys' \in [Intents -> Seq(Keys \cup {NoKey})]
         /\ seen_keys' \in [Intents -> SUBSET Keys]
<1> DEFINE K == Keys \cup {NoKey}
<1>1. /\ Append(effect_digests[i], p) \in Seq(Payloads)
      /\ Append(effect_keys[i], k) \in Seq(K)
  <2>1. effect_digests[i] \in Seq(Payloads) /\ effect_keys[i] \in Seq(K) /\ k \in K
    BY DEF LedgerTypeOK
  <2> HIDE DEF K
  <2>2. QED
    BY <2>1, AppendProperties
<1>2. seen_keys' \in [Intents -> SUBSET Keys]
  BY DEF LedgerTypeOK, CountEffect
<1>3. CASE Deduped(i, k)
  BY <1>2, <1>3 DEF LedgerTypeOK, CountEffect
<1>4. CASE Crossed(i, k, p)
  BY <1>1, <1>2, <1>4 DEF LedgerTypeOK, Crossed
<1>5. QED
  BY <1>3, <1>4 DEF CountEffect

LEMMA WriteLineType ==
  ASSUME LedgerTypeOK, NEW line \in Line
  PROVE  WriteLine(line) \in Seq(Line)
<1>1. store \in Seq(Line)
  BY DEF LedgerTypeOK
<1>2. Append(store, line) \in Seq(Line)
  BY <1>1, AppendProperties
<1>3. QED
  BY <1>1, <1>2 DEF WriteLine

\* The record of an execute is a record, and its line continues the chain.
LEMMA RecordType ==
  ASSUME LedgerTypeOK, NEW i \in Intents, NEW k \in Keys \cup {NoKey}, NEW p \in Payloads
  PROVE  /\ ExecuteRecord(i, k, p) \in Record
         /\ Chain(head, ExecuteRecord(i, k, p)) \in Hash
         /\ Entry(count, head, ExecuteRecord(i, k, p)) \in Line
<1> DEFINE r == ExecuteRecord(i, k, p)
<1>1. r \in Record
  BY DEF LedgerTypeOK, ExecuteRecord, Record, Deduped
<1>2. head \in Seq(Record) /\ count \in Nat
  BY DEF LedgerTypeOK, Hash
<1> HIDE DEF r
<1>3. Chain(head, r) \in Hash
  BY <1>1, <1>2, AppendProperties DEF Chain, Hash
<1>4. Entry(count, head, r) \in Line
  BY <1>1, <1>2, <1>3 DEF Entry, Line, Written, Hash
<1>5. QED
  BY <1>1, <1>3, <1>4 DEF r

LEMMA ExecuteType ==
  ASSUME LedgerTypeOK, NEW i \in Intents, NEW k \in Keys \cup {NoKey}, NEW p \in Payloads,
         Execute(i, k, p)
  PROVE  LedgerTypeOK'
<1> DEFINE r == ExecuteRecord(i, k, p)
<1>1. CountAttempt(i) /\ CountEffect(i, k, p)
  BY DEF Execute
<1>2. /\ head' = Chain(head, r) /\ count' = count + 1
      /\ store' = WriteLine(Entry(count, head, r))
  BY DEF Execute
<1>3. head' \in Hash /\ store' \in Seq(Line)
  BY <1>2, RecordType, WriteLineType
<1>4. count' \in Nat
  BY <1>2 DEF LedgerTypeOK
<1>5. QED
  BY <1>1, <1>3, <1>4, CountAttemptType, CountEffectType DEF LedgerTypeOK

LEMMA ExecuteUnhashableType ==
  ASSUME LedgerTypeOK, NEW i \in Intents, NEW p, ExecuteUnhashable(i, p)
  PROVE  LedgerTypeOK'
BY CountAttemptType DEF ExecuteUnhashable, LedgerTypeOK

LEMMA ExecuteAppendFailsType ==
  ASSUME LedgerTypeOK, NEW i \in Intents, NEW k \in Keys \cup {NoKey}, NEW p \in Payloads,
         ExecuteAppendFails(i, k, p)
  PROVE  LedgerTypeOK'
<1>1. CountAttempt(i) /\ CountEffect(i, k, p) /\ head' = head /\ count' = count
  BY DEF ExecuteAppendFails
<1>2. store' \in Seq(Line)
  <2>1. Torn \in Line
    BY DEF Line, Written
  <2>2. WriteLine(Torn) \in Seq(Line)
    BY <2>1, WriteLineType
  <2>3. QED
    BY <2>2 DEF ExecuteAppendFails, LedgerTypeOK
<1>3. QED
  BY <1>1, <1>2, CountAttemptType, CountEffectType DEF LedgerTypeOK

\* A handler leaves the ledger as it is, executes, or fails at one of the two
\* places where execute can.
Ledger(req) ==
  \/ UNCHANGED <<ledgerVars, store>>
  \/ ~ sealed /\ Execute(req.intent, req.key, req.payload)
  \/ ~ sealed /\ ExecuteUnhashable(req.intent, req.payload)
  \/ ~ sealed /\ ExecuteAppendFails(req.intent, req.key, req.payload)

LEMMA HandleSplit ==
  ASSUME NEW req, Handle(req)
  PROVE  Ledger(req) /\ \E status \in {"ok", "sealed", "refused", "no response"} :
                          Reply(req, status)
BY DEF Handle, HandleExecute, HandleSealed, HandleUnhashable, HandleAppendFails,
       HandleUnprivileged, Ledger

LEMMA LedgerType ==
  ASSUME LedgerTypeOK, NEW req \in Request, Ledger(req)
  PROVE  LedgerTypeOK'
<1>1. /\ req.intent \in Intents /\ req.key \in Keys \cup {NoKey} /\ req.payload \in Payloads
  BY DEF Request
<1>2. CASE UNCHANGED <<ledgerVars, store>>
  BY <1>2 DEF LedgerTypeOK, ledgerVars
<1>3. QED
  BY <1>1, <1>2, ExecuteType, ExecuteUnhashableType, ExecuteAppendFailsType DEF Ledger

LEMMA SendType ==
  ASSUME DaemonTypeOK, NEW op \in {"execute", "control"}, NEW i \in Intents,
         NEW k \in Keys \cup {NoKey}, NEW p \in Payloads, Send(op, i, k, p)
  PROVE  DaemonTypeOK'
<1>1. LedgerTypeOK'
  BY DEF DaemonTypeOK, Send, LedgerTypeOK, ledgerVars
<1>2. sent' \in 0 .. MaxRequests /\ sent + 1 \in RequestId
  BY DaemonAssumption DEF DaemonTypeOK, Send, RequestId
<1>3. [id |-> sent + 1, op |-> op, intent |-> i, key |-> k, payload |-> p,
       epoch |-> epoch] \in Request
  BY <1>2 DEF DaemonTypeOK, Request
<1>4. QED
  BY <1>1, <1>2, <1>3 DEF DaemonTypeOK, Send

LEMMA DaemonTypeStep == DaemonTypeOK /\ [DaemonNext]_daemonVars => DaemonTypeOK'
<1> SUFFICES ASSUME DaemonTypeOK, [DaemonNext]_daemonVars PROVE DaemonTypeOK'
  OBVIOUS
<1>1. ASSUME NEW i \in Intents, NEW k \in Keys \cup {NoKey}, NEW p \in Payloads,
             SendExecute(i, k, p)
      PROVE  DaemonTypeOK'
  BY <1>1, SendType DEF SendExecute
<1>2. CASE SendControl
  <2>1. /\ (CHOOSE i \in Intents : TRUE) \in Intents
        /\ (CHOOSE p \in Payloads : TRUE) \in Payloads
    BY IntentAssumption, PayloadAssumption
  <2>2. QED
    BY <1>2, <2>1, SendType DEF SendControl
<1>3. ASSUME NEW req \in wire, Handle(req) PROVE DaemonTypeOK'
  <2>1. req \in Request
    BY DEF DaemonTypeOK
  <2>2. LedgerTypeOK'
    BY <1>3, <2>1, HandleSplit, LedgerType DEF DaemonTypeOK
  <2>3. PICK status \in {"ok", "sealed", "refused", "no response"} : Reply(req, status)
    BY <1>3, HandleSplit
  <2>4. [req |-> req, status |-> status, epoch |-> epoch] \in Answer
    BY <2>1 DEF DaemonTypeOK, Answer
  <2>5. QED
    BY <2>2, <2>3, <2>4 DEF DaemonTypeOK, Reply
<1>4. CASE HandleSeal
  BY <1>4 DEF HandleSeal, DaemonTypeOK, LedgerTypeOK, ledgerVars
<1>5. CASE HandleReset
  <2>1. LedgerTypeOK'
    BY <1>5, NewStateType DEF HandleReset
  <2>2. epoch' \in 0 .. MaxEpochs
    BY <1>5, DaemonAssumption DEF HandleReset, DaemonTypeOK
  <2>3. QED
    BY <1>5, <2>1, <2>2 DEF HandleReset, DaemonTypeOK
<1>6. CASE UNCHANGED daemonVars
  BY <1>6 DEF daemonVars, DaemonTypeOK, LedgerTypeOK, ledgerVars
<1>7. QED
  BY <1>1, <1>2, <1>3, <1>4, <1>5, <1>6 DEF DaemonNext

\* The daemon's state, its store and everything on its wire keep their types.
THEOREM DaemonTypeCorrect == DaemonSpec => []DaemonTypeOK
<1>1. DaemonInit => DaemonTypeOK
  <2>1. DaemonInit => LedgerTypeOK
    BY FreshStateType DEF DaemonInit
  <2>2. 0 \in 0 .. MaxRequests /\ 0 \in 0 .. MaxEpochs
    BY DaemonAssumption
  <2>3. QED
    BY <2>1, <2>2 DEF DaemonInit, DaemonTypeOK
<1>2. QED
  BY <1>1, DaemonTypeStep, PTL DEF DaemonSpec

-----------------------------------------------------------------------------
\* The seal is the end of a trial's ledger: a handler that finds it leaves the
\* ledger and its file alone, and only the reset clears it.
THEOREM SealFreezesLedger == DaemonSpec => SealFreezes
<1>1. ASSUME [DaemonNext]_daemonVars, sealed, sealed'
      PROVE  UNCHANGED <<ledgerVars, store>>
  <2>1. ASSUME NEW req \in wire, Handle(req) PROVE UNCHANGED <<ledgerVars, store>>
    BY <1>1, <2>1, HandleSplit DEF Ledger
  <2>2. ASSUME NEW op, NEW i, NEW k, NEW p, Send(op, i, k, p)
        PROVE  UNCHANGED <<ledgerVars, store>>
    BY <2>2 DEF Send
  <2>3. CASE HandleSeal
    BY <2>3 DEF HandleSeal
  <2>4. ~ HandleReset
    BY <1>1 DEF HandleReset
  <2>5. CASE UNCHANGED daemonVars
    BY <2>5 DEF daemonVars
  <2>6. QED
    BY <1>1, <2>1, <2>2, <2>3, <2>4, <2>5 DEF DaemonNext, SendExecute, SendControl
<1>2. QED
  BY <1>1, PTL DEF DaemonSpec, SealFreezes

-----------------------------------------------------------------------------
(***************************************************************************)
(* The counters of an intent describe the same crossings.                  *)
(***************************************************************************)
\* CrossingsAgree, of one intent's counters.
Agrees(a, n, ds, ks, seen) ==
  /\ Len(ds) = n
  /\ Len(ks) = n
  /\ n <= a
  /\ \A l, m \in 1 .. Len(ks) : ks[l] = ks[m] /\ l # m => ks[l] = NoKey
  /\ seen = {ks[l] : l \in 1 .. Len(ks)} \ {NoKey}

AgreesAt(i) == Agrees(attempts[i], side_effects[i], effect_digests[i], effect_keys[i],
                      seen_keys[i])

LEMMA CrossingsAgreeSplit == CrossingsAgree <=> \A i \in Intents : AgreesAt(i)
BY DEF CrossingsAgree, AgreesAt, Agrees

\* A crossing under a key not seen yet, or under none.
LEMMA AgreesAppend ==
  ASSUME NEW a \in Nat, NEW n \in Nat, NEW ds \in Seq(Payloads),
         NEW ks \in Seq(Keys \cup {NoKey}), NEW seen,
         NEW k \in Keys \cup {NoKey}, NEW p \in Payloads,
         Agrees(a, n, ds, ks, seen), k = NoKey \/ k \notin seen
  PROVE  Agrees(a + 1, n + 1, Append(ds, p), Append(ks, k),
                IF k = NoKey THEN seen ELSE seen \cup {k})
<1> DEFINE K == Keys \cup {NoKey}
           kt == Append(ks, k)
<1> HIDE DEF K
<1>1. ks \in Seq(K) /\ k \in K
  BY DEF K
<1>2. /\ Len(kt) = Len(ks) + 1
      /\ \A l \in 1 .. Len(ks) : kt[l] = ks[l]
      /\ kt[Len(ks) + 1] = k
      /\ Len(ks) \in Nat
  BY <1>1, AppendProperties, LenProperties
<1>3. Len(Append(ds, p)) = Len(ds) + 1
  BY AppendProperties
<1> HIDE DEF kt
<1>4. Len(ks) = n /\ Len(ds) = n /\ n <= a
  BY DEF Agrees
<1>5. \A l \in 1 .. Len(kt) : l \in 1 .. Len(ks) \/ l = Len(ks) + 1
  BY <1>2
<1>6. \A l \in 1 .. Len(ks) : ks[l] = k => k = NoKey
  BY DEF Agrees
<1>7. ASSUME NEW l \in 1 .. Len(kt), NEW m \in 1 .. Len(kt), kt[l] = kt[m], l # m
      PROVE  kt[l] = NoKey
  <2>1. CASE l \in 1 .. Len(ks) /\ m \in 1 .. Len(ks)
    BY <1>2, <1>7, <2>1 DEF Agrees
  <2>2. CASE l = Len(ks) + 1
    <3>1. kt[l] = k /\ m \in 1 .. Len(ks)
      BY <1>2, <1>5, <1>7, <2>2
    <3>2. QED
      BY <1>2, <1>6, <1>7, <3>1
  <2>3. CASE m = Len(ks) + 1
    <3>1. kt[m] = k /\ l \in 1 .. Len(ks)
      BY <1>2, <1>5, <1>7, <2>3
    <3>2. QED
      BY <1>2, <1>6, <1>7, <3>1
  <2>4. QED
    BY <1>5, <2>1, <2>2, <2>3
<1>8. {kt[l] : l \in 1 .. Len(kt)} = {ks[l] : l \in 1 .. Len(ks)} \cup {k}
  <2>1. ASSUME NEW l \in 1 .. Len(ks)
        PROVE  l \in 1 .. Len(kt) /\ kt[l] = ks[l]
    BY <1>2
  <2>2. Len(ks) + 1 \in 1 .. Len(kt) /\ kt[Len(ks) + 1] = k
    BY <1>2
  <2>3. \A l \in 1 .. Len(kt) : kt[l] \in {ks[m] : m \in 1 .. Len(ks)} \cup {k}
    BY <1>5, <2>1, <2>2, Zenon
  <2>4. QED
    BY <2>1, <2>2, <2>3, Zenon
<1>9. (IF k = NoKey THEN seen ELSE seen \cup {k}) = {kt[l] : l \in 1 .. Len(kt)} \ {NoKey}
  BY <1>8 DEF Agrees
<1>10. QED
  BY <1>2, <1>3, <1>4, <1>7, <1>9 DEF Agrees, kt

LEMMA CountAgrees ==
  ASSUME LedgerTypeOK, CrossingsAgree,
         NEW i \in Intents, NEW k \in Keys \cup {NoKey}, NEW p \in Payloads,
         CountAttempt(i), CountEffect(i, k, p)
  PROVE  CrossingsAgree'
<1> SUFFICES ASSUME NEW j \in Intents PROVE AgreesAt(j)'
  BY CrossingsAgreeSplit DEF CrossingsAgree, AgreesAt, Agrees
<1>1. AgreesAt(j)
  BY CrossingsAgreeSplit
<1>2. CASE j # i
  <2>1. /\ attempts'[j] = attempts[j] /\ side_effects'[j] = side_effects[j]
        /\ effect_digests'[j] = effect_digests[j] /\ effect_keys'[j] = effect_keys[j]
        /\ seen_keys'[j] = seen_keys[j]
    BY <1>2 DEF LedgerTypeOK, CountAttempt, CountEffect, Crossed
  <2>2. QED
    BY <1>1, <2>1 DEF AgreesAt, Agrees
<1>3. CASE j = i
  <2>1. /\ attempts[i] \in Nat /\ side_effects[i] \in Nat
        /\ effect_digests[i] \in Seq(Payloads) /\ effect_keys[i] \in Seq(Keys \cup {NoKey})
    BY DEF LedgerTypeOK
  <2>2. /\ attempts'[i] = attempts[i] + 1
        /\ seen_keys'[i] = IF k = NoKey THEN seen_keys[i] ELSE seen_keys[i] \cup {k}
    BY DEF LedgerTypeOK, CountAttempt, CountEffect
  <2>3. CASE Deduped(i, k)
    <3>1. /\ side_effects'[i] = side_effects[i] /\ effect_digests'[i] = effect_digests[i]
          /\ effect_keys'[i] = effect_keys[i] /\ seen_keys'[i] = seen_keys[i]
      BY <2>2, <2>3 DEF CountEffect, Deduped
    <3>2. side_effects[i] <= attempts[i] + 1
      BY <1>1, <1>3, <2>1 DEF AgreesAt, Agrees
    <3>3. Agrees(attempts[i] + 1, side_effects[i], effect_digests[i], effect_keys[i],
                 seen_keys[i])
      BY <1>1, <1>3, <3>2 DEF AgreesAt, Agrees
    <3>4. QED
      BY <1>3, <2>2, <3>1, <3>3 DEF AgreesAt
  <2>4. CASE ~ Deduped(i, k)
    <3>1. /\ side_effects'[i] = side_effects[i] + 1
          /\ effect_digests'[i] = Append(effect_digests[i], p)
          /\ effect_keys'[i] = Append(effect_keys[i], k)
      BY <2>4 DEF LedgerTypeOK, CountEffect, Crossed
    <3>2. k = NoKey \/ k \notin seen_keys[i]
      BY <2>4 DEF Deduped
    <3>3. Agrees(attempts[i] + 1, side_effects[i] + 1, Append(effect_digests[i], p),
                 Append(effect_keys[i], k),
                 IF k = NoKey THEN seen_keys[i] ELSE seen_keys[i] \cup {k})
      BY <1>1, <1>3, <2>1, <3>2, AgreesAppend DEF AgreesAt
    <3>4. QED
      BY <1>3, <2>2, <3>1, <3>3 DEF AgreesAt
  <2>5. QED
    BY <2>3, <2>4
<1>4. QED
  BY <1>2, <1>3

\* An execute that fails before the crossing has only counted an attempt.
LEMMA AttemptAgrees ==
  ASSUME LedgerTypeOK, CrossingsAgree, NEW i \in Intents, NEW p, ExecuteUnhashable(i, p)
  PROVE  CrossingsAgree'
<1> SUFFICES ASSUME NEW j \in Intents PROVE AgreesAt(j)'
  BY CrossingsAgreeSplit DEF CrossingsAgree, AgreesAt, Agrees
<1>1. attempts[j] <= attempts'[j] /\ attempts'[j] \in Nat /\ attempts[j] \in Nat
  BY DEF LedgerTypeOK, ExecuteUnhashable, CountAttempt
<1>2. side_effects[j] \in Nat
  BY DEF LedgerTypeOK
<1>3. AgreesAt(j)
  BY CrossingsAgreeSplit
<1>4. QED
  BY <1>1, <1>2, <1>3 DEF AgreesAt, Agrees, ExecuteUnhashable

LEMMA FreshAgrees ==
  ASSUME NEW i \in Intents
  PROVE  Agrees(0, 0, << >>, << >>, {})
BY DEF Agrees

LEMMA LedgerAgrees ==
  ASSUME LedgerTypeOK, CrossingsAgree, NEW req \in Request, Ledger(req)
  PROVE  CrossingsAgree'
<1>1. /\ req.intent \in Intents /\ req.key \in Keys \cup {NoKey} /\ req.payload \in Payloads
  BY DEF Request
<1>2. CASE UNCHANGED <<ledgerVars, store>>
  BY <1>2 DEF CrossingsAgree, ledgerVars
<1>3. CASE Execute(req.intent, req.key, req.payload)
  BY <1>1, <1>3, CountAgrees DEF Execute
<1>4. CASE ExecuteUnhashable(req.intent, req.payload)
  BY <1>1, <1>4, AttemptAgrees
<1>5. CASE ExecuteAppendFails(req.intent, req.key, req.payload)
  BY <1>1, <1>5, CountAgrees DEF ExecuteAppendFails
<1>6. QED
  BY <1>2, <1>3, <1>4, <1>5 DEF Ledger

LEMMA CrossingsAgreeStep ==
  DaemonTypeOK /\ CrossingsAgree /\ [DaemonNext]_daemonVars => CrossingsAgree'
<1> SUFFICES ASSUME DaemonTypeOK, CrossingsAgree, [DaemonNext]_daemonVars
             PROVE  CrossingsAgree'
  OBVIOUS
<1>1. ASSUME NEW req \in wire, Handle(req) PROVE CrossingsAgree'
  <2>1. req \in Request /\ LedgerTypeOK
    BY DEF DaemonTypeOK
  <2>2. QED
    BY <1>1, <2>1, HandleSplit, LedgerAgrees
<1>2. CASE UNCHANGED ledgerVars
  BY <1>2 DEF CrossingsAgree, ledgerVars
<1>3. CASE HandleReset
  <2>1. \A i \in Intents : AgreesAt(i)'
    BY <1>3, FreshAgrees DEF HandleReset, NewState, AgreesAt, Agrees
  <2>2. QED
    BY <2>1 DEF CrossingsAgree, AgreesAt, Agrees
<1>4. QED
  BY <1>1, <1>2, <1>3 DEF DaemonNext, SendExecute, SendControl, Send, HandleSeal, daemonVars

\* Through every interleaving of requests, failed writes, seals and resets, no key
\* of an intent crosses twice, seen_keys is exactly the keys that crossed, and as
\* many digests and keys are kept as there are side effects.
THEOREM CrossingsAlwaysAgree == DaemonSpec => []CrossingsAgree
<1>1. DaemonInit => CrossingsAgree
  BY FreshAgrees DEF DaemonInit, FreshState, CrossingsAgree, Agrees
<1>2. QED
  BY <1>1, DaemonTypeCorrect, CrossingsAgreeStep, PTL DEF DaemonSpec

-----------------------------------------------------------------------------
(***************************************************************************)
(* The store file is the chain that ends in the head held in memory.       *)
(***************************************************************************)
EndsTorn(s) == s # << >> /\ s[Len(s)] = Torn

ChainUpTo(s) == \A n \in 1 .. Len(s) : LineOnChain(s, n) \/ (n = Len(s) /\ s[n] = Torn)

\* Appending a line keeps the lines before it on the chain.
LEMMA AppendOnChain ==
  ASSUME NEW s \in Seq(Line), ChainUpTo(s), ~ EndsTorn(s), NEW line \in Line,
         \/ line = Torn
         \/ line.prev = PrevHash(s, Len(s) + 1) /\ line.hash = Chain(line.prev, line.record)
  PROVE  ChainUpTo(Append(s, line))
<1> DEFINE t == Append(s, line)
<1>1. /\ Len(t) = Len(s) + 1 /\ Len(s) \in Nat
      /\ \A n \in 1 .. Len(s) : t[n] = s[n]
      /\ t[Len(s) + 1] = line
  BY AppendProperties, LenProperties
<1> HIDE DEF t
<1>2. \A n \in 1 .. Len(s) + 1 : PrevHash(t, n) = PrevHash(s, n)
  BY <1>1 DEF PrevHash
<1>3. ASSUME NEW n \in 1 .. Len(s) PROVE LineOnChain(t, n)
  <2>1. LineOnChain(s, n)
    BY DEF ChainUpTo, EndsTorn
  <2>2. QED
    BY <1>1, <1>2, <2>1 DEF LineOnChain
<1>4. LineOnChain(t, Len(s) + 1) \/ t[Len(s) + 1] = Torn
  BY <1>1, <1>2 DEF LineOnChain
<1>5. QED
  BY <1>1, <1>3, <1>4 DEF ChainUpTo, t

LEMMA ExecuteOnChain ==
  ASSUME LedgerTypeOK, StoreOnChain,
         NEW i \in Intents, NEW k \in Keys \cup {NoKey}, NEW p \in Payloads, Execute(i, k, p)
  PROVE  StoreOnChain'
<1> DEFINE r == ExecuteRecord(i, k, p)
           e == Entry(count, head, r)
<1>1. store' = WriteLine(e) /\ head' = Chain(head, r) /\ count' = count + 1
  BY DEF Execute
<1>2. e \in Line /\ store \in Seq(Line)
  BY RecordType DEF LedgerTypeOK
<1>3. e.prev = head /\ e.hash = Chain(e.prev, e.record) /\ e.hash = Chain(head, r)
  BY DEF Entry
<1> HIDE DEF r, e
<1>4. CASE EndsTorn(store)
  <2>1. store' = store
    BY <1>1, <1>4 DEF WriteLine, EndsTorn
  <2>2. QED
    BY <1>4, <2>1 DEF StoreOnChain, EndsTorn
<1>5. CASE ~ EndsTorn(store)
  <2>1. store' = Append(store, e)
    BY <1>1, <1>5 DEF WriteLine, EndsTorn
  <2>2. ChainUpTo(store) /\ Len(store) = count /\ head = PrevHash(store, Len(store) + 1)
    BY <1>5 DEF StoreOnChain, ChainUpTo, EndsTorn
  <2>3. ChainUpTo(store')
    BY <1>2, <1>3, <1>5, <2>1, <2>2, AppendOnChain
  <2>4. Len(store') = count' /\ store'[Len(store')] = e /\ Len(store) \in Nat
    BY <1>1, <1>2, <2>1, <2>2, AppendProperties, LenProperties
  <2>5. head' = PrevHash(store', Len(store') + 1)
    BY <1>1, <1>3, <2>2, <2>4 DEF PrevHash
  <2>6. QED
    BY <2>3, <2>4, <2>5 DEF StoreOnChain, ChainUpTo
<1>6. QED
  BY <1>4, <1>5

LEMMA AppendFailsOnChain ==
  ASSUME LedgerTypeOK, StoreOnChain, NEW i, NEW k, NEW p, ExecuteAppendFails(i, k, p)
  PROVE  StoreOnChain'
<1>1. head' = head /\ count' = count /\ store' \in {store, WriteLine(Torn)}
  BY DEF ExecuteAppendFails
<1>2. CASE store' = store
  BY <1>1, <1>2 DEF StoreOnChain
<1>3. CASE store' = Append(store, Torn) /\ ~ EndsTorn(store)
  <2>1. store \in Seq(Line) /\ Torn \in Line
    BY DEF LedgerTypeOK, Line, Written
  <2>2. ChainUpTo(store')
    BY <1>3, <2>1, AppendOnChain DEF StoreOnChain, ChainUpTo
  <2>3. store' # << >> /\ store'[Len(store')] = Torn
    BY <1>3, <2>1, AppendProperties, LenProperties
  <2>4. QED
    BY <2>2, <2>3 DEF StoreOnChain, ChainUpTo
<1>4. QED
  BY <1>1, <1>2, <1>3 DEF WriteLine, EndsTorn

LEMMA EmptyOnChain == store = << >> /\ head = Genesis /\ count = 0 => StoreOnChain
BY DEF StoreOnChain, PrevHash

LEMMA StoreOnChainStep ==
  DaemonTypeOK /\ StoreOnChain /\ [DaemonNext]_daemonVars => StoreOnChain'
<1> SUFFICES ASSUME DaemonTypeOK, StoreOnChain, [DaemonNext]_daemonVars
             PROVE  StoreOnChain'
  OBVIOUS
<1>1. CASE UNCHANGED <<store, head, count>>
  BY <1>1 DEF StoreOnChain
<1>2. ASSUME NEW req \in wire, Handle(req) PROVE StoreOnChain'
  <2>1. /\ req.intent \in Intents /\ req.key \in Keys \cup {NoKey}
        /\ req.payload \in Payloads /\ LedgerTypeOK
    BY DEF DaemonTypeOK, Request
  <2>2. Ledger(req)
    BY <1>2, HandleSplit
  <2>3. QED
    BY <1>1, <2>1, <2>2, ExecuteOnChain, AppendFailsOnChain
       DEF Ledger, ledgerVars, ExecuteUnhashable
<1>3. CASE HandleReset
  BY <1>3, EmptyOnChain DEF HandleReset, NewState, StoreOnChain, PrevHash
<1>4. QED
  BY <1>1, <1>2, <1>3
     DEF DaemonNext, SendExecute, SendControl, Send, HandleSeal, daemonVars, ledgerVars

\* The lines on disk are a chain that ends in the head in memory, whatever is
\* executed, fails or is reset; only a line cut short breaks it, and it is last.
THEOREM StoreAlwaysOnChain == DaemonSpec => []StoreOnChain
<1>1. DaemonInit => StoreOnChain
  BY EmptyOnChain DEF DaemonInit, FreshState
<1>2. QED
  BY <1>1, DaemonTypeCorrect, StoreOnChainStep, PTL DEF DaemonSpec

-----------------------------------------------------------------------------
(***************************************************************************)
(* Every request that was executed counts once.                            *)
(***************************************************************************)
\* An answer is given once, and in no later epoch than this.
AnswersOK ==
  /\ IsFiniteSet(answers)
  /\ \A a \in answers : a.epoch <= epoch /\ a.req.id <= sent
  /\ \A r \in wire : r.id <= sent /\ \A a \in answers : a.req # r

NoKeyCrossings(keys) == {n \in DOMAIN keys : keys[n] = NoKey}

\* The keys seen are those executed under, the keyless crossings as many as the
\* keyless executes.
CountedAt(i) ==
  /\ \A k \in Keys : k \in seen_keys[i] <=> ExecutedNow(i, k) # {}
  /\ Cardinality(NoKeyCrossings(effect_keys[i])) = Cardinality(ExecutedNow(i, NoKey))

CountedOK == \A i \in Intents : CountedAt(i)

\* The answer counts: the request was executed, whether or not its client heard.
Counts(req, status) ==
  \/ status = "ok"
  \/ status = "no response" /\ req.payload \notin Unhashable

\* A handler's answer counts exactly when it executed the effect.
LEMMA HandleCounts ==
  ASSUME NEW req, Handle(req)
  PROVE  \E status \in {"ok", "sealed", "refused", "no response"} :
           /\ Reply(req, status)
           /\ IF Counts(req, status) THEN CountEffect(req.intent, req.key, req.payload)
              ELSE UNCHANGED <<seen_keys, effect_keys, effect_digests>>
<1>1. CASE HandleExecute(req)
  BY <1>1 DEF HandleExecute, Execute, Counts
<1>2. CASE HandleSealed(req)
  BY <1>2 DEF HandleSealed, Counts, ledgerVars
<1>3. CASE HandleUnhashable(req)
  BY <1>3 DEF HandleUnhashable, ExecuteUnhashable, Counts
<1>4. CASE HandleAppendFails(req)
  BY <1>4 DEF HandleAppendFails, ExecuteAppendFails, Counts
<1>5. CASE HandleUnprivileged(req)
  BY <1>5 DEF HandleUnprivileged, Counts, ledgerVars
<1>6. QED
  BY <1>1, <1>2, <1>3, <1>4, <1>5 DEF Handle

LEMMA NoKeyAppend ==
  ASSUME NEW keys \in Seq(Keys \cup {NoKey}), NEW k \in Keys \cup {NoKey}
  PROVE  /\ IsFiniteSet(NoKeyCrossings(keys))
         /\ k # NoKey => NoKeyCrossings(Append(keys, k)) = NoKeyCrossings(keys)
         /\ Cardinality(NoKeyCrossings(Append(keys, NoKey)))
              = Cardinality(NoKeyCrossings(keys)) + 1
<1>1. IsFiniteSet(NoKeyCrossings(keys))
  <2>1. IsFiniteSet(1 .. Len(keys)) /\ NoKeyCrossings(keys) \in SUBSET (1 .. Len(keys))
    BY FS_Interval DEF NoKeyCrossings
  <2>2. QED
    BY <2>1, FS_Subset
<1>2. k # NoKey => NoKeyCrossings(Append(keys, k)) = NoKeyCrossings(keys)
  BY DEF NoKeyCrossings
<1>3. /\ NoKeyCrossings(Append(keys, NoKey)) = NoKeyCrossings(keys) \cup {Len(keys) + 1}
      /\ Len(keys) + 1 \notin NoKeyCrossings(keys)
  BY DEF NoKeyCrossings
<1>4. QED
  BY <1>1, <1>2, <1>3, FS_AddElement

LEMMA HandleCounted ==
  ASSUME DaemonTypeOK, AnswersOK, CountedOK, NEW req \in wire, Handle(req)
  PROVE  CountedOK'
<1>1. PICK status \in {"ok", "sealed", "refused", "no response"} :
        /\ Reply(req, status)
        /\ IF Counts(req, status) THEN CountEffect(req.intent, req.key, req.payload)
           ELSE UNCHANGED <<seen_keys, effect_keys>>
  BY HandleCounts
<1> DEFINE a == [req |-> req, status |-> status, epoch |-> epoch]
           Now(i, k) == IF Counts(req, status) /\ i = req.intent /\ k = req.key
                          THEN ExecutedNow(i, k) \cup {a} ELSE ExecutedNow(i, k)
<1>2. a \notin answers /\ answers' = answers \cup {a} /\ epoch' = epoch
  BY <1>1 DEF AnswersOK, Reply
<1>3. \A i, k : ExecutedNow(i, k)' = Now(i, k) /\ a \notin ExecutedNow(i, k)
  <2>1. a.req = req /\ a.status = status /\ a.epoch = epoch
    OBVIOUS
  <2> HIDE DEF a
  <2>2. ASSUME NEW i, NEW k, NEW x
        PROVE  x \in ExecutedNow(i, k)' <=>
                 \/ x \in ExecutedNow(i, k)
                 \/ Counts(req, status) /\ i = req.intent /\ k = req.key /\ x = a
    BY <1>2, <2>1 DEF ExecutedNow, Counts
  <2>3. \A i, k : a \notin ExecutedNow(i, k)
    BY <1>2 DEF ExecutedNow
  <2>4. ASSUME NEW i, NEW k PROVE ExecutedNow(i, k)' = Now(i, k)
    <3>1. CASE Counts(req, status) /\ i = req.intent /\ k = req.key
      BY <2>2, <3>1
    <3>2. CASE ~ (Counts(req, status) /\ i = req.intent /\ k = req.key)
      <4>1. Now(i, k) = ExecutedNow(i, k)
        BY <3>2
      <4>2. ASSUME NEW x PROVE x \in ExecutedNow(i, k)' <=> x \in ExecutedNow(i, k)
        <5>1. x \in ExecutedNow(i, k)' <=>
                 \/ x \in ExecutedNow(i, k)
                 \/ Counts(req, status) /\ i = req.intent /\ k = req.key /\ x = a
          BY <2>2
        <5>2. QED
          BY <3>2, <5>1
      <4>3. ExecutedNow(i, k)' = ExecutedNow(i, k)
        BY <4>2 DEF ExecutedNow
      <4>4. QED
        BY <4>1, <4>3
    <3>3. QED
      BY <3>1, <3>2
  <2>5. QED
    BY <2>3, <2>4
<1>4. /\ req.intent \in Intents /\ req.key \in Keys \cup {NoKey}
      /\ seen_keys \in [Intents -> SUBSET Keys]
      /\ effect_keys \in [Intents -> Seq(Keys \cup {NoKey})]
  BY DEF DaemonTypeOK, LedgerTypeOK, Request
<1>5. \A i : IsFiniteSet(ExecutedNow(i, NoKey))
  <2>1. \A i : ExecutedNow(i, NoKey) \in SUBSET answers
    BY DEF ExecutedNow
  <2>2. QED
    BY <2>1, FS_Subset DEF AnswersOK
<1> HIDE DEF a
<1>6. ASSUME NEW i \in Intents PROVE CountedAt(i)'
  <2>1. CountedAt(i)
    BY DEF CountedOK
  <2>2. CASE ~ Counts(req, status)
    <3>1. seen_keys' = seen_keys /\ effect_keys' = effect_keys
      BY <1>1, <2>2
    <3>2. \A k : ExecutedNow(i, k)' = ExecutedNow(i, k)
      BY <1>3, <2>2
    <3>3. QED
      BY <2>1, <3>1, <3>2 DEF CountedAt
  <2>3. CASE Counts(req, status) /\ i # req.intent
    <3>1. seen_keys'[i] = seen_keys[i] /\ effect_keys'[i] = effect_keys[i]
      BY <1>1, <1>4, <2>3 DEF CountEffect, Crossed
    <3>2. \A k : ExecutedNow(i, k)' = ExecutedNow(i, k)
      BY <1>3, <2>3
    <3>3. QED
      BY <2>1, <3>1, <3>2 DEF CountedAt
  <2>4. CASE Counts(req, status) /\ i = req.intent /\ req.key = NoKey
    <3>1. /\ seen_keys' = seen_keys
          /\ effect_keys'[i] = Append(effect_keys[i], NoKey)
      BY <1>1, <1>4, <2>4 DEF CountEffect, Deduped, Crossed
    <3>2. \A k \in Keys : ExecutedNow(i, k)' = ExecutedNow(i, k)
      BY <1>3, <2>4, KeyAssumption
    <3>3. /\ ExecutedNow(i, NoKey)' = ExecutedNow(i, NoKey) \cup {a}
          /\ a \notin ExecutedNow(i, NoKey)
      BY <1>3, <2>4
    <3>4. Cardinality(ExecutedNow(i, NoKey)') = Cardinality(ExecutedNow(i, NoKey)) + 1
      BY <1>5, <3>3, FS_AddElement
    <3>5. Cardinality(NoKeyCrossings(effect_keys'[i]))
            = Cardinality(NoKeyCrossings(effect_keys[i])) + 1
      BY <1>4, <3>1, NoKeyAppend
    <3>6. \A k \in Keys : k \in seen_keys'[i] <=> ExecutedNow(i, k)' # {}
      BY <2>1, <3>1, <3>2 DEF CountedAt
    <3>7. QED
      BY <2>1, <3>4, <3>5, <3>6 DEF CountedAt
  <2>5. CASE Counts(req, status) /\ i = req.intent /\ req.key # NoKey
    <3>1. seen_keys'[i] = seen_keys[i] \cup {req.key}
      BY <1>1, <1>4, <2>5 DEF CountEffect
    <3>2. effect_keys'[i] \in {effect_keys[i], Append(effect_keys[i], req.key)}
      BY <1>1, <1>4, <2>5 DEF CountEffect, Crossed
    <3>3. NoKeyCrossings(effect_keys'[i]) = NoKeyCrossings(effect_keys[i])
      BY <1>4, <2>5, <3>2, NoKeyAppend
    <3>4. /\ ExecutedNow(i, NoKey)' = ExecutedNow(i, NoKey)
          /\ ExecutedNow(i, req.key)' # {}
          /\ \A k \in Keys : k # req.key => ExecutedNow(i, k)' = ExecutedNow(i, k)
      BY <1>3, <2>5
    <3>5. QED
      BY <2>1, <3>1, <3>3, <3>4 DEF CountedAt
  <2>6. QED
    BY <2>2, <2>3, <2>4, <2>5
<1>7. QED
  BY <1>6 DEF CountedOK

LEMMA NotLess == \A n \in Nat : n <= n
OBVIOUS

LEMMA AnswersStep ==
  DaemonTypeOK /\ AnswersOK /\ [DaemonNext]_daemonVars => AnswersOK'
<1> SUFFICES ASSUME DaemonTypeOK, AnswersOK, [DaemonNext]_daemonVars PROVE AnswersOK'
  OBVIOUS
<1>1. /\ sent \in Nat /\ epoch \in Nat
      /\ \A r \in wire : r.id \in Nat
      /\ \A a \in answers : a.req.id \in Nat /\ a.epoch \in Nat
  <2>1. \A r \in Request : r.id \in Nat /\ r.epoch \in Nat
    BY DaemonAssumption DEF Request, RequestId
  <2>2. \A a \in Answer : a.req \in Request /\ a.epoch \in Nat
    <3>1. \A a \in Answer : a.req \in Request /\ a.epoch \in 0 .. MaxEpochs
      BY DEF Answer
    <3>2. QED
      BY <3>1
  <2>3. QED
    BY <2>1, <2>2, DaemonAssumption DEF DaemonTypeOK
<1>2. ASSUME NEW op, NEW i, NEW k, NEW p, Send(op, i, k, p) PROVE AnswersOK'
  BY <1>1, <1>2 DEF Send, AnswersOK
<1>3. ASSUME NEW req \in wire, Handle(req) PROVE AnswersOK'
  <2>1. PICK status \in {"ok", "sealed", "refused", "no response"} : Reply(req, status)
    BY <1>3, HandleSplit
  <2>2. IsFiniteSet(answers')
    BY <2>1, FS_AddElement DEF Reply, AnswersOK
  <2>3. QED
    <3> DEFINE new == [req |-> req, status |-> status, epoch |-> epoch]
    <3>1. new.req = req /\ new.epoch = epoch
      OBVIOUS
    <3>2. /\ answers' = answers \cup {new}
          /\ wire' = wire \ {req} /\ sent' = sent /\ epoch' = epoch
      BY <2>1 DEF Reply
    <3> HIDE DEF new
    <3>3. ASSUME NEW a \in answers' PROVE a.epoch <= epoch /\ a.req.id <= sent
      <4>1. CASE a \in answers
        BY <4>1 DEF AnswersOK
      <4>2. CASE a = new
        <5>1. a.epoch = epoch /\ a.req = req
          BY <3>1, <4>2
        <5>2. req.id <= sent
          BY DEF AnswersOK
        <5>3. QED
          BY <1>1, <5>1, <5>2, NotLess
      <4>3. QED
        BY <3>2, <4>1, <4>2
    <3>4. ASSUME NEW r \in wire', NEW a \in answers' PROVE r.id <= sent /\ a.req # r
      BY <3>1, <3>2 DEF AnswersOK
    <3>5. ASSUME NEW r \in wire' PROVE r.id <= sent
      BY <3>2 DEF AnswersOK
    <3>6. QED
      BY <2>2, <3>2, <3>3, <3>4, <3>5 DEF AnswersOK
<1>4. CASE HandleSeal \/ UNCHANGED daemonVars
  BY <1>4 DEF HandleSeal, AnswersOK, daemonVars
<1>5. CASE HandleReset
  BY <1>1, <1>5 DEF HandleReset, AnswersOK
<1>6. QED
  BY <1>2, <1>3, <1>4, <1>5 DEF DaemonNext, SendExecute, SendControl

LEMMA NoKeyEmpty == NoKeyCrossings(<< >>) = {}
<1>1. DOMAIN << >> = {}
  OBVIOUS
<1>2. QED
  BY <1>1 DEF NoKeyCrossings

LEMMA CountedFresh ==
  ASSUME NEW i \in Intents, seen_keys[i] = {}, effect_keys[i] = << >>,
         \A a \in answers : a.epoch # epoch
  PROVE  CountedAt(i)
<1>1. NoKeyCrossings(<< >>) = {}
  BY NoKeyEmpty
<1>2. \A k : ExecutedNow(i, k) = {}
  BY DEF ExecutedNow
<1>3. QED
  BY <1>1, <1>2 DEF CountedAt

LEMMA CountedStep ==
  DaemonTypeOK /\ AnswersOK /\ CountedOK /\ [DaemonNext]_daemonVars => CountedOK'
<1> SUFFICES ASSUME DaemonTypeOK, AnswersOK, CountedOK, [DaemonNext]_daemonVars
             PROVE  CountedOK'
  OBVIOUS
<1>1. ASSUME NEW req \in wire, Handle(req) PROVE CountedOK'
  BY <1>1, HandleCounted
<1>2. CASE UNCHANGED <<seen_keys, effect_keys, answers, epoch>>
  <2>1. \A i, k : ExecutedNow(i, k)' = ExecutedNow(i, k)
    BY <1>2 DEF ExecutedNow
  <2>2. QED
    BY <1>2, <2>1 DEF CountedOK, CountedAt
<1>3. CASE HandleReset
  <2>1. \A a \in answers' : a.epoch # epoch'
    <3>1. answers' = answers /\ epoch' = epoch + 1 /\ epoch \in Nat
      BY <1>3, DaemonAssumption DEF HandleReset, DaemonTypeOK
    <3>2. \A a \in answers : a.epoch \in 0 .. MaxEpochs
      BY DEF DaemonTypeOK, Answer
    <3>3. QED
      BY <3>1, <3>2 DEF AnswersOK
  <2>2. \A i \in Intents : seen_keys'[i] = {} /\ effect_keys'[i] = << >>
    BY <1>3 DEF HandleReset, NewState
  <2>3. ASSUME NEW i \in Intents PROVE CountedAt(i)'
    <3>1. \A k : ExecutedNow(i, k)' = {}
      BY <2>1 DEF ExecutedNow
    <3>2. QED
      BY <2>2, <3>1, NoKeyEmpty DEF CountedAt
  <2>4. QED
    BY <2>3 DEF CountedOK
<1>4. QED
  BY <1>1, <1>2, <1>3
     DEF DaemonNext, SendExecute, SendControl, Send, HandleSeal, daemonVars, ledgerVars

\* However requests repeat, fail or race, an execute that was carried out is one
\* crossing per key, or one of its own without a key, and nothing else crosses
\* (core.py execute under the lock of daemon.py handle).
THEOREM EachAcknowledgedOnce == DaemonSpec => []AcknowledgedOnce
<1>1. DaemonInit => AnswersOK /\ CountedOK
  <2> SUFFICES ASSUME DaemonInit PROVE AnswersOK /\ CountedOK
    OBVIOUS
  <2>1. AnswersOK
    BY FS_EmptySet DEF DaemonInit, AnswersOK
  <2>2. \A i \in Intents : seen_keys[i] = {} /\ effect_keys[i] = << >>
    BY DEF DaemonInit, FreshState
  <2>3. CountedOK
    BY <2>2, CountedFresh DEF DaemonInit, CountedOK
  <2>4. QED
    BY <2>1, <2>3
<1>2. DaemonTypeOK /\ CrossingsAgree /\ CountedOK => AcknowledgedOnce
  <2> SUFFICES ASSUME DaemonTypeOK, CrossingsAgree, CountedOK,
                      NEW i \in Intents, NEW k \in Keys
               PROVE  Cardinality({n \in DOMAIN effect_keys[i] : effect_keys[i][n] = k})
                        = IF ExecutedNow(i, k) = {} THEN 0 ELSE 1
    BY KeyAssumption DEF AcknowledgedOnce, CountedOK, CountedAt, NoKeyCrossings
  <2> DEFINE crossings == {n \in DOMAIN effect_keys[i] : effect_keys[i][n] = k}
  <2>1. /\ effect_keys[i] \in Seq(Keys \cup {NoKey}) /\ k # NoKey
        /\ DOMAIN effect_keys[i] = 1 .. Len(effect_keys[i])
    BY KeyAssumption DEF DaemonTypeOK, LedgerTypeOK
  <2>2. k \in seen_keys[i] <=> crossings # {}
    BY <2>1 DEF CrossingsAgree
  <2>3. \A m, n \in crossings : m = n
    BY <2>1 DEF CrossingsAgree
  <2>4. k \in seen_keys[i] <=> ExecutedNow(i, k) # {}
    BY DEF CountedOK, CountedAt
  <2> HIDE DEF crossings
  <2>5. CASE crossings = {}
    BY <2>2, <2>4, <2>5, FS_EmptySet DEF crossings
  <2>6. CASE crossings # {}
    <3>1. PICK n \in crossings : crossings = {n}
      BY <2>3, <2>6
    <3>2. Cardinality(crossings) = 1
      BY <3>1, FS_Singleton
    <3>3. QED
      BY <2>2, <2>4, <2>6, <3>2 DEF crossings
  <2>7. QED
    BY <2>5, <2>6
<1>3. QED
  BY <1>1, <1>2, DaemonTypeCorrect, CrossingsAlwaysAgree, AnswersStep, CountedStep, PTL
     DEF DaemonSpec
-----------------------------------------------------------------------------
(***************************************************************************)
(* The chained records tell what the counters tell.                        *)
(***************************************************************************)
Whole == WriteFailed \/ \A n \in 1 .. Len(store) : store[n] # Torn

\* The digests of an intent are, in order, those of its records that crossed.
InOrder(i, line) ==
  /\ line \in [DOMAIN effect_digests[i] -> CrossingLines(i)]
  /\ \A n \in CrossingLines(i) : \E m \in DOMAIN line : line[m] = n
  /\ \A l, m \in DOMAIN line : l < m => line[l] < line[m]
  /\ \A m \in DOMAIN line : store[line[m]].record.payload_digest = effect_digests[i][m]

Recorded(i) == \E line : InOrder(i, line)

LEMMA RecordedAll == CrossingsOnRecord <=> WriteFailed \/ \A i \in Intents : Recorded(i)
BY DEF CrossingsOnRecord, Recorded, InOrder

\* A line at the end of a whole store: the lines before it stay as they are.
LEMMA AppendLine ==
  ASSUME DaemonTypeOK, \A n \in 1 .. Len(store) : store[n] # Torn,
         NEW i \in Intents, NEW k \in Keys \cup {NoKey}, NEW p \in Payloads, Execute(i, k, p)
  PROVE  /\ \A n \in 1 .. Len(store') : store'[n] # Torn
         /\ Len(store) \in Nat /\ Len(store') = Len(store) + 1
         /\ \A n \in 1 .. Len(store) : store'[n] = store[n]
         /\ store'[Len(store')].record = ExecuteRecord(i, k, p)
<1> DEFINE r == ExecuteRecord(i, k, p)
           e == Entry(count, head, r)
<1>1. store' = WriteLine(e) /\ e.record = r
  BY DEF Execute, Entry
<1>2. e \in Written
  <2>1. r \in Record /\ Chain(head, r) \in Hash /\ count \in Nat /\ head \in Hash
    BY RecordType DEF DaemonTypeOK, LedgerTypeOK
  <2> HIDE DEF r
  <2>2. QED
    BY <2>1 DEF Written, Entry
<1>3. store \in Seq(Line) /\ e \in Line /\ e # Torn
  BY <1>2, TornAssumption DEF DaemonTypeOK, LedgerTypeOK, Line
<1> HIDE DEF r, e
<1>4. store' = Append(store, e)
  <2>1. store # << >> => Len(store) \in 1 .. Len(store)
    BY <1>3
  <2>2. QED
    BY <1>1, <2>1 DEF WriteLine
<1>5. /\ Len(store) \in Nat /\ Len(store') = Len(store) + 1
      /\ \A n \in 1 .. Len(store) : store'[n] = store[n]
      /\ store'[Len(store')] = e
  BY <1>3, <1>4, AppendProperties, LenProperties
<1>6. \A n \in 1 .. Len(store') : store'[n] # Torn
  BY <1>3, <1>5
<1>7. QED
  BY <1>1, <1>5, <1>6 DEF r

\* An execute adds one line; it is a crossing of the intent exactly when a digest
\* is added to it.
LEMMA ExecuteRecorded ==
  ASSUME DaemonTypeOK, \A n \in 1 .. Len(store) : store[n] # Torn,
         NEW i \in Intents, NEW k \in Keys \cup {NoKey}, NEW p \in Payloads, Execute(i, k, p),
         NEW j \in Intents, Recorded(j)
  PROVE  Recorded(j)'
<1> DEFINE last == Len(store) + 1
           d == effect_digests[j]
<1>1. /\ Len(store) \in Nat /\ Len(store') = last
      /\ \A n \in 1 .. Len(store) : store'[n] = store[n]
      /\ store'[last].record = ExecuteRecord(i, k, p)
  BY AppendLine
<1>2. /\ store'[last].record.intent_id = i
      /\ store'[last].record.deduped = Deduped(i, k)
      /\ store'[last].record.payload_digest = p
  BY <1>1 DEF ExecuteRecord
<1>3. CrossingLines(j)' = CrossingLines(j) \cup (IF j = i /\ ~ Deduped(i, k) THEN {last} ELSE {})
  BY <1>1, <1>2 DEF CrossingLines
<1>4. /\ d \in Seq(Payloads) /\ DOMAIN d = 1 .. Len(d) /\ Len(d) \in Nat
      /\ effect_digests \in [Intents -> Seq(Payloads)]
  BY DEF DaemonTypeOK, LedgerTypeOK
<1>5. PICK line : InOrder(j, line)
  BY DEF Recorded
<1>6. /\ line \in [DOMAIN d -> CrossingLines(j)]
      /\ \A n \in CrossingLines(j) : \E m \in DOMAIN line : line[m] = n
      /\ \A l, m \in DOMAIN line : l < m => line[l] < line[m]
      /\ \A m \in DOMAIN line : store[line[m]].record.payload_digest = d[m]
  BY <1>5 DEF InOrder
<1>7. \A n \in CrossingLines(j) : n \in 1 .. Len(store)
  BY DEF CrossingLines
<1>8. CASE ~ (j = i /\ ~ Deduped(i, k))
  <2>1. effect_digests'[j] = d
    BY <1>4, <1>8 DEF Execute, CountEffect, Crossed
  <2>2. CrossingLines(j)' = CrossingLines(j)
    BY <1>3, <1>8
  <2>3. \A m \in DOMAIN line : store'[line[m]] = store[line[m]]
    BY <1>1, <1>6, <1>7
  <2> HIDE DEF d
  <2>4. InOrder(j, line)'
    BY <1>6, <2>1, <2>2, <2>3 DEF InOrder
  <2>5. QED
    BY <2>4 DEF Recorded
<1>9. CASE j = i /\ ~ Deduped(i, k)
  <2> DEFINE n0 == Len(d) + 1
             new == [m \in 1 .. n0 |-> IF m = n0 THEN last ELSE line[m]]
  <2>1. effect_digests'[j] = Append(d, p)
    BY <1>4, <1>9 DEF Execute, CountEffect, Crossed
  <2>2. /\ DOMAIN effect_digests'[j] = 1 .. n0 /\ effect_digests'[j][n0] = p
        /\ \A m \in 1 .. Len(d) : effect_digests'[j][m] = d[m]
    BY <1>4, <2>1
  <2>3. CrossingLines(j)' = CrossingLines(j) \cup {last}
    BY <1>3, <1>9
  <2>4. \A m \in 1 .. Len(d) : line[m] \in CrossingLines(j) /\ line[m] \in 1 .. Len(store)
    BY <1>4, <1>6, <1>7
  <2>5. /\ DOMAIN new = 1 .. n0 /\ new[n0] = last
        /\ \A m \in 1 .. Len(d) : m \in 1 .. n0 /\ new[m] = line[m]
    BY <1>4
  <2>6. \A m \in 1 .. n0 : m \in 1 .. Len(d) \/ m = n0
    BY <1>4
  <2>7. DOMAIN line = 1 .. Len(d) /\ n0 \in 1 .. n0
    BY <1>4, <1>6
  <2>8. new \in [1 .. n0 -> CrossingLines(j)']
    BY <2>3, <2>4, <2>5, <2>6
  <2>9. \A n \in CrossingLines(j)' : \E m \in 1 .. n0 : new[m] = n
    BY <1>6, <2>3, <2>5, <2>7
  <2>10. \A l, m \in 1 .. n0 : l < m => new[l] < new[m]
    <3> SUFFICES ASSUME NEW l \in 1 .. n0, NEW m \in 1 .. n0, l < m PROVE new[l] < new[m]
      OBVIOUS
    <3>1. l \in 1 .. Len(d)
      BY <1>4
    <3>2. CASE m = n0
      BY <1>1, <2>4, <2>5, <3>1, <3>2
    <3>3. CASE m \in 1 .. Len(d)
      BY <1>6, <2>5, <2>7, <3>1, <3>3
    <3>4. QED
      BY <2>6, <3>2, <3>3
  <2>11. \A m \in 1 .. n0 : store'[new[m]].record.payload_digest = effect_digests'[j][m]
    <3> SUFFICES ASSUME NEW m \in 1 .. n0
                 PROVE  store'[new[m]].record.payload_digest = effect_digests'[j][m]
      OBVIOUS
    <3>1. CASE m = n0
      BY <1>2, <2>2, <2>5, <3>1
    <3>2. CASE m \in 1 .. Len(d)
      <4>1. new[m] = line[m] /\ effect_digests'[j][m] = d[m]
        BY <2>2, <2>5, <3>2
      <4>2. store'[line[m]] = store[line[m]]
        BY <1>1, <2>4, <3>2
      <4>3. store[line[m]].record.payload_digest = d[m]
        BY <1>6, <2>7, <3>2
      <4> HIDE DEF new, d
      <4>4. QED
        BY <4>1, <4>2, <4>3
    <3>3. QED
      BY <2>6, <3>1, <3>2
  <2> HIDE DEF new, n0
  <2>12. PICK f : f = new
    OBVIOUS
  <2>13. InOrder(j, f)'
    BY <2>2, <2>5, <2>8, <2>9, <2>10, <2>11, <2>12 DEF InOrder
  <2>14. QED
    BY <2>13 DEF Recorded
<1>10. QED
  BY <1>8, <1>9

\* Nothing the epoch's ledger holds changes but by an execute, a failed write or
\* a reset; a failed write stays on the answers.
LEMMA HandleRecorded ==
  ASSUME DaemonTypeOK, Whole, CrossingsOnRecord, NEW req \in wire, Handle(req)
  PROVE  Whole' /\ CrossingsOnRecord'
<1>1. PICK status \in {"ok", "sealed", "refused", "no response"} : Reply(req, status)
  BY HandleSplit
<1>2. answers \subseteq answers' /\ epoch' = epoch
  BY <1>1 DEF Reply
<1>3. WriteFailed => WriteFailed'
  BY <1>2 DEF WriteFailed
<1>4. CASE WriteFailed
  BY <1>3, <1>4 DEF Whole, CrossingsOnRecord
<1>5. CASE ~ WriteFailed
  <2>1. /\ \A n \in 1 .. Len(store) : store[n] # Torn
        /\ \A j \in Intents : Recorded(j)
    BY <1>5, RecordedAll DEF Whole
  <2>2. CASE HandleExecute(req)
    <3>1. /\ req.intent \in Intents /\ req.key \in Keys \cup {NoKey}
          /\ req.payload \in Payloads /\ Execute(req.intent, req.key, req.payload)
      BY <2>2 DEF HandleExecute, DaemonTypeOK, Request
    <3>2. \A n \in 1 .. Len(store') : store'[n] # Torn
      BY <2>1, <3>1, AppendLine
    <3>3. \A j \in Intents : Recorded(j)'
      BY <2>1, <3>1, ExecuteRecorded
    <3>4. CrossingsOnRecord'
      BY <3>3 DEF CrossingsOnRecord, Recorded, InOrder
    <3>5. QED
      BY <3>2, <3>4 DEF Whole
  <2>3. CASE HandleAppendFails(req)
    <3>1. /\ Reply(req, "no response") /\ req.payload \notin Unhashable
      BY <2>3 DEF HandleAppendFails, ExecuteAppendFails
    <3> DEFINE a == [req |-> req, status |-> "no response", epoch |-> epoch]
    <3>2. a \in answers' /\ a.epoch = epoch' /\ a.status = "no response" /\ a.req = req
      BY <3>1 DEF Reply
    <3>3. WriteFailed'
      BY <3>1, <3>2 DEF WriteFailed
    <3>4. QED
      BY <3>3 DEF Whole, CrossingsOnRecord
  <2>4. CASE UNCHANGED <<store, effect_digests>>
    <3>1. ASSUME NEW j \in Intents PROVE Recorded(j)'
      <4>1. PICK line : InOrder(j, line)
        BY <2>1 DEF Recorded
      <4>2. CrossingLines(j)' = CrossingLines(j)
        BY <2>4 DEF CrossingLines
      <4>3. InOrder(j, line)'
        BY <2>4, <4>1, <4>2 DEF InOrder
      <4>4. QED
        BY <4>3 DEF Recorded
    <3>2. Whole'
      BY <2>1, <2>4 DEF Whole
    <3>3. CrossingsOnRecord'
      BY <3>1, RecordedAll DEF CrossingsOnRecord, Recorded, InOrder
    <3>4. QED
      BY <3>2, <3>3
  <2>5. QED
    BY <2>2, <2>3, <2>4
       DEF Handle, HandleSealed, HandleUnhashable, HandleUnprivileged, ExecuteUnhashable,
           ledgerVars
<1>6. QED
  BY <1>4, <1>5

LEMMA EmptyRecorded ==
  ASSUME store = << >>, NEW i, effect_digests[i] = << >>
  PROVE  Recorded(i)
<1>1. CrossingLines(i) = {} /\ DOMAIN effect_digests[i] = {}
  BY DEF CrossingLines
<1>2. InOrder(i, [m \in {} |-> 0])
  BY <1>1 DEF InOrder
<1>3. QED
  BY <1>2 DEF Recorded

LEMMA RecordedStep ==
  DaemonTypeOK /\ Whole /\ CrossingsOnRecord /\ [DaemonNext]_daemonVars
    => Whole' /\ CrossingsOnRecord'
<1> SUFFICES ASSUME DaemonTypeOK, Whole, CrossingsOnRecord, [DaemonNext]_daemonVars
             PROVE  Whole' /\ CrossingsOnRecord'
  OBVIOUS
<1>1. ASSUME NEW req \in wire, Handle(req) PROVE Whole' /\ CrossingsOnRecord'
  BY <1>1, HandleRecorded
<1>2. CASE UNCHANGED <<store, effect_digests, answers, epoch>>
  <2>1. WriteFailed' = WriteFailed
    BY <1>2 DEF WriteFailed
  <2>2. \A j : CrossingLines(j)' = CrossingLines(j)
    BY <1>2 DEF CrossingLines
  <2>3. QED
    BY <1>2, <2>1, <2>2 DEF Whole, CrossingsOnRecord
<1>3. CASE HandleReset
  <2>1. store' = << >> /\ \A j \in Intents : effect_digests'[j] = << >>
    BY <1>3 DEF HandleReset, NewState
  <2>2. ASSUME NEW j \in Intents PROVE Recorded(j)'
    <3>1. CrossingLines(j)' = {} /\ DOMAIN effect_digests'[j] = {}
      BY <2>1 DEF CrossingLines
    <3>2. InOrder(j, [m \in {} |-> 0])'
      BY <3>1 DEF InOrder
    <3>3. QED
      BY <3>2 DEF Recorded
  <2>3. CrossingsOnRecord'
    BY <2>2 DEF CrossingsOnRecord, Recorded, InOrder
  <2>4. QED
    BY <2>1, <2>3 DEF Whole
<1>4. QED
  BY <1>1, <1>2, <1>3
     DEF DaemonNext, SendExecute, SendControl, Send, HandleSeal, daemonVars, ledgerVars

\* Until a write of the epoch fails, the crossings the ledger counts of an intent
\* are the records of the chained file that were not deduped, one for one and in
\* the same order (core.py execute reads deduped before _crossed, _append).
THEOREM CrossingsAlwaysOnRecord == DaemonSpec => []CrossingsOnRecord
<1>1. DaemonInit => Whole /\ CrossingsOnRecord
  <2> SUFFICES ASSUME DaemonInit PROVE Whole /\ CrossingsOnRecord
    OBVIOUS
  <2>1. store = << >> /\ \A i \in Intents : effect_digests[i] = << >>
    BY DEF DaemonInit, FreshState
  <2>2. \A i \in Intents : Recorded(i)
    BY <2>1, EmptyRecorded
  <2>3. QED
    BY <2>1, <2>2, RecordedAll DEF Whole
<1>2. QED
  BY <1>1, DaemonTypeCorrect, RecordedStep, PTL DEF DaemonSpec

-----------------------------------------------------------------------------
(***************************************************************************)
(* Every crossing was asked for: its key and its digest are those of one   *)
(* request.                                                                *)
(***************************************************************************)
AskedFor(i, key, digest, replies, now) ==
  \E a \in replies : /\ a.epoch = now /\ Counts(a.req, a.status) /\ a.req.intent = i
                     /\ a.req.key = key /\ a.req.payload = digest

\* Of one intent's keys and digests.
Asked(i, keys, digests, replies, now) ==
  \A n \in 1 .. Len(keys) : AskedFor(i, keys[n], digests[n], replies, now)

CrossedAsAsked ==
  \A i \in Intents : Asked(i, effect_keys[i], effect_digests[i], answers, epoch)

LEMMA AskedStays ==
  ASSUME NEW i, NEW keys, NEW digests, NEW old, NEW new, NEW now,
         Asked(i, keys, digests, old, now), old \subseteq new
  PROVE  Asked(i, keys, digests, new, now)
BY DEF Asked, AskedFor

LEMMA AskedAppend ==
  ASSUME NEW i, NEW keys \in Seq(Keys \cup {NoKey}), NEW digests \in Seq(Payloads),
         Len(digests) = Len(keys), NEW k \in Keys \cup {NoKey}, NEW p \in Payloads,
         NEW replies, NEW now,
         Asked(i, keys, digests, replies, now), AskedFor(i, k, p, replies, now)
  PROVE  Asked(i, Append(keys, k), Append(digests, p), replies, now)
<1> DEFINE K == Keys \cup {NoKey}
           kt == Append(keys, k)
           dt == Append(digests, p)
<1>1. keys \in Seq(K) /\ k \in K
  OBVIOUS
<1> HIDE DEF K
<1>2. /\ Len(keys) \in Nat /\ Len(kt) = Len(keys) + 1 /\ kt[Len(keys) + 1] = k
      /\ \A m \in 1 .. Len(keys) : kt[m] = keys[m]
  BY <1>1, AppendProperties, LenProperties
<1>3. /\ dt[Len(keys) + 1] = p
      /\ \A m \in 1 .. Len(keys) : dt[m] = digests[m]
  BY AppendProperties, LenProperties
<1> HIDE DEF kt, dt
<1>4. ASSUME NEW n \in 1 .. Len(kt) PROVE AskedFor(i, kt[n], dt[n], replies, now)
  <2>1. n \in 1 .. Len(keys) \/ n = Len(keys) + 1
    BY <1>2
  <2>2. CASE n \in 1 .. Len(keys)
    BY <1>2, <1>3, <2>2 DEF Asked
  <2>3. CASE n = Len(keys) + 1
    BY <1>2, <1>3, <2>3
  <2>4. QED
    BY <2>1, <2>2, <2>3
<1>5. QED
  BY <1>4 DEF Asked, kt, dt

LEMMA HandleAsked ==
  ASSUME DaemonTypeOK, CrossingsAgree, CrossedAsAsked, NEW req \in wire, Handle(req)
  PROVE  CrossedAsAsked'
<1>1. PICK status \in {"ok", "sealed", "refused", "no response"} :
        /\ Reply(req, status)
        /\ IF Counts(req, status) THEN CountEffect(req.intent, req.key, req.payload)
           ELSE UNCHANGED <<seen_keys, effect_keys, effect_digests>>
  BY HandleCounts
<1> DEFINE answer == [req |-> req, status |-> status, epoch |-> epoch]
<1>2. /\ answers' = answers \cup {answer} /\ epoch' = epoch
      /\ answer.req = req /\ answer.status = status /\ answer.epoch = epoch
  BY <1>1 DEF Reply
<1> HIDE DEF answer
<1> SUFFICES ASSUME NEW i \in Intents
             PROVE  Asked(i, effect_keys'[i], effect_digests'[i], answers', epoch')
  BY DEF CrossedAsAsked
<1>3. Asked(i, effect_keys[i], effect_digests[i], answers', epoch')
  <2>1. Asked(i, effect_keys[i], effect_digests[i], answers, epoch) /\ answers \subseteq answers'
    BY <1>2 DEF CrossedAsAsked
  <2>2. QED
    BY <1>2, <2>1, AskedStays
<1>4. CASE effect_keys'[i] = effect_keys[i] /\ effect_digests'[i] = effect_digests[i]
  BY <1>3, <1>4
<1>5. CASE ~ (effect_keys'[i] = effect_keys[i] /\ effect_digests'[i] = effect_digests[i])
  <2>1. Counts(req, status) /\ CountEffect(req.intent, req.key, req.payload)
    BY <1>1, <1>5
  <2>2. Crossed(req.intent, req.key, req.payload)
    BY <1>5, <2>1 DEF CountEffect
  <2>3. /\ effect_keys \in [Intents -> Seq(Keys \cup {NoKey})]
        /\ effect_digests \in [Intents -> Seq(Payloads)]
        /\ req.key \in Keys \cup {NoKey} /\ req.payload \in Payloads
    BY DEF DaemonTypeOK, LedgerTypeOK, Request
  <2>4. i = req.intent
    BY <1>5, <2>2, <2>3 DEF Crossed
  <2>5. /\ effect_keys'[i] = Append(effect_keys[i], req.key)
        /\ effect_digests'[i] = Append(effect_digests[i], req.payload)
    BY <2>2, <2>3, <2>4 DEF Crossed
  <2>6. AskedFor(i, req.key, req.payload, answers', epoch')
    BY <1>2, <2>1, <2>4 DEF AskedFor
  <2>7. /\ effect_keys[i] \in Seq(Keys \cup {NoKey}) /\ effect_digests[i] \in Seq(Payloads)
        /\ Len(effect_digests[i]) = Len(effect_keys[i])
    BY <2>3 DEF CrossingsAgree
  <2>8. Asked(i, Append(effect_keys[i], req.key), Append(effect_digests[i], req.payload),
              answers', epoch')
    BY <1>3, <2>3, <2>6, <2>7, AskedAppend
  <2>9. QED
    BY <2>5, <2>8
<1>6. QED
  BY <1>4, <1>5

LEMMA AskedStep ==
  DaemonTypeOK /\ CrossingsAgree /\ CrossedAsAsked /\ [DaemonNext]_daemonVars => CrossedAsAsked'
<1> SUFFICES ASSUME DaemonTypeOK, CrossingsAgree, CrossedAsAsked, [DaemonNext]_daemonVars
             PROVE  CrossedAsAsked'
  OBVIOUS
<1>1. CASE UNCHANGED <<effect_keys, effect_digests, answers, epoch>>
  BY <1>1 DEF CrossedAsAsked
<1>2. CASE HandleReset
  <2>1. \A i \in Intents : effect_keys'[i] = << >>
    BY <1>2 DEF HandleReset, NewState
  <2>2. QED
    BY <2>1 DEF CrossedAsAsked, Asked
<1>3. ASSUME NEW req \in wire, Handle(req) PROVE CrossedAsAsked'
  BY <1>3, HandleAsked
<1>4. QED
  BY <1>1, <1>2, <1>3
     DEF DaemonNext, SendExecute, SendControl, Send, HandleSeal, daemonVars, ledgerVars

\* Whatever crossed was asked for: the key and the digest kept of a crossing are
\* those of one request of this epoch that the ledger executed, for any order of
\* requests and any failures (core.py _crossed under daemon.py handle).
THEOREM CrossedAlwaysAsAsked == DaemonSpec => []CrossedAsAsked
<1>1. DaemonInit => CrossedAsAsked
  BY DEF DaemonInit, FreshState, CrossedAsAsked, Asked
<1>2. QED
  BY <1>1, DaemonTypeCorrect, CrossingsAlwaysAgree, AskedStep, PTL DEF DaemonSpec

-----------------------------------------------------------------------------
(***************************************************************************)
(* What the trials' proofs take from the daemon: the requests it was sent, *)
(* and what the oracle says of what it counted.                            *)
(***************************************************************************)
Issued == wire \cup {a.req : a \in answers}

\* A handler moves its request from the wire to the answers.
LEMMA DaemonMoves ==
  ASSUME NEW req \in wire, Handle(req)
  PROVE  /\ Issued' = Issued /\ req \in Issued /\ wire' = wire \ {req}
         /\ \E status \in {"ok", "sealed", "refused", "no response"} :
              answers' = answers \cup {[req |-> req, status |-> status, epoch |-> epoch]}
         /\ UNCHANGED <<sent, epoch, sealed>>
<1>1. PICK status \in {"ok", "sealed", "refused", "no response"} : Reply(req, status)
  BY HandleSplit
<1>2. Issued' = (wire \ {req}) \cup {a.req : a \in answers} \cup {req}
  <2> DEFINE answer == [req |-> req, status |-> status, epoch |-> epoch]
  <2>1. answer.req = req /\ answers' = answers \cup {answer} /\ wire' = wire \ {req}
    BY <1>1 DEF Reply
  <2> HIDE DEF answer
  <2>2. {a.req : a \in answers'} = {a.req : a \in answers} \cup {req}
    BY <2>1
  <2>3. QED
    BY <2>1, <2>2 DEF Issued
<1>3. Issued' = Issued /\ req \in Issued
  BY <1>2 DEF Issued
<1>4. /\ wire' = wire \ {req} /\ UNCHANGED <<sent, epoch, sealed>>
      /\ answers' = answers \cup {[req |-> req, status |-> status, epoch |-> epoch]}
  BY <1>1 DEF Reply
<1>5. QED
  BY <1>3, <1>4

\* The chain of a store that only a torn line ends early is never broken.
LEMMA ChainNeverBroken == StoreOnChain => Verify(store) \in {"ok", "raises"}
<1> SUFFICES ASSUME StoreOnChain PROVE Verify(store) \in {"ok", "raises"}
  OBVIOUS
<1> DEFINE bad == {n \in 1 .. Len(store) : /\ \A m \in 1 .. n - 1 : LineOnChain(store, m)
                                           /\ ~ LineOnChain(store, n)}
<1>1. \A n \in bad : store[n] = Torn
  BY DEF StoreOnChain
<1>2. bad = {} \/ \E n \in bad : store[n] = Torn
  BY <1>1
<1> HIDE DEF bad
<1>3. Verify(store) = CASE bad = {} -> "ok"
                        [] \E n \in bad : store[n] = Torn -> "raises"
                        [] OTHER -> "broken"
  BY DEF Verify, bad
<1>4. CASE bad = {}
  BY <1>3, <1>4
<1>5. CASE bad # {}
  BY <1>2, <1>3, <1>5
<1>6. QED
  BY <1>4, <1>5

LEMMA TwoCrossings ==
  ASSUME NEW digests, Len(digests) \in Nat, Len(digests) >= 2
  PROVE  CrossingOutcome(digests) # "lost"
<1>1. Len(digests) # 0 /\ Len(digests) # 1
  OBVIOUS
<1> DEFINE differ == \E l, m \in 1 .. Len(digests) : digests[l] # digests[m]
<1>2. CrossingOutcome(digests) = IF differ THEN "diverged" ELSE "duplicated"
  BY <1>1, Zenon DEF CrossingOutcome
<1>3. QED
  BY <1>2

LEMMA ClassifyCrossings ==
  ASSUME LedgerTypeOK, CrossingsAgree, NEW i \in Intents, effect_keys[i] # << >>
  PROVE  /\ Classify(i, Dump, store) # "lost"
         /\ StoreOnChain /\ Len(effect_keys[i]) = 1 =>
              Classify(i, Dump, store) \in {"raises", "exactly_once"}
<1>1. /\ Dump.side_effects[i] = Len(effect_keys[i])
      /\ Len(Dump.effect_digests[i]) = Len(effect_keys[i])
  BY DEF Dump, CrossingsAgree
<1>2. Len(effect_keys[i]) \in Nat \ {0}
  BY DEF LedgerTypeOK
<1>3. Classify(i, Dump, store) # "lost"
  <2> DEFINE n == Dump.side_effects[i]
             digests == Dump.effect_digests[i]
  <2>1. n \in Nat \ {0} /\ Len(digests) = n
    BY <1>1, <1>2
  <2> HIDE DEF n, digests
  <2>2. n >= 2 => CrossingOutcome(digests) # "lost"
    BY <2>1, TwoCrossings
  <2>3. (IF n >= 2 /\ Len(digests) # n THEN "void"
         ELSE IF n >= 2 THEN CrossingOutcome(digests)
         ELSE IF n = 1 THEN "exactly_once" ELSE "lost") # "lost"
    BY <2>1, <2>2
  <2>4. QED
    BY <2>3 DEF Classify, n, digests
<1>4. StoreOnChain /\ Len(effect_keys[i]) = 1 =>
        Classify(i, Dump, store) \in {"raises", "exactly_once"}
  BY <1>1, ChainNeverBroken DEF Classify
<1>5. QED
  BY <1>3, <1>4
=============================================================================
