---------------------------- MODULE EngineProofs ----------------------------
(***************************************************************************)
(* What holds of every sequence of trials of the real engines, for any     *)
(* memos, any number of requests and trials, kills at any step, attempts   *)
(* that outlast their time-out and writes of the ledger that fail.         *)
(***************************************************************************)
EXTENDS EngineTrials, LedgerProofs

-----------------------------------------------------------------------------
(***************************************************************************)
(* Programs: which steps a sequence has, and in which order.               *)
(***************************************************************************)
Has(X, s) == \E n \in 1 .. Len(s) : s[n] \in X
Before(X, Y, s) == \A n \in 1 .. Len(s) : s[n] \in Y => \E m \in 1 .. n - 1 : s[m] \in X
AtMostOnce(X, s) == \A m, n \in 1 .. Len(s) : s[m] \in X /\ s[n] \in X => m = n

\* Every step some engine's process takes.
Label ==
  Barrier \cup HiddenBarrier \cup StepName \cup
  {"send", "await",
   "put_entry", "put_prepared", "race", "put_writes", "put_done", "empty_input",
   "read_admission", "completed",
   "enqueue", "send_billing", "send_shipping", "commit_outcome", "no_workflow",
   "start_workflow", "poll", "decide", "report",
   "journal", "kill",
   "create_run", "start_step", "link_claim", "write_created", "hang",
   "prepareIdentity", "charge", "sentinel",
   "create_turn", "answer_create", "model.message", "tool.response", "turn_done"}

Programs == Seq(Label)

LEMMA TailElements ==
  ASSUME NEW S, NEW s \in Seq(S), s # << >>
  PROVE  /\ Tail(s) \in Seq(S) /\ Len(s) \in Nat \ {0} /\ Len(Tail(s)) = Len(s) - 1
         /\ Head(s) = s[1] /\ Head(s) \in S
         /\ \A n \in 1 .. Len(s) - 1 : Tail(s)[n] = s[n + 1]
OBVIOUS

LEMMA HasTail ==
  ASSUME NEW s \in Programs, s # << >>, NEW X
  PROVE  Has(X, s) <=> Head(s) \in X \/ Has(X, Tail(s))
<1>1. /\ Len(s) \in Nat \ {0} /\ Len(Tail(s)) = Len(s) - 1 /\ Head(s) = s[1]
      /\ \A n \in 1 .. Len(s) - 1 : Tail(s)[n] = s[n + 1]
  BY TailElements DEF Programs
<1>2. ASSUME NEW n \in 1 .. Len(s), s[n] \in X, Head(s) \notin X PROVE Has(X, Tail(s))
  <2>1. n # 1 /\ n - 1 \in 1 .. Len(s) - 1
    BY <1>1, <1>2
  <2>2. Tail(s)[n - 1] = s[(n - 1) + 1]
    BY <1>1, <2>1
  <2>3. Tail(s)[n - 1] = s[n]
    BY <2>1, <2>2
  <2>4. QED
    BY <1>1, <1>2, <2>1, <2>3 DEF Has
<1>3. ASSUME NEW n \in 1 .. Len(s) - 1, Tail(s)[n] \in X PROVE Has(X, s)
  <2>1. n + 1 \in 1 .. Len(s) /\ s[n + 1] \in X
    BY <1>1, <1>3
  <2>2. QED
    BY <2>1 DEF Has
<1>4. Head(s) \in X => Has(X, s)
  BY <1>1 DEF Has
<1>5. QED
  BY <1>1, <1>2, <1>3, <1>4 DEF Has

LEMMA BeforeTail ==
  ASSUME NEW s \in Programs, s # << >>, NEW X, NEW Y, Before(X, Y, s), Head(s) \notin X
  PROVE  Before(X, Y, Tail(s)) /\ Head(s) \notin Y
<1>1. /\ Len(s) \in Nat \ {0} /\ Len(Tail(s)) = Len(s) - 1 /\ Head(s) = s[1]
      /\ \A n \in 1 .. Len(s) - 1 : Tail(s)[n] = s[n + 1]
  BY TailElements DEF Programs
<1>2. ASSUME NEW n \in 1 .. Len(s) - 1, Tail(s)[n] \in Y
      PROVE  \E m \in 1 .. n - 1 : Tail(s)[m] \in X
  <2>1. n + 1 \in 1 .. Len(s) /\ s[n + 1] \in Y
    BY <1>1, <1>2
  <2>2. PICK m \in 1 .. (n + 1) - 1 : s[m] \in X
    BY <2>1 DEF Before
  <2>3. m # 1
    BY <1>1, <2>2
  <2>4. m - 1 \in 1 .. n - 1 /\ m - 1 \in 1 .. Len(s) - 1 /\ (m - 1) + 1 = m
    BY <1>1, <2>1, <2>2, <2>3
  <2>5. Tail(s)[m - 1] = s[m]
    BY <1>1, <2>4
  <2>6. QED
    BY <2>2, <2>4, <2>5
<1>3. Head(s) \notin Y
  BY <1>1 DEF Before
<1>4. QED
  BY <1>1, <1>2, <1>3 DEF Before

LEMMA OnceTail ==
  ASSUME NEW s \in Programs, s # << >>, NEW X, AtMostOnce(X, s)
  PROVE  AtMostOnce(X, Tail(s)) /\ (Head(s) \in X => ~ Has(X, Tail(s)))
<1>1. /\ Len(s) \in Nat \ {0} /\ Len(Tail(s)) = Len(s) - 1 /\ Head(s) = s[1]
      /\ \A n \in 1 .. Len(s) - 1 : Tail(s)[n] = s[n + 1]
  BY TailElements DEF Programs
<1>2. ASSUME NEW m \in 1 .. Len(s) - 1, NEW n \in 1 .. Len(s) - 1,
             Tail(s)[m] \in X, Tail(s)[n] \in X
      PROVE  m = n
  <2>1. m + 1 \in 1 .. Len(s) /\ n + 1 \in 1 .. Len(s) /\ s[m + 1] \in X /\ s[n + 1] \in X
    BY <1>1, <1>2
  <2>2. m + 1 = n + 1
    BY <2>1 DEF AtMostOnce
  <2>3. QED
    BY <2>2
<1>3. ASSUME NEW n \in 1 .. Len(s) - 1, Tail(s)[n] \in X PROVE Head(s) \notin X
  <2>1. n + 1 \in 1 .. Len(s) /\ s[n + 1] \in X /\ 1 \in 1 .. Len(s) /\ n + 1 # 1
    BY <1>1, <1>3
  <2>2. QED
    BY <1>1, <2>1 DEF AtMostOnce
<1>4. QED
  BY <1>1, <1>2, <1>3 DEF AtMostOnce, Has

LEMMA ConcatElements ==
  ASSUME NEW S, NEW u \in Seq(S), NEW v \in Seq(S)
  PROVE  /\ u \o v \in Seq(S) /\ Len(u) \in Nat /\ Len(v) \in Nat
         /\ Len(u \o v) = Len(u) + Len(v)
         /\ \A n \in 1 .. Len(u) : (u \o v)[n] = u[n]
         /\ \A n \in 1 .. Len(v) : (u \o v)[Len(u) + n] = v[n]
OBVIOUS

LEMMA ConcatPrograms ==
  ASSUME NEW u \in Programs, NEW v \in Programs
  PROVE  /\ u \o v \in Programs /\ Len(u) \in Nat /\ Len(v) \in Nat
         /\ Len(u \o v) = Len(u) + Len(v)
         /\ \A n \in 1 .. Len(u) : (u \o v)[n] = u[n]
         /\ \A n \in 1 .. Len(v) : (u \o v)[Len(u) + n] = v[n]
BY ConcatElements DEF Programs

\* Where the steps of u followed by v are.
LEMMA ConcatPlaces ==
  ASSUME NEW u \in Programs, NEW v \in Programs
  PROVE  /\ u \o v \in Programs /\ Len(u) \in Nat /\ Len(v) \in Nat
         /\ \A n \in 1 .. Len(u) : n \in 1 .. Len(u \o v) /\ (u \o v)[n] = u[n]
         /\ \A n \in 1 .. Len(v) : /\ Len(u) + n \in 1 .. Len(u \o v)
                                   /\ (u \o v)[Len(u) + n] = v[n]
         /\ \A n \in 1 .. Len(u \o v) :
              n \in 1 .. Len(u) \/ \E m \in 1 .. Len(v) : n = Len(u) + m
<1> DEFINE w == u \o v
<1>1. /\ w \in Programs /\ Len(u) \in Nat /\ Len(v) \in Nat /\ Len(w) = Len(u) + Len(v)
      /\ \A n \in 1 .. Len(u) : w[n] = u[n]
      /\ \A n \in 1 .. Len(v) : w[Len(u) + n] = v[n]
  BY ConcatElements DEF Programs
<1> HIDE DEF w
<1>2. \A n \in 1 .. Len(u) : n \in 1 .. Len(w)
  BY <1>1
<1>3. \A n \in 1 .. Len(v) : Len(u) + n \in 1 .. Len(w)
  BY <1>1
<1>4. ASSUME NEW n \in 1 .. Len(w), n \notin 1 .. Len(u)
      PROVE  \E m \in 1 .. Len(v) : n = Len(u) + m
  <2>1. n - Len(u) \in 1 .. Len(v) /\ n = Len(u) + (n - Len(u))
    BY <1>1, <1>4
  <2>2. QED
    BY <2>1
<1>5. QED
  BY <1>1, <1>2, <1>3, <1>4 DEF w

LEMMA HasConcat ==
  ASSUME NEW u \in Programs, NEW v \in Programs, NEW X
  PROVE  Has(X, u \o v) <=> Has(X, u) \/ Has(X, v)
<1> DEFINE w == u \o v
<1>1. /\ \A n \in 1 .. Len(u) : n \in 1 .. Len(w) /\ w[n] = u[n]
      /\ \A n \in 1 .. Len(v) : Len(u) + n \in 1 .. Len(w) /\ w[Len(u) + n] = v[n]
      /\ \A n \in 1 .. Len(w) : n \in 1 .. Len(u) \/ \E m \in 1 .. Len(v) : n = Len(u) + m
  BY ConcatPlaces
<1> HIDE DEF w
<1>2. QED
  BY <1>1 DEF Has, w

LEMMA BeforeConcat ==
  ASSUME NEW u \in Programs, NEW v \in Programs, NEW X, NEW Y,
         Before(X, Y, u), Has(X, u) \/ Before(X, Y, v)
  PROVE  Before(X, Y, u \o v)
<1> DEFINE w == u \o v
<1>1. /\ Len(u) \in Nat /\ Len(v) \in Nat
      /\ \A n \in 1 .. Len(u) : n \in 1 .. Len(w) /\ w[n] = u[n]
      /\ \A n \in 1 .. Len(v) : Len(u) + n \in 1 .. Len(w) /\ w[Len(u) + n] = v[n]
      /\ \A n \in 1 .. Len(w) : n \in 1 .. Len(u) \/ \E m \in 1 .. Len(v) : n = Len(u) + m
  BY ConcatPlaces
<1> HIDE DEF w
<1> SUFFICES ASSUME NEW n \in 1 .. Len(w), w[n] \in Y PROVE \E m \in 1 .. n - 1 : w[m] \in X
  BY DEF Before, w
<1>2. CASE n \in 1 .. Len(u)
  <2>1. PICK m \in 1 .. n - 1 : u[m] \in X
    BY <1>1, <1>2 DEF Before
  <2>2. m \in 1 .. Len(u)
    BY <1>1, <1>2, <2>1
  <2>3. QED
    BY <1>1, <2>1, <2>2
<1>3. ASSUME NEW k \in 1 .. Len(v), n = Len(u) + k PROVE \E m \in 1 .. n - 1 : w[m] \in X
  <2>1. CASE Has(X, u)
    <3>1. PICK m \in 1 .. Len(u) : u[m] \in X
      BY <2>1 DEF Has
    <3>2. m \in 1 .. n - 1
      BY <1>1, <1>3, <3>1
    <3>3. QED
      BY <1>1, <3>1, <3>2
  <2>2. CASE Before(X, Y, v)
    <3>1. v[k] \in Y
      BY <1>1, <1>3
    <3>2. PICK m \in 1 .. k - 1 : v[m] \in X
      BY <2>2, <3>1 DEF Before
    <3>3. m \in 1 .. Len(v) /\ Len(u) + m \in 1 .. n - 1
      BY <1>1, <1>3, <3>2
    <3>4. QED
      BY <1>1, <3>2, <3>3
  <2>3. QED
    BY <2>1, <2>2
<1>4. QED
  BY <1>1, <1>2, <1>3

LEMMA OnceConcat ==
  ASSUME NEW u \in Programs, NEW v \in Programs, NEW X,
         AtMostOnce(X, u), AtMostOnce(X, v), ~ Has(X, u) \/ ~ Has(X, v)
  PROVE  AtMostOnce(X, u \o v)
<1> DEFINE w == u \o v
<1>1. /\ \A n \in 1 .. Len(u) : n \in 1 .. Len(w) /\ w[n] = u[n]
      /\ \A n \in 1 .. Len(v) : Len(u) + n \in 1 .. Len(w) /\ w[Len(u) + n] = v[n]
      /\ \A n \in 1 .. Len(w) : n \in 1 .. Len(u) \/ \E m \in 1 .. Len(v) : n = Len(u) + m
  BY ConcatPlaces
<1> HIDE DEF w
<1> SUFFICES ASSUME NEW m \in 1 .. Len(w), NEW n \in 1 .. Len(w), w[m] \in X, w[n] \in X
             PROVE  m = n
  BY DEF AtMostOnce, w
<1>2. CASE m \in 1 .. Len(u) /\ n \in 1 .. Len(u)
  BY <1>1, <1>2 DEF AtMostOnce
<1>3. CASE m \in 1 .. Len(u) /\ n \notin 1 .. Len(u)
  BY <1>1, <1>3 DEF Has
<1>4. CASE m \notin 1 .. Len(u) /\ n \in 1 .. Len(u)
  BY <1>1, <1>4 DEF Has
<1>5. CASE m \notin 1 .. Len(u) /\ n \notin 1 .. Len(u)
  <2>1. PICK k, l \in 1 .. Len(v) : m = Len(u) + k /\ n = Len(u) + l
    BY <1>1, <1>5
  <2>2. v[k] \in X /\ v[l] \in X
    BY <1>1, <2>1
  <2>3. QED
    BY <2>1, <2>2 DEF AtMostOnce
<1>6. QED
  BY <1>2, <1>3, <1>4, <1>5

-----------------------------------------------------------------------------
(***************************************************************************)
(* Programs made of others: without the barriers that are not armed, or    *)
(* of two interleaved.                                                     *)
(***************************************************************************)
LEMMA CountSplit ==
  ASSUME NEW n \in Nat, NEW K \in SUBSET (1 .. n), NEW i \in Nat
  PROVE  /\ IsFiniteSet(K) /\ Cardinality(K) \in Nat
         /\ IsFiniteSet({j \in K : j <= i})
         /\ CountUpTo(K, i) \in 0 .. Cardinality(K)
         /\ n <= i => CountUpTo(K, i) = Cardinality(K)
<1>1. IsFiniteSet(1 .. n)
  BY FS_Interval
<1>2. IsFiniteSet(K)
  BY <1>1, FS_Subset
<1>3. {j \in K : j <= i} \in SUBSET K
  OBVIOUS
<1>4. /\ IsFiniteSet({j \in K : j <= i})
      /\ Cardinality({j \in K : j <= i}) <= Cardinality(K)
  BY <1>2, <1>3, FS_Subset
<1>5. Cardinality(K) \in Nat /\ Cardinality({j \in K : j <= i}) \in Nat
  BY <1>2, <1>4, FS_CardinalityType
<1>6. n <= i => {j \in K : j <= i} = K
  <2>1. \A j \in K : j \in Int /\ j <= n
    OBVIOUS
  <2>2. n <= i => \A j \in K : j <= i
    BY <2>1
  <2>3. QED
    BY <2>2
<1>7. QED
  BY <1>2, <1>4, <1>5, <1>6 DEF CountUpTo

\* A later member is counted besides every earlier one.
LEMMA CountGrows ==
  ASSUME NEW n \in Nat, NEW K \in SUBSET (1 .. n), NEW i \in Nat, NEW k \in K, i < k
  PROVE  CountUpTo(K, i) < CountUpTo(K, k)
<1> DEFINE A == {j \in K : j <= i}
           B == {j \in K : j <= k}
<1>1. k \in Nat
  OBVIOUS
<1>2. IsFiniteSet(A) /\ IsFiniteSet(B)
  BY <1>1, CountSplit
<1>3. A \in SUBSET B
  <2>1. \A j \in K : j \in Int
    OBVIOUS
  <2>2. \A j \in K : j <= i => j <= k
    BY <1>1, <2>1
  <2>3. QED
    BY <2>2
<1>4. Cardinality(A) <= Cardinality(B) /\ (Cardinality(A) = Cardinality(B) => A = B)
  <2> HIDE DEF A, B
  <2>1. QED
    BY <1>2, <1>3, FS_Subset
<1>5. A # B
  <2>1. k \in B /\ k \notin A
    BY <1>1
  <2>2. QED
    BY <2>1
<1>6. Cardinality(A) \in Nat /\ Cardinality(B) \in Nat
  BY <1>2, FS_CardinalityType
<1>7. Cardinality(A) < Cardinality(B)
  <2> HIDE DEF A, B
  <2>1. QED
    BY <1>4, <1>5, <1>6
<1>8. QED
  BY <1>7 DEF CountUpTo

\* Every rank is the rank of one member.
LEMMA CountRanks ==
  ASSUME NEW n \in Nat, NEW K \in SUBSET (1 .. n)
  PROVE  /\ \A k \in K : CountUpTo(K, k) \in 1 .. Cardinality(K)
         /\ \A r \in 1 .. Cardinality(K) : \E k \in K : CountUpTo(K, k) = r
         /\ \A k, l \in K : k < l <=> CountUpTo(K, k) < CountUpTo(K, l)
         /\ \A k, l \in K : k = l <=> CountUpTo(K, k) = CountUpTo(K, l)
<1> DEFINE rank == [k \in K |-> CountUpTo(K, k)]
           R == 1 .. Cardinality(K)
<1>1. Cardinality(K) \in Nat
  <2>1. 0 \in Nat
    OBVIOUS
  <2>2. QED
    BY <2>1, CountSplit
<1>2. \A k \in K : k \in Nat /\ CountUpTo(K, k) \in 0 .. Cardinality(K)
  <2>1. \A k \in K : k \in Nat
    OBVIOUS
  <2>2. QED
    BY <2>1, CountSplit
<1>3. \A k \in K : CountUpTo(K, k) \in R
  <2> SUFFICES ASSUME NEW k \in K PROVE CountUpTo(K, k) \in R
    OBVIOUS
  <2>1. CountUpTo(K, 0) < CountUpTo(K, k)
    BY CountGrows
  <2>2. CountUpTo(K, 0) \in 0 .. Cardinality(K)
    BY CountSplit
  <2>3. QED
    BY <1>2, <2>1, <2>2, CountSplit
<1>4. \A k, l \in K : k < l => CountUpTo(K, k) < CountUpTo(K, l)
  BY <1>2, CountGrows
<1>5. /\ \A k, l \in K : k < l <=> CountUpTo(K, k) < CountUpTo(K, l)
      /\ \A k, l \in K : k = l <=> CountUpTo(K, k) = CountUpTo(K, l)
  <2> SUFFICES ASSUME NEW k \in K, NEW l \in K
               PROVE  /\ k < l <=> CountUpTo(K, k) < CountUpTo(K, l)
                      /\ k = l <=> CountUpTo(K, k) = CountUpTo(K, l)
    OBVIOUS
  <2>1. CountUpTo(K, k) \in Int /\ CountUpTo(K, l) \in Int /\ k \in Int /\ l \in Int
    BY <1>2
  <2>2. k < l => CountUpTo(K, k) < CountUpTo(K, l)
    BY <1>4
  <2>3. l < k => CountUpTo(K, l) < CountUpTo(K, k)
    BY <1>4
  <2>4. QED
    BY <2>1, <2>2, <2>3
<1>6. rank \in Injection(K, R)
  BY <1>3, <1>5 DEF Injection, IsInjective
<1>7. IsFiniteSet(R) /\ Cardinality(R) = Cardinality(K)
  BY <1>1, FS_Interval
<1>8. rank \in Surjection(K, R)
  <2> HIDE DEF rank, R
  <2>1. QED
    BY <1>6, <1>7, FS_Injection
<1>9. \A r \in R : \E k \in K : rank[k] = r
  <2> HIDE DEF rank, R
  <2>1. QED
    BY <1>8 DEF Surjection
<1>10. QED
  BY <1>3, <1>5, <1>9

\* Of the positions up to i, those that are not in a set are the rest.
LEMMA CountRest ==
  ASSUME NEW n \in Nat, NEW K \in SUBSET (1 .. n), NEW i \in 1 .. n
  PROVE  CountUpTo((1 .. n) \ K, i) = i - CountUpTo(K, i)
<1> DEFINE I == 1 .. i
           A == {j \in K : j <= i}
           B == {j \in (1 .. n) \ K : j <= i}
<1>1. B = I \ A /\ I \cap A = A
  <2>1. \A j \in K : j \in 1 .. n
    OBVIOUS
  <2>2. \A j : j \in 1 .. n /\ j <= i <=> j \in I
    OBVIOUS
  <2>3. QED
    BY <2>1, <2>2
<1>2. IsFiniteSet(I) /\ Cardinality(I) = i
  BY FS_Interval
<1>3. Cardinality(I \ A) = Cardinality(I) - Cardinality(I \cap A)
  <2> HIDE DEF I, A
  <2>1. QED
    BY <1>2, FS_Difference
<1>4. QED
  BY <1>1, <1>2, <1>3 DEF CountUpTo

\* f places the steps of u among those of s, in order.
Places(f, u, s) ==
  /\ \A n \in 1 .. Len(u) : f[n] \in 1 .. Len(s) /\ s[f[n]] = u[n]
  /\ \A m, n \in 1 .. Len(u) : m < n => f[m] < f[n]

LEMMA PlacedBefore ==
  ASSUME NEW u \in Programs, NEW s \in Programs, NEW f, Places(f, u, s), NEW X, NEW Y,
         Before(X, Y, u), NEW n \in 1 .. Len(u), u[n] \in Y
  PROVE  \E m \in 1 .. f[n] - 1 : s[m] \in X
<1>1. PICK m \in 1 .. n - 1 : u[m] \in X
  BY DEF Before
<1>2. Len(u) \in Nat /\ Len(s) \in Nat
  BY LenProperties DEF Programs
<1>3. m \in 1 .. Len(u) /\ m < n
  BY <1>1, <1>2
<1>4. f[m] < f[n] /\ f[m] \in 1 .. Len(s) /\ f[n] \in 1 .. Len(s) /\ s[f[m]] = u[m]
  BY <1>3 DEF Places
<1>5. f[m] \in 1 .. f[n] - 1
  BY <1>2, <1>4
<1>6. QED
  BY <1>1, <1>4, <1>5

Unarmed(b) == (Barrier \cup HiddenBarrier) \ {b}

\* A program keeps all its steps, in order, but the barriers not armed.
LEMMA ArmedPlaces ==
  ASSUME NEW s \in Programs, NEW b
  PROVE  /\ ArmedWith(s, b) \in Programs
         /\ \E f : /\ Places(f, ArmedWith(s, b), s)
                   /\ \A n \in 1 .. Len(s) : s[n] \notin Unarmed(b) =>
                        \E i \in 1 .. Len(ArmedWith(s, b)) : f[i] = n
         /\ ~ Has(Unarmed(b), ArmedWith(s, b))
<1> DEFINE K == {n \in 1 .. Len(s) : s[n] \notin Unarmed(b)}
           f == [i \in 1 .. Cardinality(K) |-> CHOOSE n \in K : CountUpTo(K, n) = i]
           u == ArmedWith(s, b)
<1>1. Len(s) \in Nat /\ K \in SUBSET (1 .. Len(s)) /\ \A n \in 1 .. Len(s) : s[n] \in Label
  BY LenProperties DEF Programs
<1>2. Cardinality(K) \in Nat
  <2>1. 0 \in Nat
    OBVIOUS
  <2> HIDE DEF K
  <2>2. QED
    BY <1>1, <2>1, CountSplit
<1>3. u = [i \in 1 .. Cardinality(K) |-> s[CHOOSE n \in K : CountUpTo(K, n) = i]]
  BY DEF ArmedWith, Unarmed
<1>4. \A i \in 1 .. Cardinality(K) : f[i] \in K /\ CountUpTo(K, f[i]) = i
  <2> SUFFICES ASSUME NEW i \in 1 .. Cardinality(K)
               PROVE  f[i] \in K /\ CountUpTo(K, f[i]) = i
    OBVIOUS
  <2>1. \E n \in K : CountUpTo(K, n) = i
    <3> HIDE DEF K, f
    <3>1. Len(s) \in Nat /\ K \in SUBSET (1 .. Len(s))
      BY <1>1
    <3>2. ASSUME NEW m \in Nat, NEW J \in SUBSET (1 .. m), NEW r \in 1 .. Cardinality(J)
          PROVE  \E k \in J : CountUpTo(J, k) = r
      BY CountRanks, ZenonT(30)
    <3>3. \A r \in 1 .. Cardinality(K) : \E k \in K : CountUpTo(K, k) = r
      BY <3>1, <3>2
    <3>4. QED
      BY <3>3
  <2>2. f[i] = CHOOSE n \in K : CountUpTo(K, n) = i
    BY DEF f
  <2> HIDE DEF K, f
  <2>3. QED
    BY <2>1, <2>2
<1>5. u = [i \in 1 .. Cardinality(K) |-> s[f[i]]]
  BY <1>3 DEF f
<1>6. \A i \in 1 .. Cardinality(K) : s[f[i]] \in Label /\ s[f[i]] \notin Unarmed(b)
                                     /\ f[i] \in 1 .. Len(s)
  <2>1. \A n \in K : s[n] \in Label /\ s[n] \notin Unarmed(b) /\ n \in 1 .. Len(s)
    BY <1>1 DEF K
  <2> HIDE DEF K, f
  <2>2. QED
    BY <1>4, <2>1
<1> HIDE DEF K, f, u
<1>7. u \in Programs /\ Len(u) = Cardinality(K)
  BY <1>2, <1>5, <1>6 DEF Programs
<1>8. Places(f, u, s)
  <2>1. \A i \in 1 .. Len(u) : f[i] \in 1 .. Len(s) /\ s[f[i]] = u[i]
    BY <1>5, <1>6, <1>7
  <2>2. ASSUME NEW i \in 1 .. Len(u), NEW j \in 1 .. Len(u), i < j PROVE f[i] < f[j]
    <3>1. f[i] \in K /\ f[j] \in K /\ CountUpTo(K, f[i]) < CountUpTo(K, f[j])
      BY <1>4, <1>7, <2>2
    <3>2. QED
      BY <1>1, <3>1, CountRanks
  <2>3. QED
    BY <2>1, <2>2 DEF Places
<1>9. ASSUME NEW n \in 1 .. Len(s), s[n] \notin Unarmed(b)
      PROVE  \E i \in 1 .. Len(u) : f[i] = n
  <2>1. n \in K
    BY <1>9 DEF K
  <2> DEFINE i == CountUpTo(K, n)
  <2>2. i \in 1 .. Cardinality(K)
    BY <1>1, <2>1, CountRanks
  <2>3. f[i] \in K /\ CountUpTo(K, f[i]) = i
    BY <1>4, <2>2
  <2>4. f[i] = n
    BY <1>1, <2>1, <2>3, CountRanks
  <2>5. QED
    BY <1>7, <2>2, <2>4
<1>10. ~ Has(Unarmed(b), u)
  BY <1>5, <1>6, <1>7 DEF Has
<1>11. QED
  BY <1>7, <1>8, <1>9, <1>10 DEF u

LEMMA HasArmed ==
  ASSUME NEW s \in Programs, NEW b, NEW X
  PROVE  /\ Has(X, ArmedWith(s, b)) => Has(X, s)
         /\ X \cap Unarmed(b) = {} /\ Has(X, s) => Has(X, ArmedWith(s, b))
<1> DEFINE u == ArmedWith(s, b)
<1>1. PICK f : /\ Places(f, u, s)
               /\ \A n \in 1 .. Len(s) : s[n] \notin Unarmed(b) =>
                    \E i \in 1 .. Len(u) : f[i] = n
  BY ArmedPlaces
<1> HIDE DEF u
<1>2. QED
  BY <1>1 DEF Places, Has, u

LEMMA BeforeArmed ==
  ASSUME NEW s \in Programs, NEW b, NEW X, NEW Y, X \cap Unarmed(b) = {}, Before(X, Y, s)
  PROVE  Before(X, Y, ArmedWith(s, b))
<1> DEFINE u == ArmedWith(s, b)
<1>1. PICK f : /\ Places(f, u, s)
               /\ \A n \in 1 .. Len(s) : s[n] \notin Unarmed(b) =>
                    \E i \in 1 .. Len(u) : f[i] = n
  BY ArmedPlaces
<1>2. u \in Programs /\ Len(u) \in Nat /\ Len(s) \in Nat
  BY ArmedPlaces, LenProperties DEF Programs
<1> HIDE DEF u
<1> SUFFICES ASSUME NEW n \in 1 .. Len(u), u[n] \in Y PROVE \E m \in 1 .. n - 1 : u[m] \in X
  BY DEF Before, u
<1>3. f[n] \in 1 .. Len(s) /\ s[f[n]] = u[n]
  BY <1>1 DEF Places
<1>4. PICK k \in 1 .. f[n] - 1 : s[k] \in X
  BY <1>3 DEF Before
<1>5. k \in 1 .. Len(s) /\ s[k] \notin Unarmed(b)
  BY <1>2, <1>3, <1>4
<1>6. PICK m \in 1 .. Len(u) : f[m] = k
  BY <1>1, <1>5
<1>7. ~ n < m /\ n # m
  <2>1. f[m] < f[n]
    BY <1>2, <1>3, <1>4, <1>6
  <2>2. n < m => f[n] < f[m]
    BY <1>1 DEF Places
  <2>3. QED
    BY <1>2, <1>3, <1>5, <1>6, <2>1, <2>2
<1>8. m \in 1 .. n - 1 /\ u[m] = s[k]
  BY <1>1, <1>2, <1>6, <1>7 DEF Places
<1>9. QED
  BY <1>4, <1>8

LEMMA OnceArmed ==
  ASSUME NEW s \in Programs, NEW b, NEW X, AtMostOnce(X, s)
  PROVE  AtMostOnce(X, ArmedWith(s, b))
<1> DEFINE u == ArmedWith(s, b)
<1>1. PICK f : Places(f, u, s)
  BY ArmedPlaces
<1>2. u \in Programs /\ Len(u) \in Nat /\ Len(s) \in Nat
  BY ArmedPlaces, LenProperties DEF Programs
<1> HIDE DEF u
<1> SUFFICES ASSUME NEW m \in 1 .. Len(u), NEW n \in 1 .. Len(u), u[m] \in X, u[n] \in X
             PROVE  m = n
  BY DEF AtMostOnce, u
<1>3. /\ f[m] \in 1 .. Len(s) /\ s[f[m]] = u[m] /\ f[n] \in 1 .. Len(s) /\ s[f[n]] = u[n]
      /\ m < n => f[m] < f[n]
      /\ n < m => f[n] < f[m]
  BY <1>1 DEF Places
<1>4. f[m] = f[n]
  BY <1>3 DEF AtMostOnce
<1>5. QED
  BY <1>2, <1>3, <1>4

\* f and g place the steps of v and of w, and no others are there.
Merged(f, v, g, w, order) ==
  /\ Places(f, v, order) /\ Places(g, w, order)
  /\ \A n \in 1 .. Len(order) : \/ \E i \in 1 .. Len(v) : f[i] = n
                                \/ \E i \in 1 .. Len(w) : g[i] = n

\* An interleaving is made of the steps of both, each in its order.
LEMMA MergePlaces ==
  ASSUME NEW v \in Programs, NEW w \in Programs, NEW order \in Interleavings(v, w)
  PROVE  /\ order \in Programs
         /\ \E f, g : Merged(f, v, g, w, order)
<1> DEFINE n == Len(v) + Len(w)
<1>1. Len(v) \in Nat /\ Len(w) \in Nat /\ n \in Nat
  BY LenProperties DEF Programs
<1>2. PICK K \in kSubset(Len(v), 1 .. n) :
        order = [i \in 1 .. n |-> IF i \in K THEN v[CountUpTo(K, i)] ELSE w[i - CountUpTo(K, i)]]
  BY DEF Interleavings
<1>3. K \in SUBSET (1 .. n) /\ Cardinality(K) = Len(v)
  BY <1>2 DEF kSubset
<1> DEFINE R == (1 .. n) \ K
           f == [i \in 1 .. Len(v) |-> CHOOSE k \in K : CountUpTo(K, k) = i]
           g == [i \in 1 .. Len(w) |-> CHOOSE k \in R : CountUpTo(R, k) = i]
<1>4. R \in SUBSET (1 .. n) /\ Cardinality(R) = Len(w)
  <2>1. IsFiniteSet(1 .. n) /\ Cardinality(1 .. n) = n
    BY <1>1, FS_Interval
  <2>2. Cardinality((1 .. n) \ K) = Cardinality(1 .. n) - Cardinality((1 .. n) \cap K)
    BY <2>1, FS_Difference
  <2>3. (1 .. n) \cap K = K
    BY <1>3
  <2>4. Cardinality(R) = n - Len(v)
    BY <1>3, <2>1, <2>2, <2>3
  <2>5. n - Len(v) = Len(w)
    BY <1>1
  <2>6. QED
    BY <2>4, <2>5
<1> HIDE DEF n, R
<1>5. /\ \A k \in K : k \in 1 .. n /\ order[k] = v[CountUpTo(K, k)]
      /\ \A k \in R : k \in 1 .. n /\ order[k] = w[CountUpTo(R, k)]
  <2>1. \A k \in K : k \in 1 .. n
    BY <1>3
  <2>2. \A k \in R : k \in 1 .. n /\ k \notin K
    BY DEF R
  <2>3. \A k \in 1 .. n : CountUpTo(R, k) = k - CountUpTo(K, k)
    BY <1>1, <1>3, CountRest DEF R
  <2>4. QED
    BY <1>2, <2>1, <2>2, <2>3
<1>6. /\ \A k \in K : CountUpTo(K, k) \in 1 .. Len(v)
      /\ \A r \in 1 .. Len(v) : \E k \in K : CountUpTo(K, k) = r
      /\ \A k, l \in K : k < l <=> CountUpTo(K, k) < CountUpTo(K, l)
      /\ \A k, l \in K : k = l <=> CountUpTo(K, k) = CountUpTo(K, l)
  <2>1. /\ \A k \in K : CountUpTo(K, k) \in 1 .. Cardinality(K)
        /\ \A r \in 1 .. Cardinality(K) : \E k \in K : CountUpTo(K, k) = r
        /\ \A k, l \in K : k < l <=> CountUpTo(K, k) < CountUpTo(K, l)
        /\ \A k, l \in K : k = l <=> CountUpTo(K, k) = CountUpTo(K, l)
    BY <1>1, <1>3, CountRanks
  <2>2. QED
    BY <1>3, <2>1
<1>7. /\ \A k \in R : CountUpTo(R, k) \in 1 .. Len(w)
      /\ \A r \in 1 .. Len(w) : \E k \in R : CountUpTo(R, k) = r
      /\ \A k, l \in R : k < l <=> CountUpTo(R, k) < CountUpTo(R, l)
      /\ \A k, l \in R : k = l <=> CountUpTo(R, k) = CountUpTo(R, l)
  <2>1. /\ \A k \in R : CountUpTo(R, k) \in 1 .. Cardinality(R)
        /\ \A r \in 1 .. Cardinality(R) : \E k \in R : CountUpTo(R, k) = r
        /\ \A k, l \in R : k < l <=> CountUpTo(R, k) < CountUpTo(R, l)
        /\ \A k, l \in R : k = l <=> CountUpTo(R, k) = CountUpTo(R, l)
    BY <1>1, <1>4, CountRanks
  <2>2. QED
    BY <1>4, <2>1
<1>8. \A i \in 1 .. Len(v) : f[i] \in K /\ CountUpTo(K, f[i]) = i
  BY <1>6
<1>9. \A i \in 1 .. Len(w) : g[i] \in R /\ CountUpTo(R, g[i]) = i
  BY <1>7
<1> HIDE DEF f, g
<1>10. order \in Programs /\ Len(order) = n
  <2>1. \A k \in 1 .. n : order[k] \in Label
    <3> SUFFICES ASSUME NEW k \in 1 .. n PROVE order[k] \in Label
      OBVIOUS
    <3>1. CASE k \in K
      BY <1>5, <1>6, <3>1 DEF Programs
    <3>2. CASE k \in R
      BY <1>5, <1>7, <3>2 DEF Programs
    <3>3. QED
      BY <3>1, <3>2 DEF R
  <2>2. order = [k \in 1 .. n |-> order[k]]
    BY <1>2
  <2>3. QED
    BY <1>1, <2>1, <2>2 DEF Programs
<1>11. Places(f, v, order)
  <2>1. \A i \in 1 .. Len(v) : f[i] \in 1 .. Len(order) /\ order[f[i]] = v[i]
    BY <1>5, <1>8, <1>10
  <2>2. \A i, j \in 1 .. Len(v) : i < j => f[i] < f[j]
    BY <1>6, <1>8
  <2>3. QED
    BY <2>1, <2>2 DEF Places
<1>12. Places(g, w, order)
  <2>1. \A i \in 1 .. Len(w) : g[i] \in 1 .. Len(order) /\ order[g[i]] = w[i]
    BY <1>5, <1>9, <1>10
  <2>2. \A i, j \in 1 .. Len(w) : i < j => g[i] < g[j]
    BY <1>7, <1>9
  <2>3. QED
    BY <2>1, <2>2 DEF Places
<1>13. ASSUME NEW k \in 1 .. Len(order)
       PROVE  \/ \E i \in 1 .. Len(v) : f[i] = k
              \/ \E i \in 1 .. Len(w) : g[i] = k
  <2>1. CASE k \in K
    <3>1. f[CountUpTo(K, k)] = k
      BY <1>6, <1>8, <2>1
    <3>2. QED
      BY <1>6, <2>1, <3>1
  <2>2. CASE k \in R
    <3>1. g[CountUpTo(R, k)] = k
      BY <1>7, <1>9, <2>2
    <3>2. QED
      BY <1>7, <2>2, <3>1
  <2>3. QED
    BY <1>10, <2>1, <2>2 DEF R
<1>14. QED
  BY <1>10, <1>11, <1>12, <1>13 DEF Merged

LEMMA HasMerge ==
  ASSUME NEW v \in Programs, NEW w \in Programs, NEW order \in Interleavings(v, w), NEW X
  PROVE  Has(X, order) <=> Has(X, v) \/ Has(X, w)
<1>1. PICK f, g : Merged(f, v, g, w, order)
  BY MergePlaces
<1>2. ASSUME NEW n \in 1 .. Len(order), order[n] \in X PROVE Has(X, v) \/ Has(X, w)
  <2>1. CASE \E i \in 1 .. Len(v) : f[i] = n
    BY <1>1, <1>2, <2>1 DEF Merged, Places, Has
  <2>2. CASE \E i \in 1 .. Len(w) : g[i] = n
    BY <1>1, <1>2, <2>2 DEF Merged, Places, Has
  <2>3. QED
    BY <1>1, <2>1, <2>2 DEF Merged
<1>3. ASSUME NEW i \in 1 .. Len(v), v[i] \in X PROVE Has(X, order)
  BY <1>1, <1>3 DEF Merged, Places, Has
<1>4. ASSUME NEW i \in 1 .. Len(w), w[i] \in X PROVE Has(X, order)
  BY <1>1, <1>4 DEF Merged, Places, Has
<1>5. QED
  BY <1>2, <1>3, <1>4 DEF Has

LEMMA BeforeMerge ==
  ASSUME NEW v \in Programs, NEW w \in Programs, NEW order \in Interleavings(v, w),
         NEW X, NEW Y, Before(X, Y, v), Before(X, Y, w)
  PROVE  Before(X, Y, order)
<1>1. order \in Programs
  BY MergePlaces
<1>2. PICK f, g : Merged(f, v, g, w, order)
  BY MergePlaces
<1> SUFFICES ASSUME NEW n \in 1 .. Len(order), order[n] \in Y
             PROVE  \E m \in 1 .. n - 1 : order[m] \in X
  BY DEF Before
<1>3. ASSUME NEW i \in 1 .. Len(v), f[i] = n PROVE \E m \in 1 .. n - 1 : order[m] \in X
  <2>1. v[i] \in Y
    BY <1>2, <1>3 DEF Merged, Places
  <2>2. QED
    BY <1>1, <1>2, <1>3, <2>1, PlacedBefore DEF Merged
<1>4. ASSUME NEW i \in 1 .. Len(w), g[i] = n PROVE \E m \in 1 .. n - 1 : order[m] \in X
  <2>1. w[i] \in Y
    BY <1>2, <1>4 DEF Merged, Places
  <2>2. QED
    BY <1>1, <1>2, <1>4, <2>1, PlacedBefore DEF Merged
<1>5. QED
  BY <1>2, <1>3, <1>4 DEF Merged

LEMMA OnceMerge ==
  ASSUME NEW v \in Programs, NEW w \in Programs, NEW order \in Interleavings(v, w), NEW X,
         AtMostOnce(X, v), ~ Has(X, w)
  PROVE  AtMostOnce(X, order)
<1>1. PICK f, g : Merged(f, v, g, w, order)
  BY MergePlaces
<1> SUFFICES ASSUME NEW m \in 1 .. Len(order), NEW n \in 1 .. Len(order),
                    order[m] \in X, order[n] \in X
             PROVE  m = n
  BY DEF AtMostOnce
<1>2. \A k \in 1 .. Len(order) : order[k] \in X =>
        \E i \in 1 .. Len(v) : f[i] = k /\ v[i] \in X
  <2> SUFFICES ASSUME NEW k \in 1 .. Len(order), order[k] \in X
               PROVE  \E i \in 1 .. Len(v) : f[i] = k /\ v[i] \in X
    OBVIOUS
  <2>1. (\E i \in 1 .. Len(v) : f[i] = k) \/ (\E i \in 1 .. Len(w) : g[i] = k)
    BY <1>1 DEF Merged
  <2>2. \A i \in 1 .. Len(v) : order[f[i]] = v[i]
    BY <1>1 DEF Merged, Places
  <2>3. \A i \in 1 .. Len(w) : order[g[i]] = w[i] /\ w[i] \notin X
    BY <1>1 DEF Merged, Places, Has
  <2>4. QED
    BY <2>1, <2>2, <2>3, Zenon
<1>3. PICK i, j \in 1 .. Len(v) : f[i] = m /\ v[i] \in X /\ f[j] = n /\ v[j] \in X
  BY <1>2
<1>4. i = j
  BY <1>3 DEF AtMostOnce
<1>5. QED
  BY <1>3, <1>4

-----------------------------------------------------------------------------
(***************************************************************************)
(* What the assumptions say of an engine's trial, and what its programs    *)
(* are made of.                                                            *)
(***************************************************************************)
LEMMA EngineRow ==
  ASSUME NEW t \in Trials
  PROVE  /\ t.engine \in {"langgraph", "dbos", "temporal", "restate", "vercel", "trueforge"}
         /\ t.mode \in {"naive", "idem", "nondet", "twophase"} \cup AdmissionArms
         /\ t.barrier \in Barrier \cup HiddenBarrier /\ t.barrier \in Label
         /\ t.mode \in {"idem", "nondet", "twophase"} => t.barrier \notin DOMAIN HiddenPredictions
         /\ t.mode \in AdmissionArms =>
              t.engine = "langgraph" /\ t.barrier = "lg_pre_first_checkpoint"
         /\ t.engine = "trueforge" <=> t.barrier = ReceiverBarrier
         /\ DuplicateName(t) => t.mode = "naive" /\ t.engine = "dbos"
<1>1. t \in Trial
  BY TrialAssumption
<1>2. DOMAIN LangGraphRows = {"naive", "idem", "nondet", "twophase"}
  BY DEF LangGraphRows, EngineRows
<1>3. DOMAIN Registry =
        {"control", "langgraph", "temporal", "dbos", "restate", "vercel", "trueforge"}
  BY DEF Registry
<1>4. /\ t.engine \in {"langgraph", "dbos", "temporal", "restate", "vercel", "trueforge"}
      /\ t.mode \in {"naive", "idem", "nondet", "twophase"} \cup AdmissionArms
  BY <1>2, <1>3, EngineAssumption DEF Engines
<1>5. t.barrier \in Barrier \cup HiddenBarrier /\ t.barrier \in Label
  BY <1>1 DEF Trial, Label
<1>6. t.mode \in {"idem", "nondet", "twophase"} => t.barrier \notin DOMAIN HiddenPredictions
  BY EngineAssumption DEF AdmissionArms
<1>7. "lg_pre_first_checkpoint" \in DOMAIN HiddenPredictions
      /\ "dbos_duplicate_workflow_name_recovery" \in DOMAIN HiddenPredictions
  BY DEF HiddenPredictions
<1>8. t.mode \in AdmissionArms =>
        t.engine = "langgraph" /\ t.barrier = "lg_pre_first_checkpoint"
  BY <1>7, EngineAssumption DEF HiddenEngine
<1>9. DuplicateName(t) => t.mode = "naive" /\ t.engine = "dbos"
  BY <1>7, EngineAssumption DEF DuplicateName, HiddenEngine
<1>10. t.engine = "trueforge" <=> t.barrier = ReceiverBarrier
  BY EngineAssumption
<1>11. QED
  BY <1>4, <1>5, <1>6, <1>8, <1>9, <1>10

LEMMA Modes ==
  ASSUME NEW t \in Trials
  PROVE  /\ TwoPhase(t) <=> t.mode = "twophase"
         /\ Idempotent(t) <=> t.mode \in {"idem", "nondet", "twophase"}
         /\ t.mode = "idem" => ~ Nondeterministic(t)
<1>1. CASE DuplicateName(t)
  <2>1. RowOf(t) = TwoActionsRow /\ t.mode = "naive"
    BY <1>1, EngineRow DEF RowOf, DuplicateName
  <2>2. QED
    BY <2>1 DEF TwoPhase, Idempotent, TwoActionsRow, Row
<1>2. CASE ~ DuplicateName(t)
  <2> DEFINE m == IF t.mode \in AdmissionArms THEN "naive" ELSE t.mode
  <2>1. m \in {"naive", "idem", "nondet", "twophase"}
    BY EngineRow
  <2>2. RowOf(t) = Registry[t.engine][m]
    BY <1>2 DEF RowOf, DuplicateName
  <2>3. \/ t.mode \notin AdmissionArms /\ m = t.mode
        \/ m = "naive" /\ t.mode \in {"runtime_only", "external_admission_ledger"}
    <3>1. CASE t.mode \in AdmissionArms
      BY <3>1 DEF AdmissionArms
    <3>2. CASE t.mode \notin AdmissionArms
      BY <3>2
    <3>3. QED
      BY <3>1, <3>2
  <2>4. PICK order : Registry[t.engine][m] = EngineRows(order)[m]
    <3>1. CASE t.engine = "trueforge"
      <4>1. m \in {"naive", "idem"}
        BY <3>1, EngineAssumption DEF AdmissionArms
      <4>2. QED
        BY <3>1, <4>1 DEF Registry, DBOSRows
    <3>2. CASE t.engine # "trueforge"
      BY <3>2, EngineRow
         DEF Registry, LangGraphRows, TemporalRows, DBOSRows, RestateRows, VercelRows
    <3>3. QED
      BY <3>1, <3>2
  <2>5. /\ RowOf(t).effect_mode =
             CASE m = "naive" -> "naive" [] m = "twophase" -> "two_phase" [] OTHER -> "idempotent"
        /\ m = "idem" => RowOf(t).determinism = "deterministic"
    BY <2>1, <2>2, <2>4 DEF EngineRows, Row
  <2>6. QED
    BY <2>1, <2>3, <2>5 DEF TwoPhase, Idempotent, Nondeterministic
<1>3. QED
  BY <1>1, <1>2

LEMMA Labels ==
  /\ {"send", "await", "put_entry", "put_prepared", "race", "put_writes", "put_done",
      "empty_input", "read_admission", "completed", "b0", "b1", "b2"} \subseteq Label
  /\ {"lg_pre_first_checkpoint", "lg_pending_writes_after_persist",
      "dbos_step_output_uncommitted", "dbos_step_output_committed_before_resume",
      "dbos_workflow_outcome_uncommitted", "dbos_duplicate_workflow_name_recovery",
      "tmp_activity_scheduled_before_worker_poll", "tmp_workflow_task_replay"} \subseteq Label
  /\ {"enqueue", "send_billing", "send_shipping", "commit_outcome", "no_workflow",
      "prepare_identity_step", "effect_step", "sentinel_step", "billing_charge",
      "shipping_charge", "start_workflow", "poll", "decide", "report"} \subseteq Label
  /\ {"journal", "kill", "create_run", "start_step", "link_claim", "write_created", "hang",
      "prepareIdentity", "charge", "sentinel"} \subseteq Label
  /\ {"create_turn", "answer_create", "model.message", "tool.response", "turn_done",
      ReceiverBarrier} \subseteq Label
<1>1. {"lg_pre_first_checkpoint", "lg_pending_writes_after_persist",
      "dbos_step_output_uncommitted", "dbos_step_output_committed_before_resume",
      "dbos_workflow_outcome_uncommitted", "dbos_duplicate_workflow_name_recovery",
      "tmp_activity_scheduled_before_worker_poll", "tmp_workflow_task_replay"}
        \subseteq DOMAIN HiddenPredictions
  BY DEF HiddenPredictions
<1>2. /\ Barrier \subseteq Label /\ HiddenBarrier \subseteq Label /\ StepName \subseteq Label
  BY DEF Label
<1>3. {"b0", "b1", "b2"} \subseteq Label
  BY <1>2 DEF Barrier
<1>4. {"prepare_identity_step", "effect_step", "sentinel_step", "billing_charge",
       "shipping_charge"} \subseteq Label
  BY <1>2 DEF StepName
<1>5. DOMAIN HiddenPredictions \subseteq Label /\ ReceiverBarrier \in Label
  BY <1>2 DEF HiddenBarrier
<1>6. QED
  BY <1>1, <1>3, <1>4, <1>5 DEF Label

\* The steps after which, or with which, an engine takes its effect for done.
CommitSteps ==
  {"race", "put_writes", "put_done", "effect_step", "sentinel_step", "billing_charge",
   "shipping_charge", "commit_outcome", "report", "journal", "charge", "sentinel",
   "tool.response", "turn_done"}

\* Nothing is committed before the ledger has answered.
Ordered(s) == Before({"await"}, CommitSteps, s)
Awaits(s) == Has({"await"}, s)

LEMMA NothingOrdered == << >> \in Programs /\ Ordered(<< >>) /\ \A X : ~ Has(X, << >>)
BY DEF Programs, Ordered, Before, Has

LEMMA UncommittedOrdered ==
  ASSUME NEW s \in Programs, ~ Has(CommitSteps, s)
  PROVE  Ordered(s)
BY DEF Ordered, Before, Has

LEMMA OrderedConcat ==
  ASSUME NEW u \in Programs, NEW v \in Programs, Ordered(u), Awaits(u) \/ Ordered(v)
  PROVE  u \o v \in Programs /\ Ordered(u \o v)
BY ConcatPlaces, BeforeConcat DEF Ordered, Awaits

LEMMA OrderedArmed ==
  ASSUME NEW s \in Programs, NEW b
  PROVE  /\ ArmedWith(s, b) \in Programs
         /\ Ordered(s) => Ordered(ArmedWith(s, b))
         /\ Awaits(s) <=> Awaits(ArmedWith(s, b))
<1>1. {"await"} \cap Unarmed(b) = {}
  BY DEF Unarmed, Barrier, HiddenBarrier, HiddenPredictions, ReceiverBarrier
<1>2. QED
  BY <1>1, ArmedPlaces, BeforeArmed, HasArmed DEF Ordered, Awaits

-----------------------------------------------------------------------------
(***************************************************************************)
(* LangGraph's programs.                                                   *)
(***************************************************************************)
AdmissionSteps == {"read_admission", "completed"}

LEMMA LangGraphInput ==
  ASSUME NEW t \in Trials, NEW b
  PROVE  /\ ArmedWith(InvokeInput(t), b) \in Programs
         /\ Ordered(ArmedWith(InvokeInput(t), b)) /\ Awaits(ArmedWith(InvokeInput(t), b))
         /\ ~ Has(AdmissionSteps, ArmedWith(InvokeInput(t), b))
<1> DEFINE u == <<"lg_pre_first_checkpoint", "put_entry", "b0">>
           v == u \o PrepareNode(t)
<1>1. /\ u \in Programs /\ ~ Has(CommitSteps, u) /\ ~ Has(AdmissionSteps, u)
      /\ PrepareNode(t) \in Programs /\ ~ Has(CommitSteps, PrepareNode(t))
      /\ ~ Has(AdmissionSteps, PrepareNode(t))
      /\ ChargeNode \in Programs /\ Ordered(ChargeNode) /\ Awaits(ChargeNode)
      /\ ~ Has(AdmissionSteps, ChargeNode)
  BY Labels, NothingOrdered
     DEF Programs, PrepareNode, ChargeNode, Has, Ordered, Before, Awaits, CommitSteps,
         AdmissionSteps
<1> HIDE DEF u
<1>2. v \in Programs /\ Ordered(v) /\ ~ Has(AdmissionSteps, v)
  BY <1>1, UncommittedOrdered, OrderedConcat, HasConcat
<1> HIDE DEF v
<1>3. /\ v \o ChargeNode \in Programs /\ Ordered(v \o ChargeNode) /\ Awaits(v \o ChargeNode)
      /\ ~ Has(AdmissionSteps, v \o ChargeNode)
  BY <1>1, <1>2, OrderedConcat, HasConcat DEF Awaits
<1>4. InvokeInput(t) = v \o ChargeNode
  BY DEF InvokeInput, v, u
<1>5. QED
  BY <1>3, <1>4, OrderedArmed, HasArmed

LEMMA LangGraphRecovery ==
  ASSUME NEW t \in Trials, NEW files \in LangGraphDisk
  PROVE  LET s == LangGraphRecoveryRun(t, files) IN
         /\ s \in Programs
         /\ ~ Has({"completed"}, s) /\ AtMostOnce({"read_admission"}, s)
         /\ files.checkpoint = "done" \/ files.writes \/ Ordered(s)
         /\ files.checkpoint \in {"none", "done"} \/ files.writes \/ Awaits(s)
         /\ files.checkpoint = "none" => Has({"empty_input"}, s)
         /\ t.mode \in AdmissionArms => Has({"read_admission"}, s)
<1> DEFINE u == InvokeNothing(t, files)
           v == IF t.mode \in AdmissionArms THEN <<"read_admission">> ELSE << >>
           P == PrepareNode(t) \o ChargeNode
<1>1. /\ PrepareNode(t) \in Programs /\ ~ Has(CommitSteps, PrepareNode(t))
      /\ ~ Has(AdmissionSteps, PrepareNode(t))
      /\ ChargeNode \in Programs /\ Ordered(ChargeNode) /\ Awaits(ChargeNode)
      /\ ~ Has(AdmissionSteps, ChargeNode)
  BY Labels, NothingOrdered
     DEF Programs, PrepareNode, ChargeNode, Has, Ordered, Before, Awaits, CommitSteps,
         AdmissionSteps
<1>2. P \in Programs /\ Ordered(P) /\ Awaits(P) /\ ~ Has(AdmissionSteps, P)
  BY <1>1, UncommittedOrdered, OrderedConcat, HasConcat DEF Awaits
<1>3. /\ <<"empty_input">> \in Programs /\ Ordered(<<"empty_input">>)
      /\ ~ Has(AdmissionSteps, <<"empty_input">>) /\ Has({"empty_input"}, <<"empty_input">>)
      /\ <<"put_done">> \in Programs /\ ~ Has(AdmissionSteps, <<"put_done">>)
  BY Labels DEF Programs, Has, Ordered, Before, CommitSteps, AdmissionSteps
<1>4. /\ files.checkpoint \in {"none", "entry", "prepared", "done"} /\ files.writes \in BOOLEAN
  BY DEF LangGraphDisk
<1>5. /\ files.checkpoint = "none" => u = <<"empty_input">>
      /\ files.checkpoint = "done" => u = << >>
      /\ files.checkpoint = "entry" /\ ~ files.writes => u = P
      /\ files.checkpoint = "prepared" /\ ~ files.writes => u = ChargeNode
      /\ files.checkpoint \in {"entry", "prepared"} /\ files.writes => u = <<"put_done">>
  BY <1>4 DEF InvokeNothing
<1> HIDE DEF u, P
<1>6. /\ u \in Programs /\ ~ Has(AdmissionSteps, u)
      /\ files.checkpoint = "done" \/ files.writes \/ Ordered(u)
      /\ files.checkpoint \in {"none", "done"} \/ files.writes \/ Awaits(u)
      /\ files.checkpoint = "none" => Has({"empty_input"}, u)
  BY <1>1, <1>2, <1>3, <1>4, <1>5, NothingOrdered
<1>7. /\ v \in Programs /\ Ordered(v)
      /\ ~ Has({"completed"}, v) /\ AtMostOnce({"read_admission"}, v)
      /\ t.mode \in AdmissionArms => Has({"read_admission"}, v)
  BY Labels DEF Programs, Has, Ordered, Before, CommitSteps, AtMostOnce
<1>8. ~ Has({"completed"}, u) /\ ~ Has({"read_admission"}, u) /\ AtMostOnce({"read_admission"}, u)
  BY <1>6 DEF Has, AdmissionSteps, AtMostOnce
<1>9. LangGraphRecoveryRun(t, files) = u \o v
  BY DEF LangGraphRecoveryRun, u
<1> HIDE DEF v
<1>10. /\ u \o v \in Programs /\ ~ Has({"completed"}, u \o v)
       /\ AtMostOnce({"read_admission"}, u \o v)
       /\ files.checkpoint = "done" \/ files.writes \/ Ordered(u \o v)
       /\ files.checkpoint \in {"none", "done"} \/ files.writes \/ Awaits(u \o v)
       /\ files.checkpoint = "none" => Has({"empty_input"}, u \o v)
       /\ t.mode \in AdmissionArms => Has({"read_admission"}, u \o v)
  BY <1>6, <1>7, <1>8, ConcatPlaces, OrderedConcat, HasConcat, OnceConcat DEF Awaits
<1>11. QED
  BY <1>9, <1>10

LEMMA RaceOrders ==
  ASSUME NEW b,
         NEW order \in Interleavings(<<"b1", "put_writes", "lg_pending_writes_after_persist">>,
                                     <<"put_done", "b2">>)
  PROVE  ArmedWith(order, b) \in Programs /\ ~ Has(AdmissionSteps, ArmedWith(order, b))
<1> DEFINE v == <<"b1", "put_writes", "lg_pending_writes_after_persist">>
           w == <<"put_done", "b2">>
<1>1. /\ v \in Programs /\ w \in Programs
      /\ ~ Has(AdmissionSteps, v) /\ ~ Has(AdmissionSteps, w)
  BY Labels DEF Programs, Has, AdmissionSteps
<1>2. order \in Interleavings(v, w)
  OBVIOUS
<1> HIDE DEF v, w
<1>3. order \in Programs /\ ~ Has(AdmissionSteps, order)
  BY <1>1, <1>2, MergePlaces, HasMerge
<1>4. QED
  BY <1>3, ArmedPlaces, HasArmed

-----------------------------------------------------------------------------
(***************************************************************************)
(* DBOS's programs: a body run from the outputs recorded on.               *)
(***************************************************************************)
ChargeSteps == {"effect_step", "billing_charge", "shipping_charge"}

\* How many outputs precede the charge's, and its own.
ChargeAt(t) == IF TwoPhase(t) THEN 2 ELSE 1

Performed(step, body, recorded) == \E n \in recorded + 1 .. Len(body) : body[n] = step

LEMMA StepPrograms ==
  ASSUME NEW step \in StepName, NEW body, NEW recorded
  PROVE  LET s == Performs(step, body, recorded) IN
         /\ s \in Programs
         /\ step # "sentinel_step" => Ordered(s)
         /\ step \in ChargeSteps => (Awaits(s) <=> Performed(step, body, recorded))
         /\ Has({"prepare_identity_step"}, s) <=>
              step = "prepare_identity_step" /\ Performed(step, body, recorded)
         /\ AtMostOnce({"prepare_identity_step"}, s)
         /\ Has({"send_billing", "send_shipping"}, s) =>
              step \in {"billing_charge", "shipping_charge"} /\ Performed(step, body, recorded)
         /\ ~ Performed(step, body, recorded) => s = << >>
<1> DEFINE p == StepProgram(step)
<1>1. step \in {"prepare_identity_step", "effect_step", "sentinel_step", "billing_charge",
                "shipping_charge"}
  BY DEF StepName
<1>2. p \in Programs
  BY <1>1, Labels DEF StepProgram, Programs
<1>3. step # "sentinel_step" => Ordered(p)
  BY <1>1 DEF StepProgram, Ordered, Before, CommitSteps
<1>4. step \in ChargeSteps => Awaits(p)
  BY <1>1 DEF StepProgram, Awaits, Has, ChargeSteps
<1>5. Has({"prepare_identity_step"}, p) <=> step = "prepare_identity_step"
  BY <1>1 DEF StepProgram, Has
<1>6. AtMostOnce({"prepare_identity_step"}, p)
  BY <1>1 DEF StepProgram, AtMostOnce
<1>7. Has({"send_billing", "send_shipping"}, p) => step \in {"billing_charge", "shipping_charge"}
  BY <1>1 DEF StepProgram, Has
<1> HIDE DEF p
<1>8. Performs(step, body, recorded) = IF Performed(step, body, recorded) THEN p ELSE << >>
  BY DEF Performs, Performed, p
<1>9. AtMostOnce({"prepare_identity_step"}, << >>)
  BY DEF AtMostOnce
<1>10. CASE Performed(step, body, recorded)
  BY <1>2, <1>3, <1>4, <1>5, <1>6, <1>7, <1>8, <1>10
<1>11. CASE ~ Performed(step, body, recorded)
  BY <1>8, <1>9, <1>11, NothingOrdered DEF Awaits
<1>12. QED
  BY <1>10, <1>11

LEMMA WorkflowProgram ==
  ASSUME NEW body, NEW recorded
  PROVE  LET s == Workflow(body, recorded) IN
         /\ s \in Programs
         /\ (\E step \in ChargeSteps : Performed(step, body, recorded)) /\
              (~ Performed("sentinel_step", body, recorded)
                 \/ Performed("effect_step", body, recorded))
              => Ordered(s) /\ Awaits(s)
         /\ Has({"prepare_identity_step"}, s) <=>
              Performed("prepare_identity_step", body, recorded)
         /\ AtMostOnce({"prepare_identity_step"}, s)
         /\ Has({"send_billing", "send_shipping"}, s) =>
              \E step \in {"billing_charge", "shipping_charge"} : Performed(step, body, recorded)
<1> DEFINE a == Performs("prepare_identity_step", body, recorded)
           b == Performs("effect_step", body, recorded)
           c == Performs("sentinel_step", body, recorded)
           d == Performs("billing_charge", body, recorded)
           e == Performs("shipping_charge", body, recorded)
           f == <<"dbos_workflow_outcome_uncommitted", "commit_outcome">>
           Charge == {"send_billing", "send_shipping"}
           Prepare == {"prepare_identity_step"}
           P(step) == Performed(step, body, recorded)
<1>1. /\ a \in Programs /\ Ordered(a) /\ (Has(Prepare, a) <=> P("prepare_identity_step"))
      /\ AtMostOnce(Prepare, a) /\ ~ Has(Charge, a)
  BY StepPrograms DEF StepName
<1>2. /\ b \in Programs /\ Ordered(b) /\ (Awaits(b) <=> P("effect_step")) /\ ~ Has(Prepare, b)
      /\ ~ Has(Charge, b)
  BY StepPrograms DEF StepName, ChargeSteps
<1>3. /\ c \in Programs /\ (P("sentinel_step") \/ Ordered(c)) /\ ~ Has(Prepare, c)
      /\ ~ Has(Charge, c)
  BY StepPrograms, NothingOrdered DEF StepName
<1>4. /\ d \in Programs /\ Ordered(d) /\ (Awaits(d) <=> P("billing_charge"))
      /\ ~ Has(Prepare, d) /\ (Has(Charge, d) => P("billing_charge"))
  BY StepPrograms DEF StepName, ChargeSteps
<1>5. /\ e \in Programs /\ Ordered(e) /\ (Awaits(e) <=> P("shipping_charge"))
      /\ ~ Has(Prepare, e) /\ (Has(Charge, e) => P("shipping_charge"))
  BY StepPrograms DEF StepName, ChargeSteps
<1>6. f \in Programs /\ ~ Has(Prepare, f) /\ ~ Has(Charge, f)
  BY Labels DEF Programs, Has
<1> HIDE DEF a, b, c, d, e, f, Charge, Prepare
<1> DEFINE ab == a \o b
           abc == ab \o c
           abcd == abc \o d
           abcde == abcd \o e
           program == abcde \o f
<1>7. /\ ab \in Programs /\ Ordered(ab) /\ (P("effect_step") => Awaits(ab))
      /\ (Has(Prepare, ab) <=> P("prepare_identity_step")) /\ ~ Has(Charge, ab)
      /\ AtMostOnce(Prepare, ab)
  <2>1. AtMostOnce(Prepare, b)
    BY <1>2 DEF Has, AtMostOnce
  <2>2. QED
    BY <1>1, <1>2, <2>1, OrderedConcat, HasConcat, OnceConcat DEF Awaits
<1> HIDE DEF ab
<1>8. /\ abc \in Programs /\ (P("effect_step") => Awaits(abc))
      /\ (~ P("sentinel_step") \/ P("effect_step") => Ordered(abc))
      /\ (Has(Prepare, abc) <=> P("prepare_identity_step")) /\ ~ Has(Charge, abc)
      /\ AtMostOnce(Prepare, abc)
  <2>1. AtMostOnce(Prepare, c)
    BY <1>3 DEF Has, AtMostOnce
  <2>2. ~ P("sentinel_step") => Ordered(c)
    BY <1>3
  <2>3. QED
    BY <1>3, <1>7, <2>1, <2>2, ConcatPlaces, OrderedConcat, HasConcat, OnceConcat DEF Awaits
<1> HIDE DEF abc
<1>9. /\ abcd \in Programs /\ (P("effect_step") \/ P("billing_charge") => Awaits(abcd))
      /\ (~ P("sentinel_step") \/ P("effect_step") => Ordered(abcd))
      /\ (Has(Prepare, abcd) <=> P("prepare_identity_step"))
      /\ (Has(Charge, abcd) => P("billing_charge"))
      /\ AtMostOnce(Prepare, abcd)
  <2>1. AtMostOnce(Prepare, d)
    BY <1>4 DEF Has, AtMostOnce
  <2>2. QED
    BY <1>4, <1>8, <2>1, ConcatPlaces, OrderedConcat, HasConcat, OnceConcat DEF Awaits
<1> HIDE DEF abcd
<1>10. /\ abcde \in Programs
       /\ (P("effect_step") \/ P("billing_charge") \/ P("shipping_charge") => Awaits(abcde))
       /\ (~ P("sentinel_step") \/ P("effect_step") => Ordered(abcde))
       /\ (Has(Prepare, abcde) <=> P("prepare_identity_step"))
       /\ (Has(Charge, abcde) => P("billing_charge") \/ P("shipping_charge"))
       /\ AtMostOnce(Prepare, abcde)
  <2>1. AtMostOnce(Prepare, e)
    BY <1>5 DEF Has, AtMostOnce
  <2>2. QED
    BY <1>5, <1>9, <2>1, ConcatPlaces, OrderedConcat, HasConcat, OnceConcat DEF Awaits
<1> HIDE DEF abcde
<1>11. /\ program \in Programs
       /\ (P("effect_step") \/ P("billing_charge") \/ P("shipping_charge")) /\
            (~ P("sentinel_step") \/ P("effect_step")) => Ordered(program) /\ Awaits(program)
       /\ (Has(Prepare, program) <=> P("prepare_identity_step"))
       /\ (Has(Charge, program) => P("billing_charge") \/ P("shipping_charge"))
       /\ AtMostOnce(Prepare, program)
  <2>1. AtMostOnce(Prepare, f)
    BY <1>6 DEF Has, AtMostOnce
  <2>2. QED
    BY <1>6, <1>10, <2>1, ConcatPlaces, OrderedConcat, HasConcat, OnceConcat DEF Awaits
<1>12. Workflow(body, recorded) = program
  BY DEF Workflow, program, abcde, abcd, abc, ab, a, b, c, d, e, f
<1> HIDE DEF program
<1>13. QED
  BY <1>11, <1>12 DEF ChargeSteps, Charge, Prepare

LEMMA OneThenTwo ==
  ASSUME NEW a, NEW b, NEW c
  PROVE  <<a>> \o <<b, c>> = <<a, b, c>>
<1> DEFINE S == {a, b, c}
           w == <<a>> \o <<b, c>>
<1>1. <<a>> \in Seq(S) /\ <<b, c>> \in Seq(S)
  OBVIOUS
<1> HIDE DEF S
<1>2. Len(<<a>>) = 1 /\ Len(<<b, c>>) = 2 /\ <<a>>[1] = a /\ <<b, c>>[1] = b /\ <<b, c>>[2] = c
  OBVIOUS
<1>3. w \in Seq(S) /\ Len(w) = 3
  BY <1>1, <1>2, ConcatElements
<1>4. w[1] = a /\ w[1 + 1] = b /\ w[1 + 2] = c
  BY <1>1, <1>2, ConcatElements
<1> HIDE DEF w
<1>5. w = <<a, b, c>>
  BY <1>3, <1>4
<1>6. QED
  BY <1>5 DEF w

LEMMA Bodies ==
  ASSUME NEW t \in Trials
  PROVE  /\ CrashBody(t) = IF DuplicateName(t) THEN <<"billing_charge">>
                           ELSE IF TwoPhase(t)
                             THEN <<"prepare_identity_step", "effect_step", "sentinel_step">>
                             ELSE <<"effect_step", "sentinel_step">>
         /\ RecoveryBody(t) = IF DuplicateName(t) THEN <<"shipping_charge">> ELSE CrashBody(t)
         /\ DuplicateName(t) => ~ TwoPhase(t)
<1>1. DuplicateName(t) => ~ TwoPhase(t)
  BY EngineRow, Modes
<1>2. /\ <<"prepare_identity_step">> \o <<"effect_step", "sentinel_step">>
           = <<"prepare_identity_step", "effect_step", "sentinel_step">>
      /\ << >> \o <<"effect_step", "sentinel_step">> = <<"effect_step", "sentinel_step">>
  BY OneThenTwo
<1>3. QED
  BY <1>1, <1>2 DEF CrashBody, RecoveryBody

LEMMA DbosBody ==
  ASSUME NEW t \in Trials, NEW body \in {CrashBody(t), RecoveryBody(t)}, NEW r \in Nat
  PROVE  /\ r < ChargeAt(t) =>
              /\ \E step \in ChargeSteps : Performed(step, body, r)
              /\ Performed("sentinel_step", body, r) => Performed("effect_step", body, r)
         /\ Performed("prepare_identity_step", body, r) => r = 0 /\ TwoPhase(t)
         /\ (\E step \in {"billing_charge", "shipping_charge"} : Performed(step, body, r))
              => DuplicateName(t)
<1>1. CASE DuplicateName(t)
  <2>1. PICK x \in {"billing_charge", "shipping_charge"} : body = <<x>>
    BY <1>1, Bodies
  <2>2. r < 1 => r = 0 /\ 1 \in r + 1 .. Len(body)
    BY <2>1
  <2>3. ChargeAt(t) = 1 /\ body[1] = x /\ \A n \in r + 1 .. Len(body) : n = 1
    BY <1>1, <2>1, Bodies DEF ChargeAt
  <2>4. r < 1 => Performed(x, body, r)
    BY <2>2, <2>3 DEF Performed
  <2>5. ~ Performed("sentinel_step", body, r) /\ ~ Performed("prepare_identity_step", body, r)
    BY <2>3 DEF Performed
  <2>6. QED
    BY <1>1, <2>1, <2>3, <2>4, <2>5 DEF ChargeSteps
<1>2. CASE ~ DuplicateName(t) /\ TwoPhase(t)
  <2>1. body = <<"prepare_identity_step", "effect_step", "sentinel_step">>
    BY <1>2, Bodies
  <2>2. Len(body) = 3 /\ body[1] = "prepare_identity_step" /\ body[2] = "effect_step"
        /\ body[3] = "sentinel_step"
    BY <2>1
  <2>3. r < 2 => 2 \in r + 1 .. Len(body)
    BY <2>2
  <2>4. r < 2 => Performed("effect_step", body, r)
    BY <2>2, <2>3 DEF Performed
  <2>5. ChargeAt(t) = 2
    BY <1>2 DEF ChargeAt
  <2>6. \A n \in r + 1 .. Len(body) : n \in {1, 2, 3} /\ (n = 1 => r = 0)
    BY <2>2
  <2>7. Performed("prepare_identity_step", body, r) => r = 0
    BY <2>2, <2>6 DEF Performed
  <2>8. ~ Performed("billing_charge", body, r) /\ ~ Performed("shipping_charge", body, r)
    BY <2>2, <2>6 DEF Performed
  <2>9. QED
    BY <1>2, <2>4, <2>5, <2>7, <2>8 DEF ChargeSteps
<1>3. CASE ~ DuplicateName(t) /\ ~ TwoPhase(t)
  <2>1. body = <<"effect_step", "sentinel_step">>
    BY <1>3, Bodies
  <2>2. Len(body) = 2 /\ body[1] = "effect_step" /\ body[2] = "sentinel_step"
    BY <2>1
  <2>3. r < 1 => 1 \in r + 1 .. Len(body)
    BY <2>2
  <2>4. r < 1 => Performed("effect_step", body, r)
    BY <2>2, <2>3 DEF Performed
  <2>5. ChargeAt(t) = 1
    BY <1>3 DEF ChargeAt
  <2>6. \A n \in r + 1 .. Len(body) : n \in {1, 2}
    BY <2>2
  <2>7. /\ ~ Performed("billing_charge", body, r) /\ ~ Performed("shipping_charge", body, r)
        /\ ~ Performed("prepare_identity_step", body, r)
    BY <2>2, <2>6 DEF Performed
  <2>8. QED
    BY <1>3, <2>4, <2>5, <2>7 DEF ChargeSteps
<1>4. QED
  BY <1>1, <1>2, <1>3

LEMMA DbosArmed ==
  ASSUME NEW t \in Trials, NEW b, NEW s \in Programs
  PROVE  /\ Has({"prepare_identity_step"}, ArmedWith(s, b)) => Has({"prepare_identity_step"}, s)
         /\ AtMostOnce({"prepare_identity_step"}, s) =>
              AtMostOnce({"prepare_identity_step"}, ArmedWith(s, b))
         /\ Has({"send_billing", "send_shipping"}, ArmedWith(s, b)) =>
              Has({"send_billing", "send_shipping"}, s)
BY HasArmed, OnceArmed

LEMMA DbosCrash ==
  ASSUME NEW t \in Trials
  PROVE  LET s == DbosCrashRun(t) IN
         /\ s \in Programs /\ Ordered(s)
         /\ AtMostOnce({"prepare_identity_step"}, s)
         /\ Has({"prepare_identity_step"}, s) => TwoPhase(t)
         /\ Has({"send_billing", "send_shipping"}, s) => DuplicateName(t)
<1> DEFINE w == Workflow(CrashBody(t), 0)
           u == <<"enqueue">>
           Charge == {"send_billing", "send_shipping"}
           Prepare == {"prepare_identity_step"}
<1>1. 0 \in Nat /\ 0 < ChargeAt(t)
  BY DEF ChargeAt
<1>2. /\ w \in Programs /\ Ordered(w) /\ AtMostOnce(Prepare, w)
      /\ Has(Prepare, w) => TwoPhase(t)
      /\ Has(Charge, w) => DuplicateName(t)
  BY <1>1, WorkflowProgram, DbosBody
<1>3. /\ u \in Programs /\ Ordered(u) /\ ~ Has(Prepare, u) /\ ~ Has(Charge, u)
      /\ AtMostOnce(Prepare, u)
  BY Labels DEF Programs, Ordered, Before, CommitSteps, Has, AtMostOnce
<1> HIDE DEF u, w, Charge, Prepare
<1>4. /\ u \o w \in Programs /\ Ordered(u \o w) /\ AtMostOnce(Prepare, u \o w)
      /\ Has(Prepare, u \o w) => TwoPhase(t)
      /\ Has(Charge, u \o w) => DuplicateName(t)
  BY <1>2, <1>3, OrderedConcat, HasConcat, OnceConcat
<1>5. DbosCrashRun(t) = ArmedWith(u \o w, t.barrier)
  BY DEF DbosCrashRun, u, w
<1>6. QED
  BY <1>4, <1>5, OrderedArmed, DbosArmed DEF Charge, Prepare

LEMMA DbosRecovery ==
  ASSUME NEW t \in Trials, NEW tables \in DbosDisk
  PROVE  LET s == DbosRecoveryRun(t, tables) IN
         /\ s \in Programs
         /\ Len(tables.outputs) >= ChargeAt(t) \/ tables.wf = "SUCCESS" \/
              (Ordered(s) /\ Has({"await", "no_workflow"}, s))
         /\ AtMostOnce({"prepare_identity_step"}, s)
         /\ Has({"prepare_identity_step"}, s) => TwoPhase(t) /\ tables.outputs = << >>
         /\ Has({"send_billing", "send_shipping"}, s) => DuplicateName(t)
<1> DEFINE r == Len(tables.outputs)
           w == Workflow(RecoveryBody(t), r)
           s == DbosRecoveryRun(t, tables)
<1>1. tables.wf \in {"absent", "PENDING", "SUCCESS"} /\ r \in Nat
      /\ (r = 0 => tables.outputs = << >>)
  BY DEF DbosDisk
<1>2. CASE tables.wf = "absent"
  <2>1. s = <<"no_workflow">>
    BY <1>2 DEF DbosRecoveryRun
  <2>2. /\ <<"no_workflow">> \in Programs /\ Ordered(<<"no_workflow">>)
        /\ Has({"await", "no_workflow"}, <<"no_workflow">>)
        /\ AtMostOnce({"prepare_identity_step"}, <<"no_workflow">>)
        /\ ~ Has({"prepare_identity_step"}, <<"no_workflow">>)
        /\ ~ Has({"send_billing", "send_shipping"}, <<"no_workflow">>)
    BY Labels DEF Programs, Ordered, Before, CommitSteps, Has, AtMostOnce
  <2>3. QED
    BY <2>1, <2>2
<1>3. CASE tables.wf = "SUCCESS"
  <2>1. s = << >>
    BY <1>3 DEF DbosRecoveryRun
  <2>2. AtMostOnce({"prepare_identity_step"}, << >>)
    BY DEF AtMostOnce
  <2>3. QED
    BY <1>3, <2>1, <2>2, NothingOrdered
<1>4. CASE tables.wf = "PENDING"
  <2>1. s = ArmedWith(w, "none")
    BY <1>4 DEF DbosRecoveryRun
  <2>2. /\ w \in Programs
        /\ r < ChargeAt(t) => Ordered(w) /\ Awaits(w)
        /\ AtMostOnce({"prepare_identity_step"}, w)
        /\ Has({"prepare_identity_step"}, w) => TwoPhase(t) /\ r = 0
        /\ Has({"send_billing", "send_shipping"}, w) => DuplicateName(t)
    BY <1>1, WorkflowProgram, DbosBody
  <2>3. ChargeAt(t) \in Nat
    BY DEF ChargeAt
  <2>4. r >= ChargeAt(t) \/ r < ChargeAt(t)
    BY <1>1, <2>3
  <2>5. Awaits(s) => Has({"await", "no_workflow"}, s)
    BY DEF Awaits, Has
  <2> HIDE DEF w, s
  <2>6. QED
    BY <1>1, <2>1, <2>2, <2>4, <2>5, OrderedArmed, DbosArmed DEF s, r
<1>5. QED
  BY <1>1, <1>2, <1>3, <1>4

-----------------------------------------------------------------------------
(***************************************************************************)
(* The programs of Temporal, Restate, the Vercel fixture and TrueForge.    *)
(***************************************************************************)
LEMMA TemporalPrograms ==
  ASSUME NEW b
  PROVE  /\ <<"start_workflow", "poll">> \in Programs /\ Ordered(<<"start_workflow", "poll">>)
         /\ <<"poll">> \in Programs /\ Ordered(<<"poll">>) /\ Has({"poll"}, <<"poll">>)
         /\ LET s == ArmedWith(<<"tmp_workflow_task_replay", "decide">>, b) IN
              s \in Programs /\ Ordered(s)
         /\ LET s == ArmedWith(<<"b0", "send", "await", "b1", "report">>, b) IN
              s \in Programs /\ Ordered(s)
         /\ ArmedWith(<<"b2", "report">>, b) \in Programs
<1>1. /\ <<"start_workflow", "poll">> \in Programs /\ Ordered(<<"start_workflow", "poll">>)
      /\ <<"poll">> \in Programs /\ Ordered(<<"poll">>) /\ Has({"poll"}, <<"poll">>)
  BY Labels DEF Programs, Ordered, Before, CommitSteps, Has
<1>2. /\ <<"tmp_workflow_task_replay", "decide">> \in Programs
      /\ Ordered(<<"tmp_workflow_task_replay", "decide">>)
      /\ <<"b0", "send", "await", "b1", "report">> \in Programs
      /\ Ordered(<<"b0", "send", "await", "b1", "report">>)
      /\ <<"b2", "report">> \in Programs
  BY Labels DEF Programs, Ordered, Before, CommitSteps
<1>3. QED
  BY <1>1, <1>2, OrderedArmed

LEMMA RestatePrograms ==
  ASSUME NEW t, NEW journal
  PROVE  LET s == RestateRun(t, journal) IN
         /\ s \in Programs /\ Ordered(s)
         /\ journal.journaled \/ Awaits(s)
<1> DEFINE u == IF journal.journaled THEN << >> ELSE <<"send", "await", "b1", "journal">>
           v == <<"b0">> \o u
           w == v \o <<"b2">>
<1>1. /\ u \in Programs /\ Ordered(u) /\ (journal.journaled \/ Awaits(u))
  BY Labels, NothingOrdered DEF Programs, Ordered, Before, CommitSteps, Awaits, Has
<1>2. /\ <<"b0">> \in Programs /\ Ordered(<<"b0">>) /\ <<"b2">> \in Programs /\ Ordered(<<"b2">>)
  BY Labels DEF Programs, Ordered, Before, CommitSteps
<1> HIDE DEF u
<1>3. v \in Programs /\ Ordered(v) /\ (journal.journaled \/ Awaits(v))
  BY <1>1, <1>2, OrderedConcat, HasConcat DEF Awaits
<1> HIDE DEF v
<1>4. w \in Programs /\ Ordered(w) /\ (journal.journaled \/ Awaits(w))
  BY <1>2, <1>3, OrderedConcat, HasConcat DEF Awaits
<1>5. RestateRun(t, journal) = ArmedWith(w, t.barrier)
  BY DEF RestateRun, w, v, u
<1> HIDE DEF w
<1>6. QED
  BY <1>4, <1>5, OrderedArmed

\* The steps of the fixture's workflow, and where the charge is among them.
StepSteps == {"start_step", "prepareIdentity", "charge", "sentinel"}

LEMMA VercelSteps ==
  ASSUME NEW t
  PROVE  /\ Steps(t) = IF TwoPhase(t) THEN <<"prepareIdentity", "charge", "sentinel">>
                       ELSE <<"charge", "sentinel">>
         /\ Len(Steps(t)) = ChargeAt(t) + 1 /\ ChargeAt(t) \in {1, 2}
         /\ Steps(t)[ChargeAt(t)] = "charge" /\ Steps(t)[ChargeAt(t) + 1] = "sentinel"
         /\ \A n \in 1 .. Len(Steps(t)) :
              /\ Steps(t)[n] \in {"prepareIdentity", "charge", "sentinel"}
              /\ n < ChargeAt(t) => Steps(t)[n] = "prepareIdentity"
<1>1. /\ <<"prepareIdentity">> \o <<"charge", "sentinel">>
           = <<"prepareIdentity", "charge", "sentinel">>
      /\ << >> \o <<"charge", "sentinel">> = <<"charge", "sentinel">>
  BY OneThenTwo
<1>2. Steps(t) = IF TwoPhase(t) THEN <<"prepareIdentity", "charge", "sentinel">>
                 ELSE <<"charge", "sentinel">>
  BY <1>1 DEF Steps
<1>3. CASE TwoPhase(t)
  BY <1>2, <1>3 DEF ChargeAt
<1>4. CASE ~ TwoPhase(t)
  BY <1>2, <1>4 DEF ChargeAt
<1>5. QED
  BY <1>2, <1>3, <1>4

\* A replay starts the steps left, one after the other.
LEMMA VercelReplay ==
  ASSUME NEW t \in Trials, NEW world, Len(world.completed) \in 0 .. Len(Steps(t))
  PROVE  LET s == Replay(t, world) IN
         /\ s \in Programs /\ Ordered(s)
         /\ Len(s) = Len(Steps(t)) - Len(world.completed)
         /\ \A n \in 1 .. Len(s) : s[n] = "start_step"
<1> DEFINE k == Len(Steps(t)) - Len(world.completed)
           s == Replay(t, world)
<1>1. k \in Nat
  BY VercelSteps
<1>2. s = [n \in 1 .. k |-> "start_step"]
  BY DEF Replay
<1>3. "start_step" \in Label /\ "start_step" \notin CommitSteps
  BY Labels DEF CommitSteps
<1> HIDE DEF k, s
<1>4. s \in Programs /\ Len(s) = k /\ \A n \in 1 .. Len(s) : s[n] = "start_step"
  BY <1>1, <1>2, <1>3 DEF Programs
<1>5. Ordered(s)
  BY <1>3, <1>4, UncommittedOrdered DEF Has
<1>6. QED
  BY <1>4, <1>5 DEF k, s

\* What the process may have left to write of the claim on a step.
ClaimLeft == {<< >>, <<"write_created">>, <<"link_claim", "write_created">>}

\* A step's body, alone or with writes of its claim.
LEMMA VercelBodies ==
  ASSUME NEW step \in {"prepareIdentity", "charge", "sentinel"}, NEW b, NEW v \in ClaimLeft,
         NEW body \in Interleavings(v, StepBody(step)) \cup {StepBody(step)}
  PROVE  LET s == ArmedWith(body, b) IN
         /\ s \in Programs /\ Ordered(s)
         /\ step = "charge" => Awaits(s)
         /\ ~ Has(StepSteps, s)
<1> DEFINE w == StepBody(step)
<1>1. v \in Programs /\ Ordered(v) /\ ~ Has(StepSteps, v)
  <2>1. CASE v = << >>
    BY <2>1, NothingOrdered
  <2>2. CASE v = <<"write_created">>
    BY <2>2, Labels DEF Programs, Ordered, Before, CommitSteps, Has, StepSteps
  <2>3. CASE v = <<"link_claim", "write_created">>
    BY <2>3, Labels DEF Programs, Ordered, Before, CommitSteps, Has, StepSteps
  <2>4. QED
    BY <2>1, <2>2, <2>3 DEF ClaimLeft
<1>2. w \in Programs /\ Ordered(w) /\ ~ Has(StepSteps, w) /\ (step = "charge" => Awaits(w))
  BY Labels, NothingOrdered
     DEF StepBody, Programs, Ordered, Before, CommitSteps, Has, StepSteps, Awaits
<1> HIDE DEF w
<1>3. body \in Programs /\ Ordered(body) /\ ~ Has(StepSteps, body)
      /\ (step = "charge" => Awaits(body))
  <2>1. CASE body = w
    BY <1>2, <2>1
  <2>2. CASE body \in Interleavings(v, w)
    BY <1>1, <1>2, <2>2, MergePlaces, HasMerge, BeforeMerge DEF Ordered, Awaits
  <2>3. QED
    BY <2>1, <2>2 DEF w
<1>4. QED
  BY <1>3, OrderedArmed, HasArmed

LEMMA TrueForgePrograms ==
  ASSUME NEW turns, NEW order \in Interleavings(<<"answer_create">>, ModelResponse(turns))
  PROVE  /\ order \in Programs
         /\ "tool.response" \in turns.first.events \/ (Ordered(order) /\ Awaits(order))
<1> DEFINE v == <<"answer_create">>
           w == ModelResponse(turns)
           tool == "tool.response" \in turns.first.events
<1>1. v \in Programs /\ Ordered(v)
  BY Labels DEF Programs, Ordered, Before, CommitSteps
<1>2. w \in Programs /\ (tool \/ (Ordered(w) /\ Awaits(w)))
  BY Labels
     DEF ModelResponse, Programs, Ordered, Before, CommitSteps, Has, Awaits, ReceiverBarrier
<1> HIDE DEF v, w, tool
<1>3. order \in Interleavings(v, w)
  BY DEF v, w
<1>4. order \in Programs /\ (tool \/ (Ordered(order) /\ Awaits(order)))
  BY <1>1, <1>2, <1>3, MergePlaces, HasMerge, BeforeMerge DEF Ordered, Awaits
<1>5. QED
  BY <1>4 DEF tool

-----------------------------------------------------------------------------
(***************************************************************************)
(* What a running process's program and its runtime's durable state say of *)
(* each other, trial by trial: t is the trial, h where the harness is, s   *)
(* the program and d the durable state.                                    *)
(***************************************************************************)
Accepted == {<< >>, <<"accepted">>}

\* The admission is read once, and completed once it was read as accepted.
LangGraphAt(t, h, s, d) ==
  /\ d \in LangGraphDisk
  /\ h \in {"idle", "crash_run"} => d.events \in Accepted /\ ~ Has(AdmissionSteps, s)
  /\ Has({"read_admission"}, s) => d.events \in Accepted
  /\ AtMostOnce({"read_admission"}, s) /\ AtMostOnce({"completed"}, s)
  /\ Has({"completed"}, s) => /\ d.events = <<"accepted", "recovery_required">>
                              /\ ~ Has({"read_admission"}, s)
  /\ d.events # << >> => t.mode \in AdmissionArms

DbosAt(t, s, d) ==
  /\ d \in DbosDisk
  /\ AtMostOnce({"prepare_identity_step"}, s)
  /\ Has({"prepare_identity_step"}, s) => TwoPhase(t)
  /\ Has({"send_billing", "send_shipping"}, s) => DuplicateName(t)

\* An activity is pending only while one is left to be done.
TemporalAt(t, d) ==
  /\ d \in TemporalDisk
  /\ d.next <= Len(Activities(t))
  /\ d.act # "none" => d.next < Len(Activities(t))

\* As many steps are left to start, or to complete, as are not completed.
VercelAt(t, s, d) ==
  /\ d \in VercelDisk /\ Len(d.completed) \in 0 .. Len(Steps(t))
  /\ \/ s \in {<< >>, <<"kill">>, <<"hang">>}
     \/ LET left == Len(Steps(t)) - Len(d.completed)
            at == Len(s) - left + 1 IN
          /\ at >= 1
          /\ \A n \in 1 .. Len(s) :
               /\ n < at => s[n] \notin StepSteps
               /\ n = at => s[n] \in {"start_step", Steps(t)[Len(d.completed) + 1]}
               /\ n > at => s[n] = "start_step"

StateAt(t, h, s, d) ==
  /\ s \in Programs
  /\ t.engine = "langgraph" => LangGraphAt(t, h, s, d)
  /\ t.engine = "dbos" => DbosAt(t, s, d)
  /\ t.engine = "temporal" => TemporalAt(t, d)
  /\ t.engine = "restate" => d \in RestateDisk
  /\ t.engine = "vercel" => VercelAt(t, s, d)
  /\ t.engine = "trueforge" => d \in TrueForgeDisk

\* What tells the next process that the effect was performed.
Durable(t, d) ==
  CASE t.engine = "langgraph" -> d.writes \/ d.checkpoint = "done"
    [] t.engine = "dbos" -> Len(d.outputs) >= ChargeAt(t) \/ d.wf = "SUCCESS"
    [] t.engine = "temporal" -> d.next >= 1 \/ d.wf = "closed"
    [] t.engine = "restate" -> d.journaled
    [] t.engine = "vercel" -> Len(d.completed) >= ChargeAt(t)
    [] t.engine = "trueforge" -> "tool.response" \in d.first.events \cup d.retry.events

LEMMA VercelDurable ==
  ASSUME NEW t, t.engine = "vercel", NEW d
  PROVE  Durable(t, d) <=> Len(d.completed) >= ChargeAt(t)
BY Zenon DEF Durable

\* The steps one of which a recovery has before it, as long as the effect has not
\* been performed: none that ends in success gets past them all.
Leads(t, d) ==
  CASE t.engine = "langgraph" ->
         {"await"} \cup (IF HarnessOf(t) = "matrix" THEN {"empty_input"} ELSE {})
                   \cup (IF d.events # << >> THEN {"read_admission"} ELSE {})
    [] t.engine = "dbos" -> {"await", "no_workflow"}
    [] t.engine = "temporal" -> {"poll"}
    [] t.engine = "restate" -> {"await", "kill"}
    [] t.engine = "vercel" -> {"await", "kill", "hang", "start_step"}
    [] t.engine = "trueforge" -> {"await", "kill", "create_turn"}

\* A key still to be prepared is the first thing a workflow records.
Unprepared(t, s, d) ==
  t.engine = "dbos" /\ Has({"prepare_identity_step"}, s) => d.outputs = << >>

\* As long as the effect is not made nothing is committed, nothing will be before
\* the ledger has answered, and a recovery is bound to make it, unless the run is
\* lost.
OrderAt(t, h, made, lost, s, d) ==
  /\ made \/ (~ Durable(t, d) /\ Ordered(s) /\ Unprepared(t, s, d))
  /\ h = "recovery_run" => made \/ lost \/ Has(Leads(t, d), s)

RunAt(t, h, made, lost, s, d) == StateAt(t, h, s, d) /\ OrderAt(t, h, made, lost, s, d)

LEMMA StateDisk ==
  ASSUME NEW t \in Trials, NEW h, NEW s, NEW d, StateAt(t, h, s, d)
  PROVE  d \in EngineDisk(t)
BY EngineRow DEF StateAt, LangGraphAt, DbosAt, TemporalAt, VercelAt, EngineDisk

\* A process that is gone leaves the durable state as it was.
LEMMA StateEmptied ==
  ASSUME NEW t \in Trials, NEW h, NEW s, NEW d, StateAt(t, h, s, d), NEW i, i \in {h, "failed"}
  PROVE  StateAt(t, i, << >>, d)
<1>1. << >> \in Programs /\ \A X : ~ Has(X, << >>) /\ AtMostOnce(X, << >>)
  BY NothingOrdered DEF AtMostOnce
<1>2. QED
  BY <1>1 DEF StateAt, LangGraphAt, DbosAt, TemporalAt, VercelAt

LEMMA VercelTail ==
  ASSUME NEW t \in Trials, NEW s \in Programs, s # << >>, NEW d, VercelAt(t, s, d),
         Head(s) \notin StepSteps \cup {"kill", "hang"},
         NEW e, e \in VercelDisk, e.completed = d.completed
  PROVE  VercelAt(t, Tail(s), e)
<1> DEFINE left == Len(Steps(t)) - Len(d.completed)
           at == Len(s) - left + 1
           u == Tail(s)
<1>1. /\ Len(s) \in Nat \ {0} /\ Len(u) = Len(s) - 1 /\ Head(s) = s[1]
      /\ \A n \in 1 .. Len(s) - 1 : u[n] = s[n + 1]
  BY TailElements DEF Programs
<1>2. /\ at >= 1 /\ left \in Int
      /\ \A n \in 1 .. Len(s) :
           /\ n < at => s[n] \notin StepSteps
           /\ n = at => s[n] \in {"start_step", Steps(t)[Len(d.completed) + 1]}
           /\ n > at => s[n] = "start_step"
  <2>1. s \notin {<< >>, <<"kill">>, <<"hang">>}
    OBVIOUS
  <2>2. Len(Steps(t)) \in Nat /\ Len(d.completed) \in Nat
    BY VercelSteps DEF VercelAt
  <2>3. QED
    BY <2>1, <2>2 DEF VercelAt
<1>3. at # 1
  <2>1. SUFFICES ASSUME at = 1 PROVE FALSE
    OBVIOUS
  <2>2. s[1] \in {"start_step", Steps(t)[Len(d.completed) + 1]}
    BY <1>1, <1>2, <2>1
  <2>3. left = Len(s)
    BY <1>1, <1>2, <2>1
  <2>4. Len(d.completed) + 1 \in 1 .. Len(Steps(t))
    BY <1>1, <2>3, VercelSteps DEF VercelAt
  <2>5. Steps(t)[Len(d.completed) + 1] \in StepSteps
    BY <2>4, VercelSteps DEF StepSteps
  <2>6. QED
    BY <1>1, <2>2, <2>5 DEF StepSteps
<1> HIDE DEF left, at, u
<1>4. at \in Int /\ at >= 2 /\ Len(u) - left + 1 = at - 1
  BY <1>1, <1>2, <1>3 DEF at
<1>5. \A n \in 1 .. Len(u) :
        /\ n < at - 1 => u[n] \notin StepSteps
        /\ n = at - 1 => u[n] \in {"start_step", Steps(t)[Len(d.completed) + 1]}
        /\ n > at - 1 => u[n] = "start_step"
  <2> SUFFICES ASSUME NEW n \in 1 .. Len(u)
               PROVE  /\ n < at - 1 => u[n] \notin StepSteps
                      /\ n = at - 1 => u[n] \in {"start_step", Steps(t)[Len(d.completed) + 1]}
                      /\ n > at - 1 => u[n] = "start_step"
    OBVIOUS
  <2>1. n + 1 \in 1 .. Len(s) /\ u[n] = s[n + 1] /\ n \in Int
    BY <1>1
  <2>2. /\ n < at - 1 <=> n + 1 < at
        /\ n = at - 1 <=> n + 1 = at
        /\ n > at - 1 <=> n + 1 > at
    BY <1>4, <2>1
  <2>3. QED
    BY <1>2, <2>1, <2>2
<1>6. QED
  BY <1>4, <1>5 DEF VercelAt, left, u

\* A step that touches nothing leaves the rest of its program to be taken.
LEMMA StateTail ==
  ASSUME NEW t \in Trials, NEW h, NEW s, s # << >>, NEW d, StateAt(t, h, s, d),
         t.engine = "vercel" => Head(s) \notin StepSteps \cup {"kill", "hang"}
  PROVE  StateAt(t, h, Tail(s), d)
<1>1. s \in Programs
  BY DEF StateAt
<1>2. /\ Tail(s) \in Programs
      /\ \A X : Has(X, Tail(s)) => Has(X, s)
      /\ \A X : AtMostOnce(X, s) => AtMostOnce(X, Tail(s))
  BY <1>1, TailElements, HasTail, OnceTail DEF Programs
<1>3. t.engine = "langgraph" => LangGraphAt(t, h, Tail(s), d)
  BY <1>2 DEF StateAt, LangGraphAt
<1>4. t.engine = "dbos" => DbosAt(t, Tail(s), d)
  BY <1>2 DEF StateAt, DbosAt
<1>5. t.engine = "vercel" => VercelAt(t, Tail(s), d)
  <2>1. SUFFICES ASSUME t.engine = "vercel" PROVE VercelAt(t, Tail(s), d)
    OBVIOUS
  <2>2. VercelAt(t, s, d) /\ d \in VercelDisk
    BY <2>1 DEF StateAt, VercelAt
  <2>3. QED
    BY <1>1, <2>1, <2>2, VercelTail
<1>6. QED
  BY <1>2, <1>3, <1>4, <1>5 DEF StateAt

LEMMA OrderTail ==
  ASSUME NEW t, NEW h, NEW made \in BOOLEAN, NEW lost \in BOOLEAN, NEW s \in Programs, s # << >>,
         NEW d, NEW e, OrderAt(t, h, made, lost, s, d),
         made \/ (/\ Head(s) # "await" /\ ~ Durable(t, e) /\ Leads(t, d) \subseteq Leads(t, e)
                  /\ Unprepared(t, Tail(s), e)),
         made \/ lost \/ h # "recovery_run" \/ Head(s) \notin Leads(t, d)
  PROVE  OrderAt(t, h, made, lost, Tail(s), e)
<1>1. SUFFICES ASSUME ~ made PROVE OrderAt(t, h, made, lost, Tail(s), e)
  BY DEF OrderAt
<1>2. Ordered(Tail(s))
  BY <1>1, BeforeTail DEF OrderAt, Ordered
<1>3. h = "recovery_run" => lost \/ Has(Leads(t, d), Tail(s))
  BY <1>1, HasTail DEF OrderAt
<1>4. Has(Leads(t, d), Tail(s)) => Has(Leads(t, e), Tail(s))
  BY <1>1 DEF Has
<1>5. QED
  BY <1>1, <1>2, <1>3, <1>4 DEF OrderAt

\* What is committed was made.
LEMMA CommitMade ==
  ASSUME NEW t, NEW h, NEW made \in BOOLEAN, NEW lost, NEW s \in Programs, s # << >>,
         NEW d, OrderAt(t, h, made, lost, s, d), Head(s) \in CommitSteps
  PROVE  made
<1>1. Head(s) \notin {"await"}
  BY DEF CommitSteps
<1>2. QED
  BY <1>1, BeforeTail DEF OrderAt, Ordered

\* No barrier is any other step.
LEMMA BarrierSteps ==
  ASSUME NEW t \in Trials
  PROVE  /\ t.barrier \notin CommitSteps \cup StepSteps \cup AdmissionSteps
         /\ t.barrier \notin {"await", "send", "poll", "kill", "hang", "empty_input",
                              "no_workflow", "create_turn"}
<1>1. t.barrier \in Barrier \cup HiddenBarrier
  BY EngineRow
<1>2. t.barrier \in {"b0", "b1", "b2", ReceiverBarrier} \cup DOMAIN HiddenPredictions
  BY <1>1 DEF Barrier, HiddenBarrier
<1>3. QED
  BY <1>2 DEF ReceiverBarrier, HiddenPredictions, CommitSteps, StepSteps, AdmissionSteps

LEMMA LeadSteps ==
  ASSUME NEW t \in Trials, NEW d
  PROVE  /\ Leads(t, d) \subseteq {"await", "empty_input", "read_admission", "no_workflow",
                                   "poll", "kill", "hang", "start_step", "create_turn"}
         /\ t.barrier \notin Leads(t, d)
<1>1. Leads(t, d) \subseteq {"await", "empty_input", "read_admission", "no_workflow",
                             "poll", "kill", "hang", "start_step", "create_turn"}
  BY EngineRow DEF Leads
<1>2. QED
  BY <1>1, BarrierSteps DEF StepSteps, AdmissionSteps

-----------------------------------------------------------------------------
(***************************************************************************)
(* One step of each engine's process.  made says whether the effect has    *)
(* been performed and lost whether the run may be; neither changes in such *)
(* a step.                                                                 *)
(***************************************************************************)
GoesOn(made, lost) == exit' = "running" /\ RunAt(trial, harness, made, lost, todo', disk')
Ends == exit' \in {"killed", "error"} /\ todo' = << >> /\ disk' = disk

LEMMA PersistsRuns ==
  ASSUME NEW made \in BOOLEAN, NEW lost \in BOOLEAN,
         RunAt(trial, harness, made, lost, todo, disk),
         NEW step, Running(step), step # "await", NEW files, Persists(files),
         StateAt(trial, harness, Tail(todo), files),
         made \/ (/\ ~ Durable(trial, files) /\ Leads(trial, disk) \subseteq Leads(trial, files)
                  /\ step \notin Leads(trial, disk) /\ Unprepared(trial, Tail(todo), files))
  PROVE  GoesOn(made, lost)
<1>1. /\ todo # << >> /\ Head(todo) = step /\ todo' = Tail(todo) /\ disk' = files
      /\ exit' = "running"
  BY DEF Running, Persists, Advance
<1>2. todo \in Programs /\ OrderAt(trial, harness, made, lost, todo, disk)
  BY DEF RunAt, StateAt
<1>3. OrderAt(trial, harness, made, lost, Tail(todo), files)
  BY <1>1, <1>2, OrderTail
<1>4. QED
  BY <1>1, <1>3 DEF GoesOn, RunAt

\* A step that passes on without a word.
LEMMA PassesBy ==
  ASSUME trial \in Trials, NEW made \in BOOLEAN, NEW lost \in BOOLEAN,
         RunAt(trial, harness, made, lost, todo, disk),
         todo # << >>, Head(todo) \notin StepSteps \cup {"kill", "hang"},
         todo' = Tail(todo), disk' = disk, exit' = "running",
         made \/ Head(todo) \notin {"await"} \cup Leads(trial, disk)
  PROVE  GoesOn(made, lost)
<1>1. todo \in Programs /\ OrderAt(trial, harness, made, lost, todo, disk)
  BY DEF RunAt, StateAt
<1>2. StateAt(trial, harness, Tail(todo), disk)
  BY StateTail DEF RunAt
<1>3. made \/ Unprepared(trial, Tail(todo), disk)
  BY <1>1, HasTail DEF OrderAt, Unprepared, Programs
<1>4. OrderAt(trial, harness, made, lost, Tail(todo), disk)
  BY <1>1, <1>3, OrderTail DEF OrderAt
<1>5. QED
  BY <1>2, <1>4 DEF GoesOn, RunAt

LEMMA KillRuns ==
  ASSUME trial \in Trials, NEW made \in BOOLEAN, NEW lost \in BOOLEAN,
         RunAt(trial, harness, made, lost, todo, disk),
         NEW armed, KillSelf(armed)
  PROVE  Ends \/ GoesOn(made, lost)
<1>1. /\ exit = "running" /\ todo # << >> /\ Head(todo) = trial.barrier /\ disk' = disk
      /\ \/ todo' = << >> /\ exit' = "killed"
         \/ todo' = Tail(todo) /\ exit' = exit
  BY DEF KillSelf, Running, ExitWith, Advance
<1>2. CASE todo' = << >> /\ exit' = "killed"
  BY <1>1, <1>2 DEF Ends
<1>3. CASE todo' = Tail(todo) /\ exit' = exit
  BY <1>1, <1>3, BarrierSteps, LeadSteps, PassesBy
<1>4. QED
  BY <1>1, <1>2, <1>3

LEMMA RaiseEnds ==
  ASSUME NEW step, Raise(step)
  PROVE  Ends
BY DEF Raise, ExitWith, Ends

\* The step an engine takes commits what was made.
LEMMA CommitRuns ==
  ASSUME NEW made \in BOOLEAN, NEW lost, RunAt(trial, harness, made, lost, todo, disk),
         NEW step \in CommitSteps, Running(step)
  PROVE  made
<1>1. todo \in Programs /\ OrderAt(trial, harness, made, lost, todo, disk)
  BY DEF RunAt, StateAt
<1>2. QED
  BY <1>1, CommitMade DEF Running

-----------------------------------------------------------------------------
(***************************************************************************)
(* LangGraph.                                                              *)
(***************************************************************************)
LEMMA LangGraphDisks ==
  ASSUME NEW d \in LangGraphDisk
  PROVE  /\ [d EXCEPT !.checkpoint = "entry", !.writes = FALSE] \in LangGraphDisk
         /\ [d EXCEPT !.checkpoint = "prepared"] \in LangGraphDisk
         /\ [d EXCEPT !.checkpoint = "done"] \in LangGraphDisk
         /\ [d EXCEPT !.writes = TRUE] \in LangGraphDisk
         /\ [d EXCEPT !.report = @ \cup {"EmptyInputError"}] \in LangGraphDisk
<1>1. [d EXCEPT !.checkpoint = "entry", !.writes = FALSE] \in LangGraphDisk
  BY DEF LangGraphDisk
<1>2. [d EXCEPT !.checkpoint = "prepared"] \in LangGraphDisk
  BY DEF LangGraphDisk
<1>3. [d EXCEPT !.checkpoint = "done"] \in LangGraphDisk
  BY DEF LangGraphDisk
<1>4. [d EXCEPT !.writes = TRUE] \in LangGraphDisk
  BY DEF LangGraphDisk
<1>5. [d EXCEPT !.report = @ \cup {"EmptyInputError"}] \in LangGraphDisk
  BY DEF LangGraphDisk
<1>6. QED
  BY <1>1, <1>2, <1>3, <1>4, <1>5

LEMMA AppendKeeps ==
  ASSUME NEW S, NEW u \in Seq(S), NEW y \in S
  PROVE  /\ Append(u, y) \in Seq(S) /\ Len(Append(u, y)) = Len(u) + 1
         /\ Append(u, y)[Len(u) + 1] = y
         /\ \A n \in 1 .. Len(u) : Append(u, y)[n] = u[n]
BY AppendProperties

LEMMA AppendTwo ==
  ASSUME NEW S, NEW u \in Seq(S), NEW y \in S, Len(u) = 1
  PROVE  Append(u, y) = <<u[1], y>>
<1>1. Append(u, y) \in Seq(S)
  BY AppendKeeps
<1>2. Len(Append(u, y)) = Len(u) + 1
  BY AppendKeeps
<1>3. Append(u, y)[Len(u) + 1] = y
  BY AppendKeeps
<1>4. \A n \in 1 .. Len(u) : Append(u, y)[n] = u[n]
  BY AppendKeeps
<1> DEFINE a == Append(u, y)
<1> HIDE DEF a
<1>5. 1 + 1 = 2 /\ 1 \in 1 .. 1
  OBVIOUS
<1>6. a \in Seq(S) /\ Len(a) = 2 /\ a[1] = u[1] /\ a[2] = y
  BY <1>1, <1>2, <1>3, <1>4, <1>5, Zenon DEF a
<1>7. a = <<u[1], y>>
  BY <1>6
<1>8. QED
  BY <1>7 DEF a

LEMMA AppendThree ==
  ASSUME NEW S, NEW u \in Seq(S), NEW y \in S
  PROVE  Len(u) = 2 => Append(u, y) = <<u[1], u[2], y>>
<1>1. Append(u, y) \in Seq(S)
  BY AppendKeeps
<1>2. Len(Append(u, y)) = Len(u) + 1
  BY AppendKeeps
<1>3. Append(u, y)[Len(u) + 1] = y
  BY AppendKeeps
<1>4. \A n \in 1 .. Len(u) : Append(u, y)[n] = u[n]
  BY AppendKeeps
<1> HAVE Len(u) = 2
<1> DEFINE a == Append(u, y)
<1> HIDE DEF a
<1>5. 2 + 1 = 3 /\ 1 \in 1 .. 2 /\ 2 \in 1 .. 2
  OBVIOUS
<1>6. a \in Seq(S) /\ Len(a) = 3 /\ a[1] = u[1] /\ a[2] = u[2] /\ a[3] = y
  BY <1>1, <1>2, <1>3, <1>4, <1>5, Zenon DEF a
<1>7. a = <<u[1], u[2], y>>
  BY <1>6
<1>8. QED
  BY <1>7 DEF a

LEMMA Appended ==
  /\ Append(<<"accepted">>, "recovery_required") = <<"accepted", "recovery_required">>
  /\ Append(<<"accepted", "recovery_required">>, "completed")
       = <<"accepted", "recovery_required", "completed">>
<1> DEFINE S == {"accepted", "recovery_required", "completed"}
           u == <<"accepted">>
           v == <<"accepted", "recovery_required">>
<1>1. /\ u \in Seq(S) /\ Len(u) = 1 /\ u[1] = "accepted" /\ v \in Seq(S) /\ Len(v) = 2
      /\ v[1] = "accepted" /\ v[2] = "recovery_required"
      /\ "recovery_required" \in S /\ "completed" \in S
  OBVIOUS
<1> HIDE DEF S, u, v
<1>2. /\ Append(u, "recovery_required") = <<"accepted", "recovery_required">>
      /\ Append(v, "completed") = <<"accepted", "recovery_required", "completed">>
  BY <1>1, AppendTwo, AppendThree
<1>3. QED
  BY <1>2, Zenon DEF u, v

LEMMA LangGraphPersists ==
  ASSUME trial \in Trials, trial.engine = "langgraph",
         NEW made \in BOOLEAN, NEW lost \in BOOLEAN,
         RunAt(trial, harness, made, lost, todo, disk),
         NEW step, Running(step), step \notin {"await"} \cup Leads(trial, disk),
         NEW files \in LangGraphDisk, Persists(files), files.events = disk.events,
         made \/ ~ Durable(trial, files)
  PROVE  GoesOn(made, lost)
<1>1. StateAt(trial, harness, todo, disk) /\ todo # << >>
  BY DEF RunAt, Running
<1>2. StateAt(trial, harness, Tail(todo), disk)
  BY <1>1, StateTail
<1>3. StateAt(trial, harness, Tail(todo), files)
  BY <1>2 DEF StateAt, LangGraphAt
<1>4. Leads(trial, files) = Leads(trial, disk)
  BY DEF Leads
<1>5. QED
  BY <1>3, <1>4, PersistsRuns DEF Unprepared

LEMMA LangGraphRaces ==
  ASSUME trial \in Trials, trial.engine = "langgraph",
         NEW made \in BOOLEAN, NEW lost \in BOOLEAN,
         RunAt(trial, harness, made, lost, todo, disk), Race
  PROVE  GoesOn(made, lost)
<1>1. /\ exit' = "running" /\ disk' = disk /\ todo # << >> /\ Head(todo) = "race"
  BY DEF Race, Running
<1>2. made
  <2>1. "race" \in CommitSteps /\ Running("race")
    BY DEF CommitSteps, Race
  <2>2. QED
    BY <2>1, CommitRuns
<1>3. PICK order \in Interleavings(<<"b1", "put_writes", "lg_pending_writes_after_persist">>,
                                   <<"put_done", "b2">>) :
        todo' = ArmedWith(order, Armed) \o Tail(todo)
  BY DEF Race
<1> DEFINE u == ArmedWith(order, Armed)
           w == Tail(todo)
<1>4. /\ u \in Programs /\ ~ Has(AdmissionSteps, u)
  BY RaceOrders
<1>5. StateAt(trial, harness, w, disk)
  BY <1>1, StateTail DEF RunAt
<1> HIDE DEF u, w
<1>6. ~ Has({"read_admission"}, u) /\ ~ Has({"completed"}, u)
  BY <1>4 DEF Has, AdmissionSteps
<1>7. AtMostOnce({"read_admission"}, u) /\ AtMostOnce({"completed"}, u)
  BY <1>6 DEF Has, AtMostOnce
<1>8. w \in Programs /\ LangGraphAt(trial, harness, w, disk)
  BY <1>5 DEF StateAt
<1>9. /\ u \o w \in Programs
      /\ Has(AdmissionSteps, u \o w) => Has(AdmissionSteps, w)
      /\ Has({"read_admission"}, u \o w) => Has({"read_admission"}, w)
      /\ Has({"completed"}, u \o w) => Has({"completed"}, w)
      /\ AtMostOnce({"read_admission"}, u \o w) /\ AtMostOnce({"completed"}, u \o w)
  BY <1>4, <1>6, <1>7, <1>8, ConcatPlaces, HasConcat, OnceConcat DEF LangGraphAt
<1>10. LangGraphAt(trial, harness, u \o w, disk)
  BY <1>8, <1>9 DEF LangGraphAt
<1>11. StateAt(trial, harness, u \o w, disk)
  BY <1>9, <1>10 DEF StateAt
<1>12. RunAt(trial, harness, made, lost, u \o w, disk)
  BY <1>2, <1>11 DEF RunAt, OrderAt
<1>13. QED
  BY <1>1, <1>3, <1>12 DEF GoesOn, u, w

LEMMA LangGraphReads ==
  ASSUME trial \in Trials, trial.engine = "langgraph",
         NEW made \in BOOLEAN, NEW lost \in BOOLEAN,
         RunAt(trial, harness, made, lost, todo, disk), ReadAdmission
  PROVE  GoesOn(made, lost)
<1>1. /\ exit' = "running" /\ todo # << >> /\ Head(todo) = "read_admission"
  BY DEF ReadAdmission, Running
<1>2. /\ todo \in Programs /\ LangGraphAt(trial, harness, todo, disk)
      /\ OrderAt(trial, harness, made, lost, todo, disk)
      /\ StateAt(trial, harness, todo, disk)
  BY DEF RunAt, StateAt
<1>3. CASE disk.events = << >>
  <2>1. todo' = Tail(todo) /\ disk' = disk
    BY <1>3 DEF ReadAdmission, Advance
  <2>2. Head(todo) \notin {"await"} \cup Leads(trial, disk)
    BY <1>1, <1>3 DEF Leads
  <2>3. QED
    BY <1>1, <2>1, <2>2, PassesBy DEF StepSteps
<1>4. CASE disk.events # << >>
  <2> DEFINE u == ArmedWith(InvokeInput(trial), "none")
             v == u \o Completed
             w == Tail(todo)
             files == [disk EXCEPT !.events = Append(@, "recovery_required")]
  <2>1. todo' = v \o w /\ disk' = files
    BY <1>4 DEF ReadAdmission
  <2>2. /\ Has({"read_admission"}, todo) /\ Has(AdmissionSteps, todo)
    <3>1. 1 \in 1 .. Len(todo) /\ todo[1] = "read_admission"
      BY <1>1, <1>2, TailElements DEF Programs
    <3>2. QED
      BY <3>1 DEF Has, AdmissionSteps
  <2>3. /\ disk.events = <<"accepted">> /\ ~ Has({"completed"}, todo)
        /\ harness \notin {"idle", "crash_run"} /\ trial.mode \in AdmissionArms
    BY <1>2, <1>4, <2>2 DEF LangGraphAt, Accepted
  <2>4. /\ w \in Programs /\ ~ Has({"completed"}, w) /\ ~ Has({"read_admission"}, w)
    BY <1>1, <1>2, <2>3, TailElements, HasTail, OnceTail DEF Programs, LangGraphAt
  <2>5. Append(<<"accepted">>, "recovery_required") = <<"accepted", "recovery_required">>
    BY Appended
  <2>6. files \in LangGraphDisk /\ files.events = <<"accepted", "recovery_required">>
        /\ files.writes = disk.writes /\ files.checkpoint = disk.checkpoint
    BY <1>2, <2>3, <2>5 DEF LangGraphAt, LangGraphDisk
  <2>7. /\ u \in Programs /\ Ordered(u) /\ Awaits(u) /\ ~ Has(AdmissionSteps, u)
    BY LangGraphInput
  <2>8. /\ Completed \in Programs /\ Has({"completed"}, Completed)
        /\ ~ Has({"read_admission"}, Completed) /\ AtMostOnce({"completed"}, Completed)
    BY Labels DEF Completed, Programs, Has, AtMostOnce
  <2> HIDE DEF u, w, files
  <2>9. /\ ~ Has({"read_admission"}, u) /\ ~ Has({"completed"}, u) /\ AtMostOnce({"completed"}, u)
    BY <2>7 DEF Has, AdmissionSteps, AtMostOnce
  <2>10. /\ v \in Programs /\ Ordered(v) /\ Awaits(v)
         /\ ~ Has({"read_admission"}, v) /\ AtMostOnce({"completed"}, v)
    BY <2>7, <2>8, <2>9, OrderedConcat, HasConcat, OnceConcat DEF Awaits
  <2> HIDE DEF v
  <2>11. AtMostOnce({"completed"}, w)
    BY <2>4 DEF Has, AtMostOnce
  <2>12. /\ v \o w \in Programs /\ Ordered(v \o w) /\ Awaits(v \o w)
         /\ ~ Has({"read_admission"}, v \o w) /\ AtMostOnce({"completed"}, v \o w)
    BY <2>4, <2>10, <2>11, OrderedConcat, HasConcat, OnceConcat DEF Awaits
  <2>13. AtMostOnce({"read_admission"}, v \o w)
    BY <2>12 DEF Has, AtMostOnce
  <2>14. LangGraphAt(trial, harness, v \o w, files)
    BY <2>3, <2>6, <2>12, <2>13 DEF LangGraphAt
  <2>15. StateAt(trial, harness, v \o w, files)
    BY <2>12, <2>14 DEF StateAt
  <2>16. Durable(trial, files) <=> Durable(trial, disk)
    BY <2>6 DEF Durable
  <2>17. Has(Leads(trial, files), v \o w)
    BY <2>12 DEF Leads, Awaits, Has
  <2>18. OrderAt(trial, harness, made, lost, v \o w, files)
    BY <1>2, <2>12, <2>16, <2>17 DEF OrderAt, Unprepared
  <2>19. QED
    BY <1>1, <2>1, <2>15, <2>18 DEF GoesOn, RunAt
<1>5. QED
  BY <1>3, <1>4

LEMMA LangGraphCompletes ==
  ASSUME trial \in Trials, trial.engine = "langgraph",
         NEW made \in BOOLEAN, NEW lost \in BOOLEAN,
         RunAt(trial, harness, made, lost, todo, disk), Complete
  PROVE  GoesOn(made, lost)
<1> DEFINE files == [disk EXCEPT !.events = Append(@, "completed"),
                                 !.report = @ \cup {"replayed"}]
           w == Tail(todo)
<1>1. /\ Running("completed") /\ Persists(files) /\ todo # << >> /\ Head(todo) = "completed"
  BY DEF Complete, Running
<1>2. /\ todo \in Programs /\ LangGraphAt(trial, harness, todo, disk)
      /\ OrderAt(trial, harness, made, lost, todo, disk)
  BY DEF RunAt, StateAt
<1>3. Has({"completed"}, todo) /\ Has(AdmissionSteps, todo)
  <2>1. 1 \in 1 .. Len(todo) /\ todo[1] = "completed"
    BY <1>1, <1>2, TailElements DEF Programs
  <2>2. QED
    BY <2>1 DEF Has, AdmissionSteps
<1>4. /\ disk.events = <<"accepted", "recovery_required">> /\ ~ Has({"read_admission"}, todo)
      /\ harness \notin {"idle", "crash_run"} /\ trial.mode \in AdmissionArms
  BY <1>2, <1>3 DEF LangGraphAt
<1>5. /\ w \in Programs /\ ~ Has({"completed"}, w) /\ ~ Has({"read_admission"}, w)
  BY <1>1, <1>2, <1>4, TailElements, HasTail, OnceTail DEF Programs, LangGraphAt
<1>6. Append(<<"accepted", "recovery_required">>, "completed")
        = <<"accepted", "recovery_required", "completed">>
  BY Appended
<1>7. /\ files \in LangGraphDisk /\ files.events = <<"accepted", "recovery_required", "completed">>
      /\ files.writes = disk.writes /\ files.checkpoint = disk.checkpoint
  BY <1>2, <1>4, <1>6 DEF LangGraphAt, LangGraphDisk
<1> HIDE DEF files, w
<1>8. AtMostOnce({"completed"}, w) /\ AtMostOnce({"read_admission"}, w)
  BY <1>5 DEF Has, AtMostOnce
<1>9. StateAt(trial, harness, w, files)
  BY <1>4, <1>5, <1>7, <1>8 DEF StateAt, LangGraphAt
<1>10. (Durable(trial, files) <=> Durable(trial, disk)) /\ Leads(trial, files) = Leads(trial, disk)
  BY <1>4, <1>7 DEF Durable, Leads
<1>11. "completed" \notin Leads(trial, disk)
  BY LeadSteps
<1>12. QED
  BY <1>1, <1>2, <1>9, <1>10, <1>11, PersistsRuns DEF w, OrderAt, Unprepared

LEMMA LangGraphStep ==
  ASSUME trial \in Trials, trial.engine = "langgraph",
         NEW made \in BOOLEAN, NEW lost \in BOOLEAN,
         RunAt(trial, harness, made, lost, todo, disk), LangGraphProcess
  PROVE  Ends \/ GoesOn(made, lost)
<1>1. disk \in LangGraphDisk /\ (made \/ ~ Durable(trial, disk))
  BY DEF RunAt, StateAt, LangGraphAt, OrderAt
<1>2. /\ disk.checkpoint \in {"none", "entry", "prepared", "done"} /\ disk.writes \in BOOLEAN
      /\ made \/ (disk.checkpoint # "done" /\ ~ disk.writes)
  BY <1>1 DEF LangGraphDisk, Durable
<1>3. CASE LangGraphKill
  BY <1>3, KillRuns DEF LangGraphKill
<1>4. ASSUME Running("put_entry"),
             Persists([disk EXCEPT !.checkpoint = "entry", !.writes = FALSE])
      PROVE  GoesOn(made, lost)
  <2> DEFINE files == [disk EXCEPT !.checkpoint = "entry", !.writes = FALSE]
  <2>1. files \in LangGraphDisk
    BY <1>1, LangGraphDisks, Zenon
  <2>2. files.events = disk.events /\ ~ Durable(trial, files)
    BY <1>1 DEF LangGraphDisk, Durable
  <2>3. "put_entry" \notin {"await"} \cup Leads(trial, disk)
    BY LeadSteps
  <2> HIDE DEF files
  <2>4. QED
    BY <1>4, <2>1, <2>2, <2>3, LangGraphPersists DEF files
<1>5. ASSUME Running("put_prepared"), Persists([disk EXCEPT !.checkpoint = "prepared"])
      PROVE  GoesOn(made, lost)
  <2> DEFINE files == [disk EXCEPT !.checkpoint = "prepared"]
  <2>1. files \in LangGraphDisk
    BY <1>1, LangGraphDisks, Zenon
  <2>2. files.events = disk.events /\ (made \/ ~ Durable(trial, files))
    BY <1>1, <1>2 DEF LangGraphDisk, Durable
  <2>3. "put_prepared" \notin {"await"} \cup Leads(trial, disk)
    BY LeadSteps
  <2> HIDE DEF files
  <2>4. QED
    BY <1>5, <2>1, <2>2, <2>3, LangGraphPersists DEF files
<1>6. ASSUME Running("put_done"), Persists([disk EXCEPT !.checkpoint = "done"])
      PROVE  GoesOn(made, lost)
  <2> DEFINE files == [disk EXCEPT !.checkpoint = "done"]
  <2>1. files \in LangGraphDisk
    BY <1>1, LangGraphDisks, Zenon
  <2>2. files.events = disk.events
    BY <1>1 DEF LangGraphDisk
  <2>3. "put_done" \notin {"await"} \cup Leads(trial, disk) /\ "put_done" \in CommitSteps
    BY LeadSteps DEF CommitSteps
  <2> HIDE DEF files
  <2>4. QED
    BY <1>6, <2>1, <2>2, <2>3, CommitRuns, LangGraphPersists DEF files
<1>7. CASE PutWrites
  <2> DEFINE files == [disk EXCEPT !.writes = TRUE]
  <2>1. files \in LangGraphDisk
    BY <1>1, LangGraphDisks, Zenon
  <2>2. files.events = disk.events
    BY <1>1 DEF LangGraphDisk
  <2>3. "put_writes" \notin {"await"} \cup Leads(trial, disk) /\ "put_writes" \in CommitSteps
    BY LeadSteps DEF CommitSteps
  <2>4. Running("put_writes") /\ Persists(files)
    BY <1>7 DEF PutWrites
  <2> HIDE DEF files
  <2>5. QED
    BY <2>1, <2>2, <2>3, <2>4, CommitRuns, LangGraphPersists
<1>8. CASE EmptyInput
  <2>1. CASE Raise("empty_input")
    BY <2>1, RaiseEnds
  <2>2. CASE ~ Raise("empty_input")
    <3> DEFINE files == [disk EXCEPT !.report = @ \cup {"EmptyInputError"}]
    <3>1. HarnessOf(trial) # "matrix" /\ Running("empty_input") /\ Persists(files)
      BY <1>8, <2>2 DEF EmptyInput
    <3>2. files \in LangGraphDisk
      BY <1>1, LangGraphDisks, Zenon
    <3>3. files.events = disk.events /\ (Durable(trial, files) <=> Durable(trial, disk))
      BY <1>1 DEF LangGraphDisk, Durable
    <3>4. "empty_input" \notin {"await"} \cup Leads(trial, disk)
      BY <3>1 DEF Leads
    <3> HIDE DEF files
    <3>5. QED
      BY <1>1, <3>1, <3>2, <3>3, <3>4, LangGraphPersists
  <2>3. QED
    BY <2>1, <2>2
<1>9. QED
  BY <1>3, <1>4, <1>5, <1>6, <1>7, <1>8, LangGraphRaces, LangGraphReads, LangGraphCompletes
     DEF LangGraphProcess, PutCheckpoint

-----------------------------------------------------------------------------
(***************************************************************************)
(* DBOS.                                                                   *)
(***************************************************************************)
LEMMA DbosDisks ==
  ASSUME NEW d \in DbosDisk, NEW step \in StepName
  PROVE  /\ [d EXCEPT !.wf = "PENDING"] \in DbosDisk
         /\ [d EXCEPT !.wf = "SUCCESS"] \in DbosDisk
         /\ [d EXCEPT !.outputs = Append(@, step)] \in DbosDisk
<1>1. [d EXCEPT !.wf = "PENDING"] \in DbosDisk
  BY DEF DbosDisk
<1>2. [d EXCEPT !.wf = "SUCCESS"] \in DbosDisk
  BY DEF DbosDisk
<1>3. d.outputs \in Seq(StepName)
  BY DEF DbosDisk
<1>4. Append(d.outputs, step) \in Seq(StepName)
  BY <1>3, AppendProperties
<1>5. [d EXCEPT !.outputs = Append(@, step)] \in DbosDisk
  BY <1>4 DEF DbosDisk
<1>6. QED
  BY <1>1, <1>2, <1>5

\* An output committed before the charge is the prepared key's.
LEMMA DbosCommits ==
  ASSUME trial \in Trials, trial.engine = "dbos",
         NEW made \in BOOLEAN, NEW lost \in BOOLEAN,
         RunAt(trial, harness, made, lost, todo, disk), CommitOutput
  PROVE  GoesOn(made, lost)
<1>1. PICK step \in StepName : /\ Running(step)
                               /\ Persists([disk EXCEPT !.outputs = Append(@, step)])
  BY DEF CommitOutput
<1> DEFINE files == [disk EXCEPT !.outputs = Append(@, step)]
<1>2. /\ todo \in Programs /\ DbosAt(trial, todo, disk)
      /\ OrderAt(trial, harness, made, lost, todo, disk) /\ todo # << >> /\ Head(todo) = step
  BY <1>1 DEF RunAt, StateAt, Running
<1>3. disk \in DbosDisk
  BY <1>2 DEF DbosAt
<1>4. files \in DbosDisk
  BY <1>3, DbosDisks, Zenon
<1>5. disk.outputs \in Seq(StepName)
  BY <1>3 DEF DbosDisk
<1>6. /\ Len(Append(disk.outputs, step)) = Len(disk.outputs) + 1 /\ Len(disk.outputs) \in Nat
  BY <1>5, AppendProperties
<1>7. files.outputs = Append(disk.outputs, step) /\ files.wf = disk.wf
  BY <1>3 DEF DbosDisk
<1> HIDE DEF files
<1>8. StateAt(trial, harness, Tail(todo), disk)
  BY <1>1, <1>2, StateTail DEF RunAt, Running
<1>9. StateAt(trial, harness, Tail(todo), files)
  BY <1>4, <1>8 DEF StateAt, DbosAt
<1>10. step \notin {"await"} \cup Leads(trial, disk) /\ Leads(trial, files) = Leads(trial, disk)
  BY LeadSteps DEF StepName, Leads
<1>11. CASE made
  BY <1>1, <1>9, <1>10, <1>11, PersistsRuns DEF files
<1>12. CASE ~ made
  <2>1. step = "prepare_identity_step"
    <3>1. SUFFICES ASSUME step # "prepare_identity_step" PROVE FALSE
      OBVIOUS
    <3>2. step \in CommitSteps
      BY <3>1 DEF StepName, CommitSteps
    <3>3. QED
      BY <1>1, <1>12, <3>2, CommitRuns
  <2>2. Has({"prepare_identity_step"}, todo)
    BY <1>2, <2>1, HasTail DEF Programs
  <2>3. /\ TwoPhase(trial) /\ disk.outputs = << >> /\ disk.wf # "SUCCESS"
    BY <1>2, <1>12, <2>2 DEF DbosAt, OrderAt, Unprepared, Durable
  <2>4. ~ Has({"prepare_identity_step"}, Tail(todo))
    BY <1>2, <2>1, OnceTail DEF Programs, DbosAt
  <2>5. ~ DuplicateName(trial)
    BY <2>3, Bodies
  <2>6. ChargeAt(trial) = 2
    BY <2>3 DEF ChargeAt
  <2>7. Len(files.outputs) = 1
    BY <1>6, <1>7, <2>3
  <2>8. ~ Durable(trial, files)
    BY <1>7, <2>3, <2>6, <2>7 DEF Durable
  <2>9. QED
    BY <1>1, <1>9, <1>10, <2>4, <2>8, PersistsRuns DEF files, Unprepared
<1>13. QED
  BY <1>11, <1>12

LEMMA DbosStep ==
  ASSUME trial \in Trials, trial.engine = "dbos",
         NEW made \in BOOLEAN, NEW lost \in BOOLEAN,
         RunAt(trial, harness, made, lost, todo, disk), DbosProcess, ~ SendCharge
  PROVE  Ends \/ GoesOn(made, lost)
<1>1. /\ todo \in Programs /\ DbosAt(trial, todo, disk) /\ disk \in DbosDisk
      /\ OrderAt(trial, harness, made, lost, todo, disk)
  BY DEF RunAt, StateAt, DbosAt
<1>2. made \/ (Len(disk.outputs) < ChargeAt(trial) /\ disk.wf # "SUCCESS")
  <2>1. Len(disk.outputs) \in Nat /\ ChargeAt(trial) \in Nat
    BY <1>1 DEF DbosDisk, ChargeAt
  <2>2. QED
    BY <1>1, <2>1 DEF OrderAt, Durable
<1>3. CASE KillSelf(TRUE)
  BY <1>3, KillRuns
<1>4. CASE Enqueue
  <2> DEFINE files == [disk EXCEPT !.wf = "PENDING"]
  <2>1. files \in DbosDisk
    BY <1>1, DbosDisks, Zenon DEF StepName
  <2>2. files.outputs = disk.outputs /\ files.wf = "PENDING"
    BY <1>1 DEF DbosDisk
  <2>3. Running("enqueue") /\ Persists(files) /\ todo # << >> /\ Head(todo) = "enqueue"
    BY <1>4 DEF Enqueue, Running
  <2> HIDE DEF files
  <2>4. StateAt(trial, harness, Tail(todo), disk)
    BY <2>3, StateTail DEF RunAt
  <2>5. StateAt(trial, harness, Tail(todo), files)
    BY <2>1, <2>4 DEF StateAt, DbosAt
  <2>6. /\ "enqueue" \notin {"await"} \cup Leads(trial, disk)
        /\ Leads(trial, files) = Leads(trial, disk)
    BY LeadSteps DEF Leads
  <2>7. made \/ (~ Durable(trial, files) /\ Unprepared(trial, Tail(todo), files))
    BY <1>1, <2>2, <2>3, HasTail DEF Durable, OrderAt, Unprepared, Programs
  <2>8. QED
    BY <2>3, <2>5, <2>6, <2>7, PersistsRuns
<1>5. CASE CommitOutcome
  <2> DEFINE files == [disk EXCEPT !.wf = "SUCCESS"]
  <2>1. files \in DbosDisk
    BY <1>1, DbosDisks, Zenon DEF StepName
  <2>2. /\ Running("commit_outcome") /\ Persists(files)
        /\ todo # << >> /\ Head(todo) = "commit_outcome"
    BY <1>5 DEF CommitOutcome, Running
  <2> HIDE DEF files
  <2>3. StateAt(trial, harness, Tail(todo), disk)
    BY <2>2, StateTail DEF RunAt
  <2>4. StateAt(trial, harness, Tail(todo), files)
    BY <2>1, <2>3 DEF StateAt, DbosAt
  <2>5. made
    BY <2>2, CommitRuns DEF CommitSteps
  <2>6. QED
    BY <2>2, <2>4, <2>5, PersistsRuns
<1>6. CASE Raise("no_workflow")
  BY <1>6, RaiseEnds
<1>7. QED
  BY <1>3, <1>4, <1>5, <1>6, DbosCommits DEF DbosProcess

-----------------------------------------------------------------------------
(***************************************************************************)
(* Temporal.                                                               *)
(***************************************************************************)
LEMMA TemporalDisks ==
  ASSUME NEW d \in TemporalDisk
  PROVE  /\ [d EXCEPT !.wf = "open", !.wft = "ready"] \in TemporalDisk
         /\ [d EXCEPT !.wft = "taken"] \in TemporalDisk
         /\ [d EXCEPT !.wft = "none", !.act = "ready", !.attempt = 1] \in TemporalDisk
         /\ [d EXCEPT !.wft = "none", !.wf = "closed"] \in TemporalDisk
         /\ [d EXCEPT !.act = "taken"] \in TemporalDisk
         /\ [d EXCEPT !.wft = "ready", !.timedOut = TRUE] \in TemporalDisk
<1>1. [d EXCEPT !.wf = "open", !.wft = "ready"] \in TemporalDisk
  BY DEF TemporalDisk
<1>2. [d EXCEPT !.wft = "taken"] \in TemporalDisk
  BY DEF TemporalDisk
<1>3. 1 \in 1 .. MaxAttempts
  BY TemporalAssumption
<1>4. [d EXCEPT !.wft = "none", !.act = "ready", !.attempt = 1] \in TemporalDisk
  BY <1>3 DEF TemporalDisk
<1>5. [d EXCEPT !.wft = "none", !.wf = "closed"] \in TemporalDisk
  BY DEF TemporalDisk
<1>6. [d EXCEPT !.act = "taken"] \in TemporalDisk
  BY DEF TemporalDisk
<1>7. [d EXCEPT !.wft = "ready", !.timedOut = TRUE] \in TemporalDisk
  BY DEF TemporalDisk
<1>8. QED
  BY <1>1, <1>2, <1>4, <1>5, <1>6, <1>7

LEMMA TemporalActivities ==
  ASSUME NEW t
  PROVE  /\ Len(Activities(t)) \in {1, 2} /\ Activities(t)[1] = "effect"
         /\ Activities(t) \in {<<"effect">>, <<"effect", "sentinel">>}
BY DEF Activities

\* What the server and the worker record of one activity.
LEMMA TemporalAttempts ==
  ASSUME NEW t \in Trials, NEW d, TemporalAt(t, d)
  PROVE  /\ d.next < Len(Activities(t)) =>
              TemporalAt(t, [d EXCEPT !.wft = "none", !.act = "ready", !.attempt = 1])
         /\ d.act # "none" => TemporalAt(t, [d EXCEPT !.act = "taken"])
         /\ d.act # "none" /\ d.attempt < MaxAttempts =>
              /\ TemporalAt(t, [d EXCEPT !.act = "ready", !.attempt = @ + 1])
              /\ [d EXCEPT !.act = "ready", !.attempt = @ + 1].next = d.next
              /\ [d EXCEPT !.act = "ready", !.attempt = @ + 1].wf = d.wf
         /\ d.act # "none" =>
              TemporalAt(t, [d EXCEPT !.next = @ + 1, !.act = "none", !.wft = "ready",
                                      !.started = IF d.next = 0 THEN d.attempt ELSE @])
<1>1. /\ d \in TemporalDisk /\ d.next <= Len(Activities(t))
      /\ d.act # "none" => d.next < Len(Activities(t))
  BY DEF TemporalAt
<1>2. ASSUME d.next < Len(Activities(t))
      PROVE  TemporalAt(t, [d EXCEPT !.wft = "none", !.act = "ready", !.attempt = 1])
  <2> DEFINE e == [d EXCEPT !.wft = "none", !.act = "ready", !.attempt = 1]
  <2>1. e.next = d.next
    BY <1>1 DEF TemporalDisk
  <2>2. e \in TemporalDisk
    BY <1>1, TemporalDisks, Zenon
  <2>3. QED
    BY <1>1, <1>2, <2>1, <2>2 DEF TemporalAt
<1>3. ASSUME d.act # "none"
      PROVE  TemporalAt(t, [d EXCEPT !.act = "taken"])
  <2> DEFINE e == [d EXCEPT !.act = "taken"]
  <2>1. e.next = d.next
    BY <1>1 DEF TemporalDisk
  <2>2. e \in TemporalDisk
    BY <1>1, TemporalDisks, Zenon
  <2>3. QED
    BY <1>1, <1>3, <2>1, <2>2 DEF TemporalAt
<1>4. ASSUME d.act # "none", d.attempt < MaxAttempts
      PROVE  /\ TemporalAt(t, [d EXCEPT !.act = "ready", !.attempt = @ + 1])
             /\ [d EXCEPT !.act = "ready", !.attempt = @ + 1].next = d.next
             /\ [d EXCEPT !.act = "ready", !.attempt = @ + 1].wf = d.wf
  <2> DEFINE e == [d EXCEPT !.act = "ready", !.attempt = @ + 1]
  <2>1. e.next = d.next /\ e.wf = d.wf
    BY <1>1 DEF TemporalDisk
  <2>2. d.attempt + 1 \in 1 .. MaxAttempts
    BY <1>1, <1>4, TemporalAssumption DEF TemporalDisk
  <2>3. e \in TemporalDisk
    BY <1>1, <2>2 DEF TemporalDisk
  <2>4. QED
    BY <1>1, <1>4, <2>1, <2>3 DEF TemporalAt
<1>5. ASSUME d.act # "none"
      PROVE  TemporalAt(t, [d EXCEPT !.next = @ + 1, !.act = "none", !.wft = "ready",
                                     !.started = IF d.next = 0 THEN d.attempt ELSE @])
  <2> DEFINE n == IF d.next = 0 THEN d.attempt ELSE d.started
             e == [d EXCEPT !.next = @ + 1, !.act = "none", !.wft = "ready",
                            !.started = IF d.next = 0 THEN d.attempt ELSE @]
  <2>1. n \in 0 .. MaxAttempts
    BY <1>1, TemporalAssumption DEF TemporalDisk
  <2>2. d.next \in 0 .. 2 /\ d.next + 1 \in 0 .. 2 /\ d.next + 1 <= Len(Activities(t))
    <3>1. d.next \in 0 .. 2 /\ d.next < Len(Activities(t)) /\ Len(Activities(t)) \in {1, 2}
      BY <1>1, <1>5, TemporalActivities DEF TemporalDisk
    <3>2. \A i \in 0 .. 2, j \in {1, 2} : i < j => i + 1 \in 0 .. 2 /\ i + 1 <= j
      OBVIOUS
    <3>3. QED
      BY <3>1, <3>2, Zenon
  <2>3. e = [d EXCEPT !.next = d.next + 1, !.act = "none", !.wft = "ready", !.started = n]
    BY DEF n
  <2> HIDE DEF n
  <2>4. e.next = d.next + 1 /\ e.act = "none"
    BY <1>1 DEF TemporalDisk
  <2>5. e \in TemporalDisk
    BY <1>1, <2>1, <2>2, <2>3 DEF TemporalDisk
  <2>6. QED
    BY <2>2, <2>4, <2>5 DEF TemporalAt
<1>6. QED
  BY <1>2, <1>3, <1>4, <1>5

\* A task is taken ahead of the next poll.
LEMMA TemporalTakes ==
  ASSUME trial \in Trials, trial.engine = "temporal",
         NEW made \in BOOLEAN, NEW lost \in BOOLEAN,
         RunAt(trial, harness, made, lost, todo, disk),
         NEW files, NEW steps, Takes(files, steps),
         TemporalAt(trial, files), Durable(trial, files) => Durable(trial, disk),
         ArmedWith(steps, Armed) \in Programs, made \/ Ordered(ArmedWith(steps, Armed))
  PROVE  GoesOn(made, lost)
<1> DEFINE u == ArmedWith(steps, Armed)
<1>1. disk' = files /\ todo' = u \o todo /\ exit' = "running"
  BY DEF Takes, Running
<1>2. todo \in Programs /\ OrderAt(trial, harness, made, lost, todo, disk)
  BY DEF RunAt, StateAt
<1>3. u \o todo \in Programs
  BY <1>2, ConcatPlaces
<1>4. StateAt(trial, harness, u \o todo, files)
  BY <1>3 DEF StateAt
<1>5. made \/ Ordered(u \o todo)
  BY <1>2, OrderedConcat DEF OrderAt
<1>6. Has({"poll"}, todo) => Has({"poll"}, u \o todo)
  BY <1>2, HasConcat
<1>7. OrderAt(trial, harness, made, lost, u \o todo, files)
  BY <1>2, <1>5, <1>6 DEF OrderAt, Leads, Unprepared
<1>8. QED
  BY <1>1, <1>4, <1>7 DEF GoesOn, RunAt

LEMMA TemporalPersists ==
  ASSUME trial \in Trials, trial.engine = "temporal",
         NEW made \in BOOLEAN, NEW lost \in BOOLEAN,
         RunAt(trial, harness, made, lost, todo, disk),
         NEW step, Running(step), NEW files, Persists(files),
         TemporalAt(trial, files),
         made \/ (step \notin {"await", "poll"} /\ ~ Durable(trial, files))
  PROVE  GoesOn(made, lost)
<1>1. /\ todo # << >> /\ Head(todo) = step /\ todo' = Tail(todo) /\ disk' = files
      /\ exit' = "running"
  BY DEF Running, Persists, Advance
<1>2. todo \in Programs /\ OrderAt(trial, harness, made, lost, todo, disk)
  BY DEF RunAt, StateAt
<1>3. Tail(todo) \in Programs
  BY <1>1, <1>2, TailElements DEF Programs
<1>4. StateAt(trial, harness, Tail(todo), files)
  BY <1>3 DEF StateAt
<1>5. OrderAt(trial, harness, made, lost, Tail(todo), files)
  BY <1>1, <1>2, OrderTail DEF Leads, Unprepared
<1>6. QED
  BY <1>1, <1>4, <1>5 DEF GoesOn, RunAt

LEMMA TemporalStep ==
  ASSUME trial \in Trials, trial.engine = "temporal",
         NEW made \in BOOLEAN, NEW lost \in BOOLEAN,
         RunAt(trial, harness, made, lost, todo, disk), TemporalProcess
  PROVE  Ends \/ GoesOn(made, lost)
<1>1. /\ todo \in Programs /\ TemporalAt(trial, disk) /\ disk \in TemporalDisk
      /\ OrderAt(trial, harness, made, lost, todo, disk)
      /\ disk.next \in 0 .. 2 /\ disk.next <= Len(Activities(trial))
  BY DEF RunAt, StateAt, TemporalAt, TemporalDisk
<1>2. made \/ (disk.next = 0 /\ disk.wf # "closed")
  BY <1>1 DEF OrderAt, Durable
<1>3. CASE StartWorkflow
  <2> DEFINE files == [disk EXCEPT !.wf = "open", !.wft = "ready"]
  <2>1. files \in TemporalDisk
    BY <1>1, TemporalDisks, Zenon
  <2>2. files.next = disk.next /\ files.act = disk.act /\ files.wf = "open"
    BY <1>1 DEF TemporalDisk
  <2>3. Running("start_workflow") /\ Persists(files)
    BY <1>3 DEF StartWorkflow
  <2> HIDE DEF files
  <2>4. TemporalAt(trial, files) /\ (made \/ ~ Durable(trial, files))
    BY <1>1, <1>2, <2>1, <2>2 DEF TemporalAt, Durable
  <2>5. QED
    BY <2>3, <2>4, TemporalPersists
<1>4. CASE PollWorkflowTask
  <2> DEFINE files == [disk EXCEPT !.wft = "taken"]
             steps == <<"tmp_workflow_task_replay", "decide">>
  <2>1. files \in TemporalDisk
    BY <1>1, TemporalDisks, Zenon
  <2>2. files.next = disk.next /\ files.act = disk.act /\ files.wf = disk.wf
    BY <1>1 DEF TemporalDisk
  <2>3. Takes(files, steps)
    BY <1>4 DEF PollWorkflowTask
  <2>4. ArmedWith(steps, Armed) \in Programs /\ Ordered(ArmedWith(steps, Armed))
    BY TemporalPrograms
  <2> HIDE DEF files, steps
  <2>5. TemporalAt(trial, files) /\ (Durable(trial, files) => Durable(trial, disk))
    BY <1>1, <2>1, <2>2 DEF TemporalAt, Durable
  <2>6. QED
    BY <2>3, <2>4, <2>5, TemporalTakes
<1>5. CASE Decide
  <2>1. Running("decide")
    BY <1>5 DEF Decide
  <2>2. CASE disk.next < Len(Activities(trial))
    <3> DEFINE files == [disk EXCEPT !.wft = "none", !.act = "ready", !.attempt = 1]
    <3>1. Persists(files)
      BY <1>5, <2>2 DEF Decide
    <3>2. files.next = disk.next /\ files.wf = disk.wf
      BY <1>1 DEF TemporalDisk
    <3>3. TemporalAt(trial, files)
      BY <1>1, <2>2, TemporalAttempts, Zenon
    <3> HIDE DEF files
    <3>4. made \/ ~ Durable(trial, files)
      BY <1>2, <3>2 DEF Durable
    <3>5. QED
      BY <2>1, <3>1, <3>3, <3>4, TemporalPersists
  <2>3. CASE ~ (disk.next < Len(Activities(trial)))
    <3> DEFINE files == [disk EXCEPT !.wft = "none", !.wf = "closed"]
    <3>1. Persists(files)
      BY <1>5, <2>3 DEF Decide
    <3>2. files.next = disk.next /\ files.act = disk.act
      BY <1>1 DEF TemporalDisk
    <3>3. files \in TemporalDisk
      BY <1>1, TemporalDisks, Zenon
    <3> HIDE DEF files
    <3>4. TemporalAt(trial, files)
      BY <1>1, <3>2, <3>3 DEF TemporalAt
    <3>5. made
      BY <1>2, <2>3, TemporalActivities
    <3>6. QED
      BY <2>1, <3>1, <3>4, <3>5, TemporalPersists
  <2>4. QED
    BY <2>2, <2>3
<1>6. CASE TemporalKill
  BY <1>6, KillRuns DEF TemporalKill
<1>7. CASE PollActivity
  <2> DEFINE files == [disk EXCEPT !.act = "taken"]
             effect == <<"b0", "send", "await", "b1", "report">>
             sentinel == <<"b2", "report">>
             steps == IF Activities(trial)[disk.next + 1] = "effect" THEN effect ELSE sentinel
  <2>1. disk.act = "ready" /\ Takes(files, steps)
    BY <1>7 DEF PollActivity
  <2>2. files.next = disk.next /\ files.wf = disk.wf
    BY <1>1 DEF TemporalDisk
  <2>3. TemporalAt(trial, files)
    BY <1>1, <2>1, TemporalAttempts, Zenon
  <2>4. /\ ArmedWith(effect, Armed) \in Programs /\ Ordered(ArmedWith(effect, Armed))
        /\ ArmedWith(sentinel, Armed) \in Programs
    BY TemporalPrograms
  <2>5. made \/ steps = effect
    <3>1. SUFFICES ASSUME ~ made PROVE steps = effect
      OBVIOUS
    <3>2. disk.next + 1 = 1
      BY <1>2, <3>1
    <3>3. QED
      BY <3>2, TemporalActivities
  <2>6. steps \in {effect, sentinel}
    OBVIOUS
  <2> HIDE DEF files, steps, effect, sentinel
  <2>7. ArmedWith(steps, Armed) \in Programs /\ (made \/ Ordered(ArmedWith(steps, Armed)))
    BY <2>4, <2>5, <2>6
  <2>8. Durable(trial, files) => Durable(trial, disk)
    BY <2>2 DEF Durable
  <2>9. QED
    BY <2>1, <2>3, <2>7, <2>8, TemporalTakes
<1>8. CASE WatchHistory
  BY <1>8 DEF WatchHistory, ExitWith, Ends
<1>9. CASE ReportActivity
  <2> DEFINE done == [disk EXCEPT !.next = @ + 1, !.act = "none", !.wft = "ready",
                                  !.started = IF disk.next = 0 THEN disk.attempt ELSE @]
             files == IF disk.act # "taken" THEN disk ELSE done
  <2>1. Running("report") /\ Persists(files)
    BY <1>9 DEF ReportActivity
  <2>2. made
    BY <2>1, CommitRuns DEF CommitSteps
  <2>3. disk.act = "taken" => TemporalAt(trial, done)
    BY <1>1, TemporalAttempts, Zenon
  <2> HIDE DEF done
  <2>4. TemporalAt(trial, files)
    BY <1>1, <2>3
  <2>5. QED
    BY <2>1, <2>2, <2>4, TemporalPersists
<1>10. CASE TemporalSamplerFails
  <2> DEFINE again == [disk EXCEPT !.act = "ready", !.attempt = @ + 1]
             files == IF disk.act # "taken" THEN disk ELSE again
  <2>1. /\ todo' = <<"poll">> /\ disk' = files /\ exit' = "running" /\ disk.attempt < MaxAttempts
    BY <1>10 DEF TemporalSamplerFails, Running
  <2>2. disk.act = "taken" => /\ TemporalAt(trial, again)
                              /\ again.next = disk.next /\ again.wf = disk.wf
    BY <1>1, <2>1, TemporalAttempts, Zenon
  <2> HIDE DEF again
  <2>3. TemporalAt(trial, files) /\ files.next = disk.next /\ files.wf = disk.wf
    BY <1>1, <2>2
  <2>4. /\ <<"poll">> \in Programs /\ Ordered(<<"poll">>) /\ Has({"poll"}, <<"poll">>)
    BY TemporalPrograms
  <2> HIDE DEF files
  <2>5. StateAt(trial, harness, <<"poll">>, files)
    BY <2>3, <2>4 DEF StateAt
  <2>6. OrderAt(trial, harness, made, lost, <<"poll">>, files)
    BY <1>1, <2>3, <2>4 DEF OrderAt, Durable, Leads, Unprepared
  <2>7. QED
    BY <2>1, <2>5, <2>6 DEF GoesOn, RunAt
<1>11. CASE AwaitResult
  <2>1. CASE Running("poll") /\ disk.wf = "closed" /\ Persists(disk)
    BY <1>1, <1>2, <2>1, TemporalPersists
  <2>2. CASE Raise("poll")
    BY <2>2, RaiseEnds
  <2>3. QED
    BY <1>11, <2>1, <2>2 DEF AwaitResult
<1>12. QED
  BY <1>3, <1>4, <1>5, <1>6, <1>7, <1>8, <1>9, <1>10, <1>11 DEF TemporalProcess

\* What the server does on its own changes nothing of what was done.
LEMMA ServerStepKeeps ==
  ASSUME trial \in Trials, NEW h, NEW s, StateAt(trial, h, s, disk),
         WorkflowTaskTimesOut \/ ActivityTimesOut
  PROVE  /\ StateAt(trial, h, s, disk') /\ trial.engine = "temporal"
         /\ Durable(trial, disk') <=> Durable(trial, disk)
         /\ Leads(trial, disk') = Leads(trial, disk)
<1>1. trial.engine = "temporal"
  BY DEF WorkflowTaskTimesOut, ActivityTimesOut
<1>2. TemporalAt(trial, disk) /\ disk \in TemporalDisk
  BY <1>1 DEF StateAt, TemporalAt
<1>3. TemporalAt(trial, disk') /\ disk'.next = disk.next /\ disk'.wf = disk.wf
  <2>1. CASE WorkflowTaskTimesOut
    <3> DEFINE files == [disk EXCEPT !.wft = "ready", !.timedOut = TRUE]
    <3>1. disk' = files
      BY <2>1 DEF WorkflowTaskTimesOut, ServerStep
    <3>2. files.next = disk.next /\ files.wf = disk.wf /\ files.act = disk.act
      BY <1>2 DEF TemporalDisk
    <3>3. files \in TemporalDisk
      BY <1>2, TemporalDisks, Zenon
    <3> HIDE DEF files
    <3>4. QED
      BY <1>2, <3>1, <3>2, <3>3 DEF TemporalAt
  <2>2. CASE ActivityTimesOut
    <3> DEFINE files == [disk EXCEPT !.act = "ready", !.attempt = @ + 1]
    <3>1. disk' = files /\ disk.act # "none" /\ disk.attempt < MaxAttempts
      BY <2>2 DEF ActivityTimesOut, ServerStep
    <3>2. TemporalAt(trial, files) /\ files.next = disk.next /\ files.wf = disk.wf
      BY <1>2, <3>1, TemporalAttempts, Zenon
    <3> HIDE DEF files
    <3>3. QED
      BY <3>1, <3>2
  <2>3. QED
    BY <2>1, <2>2
<1>4. QED
  BY <1>1, <1>3 DEF StateAt, Durable, Leads

-----------------------------------------------------------------------------
(***************************************************************************)
(* The two services and TrueForge.                                         *)
(***************************************************************************)
LEMMA OneStepPrograms ==
  /\ <<"kill">> \in Programs /\ Ordered(<<"kill">>) /\ Has({"kill"}, <<"kill">>)
  /\ <<"hang">> \in Programs /\ Ordered(<<"hang">>) /\ Has({"hang"}, <<"hang">>)
BY Labels DEF Programs, Ordered, Before, CommitSteps, Has

\* The barrier is passed by, or kills the process with its marker left behind.
LEMMA CrashOnceRuns ==
  ASSUME trial \in Trials, trial.engine \in {"restate", "vercel", "trueforge"},
         NEW made \in BOOLEAN, NEW lost \in BOOLEAN,
         RunAt(trial, harness, made, lost, todo, disk), CrashOnce,
         NEW files, files = [disk EXCEPT !.marker = TRUE],
         StateAt(trial, harness, Tail(todo), files),
         StateAt(trial, harness, <<"kill">>, files),
         Durable(trial, files) => Durable(trial, disk)
  PROVE  GoesOn(made, lost)
<1>1. /\ disk' = files /\ exit' = "running" /\ todo # << >> /\ Head(todo) = trial.barrier
      /\ todo' = Tail(todo) \/ todo' = <<"kill">>
  BY DEF CrashOnce, Running
<1>2. todo \in Programs /\ OrderAt(trial, harness, made, lost, todo, disk)
  BY DEF RunAt, StateAt
<1>3. Leads(trial, files) = Leads(trial, disk) /\ "kill" \in Leads(trial, files)
  BY DEF Leads
<1>4. Head(todo) \notin {"await"} \cup Leads(trial, disk)
  BY <1>1, BarrierSteps, LeadSteps
<1>5. made \/ ~ Durable(trial, files)
  BY <1>2 DEF OrderAt
<1>6. OrderAt(trial, harness, made, lost, Tail(todo), files)
  BY <1>1, <1>2, <1>3, <1>4, <1>5, OrderTail DEF Unprepared
<1>7. OrderAt(trial, harness, made, lost, <<"kill">>, files)
  BY <1>3, <1>5, OneStepPrograms DEF OrderAt, Unprepared, Has
<1>8. QED
  BY <1>1, <1>6, <1>7 DEF GoesOn, RunAt

LEMMA RestateDisks ==
  ASSUME NEW d \in RestateDisk
  PROVE  /\ [d EXCEPT !.marker = TRUE] \in RestateDisk
         /\ [d EXCEPT !.marker = TRUE].journaled = d.journaled
         /\ [d EXCEPT !.journaled = TRUE] \in RestateDisk
<1>1. [d EXCEPT !.marker = TRUE] \in RestateDisk
  BY DEF RestateDisk
<1>2. [d EXCEPT !.marker = TRUE].journaled = d.journaled
  BY DEF RestateDisk
<1>3. [d EXCEPT !.journaled = TRUE] \in RestateDisk
  BY DEF RestateDisk
<1>4. QED
  BY <1>1, <1>2, <1>3

LEMMA RestateStep ==
  ASSUME trial \in Trials, trial.engine = "restate",
         NEW made \in BOOLEAN, NEW lost \in BOOLEAN,
         RunAt(trial, harness, made, lost, todo, disk), RestateProcess
  PROVE  Ends \/ GoesOn(made, lost)
<1>1. /\ disk \in RestateDisk /\ todo \in Programs
      /\ OrderAt(trial, harness, made, lost, todo, disk)
  BY DEF RunAt, StateAt
<1>2. CASE CrashOnce
  <2> DEFINE files == [disk EXCEPT !.marker = TRUE]
  <2>1. todo # << >> /\ Head(todo) = trial.barrier
    BY <1>2 DEF CrashOnce, Running
  <2>2. files \in RestateDisk /\ files.journaled = disk.journaled
    BY <1>1, RestateDisks, Zenon
  <2>3. Tail(todo) \in Programs
    BY <1>1, <2>1, TailElements DEF Programs
  <2>4. files = [disk EXCEPT !.marker = TRUE]
    OBVIOUS
  <2> HIDE DEF files
  <2>5. /\ StateAt(trial, harness, Tail(todo), files)
        /\ StateAt(trial, harness, <<"kill">>, files)
        /\ Durable(trial, files) => Durable(trial, disk)
    BY <2>2, <2>3, OneStepPrograms DEF StateAt, Durable
  <2>6. QED
    BY <1>2, <2>4, <2>5, CrashOnceRuns
<1>3. CASE Kill
  BY <1>3 DEF Kill, ExitWith, Ends
<1>4. CASE Journal
  <2> DEFINE files == [disk EXCEPT !.journaled = TRUE]
  <2>1. Running("journal") /\ Persists(files) /\ todo # << >>
    BY <1>4 DEF Journal, Running
  <2>2. files \in RestateDisk
    BY <1>1, RestateDisks, Zenon
  <2>3. made
    BY <2>1, CommitRuns DEF CommitSteps
  <2>4. Tail(todo) \in Programs
    BY <1>1, <2>1, TailElements DEF Programs
  <2> HIDE DEF files
  <2>5. StateAt(trial, harness, Tail(todo), files)
    BY <2>2, <2>4 DEF StateAt
  <2>6. QED
    BY <2>1, <2>3, <2>5, PersistsRuns
<1>5. QED
  BY <1>2, <1>3, <1>4 DEF RestateProcess

LEMMA VercelDisks ==
  ASSUME NEW d \in VercelDisk, NEW step \in {"prepareIdentity", "charge", "sentinel"}
  PROVE  /\ [d EXCEPT !.marker = TRUE] \in VercelDisk
         /\ [d EXCEPT !.marker = TRUE].completed = d.completed
         /\ [d EXCEPT !.run = TRUE] \in VercelDisk
         /\ [d EXCEPT !.run = TRUE].completed = d.completed
         /\ [d EXCEPT !.claim = "linked"] \in VercelDisk
         /\ [d EXCEPT !.claim = "linked"].completed = d.completed
         /\ [d EXCEPT !.claim = "created"] \in VercelDisk
         /\ [d EXCEPT !.claim = "created"].completed = d.completed
         /\ [d EXCEPT !.completed = Append(@, step), !.claim = "none"] \in VercelDisk
         /\ [d EXCEPT !.completed = Append(@, step), !.claim = "none"].completed
              = Append(d.completed, step)
         /\ Len(Append(d.completed, step)) = Len(d.completed) + 1
<1>1. [d EXCEPT !.marker = TRUE] \in VercelDisk
  BY DEF VercelDisk
<1>2. [d EXCEPT !.marker = TRUE].completed = d.completed
  BY DEF VercelDisk
<1>3. [d EXCEPT !.run = TRUE] \in VercelDisk
  BY DEF VercelDisk
<1>4. [d EXCEPT !.run = TRUE].completed = d.completed
  BY DEF VercelDisk
<1>5. [d EXCEPT !.claim = "linked"] \in VercelDisk
  BY DEF VercelDisk
<1>6. [d EXCEPT !.claim = "linked"].completed = d.completed
  BY DEF VercelDisk
<1>7. [d EXCEPT !.claim = "created"] \in VercelDisk
  BY DEF VercelDisk
<1>8. [d EXCEPT !.claim = "created"].completed = d.completed
  BY DEF VercelDisk
<1>9. d.completed \in Seq({"prepareIdentity", "charge", "sentinel"})
  BY DEF VercelDisk
<1>10. Append(d.completed, step) \in Seq({"prepareIdentity", "charge", "sentinel"})
  BY <1>9, AppendProperties
<1>11. [d EXCEPT !.completed = Append(@, step), !.claim = "none"] \in VercelDisk
  BY <1>10 DEF VercelDisk
<1>12. [d EXCEPT !.completed = Append(@, step), !.claim = "none"].completed
         = Append(d.completed, step)
  BY DEF VercelDisk
<1>13. Len(Append(d.completed, step)) = Len(d.completed) + 1
  BY <1>9, AppendProperties
<1>14. QED
  BY <1>1, <1>2, <1>3, <1>4, <1>5, <1>6, <1>7, <1>8, <1>11, <1>12, <1>13

\* A step of the fixture that completes nothing.
LEMMA VercelPersists ==
  ASSUME trial \in Trials, trial.engine = "vercel",
         NEW made \in BOOLEAN, NEW lost \in BOOLEAN,
         RunAt(trial, harness, made, lost, todo, disk),
         NEW step, Running(step), step \notin StepSteps \cup {"await", "kill", "hang"},
         NEW files \in VercelDisk, files.completed = disk.completed, Persists(files)
  PROVE  GoesOn(made, lost)
<1>1. /\ todo \in Programs /\ VercelAt(trial, todo, disk) /\ todo # << >> /\ Head(todo) = step
      /\ OrderAt(trial, harness, made, lost, todo, disk)
  BY DEF RunAt, StateAt, Running
<1>2. VercelAt(trial, Tail(todo), files)
  BY <1>1, VercelTail
<1>3. Tail(todo) \in Programs
  BY <1>1, TailElements DEF Programs
<1>4. StateAt(trial, harness, Tail(todo), files)
  BY <1>2, <1>3 DEF StateAt
<1>5. (Durable(trial, files) <=> Durable(trial, disk)) /\ Leads(trial, files) = Leads(trial, disk)
  BY DEF Durable, Leads
<1>6. step \notin Leads(trial, disk)
  BY DEF Leads, StepSteps
<1>7. QED
  BY <1>1, <1>4, <1>5, <1>6, PersistsRuns DEF OrderAt, Unprepared

\* Where the next step is to be started or completed.
LEMMA VercelHead ==
  ASSUME NEW t \in Trials, NEW s \in Programs, s # << >>, NEW d, VercelAt(t, s, d),
         Head(s) \in StepSteps
  PROVE  /\ Len(d.completed) \in Nat /\ Len(d.completed) + 1 \in 1 .. Len(Steps(t))
         /\ Len(s) = Len(Steps(t)) - Len(d.completed)
         /\ Head(s) \in {"start_step", Steps(t)[Len(d.completed) + 1]}
         /\ Tail(s) \in Programs /\ Len(Tail(s)) = Len(s) - 1
         /\ \A n \in 1 .. Len(Tail(s)) : Tail(s)[n] = "start_step"
<1> DEFINE k == Len(d.completed)
           left == Len(Steps(t)) - k
           at == Len(s) - left + 1
<1>1. /\ Len(s) \in Nat \ {0} /\ Head(s) = s[1] /\ Tail(s) \in Programs
      /\ Len(Tail(s)) = Len(s) - 1
      /\ \A n \in 1 .. Len(s) - 1 : Tail(s)[n] = s[n + 1]
  BY TailElements DEF Programs
<1>2. Len(Steps(t)) \in Nat /\ k \in Nat
  BY VercelSteps DEF VercelAt
<1>3. s \notin {<< >>, <<"kill">>, <<"hang">>}
  BY DEF StepSteps
<1>4. /\ at >= 1
      /\ \A n \in 1 .. Len(s) :
           /\ n < at => s[n] \notin StepSteps
           /\ n = at => s[n] \in {"start_step", Steps(t)[k + 1]}
           /\ n > at => s[n] = "start_step"
  BY <1>3 DEF VercelAt
<1> HIDE DEF k
<1>5. at = 1
  <2>1. 1 \in 1 .. Len(s) /\ s[1] \in StepSteps
    BY <1>1
  <2>2. ~ (1 < at)
    BY <1>4, <2>1
  <2>3. at \in Int
    BY <1>1, <1>2
  <2>4. QED
    BY <1>4, <2>2, <2>3
<1>6. Len(s) = left /\ k + 1 \in 1 .. Len(Steps(t))
  BY <1>1, <1>2, <1>5
<1>7. Head(s) \in {"start_step", Steps(t)[k + 1]}
  BY <1>1, <1>4, <1>5
<1>8. ASSUME NEW n \in 1 .. Len(Tail(s))
      PROVE  Tail(s)[n] = "start_step"
  <2>1. n \in 1 .. Len(s) - 1 /\ n + 1 \in 1 .. Len(s) /\ n + 1 > 1
    BY <1>1
  <2>2. QED
    BY <1>1, <1>4, <1>5, <2>1
<1>9. QED
  BY <1>1, <1>2, <1>6, <1>7, <1>8 DEF k

\* A step that was started after k others, ahead of those that are left.
Started(k, step, s) ==
  \A n \in 1 .. Len(s) :
    /\ n < k + 1 => s[n] \notin StepSteps
    /\ n = k + 1 => s[n] = step
    /\ n > k + 1 => s[n] = "start_step"

LEMMA StartedPlaces ==
  ASSUME NEW u \in Programs, ~ Has(StepSteps, u),
         NEW step \in {"prepareIdentity", "charge", "sentinel"},
         NEW w \in Programs, \A n \in 1 .. Len(w) : w[n] = "start_step"
  PROVE  LET s == u \o <<step>> \o w IN
         /\ s \in Programs /\ Len(u) \in Nat /\ Len(w) \in Nat /\ Len(s) = Len(u) + 1 + Len(w)
         /\ Started(Len(u), step, s)
<1> DEFINE one == <<step>>
           v == u \o one
           s == v \o w
<1>1. one \in Programs
  BY Labels DEF Programs
<1>2. Len(one) = 1 /\ one[1] = step
  OBVIOUS
<1> HIDE DEF one
<1>3. /\ v \in Programs /\ Len(u) \in Nat /\ Len(v) = Len(u) + Len(one)
      /\ \A n \in 1 .. Len(u) : v[n] = u[n]
      /\ \A n \in 1 .. Len(one) : v[Len(u) + n] = one[n]
  BY <1>1, ConcatPrograms
<1>4. Len(v) = Len(u) + 1 /\ v[Len(u) + 1] = step
  <2>1. 1 \in 1 .. Len(one)
    BY <1>2
  <2>2. QED
    BY <1>2, <1>3, <2>1
<1> HIDE DEF v
<1>5. /\ s \in Programs /\ Len(v) \in Nat /\ Len(w) \in Nat /\ Len(s) = Len(v) + Len(w)
      /\ \A n \in 1 .. Len(v) : s[n] = v[n]
      /\ \A n \in 1 .. Len(w) : s[Len(v) + n] = w[n]
  BY <1>3, ConcatPrograms
<1> HIDE DEF s
<1>6. ASSUME NEW n \in 1 .. Len(s), n < Len(u) + 1
      PROVE  s[n] \notin StepSteps
  <2>1. n \in 1 .. Len(u) /\ n \in 1 .. Len(v)
    BY <1>3, <1>4, <1>6
  <2>2. s[n] = u[n]
    BY <1>3, <1>5, <2>1
  <2>3. QED
    BY <2>1, <2>2 DEF Has
<1>7. ASSUME NEW n \in 1 .. Len(s), n = Len(u) + 1
      PROVE  s[n] = step
  <2>1. n \in 1 .. Len(v)
    BY <1>3, <1>4, <1>7
  <2>2. QED
    BY <1>4, <1>5, <1>7, <2>1
<1>8. ASSUME NEW n \in 1 .. Len(s), n > Len(u) + 1
      PROVE  s[n] = "start_step"
  <2>1. n - Len(v) \in 1 .. Len(w) /\ Len(v) + (n - Len(v)) = n
    BY <1>3, <1>4, <1>5, <1>8
  <2>2. s[n] = w[n - Len(v)]
    BY <1>5, <2>1
  <2>3. QED
    BY <2>1, <2>2
<1>9. Len(s) = Len(u) + 1 + Len(w)
  BY <1>4, <1>5
<1>10. QED
  BY <1>3, <1>5, <1>6, <1>7, <1>8, <1>9 DEF s, v, one, Started

LEMMA VercelStarted ==
  ASSUME NEW t \in Trials, NEW d, d \in VercelDisk,
         Len(d.completed) + 1 \in 1 .. Len(Steps(t)),
         NEW u \in Programs, ~ Has(StepSteps, u),
         NEW step \in {"prepareIdentity", "charge", "sentinel"},
         step = Steps(t)[Len(d.completed) + 1],
         NEW w \in Programs, Len(w) = Len(Steps(t)) - Len(d.completed) - 1,
         \A n \in 1 .. Len(w) : w[n] = "start_step"
  PROVE  u \o <<step>> \o w \in Programs /\ VercelAt(t, u \o <<step>> \o w, d)
<1> DEFINE s == u \o <<step>> \o w
           at == Len(s) - (Len(Steps(t)) - Len(d.completed)) + 1
<1>1. /\ s \in Programs /\ Len(u) \in Nat /\ Len(w) \in Nat /\ Len(s) = Len(u) + 1 + Len(w)
      /\ Started(Len(u), step, s)
  BY StartedPlaces
<1> HIDE DEF s
<1>2. Len(d.completed) \in Nat /\ Len(Steps(t)) \in Nat
  BY VercelSteps DEF VercelDisk
<1>3. at = Len(u) + 1
  BY <1>1, <1>2
<1> HIDE DEF at
<1>4. at >= 1 /\ Len(d.completed) \in 0 .. Len(Steps(t))
  BY <1>1, <1>2, <1>3
<1>5. \A n \in 1 .. Len(s) :
        /\ n < at => s[n] \notin StepSteps
        /\ n = at => s[n] \in {"start_step", Steps(t)[Len(d.completed) + 1]}
        /\ n > at => s[n] = "start_step"
  BY <1>1, <1>3 DEF Started
<1>6. VercelAt(t, s, d)
  BY <1>4, <1>5 DEF VercelAt, at
<1>7. QED
  BY <1>1, <1>6 DEF s

\* What is left to be started is again the end of a program.
LEMMA VercelRest ==
  ASSUME NEW t \in Trials, NEW e, e \in VercelDisk, Len(e.completed) \in 0 .. Len(Steps(t)),
         NEW w \in Programs, Len(w) = Len(Steps(t)) - Len(e.completed),
         \A n \in 1 .. Len(w) : w[n] = "start_step"
  PROVE  VercelAt(t, w, e)
<1>1. Len(w) - (Len(Steps(t)) - Len(e.completed)) + 1 = 1
  BY VercelSteps
<1>2. QED
  BY <1>1 DEF VercelAt

LEMMA VercelStarts ==
  ASSUME trial \in Trials, trial.engine = "vercel",
         NEW made \in BOOLEAN, NEW lost \in BOOLEAN,
         RunAt(trial, harness, made, lost, todo, disk), StartStep
  PROVE  GoesOn(made, lost)
<1> DEFINE k == Len(disk.completed)
           step == Steps(trial)[k + 1]
           w == Tail(todo)
           claims == <<"link_claim", "write_created">>
<1>1. /\ exit' = "running" /\ disk' = disk /\ todo # << >> /\ Head(todo) = "start_step"
  BY DEF StartStep, Running
<1>2. /\ todo \in Programs /\ VercelAt(trial, todo, disk) /\ disk \in VercelDisk
      /\ OrderAt(trial, harness, made, lost, todo, disk)
  BY DEF RunAt, StateAt, VercelAt
<1>3. /\ k \in Nat /\ k + 1 \in 1 .. Len(Steps(trial)) /\ w \in Programs
      /\ Len(w) = Len(Steps(trial)) - k - 1
      /\ \A n \in 1 .. Len(w) : w[n] = "start_step"
  BY <1>1, <1>2, VercelHead DEF StepSteps
<1>4. disk.claim \in {"none", "linked", "created"}
  BY <1>2 DEF VercelDisk
<1>5. step \in {"prepareIdentity", "charge", "sentinel"}
  BY <1>3, VercelSteps
<1>6. made \/ k < ChargeAt(trial)
  BY <1>2, <1>3, VercelSteps DEF OrderAt, Durable
<1>7. CASE disk.claim = "linked"
  <2>1. todo' = <<"hang">>
    BY <1>7 DEF StartStep
  <2>2. VercelAt(trial, <<"hang">>, disk)
    BY <1>2 DEF VercelAt
  <2>3. StateAt(trial, harness, <<"hang">>, disk)
    BY <2>2, OneStepPrograms DEF StateAt
  <2>4. OrderAt(trial, harness, made, lost, <<"hang">>, disk)
    BY <1>2, OneStepPrograms DEF OrderAt, Unprepared, Leads, Has
  <2>5. QED
    BY <1>1, <2>1, <2>3, <2>4 DEF GoesOn, RunAt
<1>8. CASE disk.claim # "linked"
  <2>1. PICK body \in Interleavings(claims, StepBody(step)) \cup {StepBody(step)} :
          todo' = ArmedWith(body, trial.barrier) \o <<step>> \o w
    BY <1>4, <1>8 DEF StartStep
  <2> DEFINE u == ArmedWith(body, trial.barrier)
             one == <<step>>
             v == u \o one
             s == v \o w
  <2>2. /\ u \in Programs /\ Ordered(u) /\ (step = "charge" => Awaits(u)) /\ ~ Has(StepSteps, u)
    BY <1>5, VercelBodies DEF ClaimLeft
  <2>3. step = Steps(trial)[k + 1]
    OBVIOUS
  <2> HIDE DEF u, step, w
  <2>4. s \in Programs /\ VercelAt(trial, s, disk)
    BY <1>2, <1>3, <2>2, <2>3, <1>5, VercelStarted DEF s, v, one
  <2>5. one \in Programs /\ Len(one) = 1 /\ one[1] = step
    BY <1>5, Labels DEF Programs
  <2>6. Ordered(w)
    BY <1>3, UncommittedOrdered DEF Has, CommitSteps
  <2>7. made \/ step = "charge" \/ (step = "prepareIdentity" /\ k + 1 < ChargeAt(trial))
    <3>1. k + 1 = ChargeAt(trial) => step = "charge"
      BY <2>3, VercelSteps
    <3>2. k + 1 < ChargeAt(trial) => step = "prepareIdentity"
      BY <1>3, <2>3, VercelSteps
    <3>3. made \/ k + 1 = ChargeAt(trial) \/ k + 1 < ChargeAt(trial)
      BY <1>3, <1>6, VercelSteps
    <3>4. QED
      BY <3>1, <3>2, <3>3
  <2> HIDE DEF k, one
  <2>8. made \/ Ordered(v)
    <3>1. CASE step = "charge"
      BY <2>2, <2>5, <3>1, OrderedConcat DEF v
    <3>2. CASE step = "prepareIdentity"
      <4>1. Ordered(one)
        BY <2>5, <3>2, UncommittedOrdered DEF Has, CommitSteps
      <4>2. QED
        BY <2>2, <2>5, <4>1, OrderedConcat DEF v
    <3>3. QED
      BY <2>7, <3>1, <3>2
  <2>9. v \in Programs /\ (step = "charge" => Awaits(v))
    BY <2>2, <2>5, ConcatPlaces, HasConcat DEF v, Awaits
  <2> HIDE DEF v
  <2>10. made \/ Ordered(s)
    BY <1>3, <2>6, <2>8, <2>9, OrderedConcat DEF s
  <2>11. made \/ Has(Leads(trial, disk), s)
    <3>1. CASE step = "charge"
      <4>1. Awaits(s)
        BY <1>3, <2>9, <3>1, HasConcat DEF s, Awaits
      <4>2. QED
        BY <4>1 DEF Awaits, Has, Leads
    <3>2. CASE k + 1 < ChargeAt(trial)
      <4>1. Len(w) \in Nat /\ Len(w) >= 1
        BY <1>3, <3>2, VercelSteps
      <4>2. 1 \in 1 .. Len(w) /\ w[1] = "start_step"
        BY <1>3, <4>1
      <4>3. Has({"start_step"}, w)
        BY <4>2 DEF Has
      <4>4. Has({"start_step"}, s)
        BY <1>3, <2>9, <4>3, HasConcat DEF s
      <4>5. QED
        BY <4>4 DEF Has, Leads
    <3>3. QED
      BY <2>7, <3>1, <3>2
  <2>12. todo' = s
    BY <2>1 DEF s, v, u, one
  <2> HIDE DEF s
  <2>13. StateAt(trial, harness, s, disk)
    BY <2>4 DEF StateAt
  <2>14. OrderAt(trial, harness, made, lost, s, disk)
    BY <1>2, <2>10, <2>11 DEF OrderAt, Unprepared
  <2>15. QED
    BY <1>1, <2>12, <2>13, <2>14 DEF GoesOn, RunAt
<1>9. QED
  BY <1>7, <1>8

LEMMA VercelCompletes ==
  ASSUME trial \in Trials, trial.engine = "vercel",
         NEW made \in BOOLEAN, NEW lost \in BOOLEAN,
         RunAt(trial, harness, made, lost, todo, disk), CompleteStep
  PROVE  GoesOn(made, lost)
<1>1. PICK step \in {"prepareIdentity", "charge", "sentinel"} :
        /\ Running(step)
        /\ Persists([disk EXCEPT !.completed = Append(@, step), !.claim = "none"])
  BY DEF CompleteStep
<1> DEFINE k == Len(disk.completed)
           w == Tail(todo)
           files == [disk EXCEPT !.completed = Append(@, step), !.claim = "none"]
<1>2. todo # << >> /\ Head(todo) = step /\ step \in StepSteps /\ step # "start_step"
  BY <1>1 DEF Running, StepSteps
<1>3. /\ todo \in Programs /\ VercelAt(trial, todo, disk) /\ disk \in VercelDisk
      /\ OrderAt(trial, harness, made, lost, todo, disk)
  BY DEF RunAt, StateAt, VercelAt
<1>4. /\ k \in Nat /\ k + 1 \in 1 .. Len(Steps(trial)) /\ w \in Programs
      /\ Len(todo) = Len(Steps(trial)) - k /\ Len(w) = Len(todo) - 1
      /\ \A n \in 1 .. Len(w) : w[n] = "start_step"
      /\ step \in {"start_step", Steps(trial)[k + 1]}
  BY <1>2, <1>3, VercelHead
<1>5. files \in VercelDisk /\ files.completed = Append(disk.completed, step)
      /\ Len(Append(disk.completed, step)) = k + 1
  BY <1>3, VercelDisks, Zenon
<1>6. Persists(files)
  BY <1>1
<1> HIDE DEF files, k, w
<1>7. Len(files.completed) = k + 1 /\ Len(w) = Len(Steps(trial)) - (k + 1)
      /\ k + 1 \in 0 .. Len(Steps(trial))
  BY <1>4, <1>5, VercelSteps
<1>8. VercelAt(trial, w, files)
  BY <1>4, <1>5, <1>7, VercelRest
<1>9. StateAt(trial, harness, w, files)
  BY <1>4, <1>8 DEF StateAt
<1>10. step \notin {"await"} \cup Leads(trial, disk) /\ Leads(trial, files) = Leads(trial, disk)
  BY <1>2 DEF Leads, StepSteps
<1>11. CASE made
  BY <1>1, <1>6, <1>9, <1>10, <1>11, PersistsRuns DEF w
<1>12. CASE ~ made
  <2>1. step = "prepareIdentity"
    <3>1. SUFFICES ASSUME step # "prepareIdentity" PROVE FALSE
      OBVIOUS
    <3>2. step \in CommitSteps
      BY <3>1 DEF CommitSteps
    <3>3. QED
      BY <1>1, <1>12, <3>2, CommitRuns
  <2>2. Steps(trial)[k + 1] = "prepareIdentity"
    BY <1>4, <2>1
  <2>3. k + 1 # ChargeAt(trial) /\ k + 1 # ChargeAt(trial) + 1
    BY <2>2, VercelSteps
  <2>4. k + 1 < ChargeAt(trial)
    BY <1>4, <2>3, VercelSteps
  <2>5. ~ Durable(trial, files)
    <3>1. ChargeAt(trial) \in Nat /\ ~ (k + 1 >= ChargeAt(trial))
      BY <1>4, <2>4, VercelSteps
    <3>2. QED
      BY <1>7, <3>1, VercelDurable
  <2>6. Unprepared(trial, w, files)
    BY DEF Unprepared
  <2>7. QED
    BY <1>1, <1>6, <1>9, <1>10, <2>5, <2>6, PersistsRuns DEF w
<1>13. QED
  BY <1>11, <1>12

LEMMA VercelStep ==
  ASSUME trial \in Trials, trial.engine = "vercel",
         NEW made \in BOOLEAN, NEW lost \in BOOLEAN,
         RunAt(trial, harness, made, lost, todo, disk), VercelProcess
  PROVE  Ends \/ GoesOn(made, lost)
<1>1. /\ todo \in Programs /\ VercelAt(trial, todo, disk) /\ disk \in VercelDisk
  BY DEF RunAt, StateAt, VercelAt
<1>2. CASE CrashOnce
  <2> DEFINE files == [disk EXCEPT !.marker = TRUE]
  <2>1. todo # << >> /\ Head(todo) = trial.barrier
    BY <1>2 DEF CrashOnce, Running
  <2>2. files \in VercelDisk /\ files.completed = disk.completed
    BY <1>1, VercelDisks, Zenon
  <2>3. Tail(todo) \in Programs
    BY <1>1, <2>1, TailElements DEF Programs
  <2>4. files = [disk EXCEPT !.marker = TRUE]
    OBVIOUS
  <2> HIDE DEF files
  <2>5. VercelAt(trial, Tail(todo), files)
    BY <1>1, <2>1, <2>2, BarrierSteps, VercelTail
  <2>6. VercelAt(trial, <<"kill">>, files)
    BY <1>1, <2>2 DEF VercelAt
  <2>7. /\ StateAt(trial, harness, Tail(todo), files)
        /\ StateAt(trial, harness, <<"kill">>, files)
        /\ Durable(trial, files) => Durable(trial, disk)
    BY <2>2, <2>3, <2>5, <2>6, OneStepPrograms DEF StateAt, Durable
  <2>8. QED
    BY <1>2, <2>4, <2>7, CrashOnceRuns
<1>3. CASE Kill
  BY <1>3 DEF Kill, ExitWith, Ends
<1>4. CASE CreateRun
  <2> DEFINE files == [disk EXCEPT !.run = TRUE]
  <2>1. files \in VercelDisk /\ files.completed = disk.completed
    BY <1>1, VercelDisks, Zenon
  <2>2. Running("create_run") /\ Persists(files)
    BY <1>4 DEF CreateRun
  <2> HIDE DEF files
  <2>3. QED
    BY <2>1, <2>2, VercelPersists DEF StepSteps
<1>5. ASSUME Running("link_claim"), Persists([disk EXCEPT !.claim = "linked"])
      PROVE  GoesOn(made, lost)
  <2> DEFINE files == [disk EXCEPT !.claim = "linked"]
  <2>1. files \in VercelDisk /\ files.completed = disk.completed
    BY <1>1, VercelDisks, Zenon
  <2>2. Running("link_claim") /\ Persists(files)
    BY <1>5
  <2> HIDE DEF files
  <2>3. QED
    BY <2>1, <2>2, VercelPersists DEF StepSteps
<1>6. ASSUME Running("write_created"), Persists([disk EXCEPT !.claim = "created"])
      PROVE  GoesOn(made, lost)
  <2> DEFINE files == [disk EXCEPT !.claim = "created"]
  <2>1. files \in VercelDisk /\ files.completed = disk.completed
    BY <1>1, VercelDisks, Zenon
  <2>2. Running("write_created") /\ Persists(files)
    BY <1>6
  <2> HIDE DEF files
  <2>3. QED
    BY <2>1, <2>2, VercelPersists DEF StepSteps
<1>7. QED
  BY <1>2, <1>3, <1>4, <1>5, <1>6, VercelStarts, VercelCompletes DEF VercelProcess, ClaimStep

-----------------------------------------------------------------------------
(***************************************************************************)
(* TrueForge.                                                              *)
(***************************************************************************)
LEMMA TrueForgeDisks ==
  ASSUME NEW d \in TrueForgeDisk, NEW event \in {"model.message", "tool.response"}
  PROVE  /\ [d EXCEPT !.marker = TRUE] \in TrueForgeDisk
         /\ [d EXCEPT !.answered = TRUE] \in TrueForgeDisk
         /\ [d EXCEPT !["first"].events = @ \cup {event}] \in TrueForgeDisk
         /\ [d EXCEPT !["retry"].events = @ \cup {event}] \in TrueForgeDisk
         /\ [d EXCEPT !["first"].status = "done"] \in TrueForgeDisk
         /\ [d EXCEPT !["retry"].status = "done"] \in TrueForgeDisk
         /\ [d EXCEPT !.first.status = IF @ = "running" THEN "cancelled" ELSE @,
                      !["first"] = [events |-> {"turn.created"}, status |-> "running"]]
              \in TrueForgeDisk
         /\ [d EXCEPT !.first.status = IF @ = "running" THEN "cancelled" ELSE @,
                      !["retry"] = [events |-> {"turn.created"}, status |-> "running"]]
              \in TrueForgeDisk
<1>1. /\ d.first \in Turn /\ d.retry \in Turn
  BY DEF TrueForgeDisk
<1>2. [d EXCEPT !.marker = TRUE] \in TrueForgeDisk
  BY DEF TrueForgeDisk
<1>3. [d EXCEPT !.answered = TRUE] \in TrueForgeDisk
  BY DEF TrueForgeDisk
<1>4. [d EXCEPT !["first"].events = @ \cup {event}] \in TrueForgeDisk
  BY DEF TrueForgeDisk, Turn
<1>5. [d EXCEPT !["retry"].events = @ \cup {event}] \in TrueForgeDisk
  BY DEF TrueForgeDisk, Turn
<1>6. [d EXCEPT !["first"].status = "done"] \in TrueForgeDisk
  BY DEF TrueForgeDisk, Turn
<1>7. [d EXCEPT !["retry"].status = "done"] \in TrueForgeDisk
  BY DEF TrueForgeDisk, Turn
<1>8. [d EXCEPT !.first.status = IF @ = "running" THEN "cancelled" ELSE @,
                !["first"] = [events |-> {"turn.created"}, status |-> "running"]]
        \in TrueForgeDisk
  BY DEF TrueForgeDisk, Turn
<1>9. [d EXCEPT !.first.status = IF @ = "running" THEN "cancelled" ELSE @,
                !["retry"] = [events |-> {"turn.created"}, status |-> "running"]]
        \in TrueForgeDisk
  BY DEF TrueForgeDisk, Turn
<1>10. QED
  BY <1>2, <1>3, <1>4, <1>5, <1>6, <1>7, <1>8, <1>9

\* Which of these records shows the tool's response.
Shown(d) == "tool.response" \in d.first.events \cup d.retry.events

LEMMA TrueForgeShown ==
  ASSUME NEW d \in TrueForgeDisk
  PROVE  /\ Shown([d EXCEPT !.marker = TRUE]) => Shown(d)
         /\ Shown([d EXCEPT !.answered = TRUE]) => Shown(d)
         /\ Shown([d EXCEPT !["first"].events = @ \cup {"model.message"}]) => Shown(d)
         /\ Shown([d EXCEPT !["retry"].events = @ \cup {"model.message"}]) => Shown(d)
         /\ Shown([d EXCEPT !.first.status = IF @ = "running" THEN "cancelled" ELSE @,
                            !["first"] = [events |-> {"turn.created"}, status |-> "running"]])
              => Shown(d)
         /\ Shown([d EXCEPT !.first.status = IF @ = "running" THEN "cancelled" ELSE @,
                            !["retry"] = [events |-> {"turn.created"}, status |-> "running"]])
              => Shown(d)
<1>1. /\ d.first \in Turn /\ d.retry \in Turn
  BY DEF TrueForgeDisk
<1>2. Shown([d EXCEPT !.marker = TRUE]) => Shown(d)
  BY DEF TrueForgeDisk, Shown
<1>3. Shown([d EXCEPT !.answered = TRUE]) => Shown(d)
  BY DEF TrueForgeDisk, Shown
<1>4. Shown([d EXCEPT !["first"].events = @ \cup {"model.message"}]) => Shown(d)
  BY DEF TrueForgeDisk, Turn, Shown
<1>5. Shown([d EXCEPT !["retry"].events = @ \cup {"model.message"}]) => Shown(d)
  BY DEF TrueForgeDisk, Turn, Shown
<1>6. Shown([d EXCEPT !.first.status = IF @ = "running" THEN "cancelled" ELSE @,
                      !["first"] = [events |-> {"turn.created"}, status |-> "running"]])
        => Shown(d)
  BY DEF TrueForgeDisk, Turn, Shown
<1>7. Shown([d EXCEPT !.first.status = IF @ = "running" THEN "cancelled" ELSE @,
                      !["retry"] = [events |-> {"turn.created"}, status |-> "running"]])
        => Shown(d)
  BY DEF TrueForgeDisk, Turn, Shown
<1>8. QED
  BY <1>2, <1>3, <1>4, <1>5, <1>6, <1>7

LEMMA TrueForgePersists ==
  ASSUME trial \in Trials, trial.engine = "trueforge",
         NEW made \in BOOLEAN, NEW lost \in BOOLEAN,
         RunAt(trial, harness, made, lost, todo, disk),
         NEW step, Running(step), step \notin {"await", "kill", "create_turn"},
         NEW files \in TrueForgeDisk, Persists(files),
         made \/ (Shown(files) => Shown(disk))
  PROVE  GoesOn(made, lost)
<1>1. /\ todo \in Programs /\ todo # << >> /\ OrderAt(trial, harness, made, lost, todo, disk)
  BY DEF RunAt, StateAt, Running
<1>2. Tail(todo) \in Programs
  BY <1>1, TailElements DEF Programs
<1>3. StateAt(trial, harness, Tail(todo), files)
  BY <1>2 DEF StateAt
<1>4. step \notin Leads(trial, disk) /\ Leads(trial, files) = Leads(trial, disk)
  BY DEF Leads
<1>5. made \/ ~ Durable(trial, files)
  BY <1>1 DEF OrderAt, Durable, Shown
<1>6. QED
  BY <1>3, <1>4, <1>5, PersistsRuns DEF Unprepared

LEMMA TrueForgeCreates ==
  ASSUME trial \in Trials, trial.engine = "trueforge",
         NEW made \in BOOLEAN, NEW lost \in BOOLEAN,
         RunAt(trial, harness, made, lost, todo, disk), CreateTurn
  PROVE  GoesOn(made, lost)
<1> DEFINE files == [disk EXCEPT !.first.status = IF @ = "running" THEN "cancelled" ELSE @,
                                 ![CurrentTurn] = [events |-> {"turn.created"},
                                                   status |-> "running"]]
<1>1. disk \in TrueForgeDisk /\ OrderAt(trial, harness, made, lost, todo, disk)
  BY DEF RunAt, StateAt
<1>2. CurrentTurn \in {"first", "retry"}
  BY DEF CurrentTurn
<1>3. files \in TrueForgeDisk /\ (Shown(files) => Shown(disk))
  <2>1. CASE CurrentTurn = "first"
    BY <1>1, <2>1, TrueForgeDisks, TrueForgeShown, Zenon
  <2>2. CASE CurrentTurn = "retry"
    BY <1>1, <2>2, TrueForgeDisks, TrueForgeShown, Zenon
  <2>3. QED
    BY <1>2, <2>1, <2>2
<1>4. disk' = files
  BY DEF CreateTurn
<1> HIDE DEF files
<1>5. PICK order \in Interleavings(<<"answer_create">>, ModelResponse(disk)) : todo' = order
  BY DEF CreateTurn
<1>6. /\ order \in Programs
      /\ "tool.response" \in disk.first.events \/ (Ordered(order) /\ Awaits(order))
  BY TrueForgePrograms
<1>7. exit' = "running"
  BY DEF CreateTurn, Running
<1>8. made \/ (~ Durable(trial, files) /\ Ordered(order) /\ Awaits(order))
  BY <1>1, <1>3, <1>6 DEF OrderAt, Durable, Shown
<1>9. StateAt(trial, harness, order, files)
  BY <1>3, <1>6 DEF StateAt
<1>10. OrderAt(trial, harness, made, lost, order, files)
  BY <1>8 DEF OrderAt, Unprepared, Leads, Awaits, Has
<1>11. QED
  BY <1>4, <1>5, <1>7, <1>9, <1>10 DEF GoesOn, RunAt

LEMMA TrueForgeStep ==
  ASSUME trial \in Trials, trial.engine = "trueforge",
         NEW made \in BOOLEAN, NEW lost \in BOOLEAN,
         RunAt(trial, harness, made, lost, todo, disk), TrueForgeProcess
  PROVE  Ends \/ GoesOn(made, lost)
<1>1. disk \in TrueForgeDisk /\ todo \in Programs
  BY DEF RunAt, StateAt
<1>2. CurrentTurn \in {"first", "retry"}
  BY DEF CurrentTurn
<1>3. CASE AnswerCreate
  <2> DEFINE files == [disk EXCEPT !.answered = TRUE]
  <2>1. files \in TrueForgeDisk /\ (Shown(files) => Shown(disk))
    BY <1>1, TrueForgeDisks, TrueForgeShown, Zenon
  <2>2. Running("answer_create") /\ Persists(files)
    BY <1>3 DEF AnswerCreate
  <2> HIDE DEF files
  <2>3. QED
    BY <2>1, <2>2, TrueForgePersists
<1>4. CASE LogEvent
  <2>1. PICK event \in {"model.message", "tool.response"} : Running(event) /\ Logs(event)
    BY <1>4 DEF LogEvent
  <2> DEFINE files == [disk EXCEPT ![CurrentTurn].events = @ \cup {event}]
  <2>2. Persists(files)
    BY <2>1 DEF Logs
  <2>3. files \in TrueForgeDisk /\ (event = "model.message" => (Shown(files) => Shown(disk)))
    <3>1. CASE CurrentTurn = "first"
      BY <1>1, <3>1, TrueForgeDisks, TrueForgeShown, Zenon
    <3>2. CASE CurrentTurn = "retry"
      BY <1>1, <3>2, TrueForgeDisks, TrueForgeShown, Zenon
    <3>3. QED
      BY <1>2, <3>1, <3>2
  <2> HIDE DEF files
  <2>4. made \/ event = "model.message"
    BY <2>1, CommitRuns DEF CommitSteps
  <2>5. QED
    BY <2>1, <2>2, <2>3, <2>4, TrueForgePersists
<1>5. CASE CrashOnce
  <2> DEFINE files == [disk EXCEPT !.marker = TRUE]
  <2>1. todo # << >> /\ Head(todo) = trial.barrier
    BY <1>5 DEF CrashOnce, Running
  <2>2. files \in TrueForgeDisk /\ (Shown(files) => Shown(disk))
    BY <1>1, TrueForgeDisks, TrueForgeShown, Zenon
  <2>3. Tail(todo) \in Programs
    BY <1>1, <2>1, TailElements DEF Programs
  <2>4. files = [disk EXCEPT !.marker = TRUE]
    OBVIOUS
  <2> HIDE DEF files
  <2>5. /\ StateAt(trial, harness, Tail(todo), files)
        /\ StateAt(trial, harness, <<"kill">>, files)
        /\ Durable(trial, files) => Durable(trial, disk)
    BY <2>2, <2>3, OneStepPrograms DEF StateAt, Durable, Shown
  <2>6. QED
    BY <1>5, <2>4, <2>5, CrashOnceRuns
<1>6. CASE Kill
  BY <1>6 DEF Kill, ExitWith, Ends
<1>7. CASE TurnDone
  <2> DEFINE files == [disk EXCEPT ![CurrentTurn].status = "done"]
  <2>1. Running("turn_done") /\ Persists(files)
    BY <1>7 DEF TurnDone
  <2>2. files \in TrueForgeDisk
    <3>1. CASE CurrentTurn = "first"
      BY <1>1, <3>1, TrueForgeDisks, Zenon
    <3>2. CASE CurrentTurn = "retry"
      BY <1>1, <3>2, TrueForgeDisks, Zenon
    <3>3. QED
      BY <1>2, <3>1, <3>2
  <2>3. made
    BY <2>1, CommitRuns DEF CommitSteps
  <2> HIDE DEF files
  <2>4. QED
    BY <2>1, <2>2, <2>3, TrueForgePersists
<1>8. QED
  BY <1>3, <1>4, <1>5, <1>6, <1>7, TrueForgeCreates DEF TrueForgeProcess

-----------------------------------------------------------------------------
(***************************************************************************)
(* A step of any engine's process.                                         *)
(***************************************************************************)
EngineRejects == \/ trial.engine = "vercel" /\ RetryCharge
                 \/ trial.engine = "trueforge" /\ ToolThrows

\* An effect that throws has been answered, and only the program changes.
LEMMA RejectedReply ==
  ASSUME EngineRejects
  PROVE  /\ exit = "running" /\ exit' = "running" /\ todo # << >> /\ Head(todo) = "await"
         /\ \E a \in answers : a.req.id = request /\ Rejects(a.status)
         /\ UNCHANGED <<daemonVars, harnessVars, request, drawn, disk>>
<1>1. \E rest : RejectReply(rest)
  BY Zenon DEF EngineRejects, RetryCharge, ToolThrows
<1>2. QED
  BY <1>1 DEF RejectReply, Running

\* The fixture begins its charge again where it began it before.
LEMMA ChargeRetried ==
  ASSUME trial \in Trials, trial.engine = "vercel", VercelAt(trial, todo, disk),
         todo \in Programs, RetryCharge
  PROVE  /\ todo' \in Programs /\ VercelAt(trial, todo', disk)
         /\ \E v \in ClaimLeft : \E body \in Interleavings(v, StepBody("charge")), w \in Programs :
              /\ todo' = ArmedWith(body, trial.barrier) \o <<"charge">> \o w
              /\ \A i \in 1 .. Len(w) : w[i] = "start_step"
              /\ Len(w) = Len(Steps(trial)) - Len(disk.completed) - 1
         /\ Len(disk.completed) + 1 \in 1 .. Len(Steps(trial))
         /\ Steps(trial)[Len(disk.completed) + 1] = "charge"
<1> DEFINE k == Len(disk.completed)
           left == Len(Steps(trial)) - k
           at == Len(todo) - left + 1
<1>1. PICK n \in DOMAIN todo, body \in Interleavings(Unwritten, StepBody("charge")) :
        /\ todo[n] = "charge"
        /\ RejectReply(ArmedWith(body, trial.barrier)
                         \o <<"charge">> \o SubSeq(todo, n + 1, Len(todo)))
  BY DEF RetryCharge
<1>0. Unwritten \in ClaimLeft
  BY DEF Unwritten, ClaimLeft
<1> DEFINE u == ArmedWith(body, trial.barrier)
           w == SubSeq(todo, n + 1, Len(todo))
<1>2. todo # << >> /\ Head(todo) = "await" /\ todo' = u \o <<"charge">> \o w
  BY <1>1 DEF RejectReply, Running
<1>3. Len(todo) \in Nat /\ n \in 1 .. Len(todo)
  BY LenProperties DEF Programs
<1>4. disk \in VercelDisk /\ k \in 0 .. Len(Steps(trial)) /\ Len(Steps(trial)) \in {2, 3}
  BY VercelSteps DEF VercelAt
<1>5. todo \notin {<< >>, <<"kill">>, <<"hang">>}
  BY <1>2
<1>6. /\ at >= 1
      /\ \A m \in 1 .. Len(todo) :
           /\ m < at => todo[m] \notin StepSteps
           /\ m = at => todo[m] \in {"start_step", Steps(trial)[k + 1]}
           /\ m > at => todo[m] = "start_step"
  BY <1>5 DEF VercelAt
<1>7. u \in Programs /\ ~ Has(StepSteps, u)
  BY <1>0, VercelBodies
<1> HIDE DEF k, u
<1>8. n = at
  BY <1>1, <1>3, <1>4, <1>6 DEF StepSteps
<1>9. k + 1 \in 1 .. Len(Steps(trial)) /\ Steps(trial)[k + 1] = "charge"
  BY <1>1, <1>3, <1>4, <1>6, <1>8
<1>10. /\ w \in Programs /\ Len(w) = Len(Steps(trial)) - k - 1
       /\ \A i \in 1 .. Len(w) : w[i] = "start_step"
  <2>1. Len(todo) - n = Len(Steps(trial)) - k - 1 /\ Len(todo) - n \in Nat
    BY <1>3, <1>4, <1>8, <1>9
  <2>2. w = [i \in 1 .. Len(todo) - n |-> todo[n + i]]
    BY <1>3, <2>1 DEF Programs
  <2>3. \A i \in 1 .. Len(todo) - n : todo[n + i] = "start_step"
    <3> SUFFICES ASSUME NEW i \in 1 .. Len(todo) - n PROVE todo[n + i] = "start_step"
      OBVIOUS
    <3>1. n + i \in 1 .. Len(todo) /\ n + i > n
      BY <1>3
    <3>2. QED
      BY <1>6, <1>8, <3>1
  <2> DEFINE m == Len(todo) - n
  <2>4. w = [i \in 1 .. m |-> "start_step"]
    BY <2>2, <2>3
  <2>5. w \in Programs /\ Len(w) = m
    <3>1. "start_step" \in Label /\ m \in Nat
      BY <2>1, Labels
    <3> HIDE DEF m, w
    <3>2. QED
      BY <2>4, <3>1 DEF Programs
  <2> HIDE DEF w
  <2>6. QED
    BY <2>1, <2>2, <2>3, <2>5
<1> HIDE DEF w
<1>11. u \o <<"charge">> \o w \in Programs /\ VercelAt(trial, u \o <<"charge">> \o w, disk)
  BY <1>4, <1>7, <1>9, <1>10, VercelStarted DEF k
<1>12. QED
  BY <1>0, <1>2, <1>9, <1>10, <1>11 DEF u, w, k

LEMMA RejectRuns ==
  ASSUME trial \in Trials, NEW lost \in BOOLEAN,
         RunAt(trial, harness, TRUE, lost, todo, disk), EngineRejects
  PROVE  GoesOn(TRUE, lost)
<1>1. exit' = "running" /\ disk' = disk /\ todo # << >>
  BY RejectedReply
<1>2. todo \in Programs /\ StateAt(trial, harness, todo, disk)
  BY DEF RunAt, StateAt
<1>3. StateAt(trial, harness, todo', disk)
  <2>1. CASE trial.engine = "vercel"
    <3>1. RetryCharge
      BY <2>1 DEF EngineRejects
    <3>2. QED
      BY <1>2, <2>1, <3>1, ChargeRetried DEF StateAt
  <2>2. CASE trial.engine # "vercel"
    <3>1. trial.engine = "trueforge" /\ todo' = ArmedWith(Tail(todo), "none")
      BY <2>2 DEF EngineRejects, ToolThrows, RejectReply
    <3>2. Tail(todo) \in Programs
      BY <1>1, <1>2, TailElements DEF Programs
    <3>3. todo' \in Programs
      BY <3>1, <3>2, ArmedPlaces
    <3>4. QED
      BY <1>2, <3>1, <3>3 DEF StateAt
  <2>3. QED
    BY <2>1, <2>2
<1>4. QED
  BY <1>1, <1>3 DEF GoesOn, RunAt, OrderAt

EngineSend == \/ \E memo \in Draws : SendEffect(memo, EngineKeyOf(memo))
              \/ trial.engine = "dbos" /\ SendCharge

\* A process that does not send touches nothing but its program and its runtime.
ProcessOnly == exit = "running" /\ UNCHANGED <<daemonVars, harnessVars, request, drawn>>

LEMMA ProcessSplit == EngineProcess => EngineSend \/ ProcessOnly
<1> SUFFICES ASSUME EngineProcess, ~ EngineSend PROVE ProcessOnly
  OBVIOUS
<1>1. CASE LangGraphProcess
  BY <1>1 DEF LangGraphProcess, LangGraphKill, KillSelf, PutCheckpoint, PutWrites, Race,
              EmptyInput, ReadAdmission, Complete, Persists, Raise, Running, ProcessOnly
<1>2. CASE trial.engine = "dbos" /\ DbosProcess
  BY <1>2 DEF DbosProcess, KillSelf, Enqueue, CommitOutput, CommitOutcome, Persists, Raise,
              Running, ProcessOnly, EngineSend
<1>3. CASE TemporalProcess
  BY <1>3 DEF TemporalProcess, StartWorkflow, PollWorkflowTask, Decide, TemporalKill, KillSelf,
              PollActivity, Takes, WatchHistory, ReportActivity, TemporalSamplerFails,
              AwaitResult, Persists, Raise, Running, ProcessOnly
<1>4. CASE RestateProcess
  BY <1>4 DEF RestateProcess, CrashOnce, Kill, Journal, Persists, Running, ProcessOnly
<1>5. CASE VercelProcess
  BY <1>5 DEF VercelProcess, CrashOnce, Kill, CreateRun, StartStep, ClaimStep, CompleteStep,
              Persists, Running, ProcessOnly
<1>6. CASE TrueForgeProcess
  BY <1>6 DEF TrueForgeProcess, CreateTurn, AnswerCreate, LogEvent, Logs, CrashOnce, Kill,
              TurnDone, Persists, Running, ProcessOnly
<1>7. CASE ReceiveReply \/ EngineSamplerFails \/ Return
  BY <1>7 DEF ReceiveReply, EngineSamplerFails, SamplerFails, Raise, Return, Running, ProcessOnly
<1>8. CASE EngineRejects
  BY <1>8, RejectedReply DEF ProcessOnly
<1>9. QED
  BY <1>1, <1>2, <1>3, <1>4, <1>5, <1>6, <1>7, <1>8 DEF EngineProcess, EngineSend, EngineRejects

LEMMA SendMoves ==
  ASSUME EngineSend
  PROVE  /\ exit = "running" /\ todo # << >> /\ todo' = Tail(todo)
         /\ Head(todo) \in {"send", "send_billing", "send_shipping"}
         /\ UNCHANGED <<harnessVars, exit, disk>>
BY DEF EngineSend, SendEffect, SendCharge, SendPayload, Running, Advance

\* Whatever step a process takes, its program and its runtime's durable state go
\* on saying the same of each other.
LEMMA ProcessStep ==
  ASSUME trial \in Trials, NEW made \in BOOLEAN, NEW lost \in BOOLEAN,
         RunAt(trial, harness, made, lost, todo, disk),
         EngineProcess, ReceiveReply \/ EngineRejects => made
  PROVE  Ends \/ GoesOn(made, lost) \/ Return
<1>1. CASE EngineSend
  BY <1>1, SendMoves, LeadSteps, PassesBy DEF StepSteps
<1>2. CASE ReceiveReply
  <2>1. /\ todo # << >> /\ Head(todo) = "await" /\ todo' = Tail(todo) /\ disk' = disk
        /\ exit' = "running"
    BY <1>2 DEF ReceiveReply, Running, Advance
  <2>2. QED
    BY <1>2, <2>1, PassesBy DEF StepSteps
<1>3. CASE EngineSamplerFails
  BY <1>3, RaiseEnds DEF EngineSamplerFails, SamplerFails
<1>4. CASE EngineRejects
  BY <1>4, RejectRuns
<1>5. CASE /\ ~ EngineSend /\ ~ ReceiveReply /\ ~ EngineRejects
           /\ ~ EngineSamplerFails /\ ~ Return
  BY <1>5, LangGraphStep, DbosStep, TemporalStep, RestateStep, VercelStep, TrueForgeStep
     DEF EngineProcess, EngineSend, EngineRejects
<1>6. QED
  BY <1>1, <1>2, <1>3, <1>4, <1>5

-----------------------------------------------------------------------------
(***************************************************************************)
(* The programs the harness starts.                                        *)
(***************************************************************************)
\* An accepted run whose crash left nothing it could be resumed from.
LostAt(t, d) ==
  /\ t.engine = "langgraph" /\ HarnessOf(t) # "matrix"
  /\ d.checkpoint = "none" /\ d.events = << >>

LEMMA FreshDisks ==
  ASSUME NEW t \in Trials
  PROVE  /\ LangGraphFiles(t) \in LangGraphDisk /\ LangGraphFiles(t).events \in Accepted
         /\ LangGraphFiles(t).events # << >> => t.mode \in AdmissionArms
         /\ DbosTables(t) \in DbosDisk
         /\ TemporalHistory(t) \in TemporalDisk
         /\ RestateState(t) \in RestateDisk
         /\ LocalWorld(t) \in VercelDisk
         /\ Turns(t) \in TrueForgeDisk
<1>1. LangGraphFiles(t).events \in Accepted
      /\ (LangGraphFiles(t).events # << >> => t.mode \in AdmissionArms)
  BY DEF LangGraphFiles, Accepted, AdmissionArms
<1>2. LangGraphFiles(t) \in LangGraphDisk
  BY DEF LangGraphFiles, LangGraphDisk
<1>3. DbosTables(t) \in DbosDisk
  BY DEF DbosTables, DbosDisk
<1>4. TemporalHistory(t) \in TemporalDisk
  <2>1. 1 \in 1 .. MaxAttempts /\ 0 \in 0 .. MaxAttempts /\ 0 \in 0 .. 2
    BY TemporalAssumption
  <2>2. QED
    BY <2>1 DEF TemporalHistory, TemporalDisk
<1>5. RestateState(t) \in RestateDisk
  BY DEF RestateState, RestateDisk
<1>6. LocalWorld(t) \in VercelDisk
  BY DEF LocalWorld, VercelDisk
<1>7. Turns(t) \in TrueForgeDisk
  <2>1. NoTurn \in Turn
    BY DEF NoTurn, Turn
  <2>2. QED
    BY <2>1 DEF Turns, TrueForgeDisk
<1>8. QED
  BY <1>1, <1>2, <1>3, <1>4, <1>5, <1>6, <1>7

LEMMA VercelFresh ==
  ASSUME NEW t \in Trials
  PROVE  LET s == VercelCrashRun(t) IN
         s \in Programs /\ Ordered(s) /\ VercelAt(t, s, LocalWorld(t))
<1> DEFINE r == Replay(t, LocalWorld(t))
           u == <<"create_run">>
           k == Len(Steps(t))
<1>1. LocalWorld(t).completed = << >> /\ Len(<< >>) = 0
  BY DEF LocalWorld
<1>2. k \in {2, 3}
  BY VercelSteps
<1>3. /\ r \in Programs /\ Ordered(r) /\ Len(r) = k
      /\ \A n \in 1 .. Len(r) : r[n] = "start_step"
  BY <1>1, <1>2, VercelReplay
<1>4. u \in Programs /\ Ordered(u) /\ Len(u) = 1 /\ u[1] = "create_run"
  BY Labels DEF Programs, Ordered, Before, CommitSteps
<1> HIDE DEF r, u, k
<1> DEFINE s == u \o r
<1>5. /\ s \in Programs /\ Len(s) = k + 1 /\ s[1] = "create_run"
      /\ \A n \in 1 .. k : s[1 + n] = "start_step"
  <2>1. /\ s \in Programs /\ Len(s) = Len(u) + Len(r)
        /\ \A n \in 1 .. Len(u) : s[n] = u[n]
        /\ \A n \in 1 .. Len(r) : s[Len(u) + n] = r[n]
    BY <1>3, <1>4, ConcatPrograms
  <2> HIDE DEF s
  <2>2. QED
    BY <1>2, <1>3, <1>4, <2>1
<1>6. Ordered(s)
  BY <1>3, <1>4, OrderedConcat
<1> HIDE DEF s
<1>7. \A n \in 2 .. Len(s) : s[n] = "start_step"
  <2>1. ASSUME NEW n \in 2 .. Len(s) PROVE s[n] = "start_step"
    <3>1. n - 1 \in 1 .. k /\ n = 1 + (n - 1)
      BY <1>2, <1>5
    <3>2. QED
      BY <1>5, <3>1
  <2>2. QED
    BY <2>1
<1>8. VercelAt(t, s, LocalWorld(t))
  BY <1>1, <1>2, <1>5, <1>7, FreshDisks DEF VercelAt, StepSteps, k
<1>9. VercelCrashRun(t) = s
  BY DEF VercelCrashRun, s, u, r
<1>10. QED
  BY <1>5, <1>6, <1>8, <1>9

\* A trial begins with nothing durable, and its first process commits nothing
\* before the ledger has answered.
LEMMA FreshRuns ==
  ASSUME NEW t \in Trials
  PROVE  /\ RunAt(t, "crash_run", FALSE, FALSE, CrashRun(t), Fresh(t))
         /\ StateAt(t, "idle", << >>, Fresh(t))
         /\ ~ Durable(t, Fresh(t))
<1>1. /\ << >> \in Programs /\ Ordered(<< >>) /\ \A X : ~ Has(X, << >>)
      /\ \A X : AtMostOnce(X, << >>)
  BY NothingOrdered DEF AtMostOnce
<1>2. \A s : (~ Has({"read_admission"}, s) => AtMostOnce({"read_admission"}, s))
             /\ (~ Has({"completed"}, s) => AtMostOnce({"completed"}, s))
  BY DEF Has, AtMostOnce
<1>3. CASE t.engine = "langgraph"
  <2> DEFINE s == CrashRun(t)
             d == Fresh(t)
  <2>1. d = LangGraphFiles(t) /\ s = LangGraphCrashRun(t)
    BY <1>3 DEF Fresh, CrashRun
  <2>2. s \in Programs /\ Ordered(s) /\ ~ Has(AdmissionSteps, s)
    BY <2>1, LangGraphInput DEF LangGraphCrashRun
  <2>3. ~ Has({"read_admission"}, s) /\ ~ Has({"completed"}, s)
    BY <2>2 DEF Has, AdmissionSteps
  <2>4. d.checkpoint = "none" /\ d.writes = FALSE
    BY <2>1 DEF LangGraphFiles
  <2> HIDE DEF s, d
  <2>5. LangGraphAt(t, "crash_run", s, d) /\ LangGraphAt(t, "idle", << >>, d)
    BY <1>1, <1>2, <2>1, <2>2, <2>3, FreshDisks DEF LangGraphAt
  <2>6. ~ Durable(t, d) /\ Unprepared(t, s, d)
    BY <1>3, <2>4 DEF Durable, Unprepared
  <2>7. StateAt(t, "crash_run", s, d) /\ StateAt(t, "idle", << >>, d)
    BY <1>1, <1>3, <2>2, <2>5 DEF StateAt
  <2>8. QED
    BY <2>2, <2>6, <2>7 DEF RunAt, OrderAt, s, d
<1>4. CASE t.engine = "dbos"
  <2> DEFINE s == CrashRun(t)
             d == Fresh(t)
  <2>1. d = DbosTables(t) /\ s = DbosCrashRun(t)
    BY <1>4 DEF Fresh, CrashRun
  <2>2. /\ s \in Programs /\ Ordered(s) /\ AtMostOnce({"prepare_identity_step"}, s)
        /\ Has({"prepare_identity_step"}, s) => TwoPhase(t)
        /\ Has({"send_billing", "send_shipping"}, s) => DuplicateName(t)
    BY <2>1, DbosCrash
  <2>3. d.outputs = << >> /\ d.wf = "absent" /\ Len(d.outputs) = 0 /\ d \in DbosDisk
    BY <2>1, FreshDisks DEF DbosTables
  <2>4. 0 < ChargeAt(t)
    BY DEF ChargeAt
  <2> HIDE DEF s, d
  <2>5. DbosAt(t, s, d) /\ DbosAt(t, << >>, d)
    BY <1>1, <2>2, <2>3 DEF DbosAt
  <2>6. ~ Durable(t, d)
    <3>1. ChargeAt(t) \in {1, 2}
      BY DEF ChargeAt
    <3>2. ~ (Len(d.outputs) >= ChargeAt(t))
      BY <2>3, <3>1
    <3>3. QED
      BY <1>4, <2>3, <3>2 DEF Durable
  <2>7. Unprepared(t, s, d)
    BY <2>3 DEF Unprepared
  <2>8. StateAt(t, "crash_run", s, d) /\ StateAt(t, "idle", << >>, d)
    BY <1>1, <1>4, <2>2, <2>5 DEF StateAt
  <2>9. QED
    BY <2>2, <2>6, <2>7, <2>8 DEF RunAt, OrderAt, s, d
<1>5. CASE t.engine = "temporal"
  <2> DEFINE s == CrashRun(t)
             d == Fresh(t)
  <2>1. d = TemporalHistory(t) /\ s = <<"start_workflow", "poll">>
    BY <1>5 DEF Fresh, CrashRun, TemporalCrashRun
  <2>2. s \in Programs /\ Ordered(s)
    BY <2>1, TemporalPrograms
  <2>3. d.next = 0 /\ d.act = "none" /\ d.wf = "absent"
    BY <2>1 DEF TemporalHistory
  <2>4. Len(Activities(t)) \in {1, 2}
    BY DEF Activities
  <2> HIDE DEF s, d
  <2>5. TemporalAt(t, d)
    BY <2>1, <2>3, <2>4, FreshDisks DEF TemporalAt
  <2>6. ~ Durable(t, d) /\ Unprepared(t, s, d)
    BY <1>5, <2>3 DEF Durable, Unprepared
  <2>7. StateAt(t, "crash_run", s, d) /\ StateAt(t, "idle", << >>, d)
    BY <1>1, <1>5, <2>2, <2>5 DEF StateAt
  <2>8. QED
    BY <2>2, <2>6, <2>7 DEF RunAt, OrderAt, s, d
<1>6. CASE t.engine = "restate"
  <2> DEFINE s == CrashRun(t)
             d == Fresh(t)
  <2>1. d = RestateState(t) /\ s = RestateRun(t, d)
    BY <1>6 DEF Fresh, CrashRun
  <2> HIDE DEF s, d
  <2>2. s \in Programs /\ Ordered(s)
    BY <2>1, RestatePrograms
  <2>3. ~ Durable(t, d) /\ Unprepared(t, s, d)
    BY <1>6, <2>1 DEF Durable, Unprepared, RestateState
  <2>4. StateAt(t, "crash_run", s, d) /\ StateAt(t, "idle", << >>, d)
    BY <1>1, <1>6, <2>1, <2>2, FreshDisks DEF StateAt
  <2>5. QED
    BY <2>2, <2>3, <2>4 DEF RunAt, OrderAt, s, d
<1>7. CASE t.engine = "vercel"
  <2> DEFINE s == CrashRun(t)
             d == Fresh(t)
  <2>1. d = LocalWorld(t) /\ s = VercelCrashRun(t)
    BY <1>7 DEF Fresh, CrashRun
  <2> HIDE DEF s, d
  <2>2. s \in Programs /\ Ordered(s) /\ VercelAt(t, s, d)
    BY <2>1, VercelFresh
  <2>3. VercelAt(t, << >>, d)
    BY <2>2 DEF VercelAt
  <2>4. ~ Durable(t, d)
    <3>1. ChargeAt(t) \in {1, 2}
      BY DEF ChargeAt
    <3>2. Len(d.completed) = 0
      BY <2>1 DEF LocalWorld
    <3>3. ~ (Len(d.completed) >= ChargeAt(t))
      BY <3>1, <3>2
    <3>4. QED
      BY <1>7, <3>3 DEF Durable
  <2>5. Unprepared(t, s, d)
    BY <1>7 DEF Unprepared
  <2>6. StateAt(t, "crash_run", s, d) /\ StateAt(t, "idle", << >>, d)
    BY <1>1, <1>7, <2>2, <2>3 DEF StateAt
  <2>7. QED
    BY <2>2, <2>4, <2>5, <2>6 DEF RunAt, OrderAt, s, d
<1>8. CASE t.engine = "trueforge"
  <2> DEFINE s == CrashRun(t)
             d == Fresh(t)
  <2>1. d = Turns(t) /\ s = <<"create_turn">>
    BY <1>8 DEF Fresh, CrashRun, TrueForgeCrashRun
  <2>2. s \in Programs /\ Ordered(s)
    BY <2>1, Labels DEF Programs, Ordered, Before, CommitSteps
  <2> HIDE DEF s, d
  <2>3. ~ Durable(t, d) /\ Unprepared(t, s, d)
    BY <1>8, <2>1 DEF Durable, Unprepared, Turns, NoTurn
  <2>4. StateAt(t, "crash_run", s, d) /\ StateAt(t, "idle", << >>, d)
    BY <1>1, <1>8, <2>1, <2>2, FreshDisks DEF StateAt
  <2>5. QED
    BY <2>2, <2>3, <2>4 DEF RunAt, OrderAt, s, d
<1>9. QED
  BY <1>3, <1>4, <1>5, <1>6, <1>7, <1>8, EngineRow

\* The recovery of a process that is gone commits nothing that was not made, and
\* makes what was not unless the run is lost.
LEMMA RecoveryRuns ==
  ASSUME NEW t \in Trials, NEW d, StateAt(t, "crash_run", << >>, d),
         NEW made \in BOOLEAN, NEW lost \in BOOLEAN,
         Durable(t, d) => made, LostAt(t, d) => lost
  PROVE  RunAt(t, "recovery_run", made, lost, RecoveryRun(t, d), d)
<1>1. CASE t.engine = "langgraph"
  <2> DEFINE s == RecoveryRun(t, d)
  <2>1. s = LangGraphRecoveryRun(t, d)
    BY <1>1 DEF RecoveryRun
  <2>2. /\ d \in LangGraphDisk /\ d.events \in Accepted
        /\ d.events # << >> => t.mode \in AdmissionArms
    BY <1>1 DEF StateAt, LangGraphAt
  <2>3. /\ s \in Programs
        /\ ~ Has({"completed"}, s) /\ AtMostOnce({"read_admission"}, s)
        /\ d.checkpoint = "done" \/ d.writes \/ Ordered(s)
        /\ d.checkpoint \in {"none", "done"} \/ d.writes \/ Awaits(s)
        /\ d.checkpoint = "none" => Has({"empty_input"}, s)
        /\ t.mode \in AdmissionArms => Has({"read_admission"}, s)
    BY <2>1, <2>2, LangGraphRecovery
  <2> HIDE DEF s
  <2>4. AtMostOnce({"completed"}, s)
    BY <2>3 DEF Has, AtMostOnce
  <2>5. StateAt(t, "recovery_run", s, d)
    BY <1>1, <2>2, <2>3, <2>4 DEF StateAt, LangGraphAt
  <2>6. Durable(t, d) <=> d.writes \/ d.checkpoint = "done"
    BY <1>1 DEF Durable
  <2>7. Unprepared(t, s, d)
    BY <1>1 DEF Unprepared
  <2>8. made \/ lost \/ Has(Leads(t, d), s)
    <3>1. SUFFICES ASSUME ~ made, ~ lost PROVE Has(Leads(t, d), s)
      OBVIOUS
    <3>2. d.checkpoint # "done" /\ ~ d.writes
      BY <2>6, <3>1
    <3>3. CASE d.checkpoint # "none"
      <4>1. Has({"await"}, s)
        BY <2>3, <3>2, <3>3 DEF Awaits
      <4>2. "await" \in Leads(t, d)
        BY <1>1 DEF Leads
      <4>3. QED
        BY <4>1, <4>2 DEF Has
    <3>4. CASE d.checkpoint = "none" /\ HarnessOf(t) = "matrix"
      <4>1. "empty_input" \in Leads(t, d)
        BY <1>1, <3>4 DEF Leads
      <4>2. QED
        BY <2>3, <3>4, <4>1 DEF Has
    <3>5. CASE d.checkpoint = "none" /\ HarnessOf(t) # "matrix"
      <4>1. d.events # << >>
        BY <1>1, <3>1, <3>5 DEF LostAt
      <4>2. "read_admission" \in Leads(t, d)
        BY <1>1, <4>1 DEF Leads
      <4>3. QED
        BY <2>2, <2>3, <4>1, <4>2 DEF Has
    <3>6. QED
      BY <3>3, <3>4, <3>5
  <2>9. QED
    BY <2>3, <2>5, <2>6, <2>7, <2>8 DEF RunAt, OrderAt, s
<1>2. CASE t.engine = "dbos"
  <2> DEFINE s == RecoveryRun(t, d)
  <2>1. s = DbosRecoveryRun(t, d)
    BY <1>2 DEF RecoveryRun
  <2>2. d \in DbosDisk
    BY <1>2 DEF StateAt, DbosAt
  <2>3. /\ s \in Programs
        /\ Len(d.outputs) >= ChargeAt(t) \/ d.wf = "SUCCESS" \/
             (Ordered(s) /\ Has({"await", "no_workflow"}, s))
        /\ AtMostOnce({"prepare_identity_step"}, s)
        /\ Has({"prepare_identity_step"}, s) => TwoPhase(t) /\ d.outputs = << >>
        /\ Has({"send_billing", "send_shipping"}, s) => DuplicateName(t)
    BY <2>1, <2>2, DbosRecovery
  <2> HIDE DEF s
  <2>4. StateAt(t, "recovery_run", s, d)
    BY <1>2, <2>2, <2>3 DEF StateAt, DbosAt
  <2>5. Unprepared(t, s, d)
    BY <2>3 DEF Unprepared
  <2>6. Durable(t, d) <=> Len(d.outputs) >= ChargeAt(t) \/ d.wf = "SUCCESS"
    BY <1>2 DEF Durable
  <2>7. Leads(t, d) = {"await", "no_workflow"}
    BY <1>2 DEF Leads
  <2>8. QED
    BY <2>3, <2>4, <2>5, <2>6, <2>7 DEF RunAt, OrderAt, s
<1>3. CASE t.engine = "temporal"
  <2> DEFINE s == RecoveryRun(t, d)
  <2>1. s = <<"poll">>
    BY <1>3 DEF RecoveryRun, TemporalRecoveryRun
  <2>2. s \in Programs /\ Ordered(s) /\ Has({"poll"}, s)
    BY <2>1, TemporalPrograms
  <2> HIDE DEF s
  <2>3. StateAt(t, "recovery_run", s, d)
    BY <1>3, <2>2 DEF StateAt
  <2>4. Leads(t, d) = {"poll"} /\ Unprepared(t, s, d)
    BY <1>3 DEF Leads, Unprepared
  <2>5. QED
    BY <2>2, <2>3, <2>4 DEF RunAt, OrderAt, s
<1>4. CASE t.engine = "restate"
  <2> DEFINE s == RecoveryRun(t, d)
  <2>1. s = RestateRun(t, d)
    BY <1>4 DEF RecoveryRun
  <2> HIDE DEF s
  <2>2. s \in Programs /\ Ordered(s) /\ (d.journaled \/ Awaits(s))
    BY <2>1, RestatePrograms
  <2>3. StateAt(t, "recovery_run", s, d)
    BY <1>4, <2>2 DEF StateAt
  <2>4. Unprepared(t, s, d) /\ (Durable(t, d) <=> d.journaled)
    BY <1>4 DEF Durable, Unprepared
  <2>5. Awaits(s) => Has(Leads(t, d), s)
    <3>1. "await" \in Leads(t, d)
      BY <1>4 DEF Leads
    <3>2. QED
      BY <3>1 DEF Has, Awaits
  <2>6. QED
    BY <2>2, <2>3, <2>4, <2>5 DEF RunAt, OrderAt, s
<1>5. CASE t.engine = "vercel"
  <2> DEFINE s == RecoveryRun(t, d)
             left == Len(Steps(t)) - Len(d.completed)
  <2>1. s = Replay(t, d)
    BY <1>5 DEF RecoveryRun, VercelRecoveryRun
  <2>2. d \in VercelDisk /\ Len(d.completed) \in 0 .. Len(Steps(t))
    BY <1>5 DEF StateAt, VercelAt
  <2>3. /\ s \in Programs /\ Ordered(s) /\ Len(s) = left
        /\ \A n \in 1 .. Len(s) : s[n] = "start_step"
    BY <2>1, <2>2, VercelReplay
  <2>4. left \in Nat /\ Len(Steps(t)) = ChargeAt(t) + 1 /\ ChargeAt(t) \in {1, 2}
        /\ Len(d.completed) \in Nat
    BY <2>2, VercelSteps
  <2> HIDE DEF s
  <2>5. VercelAt(t, s, d)
    <3>1. Len(s) - left + 1 = 1
      BY <2>3, <2>4
    <3>2. \A n \in 1 .. Len(s) :
            /\ n < 1 => s[n] \notin StepSteps
            /\ n = 1 => s[n] \in {"start_step", Steps(t)[Len(d.completed) + 1]}
            /\ n > 1 => s[n] = "start_step"
      BY <2>3, <2>4
    <3>3. QED
      BY <2>2, <3>1, <3>2 DEF VercelAt
  <2>6. StateAt(t, "recovery_run", s, d)
    BY <1>5, <2>3, <2>5 DEF StateAt
  <2>7. Unprepared(t, s, d) /\ (Durable(t, d) <=> Len(d.completed) >= ChargeAt(t))
    BY <1>5 DEF Durable, Unprepared
  <2>8. Durable(t, d) \/ Has(Leads(t, d), s)
    <3>1. SUFFICES ASSUME ~ (Len(d.completed) >= ChargeAt(t)) PROVE Has(Leads(t, d), s)
      BY <2>7
    <3>2. 1 \in 1 .. Len(s)
      BY <2>3, <2>4, <3>1
    <3>3. "start_step" \in Leads(t, d)
      BY <1>5 DEF Leads
    <3>4. QED
      BY <2>3, <3>2, <3>3 DEF Has
  <2>9. QED
    BY <2>3, <2>6, <2>7, <2>8 DEF RunAt, OrderAt, s
<1>6. CASE t.engine = "trueforge"
  <2> DEFINE s == RecoveryRun(t, d)
  <2>1. s = <<"create_turn">>
    BY <1>6 DEF RecoveryRun, TrueForgeRecoveryRun
  <2>2. s \in Programs /\ Ordered(s) /\ Has({"create_turn"}, s)
    BY <2>1, Labels DEF Programs, Ordered, Before, CommitSteps, Has
  <2> HIDE DEF s
  <2>3. StateAt(t, "recovery_run", s, d)
    BY <1>6, <2>2 DEF StateAt
  <2>4. Unprepared(t, s, d) /\ "create_turn" \in Leads(t, d)
    BY <1>6 DEF Leads, Unprepared
  <2>5. Has(Leads(t, d), s)
    BY <2>2, <2>4 DEF Has
  <2>6. QED
    BY <2>2, <2>3, <2>4, <2>5 DEF RunAt, OrderAt, s
<1>7. QED
  BY <1>1, <1>2, <1>3, <1>4, <1>5, <1>6, EngineRow

LEMMA StateLater ==
  ASSUME NEW t, NEW h, NEW s, NEW d, StateAt(t, h, s, d), NEW i, i \notin {"idle", "crash_run"}
  PROVE  StateAt(t, i, s, d)
BY DEF StateAt, LangGraphAt

-----------------------------------------------------------------------------
(***************************************************************************)
(* Types.                                                                  *)
(***************************************************************************)
PhaseOK ==
  /\ exit = "running" => harness \in {"crash_run", "recovery_run"}
  /\ exit # "running" => todo = << >>
  /\ harness \in {"crash_run", "recovery_run"} => ~ sealed /\ exit # "none"
  /\ harness \in {"seal", "dump", "classify", "classified"} => exit \in {"zero", "stalled"}
  /\ harness \in {"dump", "classify", "classified"} => sealed
  /\ harness # "idle" => epoch \in 1 .. MaxEpochs

RunTyped == StateAt(trial, harness, todo, disk)
EngineTyped == HarnessTypeOK /\ PhaseOK /\ RunTyped

LEMMA EngineKeys ==
  ASSUME NEW memo \in Draws
  PROVE  /\ memo \in Payloads \ Unhashable /\ memo \in Memos \cup {NoMemo}
         /\ EngineKeyOf(memo) \in Keys \cup {NoKey}
<1>1. memo \in Memos \cup {NoMemo}
  BY DEF Draws
<1>2. memo \in TrialPayloads /\ ContentKey(memo) \in EffectKeys /\ PreparedKey \in EffectKeys
  BY <1>1 DEF TrialPayloads, EffectKeys
<1>3. QED
  BY <1>1, <1>2, TrialAssumption DEF EngineKeyOf

LEMMA IntentTyped ==
  ASSUME EngineTyped, harness # "idle"
  PROVE  Intent \in Intents
BY TrialAssumption DEF EngineTyped, HarnessTypeOK, PhaseOK, Intent

\* The request a process sends.
Sends(r) ==
  /\ r \in Request
  /\ r.id = sent + 1 /\ r.op = "execute" /\ r.intent = Intent /\ r.epoch = epoch
  /\ r.payload \notin Unhashable
  /\ \/ \E memo \in Draws : r.key = EngineKeyOf(memo) /\ r.payload = memo
     \/ trial.engine = "dbos" /\ Has({"send_billing", "send_shipping"}, todo) /\ r.key = NoKey
  /\ sent' = sent + 1 /\ request' = sent + 1
  /\ wire' = wire \cup {r}
  /\ UNCHANGED <<ledgerVars, store, sealed, answers, epoch, harnessVars, exit, disk>>

LEMMA SendRequest ==
  ASSUME EngineTyped, EngineSend
  PROVE  /\ \E r : Sends(r)
         /\ drawn' \subseteq Memos
         /\ [DaemonNext]_daemonVars
<1>1. exit = "running" /\ harness # "idle"
  BY SendMoves DEF EngineTyped, PhaseOK
<1>2. Intent \in Intents /\ epoch \in 0 .. MaxEpochs
  BY <1>1, IntentTyped DEF EngineTyped, HarnessTypeOK, DaemonTypeOK
<1>3. ASSUME NEW step, NEW key \in Keys \cup {NoKey}, NEW payload \in Payloads \ Unhashable,
             SendPayload(step, key, payload),
             \/ \E memo \in Draws : key = EngineKeyOf(memo) /\ payload = memo
             \/ /\ trial.engine = "dbos" /\ Has({"send_billing", "send_shipping"}, todo)
                /\ key = NoKey
      PROVE  (\E r : Sends(r)) /\ [DaemonNext]_daemonVars
  <2> DEFINE r == [id |-> sent + 1, op |-> "execute", intent |-> Intent,
                   key |-> key, payload |-> payload, epoch |-> epoch]
  <2>1. /\ sent < MaxRequests /\ sent' = sent + 1 /\ request' = sent' /\ wire' = wire \cup {r}
        /\ UNCHANGED <<ledgerVars, store, sealed, answers, epoch, harnessVars, exit, disk>>
    BY <1>3 DEF SendPayload, SendExecute, Send
  <2>2. sent + 1 \in RequestId
    BY <2>1, DaemonAssumption DEF EngineTyped, HarnessTypeOK, DaemonTypeOK, RequestId
  <2>3. r \in Request
    BY <1>2, <1>3, <2>2 DEF Request
  <2>4. Sends(r)
    BY <1>3, <2>1, <2>3 DEF Sends
  <2>5. DaemonNext
    BY <1>2, <1>3 DEF SendPayload, DaemonNext
  <2>6. QED
    BY <2>4, <2>5
<1>4. CASE \E memo \in Draws : SendEffect(memo, EngineKeyOf(memo))
  <2>1. PICK memo \in Draws : SendEffect(memo, EngineKeyOf(memo))
    BY <1>4
  <2>2. SendPayload("send", EngineKeyOf(memo), memo) /\ drawn' = (drawn \cup {memo}) \ {NoMemo}
    BY <2>1 DEF SendEffect
  <2>3. drawn' \subseteq Memos
    BY <2>2, EngineKeys DEF EngineTyped, HarnessTypeOK
  <2>4. QED
    BY <1>3, <2>2, <2>3, EngineKeys
<1>5. CASE trial.engine = "dbos" /\ SendCharge
  <2>1. PICK step \in {"send_billing", "send_shipping"}, payload \in ModulePayloads :
          SendPayload(step, NoKey, payload) /\ drawn' = drawn
    BY <1>5 DEF SendCharge, ModulePayloads
  <2>2. payload \in Payloads \ Unhashable
    BY TrialAssumption DEF TrialPayloads
  <2>3. Has({"send_billing", "send_shipping"}, todo)
    <3>1. todo \in Programs /\ todo # << >> /\ Head(todo) = step
      BY <2>1 DEF SendPayload, Running, EngineTyped, RunTyped, StateAt
    <3>2. QED
      BY <3>1, TailElements DEF Has, Programs
  <2>4. QED
    BY <1>3, <1>5, <2>1, <2>2, <2>3 DEF EngineTyped, HarnessTypeOK
<1>6. QED
  BY <1>4, <1>5 DEF EngineSend

\* What a step can be, as far as the harness and the ledger can tell.
Removed ==
  /\ exit = "running" /\ exit' \in {"killed", "stalled"} /\ todo' = << >>
  /\ harness' \in {harness, "failed"}
  /\ UNCHANGED <<daemonVars, trial, before, dump, outcome, request, drawn, disk>>

GivenUp ==
  /\ harness \in {"crash_run", "recovery_run"} /\ exit # "running"
  /\ harness' = "failed"
  /\ UNCHANGED <<daemonVars, processVars, trial, before, dump, outcome>>

ServerTimesOut == WorkflowTaskTimesOut \/ ActivityTimesOut
TrialStarts == \E t \in Trials : StartTrial(t, Fresh(t), CrashRun(t))

LEMMA EngineSteps ==
  EngineNext => \/ EngineProcess \/ Removed \/ ServerTimesOut \/ TrialStarts
                \/ CrashRunEnds(RecoveryRun(trial, disk)) \/ GivenUp \/ RecoveryRunEnds
                \/ SealLedger \/ ReadDump \/ ClassifyTrial(Verdict) \/ Daemon
<1> SUFFICES ASSUME EngineNext, ~ EngineProcess
             PROVE  \/ Removed \/ ServerTimesOut \/ TrialStarts
                    \/ CrashRunEnds(RecoveryRun(trial, disk)) \/ GivenUp \/ RecoveryRunEnds
                    \/ SealLedger \/ ReadDump \/ ClassifyTrial(Verdict) \/ Daemon
  OBVIOUS
<1>1. StrayKill => Removed
  BY DEF StrayKill, ExitWith, Removed, harnessVars
<1>2. Timeout => Removed
  BY DEF Timeout, ExitWith, Removed
<1>3. RecoveryStalls => Removed
  BY DEF RecoveryStalls, Running, ExitWith, Removed, harnessVars
<1>4. NoRunFound \/ TurnUnanswered \/ TrialFails => GivenUp
  BY DEF NoRunFound, TurnUnanswered, TrialFails, Expected, GivenUp
<1>5. WorkflowTaskTimesOut \/ LostAttemptTimesOut \/ SlowAttemptTimesOut => ServerTimesOut
  BY DEF LostAttemptTimesOut, SlowAttemptTimesOut, ServerTimesOut
<1>6. QED
  BY <1>1, <1>2, <1>3, <1>4, <1>5 DEF EngineNext, EngineHarness, EngineGoesOn, TrialStarts

\* Every step of an engine's trial is one of the daemon's operations or none of
\* its business.
LEMMA EngineStepRunsDaemon ==
  EngineTyped /\ [EngineNext]_allVars => [DaemonNext]_daemonVars
<1> SUFFICES ASSUME EngineTyped, EngineNext PROVE [DaemonNext]_daemonVars
  BY DEF allVars
<1>1. CASE EngineProcess
  BY <1>1, ProcessSplit, SendRequest DEF ProcessOnly
<1>2. CASE TrialStarts
  BY <1>2 DEF TrialStarts, StartTrial, DaemonNext
<1>3. CASE SealLedger
  BY <1>3 DEF SealLedger, DaemonNext
<1>4. CASE Daemon
  BY <1>4 DEF Daemon, DaemonNext
<1>5. CASE UNCHANGED daemonVars
  BY <1>5
<1>6. QED
  BY <1>1, <1>2, <1>3, <1>4, <1>5, EngineSteps
     DEF Removed, ServerTimesOut, WorkflowTaskTimesOut, ActivityTimesOut, ServerStep,
         CrashRunEnds, GivenUp, RecoveryRunEnds, ReadDump, ClassifyTrial

\* A step of a process keeps what its program and its durable state say.
LEMMA ProcessTyped ==
  ASSUME EngineTyped, EngineProcess
  PROVE  /\ exit = "running" /\ exit' \in {"running", "killed", "error", "zero"}
         /\ StateAt(trial, harness, todo', disk')
         /\ exit' # "running" => todo' = << >> /\ disk' = disk
         /\ UNCHANGED <<harnessVars, ledgerVars, store, sealed, answers, epoch>>
<1>1. exit = "running" /\ UNCHANGED <<harnessVars, ledgerVars, store, sealed, answers, epoch>>
  <2>1. CASE EngineSend
    BY <2>1, SendMoves, SendRequest DEF Sends
  <2>2. CASE ProcessOnly
    BY <2>2 DEF ProcessOnly, daemonVars
  <2>3. QED
    BY <2>1, <2>2, ProcessSplit
<1>2. RunAt(trial, harness, TRUE, TRUE, todo, disk) /\ trial \in Trials
  BY DEF EngineTyped, RunTyped, HarnessTypeOK, RunAt, OrderAt
<1>3. Ends \/ GoesOn(TRUE, TRUE) \/ Return
  BY <1>2, ProcessStep
<1>4. CASE Ends \/ Return
  <2>1. todo' = << >> /\ disk' = disk /\ exit' \in {"killed", "error", "zero"}
    BY <1>4 DEF Ends, Return, ExitWith
  <2>2. QED
    BY <1>1, <1>2, <2>1, StateEmptied DEF EngineTyped, RunTyped
<1>5. CASE GoesOn(TRUE, TRUE)
  BY <1>1, <1>5 DEF GoesOn, RunAt
<1>6. QED
  BY <1>3, <1>4, <1>5

LEMMA VerdictTyped == Verdict \in Outcome \cup {"agrees", "disagrees", "raises"}
<1>1. Classify(Intent, dump, store) \in Outcome \cup {"raises"}
  BY DEF Classify, CrossingOutcome, Outcome
<1>2. "void" \in Outcome
  BY DEF Outcome
<1>3. QED
  BY <1>1, <1>2 DEF Verdict

LEMMA EngineTypedStep == EngineTyped /\ [EngineNext]_allVars => EngineTyped'
<1> SUFFICES ASSUME EngineTyped, [EngineNext]_allVars PROVE EngineTyped'
  OBVIOUS
<1>1. DaemonTypeOK'
  BY EngineStepRunsDaemon, DaemonTypeStep DEF EngineTyped, HarnessTypeOK
<1>2. CASE UNCHANGED allVars
  BY <1>1, <1>2
     DEF allVars, trialVars, daemonVars, EngineTyped, HarnessTypeOK, PhaseOK, RunTyped
<1>3. CASE EngineProcess
  <2>1. request' \in 0 .. MaxRequests /\ drawn' \subseteq Memos
    <3>1. CASE EngineSend
      BY <1>1, <3>1, SendRequest DEF Sends, DaemonTypeOK
    <3>2. CASE ProcessOnly
      BY <3>2 DEF ProcessOnly, EngineTyped, HarnessTypeOK
    <3>3. QED
      BY <1>3, <3>1, <3>2, ProcessSplit
  <2>2. HarnessTypeOK'
    BY <1>1, <1>3, <2>1, ProcessTyped DEF EngineTyped, HarnessTypeOK, harnessVars
  <2>3. PhaseOK'
    BY <1>3, ProcessTyped DEF EngineTyped, PhaseOK, harnessVars
  <2>4. RunTyped'
    BY <1>3, ProcessTyped DEF RunTyped, harnessVars
  <2>5. QED
    BY <2>2, <2>3, <2>4 DEF EngineTyped
<1>4. CASE Removed
  <2>1. RunTyped'
    BY <1>4, StateEmptied DEF Removed, EngineTyped, RunTyped, HarnessTypeOK
  <2>2. QED
    BY <1>1, <1>4, <2>1 DEF Removed, EngineTyped, HarnessTypeOK, PhaseOK, daemonVars
<1>5. CASE ServerTimesOut
  <2>1. UNCHANGED <<daemonVars, harnessVars, todo, exit, request, drawn>>
    BY <1>5 DEF ServerTimesOut, WorkflowTaskTimesOut, ActivityTimesOut, ServerStep
  <2>2. StateAt(trial, harness, todo, disk')
    BY <1>5, ServerStepKeeps DEF ServerTimesOut, EngineTyped, RunTyped, HarnessTypeOK
  <2>3. RunTyped'
    BY <2>1, <2>2 DEF RunTyped, harnessVars
  <2>4. QED
    BY <1>1, <2>1, <2>3 DEF EngineTyped, HarnessTypeOK, PhaseOK, daemonVars, harnessVars
<1>6. CASE TrialStarts
  <2>1. PICK t \in Trials : StartTrial(t, Fresh(t), CrashRun(t))
    BY <1>6 DEF TrialStarts
  <2>2. /\ trial' = t /\ harness' = "crash_run" /\ todo' = CrashRun(t) /\ disk' = Fresh(t)
        /\ exit' = "running" /\ request' = 0 /\ drawn' = {} /\ outcome' = "none"
        /\ sealed' = FALSE /\ epoch < MaxEpochs /\ epoch' = epoch + 1
    BY <2>1 DEF StartTrial, Spawn, HandleReset
  <2>3. RunTyped'
    BY <2>2, FreshRuns DEF RunTyped, RunAt
  <2>4. epoch' \in 1 .. MaxEpochs /\ request' \in 0 .. MaxRequests
    BY <2>2, DaemonAssumption DEF EngineTyped, HarnessTypeOK, DaemonTypeOK
  <2>5. QED
    BY <1>1, <2>2, <2>3, <2>4 DEF EngineTyped, HarnessTypeOK, PhaseOK
<1>7. CASE CrashRunEnds(RecoveryRun(trial, disk))
  <2>1. /\ harness = "crash_run" /\ exit = "killed" /\ harness' = "recovery_run"
        /\ todo' = RecoveryRun(trial, disk) /\ exit' = "running" /\ request' = 0
        /\ UNCHANGED <<daemonVars, trial, outcome, drawn, disk>>
    BY <1>7 DEF CrashRunEnds, Expected, Spawn
  <2>2. StateAt(trial, "crash_run", << >>, disk)
    BY <2>1 DEF EngineTyped, PhaseOK, RunTyped
  <2>3. RunTyped'
    BY <2>1, <2>2, RecoveryRuns DEF RunTyped, RunAt, EngineTyped, HarnessTypeOK
  <2>4. request' \in 0 .. MaxRequests
    BY <2>1, DaemonAssumption
  <2>5. QED
    BY <1>1, <2>1, <2>3, <2>4 DEF EngineTyped, HarnessTypeOK, PhaseOK, daemonVars
<1>8. CASE GivenUp \/ RecoveryRunEnds \/ ReadDump
  <2>1. /\ UNCHANGED <<daemonVars, processVars, trial, outcome>>
        /\ harness' \in {"failed", "seal", "classify"} /\ exit # "running"
        /\ harness' = "seal" => exit \in {"zero", "stalled"}
        /\ harness' = "classify" => sealed /\ exit \in {"zero", "stalled"}
        /\ harness # "idle"
    BY <1>8 DEF GivenUp, RecoveryRunEnds, ReadDump, Expected, EngineTyped, PhaseOK
  <2>2. RunTyped'
    BY <2>1, StateLater DEF EngineTyped, RunTyped, processVars
  <2>3. QED
    BY <1>1, <2>1, <2>2 DEF EngineTyped, HarnessTypeOK, PhaseOK, daemonVars, processVars
<1>9. CASE SealLedger
  <2>1. /\ UNCHANGED <<processVars, trial, outcome, epoch>> /\ sealed' = TRUE
        /\ harness = "seal" /\ harness' = "dump"
    BY <1>9 DEF SealLedger, HandleSeal
  <2>2. RunTyped'
    BY <2>1, StateLater DEF EngineTyped, RunTyped, processVars
  <2>3. QED
    BY <1>1, <2>1, <2>2 DEF EngineTyped, HarnessTypeOK, PhaseOK, processVars
<1>10. CASE ClassifyTrial(Verdict)
  <2>1. /\ UNCHANGED <<daemonVars, processVars, trial>>
        /\ harness = "classify" /\ harness' \in {"failed", "classified"}
        /\ outcome' \in Outcome \cup {"none", "agrees", "disagrees"}
    BY <1>10, VerdictTyped DEF ClassifyTrial, EngineTyped, HarnessTypeOK
  <2>2. RunTyped'
    BY <2>1, StateLater DEF EngineTyped, RunTyped, processVars
  <2>3. QED
    BY <1>1, <2>1, <2>2 DEF EngineTyped, HarnessTypeOK, PhaseOK, daemonVars, processVars
<1>11. CASE Daemon
  <2>1. PICK req \in wire : Handle(req)
    BY <1>11 DEF Daemon
  <2>2. sealed' = sealed /\ epoch' = epoch /\ UNCHANGED trialVars
    BY <1>11, <2>1, HandleSplit DEF Daemon, Reply
  <2>3. RunTyped'
    BY <2>2 DEF EngineTyped, RunTyped, trialVars
  <2>4. QED
    BY <1>1, <2>2, <2>3 DEF EngineTyped, HarnessTypeOK, PhaseOK, trialVars
<1>12. QED
  BY <1>2, <1>3, <1>4, <1>5, <1>6, <1>7, <1>8, <1>9, <1>10, <1>11, EngineSteps

LEMMA EngineTypedInit == EngineInit => EngineTyped
<1> SUFFICES ASSUME NEW t \in Trials, TrialInit(t, Fresh(t)) PROVE EngineTyped
  BY DEF EngineInit
<1>1. DaemonInit => LedgerTypeOK
  BY FreshStateType DEF DaemonInit
<1>2. 0 \in 0 .. MaxRequests /\ 0 \in 0 .. MaxEpochs
  BY DaemonAssumption
<1>3. DaemonTypeOK
  BY <1>1, <1>2 DEF TrialInit, DaemonInit, DaemonTypeOK
<1>4. RunTyped
  BY FreshRuns DEF TrialInit, RunTyped
<1>5. QED
  BY <1>2, <1>3, <1>4 DEF TrialInit, EngineTyped, HarnessTypeOK, PhaseOK

\* Through every sequence of trials of the real engines, whatever is killed or
\* times out, what each engine has made durable keeps its type, and so do the
\* harness and the daemon: every program that a crash leaves behind is one its
\* recovery can run (the recovery of every adapter reads what the crash wrote).
THEOREM EngineTypeCorrect == EngineSpec => []EngineTypeOK
<1>1. EngineSpec => []EngineTyped
  BY EngineTypedInit, EngineTypedStep, PTL DEF EngineSpec
<1>2. EngineTyped => EngineTypeOK
  BY StateDisk DEF EngineTyped, RunTyped, EngineTypeOK, HarnessTypeOK
<1>3. QED
  BY <1>1, <1>2, PTL

\* Every engine's trial reaches the ledger through the daemon's operations alone,
\* so that whatever holds of the daemon holds in every trial of every engine
\* (base.py effect, trial.py run_trial and the run_trial of each harness).
THEOREM EngineRunsDaemon == EngineSpec => DaemonSpec
<1>1. EngineInit => DaemonInit
  BY DEF EngineInit, TrialInit
<1>2. EngineSpec => []EngineTyped
  BY EngineTypedInit, EngineTypedStep, PTL DEF EngineSpec
<1>3. QED
  BY <1>1, <1>2, EngineStepRunsDaemon, PTL DEF EngineSpec, DaemonSpec

-----------------------------------------------------------------------------
(***************************************************************************)
(* The verdict stands.                                                     *)
(***************************************************************************)
VerdictOK ==
  /\ harness \in {"classify", "classified"} => dump = Dump
  /\ harness = "classified" => outcome = Verdict
  /\ outcome # "raises"

LEMMA VerdictKept ==
  ASSUME UNCHANGED <<trial, exit, disk, before, dump, epoch, store>>
  PROVE  Verdict' = Verdict
<1>1. Intent' = Intent
  BY DEF Intent
<1>2. AdmissionAgrees' = AdmissionAgrees
  BY <1>1 DEF AdmissionAgrees
<1>3. QED
  BY <1>1, <1>2 DEF Verdict

LEMMA VerdictStep ==
  EngineTyped /\ VerdictOK /\ [EngineNext]_allVars => VerdictOK'
<1> SUFFICES ASSUME EngineTyped, VerdictOK, [EngineNext]_allVars PROVE VerdictOK'
  OBVIOUS
<1>1. CASE EngineProcess
  <2>1. harness' = harness /\ outcome' = outcome /\ harness \in {"crash_run", "recovery_run"}
    BY <1>1, ProcessTyped DEF EngineTyped, PhaseOK, harnessVars
  <2>2. QED
    BY <2>1 DEF VerdictOK
<1>2. CASE Removed
  BY <1>2 DEF Removed, EngineTyped, PhaseOK, VerdictOK
<1>3. CASE ServerTimesOut
  <2>1. harness' = harness /\ outcome' = outcome /\ harness \in {"crash_run", "recovery_run"}
    BY <1>3 DEF ServerTimesOut, WorkflowTaskTimesOut, ActivityTimesOut, ServerStep, harnessVars
  <2>2. QED
    BY <2>1 DEF VerdictOK
<1>4. CASE TrialStarts
  BY <1>4 DEF TrialStarts, StartTrial, VerdictOK
<1>5. CASE \/ CrashRunEnds(RecoveryRun(trial, disk)) \/ GivenUp \/ RecoveryRunEnds \/ SealLedger
  BY <1>5 DEF CrashRunEnds, GivenUp, RecoveryRunEnds, SealLedger, VerdictOK
<1>6. CASE ReadDump
  BY <1>6 DEF ReadDump, VerdictOK, Dump, daemonVars, ledgerVars
<1>7. CASE ClassifyTrial(Verdict)
  <2>1. UNCHANGED <<daemonVars, processVars, trial, before, dump>> /\ harness = "classify"
    BY <1>7 DEF ClassifyTrial
  <2>2. Verdict' = Verdict /\ Dump' = Dump
    BY <2>1, VerdictKept DEF daemonVars, ledgerVars, processVars, Dump
  <2>3. QED
    BY <1>7, <2>1, <2>2 DEF ClassifyTrial, VerdictOK
<1>8. CASE Daemon
  <2>1. PICK req \in wire : Handle(req)
    BY <1>8 DEF Daemon
  <2>2. UNCHANGED <<trial, exit, disk, before, epoch, harness, dump, outcome>>
    BY <1>8, <2>1, HandleSplit DEF Daemon, trialVars, Reply
  <2>3. CASE sealed
    <3>1. UNCHANGED <<ledgerVars, store>>
      BY <2>1, <2>3, HandleSplit DEF Ledger
    <3>2. Verdict' = Verdict /\ Dump' = Dump
      BY <2>2, <3>1, VerdictKept DEF Dump, ledgerVars
    <3>3. QED
      BY <2>2, <3>2 DEF VerdictOK
  <2>4. CASE ~ sealed
    <3>1. harness \notin {"classify", "classified"}
      BY <2>4 DEF EngineTyped, PhaseOK
    <3>2. QED
      BY <2>2, <3>1 DEF VerdictOK
  <2>5. QED
    BY <2>3, <2>4
<1>9. CASE UNCHANGED allVars
  <2>1. Verdict' = Verdict /\ Dump' = Dump
    BY <1>9, VerdictKept DEF allVars, trialVars, daemonVars, ledgerVars, Dump
  <2>2. QED
    BY <1>9, <2>1 DEF allVars, trialVars, VerdictOK
<1>10. QED
  BY <1>1, <1>2, <1>3, <1>4, <1>5, <1>6, <1>7, <1>8, <1>9, EngineSteps

LEMMA EngineVerdictOK == EngineSpec => [](EngineTyped /\ VerdictOK)
<1>1. EngineInit => VerdictOK
  BY DEF EngineInit, TrialInit, VerdictOK
<1>2. QED
  BY <1>1, EngineTypedInit, EngineTypedStep, VerdictStep, PTL DEF EngineSpec

\* Once a trial of a real engine is scored its verdict is what the ledger shows
\* until the next reset, whatever dead processes of this trial or of earlier ones
\* left on the wire (the run_trial of every harness seals before it reads).
THEOREM EngineVerdictStands == EngineSpec => []VerdictStands
<1>1. VerdictOK => VerdictStands
  <2> SUFFICES ASSUME VerdictOK, Scored PROVE outcome = Classify(Intent, Dump, store)
    BY DEF VerdictStands
  <2>1. dump = Dump /\ outcome = Verdict
    BY DEF VerdictOK, Scored
  <2>2. QED
    BY <2>1 DEF Scored, Verdict
<1>2. QED
  BY <1>1, EngineVerdictOK, PTL

-----------------------------------------------------------------------------
(***************************************************************************)
(* Every request is an execute under the intent of the trial that sent it, *)
(* is answered once, and is told apart by its number and its trial.        *)
(***************************************************************************)
RequestsOK ==
  /\ \A r \in Issued : /\ r \in Request /\ r.id <= sent /\ r.epoch <= epoch
                       /\ r.op = "execute" /\ r.intent = IntentOf(trial, r.epoch)
                       /\ r.payload \notin Unhashable
  /\ \A r, s \in Issued : r.id = s.id => r = s
  /\ \A r \in wire, a \in answers : a.req # r
  /\ \A r \in Issued : r.id = request => r.epoch = epoch

LEMMA IssuedKept ==
  ASSUME RequestsOK, UNCHANGED <<trial, sent, wire, answers, epoch>>, request' \in {0, request}
  PROVE  RequestsOK'
<1>1. Issued' = Issued
  BY DEF Issued
<1>2. \A r \in Issued : r.id # 0
  BY DEF RequestsOK, Request, RequestId
<1>3. QED
  BY <1>1, <1>2 DEF RequestsOK

LEMMA RequestsStep == EngineTyped /\ RequestsOK /\ [EngineNext]_allVars => RequestsOK'
<1> SUFFICES ASSUME EngineTyped, RequestsOK, [EngineNext]_allVars PROVE RequestsOK'
  OBVIOUS
<1>1. sent \in Nat /\ epoch \in Nat /\ \A r \in Issued : r.id \in Nat \ {0} /\ r.epoch \in Nat
  BY DaemonAssumption
     DEF RequestsOK, Request, RequestId, EngineTyped, HarnessTypeOK, DaemonTypeOK
<1>2. CASE EngineSend
  <2>1. PICK r : Sends(r)
    BY <1>2, SendRequest
  <2>2. /\ r \in Request /\ r.id = sent + 1 /\ r.op = "execute" /\ r.epoch = epoch
        /\ r.intent = IntentOf(trial, r.epoch) /\ r.payload \notin Unhashable
        /\ sent' = sent + 1 /\ request' = sent + 1 /\ wire' = wire \cup {r}
        /\ UNCHANGED <<trial, answers, epoch>>
    BY <2>1 DEF Sends, Intent, harnessVars
  <2>3. Issued' = Issued \cup {r}
    BY <2>2 DEF Issued
  <2>4. \A s \in Issued : s.id # r.id
    BY <1>1, <2>2 DEF RequestsOK
  <2>5. \A s \in Issued' : /\ s \in Request /\ s.id <= sent' /\ s.epoch <= epoch'
                          /\ s.op = "execute" /\ s.intent = IntentOf(trial', s.epoch)
                          /\ s.payload \notin Unhashable
    BY <1>1, <2>2, <2>3 DEF RequestsOK
  <2>6. \A s, t \in Issued' : s.id = t.id => s = t
    BY <2>3, <2>4 DEF RequestsOK
  <2>7. \A s \in wire', a \in answers' : a.req # s
    BY <2>2, <2>4 DEF RequestsOK, Issued
  <2>8. \A s \in Issued' : s.id = request' => s.epoch = epoch'
    BY <2>2, <2>3, <2>4
  <2>9. QED
    BY <2>5, <2>6, <2>7, <2>8 DEF RequestsOK
<1>3. CASE ProcessOnly
  BY <1>3, IssuedKept DEF ProcessOnly, daemonVars, harnessVars
<1>4. CASE TrialStarts
  <2>1. PICK t \in Trials : StartTrial(t, Fresh(t), CrashRun(t))
    BY <1>4 DEF TrialStarts
  <2>2. /\ epoch' = epoch + 1 /\ request' = 0 /\ UNCHANGED <<sent, wire, answers>>
        /\ trial' = t /\ HarnessOf(t) = HarnessOf(trial)
    BY <2>1 DEF StartTrial, HandleReset, Spawn
  <2>3. Issued' = Issued
    BY <2>2 DEF Issued
  <2>4. \A n : IntentOf(t, n) = IntentOf(trial, n)
    BY <2>2 DEF IntentOf
  <2>5. QED
    BY <1>1, <2>2, <2>3, <2>4 DEF RequestsOK
<1>5. CASE Daemon
  <2>1. PICK req \in wire : Handle(req)
    BY <1>5 DEF Daemon
  <2>2. request' = request /\ trial' = trial
    BY <1>5 DEF Daemon, trialVars
  <2>3. PICK status : answers' = answers \cup {[req |-> req, status |-> status, epoch |-> epoch]}
    BY <2>1, DaemonMoves
  <2>4. wire' = wire \ {req} /\ Issued' = Issued /\ sent' = sent /\ epoch' = epoch
    BY <2>1, DaemonMoves
  <2>5. \A s \in wire', a \in answers' : a.req # s
    BY <2>3, <2>4 DEF RequestsOK
  <2>6. QED
    BY <2>2, <2>4, <2>5 DEF RequestsOK
<1>6. CASE UNCHANGED <<trial, sent, wire, answers, epoch>> /\ request' \in {0, request}
  BY <1>6, IssuedKept
<1>7. QED
  BY <1>2, <1>3, <1>4, <1>5, <1>6, EngineSteps, ProcessSplit
     DEF Removed, ServerTimesOut, WorkflowTaskTimesOut, ActivityTimesOut, ServerStep,
         CrashRunEnds, Spawn, GivenUp, RecoveryRunEnds, SealLedger, HandleSeal, ReadDump,
         ClassifyTrial, allVars, trialVars, daemonVars, processVars, harnessVars

EngineSafe == EngineTyped /\ CrossingsAgree /\ RequestsOK

-----------------------------------------------------------------------------
(***************************************************************************)
(* The effect is made, once a request of the trial was handled.            *)
(***************************************************************************)
Made == effect_keys[Intent] # << >>

LEMMA KeysGrow ==
  ASSUME EngineTyped, NEW i \in Intents, NEW req \in wire, Handle(req)
  PROVE  \/ effect_keys'[i] = effect_keys[i]
         \/ req.intent = i /\ effect_keys'[i] = Append(effect_keys[i], req.key)
<1>1. effect_keys \in [Intents -> Seq(Keys \cup {NoKey})]
  BY DEF EngineTyped, HarnessTypeOK, DaemonTypeOK, LedgerTypeOK
<1>2. \/ UNCHANGED effect_keys
      \/ effect_keys' = [effect_keys EXCEPT ![req.intent] = Append(@, req.key)]
  BY HandleCounts DEF CountEffect, Crossed
<1>3. QED
  BY <1>1, <1>2

\* In a ledger that is not sealed every request of the running trial crosses, or
\* finds that its key has crossed, though its record may not be written.
LEMMA ExecutedMade ==
  ASSUME EngineSafe, NEW req \in wire, Handle(req), ~ sealed
  PROVE  /\ CountEffect(req.intent, req.key, req.payload)
         /\ effect_keys'[req.intent] # << >>
         /\ \E status \in {"ok", "no response"} :
              answers' = answers \cup {[req |-> req, status |-> status, epoch |-> epoch]}
<1> USE DEF EngineSafe
<1>1. /\ req \in Request /\ req.op = "execute" /\ req.payload \notin Unhashable
      /\ req.intent \in Intents /\ req.key \in Keys \cup {NoKey}
  BY DEF RequestsOK, Issued, Request
<1>2. HandleExecute(req) \/ HandleAppendFails(req)
  BY <1>1 DEF Handle, HandleSealed, HandleUnhashable, HandleUnprivileged, ExecuteUnhashable
<1>3. /\ CountEffect(req.intent, req.key, req.payload)
      /\ Reply(req, "ok") \/ Reply(req, "no response")
  BY <1>1, <1>2 DEF HandleExecute, HandleAppendFails, Execute, ExecuteAppendFails
<1>4. effect_keys \in [Intents -> Seq(Keys \cup {NoKey})]
  BY DEF EngineTyped, HarnessTypeOK, DaemonTypeOK, LedgerTypeOK
<1>5. CASE Deduped(req.intent, req.key)
  <2>1. req.key \in {effect_keys[req.intent][n] : n \in 1 .. Len(effect_keys[req.intent])}
    BY <1>1, <1>5 DEF Deduped, CrossingsAgree
  <2>2. effect_keys[req.intent] # << >>
    BY <2>1
  <2>3. QED
    BY <1>3, <1>5, <2>2 DEF CountEffect, Reply
<1>6. CASE ~ Deduped(req.intent, req.key)
  <2>1. effect_keys'[req.intent] = Append(effect_keys[req.intent], req.key)
    BY <1>1, <1>3, <1>4, <1>6 DEF CountEffect, Crossed
  <2>2. effect_keys[req.intent] \in Seq(Keys \cup {NoKey})
    BY <1>1, <1>4
  <2> DEFINE K == Keys \cup {NoKey}
  <2>3. Append(effect_keys[req.intent], req.key) # << >>
    BY <1>1, <2>2, AppendProperties
  <2>4. QED
    BY <1>3, <2>1, <2>3 DEF Reply
<1>7. QED
  BY <1>5, <1>6

LEMMA MadeStays ==
  ASSUME EngineTyped, [EngineNext]_allVars, ~ TrialStarts, harness # "idle"
  PROVE  trial' = trial /\ epoch' = epoch /\ Intent' = Intent /\ (Made => Made')
<1>1. CASE Daemon
  <2>1. PICK req \in wire : Handle(req)
    BY <1>1 DEF Daemon
  <2>2. trial' = trial /\ epoch' = epoch
    BY <1>1, <2>1, HandleSplit DEF Daemon, trialVars, Reply
  <2>3. Intent \in Intents /\ Intent' = Intent
    BY <2>2, IntentTyped DEF Intent
  <2>4. effect_keys[Intent] \in Seq(Keys \cup {NoKey}) /\ req.key \in Keys \cup {NoKey}
    BY <2>1, <2>3 DEF EngineTyped, HarnessTypeOK, DaemonTypeOK, LedgerTypeOK, Request
  <2>5. Append(effect_keys[Intent], req.key) # << >>
    <3> DEFINE K == Keys \cup {NoKey}
    <3>1. QED
      BY <2>4, AppendProperties
  <2>6. QED
    BY <2>1, <2>2, <2>3, <2>5, KeysGrow DEF Made
<1>2. CASE UNCHANGED <<trial, epoch, ledgerVars>>
  BY <1>2 DEF Intent, Made, ledgerVars
<1>3. CASE EngineProcess
  BY <1>2, <1>3, ProcessTyped DEF harnessVars
<1>4. QED
  BY <1>1, <1>2, <1>3, EngineSteps
     DEF Removed, ServerTimesOut, WorkflowTaskTimesOut, ActivityTimesOut, ServerStep,
         CrashRunEnds, GivenUp, RecoveryRunEnds, SealLedger, HandleSeal, ReadDump,
         ClassifyTrial, allVars, trialVars, daemonVars, processVars, harnessVars

-----------------------------------------------------------------------------
(***************************************************************************)
(* What is durable was made, and a recovery that succeeds has made it,     *)
(* unless the run was lost to the crash.                                   *)
(***************************************************************************)
Lost == LostAt(trial, before.disk)

Progress ==
  /\ harness \in {"crash_run", "recovery_run"} =>
       \A a \in answers : a.req.epoch = epoch => Made
  /\ exit = "running" => OrderAt(trial, harness, Made, Lost, todo, disk)
  /\ harness # "idle" /\ Durable(trial, disk) => Made
  /\ exit = "zero" /\ harness \notin {"idle", "crash_run", "failed"} => Made \/ Lost

LEMMA ProgressStep == EngineSafe /\ Progress /\ [EngineNext]_allVars => Progress'
<1> SUFFICES ASSUME EngineSafe, Progress, [EngineNext]_allVars PROVE Progress'
  OBVIOUS
<1> USE DEF EngineSafe
<1>1. CASE TrialStarts
  <2>1. PICK t \in Trials : StartTrial(t, Fresh(t), CrashRun(t))
    BY <1>1 DEF TrialStarts
  <2>2. /\ trial' = t /\ harness' = "crash_run" /\ exit' = "running" /\ todo' = CrashRun(t)
        /\ disk' = Fresh(t) /\ answers' = answers /\ epoch' = epoch + 1
    BY <2>1 DEF StartTrial, Spawn, HandleReset
  <2>3. \A a \in answers' : a.req.epoch # epoch'
    <3>1. \A a \in answers : a.req \in Issued
      BY DEF Issued
    <3>2. epoch \in Nat /\ \A r \in Issued : r.epoch \in Nat /\ r.epoch <= epoch
      BY DaemonAssumption DEF RequestsOK, Request, EngineTyped, HarnessTypeOK, DaemonTypeOK
    <3>3. QED
      BY <2>2, <3>1, <3>2
  <2>4. ~ Durable(trial', disk') /\ OrderAt(trial', harness', FALSE, FALSE, todo', disk')
    BY <2>2, FreshRuns DEF RunAt
  <2>5. OrderAt(trial', harness', Made', Lost', todo', disk')
    BY <2>2, <2>4 DEF OrderAt
  <2>6. QED
    BY <2>2, <2>3, <2>4, <2>5 DEF Progress
<1>2. CASE ~ TrialStarts /\ harness # "idle"
  <2>1. trial' = trial /\ epoch' = epoch /\ (Made => Made') /\ trial \in Trials
    BY <1>2, MadeStays DEF EngineTyped, HarnessTypeOK
  <2>2. CASE EngineProcess
    <3>1. /\ exit = "running" /\ exit' \in {"running", "killed", "error", "zero"}
          /\ exit' # "running" => todo' = << >> /\ disk' = disk
          /\ UNCHANGED <<harness, before, answers>> /\ Lost' = Lost
      BY <2>2, ProcessTyped DEF harnessVars, Lost
    <3>2. PICK made \in BOOLEAN, lost \in BOOLEAN : made = Made /\ lost = Lost
      <4>1. Made \in BOOLEAN /\ Lost \in BOOLEAN
        BY DEF Made, Lost, LostAt
      <4>2. QED
        BY <4>1, Zenon
    <3>3. RunAt(trial, harness, made, lost, todo, disk)
      BY <3>1, <3>2 DEF RunAt, OrderAt, Progress, EngineTyped, RunTyped
    <3>4. ReceiveReply \/ EngineRejects => made
      <4>1. SUFFICES ASSUME ReceiveReply \/ EngineRejects PROVE Made
        BY <3>2
      <4>2. PICK a \in answers : a.req.id = request
        BY <4>1, RejectedReply DEF ReceiveReply
      <4>3. a.req.epoch = epoch /\ harness \in {"crash_run", "recovery_run"}
        BY <3>1, <4>2 DEF RequestsOK, Issued, EngineTyped, PhaseOK
      <4>4. QED
        BY <4>2, <4>3 DEF Progress
    <3>5. Ends \/ GoesOn(made, lost) \/ Return
      BY <2>1, <2>2, <3>3, <3>4, ProcessStep
    <3>6. CASE GoesOn(made, lost)
      <4>1. exit' = "running" /\ OrderAt(trial, harness, made, lost, todo', disk')
        BY <3>6 DEF GoesOn, RunAt
      <4>2. /\ Durable(trial', disk') => Made'
            /\ OrderAt(trial', harness', Made', Lost', todo', disk')
        BY <2>1, <3>1, <3>2, <4>1 DEF OrderAt
      <4>3. QED
        BY <2>1, <3>1, <4>1, <4>2 DEF Progress
    <3>7. CASE Ends
      BY <2>1, <3>1, <3>7 DEF Ends, Progress
    <3>8. CASE Return
      <4>1. exit' = "zero" /\ todo = << >> /\ disk' = disk
        BY <3>8 DEF Return, ExitWith
      <4>2. harness = "recovery_run" => Made \/ Lost
        BY <3>2, <3>3, <4>1, NothingOrdered DEF RunAt, OrderAt
      <4>3. harness \in {"crash_run", "recovery_run"}
        BY <3>1 DEF EngineTyped, PhaseOK
      <4>4. QED
        BY <2>1, <3>1, <4>1, <4>2, <4>3 DEF Progress
    <3>9. QED
      BY <3>5, <3>6, <3>7, <3>8
  <2>3. CASE Removed
    <3>1. /\ exit' \in {"killed", "stalled"} /\ disk' = disk
          /\ UNCHANGED answers /\ harness' \in {harness, "failed"}
      BY <2>3 DEF Removed, daemonVars
    <3>2. QED
      BY <1>2, <2>1, <3>1 DEF Progress
  <2>4. CASE ServerTimesOut
    <3>1. UNCHANGED <<harness, before, todo, exit, answers>>
      BY <2>4 DEF ServerTimesOut, WorkflowTaskTimesOut, ActivityTimesOut, ServerStep,
                  harnessVars, daemonVars
    <3>2. /\ trial.engine = "temporal"
          /\ Durable(trial, disk') <=> Durable(trial, disk)
          /\ Leads(trial, disk') = Leads(trial, disk)
      BY <2>1, <2>4, ServerStepKeeps DEF ServerTimesOut, EngineTyped, RunTyped
    <3>3. Unprepared(trial, todo, disk') /\ Lost' = Lost
      BY <2>1, <3>1, <3>2 DEF Unprepared, Lost
    <3>4. OrderAt(trial, harness, Made, Lost, todo, disk)
            => OrderAt(trial', harness', Made', Lost', todo', disk')
      BY <2>1, <3>1, <3>2, <3>3 DEF OrderAt
    <3>5. QED
      BY <1>2, <2>1, <3>1, <3>2, <3>3, <3>4 DEF Progress
  <2>5. CASE CrashRunEnds(RecoveryRun(trial, disk))
    <3>1. /\ harness = "crash_run" /\ exit = "killed" /\ harness' = "recovery_run"
          /\ todo' = RecoveryRun(trial, disk) /\ exit' = "running"
          /\ disk' = disk /\ answers' = answers /\ before'.disk = disk
      BY <2>5 DEF CrashRunEnds, Expected, Spawn, daemonVars
    <3>2. StateAt(trial, "crash_run", << >>, disk)
      BY <3>1 DEF EngineTyped, PhaseOK, RunTyped
    <3>3. PICK made \in BOOLEAN, lost \in BOOLEAN : made = Made /\ lost = LostAt(trial, disk)
      <4>1. Made \in BOOLEAN /\ LostAt(trial, disk) \in BOOLEAN
        BY DEF Made, LostAt
      <4>2. QED
        BY <4>1, Zenon
    <3>4. OrderAt(trial, "recovery_run", made, lost, RecoveryRun(trial, disk), disk)
      BY <2>1, <3>1, <3>2, <3>3, RecoveryRuns DEF RunAt, Progress
    <3>5. Lost' <=> lost
      BY <2>1, <3>1, <3>3 DEF Lost
    <3>6. OrderAt(trial', harness', Made', Lost', todo', disk')
      BY <2>1, <3>1, <3>3, <3>4, <3>5 DEF OrderAt
    <3>7. QED
      BY <1>2, <2>1, <3>1, <3>6 DEF Progress
  <2>6. CASE GivenUp
    <3>1. harness' = "failed" /\ exit # "running" /\ UNCHANGED <<exit, disk>>
      BY <2>6 DEF GivenUp, processVars
    <3>2. QED
      BY <1>2, <2>1, <3>1 DEF Progress
  <2>7. CASE \/ RecoveryRunEnds \/ SealLedger \/ ReadDump \/ ClassifyTrial(Verdict)
    <3>1. /\ harness \in {"recovery_run", "seal", "dump", "classify"}
          /\ harness' \in {"seal", "dump", "classify", "classified", "failed"}
          /\ UNCHANGED <<exit, disk, before>>
      BY <2>7 DEF RecoveryRunEnds, SealLedger, ReadDump, ClassifyTrial, processVars
    <3>2. exit # "running"
      <4>1. CASE harness = "recovery_run"
        <5>1. RecoveryRunEnds
          BY <2>7, <4>1 DEF SealLedger, ReadDump, ClassifyTrial
        <5>2. QED
          BY <4>1, <5>1 DEF RecoveryRunEnds, Expected
      <4>2. CASE harness # "recovery_run"
        BY <3>1, <4>2 DEF EngineTyped, PhaseOK
      <4>3. QED
        BY <4>1, <4>2
    <3>3. Lost' = Lost
      BY <2>1, <3>1 DEF Lost
    <3>4. QED
      BY <1>2, <2>1, <3>1, <3>2, <3>3 DEF Progress
  <2>8. CASE Daemon
    <3>1. PICK req \in wire : Handle(req)
      BY <2>8 DEF Daemon
    <3>2. UNCHANGED <<exit, harness, todo, disk, before>> /\ Lost' = Lost
      BY <2>8 DEF Daemon, trialVars, Lost
    <3>3. PICK status : answers' = answers \cup {[req |-> req, status |-> status, epoch |-> epoch]}
      BY <3>1, DaemonMoves
    <3>4. harness \in {"crash_run", "recovery_run"} /\ req.epoch = epoch => Made'
      <4>1. SUFFICES ASSUME ~ sealed, req.epoch = epoch PROVE Made'
        BY DEF EngineTyped, PhaseOK
      <4>2. req.intent = Intent
        BY <4>1 DEF RequestsOK, Issued, Intent
      <4>3. Intent' = Intent
        BY <2>1 DEF Intent
      <4>4. QED
        BY <3>1, <4>1, <4>2, <4>3, ExecutedMade DEF Made
    <3>5. harness' \in {"crash_run", "recovery_run"} =>
            \A a \in answers' : a.req.epoch = epoch' => Made'
      BY <2>1, <3>2, <3>3, <3>4 DEF Progress
    <3>6. OrderAt(trial, harness, Made, Lost, todo, disk)
            => OrderAt(trial', harness', Made', Lost', todo', disk')
      BY <2>1, <3>2 DEF OrderAt
    <3>7. QED
      BY <2>1, <3>2, <3>5, <3>6 DEF Progress
  <2>9. CASE UNCHANGED allVars
    <3>1. UNCHANGED <<exit, harness, todo, disk, before, answers>> /\ Lost' = Lost
      BY <2>9 DEF allVars, trialVars, daemonVars, Lost
    <3>2. OrderAt(trial, harness, Made, Lost, todo, disk)
            => OrderAt(trial', harness', Made', Lost', todo', disk')
      BY <2>1, <3>1 DEF OrderAt
    <3>3. QED
      BY <2>1, <3>1, <3>2 DEF Progress
  <2>10. QED
    BY <1>2, <2>2, <2>3, <2>4, <2>5, <2>6, <2>7, <2>8, <2>9, EngineSteps
<1>3. CASE ~ TrialStarts /\ harness = "idle"
  <2>1. harness' = "idle" /\ exit # "running" /\ exit' = exit
    <3>1. CASE Daemon
      BY <1>3, <3>1 DEF Daemon, trialVars, EngineTyped, PhaseOK
    <3>2. CASE UNCHANGED allVars
      BY <1>3, <3>2 DEF allVars, trialVars, EngineTyped, PhaseOK
    <3>3. CASE EngineProcess
      BY <1>3, <3>3, ProcessTyped DEF EngineTyped, PhaseOK
    <3>4. QED
      BY <1>3, <3>1, <3>2, <3>3, EngineSteps
         DEF Removed, ServerTimesOut, WorkflowTaskTimesOut, ActivityTimesOut, ServerStep,
             CrashRunEnds, GivenUp, RecoveryRunEnds, SealLedger, ReadDump, ClassifyTrial,
             EngineTyped, PhaseOK
  <2>2. QED
    BY <2>1 DEF Progress
<1>4. QED
  BY <1>1, <1>2, <1>3

LEMMA EngineSafeAlways == EngineSpec => [](EngineSafe /\ Progress /\ VerdictOK /\ StoreOnChain)
<1>1. EngineInit => RequestsOK /\ Progress
  BY DEF EngineInit, TrialInit, DaemonInit, RequestsOK, Issued, Progress
<1>2. EngineSpec => []CrossingsAgree /\ []StoreOnChain
  BY EngineRunsDaemon, CrossingsAlwaysAgree, StoreAlwaysOnChain, PTL
<1>3. EngineSpec => []RequestsOK
  BY <1>1, EngineVerdictOK, RequestsStep, PTL DEF EngineSpec
<1>4. EngineSpec => []EngineSafe
  BY <1>2, <1>3, EngineVerdictOK, PTL DEF EngineSafe
<1>5. EngineSpec => []Progress
  BY <1>1, <1>4, ProgressStep, PTL DEF EngineSpec
<1>6. QED
  BY <1>2, <1>4, <1>5, EngineVerdictOK, PTL

\* Wherever its processes are killed, however slow an attempt and whatever times
\* out, a trial whose recovery succeeded is lost only where LangGraph crashed
\* before its first checkpoint and nothing outside it had accepted the run: every
\* engine commits a step after the ledger has answered it, and a recovery that
\* finds none committed has it before it (langgraph_hidden.py prediction rules;
\* langgraph_admission.py recovery).
THEOREM LostOnlyToTheFirstCheckpoint == EngineSpec => []LostOnlyUnadmitted
<1>1. EngineSafe /\ Progress => LostOnlyUnadmitted
  <2> SUFFICES ASSUME EngineSafe, Progress,
                      harness = "classified", exit = "zero", side_effects[Intent] = 0
               PROVE  Lost
    BY DEF LostOnlyUnadmitted, Lost, LostAt
  <2>1. Intent \in Intents
    BY IntentTyped DEF EngineSafe
  <2>2. Len(effect_keys[Intent]) = 0
    BY <2>1 DEF EngineSafe, CrossingsAgree
  <2>3. ~ Made
    BY <2>2 DEF Made
  <2>4. QED
    BY <2>3 DEF Progress
<1>2. QED
  BY <1>1, EngineSafeAlways, PTL

-----------------------------------------------------------------------------
(***************************************************************************)
(* The keys of a trial: each request of a deterministic idempotent trial,  *)
(* and of a two-phase one, carries the same key.                           *)
(***************************************************************************)
Keyed == trial.mode \in {"idem", "twophase"}

KeysOK == Keyed => \A r \in Issued : r.epoch = epoch => r.key = EngineKeyOf(NoMemo)

LEMMA KeyedTrials ==
  ASSUME trial \in Trials, Keyed
  PROVE  /\ \A memo \in Draws : EngineKeyOf(memo) = EngineKeyOf(NoMemo)
         /\ EngineKeyOf(NoMemo) # NoKey
         /\ ~ DuplicateName(trial)
         /\ HarnessOf(trial) \in {"matrix", "restate", "vercel", "trueforge"}
<1>1. ContentKey(NoMemo) # NoKey /\ PreparedKey # NoKey
  BY TrialAssumption, KeyAssumption DEF EffectKeys
<1>2. Idempotent(trial) /\ (TwoPhase(trial) \/ ~ Nondeterministic(trial))
  BY Modes DEF Keyed
<1>3. \A memo \in Draws : EngineKeyOf(memo) = EngineKeyOf(NoMemo)
  BY <1>2 DEF Draws, EngineKeyOf
<1>4. EngineKeyOf(NoMemo) # NoKey
  BY <1>1, <1>2 DEF EngineKeyOf
<1>5. /\ ~ DuplicateName(trial) /\ trial.mode \notin AdmissionArms
      /\ trial.barrier \notin DOMAIN HiddenPredictions
  BY EngineRow DEF Keyed, AdmissionArms
<1>6. HarnessOf(trial) \in {"matrix", "restate", "vercel", "trueforge"}
  BY <1>5 DEF HarnessOf
<1>7. QED
  BY <1>3, <1>4, <1>5, <1>6

LEMMA KeysStep == EngineSafe /\ KeysOK /\ [EngineNext]_allVars => KeysOK'
<1> SUFFICES ASSUME EngineSafe, KeysOK, [EngineNext]_allVars PROVE KeysOK'
  OBVIOUS
<1> USE DEF EngineSafe
<1>1. CASE TrialStarts
  <2>1. epoch' = epoch + 1 /\ UNCHANGED <<wire, answers>>
    BY <1>1 DEF TrialStarts, StartTrial, HandleReset
  <2>2. Issued' = Issued
    BY <2>1 DEF Issued
  <2>3. epoch \in Nat /\ \A r \in Issued : r.epoch \in Nat /\ r.epoch <= epoch
    BY DaemonAssumption DEF RequestsOK, Request, EngineTyped, HarnessTypeOK, DaemonTypeOK
  <2>4. QED
    BY <2>1, <2>2, <2>3 DEF KeysOK
<1>2. CASE EngineSend
  <2>1. PICK r : Sends(r)
    BY <1>2, SendRequest
  <2>2. /\ trial' = trial /\ epoch' = epoch /\ Issued' = Issued \cup {r}
    BY <2>1 DEF Sends, Issued, harnessVars
  <2>3. Keyed => r.key = EngineKeyOf(NoMemo)
    <3>1. SUFFICES ASSUME Keyed PROVE r.key = EngineKeyOf(NoMemo)
      OBVIOUS
    <3>2. trial \in Trials
      BY DEF EngineTyped, HarnessTypeOK
    <3>3. trial.engine = "dbos" => ~ Has({"send_billing", "send_shipping"}, todo)
      BY <3>1, <3>2, KeyedTrials DEF EngineTyped, RunTyped, StateAt, DbosAt
    <3>4. QED
      BY <2>1, <3>1, <3>2, <3>3, KeyedTrials DEF Sends
  <2>4. EngineKeyOf(NoMemo)' = EngineKeyOf(NoMemo)
    BY <2>2 DEF EngineKeyOf
  <2>5. QED
    BY <2>2, <2>3, <2>4 DEF KeysOK, Keyed
<1>3. CASE UNCHANGED <<trial, epoch, Issued>>
  BY <1>3 DEF KeysOK, Keyed, EngineKeyOf
<1>4. CASE Daemon
  <2>1. PICK req \in wire : Handle(req)
    BY <1>4 DEF Daemon
  <2>2. UNCHANGED <<trial, epoch, Issued>>
    BY <1>4, <2>1, DaemonMoves DEF Daemon, trialVars
  <2>3. QED
    BY <1>3, <2>2
<1>5. CASE UNCHANGED <<trial, epoch, wire, answers>>
  BY <1>3, <1>5 DEF Issued
<1>6. QED
  BY <1>1, <1>2, <1>4, <1>5, EngineSteps, ProcessSplit
     DEF Removed, ServerTimesOut, WorkflowTaskTimesOut, ActivityTimesOut, ServerStep,
         CrashRunEnds, GivenUp, RecoveryRunEnds, SealLedger, HandleSeal, ReadDump,
         ClassifyTrial, ProcessOnly, allVars, trialVars, daemonVars, processVars, harnessVars

\* Whatever crossed was asked for in this epoch.
LEMMA CrossedWasAsked ==
  ASSUME LedgerTypeOK, AcknowledgedOnce, NEW i \in Intents, NEW n \in 1 .. Len(effect_keys[i])
  PROVE  ExecutedNow(i, effect_keys[i][n]) # {}
<1> DEFINE k == effect_keys[i][n]
           crossings == {m \in DOMAIN effect_keys[i] : effect_keys[i][m] = k}
<1>1. effect_keys[i] \in Seq(Keys \cup {NoKey})
  BY DEF LedgerTypeOK
<1>2. Len(effect_keys[i]) \in Nat /\ DOMAIN effect_keys[i] = 1 .. Len(effect_keys[i])
      /\ k \in Keys \cup {NoKey}
  BY <1>1
<1>3. n \in crossings /\ crossings \subseteq 1 .. Len(effect_keys[i])
  BY <1>2
<1>4. Cardinality(crossings) # 0
  <2>1. IsFiniteSet(1 .. Len(effect_keys[i]))
    BY <1>2, FS_Interval
  <2>2. IsFiniteSet(crossings)
    BY <1>3, <2>1, FS_Subset
  <2>3. QED
    BY <1>3, <2>2, FS_EmptySet
<1>5. Cardinality(crossings) =
        IF k = NoKey THEN Cardinality(ExecutedNow(i, k))
        ELSE IF ExecutedNow(i, k) = {} THEN 0 ELSE 1
  BY <1>2 DEF AcknowledgedOnce
<1>6. QED
  BY <1>4, <1>5, FS_EmptySet

\* Undisturbed, whatever crossed was asked for by a process of this trial.
LEMMA CrossedByOwn ==
  ASSUME EngineSafe, AcknowledgedOnce, harness # "idle", Undisturbed, Keyed,
         NEW n \in 1 .. Len(effect_keys[Intent])
  PROVE  \E r \in Issued : r.epoch = epoch /\ r.key = effect_keys[Intent][n]
<1>1. Intent \in Intents /\ trial \in Trials
  BY IntentTyped DEF EngineSafe, EngineTyped, HarnessTypeOK
<1>2. PICK a \in answers : /\ a.epoch = epoch /\ a.req.intent = Intent
                           /\ a.req.key = effect_keys[Intent][n]
                           /\ a.status \in {"ok", "no response"}
  <2>1. LedgerTypeOK
    BY DEF EngineSafe, EngineTyped, HarnessTypeOK, DaemonTypeOK
  <2>2. ExecutedNow(Intent, effect_keys[Intent][n]) # {}
    BY <1>1, <2>1, CrossedWasAsked, Zenon
  <2>3. QED
    BY <2>2 DEF ExecutedNow
<1>3. a.req \in Issued
  BY DEF Issued
<1>4. CASE HarnessOf(trial) \in {"matrix", "trueforge"}
  BY <1>2, <1>3, <1>4 DEF Undisturbed, OwnTrial
<1>5. CASE HarnessOf(trial) \notin {"matrix", "trueforge"}
  <2>1. a.req.intent = a.req.epoch
    BY <1>3, <1>5 DEF EngineSafe, RequestsOK, IntentOf
  <2>2. Intent = epoch
    BY <1>5 DEF Intent, IntentOf
  <2>3. QED
    BY <1>2, <1>3, <2>1, <2>2
<1>6. QED
  BY <1>4, <1>5

\* Wherever a process is killed, however slow an attempt and whatever times out, a
\* deterministic idempotent step and a two-phase one cross exactly once if they are
\* scored at all and no request of an earlier trial interfered, whichever engine
\* retried them and however often: their requests carry one key, derived from what
\* does not vary or prepared before the draw, and the ledger counts a key once
\* (runtimes.py, the idem and twophase rows; base.py effect).
THEOREM OnceWhicheverEngine == EngineSpec => []EngineKilledAnywhereOnce
<1>1. EngineInit => KeysOK
  BY DEF EngineInit, TrialInit, DaemonInit, KeysOK, Issued
<1>2. EngineSpec => []KeysOK
  BY <1>1, EngineSafeAlways, KeysStep, PTL DEF EngineSpec
<1>3. EngineSafe /\ Progress /\ VerdictOK /\ StoreOnChain /\ KeysOK /\ AcknowledgedOnce
        => EngineKilledAnywhereOnce
  <2> SUFFICES ASSUME EngineSafe, Progress, VerdictOK, StoreOnChain, KeysOK, AcknowledgedOnce,
                      Scored, Undisturbed, trial.mode \in {"idem", "twophase"}
               PROVE  outcome = "exactly_once"
    BY DEF EngineKilledAnywhereOnce
  <2> DEFINE keys == effect_keys[Intent]
  <2>1. Keyed /\ harness = "classified" /\ exit = "zero" /\ trial \in Trials
    BY DEF Keyed, Scored, EngineSafe, EngineTyped, HarnessTypeOK, PhaseOK
  <2>2. ~ Lost
    <3>1. SUFFICES ASSUME trial.engine = "langgraph" PROVE HarnessOf(trial) = "matrix"
      BY DEF Lost, LostAt
    <3>2. /\ trial.mode \notin AdmissionArms /\ trial.barrier \notin DOMAIN HiddenPredictions
      BY <2>1, EngineRow DEF AdmissionArms
    <3>3. QED
      BY <3>1, <3>2 DEF HarnessOf
  <2>3. keys # << >>
    BY <2>1, <2>2 DEF Progress, Made
  <2>4. Intent \in Intents /\ LedgerTypeOK
    BY <2>1, IntentTyped DEF EngineSafe, EngineTyped, HarnessTypeOK, DaemonTypeOK
  <2>5. \A n \in 1 .. Len(keys) : keys[n] = EngineKeyOf(NoMemo) /\ keys[n] # NoKey
    BY <2>1, CrossedByOwn, KeyedTrials DEF KeysOK
  <2>6. \A m, n \in 1 .. Len(keys) : m = n
    BY <2>4, <2>5 DEF EngineSafe, CrossingsAgree
  <2>7. Len(keys) = 1
    <3>1. keys \in Seq(Keys \cup {NoKey})
      BY <2>4 DEF LedgerTypeOK
    <3>2. Len(keys) \in Nat \ {0}
      BY <2>3, <3>1
    <3>3. 1 \in 1 .. Len(keys) /\ (Len(keys) >= 2 => 2 \in 1 .. Len(keys))
      BY <3>2
    <3>4. ~ (Len(keys) >= 2)
      BY <2>6, <3>3
    <3>5. \A n \in Nat \ {0} : n >= 2 \/ n = 1
      OBVIOUS
    <3>6. QED
      BY <3>2, <3>4, <3>5, Zenon
  <2>8. outcome = Classify(Intent, Dump, store) /\ outcome # "raises"
    BY <2>1 DEF VerdictOK, Scored, Verdict
  <2>9. QED
    BY <2>3, <2>4, <2>7, <2>8, ClassifyCrossings DEF EngineSafe
<1>4. EngineSpec => []AcknowledgedOnce
  BY EngineRunsDaemon, EachAcknowledgedOnce, PTL
<1>5. QED
  BY <1>2, <1>3, <1>4, EngineSafeAlways, PTL
=============================================================================
