------------------------ MODULE StateStoreRefinement ------------------------
(***************************************************************************)
(* Over power losses, with no failing call, StateStore implements          *)
(* AtomicStore for any states, messages and limits; and a start then fails *)
(* only over what an interrupted write left outside a journal.             *)
(*                                                                         *)
(* The limits of the outbox are sums over its messages, so the argument    *)
(* starts with sums: commit() accepts messages one by one, and what it     *)
(* accepts fits together with what is stored.  The store is then followed  *)
(* through its images.  Between two syncs one change is on the way, which  *)
(* is at most one operation of the atomic store, and every image has the   *)
(* files before that change or those after it.                             *)
(***************************************************************************)
EXTENDS StateStoreProofs, FiniteSetTheorems

-----------------------------------------------------------------------------
(* Induction on the naturals and on the subsets of a finite set, stated    *)
(* with the set of the cases that hold.                                    *)

LEMMA NatCases ==
  ASSUME NEW Q, 0 \in Q, \A n \in Nat : n \in Q => n + 1 \in Q
  PROVE  Nat \subseteq Q
<1> DEFINE Bad == {n \in Nat : n \notin Q}
           Below == OpToRel(<, Nat)
<1>1. IsWellFoundedOn(Below, Nat)
  BY NatLessThanWellFounded
<1>2. \A i, j \in Nat : i < j => <<i, j>> \in Below
  BY DEF OpToRel
<1>3. Bad \subseteq Nat
  OBVIOUS
<1> HIDE DEF Below
<1>4. ASSUME Bad # {} PROVE FALSE
  <2>1. PICK n \in Bad : \A m \in Bad : ~(<<m, n>> \in Below)
    <3> HIDE DEF Bad
    <3> QED BY <1>1, <1>3, <1>4, WFMin
  <2>2. n \in Nat /\ n \notin Q /\ n # 0
    BY <2>1
  <2>3. n - 1 \in Nat /\ n - 1 < n /\ (n - 1) + 1 = n
    BY <2>2
  <2>4. n - 1 \in Bad
    BY <2>2, <2>3
  <2> QED BY <1>2, <2>1, <2>2, <2>3, <2>4
<1> QED BY <1>4

LEMMA SubsetCases ==
  ASSUME NEW K, IsFiniteSet(K), NEW Q,
         \A s \in SUBSET K : (\A x \in s : s \ {x} \in Q) => s \in Q
  PROVE  SUBSET K \subseteq Q
<1> DEFINE C == {n \in Nat : \A s \in SUBSET K : Cardinality(s) = n => s \in Q}
<1>1. \A s \in SUBSET K : IsFiniteSet(s) /\ Cardinality(s) \in Nat
  BY FS_Subset, FS_CardinalityType
<1>2. 0 \in C
  <2>1. \A s \in SUBSET K : Cardinality(s) = 0 => s = {}
    BY <1>1, FS_EmptySet
  <2> QED BY <2>1
<1>3. ASSUME NEW n \in Nat, n \in C PROVE n + 1 \in C
  <2>1. ASSUME NEW s \in SUBSET K, Cardinality(s) = n + 1, NEW x \in s
        PROVE  s \ {x} \in Q
    <3>1. s \ {x} \in SUBSET K /\ Cardinality(s \ {x}) = Cardinality(s) - 1
      BY <1>1, FS_RemoveElement
    <3>2. Cardinality(s \ {x}) = n
      BY <2>1, <3>1
    <3> QED BY <1>3, <3>1, <3>2
  <2> QED BY <2>1
<1> HIDE DEF C
<1>4. Nat \subseteq C
  BY <1>2, <1>3, NatCases
<1> QED BY <1>1, <1>4 DEF C

-----------------------------------------------------------------------------
(* The sum over a set, by what its definition as a fold computes. *)

First(s) == CHOOSE x \in s : TRUE

Total(w, S) == MapThenSumSet(LAMBDA k : w[k], S)

(* One round of the fold: an element is taken out, the rest summed first. *)
Round(f, w, s) == IF s = {} THEN 0 ELSE w[First(s)] + f[s \ {First(s)}]

Sums(f, w, S) == f = [s \in SUBSET S |-> Round(f, w, s)]

LEMMA TotalIsChosen ==
  ASSUME NEW w, NEW S
  PROVE  Total(w, S) = (CHOOSE f : Sums(f, w, S))[S]
BY DEF Total, MapThenSumSet, MapThenFoldSet, Sums, Round, First

LEMMA FirstInSet ==
  ASSUME NEW s, s # {}
  PROVE  First(s) \in s
BY DEF First

(* The equation of the fold has a solution, with natural numbers as values. *)
LEMMA SumExists ==
  ASSUME NEW S, IsFiniteSet(S), NEW w, \A x \in S : w[x] \in Nat
  PROVE  \E f : f \in [SUBSET S -> Nat] /\ Sums(f, w, S)
<1> DEFINE Upto(f, n) == \A s \in SUBSET S : Cardinality(s) <= n => f[s] = Round(f, w, s)
           Q == {n \in Nat : \E f \in [SUBSET S -> Nat] : Upto(f, n)}
<1>0. \A s \in SUBSET S : IsFiniteSet(s) /\ Cardinality(s) \in Nat
  BY FS_Subset, FS_CardinalityType
<1>1. 0 \in Q
  <2>1. PICK f : f = [s \in SUBSET S |-> 0]
    OBVIOUS
  <2>2. f \in [SUBSET S -> Nat] /\ \A s \in SUBSET S : f[s] = 0
    BY <2>1
  <2>3. \A s \in SUBSET S : Cardinality(s) <= 0 => s = {}
    BY <1>0, FS_EmptySet
  <2>4. Upto(f, 0)
    BY <2>2, <2>3 DEF Round
  <2> QED BY <2>2, <2>4
<1>2. ASSUME NEW n \in Nat, n \in Q PROVE n + 1 \in Q
  <2>1. PICK f \in [SUBSET S -> Nat] : Upto(f, n)
    BY <1>2
  <2>2. PICK g : g = [s \in SUBSET S |-> Round(f, w, s)]
    OBVIOUS
  <2>3. \A s \in SUBSET S : s # {} =>
           /\ First(s) \in S /\ s \ {First(s)} \in SUBSET S
           /\ Cardinality(s \ {First(s)}) = Cardinality(s) - 1
    BY <1>0, FirstInSet, FS_RemoveElement
  <2>4. \A s \in SUBSET S : Round(f, w, s) \in Nat
    BY <2>3 DEF Round
  <2>5. g \in [SUBSET S -> Nat]
    BY <2>2, <2>4
  <2>6. \A s \in SUBSET S : Cardinality(s) <= n => g[s] = f[s]
    BY <2>1, <2>2
  <2>7. ASSUME NEW s \in SUBSET S, Cardinality(s) <= n + 1
        PROVE  g[s] = Round(g, w, s)
    <3>1. CASE s = {}
      BY <2>2, <3>1 DEF Round
    <3>2. CASE s # {}
      <4>1. PICK r \in SUBSET S : r = s \ {First(s)}
        BY <2>3, <3>2
      <4>2. Cardinality(r) <= n
        BY <1>0, <2>3, <2>7, <3>2, <4>1
      <4>3. g[r] = f[r]
        BY <2>6, <4>2
      <4>4. g[s] = w[First(s)] + f[r]
        BY <2>2, <3>2, <4>1 DEF Round
      <4> QED BY <3>2, <4>1, <4>3, <4>4 DEF Round
    <3> QED BY <3>1, <3>2
  <2>8. Upto(g, n + 1)
    BY <2>7
  <2> QED BY <2>5, <2>8
<1>3. Nat \subseteq Q
  <2> HIDE DEF Q
  <2> QED BY <1>1, <1>2, NatCases
<1>4. PICK f \in [SUBSET S -> Nat] : Upto(f, Cardinality(S))
  BY <1>3, FS_CardinalityType
<1>5. \A s \in SUBSET S : Cardinality(s) <= Cardinality(S)
  BY FS_Subset
<1>6. \A s \in SUBSET S : f[s] = Round(f, w, s)
  BY <1>4, <1>5
<1>7. f = [s \in SUBSET S |-> Round(f, w, s)]
  BY <1>6
<1> QED BY <1>7 DEF Sums

(* Its solutions over two sets agree where both are defined. *)
LEMMA SumsAgree ==
  ASSUME NEW S, IsFiniteSet(S), NEW T \in SUBSET S, NEW w, NEW u, NEW f, NEW g,
         Sums(f, w, S), Sums(g, u, T), \A x \in T : w[x] = u[x]
  PROVE  \A s \in SUBSET T : f[s] = g[s]
<1> DEFINE Q == {s \in SUBSET T : f[s] = g[s]}
<1>1. ASSUME NEW s \in SUBSET T, \A x \in s : s \ {x} \in Q PROVE s \in Q
  <2>1. f[s] = Round(f, w, s) /\ g[s] = Round(g, u, s)
    BY DEF Sums
  <2>2. CASE s = {}
    BY <2>1, <2>2 DEF Round
  <2>3. CASE s # {}
    <3>1. First(s) \in s /\ First(s) \in T
      BY <2>3, FirstInSet
    <3>2. f[s \ {First(s)}] = g[s \ {First(s)}]
      BY <1>1, <3>1
    <3> QED BY <2>1, <2>3, <3>1, <3>2 DEF Round
  <2> QED BY <2>2, <2>3
<1>2. IsFiniteSet(T)
  BY FS_Subset
<1> HIDE DEF Q
<1>3. SUBSET T \subseteq Q
  BY <1>1, <1>2, SubsetCases
<1> QED BY <1>3 DEF Q

(* So the sum over a set is a natural number, that of every subset is the  *)
(* value of one function, and that function obeys the rounds of the fold.  *)
Tabulates(f, w, S) == /\ f \in [SUBSET S -> Nat] /\ Sums(f, w, S)
                      /\ \A s \in SUBSET S : Total(w, s) = f[s]

LEMMA TotalFunction ==
  ASSUME NEW S, IsFiniteSet(S), NEW w, \A x \in S : w[x] \in Nat
  PROVE  \E f : Tabulates(f, w, S)
<1>1. PICK f : f \in [SUBSET S -> Nat] /\ Sums(f, w, S)
  BY SumExists
<1>2. ASSUME NEW s \in SUBSET S PROVE Total(w, s) = f[s]
  <2>1. IsFiniteSet(s) /\ \A x \in s : w[x] \in Nat
    BY FS_Subset
  <2>2. \E g : Sums(g, w, s)
    BY <2>1, SumExists
  <2>3. PICK g : g = CHOOSE h : Sums(h, w, s)
    OBVIOUS
  <2>4. Sums(g, w, s)
    BY <2>2, <2>3
  <2>5. Total(w, s) = g[s]
    BY <2>3, TotalIsChosen
  <2> QED BY <1>1, <2>4, <2>5, SumsAgree
<1> QED BY <1>1, <1>2 DEF Tabulates

LEMMA TotalEmpty ==
  ASSUME NEW w
  PROVE  Total(w, {}) = 0
<1>1. IsFiniteSet({}) /\ \A x \in {} : w[x] \in Nat
  BY FS_EmptySet
<1>2. PICK f : Tabulates(f, w, {})
  BY <1>1, TotalFunction, Zenon
<1>3. {} \in SUBSET {}
  OBVIOUS
<1>4. f[{}] = 0
  BY <1>2, <1>3 DEF Tabulates, Sums, Round
<1> QED BY <1>2, <1>3, <1>4 DEF Tabulates

LEMMA TotalType ==
  ASSUME NEW S, IsFiniteSet(S), NEW w, \A x \in S : w[x] \in Nat
  PROVE  Total(w, S) \in Nat
<1>1. PICK f : Tabulates(f, w, S)
  BY TotalFunction, Zenon
<1>2. S \in SUBSET S /\ f[S] \in Nat
  BY <1>1 DEF Tabulates
<1> QED BY <1>1, <1>2 DEF Tabulates

(* Any element may be taken out first. *)
LEMMA TotalRemove ==
  ASSUME NEW S, IsFiniteSet(S), NEW w, \A x \in S : w[x] \in Nat, NEW e \in S
  PROVE  Total(w, S) = w[e] + Total(w, S \ {e})
<1>1. PICK f : Tabulates(f, w, S)
  BY TotalFunction, Zenon
<1> DEFINE Q == {s \in SUBSET S : \A x \in s : f[s] = w[x] + f[s \ {x}]}
<1>2. ASSUME NEW s \in SUBSET S, \A x \in s : s \ {x} \in Q PROVE s \in Q
  <2> SUFFICES ASSUME NEW x \in s PROVE f[s] = w[x] + f[s \ {x}]
    OBVIOUS
  <2>1. PICK p \in s : p = First(s)
    BY FirstInSet
  <2>2. f[s] = w[p] + f[s \ {p}]
    BY <1>1, <2>1 DEF Tabulates, Sums, Round
  <2>3. CASE x = p
    BY <2>2, <2>3
  <2>4. CASE x # p
    <3>1. PICK r \in SUBSET S : r = (s \ {p}) \ {x} /\ r = (s \ {x}) \ {p}
      OBVIOUS
    <3>2. f[s \ {p}] = w[x] + f[r]
      BY <1>2, <2>4, <3>1
    <3>3. f[s \ {x}] = w[p] + f[r]
      BY <1>2, <2>4, <3>1
    <3>4. w[x] \in Nat /\ w[p] \in Nat /\ f[r] \in Nat
      BY <1>1 DEF Tabulates
    <3> QED BY <2>2, <3>2, <3>3, <3>4
  <2> QED BY <2>3, <2>4
<1>3. SUBSET S \subseteq Q
  <2> HIDE DEF Q
  <2> QED BY <1>2, SubsetCases
<1>4. f[S] = w[e] + f[S \ {e}]
  BY <1>3
<1> QED BY <1>1, <1>4 DEF Tabulates

(* Only the values on the set count. *)
LEMMA TotalSame ==
  ASSUME NEW S, IsFiniteSet(S), NEW w, NEW u,
         \A x \in S : w[x] \in Nat /\ u[x] = w[x]
  PROVE  Total(w, S) = Total(u, S)
<1>1. PICK f : Tabulates(f, w, S)
  <2>1. \A x \in S : w[x] \in Nat
    OBVIOUS
  <2> QED BY <2>1, TotalFunction, Zenon
<1>2. PICK g : Tabulates(g, u, S)
  <2>1. \A x \in S : u[x] \in Nat
    OBVIOUS
  <2> QED BY <2>1, TotalFunction, Zenon
<1>3. S \in SUBSET S
  OBVIOUS
<1>4. f[S] = g[S]
  BY <1>1, <1>2, <1>3, SumsAgree DEF Tabulates
<1> QED BY <1>1, <1>2, <1>3, <1>4 DEF Tabulates
-----------------------------------------------------------------------------
(* The limits of the outbox.  `With' is what an outbox holds once the      *)
(* messages of a journal that it lacks are written to it.                  *)

Outboxes == [Keys -> Bytes \cup {None}]

NoMessages == [k \in Keys |-> None]

With(msg, M) ==
  [k \in Keys |-> IF msg[k] = None /\ \E m \in M : m.key = k
                  THEN (CHOOSE m \in M : m.key = k).bytes ELSE msg[k]]

Within(msg) == queued(msg) <= Capacity /\ QueuedBytes(msg) <= ByteCapacity

Weights(msg) == [k \in Stored(msg) |-> Size[msg[k]]]

TakenBytes(M) == MapThenSumSet(LAMBDA t : Size[t.bytes], M)

TakenWeights(M) == [m \in M |-> Size[m.bytes]]

LEMMA StoredFacts ==
  ASSUME NEW msg \in Outboxes
  PROVE  /\ Stored(msg) \subseteq Keys /\ IsFiniteSet(Stored(msg))
         /\ queued(msg) = Cardinality(Stored(msg)) /\ queued(msg) \in Nat
         /\ \A k \in Stored(msg) : msg[k] \in Bytes /\ Size[msg[k]] \in Nat
         /\ \A k \in Stored(msg) : Weights(msg)[k] = Size[msg[k]] /\ Weights(msg)[k] \in Nat
<1>1. Stored(msg) \subseteq Keys /\ \A k \in Stored(msg) : msg[k] \in Bytes
  BY DEF Stored, Outboxes
<1>2. \A k \in Stored(msg) : Size[msg[k]] \in Nat
  BY <1>1, StoreAssumption
<1>3. IsFiniteSet(Stored(msg)) /\ Cardinality(Stored(msg)) \in Nat
  BY <1>1, StoreAssumption, FS_Subset, FS_CardinalityType
<1> QED BY <1>1, <1>2, <1>3 DEF Weights, queued

(* validate_queue sums over the names, commit over the messages it takes. *)
LEMMA QueuedIsTotal ==
  ASSUME NEW msg \in Outboxes
  PROVE  QueuedBytes(msg) = Total(Weights(msg), Stored(msg))
<1> DEFINE S == Stored(msg)
           Eq(f) == f = [s \in SUBSET S |-> IF s = {} THEN 0 ELSE Size[msg[First(s)]] + f[s \ {First(s)}]]
<1>1. QueuedBytes(msg) = (CHOOSE f : Eq(f))[S]
  BY DEF QueuedBytes, MapThenSumSet, MapThenFoldSet, First
<1>2. IsFiniteSet(S) /\ \A k \in S : Weights(msg)[k] = Size[msg[k]] /\ Weights(msg)[k] \in Nat
  BY StoredFacts
<1>3. ASSUME NEW f PROVE Eq(f) <=> Sums(f, Weights(msg), S)
  <2>1. \A s \in SUBSET S : Round(f, Weights(msg), s) =
          IF s = {} THEN 0 ELSE Size[msg[First(s)]] + f[s \ {First(s)}]
    BY <1>2, FirstInSet DEF Round
  <2> QED BY <2>1 DEF Sums
<1> HIDE DEF Eq, S
<1>4. PICK g : g = CHOOSE f : Eq(f)
  OBVIOUS
<1>5. \E f : Eq(f)
  BY <1>2, <1>3, SumExists
<1>6. Sums(g, Weights(msg), S)
  BY <1>3, <1>4, <1>5
<1>7. PICK f : Tabulates(f, Weights(msg), S)
  BY <1>2, TotalFunction
<1>8. S \in SUBSET S
  OBVIOUS
<1>9. f[S] = g[S]
  BY <1>2, <1>6, <1>7, <1>8, SumsAgree DEF Tabulates
<1> QED BY <1>1, <1>4, <1>7, <1>8, <1>9 DEF Tabulates, S

LEMMA TakenIsTotal ==
  ASSUME NEW M \in SUBSET Message, IsFiniteSet(M)
  PROVE  /\ TakenBytes(M) = Total(TakenWeights(M), M)
         /\ \A m \in M : TakenWeights(M)[m] = Size[m.bytes] /\ TakenWeights(M)[m] \in Nat
<1> DEFINE Eq(f) == f = [s \in SUBSET M |-> IF s = {} THEN 0 ELSE Size[First(s).bytes] + f[s \ {First(s)}]]
<1>1. TakenBytes(M) = (CHOOSE f : Eq(f))[M]
  BY DEF TakenBytes, MapThenSumSet, MapThenFoldSet, First
<1>2. \A m \in M : TakenWeights(M)[m] = Size[m.bytes] /\ TakenWeights(M)[m] \in Nat
  BY StoreAssumption DEF Message, TakenWeights
<1>3. ASSUME NEW f PROVE Eq(f) <=> Sums(f, TakenWeights(M), M)
  <2>1. \A s \in SUBSET M : Round(f, TakenWeights(M), s) =
          IF s = {} THEN 0 ELSE Size[First(s).bytes] + f[s \ {First(s)}]
    BY <1>2, FirstInSet DEF Round
  <2> QED BY <2>1 DEF Sums
<1> HIDE DEF Eq
<1>4. PICK g : g = CHOOSE f : Eq(f)
  OBVIOUS
<1>5. \E f : Eq(f)
  BY <1>2, <1>3, SumExists
<1>6. Sums(g, TakenWeights(M), M)
  BY <1>3, <1>4, <1>5
<1>7. PICK f : Tabulates(f, TakenWeights(M), M)
  BY <1>2, TotalFunction
<1>8. M \in SUBSET M
  OBVIOUS
<1>9. f[M] = g[M]
  BY <1>6, <1>7, <1>8, SumsAgree DEF Tabulates
<1> QED BY <1>1, <1>2, <1>4, <1>7, <1>8, <1>9 DEF Tabulates

(* Writing one message where there is none adds its size. *)
Grown(n, msg, k, b) ==
  /\ n \in Outboxes /\ Stored(n) = Stored(msg) \cup {k}
  /\ queued(msg) \in Nat /\ queued(n) = queued(msg) + 1
  /\ QueuedBytes(msg) \in Nat /\ QueuedBytes(n) = QueuedBytes(msg) + Size[b]

LEMMA WriteSum ==
  ASSUME NEW msg \in Outboxes, NEW k \in Keys, msg[k] = None, NEW b \in Bytes,
         NEW n \in Outboxes, n[k] = b, \A j \in Keys : j # k => n[j] = msg[j]
  PROVE  Grown(n, msg, k, b)
<1>0. b # None /\ Size[b] \in Nat
  BY NoneAssumption, StoreAssumption
<1>2. Stored(n) = Stored(msg) \cup {k} /\ k \notin Stored(msg) /\ Stored(n) \ {k} = Stored(msg)
  BY <1>0 DEF Stored
<1>3. queued(msg) \in Nat /\ queued(n) = queued(msg) + 1
  <2>1. /\ IsFiniteSet(Stored(msg)) /\ queued(msg) = Cardinality(Stored(msg)) /\ queued(msg) \in Nat
        /\ queued(n) = Cardinality(Stored(n))
    BY StoredFacts
  <2>2. Cardinality(Stored(msg) \cup {k}) = Cardinality(Stored(msg)) + 1
    BY <1>2, <2>1, FS_AddElement
  <2> QED BY <1>2, <2>1, <2>2
<1>4. Total(Weights(n), Stored(n)) = Weights(n)[k] + Total(Weights(n), Stored(n) \ {k})
  <2>1. IsFiniteSet(Stored(n)) /\ \A x \in Stored(n) : Weights(n)[x] \in Nat
    BY StoredFacts
  <2>2. k \in Stored(n)
    BY <1>2
  <2> QED BY <2>1, <2>2, TotalRemove
<1>5. Weights(n)[k] = Size[b]
  <2>1. k \in Stored(n)
    BY <1>2
  <2>2. Weights(n)[k] = Size[n[k]]
    BY <2>1, StoredFacts
  <2> QED BY <2>2
<1>6. Total(Weights(n), Stored(msg)) = Total(Weights(msg), Stored(msg))
  <2>1. \A x \in Stored(msg) : Weights(n)[x] = Size[n[x]] /\ Weights(msg)[x] = Size[msg[x]] /\ Weights(n)[x] \in Nat
    BY <1>2, StoredFacts
  <2>2. \A x \in Stored(msg) : n[x] = msg[x]
    BY <1>2 DEF Stored
  <2>3. \A x \in Stored(msg) : Weights(n)[x] \in Nat /\ Weights(msg)[x] = Weights(n)[x]
    <3> SUFFICES ASSUME NEW x \in Stored(msg)
                 PROVE  Weights(n)[x] \in Nat /\ Weights(msg)[x] = Weights(n)[x]
      OBVIOUS
    <3>1. n[x] = msg[x]
      BY <2>2
    <3>2. Size[n[x]] = Size[msg[x]]
      BY <3>1, Zenon
    <3> QED BY <2>1, <3>2
  <2> QED BY <2>3, StoredFacts, TotalSame
<1>7. Total(Weights(msg), Stored(msg)) \in Nat
  BY StoredFacts, TotalType
<1>8. /\ QueuedBytes(msg) = Total(Weights(msg), Stored(msg))
      /\ QueuedBytes(n) = Total(Weights(n), Stored(n))
  BY QueuedIsTotal
<1>9. QueuedBytes(n) = Size[b] + QueuedBytes(msg)
  BY <1>2, <1>4, <1>5, <1>6, <1>8, Zenon
<1> QED BY <1>0, <1>2, <1>3, <1>7, <1>8, <1>9 DEF Grown

LEMMA WriteOne ==
  ASSUME NEW msg \in Outboxes, NEW k \in Keys, msg[k] = None, NEW b \in Bytes,
         NEW n, n = [msg EXCEPT ![k] = b]
  PROVE  Grown(n, msg, k, b)
<1>1. n \in Outboxes /\ n[k] = b /\ \A j \in Keys : j # k => n[j] = msg[j]
  BY DEF Outboxes
<1> QED BY <1>1, WriteSum, Zenon

(* Taking one away leaves the outbox within its limits. *)
LEMMA EraseOne ==
  ASSUME NEW msg \in Outboxes, NEW k \in Stored(msg), Within(msg),
         NEW n, n = [msg EXCEPT ![k] = None]
  PROVE  n \in Outboxes /\ Stored(n) = Stored(msg) \ {k} /\ Within(n)
<1>1. k \in Keys /\ msg[k] \in Bytes
  BY DEF Stored, Outboxes
<1>2. n \in Outboxes /\ n[k] = None
  BY <1>1 DEF Outboxes
<1>3. msg = [n EXCEPT ![k] = msg[k]]
  BY <1>1, <1>2 DEF Outboxes
<1>4. /\ queued(n) \in Nat /\ queued(msg) = queued(n) + 1
      /\ QueuedBytes(n) \in Nat /\ QueuedBytes(msg) = QueuedBytes(n) + Size[msg[k]]
  BY <1>1, <1>2, <1>3, WriteOne DEF Grown
<1>5. Size[msg[k]] \in Nat /\ Capacity \in Nat /\ ByteCapacity \in Nat
  BY <1>1, StoreAssumption
<1>6. Within(n)
  BY <1>4, <1>5 DEF Within
<1>7. Stored(n) = Stored(msg) \ {k}
  BY <1>1, <1>2 DEF Stored, Outboxes
<1> QED BY <1>2, <1>6, <1>7

LEMMA EmptyWithin ==
  NoMessages \in Outboxes /\ Stored(NoMessages) = {} /\ Within(NoMessages)
<1>1. NoMessages \in Outboxes /\ Stored(NoMessages) = {}
  BY DEF NoMessages, Outboxes, Stored
<1>2. queued(NoMessages) = 0
  BY <1>1, FS_EmptySet DEF queued
<1>3. QueuedBytes(NoMessages) = 0
  BY <1>1, QueuedIsTotal, TotalEmpty
<1> QED BY <1>1, <1>2, <1>3, StoreAssumption DEF Within

LEMMA TakenRemove ==
  ASSUME NEW M \in SUBSET Message, IsFiniteSet(M), NEW m \in M
  PROVE  /\ TakenBytes(M) = Size[m.bytes] + TakenBytes(M \ {m})
         /\ TakenBytes(M \ {m}) \in Nat /\ Size[m.bytes] \in Nat
<1> DEFINE N == M \ {m}
<1>1. N \in SUBSET Message /\ IsFiniteSet(N) /\ N \subseteq M
  BY FS_RemoveElement
<1>2. /\ TakenBytes(M) = Total(TakenWeights(M), M)
      /\ \A x \in M : TakenWeights(M)[x] = Size[x.bytes] /\ TakenWeights(M)[x] \in Nat
  BY TakenIsTotal
<1>3. /\ TakenBytes(N) = Total(TakenWeights(N), N)
      /\ \A x \in N : TakenWeights(N)[x] = Size[x.bytes] /\ TakenWeights(N)[x] \in Nat
  <2> HIDE DEF N
  <2> QED BY <1>1, TakenIsTotal
<1>4. Total(TakenWeights(M), M) = TakenWeights(M)[m] + Total(TakenWeights(M), M \ {m})
  BY <1>2, TotalRemove
<1> HIDE DEF N
<1>5. Total(TakenWeights(N), N) = Total(TakenWeights(M), N)
  <2>1. \A x \in N : TakenWeights(N)[x] \in Nat /\ TakenWeights(M)[x] = TakenWeights(N)[x]
    BY <1>1, <1>2, <1>3
  <2> QED BY <1>1, <2>1, TotalSame
<1>6. Total(TakenWeights(N), N) \in Nat
  BY <1>1, <1>3, TotalType
<1> QED BY <1>2, <1>3, <1>4, <1>5, <1>6 DEF N

LEMMA TakenNone == TakenBytes({}) = 0
  BY TakenIsTotal, TotalEmpty, FS_EmptySet

LEMMA WithNone ==
  ASSUME NEW msg \in Outboxes
  PROVE  With(msg, {}) = msg
  BY DEF With, Outboxes

(* What the outbox holds once a message is known. *)
LEMMA WithValues ==
  ASSUME NEW msg \in Outboxes, NEW M \in SUBSET Message, Distinct(M)
  PROVE  /\ With(msg, M) \in Outboxes
         /\ \A k \in Keys : msg[k] # None => With(msg, M)[k] = msg[k]
         /\ \A k \in Keys : (\A m \in M : m.key # k) => With(msg, M)[k] = msg[k]
         /\ \A m \in M : m.key \in Keys /\ (msg[m.key] = None => With(msg, M)[m.key] = m.bytes)
<1>1. ASSUME NEW k \in Keys, NEW m \in M, m.key = k PROVE (CHOOSE x \in M : x.key = k) = m
  BY <1>1 DEF Distinct
<1>2. \A m \in M : m.key \in Keys /\ m.bytes \in Bytes
  BY DEF Message
<1>3. \A k \in Keys : /\ With(msg, M)[k] = IF msg[k] = None /\ \E m \in M : m.key = k
                                          THEN (CHOOSE m \in M : m.key = k).bytes ELSE msg[k]
  BY DEF With
<1>4. \A k \in Keys : With(msg, M)[k] \in Bytes \cup {None}
  BY <1>1, <1>2, <1>3 DEF Outboxes
<1>5. With(msg, M) \in Outboxes
  BY <1>4 DEF With, Outboxes
<1> QED BY <1>1, <1>2, <1>3, <1>5

LEMMA WithCounts ==
  ASSUME NEW msg \in Outboxes, NEW M \in SUBSET Message, IsFiniteSet(M), Distinct(M),
         \A m \in M : msg[m.key] = None
  PROVE  /\ queued(With(msg, M)) = queued(msg) + Cardinality(M)
         /\ QueuedBytes(With(msg, M)) = QueuedBytes(msg) + TakenBytes(M)
<1> DEFINE Counts(A) == /\ queued(With(msg, A)) = queued(msg) + Cardinality(A)
                        /\ QueuedBytes(With(msg, A)) = QueuedBytes(msg) + TakenBytes(A)
           Q == {A \in SUBSET M : Counts(A)}
<1>0. queued(msg) \in Nat /\ QueuedBytes(msg) \in Nat
  BY StoredFacts, QueuedIsTotal, TotalType
<1>1. ASSUME NEW A \in SUBSET M, \A x \in A : A \ {x} \in Q PROVE A \in Q
  <2>1. CASE A = {}
    BY <1>0, <2>1, WithNone, TakenNone, FS_EmptySet
  <2>2. CASE A # {}
    <3>1. PICK m \in A : TRUE
      BY <2>2
    <3>2. PICK B : B = A \ {m}
      OBVIOUS
    <3>3. /\ A \in SUBSET Message /\ B \in SUBSET Message /\ Distinct(A) /\ Distinct(B)
          /\ m.key \in Keys /\ m.bytes \in Bytes /\ msg[m.key] = None
          /\ \A x \in B : x.key # m.key
      BY <3>1, <3>2 DEF Distinct, Message
    <3>4. IsFiniteSet(A) /\ IsFiniteSet(B) /\ Cardinality(B) \in Nat /\ Cardinality(A) = Cardinality(B) + 1
      <4>1. IsFiniteSet(A)
        BY FS_Subset
      <4>2. IsFiniteSet(B) /\ Cardinality(B) = Cardinality(A) - 1 /\ Cardinality(A) \in Nat /\ Cardinality(B) \in Nat
        BY <3>1, <3>2, <4>1, FS_RemoveElement, FS_CardinalityType
      <4> QED BY <4>1, <4>2
    <3>5. PICK o : o = With(msg, B)
      OBVIOUS
    <3>6. o \in Outboxes /\ o[m.key] = None
      BY <3>3, <3>5, WithValues
    <3>7. With(msg, A) = [o EXCEPT ![m.key] = m.bytes]
      <4>1. With(msg, A) \in Outboxes /\ With(msg, A)[m.key] = m.bytes
        BY <3>1, <3>3, WithValues
      <4>2. ASSUME NEW k \in Keys, k # m.key PROVE With(msg, A)[k] = o[k]
        <5>1. CASE \E x \in B : x.key = k
          <6>1. PICK x \in B : x.key = k
            BY <5>1
          <6>2. x \in A /\ msg[k] = None
            BY <3>2, <6>1
          <6>3. With(msg, A)[k] = x.bytes
            BY <3>3, <6>1, <6>2, WithValues
          <6>4. With(msg, B)[k] = x.bytes
            BY <3>3, <6>1, <6>2, WithValues
          <6> QED BY <3>5, <6>3, <6>4
        <5>2. CASE \A x \in B : x.key # k
          <6>1. \A x \in A : x.key # k
            BY <3>2, <4>2, <5>2
          <6>2. With(msg, A)[k] = msg[k]
            BY <3>3, <6>1, WithValues
          <6>3. With(msg, B)[k] = msg[k]
            BY <3>3, <5>2, WithValues
          <6> QED BY <3>5, <6>2, <6>3
        <5> QED BY <5>1, <5>2
      <4> QED BY <3>3, <3>6, <4>1, <4>2 DEF Outboxes
    <3>8. /\ queued(o) \in Nat /\ queued(With(msg, A)) = queued(o) + 1
          /\ QueuedBytes(o) \in Nat /\ QueuedBytes(With(msg, A)) = QueuedBytes(o) + Size[m.bytes]
      <4>1. PICK p : p = With(msg, A)
        OBVIOUS
      <4>2. PICK k \in Keys, b \in Bytes : k = m.key /\ b = m.bytes
        BY <3>3
      <4>3. p = [o EXCEPT ![k] = b] /\ o[k] = None
        BY <3>6, <3>7, <4>1, <4>2
      <4>4. Grown(p, o, k, b)
        BY <3>6, <4>3, WriteOne, Zenon
      <4> QED BY <4>1, <4>2, <4>4 DEF Grown
    <3>9. TakenBytes(A) = Size[m.bytes] + TakenBytes(B) /\ TakenBytes(B) \in Nat /\ Size[m.bytes] \in Nat
      BY <3>1, <3>2, <3>3, <3>4, TakenRemove
    <3>10. /\ queued(o) = queued(msg) + Cardinality(B)
           /\ QueuedBytes(o) = QueuedBytes(msg) + TakenBytes(B)
      BY <1>1, <3>1, <3>2, <3>5
    <3>11. Counts(A)
      BY <1>0, <3>4, <3>8, <3>9, <3>10
    <3> QED BY <3>11
  <2> QED BY <2>1, <2>2
<1>2. SUBSET M \subseteq Q
  <2> HIDE DEF Q
  <2> QED BY <1>1, SubsetCases
<1> QED BY <1>2

LEMMA Greatest ==
  ASSUME NEW n \in Nat, NEW I \in SUBSET (1..n), I # {}
  PROVE  \E i \in I : \A j \in I : j <= i
<1> DEFINE Q == {c \in Nat : \A J \in SUBSET (1..c) : J # {} => \E i \in J : \A j \in J : j <= i}
<1>1. 0 \in Q
  <2>1. 1..0 = {}
    OBVIOUS
  <2>2. \A J \in SUBSET (1..0) : J = {}
    BY <2>1
  <2> QED BY <2>2
<1>2. ASSUME NEW c \in Nat, c \in Q PROVE c + 1 \in Q
  <2> SUFFICES ASSUME NEW J \in SUBSET (1..(c + 1)), J # {}
               PROVE  \E i \in J : \A j \in J : j <= i
    OBVIOUS
  <2>1. CASE c + 1 \in J
    BY <2>1
  <2>2. CASE c + 1 \notin J
    <3>1. J \in SUBSET (1..c)
      BY <2>2
    <3> QED BY <1>2, <3>1
  <2> QED BY <2>1, <2>2
<1>3. Nat \subseteq Q
  <2> HIDE DEF Q
  <2> QED BY <1>1, <1>2, NatCases
<1> QED BY <1>3

(* The messages of one journal have distinct keys, so they are finitely many. *)
LEMMA DistinctFinite ==
  ASSUME NEW M \in SUBSET Message, Distinct(M)
  PROVE  IsFiniteSet(M)
<1>1. PICK f : f = [m \in M |-> m.key]
  OBVIOUS
<1>2. f \in [M -> Keys]
  BY <1>1 DEF Message
<1>3. \A m, n \in M : f[m] = f[n] => m = n
  BY <1>1 DEF Distinct
<1>4. f \in Injection(M, Keys)
  BY <1>2, <1>3 DEF Injection, IsInjective
<1> QED BY <1>4, StoreAssumption, FS_Injection

(* The loop of commit() counts what it has taken before it takes another,  *)
(* so the journal it writes never asks for more than the outbox may hold.  *)
LEMMA AcceptedFit ==
  ASSUME NEW msg \in Outboxes, Within(msg), NEW batch \in Batches,
         NEW accepted, Accepts(msg, batch, accepted)
  PROVE  /\ accepted \in SUBSET Message /\ Distinct(accepted)
         /\ \A m \in accepted : msg[m.key] = None
         /\ Within(With(msg, accepted))
<1> DEFINE I == {i \in DOMAIN batch : batch[i] \in accepted}
<1>1. PICK n \in Nat : batch \in [1..n -> Message] /\ DOMAIN batch = 1..n
  BY StoreAssumption DEF Batches
<1>2. \A i, j \in 1..n : i # j => batch[i].key # batch[j].key
  BY <1>1 DEF Batches
<1>3. \A m \in accepted : \E i \in I : m = batch[i]
  BY DEF Accepts
<1>4. \A i \in I : /\ i \in 1..n /\ batch[i] \in Message /\ msg[batch[i].key] = None
                   /\ Room(msg, {batch[j] : j \in 1..(i - 1)} \cap accepted, batch[i])
  BY <1>1 DEF Accepts
<1> HIDE DEF I
<1>5. accepted \in SUBSET Message /\ Distinct(accepted) /\ \A m \in accepted : msg[m.key] = None
  <2>1. accepted \in SUBSET Message /\ \A m \in accepted : msg[m.key] = None
    BY <1>3, <1>4
  <2>2. Distinct(accepted)
    <3> SUFFICES ASSUME NEW x \in accepted, NEW y \in accepted, x.key = y.key PROVE x = y
      BY DEF Distinct
    <3>1. PICK i \in I, j \in I : x = batch[i] /\ y = batch[j]
      BY <1>3
    <3>2. i \in 1..n /\ j \in 1..n
      BY <1>4
    <3>3. i = j
      BY <1>2, <3>1, <3>2
    <3> QED BY <3>1, <3>3
  <2> QED BY <2>1, <2>2
<1>6. CASE accepted = {}
  BY <1>5, <1>6, WithNone
<1>7. CASE accepted # {}
  <2>1. I # {} /\ I \in SUBSET (1..n)
    <3>1. \A i \in I : i \in 1..n
      BY <1>4
    <3>2. PICK m \in accepted : TRUE
      BY <1>7
    <3>3. \E i \in I : m = batch[i]
      BY <1>3
    <3> QED BY <3>1, <3>3
  <2>2. PICK i \in I : \A j \in I : j <= i
    BY <2>1, Greatest
  <2>3. PICK m \in accepted : m = batch[i]
    BY <2>2 DEF I
  <2>4. PICK A : A = {batch[j] : j \in 1..(i - 1)} \cap accepted
    OBVIOUS
  <2>5. A \in SUBSET accepted /\ A \in SUBSET Message /\ Distinct(A) /\ \A x \in A : msg[x.key] = None
    BY <1>5, <2>4 DEF Distinct
  <2>6. accepted \ {m} = A
    <3>1. ASSUME NEW x \in accepted, x # m PROVE x \in A
      <4>1. PICK j \in I : x = batch[j]
        BY <1>3
      <4>2. j # i /\ j <= i /\ j \in Nat /\ i \in Nat /\ j >= 1
        <5>1. i \in 1..n /\ j \in 1..n
          BY <2>1
        <5>2. j # i
          BY <2>3, <3>1, <4>1
        <5> QED BY <1>1, <2>2, <5>1, <5>2
      <4>3. j \in 1..(i - 1)
        BY <4>2
      <4> QED BY <2>4, <4>1, <4>3
    <3>2. ASSUME NEW x \in A PROVE x \in accepted /\ x # m
      <4>1. PICK j \in 1..(i - 1) : x = batch[j]
        BY <2>4
      <4>2. j \in 1..n /\ i \in 1..n /\ j # i
        <5>1. i \in 1..n
          BY <2>1
        <5> QED BY <1>1, <4>1, <5>1
      <4>3. batch[j].key # batch[i].key
        BY <1>2, <4>2
      <4> QED BY <2>3, <2>5, <4>1, <4>3
    <3> QED BY <3>1, <3>2
  <2>7. /\ queued(msg) + Cardinality(A) < Capacity
        /\ QueuedBytes(msg) + TakenBytes(A) + Size[m.bytes] <= ByteCapacity
    <3>1. Room(msg, A, m)
      BY <1>4, <2>2, <2>3, <2>4
    <3> QED BY <3>1 DEF Room, TakenBytes
  <2>8. IsFiniteSet(accepted) /\ IsFiniteSet(A)
    BY <1>5, <2>5, DistinctFinite
  <2>9. Cardinality(A) \in Nat /\ Cardinality(accepted) = Cardinality(A) + 1
    <3>1. Cardinality(accepted \ {m}) = Cardinality(accepted) - 1
      BY <2>8, FS_RemoveElement
    <3>2. Cardinality(accepted) \in Nat /\ Cardinality(A) \in Nat
      BY <2>8, FS_CardinalityType
    <3>3. Cardinality(A) = Cardinality(accepted) - 1
      BY <2>6, <3>1
    <3> QED BY <3>2, <3>3
  <2>10. /\ TakenBytes(accepted) = Size[m.bytes] + TakenBytes(A)
         /\ TakenBytes(A) \in Nat /\ Size[m.bytes] \in Nat
    BY <1>5, <2>6, <2>8, TakenRemove
  <2>11. /\ queued(With(msg, accepted)) = queued(msg) + Cardinality(accepted)
         /\ QueuedBytes(With(msg, accepted)) = QueuedBytes(msg) + TakenBytes(accepted)
    BY <1>5, <2>8, WithCounts
  <2>12. queued(msg) \in Nat /\ QueuedBytes(msg) \in Nat /\ Capacity \in Nat /\ ByteCapacity \in Nat
    BY StoredFacts, QueuedIsTotal, TotalType, StoreAssumption
  <2>13. Within(With(msg, accepted))
    BY <2>7, <2>9, <2>10, <2>11, <2>12 DEF Within
  <2> QED BY <1>5, <2>13
<1> QED BY <1>6, <1>7
-----------------------------------------------------------------------------
(* The store while no call fails.  Between two syncs there is one change   *)
(* on the way, so an image has the files of `synced' or those of `disk',   *)
(* and `disk' is what the operation under way makes of `synced'.           *)

(* Two images that differ in checksums and temporaries only. *)
Alike(v, u) == /\ v.root.txn = u.root.txn /\ v.root.state = u.root.state
               /\ v.out.msg = u.out.msg /\ v.out.blocked = u.out.blocked

(* An image that the constructor will accept once its journal is replayed. *)
Healthy(v) ==
  /\ v.out.blocked \subseteq Stored(v.out.msg)
  /\ Within(RecoveredOutbox(v))
  /\ v.root.txn # None => /\ v.root.state # None /\ Distinct(v.root.txn.messages)
                          /\ \A m \in v.root.txn.messages : v.out.msg[m.key] \in {None, m.bytes}
  /\ v.root.txn = None /\ v.root.state = None => v.out.msg = NoMessages

Track ==
  /\ stage = "open" => images = {synced} /\ disk = synced
  /\ stage = "rename" => Alike(disk, synced)
  /\ \A v \in images : Alike(v, synced) \/ (stage = "sync" /\ Alike(v, disk))
  /\ pc \in RootOps => \A v \in images : v.out = synced.out
  /\ pc \in OutboxOps => \A v \in images : v.root = synced.root

(* The one file that differs when a sync is due. *)
Written ==
  stage = "sync" =>
    /\ disk.root.txn = IF pc = "txn" THEN job ELSE IF pc = "remove_txn" THEN None ELSE synced.root.txn
    /\ disk.root.state = IF pc = "state" THEN job.state ELSE synced.root.state
    /\ pc \notin {"msg", "ack"} => disk.out.msg = synced.out.msg
    /\ pc = "msg" => disk.out.msg = [synced.out.msg EXCEPT ![key] = (CHOOSE m \in left : m.key = key).bytes]
    /\ pc = "ack" => disk.out.msg = [synced.out.msg EXCEPT ![key] = None]
    /\ disk.out.blocked = IF pc = "blocked" THEN synced.out.blocked \cup {key} ELSE synced.out.blocked

(* What the operation under way found when it began. *)
Due ==
  /\ pc = "txn" => /\ synced.root.txn = None
                   /\ \A m \in job.messages : synced.out.msg[m.key] = None
                   /\ Within(With(synced.out.msg, job.messages))
  /\ pc \in JobOps \ {"txn"} /\ phase # "creating" => synced.root.txn = job
  /\ pc = "msg" /\ stage # "open" => synced.out.msg[key] = None
  /\ phase = "creating" => /\ synced.root.txn = None
                           /\ pc = "state" => /\ synced.root.state = None
                                             /\ job.state \in InitStates /\ job.messages = {}
  /\ pc \in {"ack", "blocked"} => inflight = None /\ key \in Stored(synced.out.msg) \ synced.out.blocked
  /\ phase = "ready" /\ pc \notin JobOps => synced.root.txn = None
  /\ inflight # None => inflight.key \notin synced.out.blocked

SInv == Healthy(synced) /\ Track /\ Written /\ Due

(* All that is known of the store while no call fails. *)
CInv == IInv /\ MInv /\ SInv

-----------------------------------------------------------------------------
(* The changes of AtomicStore, between the values that two images stand    *)
(* for, and the change of the call under way.                              *)

Same(a, b) == /\ RecoveredState(b) = RecoveredState(a)
              /\ RecoveredOutbox(b) = RecoveredOutbox(a) /\ b.out.blocked = a.out.blocked

Commits(a, b, t) == /\ RecoveredState(b) = t.state
                    /\ RecoveredOutbox(b) = With(RecoveredOutbox(a), t.messages)
                    /\ b.out.blocked = a.out.blocked

Acknowledges(a, b, k) == /\ RecoveredOutbox(b) = [RecoveredOutbox(a) EXCEPT ![k] = None]
                         /\ RecoveredState(b) = RecoveredState(a) /\ b.out.blocked = a.out.blocked

Blocks(a, b, k) == /\ b.out.blocked = a.out.blocked \cup {k}
                   /\ RecoveredState(b) = RecoveredState(a)
                   /\ RecoveredOutbox(b) = RecoveredOutbox(a)

Calls == {"commit", "acknowledge", "block"}

Performs(a, b) == \/ CallMode = "commit" /\ Commits(a, b, job)
                  \/ CallMode = "acknowledge" /\ Acknowledges(a, b, key)
                  \/ CallMode = "block" /\ Blocks(a, b, key)

LEMMA RecoveredFacts ==
  ASSUME NEW v \in Disk
  PROVE  /\ v.out.msg \in Outboxes /\ v.out.blocked \subseteq Keys
         /\ v.root.txn \in Txn \cup {None} /\ v.root.state \in States \cup {None}
         /\ v.root.txn = None => /\ RecoveredState(v) = v.root.state
                                 /\ RecoveredOutbox(v) = v.out.msg
         /\ v.root.txn # None => /\ RecoveredState(v) = v.root.txn.state
                                 /\ RecoveredState(v) \in States
                                 /\ v.root.txn.messages \in SUBSET Message
                                 /\ RecoveredOutbox(v) = With(v.out.msg, v.root.txn.messages)
<1>1. /\ v.out.msg \in Outboxes /\ v.out.blocked \subseteq Keys
      /\ v.root.txn \in Txn \cup {None} /\ v.root.state \in States \cup {None}
  BY DEF Disk, Outbox, Root, Outboxes
<1>2. ASSUME v.root.txn = None
      PROVE  RecoveredState(v) = v.root.state /\ RecoveredOutbox(v) = v.out.msg
  <2>1. Journalled(v) = {}
    BY <1>2 DEF Journalled
  <2>2. RecoveredOutbox(v) = With(v.out.msg, {})
    BY <2>1 DEF RecoveredOutbox, With
  <2> QED BY <1>1, <1>2, <2>2, WithNone DEF RecoveredState
<1>3. ASSUME v.root.txn # None
      PROVE  /\ RecoveredState(v) = v.root.txn.state /\ RecoveredState(v) \in States
             /\ v.root.txn.messages \in SUBSET Message
             /\ RecoveredOutbox(v) = With(v.out.msg, v.root.txn.messages)
  <2>1. Journalled(v) = v.root.txn.messages
    BY <1>3 DEF Journalled
  <2>2. v.root.txn \in Txn
    BY <1>1, <1>3
  <2> QED BY <1>3, <2>1, <2>2 DEF RecoveredOutbox, With, RecoveredState, Txn
<1> QED BY <1>1, <1>2, <1>3

LEMMA AlikeSame ==
  ASSUME NEW v \in Disk, NEW u \in Disk, Alike(v, u)
  PROVE  /\ Same(u, v) /\ (Healthy(u) => Healthy(v))
         /\ \A a : (Same(a, u) => Same(a, v)) /\ (Performs(a, u) => Performs(a, v))
<1>1. RecoveredState(v) = RecoveredState(u) /\ RecoveredOutbox(v) = RecoveredOutbox(u)
      /\ v.out.blocked = u.out.blocked
  <2>1. CASE v.root.txn = None
    BY <2>1, RecoveredFacts DEF Alike
  <2>2. CASE v.root.txn # None
    BY <2>2, RecoveredFacts DEF Alike
  <2> QED BY <2>1, <2>2 DEF Alike
<1>2. Same(u, v)
  BY <1>1 DEF Same
<1>3. Healthy(u) => Healthy(v)
  BY <1>1 DEF Healthy, Alike
<1>4. \A a : (Same(a, u) => Same(a, v)) /\ (Performs(a, u) => Performs(a, v))
  BY <1>1 DEF Performs, Same, Commits, Acknowledges, Blocks
<1> QED BY <1>2, <1>3, <1>4

(* What a write makes of a healthy image, one lemma per kind of write. *)

LEMMA JournalAhead ==
  ASSUME NEW a \in Disk, NEW b \in Disk, Healthy(a), a.root.txn = None, a.root.state # None,
         b.root.txn \in Txn, Distinct(b.root.txn.messages), b.root.state = a.root.state,
         b.out.msg = a.out.msg, b.out.blocked = a.out.blocked,
         \A m \in b.root.txn.messages : a.out.msg[m.key] = None,
         Within(With(a.out.msg, b.root.txn.messages))
  PROVE  Healthy(b) /\ Commits(a, b, b.root.txn)
<1>0. b.root.txn # None
  BY NoneAssumption DEF Txn, Message
<1>1. RecoveredState(a) = a.root.state /\ RecoveredOutbox(a) = a.out.msg /\ a.out.msg \in Outboxes
  BY RecoveredFacts
<1>2. /\ RecoveredState(b) \in States /\ b.root.txn.messages \in SUBSET Message
      /\ RecoveredOutbox(b) = With(a.out.msg, b.root.txn.messages)
  BY <1>0, RecoveredFacts
<1>3. RecoveredState(b) = b.root.txn.state
  BY <1>0, RecoveredFacts
<1>4. Healthy(b)
  BY <1>0, <1>2 DEF Healthy
<1>5. Commits(a, b, b.root.txn)
  BY <1>1, <1>2, <1>3 DEF Commits
<1> QED BY <1>4, <1>5

LEMMA StateAhead ==
  ASSUME NEW a \in Disk, NEW b \in Disk, Healthy(a), a.root.txn # None, b.root.txn = a.root.txn,
         b.root.state # None, b.out.msg = a.out.msg, b.out.blocked = a.out.blocked
  PROVE  Healthy(b) /\ Same(a, b)
<1>1. RecoveredState(b) = RecoveredState(a) /\ RecoveredOutbox(b) = RecoveredOutbox(a)
  BY RecoveredFacts
<1> QED BY <1>1 DEF Healthy, Same

LEMMA CreateAhead ==
  ASSUME NEW a \in Disk, NEW b \in Disk, Healthy(a), a.root.txn = None, a.root.state = None,
         b.root.txn = None, NEW t, t.state \in InitStates, t.messages = {}, b.root.state = t.state,
         b.out.msg = a.out.msg, b.out.blocked = a.out.blocked
  PROVE  Healthy(b) /\ Commits(a, b, t)
<1>1. /\ RecoveredState(a) = None /\ RecoveredState(b) = b.root.state
      /\ RecoveredOutbox(a) = a.out.msg /\ RecoveredOutbox(b) = a.out.msg /\ a.out.msg \in Outboxes
  BY RecoveredFacts
<1>2. b.root.state # None
  BY StoreAssumption, NoneAssumption
<1>3. With(a.out.msg, t.messages) = a.out.msg
  BY <1>1, WithNone
<1> QED BY <1>1, <1>2, <1>3 DEF Healthy, Commits

LEMMA RemovalAhead ==
  ASSUME NEW a \in Disk, NEW b \in Disk, Healthy(a), a.root.txn # None, b.root.txn = None,
         b.root.state = a.root.state, a.root.state = a.root.txn.state,
         b.out.msg = a.out.msg, b.out.blocked = a.out.blocked,
         \A m \in a.root.txn.messages : a.out.msg[m.key] = m.bytes
  PROVE  Healthy(b) /\ Same(a, b)
<1>1. /\ RecoveredState(a) = a.root.txn.state /\ a.root.txn.messages \in SUBSET Message
      /\ RecoveredOutbox(a) = With(a.out.msg, a.root.txn.messages) /\ a.out.msg \in Outboxes
      /\ RecoveredState(b) = b.root.state /\ RecoveredOutbox(b) = a.out.msg
  BY RecoveredFacts
<1>2. \A m \in a.root.txn.messages : m.key \in Keys /\ a.out.msg[m.key] # None
  BY <1>1, NoneAssumption DEF Message
<1>3. With(a.out.msg, a.root.txn.messages) = a.out.msg
  BY <1>1, <1>2 DEF With, Outboxes
<1> QED BY <1>1, <1>3 DEF Healthy, Same

LEMMA MessageAhead ==
  ASSUME NEW a \in Disk, NEW b \in Disk, Healthy(a), a.root.txn # None, b.root.txn = a.root.txn,
         b.root.state = a.root.state, b.out.blocked = a.out.blocked,
         NEW w \in a.root.txn.messages, a.out.msg[w.key] = None,
         b.out.msg = [a.out.msg EXCEPT ![w.key] = w.bytes]
  PROVE  Healthy(b) /\ Same(a, b)
<1> DEFINE M == a.root.txn.messages
<1>1. /\ RecoveredState(b) = RecoveredState(a) /\ M \in SUBSET Message
      /\ RecoveredOutbox(a) = With(a.out.msg, M) /\ RecoveredOutbox(b) = With(b.out.msg, M)
      /\ a.out.msg \in Outboxes /\ b.out.msg \in Outboxes
  BY RecoveredFacts
<1>2. Distinct(M) /\ w \in M /\ w.key \in Keys /\ w.bytes \in Bytes /\ w.bytes # None
  BY <1>1, NoneAssumption DEF Healthy, Message
<1>3. b.out.msg[w.key] = w.bytes /\ \A k \in Keys : k # w.key => b.out.msg[k] = a.out.msg[k]
  BY <1>1, <1>2 DEF Outboxes
<1> HIDE DEF M
<1>4. ASSUME NEW k \in Keys PROVE With(b.out.msg, M)[k] = With(a.out.msg, M)[k]
  <2>1. CASE k = w.key
    BY <1>1, <1>2, <1>3, <2>1, WithValues
  <2>2. CASE k # w.key
    BY <1>3, <2>2 DEF With
  <2> QED BY <2>1, <2>2
<1>5. RecoveredOutbox(b) = RecoveredOutbox(a)
  <2>1. With(b.out.msg, M) \in Outboxes /\ With(a.out.msg, M) \in Outboxes
    BY <1>1, <1>2, WithValues
  <2> QED BY <1>1, <1>4, <2>1 DEF Outboxes
<1>6. \A m \in M : b.out.msg[m.key] \in {None, m.bytes}
  <2> SUFFICES ASSUME NEW m \in M PROVE b.out.msg[m.key] \in {None, m.bytes}
    OBVIOUS
  <2>1. CASE m.key = w.key
    BY <1>2, <1>3, <2>1 DEF Distinct
  <2>2. CASE m.key # w.key
    <3>1. a.out.msg[m.key] \in {None, m.bytes} /\ m.key \in Keys
      BY <1>1 DEF Healthy, M, Message
    <3> QED BY <1>3, <2>2, <3>1
  <2> QED BY <2>1, <2>2
<1>7. Stored(a.out.msg) \subseteq Stored(b.out.msg)
  BY <1>2, <1>3 DEF Stored
<1> QED BY <1>1, <1>2, <1>5, <1>6, <1>7 DEF Healthy, Same, M

LEMMA ReceiptAhead ==
  ASSUME NEW a \in Disk, NEW b \in Disk, Healthy(a), a.root.txn = None, a.root.state # None,
         b.root.txn = None, b.root.state = a.root.state, b.out.blocked = a.out.blocked,
         NEW k \in Stored(a.out.msg) \ a.out.blocked,
         b.out.msg = [a.out.msg EXCEPT ![k] = None]
  PROVE  Healthy(b) /\ Acknowledges(a, b, k)
<1>1. /\ RecoveredState(b) = RecoveredState(a) /\ RecoveredOutbox(a) = a.out.msg
      /\ RecoveredOutbox(b) = b.out.msg /\ a.out.msg \in Outboxes
  BY RecoveredFacts
<1>2. Within(a.out.msg)
  BY <1>1 DEF Healthy
<1>3. Stored(b.out.msg) = Stored(a.out.msg) \ {k} /\ Within(b.out.msg)
  <2>1. PICK o : o = b.out.msg
    OBVIOUS
  <2>2. o = [a.out.msg EXCEPT ![k] = None]
    BY <2>1
  <2>3. Stored(o) = Stored(a.out.msg) \ {k} /\ Within(o)
    BY <1>1, <1>2, <2>2, EraseOne, Zenon
  <2> QED BY <2>1, <2>3
<1>4. Healthy(b)
  BY <1>1, <1>3 DEF Healthy
<1>5. Acknowledges(a, b, k)
  BY <1>1 DEF Acknowledges
<1> QED BY <1>4, <1>5

LEMMA MarkerAhead ==
  ASSUME NEW a \in Disk, NEW b \in Disk, Healthy(a), a.root.txn = None, a.root.state # None,
         b.root.txn = None, b.root.state = a.root.state, b.out.msg = a.out.msg,
         NEW k \in Stored(a.out.msg) \ a.out.blocked, b.out.blocked = a.out.blocked \cup {k}
  PROVE  Healthy(b) /\ Blocks(a, b, k)
<1>1. /\ RecoveredState(b) = RecoveredState(a) /\ RecoveredOutbox(a) = a.out.msg
      /\ RecoveredOutbox(b) = a.out.msg
  BY RecoveredFacts
<1> QED BY <1>1 DEF Healthy, Blocks

(* Whatever write is under way, what it has made visible is healthy: it is *)
(* the change of the call, or no change when the call has made its own.    *)
LEMMA DiskAhead ==
  ASSUME CInv, stage = "sync"
  PROVE  /\ Healthy(disk)
         /\ CallMode \in Calls => Performs(synced, disk)
         /\ CallMode \notin Calls => Same(synced, disk)
<1>0. /\ disk \in Disk /\ synced \in Disk /\ disk \in images /\ synced \in images
      /\ synced.root \in Roots /\ disk.root \in Roots /\ synced.out.msg \in Boxes
      /\ TInv /\ Healthy(synced) /\ Written /\ Due /\ WritesOK
  BY DEF CInv, IInv, TInv, TypeOK, MInv, SInv, Roots, Boxes
<1>1. pc \in RootOps \cup OutboxOps
  BY <1>0 DEF TInv, TypeOK, ControlOK
<1>2. pc \in JobOps => /\ job \in Txn /\ job # None /\ job.state \in States /\ job.state # None
                       /\ job.messages \in SUBSET Message /\ left \subseteq job.messages
                       /\ Distinct(job.messages)
  BY <1>0, NoneAssumption DEF TInv, ControlOK, Txn, Message, WritesOK
<1>3. /\ pc \in {"ack", "blocked"} => phase = "ready"
      /\ phase = "ready" => synced.root.state # None
  BY <1>0 DEF TInv, TypeOK, ControlOK, JobOps, CInv, IInv, RInv, VisibleOK
<1>4. CASE pc = "txn"
  <2>1. phase = "ready"
    BY <1>0, <1>4 DEF TInv, TypeOK, ControlOK, JobOps
  <2>2. Healthy(disk) /\ Commits(synced, disk, job)
    <3>1. /\ disk.root.txn = job /\ disk.root.state = synced.root.state
          /\ disk.out.msg = synced.out.msg /\ disk.out.blocked = synced.out.blocked
      BY <1>0, <1>4 DEF Written
    <3>2. /\ synced.root.txn = None /\ Within(With(synced.out.msg, job.messages))
          /\ \A m \in job.messages : synced.out.msg[m.key] = None
      BY <1>0, <1>4 DEF Due
    <3> QED BY <1>0, <1>2, <1>3, <1>4, <2>1, <3>1, <3>2, JournalAhead DEF JobOps
  <2>3. CallMode = "commit"
    BY <1>4, <2>1 DEF CallMode
  <2> QED BY <2>2, <2>3 DEF Performs, Calls
<1>5. CASE pc = "state" /\ phase # "creating"
  <2>1. /\ synced.root.txn = job /\ disk.root.txn = job /\ disk.root.state = job.state
        /\ disk.out.msg = synced.out.msg /\ disk.out.blocked = synced.out.blocked
    BY <1>0, <1>5 DEF Written, Due, JobOps
  <2>2. Healthy(disk) /\ Same(synced, disk)
    BY <1>0, <1>2, <1>5, <2>1, StateAhead DEF JobOps
  <2>3. CallMode \in {"done", "down"}
    BY <1>5 DEF CallMode
  <2> QED BY <2>2, <2>3 DEF Calls
<1>6. CASE pc = "state" /\ phase = "creating"
  <2>1. /\ synced.root.txn = None /\ synced.root.state = None
        /\ disk.root.txn = None /\ disk.root.state = job.state
        /\ job.state \in InitStates /\ job.messages = {}
        /\ disk.out.msg = synced.out.msg /\ disk.out.blocked = synced.out.blocked
    BY <1>0, <1>6 DEF Written, Due
  <2>2. Healthy(disk) /\ Commits(synced, disk, job)
    BY <1>0, <2>1, CreateAhead
  <2>3. CallMode = "commit"
    BY <1>6 DEF CallMode
  <2> QED BY <2>2, <2>3 DEF Performs, Calls
<1>7. CASE pc \in {"sha", "commit"}
  <2>1. Alike(disk, synced)
    BY <1>0, <1>7 DEF Written, Alike
  <2>2. Healthy(disk) /\ Same(synced, disk)
    BY <1>0, <2>1, AlikeSame
  <2>3. CallMode \in {"done", "down"}
    BY <1>7 DEF CallMode
  <2> QED BY <2>2, <2>3 DEF Calls
<1>8. CASE pc = "remove_txn"
  <2>1. phase # "creating"
    BY <1>0, <1>8 DEF TInv, ControlOK
  <2>2. /\ synced.root.txn = job /\ disk.root.txn = None /\ disk.root.state = synced.root.state
        /\ disk.out.msg = synced.out.msg /\ disk.out.blocked = synced.out.blocked
    BY <1>0, <1>8, <2>1 DEF Written, Due, JobOps
  <2>3. synced.root.state = job.state
    BY <1>0, <1>8 DEF CInv, IInv, RInv, ProgressOK
  <2>4. \A m \in job.messages : synced.out.msg[m.key] = m.bytes
    BY <1>0, <1>8 DEF WritesOK, HasAll, JobOps
  <2>5. Healthy(disk) /\ Same(synced, disk)
    BY <1>0, <1>2, <1>8, <2>2, <2>3, <2>4, RemovalAhead DEF JobOps
  <2>6. CallMode \in {"done", "down"}
    BY <1>8, <2>1 DEF CallMode
  <2> QED BY <2>5, <2>6 DEF Calls
<1>9. CASE pc = "msg"
  <2>1. phase # "creating"
    BY <1>0, <1>9 DEF TInv, ControlOK
  <2>2. PICK w : w = CHOOSE m \in left : m.key = key
    OBVIOUS
  <2>3. w \in left /\ w.key = key
    <3>1. \E m \in left : m.key = key
      BY <1>0, <1>9 DEF TInv, ControlOK
    <3> QED BY <2>2, <3>1
  <2>4. /\ synced.root.txn = job /\ disk.root.txn = job /\ disk.root.state = synced.root.state
        /\ disk.out.msg = [synced.out.msg EXCEPT ![key] = w.bytes]
        /\ disk.out.blocked = synced.out.blocked /\ synced.out.msg[key] = None
    BY <1>0, <1>9, <2>1, <2>2 DEF Written, Due, JobOps
  <2>5. Healthy(disk) /\ Same(synced, disk)
    BY <1>0, <1>2, <1>9, <2>3, <2>4, MessageAhead DEF JobOps
  <2>6. CallMode \in {"done", "down"}
    BY <1>9, <2>1 DEF CallMode
  <2> QED BY <2>5, <2>6 DEF Calls
<1>10. CASE pc = "ack"
  <2>1. /\ synced.root.txn = None /\ disk.root.txn = None /\ disk.root.state = synced.root.state
        /\ disk.out.msg = [synced.out.msg EXCEPT ![key] = None]
        /\ disk.out.blocked = synced.out.blocked
        /\ key \in Stored(synced.out.msg) \ synced.out.blocked /\ key \in Keys
    BY <1>0, <1>3, <1>10 DEF Written, Due, JobOps, Stored
  <2>2. Healthy(disk) /\ Acknowledges(synced, disk, key)
    BY <1>0, <1>3, <1>10, <2>1, ReceiptAhead
  <2>3. CallMode = "acknowledge"
    BY <1>3, <1>10 DEF CallMode
  <2> QED BY <2>2, <2>3 DEF Performs, Calls
<1>11. CASE pc = "blocked"
  <2>1. /\ synced.root.txn = None /\ disk.root.txn = None /\ disk.root.state = synced.root.state
        /\ disk.out.msg = synced.out.msg
        /\ disk.out.blocked = synced.out.blocked \cup {key}
        /\ key \in Stored(synced.out.msg) \ synced.out.blocked /\ key \in Keys
    BY <1>0, <1>3, <1>11 DEF Written, Due, JobOps, Stored
  <2>2. Healthy(disk) /\ Blocks(synced, disk, key)
    BY <1>0, <1>3, <1>11, <2>1, MarkerAhead
  <2>3. CallMode = "block"
    BY <1>3, <1>11 DEF CallMode
  <2> QED BY <2>2, <2>3 DEF Performs, Calls
<1> QED BY <1>1, <1>4, <1>5, <1>6, <1>7, <1>8, <1>9, <1>10, <1>11 DEF RootOps, OutboxOps

-----------------------------------------------------------------------------
(* SInv is inductive.  A step either leaves a store that is at rest at     *)
(* rest, or makes one change visible, or syncs the one that is visible, or *)
(* the power goes.                                                         *)

LEMMA CInvFacts ==
  ASSUME CInv
  PROVE  /\ TInv /\ ControlOK /\ WritesOK /\ MaxFaults = 0
         /\ disk \in Disk /\ synced \in Disk /\ images \subseteq Disk
         /\ disk \in images /\ synced \in images
         /\ Healthy(synced) /\ Track /\ Written /\ Due
         /\ pc \in RootOps \cup OutboxOps \cup {"idle"} /\ stage \in {"open", "rename", "sync"}
         /\ left \subseteq Message /\ inflight \in Message \cup {None}
         /\ phase \in {"down", "loading", "failed"} => pc = "idle"
         /\ pc = "idle" => stage = "open"
         /\ stage = "open" => images = {synced} /\ disk = synced
         /\ phase = "loading" => disk.root.txn = None
  BY DEF CInv, IInv, TInv, TypeOK, ControlOK, MInv, SInv, Track, RInv, VisibleOK

LEMMA AtRest ==
  ASSUME images' = {synced'}, disk' = synced', stage' = "open", Healthy(synced'), Due'
  PROVE  SInv'
<1>1. Track'
  BY DEF Track, Alike
<1>2. Written'
  BY DEF Written
<1> QED BY <1>1, <1>2 DEF SInv

LEMMA StaysAtRest ==
  ASSUME CInv, stage = "open", stage' = "open", UNCHANGED disks, Due'
  PROVE  SInv'
<1>1. images = {synced} /\ disk = synced /\ Healthy(synced)
  BY CInvFacts
<1>2. images' = images /\ disk' = disk /\ synced' = synced
  BY DEF disks
<1> QED BY <1>1, <1>2, AtRest

(* A sync settles the one change there is. *)
LEMMA SyncRootSettles ==
  ASSUME CInv, SyncRoot, disk' = disk, pc \in RootOps
  PROVE  images' = {disk} /\ synced' = disk
<1>1. \A v \in images : v \in Disk /\ v.out = disk.out
  BY CInvFacts DEF Track
<1>2. \A v \in images : [v EXCEPT !.root = disk.root] = disk
  BY <1>1, CInvFacts DEF Disk
<1>3. images' = {[v EXCEPT !.root = disk.root] : v \in images}
      /\ synced' = [synced EXCEPT !.root = disk.root]
  BY DEF SyncRoot
<1> QED BY <1>2, <1>3, CInvFacts

LEMMA SyncOutboxSettles ==
  ASSUME CInv, SyncOutbox, disk' = disk, pc \in OutboxOps
  PROVE  images' = {disk} /\ synced' = disk
<1>1. \A v \in images : v \in Disk /\ v.root = disk.root
  BY CInvFacts DEF Track
<1>2. \A v \in images : [v EXCEPT !.out = disk.out] = disk
  BY <1>1, CInvFacts DEF Disk
<1>3. images' = {[v EXCEPT !.out = disk.out] : v \in images}
      /\ synced' = [synced EXCEPT !.out = disk.out]
  BY DEF SyncOutbox
<1> QED BY <1>2, <1>3, CInvFacts

LEMMA Settles ==
  ASSUME CInv, stage = "sync", images' = {disk}, synced' = disk, disk' = disk, stage' = "open", Due'
  PROVE  SInv'
<1>1. Healthy(disk)
  BY DiskAhead
<1> QED BY <1>1, AtRest

(* The steps that make a change visible. *)
LEMMA OpenTempTracks ==
  ASSUME CInv, OpenTemp
  PROVE  SInv'
<1> DEFINE d == WithTemp(disk)
<1>1. /\ pc \notin Removes \cup {"idle", "msg"} /\ stage = "open" /\ stage' = "rename"
      /\ disk' = d /\ images' = images \cup {d} /\ synced' = synced
      /\ UNCHANGED <<phase, pc, job, left, key, inflight>>
  BY DEF OpenTemp, See
<1>2. /\ TInv /\ disk \in Disk /\ images = {synced} /\ disk = synced
      /\ Healthy(synced) /\ Due
  BY <1>1, CInvFacts
<1>3. /\ SameFiles(d.root, disk.root) /\ d.out.msg = disk.out.msg /\ d.out.blocked = disk.out.blocked
      /\ IF pc \in RootOps THEN d.out = disk.out ELSE d.root = disk.root
  BY <1>1, <1>2, WithTempFacts
<1> HIDE DEF d
<1>4. Alike(d, synced) /\ Alike(synced, synced)
  BY <1>2, <1>3 DEF Alike, SameFiles
<1>5. \A v \in images' : v = synced \/ v = d
  BY <1>1, <1>2
<1>6. Track'
  <2>1. \A v \in images' : Alike(v, synced)
    BY <1>4, <1>5
  <2>2. \A v \in images' : IF pc \in RootOps THEN v.out = synced.out ELSE v.root = synced.root
    BY <1>2, <1>3, <1>5
  <2>3. RootOps \cap OutboxOps = {}
    BY DEF RootOps, OutboxOps
  <2> QED BY <1>1, <1>4, <2>1, <2>2, <2>3 DEF Track
<1>7. Written'
  BY <1>1 DEF Written
<1>8. Due'
  BY <1>1, <1>2 DEF Due
<1> QED BY <1>1, <1>2, <1>6, <1>7, <1>8 DEF SInv

LEMMA OpenMessageTracks ==
  ASSUME CInv, NEW m \in left, OpenMessage(m)
  PROVE  SInv'
<1> DEFINE d == [disk EXCEPT !.out.temp = @ \cup {<<"msg", m.key>>}]
<1>1. /\ pc = "msg" /\ stage = "open" /\ stage' = "rename" /\ key' = m.key
      /\ disk.out.msg[m.key] = None
      /\ disk' = d /\ images' = images \cup {d} /\ synced' = synced
      /\ UNCHANGED <<phase, pc, job, left, inflight>>
  BY DEF OpenMessage, See
<1>2. /\ disk \in Disk /\ images = {synced} /\ disk = synced
      /\ Healthy(synced) /\ Due /\ m \in Message
  BY <1>1, CInvFacts
<1>3. disk.out.temp \cup {<<"msg", m.key>>} \in SUBSET OutboxTemps
  BY <1>2 DEF Disk, Outbox, OutboxTemps, Message
<1>4. d.root = disk.root /\ d.out.msg = disk.out.msg /\ d.out.blocked = disk.out.blocked
  BY <1>2, <1>3, EditOutTemp
<1> HIDE DEF d
<1>5. Alike(d, synced) /\ Alike(synced, synced)
  BY <1>2, <1>4 DEF Alike
<1>6. \A v \in images' : v = synced \/ v = d
  BY <1>1, <1>2
<1>7. Track'
  <2>1. \A v \in images' : Alike(v, synced) /\ v.root = synced.root
    BY <1>2, <1>4, <1>5, <1>6
  <2>2. "msg" \notin RootOps
    BY DEF RootOps
  <2> QED BY <1>1, <1>5, <2>1, <2>2 DEF Track
<1>8. Written'
  BY <1>1 DEF Written
<1>9. Due'
  BY <1>1, <1>2 DEF Due
<1> QED BY <1>1, <1>2, <1>7, <1>8, <1>9 DEF SInv

LEMMA RenameTracks ==
  ASSUME CInv, Rename
  PROVE  SInv'
<1> DEFINE e == WithoutTemp(disk)
           d == Install(e)
<1>1. /\ stage = "rename" /\ stage' = "sync"
      /\ disk' = d /\ images' = images \cup {d} /\ synced' = synced
      /\ UNCHANGED <<phase, pc, job, left, key, inflight>>
  BY DEF Rename, See
<1>2. /\ TInv /\ disk \in Disk /\ Alike(disk, synced) /\ Track /\ Healthy(synced) /\ Due
      /\ disk \in images /\ pc \in RootOps \cup OutboxOps /\ pc \notin Removes
  BY <1>1, CInvFacts DEF Track, ControlOK
<1>3. /\ e \in Disk /\ SameFiles(e.root, disk.root)
      /\ e.out.msg = disk.out.msg /\ e.out.blocked = disk.out.blocked
      /\ IF pc \in RootOps THEN e.out = disk.out ELSE e.root = disk.root
  BY <1>2, WithoutTempFacts
<1> HIDE DEF e
<1>4. /\ d.root.txn   = IF pc = "txn" THEN job ELSE e.root.txn
      /\ d.root.state = IF pc = "state" THEN job.state ELSE e.root.state
      /\ pc # "msg" => d.out.msg = e.out.msg
      /\ pc = "msg" => d.out.msg = [e.out.msg EXCEPT ![key] = (CHOOSE m \in left : m.key = key).bytes]
      /\ d.out.blocked = IF pc = "blocked" THEN e.out.blocked \cup {key} ELSE e.out.blocked
      /\ IF pc \in RootOps THEN d.out = e.out ELSE d.root = e.root
  BY <1>1, <1>2, <1>3, InstallFacts
<1> HIDE DEF d
<1>5. RootOps \cap OutboxOps = {}
  BY DEF RootOps, OutboxOps
<1>6. Track'
  <2>1. \A v \in images : /\ Alike(v, synced)
                          /\ pc \in RootOps => v.out = synced.out
                          /\ pc \in OutboxOps => v.root = synced.root
    BY <1>1, <1>2 DEF Track
  <2>2. /\ pc \in RootOps => d.out = synced.out
        /\ pc \in OutboxOps => d.root = synced.root
    BY <1>2, <1>3, <1>4, <1>5, <2>1
  <2>3. \A v \in images' : v \in images \/ v = d
    BY <1>1
  <2>4. Alike(d, d)
    BY DEF Alike
  <2> QED BY <1>1, <2>1, <2>2, <2>3, <2>4 DEF Track
<1>7. Written'
  <2>1. pc # "remove_txn" /\ pc # "ack"
    BY <1>2 DEF Removes
  <2>2. /\ e.root.txn = synced.root.txn /\ e.root.state = synced.root.state
        /\ e.out.msg = synced.out.msg /\ e.out.blocked = synced.out.blocked
    BY <1>2, <1>3 DEF Alike, SameFiles
  <2> QED BY <1>1, <1>4, <2>1, <2>2 DEF Written
<1>8. Due'
  BY <1>1, <1>2 DEF Due
<1> QED BY <1>1, <1>2, <1>6, <1>7, <1>8 DEF SInv

LEMMA UnlinkTracks ==
  ASSUME CInv, Unlink
  PROVE  SInv'
<1> DEFINE d == Unlinked(disk)
<1>1. /\ pc \in Removes /\ stage = "open" /\ stage' = "sync"
      /\ disk' = d /\ images' = images \cup {d} /\ synced' = synced
      /\ UNCHANGED <<phase, pc, job, left, key, inflight>>
  BY DEF Unlink, See
<1>2. /\ TInv /\ disk \in Disk /\ images = {synced} /\ disk = synced
      /\ Healthy(synced) /\ Due
  BY <1>1, CInvFacts
<1>3. /\ d.root.txn = IF pc = "remove_txn" THEN None ELSE disk.root.txn
      /\ d.root.state = disk.root.state
      /\ pc # "ack" => d.out.msg = disk.out.msg
      /\ pc = "ack" => d.out.msg = [disk.out.msg EXCEPT ![key] = None]
      /\ d.out.blocked = disk.out.blocked
      /\ IF pc \in RootOps THEN d.out = disk.out ELSE d.root = disk.root
  BY <1>1, <1>2, UnlinkedFacts
<1> HIDE DEF d
<1>4. RootOps \cap OutboxOps = {}
  BY DEF RootOps, OutboxOps
<1>5. Track'
  <2>1. \A v \in images' : v = synced \/ v = d
    BY <1>1, <1>2
  <2>2. Alike(d, d) /\ Alike(synced, synced)
    BY DEF Alike
  <2> QED BY <1>1, <1>2, <1>3, <1>4, <2>1, <2>2 DEF Track
<1>6. Written'
  BY <1>1, <1>2, <1>3 DEF Written, Removes
<1>7. Due'
  BY <1>1, <1>2 DEF Due, Removes
<1> QED BY <1>1, <1>2, <1>5, <1>6, <1>7 DEF SInv

(* replay() never meets a stored message with other bytes. *)
LEMMA NoConflict ==
  ASSUME CInv, NEW m \in left
  PROVE  ~ReplayConflict(m)
<1> SUFFICES ASSUME ReplayConflict(m) PROVE FALSE
  OBVIOUS
<1>1. pc = "msg" /\ stage = "open" /\ disk.out.msg[m.key] \notin {None, m.bytes}
  BY DEF ReplayConflict
<1>2. phase # "creating" /\ disk = synced /\ job # None /\ m \in job.messages
  BY <1>1, CInvFacts, JobFacts DEF ControlOK, WritesOK, JobOps
<1>3. synced.root.txn = job
  BY <1>1, <1>2, CInvFacts DEF Due, JobOps
<1> QED BY <1>1, <1>2, <1>3, CInvFacts DEF Healthy

LEMMA SyncKeeps ==
  ASSUME CInv, \/ SyncJournal \/ SyncState \/ SyncSha \/ SyncMessage \/ SyncCommit
               \/ SyncRemoval \/ SyncAcknowledge \/ SyncCreated
  PROVE  SInv'
<1>0. /\ TInv /\ Due /\ Written /\ ControlOK
  BY CInvFacts
<1>1. stage = "sync" /\ disk' = disk /\ stage' = "open"
  BY DEF SyncJournal, SyncState, SyncSha, SyncMessage, SyncCommit, SyncRemoval, SyncAcknowledge,
         SyncCreated, Finish, Go
<1>2. images' = {disk} /\ synced' = disk
  <2>1. CASE SyncJournal \/ SyncState \/ SyncSha \/ SyncCommit \/ SyncRemoval \/ SyncCreated
    <3>1. SyncRoot /\ pc \in RootOps
      BY <2>1 DEF SyncJournal, SyncState, SyncSha, SyncCommit, SyncRemoval, SyncCreated, RootOps
    <3> QED BY <1>1, <3>1, SyncRootSettles
  <2>2. CASE SyncMessage \/ SyncAcknowledge
    <3>1. SyncOutbox /\ pc \in OutboxOps
      BY <2>2 DEF SyncMessage, SyncAcknowledge, OutboxOps
    <3> QED BY <1>1, <3>1, SyncOutboxSettles
  <2> QED BY <2>1, <2>2
<1>3. /\ disk.root.txn = IF pc = "txn" THEN job ELSE IF pc = "remove_txn" THEN None ELSE synced.root.txn
      /\ pc # "blocked" => disk.out.blocked = synced.out.blocked
  BY <1>0, <1>1 DEF Written
<1>4. Due'
  <2>1. CASE SyncJournal
    <3>1. /\ pc = "txn" /\ pc' = "state" /\ phase' = phase /\ job' = job /\ inflight' = inflight
      BY <2>1 DEF SyncJournal, Go
    <3>2. phase # "creating"
      BY <1>0, <3>1 DEF ControlOK
    <3> QED BY <1>0, <1>1, <1>2, <1>3, <3>1, <3>2 DEF Due, JobOps
  <2>2. CASE SyncState \/ SyncSha \/ SyncMessage \/ SyncCommit
    <3>1. /\ pc \in {"state", "sha", "msg", "commit"} /\ pc' \in {"sha", "msg", "commit", "remove_txn"}
          /\ phase' = phase /\ job' = job /\ inflight' = inflight
      BY <2>2 DEF SyncState, SyncSha, SyncMessage, SyncCommit, Go, AfterSha
    <3> QED BY <1>0, <1>1, <1>2, <1>3, <3>1 DEF Due, JobOps
  <2>3. CASE SyncRemoval \/ SyncAcknowledge \/ SyncCreated
    <3>1. /\ pc \in {"remove_txn", "ack", "blocked", "sha"} /\ pc' = "idle" /\ inflight' = inflight
          /\ pc = "sha" => phase = "creating"
          /\ pc \in {"ack", "blocked"} => phase' = phase
      BY <2>3 DEF SyncRemoval, SyncAcknowledge, SyncCreated, Finish, Go
    <3>2. pc \in {"ack", "blocked"} => phase \notin {"creating", "replaying"}
      BY <1>0 DEF ControlOK, JobOps
    <3>3. phase' # "creating"
      BY <2>3, <3>2 DEF SyncRemoval, SyncAcknowledge, SyncCreated
    <3>4. phase' = "ready" => disk.root.txn = None
      BY <1>0, <1>3, <3>1, <3>2 DEF Due, JobOps
    <3>5. inflight # None => inflight.key \notin disk.out.blocked
      BY <1>0, <1>3, <3>1 DEF Due
    <3> QED BY <1>1, <1>2, <3>1, <3>3, <3>4, <3>5 DEF Due, JobOps
  <2> QED BY <2>1, <2>2, <2>3
<1> QED BY <1>1, <1>2, <1>4, Settles

(* A power loss leaves what is durable, or what the change under way made. *)
LEMMA LossFacts ==
  ASSUME CInv, NEW v \in images
  PROVE  Healthy(v) /\ (Same(synced, v) \/ Performs(synced, v))
<1>1. /\ v \in Disk /\ disk \in Disk /\ synced \in Disk /\ Healthy(synced)
      /\ Alike(v, synced) \/ (stage = "sync" /\ Alike(v, disk))
  BY CInvFacts DEF Track
<1>2. CASE Alike(v, synced)
  BY <1>1, <1>2, AlikeSame
<1>3. CASE stage = "sync" /\ Alike(v, disk)
  <2>1. /\ Healthy(disk) => Healthy(v)
        /\ Same(synced, disk) => Same(synced, v)
        /\ Performs(synced, disk) => Performs(synced, v)
    BY <1>1, <1>3, AlikeSame
  <2> QED BY <1>3, <2>1, DiskAhead
<1> QED BY <1>1, <1>2, <1>3

LEMMA SInvNext == CInv /\ [Next]_vars => SInv'
<1> SUFFICES ASSUME CInv, [Next]_vars PROVE SInv'
  OBVIOUS
<1> USE DEF disks, run, hist
<1>0. /\ TInv /\ ControlOK /\ WritesOK /\ Due /\ Healthy(synced)
      /\ phase \in {"down", "loading", "failed"} => pc = "idle"
      /\ pc = "idle" => stage = "open"
      /\ stage = "open" => images = {synced} /\ disk = synced
      /\ phase = "loading" => disk.root.txn = None
      /\ inflight \in Message \cup {None}
  BY CInvFacts
<1>f. ~Fault
  BY CInvFacts DEF Fault, TInv, TypeOK
<1>1. CASE OpenTemp
  BY <1>1, OpenTempTracks
<1>2. CASE Rename
  BY <1>2, RenameTracks
<1>3. CASE Unlink
  BY <1>3, UnlinkTracks
<1>4. CASE TempInTheWay
  <2>1. /\ stage = "open" /\ stage' = "open" /\ pc' = "idle" /\ inflight' = inflight /\ UNCHANGED disks
        /\ phase' = (IF phase = "ready" THEN "ready" ELSE "failed")
        /\ phase = "ready" => pc \in {"txn", "blocked"}
    BY <1>0, <1>4, CInvFacts
       DEF TempInTheWay, Throw, Finish, Go, Replaying, Removes, RootOps, OutboxOps
  <2>2. Due'
    BY <1>0, <2>1 DEF Due, JobOps
  <2> QED BY <2>1, <2>2, StaysAtRest
<1>5. ASSUME NEW m \in left, OpenMessage(m) PROVE SInv'
  BY <1>5, OpenMessageTracks
<1>6. ASSUME NEW m \in left, SkipMessage(m) PROVE SInv'
  <2>1. /\ stage = "open" /\ stage' = "open" /\ pc = "msg" /\ pc' \in {"msg", "commit"}
        /\ phase' = phase /\ job' = job /\ inflight' = inflight /\ UNCHANGED disks
    BY <1>6 DEF SkipMessage, Go
  <2>2. phase # "creating"
    BY <1>0, <2>1 DEF ControlOK
  <2>3. Due'
    BY <1>0, <2>1, <2>2 DEF Due, JobOps
  <2> QED BY <2>1, <2>3, StaysAtRest
<1>7. ASSUME NEW m \in left, ReplayConflict(m) PROVE SInv'
  BY <1>7, NoConflict
<1>8. CASE \/ SyncJournal \/ SyncState \/ SyncSha \/ SyncMessage \/ SyncCommit
           \/ SyncRemoval \/ SyncAcknowledge \/ SyncCreated
  BY <1>8, SyncKeeps
<1>9. CASE Start
  <2>1. pc = "idle" /\ stage = "open" /\ UNCHANGED disks /\ inflight' = inflight /\ disk = synced
    BY <1>0, <1>9 DEF Start
  <2>2. CASE disk.root.txn # None
    <3>1. phase' = "replaying" /\ pc' = "state" /\ stage' = "open" /\ job' = disk.root.txn
      BY <1>9, <2>2 DEF Start, Go
    <3>2. Due'
      BY <1>0, <2>1, <3>1 DEF Due, JobOps
    <3> QED BY <2>1, <3>1, <3>2, StaysAtRest
  <2>3. CASE disk.root.txn = None
    <3>1. phase' = "loading" /\ pc' = "idle" /\ stage' = "open"
      BY <1>9, <2>1, <2>3 DEF Start
    <3>2. Due'
      BY <1>0, <2>1, <3>1 DEF Due, JobOps
    <3> QED BY <2>1, <3>1, <3>2, StaysAtRest
  <2> QED BY <2>2, <2>3
<1>10. CASE UnknownName \/ Load
  <2>1. /\ pc = "idle" /\ pc' = "idle" /\ stage = "open" /\ stage' = "open" /\ UNCHANGED disks
        /\ inflight' = inflight /\ disk = synced /\ phase' \in {"ready", "failed"}
        /\ phase' = "ready" => disk.root.txn = None
    BY <1>0, <1>10 DEF UnknownName, Load
  <2>2. Due'
    BY <1>0, <2>1 DEF Due, JobOps
  <2> QED BY <2>1, <2>2, StaysAtRest
<1>11. ASSUME NEW s \in InitStates, Create(s) PROVE SInv'
  <2>1. /\ pc = "idle" /\ stage = "open" /\ UNCHANGED disks /\ inflight' = inflight
        /\ disk = synced /\ disk.root.txn = None /\ disk.root.state = None
    BY <1>0, <1>11 DEF Create
  <2>2. /\ stage' = "open"
        /\ \/ phase' = "failed" /\ pc' = "idle"
           \/ phase' = "creating" /\ pc' = "state" /\ job' = [state |-> s, messages |-> {}]
    BY <1>11, <2>1 DEF Create, Go
  <2>3. phase' = "creating" => job'.state \in InitStates /\ job'.messages = {}
    BY <2>2
  <2>4. Due'
    BY <1>0, <2>1, <2>2, <2>3 DEF Due, JobOps
  <2> QED BY <2>1, <2>2, <2>4, StaysAtRest
<1>12. ASSUME NEW next \in States, NEW batch \in Batches,
              NEW accepted \in SUBSET {batch[i] : i \in DOMAIN batch},
              commit(next, batch, accepted)
       PROVE  SInv'
  <2>1. /\ pc = "idle" /\ phase = "ready" /\ stage = "open" /\ stage' = "open" /\ pc' = "txn"
        /\ phase' = phase /\ UNCHANGED disks /\ inflight' = inflight /\ disk = synced
        /\ job' = [state |-> next, messages |-> accepted]
        /\ validate_queue(disk.out) /\ Accepts(disk.out.msg, batch, accepted)
    BY <1>0, <1>12 DEF commit, Idle, Go
  <2>2. disk.out.msg \in Outboxes /\ Within(disk.out.msg)
    BY <2>1, CInvFacts, RecoveredFacts DEF validate_queue, Within
  <2>3. PICK M : M = accepted
    OBVIOUS
  <2>4. /\ \A m \in M : disk.out.msg[m.key] = None
        /\ Within(With(disk.out.msg, M))
    BY <2>1, <2>2, <2>3, AcceptedFit
  <2>5. job'.messages = M
    BY <2>1, <2>3
  <2>6. synced.root.txn = None
    BY <1>0, <2>1 DEF Due, JobOps
  <2>7. Due'
    BY <1>0, <2>1, <2>4, <2>5, <2>6 DEF Due, JobOps
  <2> QED BY <2>1, <2>7, StaysAtRest
<1>13. CASE NextMessage
  <2>1. /\ pc = "idle" /\ phase = "ready" /\ stage = "open" /\ UNCHANGED <<disks, pc, stage, phase>>
        /\ inflight' = pending(disk.out) /\ disk = synced /\ Deliverable(disk.out) # {}
    BY <1>0, <1>13 DEF NextMessage, Idle
  <2>2. pending(disk.out).key \in Deliverable(disk.out)
    BY <1>0, <2>1, PendingMessage
  <2>3. inflight'.key \notin synced.out.blocked
    BY <2>1, <2>2 DEF Deliverable
  <2>4. Due'
    BY <1>0, <2>1, <2>3 DEF Due, JobOps
  <2> QED BY <2>1, <2>4, StaysAtRest
<1>14. ASSUME NEW answer, acknowledge(answer) PROVE SInv'
  <2>1. /\ pc = "idle" /\ phase = "ready" /\ stage = "open" /\ stage' = "open" /\ phase' = phase
        /\ UNCHANGED disks /\ disk = synced /\ inflight' = None /\ inflight # None
        /\ pc' \in {"idle", "ack", "blocked"}
        /\ pc' # "idle" => key' = inflight.key /\ disk.out.msg[inflight.key] = inflight.bytes
    BY <1>0, <1>14 DEF acknowledge, Idle, Go
  <2>2. inflight.key \in Keys /\ inflight.bytes # None
    BY <1>0, <2>1, NoneAssumption DEF Message
  <2>3. pc' # "idle" => key' \in Stored(synced.out.msg) \ synced.out.blocked
    BY <1>0, <2>1, <2>2 DEF Due, Stored
  <2>4. synced.root.txn = None
    BY <1>0, <2>1 DEF Due, JobOps
  <2>5. Due'
    BY <2>1, <2>3, <2>4 DEF Due, JobOps
  <2> QED BY <2>1, <2>5, StaysAtRest
<1>15. CASE CallFails \/ Kill
  BY <1>15, <1>f DEF CallFails, Kill
<1>16. ASSUME NEW v \in images, PowerLoss(v) PROVE SInv'
  <2>1. /\ images' = {v} /\ disk' = v /\ synced' = v /\ phase' = "down" /\ pc' = "idle"
        /\ stage' = "open" /\ inflight' = None
    BY <1>16 DEF PowerLoss, Down, Finish, Go
  <2>2. Healthy(v)
    BY LossFacts
  <2>3. Due'
    BY <2>1 DEF Due, JobOps
  <2> QED BY <2>1, <2>2, <2>3, AtRest
<1>17. CASE UNCHANGED vars
  BY <1>17 DEF vars, CInv, SInv, Track, Written, Due
<1> QED BY <1>1, <1>2, <1>3, <1>4, <1>5, <1>6, <1>7, <1>8, <1>9, <1>10, <1>11,
       <1>12, <1>13, <1>14, <1>15, <1>16, <1>17
    DEF Next, FileStep, Constructor, Operation

LEMMA CInvInit == Init /\ MaxFaults = 0 => CInv
<1> SUFFICES ASSUME Init, MaxFaults = 0 PROVE CInv
  OBVIOUS
<1>1. IInv /\ MInv
  BY IInvInit, MInvInit
<1>2. /\ images = {synced} /\ disk = synced /\ stage = "open" /\ pc = "idle" /\ phase = "down"
      /\ inflight = None /\ synced \in Disk
  BY <1>1 DEF Init, IInv, TInv, TypeOK
<1>3. /\ synced.root.txn = None /\ synced.root.state = None /\ synced.out.msg = NoMessages
      /\ synced.out.blocked = {}
  BY DEF Init, EmptyDisk, NoMessages
<1>4. Healthy(synced)
  BY <1>2, <1>3, RecoveredFacts, EmptyWithin DEF Healthy
<1>5. Track /\ Written /\ Due
  BY <1>2 DEF Track, Alike, Written, Due, JobOps
<1> QED BY <1>1, <1>4, <1>5 DEF CInv, SInv

LEMMA CInvNext == CInv /\ [Next]_vars => CInv'
  BY TInvNext, RInvNext, MInvNext, SInvNext DEF CInv, IInv

-----------------------------------------------------------------------------
(* A healthy image without a journal has nothing in its outbox that        *)
(* validate_queue would refuse, but for a temporary.                       *)
LEMMA HealthyQueue ==
  ASSUME NEW v \in Disk, Healthy(v), v.root.txn = None, ~validate_queue(v.out)
  PROVE  v.out.temp # {}
<1>1. Within(v.out.msg) /\ v.out.blocked \subseteq Stored(v.out.msg)
  BY RecoveredFacts DEF Healthy
<1> QED BY <1>1 DEF validate_queue, Within

LEMMA FailuresNext == CInv /\ FailedOnlyByLeftovers /\ [Next]_vars => FailedOnlyByLeftovers'
<1> SUFFICES ASSUME CInv, FailedOnlyByLeftovers, [Next]_vars, phase' = "failed"
             PROVE  \/ disk'.root.temp # {} \/ disk'.out.temp # {}
                    \/ disk'.root.state # None /\ disk'.root.sha = None
  BY DEF FailedOnlyByLeftovers
<1> USE DEF disks, run, hist
<1>0. /\ TInv /\ ControlOK /\ Due /\ Written /\ Healthy(synced) /\ disk \in Disk /\ synced \in Disk
      /\ phase \in {"down", "loading", "failed"} => pc = "idle"
      /\ pc = "idle" => disk = synced
      /\ phase = "loading" => disk.root.txn = None
      /\ RootOK(disk.root)
  BY CInvFacts, VisibleRoot DEF CInv, IInv, RInv
<1>f. ~Fault
  BY CInvFacts DEF Fault, TInv, TypeOK
<1>1. CASE phase = "failed"
  <2>1. pc = "idle" /\ left = {}
    BY <1>0, <1>1, CInvFacts DEF WritesOK, JobOps
  <2>2. ~(\/ OpenTemp \/ Unlink \/ TempInTheWay \/ SyncJournal \/ SyncState \/ SyncSha \/ SyncMessage
          \/ SyncCommit \/ SyncRemoval \/ SyncAcknowledge \/ SyncCreated)
    BY <2>1 DEF OpenTemp, Unlink, TempInTheWay, SyncJournal, SyncState, SyncSha, SyncMessage,
                SyncCommit, SyncRemoval, SyncAcknowledge, SyncCreated, Removes
  <2>3. ~Rename
    BY <1>0, <2>1 DEF Rename, ControlOK
  <2>4. ~Constructor
    BY <1>1 DEF Constructor, Start, UnknownName, Load, Create
  <2>5. ~Operation
    BY <1>1 DEF Operation, commit, NextMessage, acknowledge, Idle
  <2>6. UNCHANGED vars \/ CallFails \/ Kill \/ \E v \in images : PowerLoss(v)
    BY <2>1, <2>2, <2>3, <2>4, <2>5 DEF Next, FileStep
  <2>7. disk' = disk
    BY <1>f, <2>6 DEF vars, CallFails, Kill, PowerLoss, Down
  <2> QED BY <1>1, <2>7 DEF FailedOnlyByLeftovers
<1>2. ASSUME phase # "failed" PROVE
        \/ TempInTheWay \/ \E m \in left : ReplayConflict(m)
        \/ SyncCreated \/ UnknownName \/ Load \/ \E s \in InitStates : Create(s)
  <2>1. ~(UNCHANGED vars \/ CallFails \/ Kill \/ \E v \in images : PowerLoss(v))
    BY <1>2, <1>f DEF vars, CallFails, Kill, PowerLoss, Down
  <2>2. ~(\/ OpenTemp \/ Rename \/ Unlink \/ SyncJournal \/ SyncState \/ SyncSha \/ SyncMessage
          \/ SyncCommit \/ SyncRemoval \/ SyncAcknowledge \/ Start \/ NextMessage)
    BY <1>2 DEF OpenTemp, Rename, Unlink, SyncJournal, SyncState, SyncSha, SyncMessage, SyncCommit,
                SyncRemoval, SyncAcknowledge, Start, NextMessage
  <2>3. \A m \in left : ~OpenMessage(m) /\ ~SkipMessage(m)
    BY <1>2 DEF OpenMessage, SkipMessage
  <2>4. \A a, b, c : ~commit(a, b, c) /\ ~acknowledge(a)
    BY <1>2 DEF commit, acknowledge
  <2> QED BY <2>1, <2>2, <2>3, <2>4 DEF Next, FileStep, Constructor, Operation
<1>3. CASE TempInTheWay
  BY <1>3 DEF TempInTheWay, TempExists
<1>4. ASSUME NEW m \in left, ReplayConflict(m) PROVE FALSE
  BY <1>4, NoConflict
<1>5. CASE SyncCreated
  <2>1. /\ pc = "sha" /\ stage = "sync" /\ phase = "creating" /\ disk' = disk
        /\ ~validate_queue(disk.out)
    BY <1>5 DEF SyncCreated
  <2>2. disk.root.txn = None /\ Healthy(disk)
    BY <1>0, <2>1, DiskAhead DEF Written, Due
  <2> QED BY <1>0, <2>1, <2>2, HealthyQueue
<1>6. CASE UnknownName
  BY <1>6 DEF UnknownName, NamesAllowed
<1>7. CASE Load
  <2>1. /\ phase = "loading" /\ disk' = disk /\ disk.root.state # None /\ disk.root.txn = None
        /\ disk = synced
        /\ disk.root.sha # disk.root.state \/ ~validate_queue(disk.out)
    BY <1>0, <1>7 DEF Load
  <2>2. CASE disk.root.sha # disk.root.state
    BY <1>0, <2>1, <2>2 DEF RootOK
  <2>3. CASE ~validate_queue(disk.out)
    BY <1>0, <2>1, <2>3, HealthyQueue
  <2> QED BY <2>1, <2>2, <2>3
<1>8. ASSUME NEW s \in InitStates, Create(s)
      PROVE  disk'.out.temp # {}
  <2>1. /\ disk' = disk /\ disk = synced /\ disk.root.state = None /\ disk.root.txn = None
        /\ ~OutboxEmpty(disk.out)
    BY <1>0, <1>8 DEF Create
  <2>2. Stored(disk.out.msg) = {} /\ disk.out.blocked = {}
    BY <1>0, <2>1, EmptyWithin DEF Healthy
  <2> QED BY <2>1, <2>2 DEF OutboxEmpty
<1> QED BY <1>1, <1>2, <1>3, <1>4, <1>5, <1>6, <1>7, <1>8

(* Over power losses, a start fails only over a temporary or the lone      *)
(* state.json of an interrupted first start: the checksum, the limits, the *)
(* markers and the replay never refuse what the store itself wrote.        *)
THEOREM FailuresAreLeftovers == Spec /\ MaxFaults = 0 => []FailedOnlyByLeftovers
<1>1. CInv /\ FailedOnlyByLeftovers /\ [Next]_vars => (CInv /\ FailedOnlyByLeftovers)'
  BY CInvNext, FailuresNext
<1>2. Init /\ MaxFaults = 0 => CInv /\ FailedOnlyByLeftovers
  BY CInvInit DEF Init, FailedOnlyByLeftovers
<1>3. Spec => Init /\ [][Next]_vars
  BY PTL DEF Spec
<1> QED BY <1>1, <1>2, <1>3, PTL

-----------------------------------------------------------------------------
(* No call meets a temporary in its way.  A store that came up has none    *)
(* but that of the write under way, and what a replay finds of an earlier  *)
(* one it takes over before it is done.                                    *)

(* The temporaries that the rest of a replay writes. *)
Later ==
  CASE pc = "state"  -> {"sha", "commit"} \cup (IF stage = "sync" THEN {} ELSE {"state"})
    [] pc = "sha"    -> {"commit"} \cup (IF stage = "sync" THEN {} ELSE {"sha"})
    [] pc = "msg"    -> {"commit"}
    [] pc = "commit" -> IF stage = "sync" THEN {} ELSE {"commit"}
    [] OTHER         -> {}

TempsOK ==
  /\ phase \in {"loading", "creating", "ready"} =>
       disk.root.temp \subseteq (IF stage = "rename" /\ pc \in RootOps THEN {pc} ELSE {})
  /\ phase = "replaying" => disk.root.temp \subseteq Later
  /\ phase = "ready" =>
       disk.out.temp \subseteq (IF stage = "rename" /\ pc \in OutboxOps THEN {<<pc, key>>} ELSE {})

(* What a step makes of the temporaries. *)
Adds(d, e, root, out) == /\ e.root.temp = d.root.temp \cup root
                         /\ e.out.temp = d.out.temp \cup out

LEMMA OpenTemps ==
  ASSUME CInv, OpenTemp
  PROVE  IF pc \in RootOps THEN Adds(disk, disk', {pc}, {}) ELSE Adds(disk, disk', {}, {<<pc, key>>})
<1>1. disk \in Disk /\ disk' = WithTemp(disk)
  BY CInvFacts DEF OpenTemp, See
<1>2. CASE pc \in RootOps
  <2>1. disk' = [disk EXCEPT !.root.temp = @ \cup {pc}]
    BY <1>1, <1>2 DEF WithTemp
  <2> QED BY <1>1, <1>2, <2>1 DEF Adds, Disk, Root
<1>3. CASE pc \notin RootOps
  <2>1. disk' = [disk EXCEPT !.out.temp = @ \cup {<<pc, key>>}]
    BY <1>1, <1>3 DEF WithTemp
  <2> QED BY <1>1, <1>3, <2>1 DEF Adds, Disk, Outbox
<1> QED BY <1>2, <1>3

LEMMA OpenMessageTemps ==
  ASSUME CInv, NEW m \in left, OpenMessage(m)
  PROVE  Adds(disk, disk', {}, {<<pc, key'>>})
<1>1. /\ disk \in Disk /\ pc = "msg" /\ key' = m.key
      /\ disk' = [disk EXCEPT !.out.temp = @ \cup {<<"msg", m.key>>}]
  BY CInvFacts DEF OpenMessage, See
<1> QED BY <1>1 DEF Adds, Disk, Outbox

LEMMA InstallTemps ==
  ASSUME NEW d \in Disk, TypeOK
  PROVE  Adds(d, Install(d), {}, {})
<1>1. CASE pc = "txn"
  BY <1>1 DEF Install, Adds, Disk, Root
<1>2. CASE pc = "state"
  BY <1>2 DEF Install, Adds, Disk, Root
<1>3. CASE pc = "sha"
  BY <1>3 DEF Install, Adds, Disk, Root
<1>4. CASE pc = "msg"
  <2>1. PICK b : b = (CHOOSE m \in left : m.key = key).bytes
    OBVIOUS
  <2>2. Install(d) = [d EXCEPT !.out.msg[key] = b]
    BY <1>4, <2>1 DEF Install
  <2> QED BY <2>2 DEF Adds, Disk, Outbox
<1>5. CASE pc = "blocked"
  BY <1>5 DEF Install, Adds, Disk, Outbox
<1>6. CASE pc \notin {"txn", "state", "sha", "msg", "blocked"}
  BY <1>6 DEF Install, Adds
<1> QED BY <1>1, <1>2, <1>3, <1>4, <1>5, <1>6

LEMMA RenameTemps ==
  ASSUME CInv, Rename
  PROVE  IF pc \in RootOps THEN disk'.root.temp = disk.root.temp \ {pc} /\ disk'.out.temp = disk.out.temp
         ELSE disk'.root.temp = disk.root.temp /\ disk'.out.temp = disk.out.temp \ {<<pc, key>>}
<1>1. disk \in Disk /\ TypeOK /\ disk' = Install(WithoutTemp(disk))
  BY CInvFacts DEF Rename, See, TInv
<1>2. PICK d : d = WithoutTemp(disk)
  OBVIOUS
<1>3. CASE pc \in RootOps
  <2>1. d = [disk EXCEPT !.root.temp = @ \ {pc}]
    BY <1>2, <1>3 DEF WithoutTemp
  <2>2. d \in Disk /\ d.root.temp = disk.root.temp \ {pc} /\ d.out.temp = disk.out.temp
    BY <1>1, <2>1 DEF Disk, Root
  <2>3. Adds(d, Install(d), {}, {})
    BY <1>1, <2>2, InstallTemps
  <2> QED BY <1>1, <1>2, <1>3, <2>2, <2>3 DEF Adds
<1>4. CASE pc \notin RootOps
  <2>1. d = [disk EXCEPT !.out.temp = @ \ {<<pc, key>>}]
    BY <1>2, <1>4 DEF WithoutTemp
  <2>2. d \in Disk /\ d.root.temp = disk.root.temp /\ d.out.temp = disk.out.temp \ {<<pc, key>>}
    BY <1>1, <2>1 DEF Disk, Outbox
  <2>3. Adds(d, Install(d), {}, {})
    BY <1>1, <2>2, InstallTemps
  <2> QED BY <1>1, <1>2, <1>4, <2>2, <2>3 DEF Adds
<1> QED BY <1>3, <1>4

LEMMA UnlinkTemps ==
  ASSUME CInv, Unlink
  PROVE  disk'.root.temp = disk.root.temp /\ disk'.out.temp = disk.out.temp
<1>1. disk \in Disk /\ disk' = Unlinked(disk)
  BY CInvFacts DEF Unlink, See
<1> QED BY <1>1 DEF Unlinked, Disk, Root, Outbox

LEMMA TempsNext == ASSUME CInv, TempsOK, [Next]_vars PROVE TempsOK'
<1> USE DEF disks, run, hist, TempsOK, Later
<1>0. /\ pc \in RootOps \cup OutboxOps \cup {"idle"} /\ ControlOK
      /\ phase \in {"down", "loading", "failed"} => pc = "idle"
      /\ pc = "idle" => stage = "open"
  BY CInvFacts
<1>f. ~Fault
  BY CInvFacts DEF Fault, TInv, TypeOK
<1>1. CASE OpenTemp
  <2>1. /\ stage = "open" /\ stage' = "rename" /\ pc' = pc /\ phase' = phase /\ key' = key
        /\ pc \notin Removes \cup {"idle", "msg"}
    BY <1>1 DEF OpenTemp
  <2>2. phase = "replaying" => pc \in {"state", "sha", "commit"}
    BY <1>0, <2>1 DEF ControlOK, JobOps, Removes
  <2> QED BY <1>0, <1>1, <2>1, <2>2, OpenTemps DEF Adds, RootOps, OutboxOps
<1>2. CASE Rename
  <2>1. stage = "rename" /\ stage' = "sync" /\ pc' = pc /\ phase' = phase /\ key' = key
    BY <1>2 DEF Rename
  <2>2. phase = "replaying" => pc \in {"state", "sha", "msg", "commit"}
    BY <1>0, <2>1 DEF ControlOK, JobOps, Removes
  <2>3. phase = "creating" => pc \in {"state", "sha"}
    BY <1>0 DEF ControlOK
  <2>4. pc # "idle"
    BY <1>0, <2>1
  <2>5. CASE pc \in RootOps
    <3>1. disk'.root.temp = disk.root.temp \ {pc} /\ disk'.out.temp = disk.out.temp
      BY <1>2, <2>5, RenameTemps
    <3>2. pc \in {"txn", "state", "sha", "commit", "remove_txn"} /\ pc \notin OutboxOps
      BY <2>5 DEF RootOps, OutboxOps
    <3> QED BY <2>1, <2>2, <2>3, <2>5, <3>1, <3>2
  <2>6. CASE pc \notin RootOps
    <3>1. disk'.root.temp = disk.root.temp /\ disk'.out.temp = disk.out.temp \ {<<pc, key>>}
      BY <1>2, <2>6, RenameTemps
    <3>2. pc \in {"msg", "ack", "blocked"}
      BY <1>0, <2>4, <2>6 DEF OutboxOps
    <3> QED BY <2>1, <2>2, <2>3, <2>6, <3>1, <3>2
  <2> QED BY <2>5, <2>6
<1>3. CASE Unlink
  <2>1. /\ stage = "open" /\ stage' = "sync" /\ pc' = pc /\ phase' = phase /\ key' = key
        /\ pc \in {"remove_txn", "ack"}
    BY <1>3 DEF Unlink, Removes
  <2> QED BY <1>3, <2>1, UnlinkTemps
<1>4. CASE TempInTheWay
  BY <1>0, <1>4 DEF TempInTheWay, Throw, Finish, Go
<1>5. ASSUME NEW m \in left, OpenMessage(m) PROVE TempsOK'
  <2>1. stage = "open" /\ stage' = "rename" /\ pc = "msg" /\ pc' = pc /\ phase' = phase
    BY <1>5 DEF OpenMessage
  <2>2. phase # "creating" /\ phase # "loading"
    BY <1>0, <2>1 DEF ControlOK
  <2> QED BY <1>5, <2>1, <2>2, OpenMessageTemps DEF Adds, RootOps, OutboxOps
<1>6. ASSUME NEW m \in left, SkipMessage(m) PROVE TempsOK'
  BY <1>6 DEF SkipMessage, Go
<1>7. ASSUME NEW m \in left, ReplayConflict(m) PROVE TempsOK'
  BY <1>7, NoConflict
<1>8. CASE SyncJournal \/ SyncState \/ SyncSha \/ SyncMessage \/ SyncCommit
  <2>1. /\ stage = "sync" /\ stage' = "open" /\ disk' = disk /\ phase' = phase
        /\ \/ pc = "txn" /\ pc' = "state"
           \/ pc = "state" /\ pc' = "sha"
           \/ pc = "sha" /\ pc' \in {"msg", "commit"}
           \/ pc = "msg" /\ pc' \in {"msg", "commit"}
           \/ pc = "commit" /\ pc' = "remove_txn"
    BY <1>8 DEF SyncJournal, SyncState, SyncSha, SyncMessage, SyncCommit, Go, AfterSha
  <2>2. pc = "txn" => phase # "replaying"
    BY <1>0 DEF ControlOK
  <2>3. Later \subseteq Later' \/ phase # "replaying"
    BY <2>1, <2>2
  <2> HIDE DEF Later
  <2>4. phase = "replaying" => disk'.root.temp \subseteq Later'
    BY <2>1, <2>3
  <2>5. stage = "sync" /\ stage' = "open" /\ disk' = disk /\ phase' = phase
    BY <2>1
  <2> QED BY <2>4, <2>5
<1>9. CASE SyncRemoval
  <2>1. /\ pc = "remove_txn" /\ stage = "sync" /\ stage' = "open" /\ disk' = disk
        /\ phase' = IF phase = "ready" THEN "ready" ELSE "loading"
    BY <1>9 DEF SyncRemoval, Finish, Go
  <2>2. phase \in {"replaying", "ready"}
    BY <1>0, <2>1, CInvFacts DEF ControlOK, TInv, TypeOK
  <2>3. Later = {}
    BY <2>1
  <2> HIDE DEF Later
  <2> QED BY <2>1, <2>2, <2>3
<1>10. CASE SyncAcknowledge
  BY <1>0, <1>10 DEF SyncAcknowledge, Finish, Go, ControlOK
<1>11. CASE SyncCreated
  BY <1>11 DEF SyncCreated, Finish, Go, validate_queue
<1>12. CASE Start
  BY <1>0, <1>12 DEF Start, NamesAllowed, Go
<1>13. CASE UnknownName
  BY <1>13 DEF UnknownName
<1>14. CASE Load
  BY <1>0, <1>14 DEF Load, validate_queue
<1>15. ASSUME NEW s \in InitStates, Create(s) PROVE TempsOK'
  BY <1>0, <1>15 DEF Create, Go
<1>16. ASSUME NEW next \in States, NEW batch \in Batches,
              NEW accepted \in SUBSET {batch[i] : i \in DOMAIN batch},
              commit(next, batch, accepted)
       PROVE  TempsOK'
  BY <1>0, <1>16 DEF commit, Idle, Go
<1>17. CASE NextMessage
  BY <1>17 DEF NextMessage
<1>18. ASSUME NEW answer, acknowledge(answer) PROVE TempsOK'
  BY <1>0, <1>18 DEF acknowledge, Idle, Go
<1>19. CASE CallFails \/ Kill
  BY <1>19, <1>f DEF CallFails, Kill
<1>20. ASSUME NEW v \in images, PowerLoss(v) PROVE TempsOK'
  BY <1>20 DEF PowerLoss, Down
<1>21. CASE UNCHANGED vars
  BY <1>21 DEF vars
<1> QED BY <1>1, <1>2, <1>3, <1>4, <1>5, <1>6, <1>7, <1>8, <1>9, <1>10, <1>11, <1>12,
       <1>13, <1>14, <1>15, <1>16, <1>17, <1>18, <1>19, <1>20, <1>21
    DEF Next, FileStep, Constructor, Operation

-----------------------------------------------------------------------------
(* The refinement.  The atomic store reads what the constructor would make *)
(* of the durable image.                                                   *)

LEMMA FitsIsWithin ==
  ASSUME NEW o
  PROVE  Atomic!Fits(o) <=> Within(o)
<1>1. Atomic!Occupied(o) = Stored(o)
  BY DEF Atomic!Occupied, Stored
<1>2. Atomic!Cardinality(Stored(o)) = queued(o)
  BY DEF Atomic!Cardinality, Cardinality, queued
<1>3. Atomic!MapThenSumSet(LAMBDA k : Size[o[k]], Stored(o)) = QueuedBytes(o)
  BY DEF QueuedBytes, MapThenSumSet, MapThenFoldSet, Atomic!MapThenSumSet, Atomic!MapThenFoldSet
<1>4. Atomic!Fits(o) <=> /\ Atomic!Cardinality(Stored(o)) <= Capacity
                         /\ Atomic!MapThenSumSet(LAMBDA k : Size[o[k]], Stored(o)) <= ByteCapacity
  BY <1>1 DEF Atomic!Fits
<1> QED BY <1>2, <1>3, <1>4 DEF Within

LEMMA ExtendedIsWith ==
  ASSUME NEW o, NEW M
  PROVE  Atomic!Extended(o, M) = With(o, M)
  BY DEF Atomic!Extended, With

LEMMA AtomicInit ==
  ASSUME Init
  PROVE  Atomic!Init
<1>1. synced = EmptyDisk /\ EmptyDisk \in Disk
  BY DEF Init, EmptyDisk, Disk, Root, Outbox
<1>2. /\ synced.root.txn = None /\ synced.root.state = None /\ synced.out.msg = NoMessages
      /\ synced.out.blocked = {}
  BY <1>1 DEF EmptyDisk, NoMessages
<1>3. CallMode = "down" /\ CallArgument = None
  BY DEF Init, CallMode, CallArgument
<1> QED BY <1>1, <1>2, <1>3, RecoveredFacts DEF Atomic!Init, NoMessages

(* The variables of the atomic store. *)
avars == <<RecoveredState(synced), RecoveredOutbox(synced), synced.out.blocked, CallMode, CallArgument>>

LEMMA QuietStep ==
  ASSUME Same(synced, synced'), CallMode' = CallMode, CallArgument' = CallArgument
  PROVE  UNCHANGED avars
  BY DEF Same, avars

LEMMA PerformStep ==
  ASSUME Performs(synced, synced'), CallMode' \in {"done", "idle", "down"}
  PROVE  Atomic!Next
<1>1. CallArgument' = None
  BY DEF CallArgument
<1>2. Atomic!Change
  <2>1. CASE CallMode = "commit" /\ Commits(synced, synced', job)
    <3>1. CallArgument = job
      BY <2>1 DEF CallArgument
    <3>2. Atomic!Extended(RecoveredOutbox(synced), job.messages) = With(RecoveredOutbox(synced), job.messages)
      BY ExtendedIsWith
    <3> QED BY <2>1, <3>1, <3>2 DEF Commits, Atomic!Change
  <2>2. CASE CallMode = "acknowledge" /\ Acknowledges(synced, synced', key)
    <3>1. CallArgument = key
      BY <2>2 DEF CallArgument
    <3> QED BY <2>2, <3>1 DEF Acknowledges, Atomic!Change
  <2>3. CASE CallMode = "block" /\ Blocks(synced, synced', key)
    <3>1. CallArgument = key
      BY <2>3 DEF CallArgument
    <3> QED BY <2>3, <3>1 DEF Blocks, Atomic!Change
  <2> QED BY <2>1, <2>2, <2>3 DEF Performs
<1> QED BY <1>1, <1>2 DEF Atomic!Perform, Atomic!Next

LEMMA LossStep ==
  ASSUME Same(synced, synced'), CallMode' = "down"
  PROVE  Atomic!Next
<1>1. CallArgument' = None
  BY DEF CallArgument
<1> QED BY <1>1 DEF Same, Atomic!Next, Atomic!Loss, Atomic!durable

LEMMA ReturnStep ==
  ASSUME Same(synced, synced'), CallMode = "done", CallMode' = "idle"
  PROVE  Atomic!Next
<1>1. CallArgument' = None
  BY DEF CallArgument
<1> QED BY <1>1 DEF Same, Atomic!Next, Atomic!Return, Atomic!Begin, Atomic!durable

(* The steps inside a call leave it as it is. *)
LEMMA SameCall ==
  ASSUME synced' = synced, phase' = phase, pc' = pc, job' = job,
         pc \in {"ack", "blocked"} => key' = key
  PROVE  UNCHANGED avars
<1>1. CallMode' = CallMode
  BY DEF CallMode
<1>2. CallArgument' = CallArgument
  <2>1. CASE CallMode \in {"acknowledge", "block"}
    <3>1. pc \in {"ack", "blocked"}
      BY <2>1 DEF CallMode
    <3> QED BY <1>1, <3>1 DEF CallArgument
  <2>2. CASE CallMode \notin {"acknowledge", "block"}
    BY <1>1, <2>2 DEF CallArgument
  <2> QED BY <2>1, <2>2
<1>3. Same(synced, synced')
  BY DEF Same
<1> QED BY <1>1, <1>2, <1>3, QuietStep

(* The sync that ends a write: of the call's change, or of a later file. *)
LEMMA SyncStep ==
  ASSUME CInv, \/ SyncJournal \/ SyncState \/ SyncSha \/ SyncMessage \/ SyncCommit
               \/ SyncRemoval \/ SyncAcknowledge \/ SyncCreated
  PROVE  Atomic!Next \/ UNCHANGED avars
<1>0. TInv /\ ControlOK /\ stage = "sync"
  BY CInvFacts DEF SyncJournal, SyncState, SyncSha, SyncMessage, SyncCommit, SyncRemoval, SyncAcknowledge,
         SyncCreated
<1>1. synced' = disk
  <2>1. CASE SyncJournal \/ SyncState \/ SyncSha \/ SyncCommit \/ SyncRemoval \/ SyncCreated
    <3>1. SyncRoot /\ pc \in RootOps /\ disk' = disk
      BY <2>1 DEF SyncJournal, SyncState, SyncSha, SyncCommit, SyncRemoval, SyncCreated, RootOps
    <3> QED BY <3>1, SyncRootSettles
  <2>2. CASE SyncMessage \/ SyncAcknowledge
    <3>1. SyncOutbox /\ pc \in OutboxOps /\ disk' = disk
      BY <2>2 DEF SyncMessage, SyncAcknowledge, OutboxOps
    <3> QED BY <3>1, SyncOutboxSettles
  <2> QED BY <2>1, <2>2
<1>2. /\ CallMode \in Calls => Performs(synced, synced')
      /\ CallMode \notin Calls => Same(synced, synced')
  BY <1>0, <1>1, DiskAhead
<1>3. CASE CallMode \in Calls
  <2>1. CallMode' \in {"done", "idle", "down"}
    <3>1. \/ phase = "creating" /\ pc = "state"
          \/ phase = "ready" /\ pc \in {"txn", "ack", "blocked"}
      BY <1>3 DEF CallMode, Calls
    <3>2. \/ phase' = phase /\ pc' \in {"state", "sha"} /\ ~(phase = "creating" /\ pc' = "state")
          \/ pc' = "idle" /\ phase' \notin {"creating"}
      BY <1>0, <3>1 DEF SyncJournal, SyncState, SyncSha, SyncMessage, SyncCommit, SyncRemoval,
                   SyncAcknowledge, SyncCreated, Finish, Go
    <3> QED BY <3>1, <3>2 DEF CallMode
  <2> QED BY <1>2, <1>3, <2>1, PerformStep
<1>4. CASE CallMode \notin Calls
  <2>0. Same(synced, synced')
    BY <1>2, <1>4
  <2>1. CASE phase = "replaying"
    <3>1. phase' \in {"replaying", "loading"}
      BY <1>0, <2>1 DEF SyncJournal, SyncState, SyncSha, SyncMessage, SyncCommit, SyncRemoval,
                   SyncAcknowledge, SyncCreated, ControlOK, JobOps
    <3>2. CallMode' = "down"
      BY <3>1 DEF CallMode
    <3> QED BY <2>0, <3>2, LossStep
  <2>2. CASE phase = "creating"
    <3>1. pc = "sha" /\ CallMode = "done"
      BY <1>0, <1>4, <2>2 DEF CallMode, Calls, ControlOK
    <3>2. SyncCreated
      BY <2>2, <3>1 DEF SyncJournal, SyncState, SyncSha, SyncMessage, SyncCommit, SyncRemoval, SyncAcknowledge
    <3>3. pc' = "idle" /\ phase' \in {"ready", "failed"}
      BY <3>2 DEF SyncCreated, Finish, Go
    <3>4. CallMode' \in {"idle", "down"}
      BY <3>3 DEF CallMode
    <3> QED BY <2>0, <3>1, <3>4, ReturnStep, LossStep
  <2>3. CASE phase = "ready"
    <3>1. CallMode = "done" /\ pc \in {"state", "sha", "msg", "commit", "remove_txn"}
      <4>1. pc \in {"state", "sha", "msg", "commit", "remove_txn"}
        BY <1>0, <1>4, <2>3 DEF CallMode, Calls, ControlOK, TInv, TypeOK, RootOps, OutboxOps
      <4> QED BY <2>3, <4>1 DEF CallMode
    <3>2. phase' = "ready" /\ pc' \in {"sha", "msg", "commit", "remove_txn", "idle"}
      BY <2>3, <3>1 DEF SyncJournal, SyncState, SyncSha, SyncMessage, SyncCommit, SyncRemoval,
                   SyncAcknowledge, SyncCreated, Finish, Go, AfterSha
    <3>3. CallMode' \in {"done", "idle"}
      BY <3>2 DEF CallMode
    <3>4. CASE CallMode' = "done"
      <4>1. CallArgument' = None /\ CallArgument = None
        BY <3>1, <3>4 DEF CallArgument
      <4> QED BY <2>0, <3>1, <3>4, <4>1, QuietStep
    <3> QED BY <2>0, <3>1, <3>3, <3>4, ReturnStep
  <2>4. phase \in {"replaying", "creating", "ready"}
    BY <1>0 DEF ControlOK, TInv, TypeOK
  <2> QED BY <2>1, <2>2, <2>3, <2>4
<1> QED BY <1>3, <1>4

LEMMA AtomicStep ==
  ASSUME CInv, TempsOK, [Next]_vars
  PROVE  Atomic!Next \/ UNCHANGED avars
<1> USE DEF disks, run, hist
<1>0. /\ TInv /\ ControlOK /\ Due /\ Healthy(synced)
      /\ phase \in {"down", "loading", "failed"} => pc = "idle"
      /\ pc = "idle" => stage = "open"
      /\ stage = "open" => images = {synced} /\ disk = synced
      /\ phase = "loading" => disk.root.txn = None
      /\ synced \in Disk /\ inflight \in Message \cup {None}
  BY CInvFacts
<1>f. ~Fault
  BY CInvFacts DEF Fault, TInv, TypeOK
<1>s. ASSUME synced' = synced PROVE Same(synced, synced')
  BY <1>s DEF Same
<1>1. CASE OpenTemp \/ Rename \/ Unlink
  BY <1>1, SameCall DEF OpenTemp, Rename, Unlink, See
<1>2. CASE TempInTheWay
  <2>1. /\ pc \notin Removes \cup {"idle", "msg"} /\ stage = "open" /\ TempExists /\ ~Replaying
        /\ pc' = "idle" /\ phase' = (IF phase = "ready" THEN "ready" ELSE "failed") /\ synced' = synced
    BY <1>2 DEF TempInTheWay, Throw, Finish, Go
  <2>2. phase # "ready"
    BY <2>1 DEF TempsOK, TempExists
  <2>3. CallMode' = "down"
    BY <2>1, <2>2 DEF CallMode
  <2> QED BY <1>s, <2>1, <2>3, LossStep
<1>3. ASSUME NEW m \in left, OpenMessage(m) PROVE UNCHANGED avars
  BY <1>3, SameCall DEF OpenMessage, See
<1>4. ASSUME NEW m \in left, SkipMessage(m) PROVE UNCHANGED avars
  <2>1. /\ pc = "msg" /\ pc' \in {"msg", "commit"} /\ phase' = phase /\ synced' = synced
    BY <1>4 DEF SkipMessage, Go
  <2>2. phase # "creating"
    BY <1>0, <2>1 DEF ControlOK
  <2>3. CallMode \in {"done", "down"} /\ CallMode' = CallMode
    BY <2>1, <2>2 DEF CallMode
  <2>4. CallArgument' = None /\ CallArgument = None
    BY <2>3 DEF CallArgument
  <2> QED BY <1>s, <2>1, <2>3, <2>4, QuietStep
<1>5. ASSUME NEW m \in left, ReplayConflict(m) PROVE UNCHANGED avars
  BY <1>5, NoConflict
<1>6. CASE \/ SyncJournal \/ SyncState \/ SyncSha \/ SyncMessage \/ SyncCommit
           \/ SyncRemoval \/ SyncAcknowledge \/ SyncCreated
  BY <1>6, SyncStep
<1>7. CASE Start \/ UnknownName
  <2>1. phase \notin {"creating", "ready"} /\ phase' \notin {"creating", "ready"} /\ synced' = synced
    BY <1>7 DEF Start, UnknownName
  <2>2. CallMode' = "down"
    BY <2>1 DEF CallMode
  <2> QED BY <1>s, <2>1, <2>2, LossStep
<1>8. CASE Load
  <2>1. /\ phase = "loading" /\ pc' = pc /\ pc = "idle" /\ phase' \in {"ready", "failed"}
        /\ synced' = synced /\ disk = synced /\ synced.root.state # None /\ synced.root.txn = None
    BY <1>0, <1>8 DEF Load
  <2>2. RecoveredState(synced) # None
    BY <1>0, <2>1, RecoveredFacts
  <2>3. CallMode = "down" /\ CallMode' \in {"idle", "down"}
    BY <2>1 DEF CallMode
  <2>4. CASE CallMode' = "idle"
    <3>1. CallArgument' = None
      BY <2>4 DEF CallArgument
    <3> QED BY <1>s, <2>1, <2>2, <2>3, <2>4, <3>1
         DEF Same, Atomic!Next, Atomic!Open, Atomic!Begin, Atomic!durable
  <2> QED BY <1>s, <2>1, <2>3, <2>4, LossStep
<1>9. ASSUME NEW s \in InitStates, Create(s) PROVE Atomic!Next
  <2>1. /\ phase = "loading" /\ synced' = synced /\ synced.root.state = None /\ synced.root.txn = None
        /\ \/ phase' = "failed"
           \/ phase' = "creating" /\ pc' = "state" /\ job' = [state |-> s, messages |-> {}]
    BY <1>0, <1>9 DEF Create, Go
  <2>2. RecoveredState(synced) = None /\ CallMode = "down"
    BY <1>0, <2>1, RecoveredFacts DEF CallMode
  <2>3. CASE phase' = "failed"
    <3>1. CallMode' = "down"
      BY <2>3 DEF CallMode
    <3> QED BY <1>s, <2>1, <3>1, LossStep
  <2>4. CASE phase' = "creating" /\ pc' = "state" /\ job' = [state |-> s, messages |-> {}]
    <3>1. CallMode' = "commit"
      BY <2>4 DEF CallMode
    <3>2. CallArgument' = [state |-> s, messages |-> {}]
      BY <2>4, <3>1 DEF CallArgument
    <3>3. Atomic!Create(s)
      BY <1>s, <2>1, <2>2, <3>1, <3>2 DEF Same, Atomic!Create, Atomic!Begin, Atomic!durable
    <3> QED BY <3>3 DEF Atomic!Next
  <2> QED BY <2>1, <2>3, <2>4
<1>10. ASSUME NEW next \in States, NEW batch \in Batches,
              NEW accepted \in SUBSET {batch[i] : i \in DOMAIN batch},
              commit(next, batch, accepted)
       PROVE  Atomic!Next
  <2>1. /\ pc = "idle" /\ phase = "ready" /\ pc' = "txn" /\ phase' = phase /\ synced' = synced
    BY <1>10 DEF commit, Idle, Go
  <2>2. PICK t : t = job'
    OBVIOUS
  <2>3. /\ CallMode = "idle" /\ CallMode' = "commit"
    BY <2>1 DEF CallMode
  <2>4. CallArgument' = t
    BY <2>2, <2>3 DEF CallArgument
  <2>5. CInv'
    BY CInvNext
  <2>6. /\ t \in Txn /\ Distinct(t.messages)
        /\ \A m \in t.messages : synced.out.msg[m.key] = None
        /\ Within(With(synced.out.msg, t.messages)) /\ synced.root.txn = None
    <3>1. job' \in Txn /\ Distinct(job'.messages)
      BY <2>1, <2>5 DEF CInv, IInv, TInv, ControlOK, MInv, WritesOK, JobOps
    <3>2. /\ \A m \in job'.messages : synced'.out.msg[m.key] = None
          /\ Within(With(synced'.out.msg, job'.messages)) /\ synced'.root.txn = None
      BY <2>1, <2>5 DEF CInv, SInv, Due
    <3> QED BY <2>1, <2>2, <3>1, <3>2
  <2>7. RecoveredOutbox(synced) = synced.out.msg
    BY <1>0, <2>6, RecoveredFacts
  <2>8. Atomic!Fits(Atomic!Extended(synced.out.msg, t.messages))
    <3>1. PICK o : o = With(synced.out.msg, t.messages)
      OBVIOUS
    <3>2. Atomic!Fits(o)
      BY <2>6, <3>1, FitsIsWithin
    <3> QED BY <3>1, <3>2, ExtendedIsWith
  <2>9. Atomic!Commit(t)
    BY <1>s, <2>1, <2>3, <2>4, <2>6, <2>7, <2>8
       DEF Same, Distinct, Atomic!Commit, Atomic!Begin, Atomic!durable
  <2>10. t \in Atomic!Txn
    BY <2>6 DEF Atomic!Txn, Txn, Message
  <2> QED BY <2>9, <2>10 DEF Atomic!Next
<1>11. CASE NextMessage
  BY <1>0, <1>11, SameCall DEF NextMessage
<1>12. ASSUME NEW answer, acknowledge(answer) PROVE Atomic!Next \/ UNCHANGED avars
  <2>1. /\ pc = "idle" /\ phase = "ready" /\ phase' = phase /\ synced' = synced
        /\ pc' \in {"idle", "ack", "blocked"} /\ job' = job
    BY <1>12 DEF acknowledge, Idle, Go
  <2>2. CallMode = "idle" /\ synced.root.txn = None
    BY <1>0, <2>1 DEF CallMode, Due, JobOps
  <2>3. CASE pc' = "idle"
    BY <2>1, <2>3, SameCall
  <2>4. CASE pc' \in {"ack", "blocked"}
    <3>1. PICK k : k = key'
      OBVIOUS
    <3>2. CInv'
      BY CInvNext
    <3>3. k \in Stored(synced.out.msg) \ synced.out.blocked
      <4>1. key' \in Stored(synced'.out.msg) \ synced'.out.blocked
        BY <2>4, <3>2 DEF CInv, SInv, Due
      <4> QED BY <2>1, <3>1, <4>1
    <3>4. RecoveredOutbox(synced) = synced.out.msg
      BY <1>0, <2>2, RecoveredFacts
    <3>5. k \in Keys /\ Atomic!Deliverable(k)
      BY <3>3, <3>4 DEF Atomic!Deliverable, Atomic!Occupied, Stored
    <3>6. CallMode' = IF pc' = "ack" THEN "acknowledge" ELSE "block"
      BY <2>1, <2>4 DEF CallMode
    <3>7. CallArgument' = k
      BY <3>1, <3>6 DEF CallArgument
    <3>8. Atomic!Acknowledge(k) \/ Atomic!Block(k)
      BY <1>s, <2>1, <2>2, <3>5, <3>6, <3>7
         DEF Same, Atomic!Acknowledge, Atomic!Block, Atomic!Begin, Atomic!durable
    <3> QED BY <3>5, <3>8 DEF Atomic!Next
  <2> QED BY <2>1, <2>3, <2>4
<1>13. CASE CallFails \/ Kill
  BY <1>13, <1>f DEF CallFails, Kill
<1>14. ASSUME NEW v \in images, PowerLoss(v) PROVE Atomic!Next
  <2>1. synced' = v /\ phase' = "down"
    BY <1>14 DEF PowerLoss, Down
  <2>2. CallMode' = "down"
    BY <2>1 DEF CallMode
  <2>3. Same(synced, synced') \/ Performs(synced, synced')
    BY <2>1, LossFacts
  <2> QED BY <2>2, <2>3, PerformStep, LossStep
<1>15. CASE UNCHANGED vars
  BY <1>15, SameCall DEF vars
<1> QED BY <1>1, <1>2, <1>3, <1>4, <1>5, <1>6, <1>7, <1>8, <1>9, <1>10, <1>11,
       <1>12, <1>13, <1>14, <1>15
    DEF Next, FileStep, Constructor, Operation

(* Over power losses, the store is the atomic one: what a restart would    *)
(* recover changes only by the call under way, state and messages of a     *)
(* commit in one step and exactly those it was given, stays within the     *)
(* limits of the outbox, and no call returns before its change is durable. *)
THEOREM StoreRefines == Spec /\ MaxFaults = 0 => ImplementsAtomicStore
<1>1. CInv /\ TempsOK /\ [Next]_vars =>
        [Atomic!Next]_<<RecoveredState(synced), RecoveredOutbox(synced), synced.out.blocked,
                        CallMode, CallArgument>>
  BY AtomicStep DEF avars
<1>2. CInv /\ TempsOK /\ [Next]_vars => (CInv /\ TempsOK)'
  BY CInvNext, TempsNext
<1>3. Init /\ MaxFaults = 0 => CInv /\ TempsOK /\ Atomic!Init
  BY CInvInit, AtomicInit DEF Init, TempsOK
<1>4. Spec => Init /\ [][Next]_vars
  BY PTL DEF Spec
<1> QED BY <1>1, <1>2, <1>3, <1>4, PTL DEF ImplementsAtomicStore, Atomic!Spec

=============================================================================
