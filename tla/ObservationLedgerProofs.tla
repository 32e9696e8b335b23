----------------------- MODULE ObservationLedgerProofs ----------------------
(***************************************************************************)
(* Proofs about ObservationLedger for any bound, gaps and contents: what   *)
(* the backend may have without our knowing it stays in every ledger that  *)
(* a crash can leave, an identity names one message, and messages appear   *)
(* in order.                                                               *)
(***************************************************************************)
EXTENDS ObservationLedger, SequenceTheorems, WellFoundedInduction, TLAPS

(* A ledger has used up the identity of m. *)
Covers(l, m) == \/ m.generation < l.generation
                \/ m.generation = l.generation /\ m.sequence <= l.sequence

InOrder(p) == \A i, j \in 1..Len(p) : i < j => Below(p[i].message, p[j].message)

(* An entry that may still be posted: its identity is used up, and nothing *)
(* in W is newer than it.                                                  *)
EntryFits(l, e, W) ==
  Covers(l, e.message) /\ \A n \in W : n = e.message \/ Below(n, e.message)

Holds(p, m) == \E i \in 1..Len(p) : p[i].message = m /\ p[i].attempted

(* A ledger that is safe to continue from when W was posted and R has      *)
(* receipts.  It is within the bound and in order; its entries fit; the    *)
(* identities of W are used up; and what has no receipt is pending and     *)
(* marked as attempted.                                                    *)
Safe(l, W, R) ==
  /\ l \in Ledgers /\ Len(l.pending) <= Bound /\ InOrder(l.pending)
  /\ \A i \in 1..Len(l.pending) : EntryFits(l, l.pending[i], W)
  /\ \A n \in W : Covers(l, n)
  /\ \A m \in W \ R : Holds(l.pending, m)

(* The head is durably marked as attempted. *)
HeadAttempted(l) == l.pending # <<>> /\ Head(l.pending).attempted

(* Every ledger that a crash may leave is safe; before the first commit    *)
(* there is none, and nothing was posted.                                  *)
ImagesInv ==
  /\ file \in images
  /\ \A l \in images : (l = None /\ wire = {}) \/ Safe(l, wire, receipts)

(* What commit() writes is safe, and is the file once it was renamed. *)
WritingInv ==
  \/ writing = None
  \/ /\ writing \in Writes /\ Safe(writing.next, wire, receipts) /\ holding = None
     /\ writing.stage = "sync" => file = writing.next
     /\ writing.then = "attempted" => HeadAttempted(writing.next)

(* Until the next rename ledger_ is all that a crash can leave. *)
OpenInv ==
  \/ ledger = None
  \/ /\ Safe(ledger, wire, receipts)
     /\ images = {ledger} \/ (writing # None /\ writing.stage = "sync")

(* The message under way is the head, and was marked before it went out. *)
HoldingInv ==
  \/ holding = None
  \/ /\ ledger # None /\ writing = None
     /\ HeadAttempted(ledger) /\ holding = Head(ledger.pending).message

WireInv == wire \subseteq Messages /\ IdentityNamesOneMessage

LInv == WireInv /\ ImagesInv /\ WritingInv /\ OpenInv /\ HoldingInv

-----------------------------------------------------------------------------
(* Sequences of entries. *)

(* A set of positions that is not empty has a greatest element. *)
LEMMA GreatestPosition ==
  ASSUME NEW n \in Nat, NEW D, D \subseteq 1..n, D # {}
  PROVE  \E i \in D : \A j \in D : j <= i
<1> DEFINE Less == OpToRel(<, Nat)
           T    == {n - i : i \in D}
<1>1. IsWellFoundedOn(Less, Nat)
  BY NatLessThanWellFounded
<1>2. \A i, j \in Nat : i < j => <<i, j>> \in Less
  BY DEF OpToRel
<1>3. \A S : S \subseteq Nat /\ S # {} => \E x \in S : \A y \in S : ~(<<y, x>> \in Less)
  <2> HIDE DEF Less
  <2> SUFFICES ASSUME NEW S, S \subseteq Nat, S # {}
               PROVE  \E x \in S : \A y \in S : ~(<<y, x>> \in Less)
    OBVIOUS
  <2> QED BY <1>1, WFMin
<1>4. T \subseteq Nat /\ T # {}
  <2>1. PICK d : d \in D
    OBVIOUS
  <2>2. n - d \in T
    BY <2>1
  <2> QED BY <2>2
<1>5. PICK x \in T : \A y \in T : ~(<<y, x>> \in Less)
  <2> HIDE DEF Less, T
  <2> QED BY <1>3, <1>4
<1>6. PICK i \in D : x = n - i
  BY <1>5
<1>7. ASSUME NEW j \in D PROVE j <= i
  <2>1. n - j \in T /\ n - j \in Nat /\ x \in Nat
    BY <1>4, <1>5
  <2>2. ~(n - j < x)
    <3> HIDE DEF Less, T
    <3> QED BY <1>2, <1>5, <2>1
  <2> QED BY <1>6, <2>1, <2>2
<1> QED BY <1>7

LEMMA RemoveAtElements ==
  ASSUME NEW p \in Seq(Entries), NEW k \in 1..Len(p)
  PROVE  /\ RemoveAt(p, k) \in Seq(Entries) /\ Len(RemoveAt(p, k)) = Len(p) - 1
         /\ \A j \in 1..(Len(p) - 1) : RemoveAt(p, k)[j] = IF j < k THEN p[j] ELSE p[j + 1]
<1> DEFINE a == SubSeq(p, 1, k - 1)
           b == SubSeq(p, k + 1, Len(p))
<1>0. Len(p) \in Nat /\ \A i \in 1..Len(p) : p[i] \in Entries
  OBVIOUS
<1>1. a \in Seq(Entries) /\ Len(a) = k - 1 /\ \A i \in 1..(k - 1) : a[i] = p[i]
  <2>1. \A i \in 1..(k - 1) : p[i] \in Entries
    BY <1>0
  <2>2. 1 \in Int /\ k - 1 \in Int
    BY <1>0
  <2>3. /\ a \in Seq(Entries)
        /\ Len(a) = IF 1 <= k - 1 THEN (k - 1) - 1 + 1 ELSE 0
        /\ \A i \in 1..((k - 1) - 1 + 1) : a[i] = p[1 + i - 1]
    BY <2>1, <2>2, SubSeqProperties
  <2> HIDE DEF a
  <2> QED BY <1>0, <2>3
<1>2. b \in Seq(Entries) /\ Len(b) = Len(p) - k /\ \A i \in 1..(Len(p) - k) : b[i] = p[k + i]
  <2>1. \A i \in (k + 1)..Len(p) : p[i] \in Entries
    BY <1>0
  <2>2. k + 1 \in Int /\ Len(p) \in Int
    BY <1>0
  <2>3. /\ b \in Seq(Entries)
        /\ Len(b) = IF k + 1 <= Len(p) THEN Len(p) - (k + 1) + 1 ELSE 0
        /\ \A i \in 1..(Len(p) - (k + 1) + 1) : b[i] = p[(k + 1) + i - 1]
    BY <2>1, <2>2, SubSeqProperties
  <2> HIDE DEF b
  <2> QED BY <1>0, <2>3
<1>3. RemoveAt(p, k) = a \o b
  BY DEF RemoveAt
<1> HIDE DEF a, b
<1>4. /\ a \o b \in Seq(Entries) /\ Len(a \o b) = Len(a) + Len(b)
      /\ \A i \in 1..(Len(a) + Len(b)) : (a \o b)[i] = IF i <= Len(a) THEN a[i] ELSE b[i - Len(a)]
  BY <1>1, <1>2, ConcatProperties, Zenon
<1>5. PICK q : q = a \o b
  OBVIOUS
<1>6. Len(q) = Len(p) - 1
  BY <1>0, <1>1, <1>2, <1>4, <1>5
<1>7. ASSUME NEW j \in 1..(Len(p) - 1) PROVE q[j] = IF j < k THEN p[j] ELSE p[j + 1]
  <2>1. q[j] = IF j <= k - 1 THEN a[j] ELSE b[j - (k - 1)]
    BY <1>0, <1>1, <1>2, <1>4, <1>5
  <2>2. CASE j < k
    BY <1>0, <1>1, <2>1, <2>2
  <2>3. CASE ~(j < k)
    <3>1. j - (k - 1) \in 1..(Len(p) - k) /\ k + (j - (k - 1)) = j + 1
      BY <1>0, <2>3
    <3>2. b[j - (k - 1)] = p[j + 1]
      BY <1>2, <3>1
    <3> QED BY <1>0, <2>1, <2>3, <3>2
  <2> QED BY <2>2, <2>3
<1> QED BY <1>3, <1>4, <1>5, <1>6, <1>7

(* MakeRoom leaves room, keeps the order, adds nothing and never drops an  *)
(* entry that was attempted.                                               *)
LEMMA MakeRoomKeeps ==
  ASSUME NEW p \in Seq(Entries), Len(p) <= Bound, InOrder(p),
         Len(p) = Bound => Unsent(p) # {}
  PROVE  /\ MakeRoom(p) \in Seq(Entries) /\ Len(MakeRoom(p)) < Bound /\ InOrder(MakeRoom(p))
         /\ \A j \in 1..Len(MakeRoom(p)) : \E i \in 1..Len(p) : MakeRoom(p)[j] = p[i]
         /\ \A i \in 1..Len(p) : p[i].attempted =>
              \E j \in 1..Len(MakeRoom(p)) : MakeRoom(p)[j] = p[i]
<1>0. Len(p) \in Nat /\ Bound \in Nat
  BY LedgerAssumption
<1>1. CASE Len(p) < Bound
  <2>1. MakeRoom(p) = p
    BY <1>1 DEF MakeRoom
  <2> QED BY <1>1, <2>1
<1>2. CASE ~(Len(p) < Bound)
  <2>1. Unsent(p) # {} /\ Unsent(p) \subseteq 1..Len(p)
    BY <1>0, <1>2 DEF Unsent
  <2>2. \E i \in Unsent(p) : \A j \in Unsent(p) : j <= i
    BY <1>0, <2>1, GreatestPosition
  <2>3. PICK k : k = CHOOSE i \in Unsent(p) : \A j \in Unsent(p) : j <= i
    OBVIOUS
  <2>4. k \in Unsent(p)
    BY <2>2, <2>3
  <2>5. k \in 1..Len(p) /\ ~p[k].attempted
    BY <2>1, <2>4 DEF Unsent
  <2>6. PICK q : q = MakeRoom(p)
    OBVIOUS
  <2>7. /\ q \in Seq(Entries) /\ Len(q) = Len(p) - 1
        /\ \A j \in 1..(Len(p) - 1) : q[j] = IF j < k THEN p[j] ELSE p[j + 1]
    BY <1>2, <2>3, <2>5, <2>6, RemoveAtElements DEF MakeRoom
  <2>8. \A j \in 1..Len(q) : \E i \in 1..Len(p) : q[j] = p[i]
    BY <1>0, <2>5, <2>7
  <2>9. ASSUME NEW i \in 1..Len(p), p[i].attempted PROVE \E j \in 1..Len(q) : q[j] = p[i]
    <3>1. i # k
      BY <2>5, <2>9
    <3>2. CASE i < k
      BY <1>0, <2>5, <2>7, <3>2
    <3>3. CASE i > k
      <4>1. i - 1 \in 1..Len(q) /\ ~(i - 1 < k) /\ (i - 1) + 1 = i
        BY <1>0, <2>5, <2>7, <3>3
      <4> QED BY <2>7, <4>1
    <3> QED BY <1>0, <2>5, <3>1, <3>2, <3>3
  <2>10. InOrder(q)
    <3> SUFFICES ASSUME NEW i \in 1..Len(q), NEW j \in 1..Len(q), i < j
                 PROVE  Below(q[i].message, q[j].message)
      BY DEF InOrder
    <3> DEFINE at(n) == IF n < k THEN n ELSE n + 1
    <3>1. at(i) \in 1..Len(p) /\ at(j) \in 1..Len(p) /\ at(i) < at(j)
      BY <1>0, <2>5, <2>7
    <3>2. q[i] = p[at(i)] /\ q[j] = p[at(j)]
      BY <1>0, <2>5, <2>7
    <3> HIDE DEF at
    <3> QED BY <3>1, <3>2 DEF InOrder
  <2> QED BY <1>0, <2>6, <2>7, <2>8, <2>9, <2>10
<1> QED BY <1>1, <1>2

-----------------------------------------------------------------------------
(* What the methods of the ledger do to a safe one. *)

LEMMA BelowTransitive ==
  ASSUME NEW a \in Messages, NEW b \in Messages, NEW c \in Messages, Below(a, b), Below(b, c)
  PROVE  Below(a, c)
BY DEF Below, Messages

LEMMA EntryType ==
  ASSUME NEW l \in Ledgers
  PROVE  /\ l.pending \in Seq(Entries) /\ Len(l.pending) \in Nat
         /\ l.generation \in Nat /\ l.sequence \in Nat
         /\ \A i \in 1..Len(l.pending) : l.pending[i] \in Entries /\ l.pending[i].message \in Messages
<1>1. l.pending \in Seq(Entries) /\ l.generation \in Nat /\ l.sequence \in Nat
  BY DEF Ledgers
<1>2. PICK p \in Seq(Entries) : p = l.pending
  BY <1>1
<1>3. Len(p) \in Nat /\ \A i \in 1..Len(p) : p[i] \in Entries
  OBVIOUS
<1>4. \A e \in Entries : e.message \in Messages
  BY DEF Entries
<1> QED BY <1>1, <1>2, <1>3, <1>4

(* A ledger is what its three fields say. *)
LEMMA LedgerMade ==
  ASSUME NEW g \in Nat, NEW n \in Nat, NEW p \in Seq(Entries),
         NEW k, k = [generation |-> g, sequence |-> n, pending |-> p]
  PROVE  k \in Ledgers /\ k.generation = g /\ k.sequence = n /\ k.pending = p
BY DEF Ledgers

LEMMA LedgerFields ==
  ASSUME NEW l \in Ledgers
  PROVE  l = [generation |-> l.generation, sequence |-> l.sequence, pending |-> l.pending]
BY DEF Ledgers

(* The constructor's new generation. *)
LEMMA SafeOpened ==
  ASSUME NEW l, NEW W, NEW R, W \subseteq Messages, Safe(l, W, R)
  PROVE  Safe([l EXCEPT !.generation = @ + 1, !.sequence = 0], W, R)
<1>1. l \in Ledgers
  BY DEF Safe
<1>2. PICK k : k = [l EXCEPT !.generation = @ + 1, !.sequence = 0]
  OBVIOUS
<1>a. k = [generation |-> l.generation + 1, sequence |-> 0, pending |-> l.pending]
  BY <1>1, <1>2 DEF Ledgers
<1>b. l.generation + 1 \in Nat /\ l.pending \in Seq(Entries)
  BY <1>1, EntryType
<1>3. k \in Ledgers /\ k.pending = l.pending /\ k.generation = l.generation + 1
  BY <1>a, <1>b, LedgerMade
<1>4. \A m \in Messages : Covers(l, m) => Covers(k, m)
  BY <1>1, <1>3 DEF Covers, Messages, Ledgers
<1>5. Safe(k, W, R)
  BY <1>3, <1>4, <1>1, EntryType DEF Safe, EntryFits
<1> QED BY <1>2, <1>5

LEMMA SafeFirst == ASSUME NEW R PROVE Safe(NoLedger, {}, R)
<1>1. <<>> \in Seq(Entries) /\ Len(<<>>) = 0
  BY EmptySeq, Zenon
<1>2. PICK e : e = <<>>
  OBVIOUS
<1>3. PICK z \in Nat : z = 0
  OBVIOUS
<1>4. NoLedger = [generation |-> z, sequence |-> z, pending |-> e]
  BY <1>2, <1>3 DEF NoLedger
<1>5. NoLedger \in Ledgers /\ NoLedger.pending = e
  <2>1. e \in Seq(Entries)
    BY <1>1, <1>2, Zenon
  <2>2. NoLedger.pending = e
    BY <1>4
  <2>3. NoLedger \in Ledgers
    BY <1>3, <1>4, <2>1 DEF Ledgers
  <2> QED BY <2>2, <2>3
<1>6. Len(NoLedger.pending) = 0
  BY <1>1, <1>2, <1>5
<1> QED BY <1>5, <1>6, LedgerAssumption DEF Safe, InOrder

(* observe(): the new message comes after everything there is. *)
LEMMA SafeObserved ==
  ASSUME NEW l, NEW W, NEW R, W \subseteq Messages, Safe(l, W, R), NEW c \in Contents,
         Len(l.pending) = Bound => Unsent(l.pending) # {},
         NEW m, m = [generation |-> l.generation, sequence |-> l.sequence + 1, content |-> c],
         NEW e, e = [message |-> m, attempted |-> FALSE]
  PROVE  Safe([l EXCEPT !.sequence = @ + 1, !.pending = Queued(@, e)], W, R)
<1>1. l \in Ledgers /\ Bound \in Nat \ {0}
  BY LedgerAssumption DEF Safe
<1>2. m \in Messages /\ e \in Entries /\ e.message = m
  BY <1>1 DEF Messages, Entries, Ledgers
<1> DEFINE p == l.pending
<1>3. PICK q : q = MakeRoom(p)
  OBVIOUS
<1>4. p \in Seq(Entries) /\ Len(p) <= Bound /\ InOrder(p)
  BY <1>1, EntryType DEF Safe
<1>5. /\ q \in Seq(Entries) /\ Len(q) < Bound /\ InOrder(q)
      /\ \A j \in 1..Len(q) : \E i \in 1..Len(p) : q[j] = p[i]
      /\ \A i \in 1..Len(p) : p[i].attempted => \E j \in 1..Len(q) : q[j] = p[i]
  <2> HIDE DEF p
  <2> QED BY <1>3, <1>4, MakeRoomKeeps DEF p
<1>6. PICK a : a = Append(q, e)
  OBVIOUS
<1>7. PICK k : k = [l EXCEPT !.sequence = @ + 1, !.pending = a]
  OBVIOUS
<1>8. [l EXCEPT !.sequence = @ + 1, !.pending = Queued(@, e)] = k
  BY <1>3, <1>6, <1>7, <1>1 DEF Queued, Ledgers
<1>9. /\ a \in Seq(Entries) /\ Len(a) = Len(q) + 1 /\ a[Len(a)] = e
      /\ \A i \in 1..Len(q) : a[i] = q[i]
  BY <1>2, <1>5, <1>6
<1>a. k = [generation |-> l.generation, sequence |-> l.sequence + 1, pending |-> a]
  BY <1>1, <1>7 DEF Ledgers
<1>b. l.generation \in Nat /\ l.sequence + 1 \in Nat
  BY <1>1, EntryType
<1>10. /\ k \in Ledgers /\ k.pending = a
       /\ k.generation = l.generation /\ k.sequence = l.sequence + 1
  BY <1>9, <1>a, <1>b, LedgerMade
<1>11. \A n \in Messages : Covers(l, n) => Covers(k, n) /\ Below(n, m)
  BY <1>1, <1>10 DEF Covers, Below, Messages, Ledgers
<1>12. Covers(k, m)
  BY <1>1, <1>10 DEF Covers, Ledgers
<1>13. \A i \in 1..Len(q) : q[i].message \in Messages /\ Covers(l, q[i].message) /\ EntryFits(l, q[i], W)
  BY <1>1, <1>5, EntryType DEF Safe, EntryFits
<1>14. \A i \in 1..Len(a) : i \in 1..Len(q) \/ i = Len(a)
  BY <1>5, <1>9
<1>15. \A i \in 1..Len(a) : EntryFits(k, a[i], W)
  <2> SUFFICES ASSUME NEW i \in 1..Len(a) PROVE EntryFits(k, a[i], W)
    OBVIOUS
  <2>1. CASE i \in 1..Len(q)
    BY <1>9, <1>11, <1>13, <2>1 DEF EntryFits
  <2>2. CASE i = Len(a)
    <3>1. \A n \in W : Covers(l, n)
      BY DEF Safe
    <3> QED BY <1>2, <1>9, <1>11, <1>12, <2>2, <3>1 DEF EntryFits
  <2> QED BY <1>14, <2>1, <2>2
<1>16. InOrder(a)
  <2> SUFFICES ASSUME NEW i \in 1..Len(a), NEW j \in 1..Len(a), i < j
               PROVE  Below(a[i].message, a[j].message)
    BY DEF InOrder
  <2>1. i \in 1..Len(q)
    BY <1>5, <1>9
  <2>2. CASE j \in 1..Len(q)
    BY <1>5, <1>9, <2>1, <2>2 DEF InOrder
  <2>3. CASE j = Len(a)
    BY <1>2, <1>9, <1>11, <1>13, <2>1, <2>3
  <2> QED BY <1>14, <2>2, <2>3
<1>17. \A n \in W \ R : Holds(a, n)
  <2> SUFFICES ASSUME NEW n \in W \ R PROVE Holds(a, n)
    OBVIOUS
  <2>1. PICK i \in 1..Len(p) : p[i].message = n /\ p[i].attempted
    BY DEF Safe, Holds
  <2>2. PICK j \in 1..Len(q) : q[j] = p[i]
    BY <1>5, <2>1
  <2>3. j \in 1..Len(a) /\ a[j] = p[i]
    BY <1>5, <1>9, <2>2
  <2> QED BY <2>1, <2>3 DEF Holds
<1>18. \A n \in W : Covers(k, n)
  BY <1>11 DEF Safe
<1>19. Len(a) <= Bound
  BY <1>1, <1>5, <1>9
<1>20. Safe(k, W, R)
  BY <1>10, <1>15, <1>16, <1>17, <1>18, <1>19 DEF Safe
<1> QED BY <1>8, <1>20

(* next(): the head is marked, its message stays what it is. *)
LEMMA SafeAttempted ==
  ASSUME NEW l, NEW W, NEW R, Safe(l, W, R), l.pending # <<>>
  PROVE  /\ Safe([l EXCEPT !.pending[1].attempted = TRUE], W, R)
         /\ HeadAttempted([l EXCEPT !.pending[1].attempted = TRUE])
<1> DEFINE p == l.pending
<1>1. l \in Ledgers /\ p \in Seq(Entries) /\ p # <<>> /\ \A i \in 1..Len(p) : p[i] \in Entries
  BY EntryType DEF Safe
<1>2. 1 \in 1..Len(p) /\ p[1] \in Entries
  BY <1>1
<1>3. PICK e : e = [p[1] EXCEPT !.attempted = TRUE]
  OBVIOUS
<1>4. e \in Entries /\ e.message = p[1].message /\ e.attempted
  BY <1>2, <1>3 DEF Entries
<1>5. PICK a : a = [p EXCEPT ![1] = e]
  OBVIOUS
<1>6. a \in Seq(Entries) /\ Len(a) = Len(p) /\ \A i \in 1..Len(p) : a[i] = IF i = 1 THEN e ELSE p[i]
  BY <1>1, <1>2, <1>4, <1>5
<1>7. PICK k : k = [l EXCEPT !.pending = a]
  OBVIOUS
<1>8. [l EXCEPT !.pending[1].attempted = TRUE] = k
  BY <1>3, <1>5, <1>7
<1>9. /\ k \in Ledgers /\ k.pending = a
      /\ k.generation = l.generation /\ k.sequence = l.sequence
  BY <1>1, <1>6, <1>7 DEF Ledgers
<1>10. \A i \in 1..Len(p) : a[i].message = p[i].message /\ (p[i].attempted => a[i].attempted)
  BY <1>2, <1>4, <1>6
<1>11. \A n : Covers(l, n) => Covers(k, n)
  BY <1>9 DEF Covers
<1>12. InOrder(a)
  BY <1>6, <1>10 DEF Safe, InOrder
<1>13. \A i \in 1..Len(a) : EntryFits(k, a[i], W)
  BY <1>6, <1>10, <1>11 DEF Safe, EntryFits
<1>14. \A n \in W \ R : Holds(a, n)
  BY <1>6, <1>10 DEF Safe, Holds
<1>15. Safe(k, W, R)
  BY <1>6, <1>9, <1>11, <1>12, <1>13, <1>14 DEF Safe
<1>16. HeadAttempted(k)
  BY <1>1, <1>2, <1>4, <1>6, <1>9 DEF HeadAttempted
<1> QED BY <1>8, <1>15, <1>16

(* Posting the marked head: nothing that was posted is newer. *)
LEMMA HeadIsNewest ==
  ASSUME NEW l, NEW W, NEW R, Safe(l, W, R), HeadAttempted(l),
         NEW m, m = Head(l.pending).message
  PROVE  /\ m \in Messages /\ Holds(l.pending, m) /\ Covers(l, m)
         /\ 1 \in 1..Len(l.pending) /\ l.pending[1].message = m
         /\ \A n \in W : n = m \/ Below(n, m)
         /\ \A i \in 1..Len(l.pending) : m = l.pending[i].message \/ Below(m, l.pending[i].message)
<1>1. l \in Ledgers /\ l.pending \in Seq(Entries) /\ l.pending # <<>>
  BY EntryType DEF Safe, HeadAttempted
<1>2. /\ 1 \in 1..Len(l.pending) /\ Head(l.pending) = l.pending[1]
      /\ l.pending[1].message = m /\ l.pending[1].attempted
  BY <1>1 DEF HeadAttempted
<1>3. m \in Messages
  BY <1>1, <1>2, EntryType
<1>4. \A i \in 1..Len(l.pending) : i = 1 \/ 1 < i
  BY <1>1
<1>5. \A i \in 1..Len(l.pending) : m = l.pending[i].message \/ Below(m, l.pending[i].message)
  BY <1>2, <1>4 DEF Safe, InOrder
<1> QED BY <1>2, <1>3, <1>5 DEF Safe, EntryFits, Holds

LEMMA SafePosted ==
  ASSUME NEW l, NEW W, NEW R, Safe(l, W, R), HeadAttempted(l),
         NEW m, m = Head(l.pending).message
  PROVE  Safe(l, W \cup {m}, R) /\ Safe(l, W \cup {m}, R \cup {m})
<1>1. /\ Holds(l.pending, m) /\ Covers(l, m)
      /\ \A i \in 1..Len(l.pending) : m = l.pending[i].message \/ Below(m, l.pending[i].message)
  BY HeadIsNewest
<1>2. \A i \in 1..Len(l.pending) : EntryFits(l, l.pending[i], W \cup {m})
  BY <1>1 DEF Safe, EntryFits
<1>3. \A n \in W \cup {m} : Covers(l, n)
  BY <1>1 DEF Safe
<1>4. \A n \in (W \cup {m}) \ R : Holds(l.pending, n)
  BY <1>1 DEF Safe
<1> QED BY <1>2, <1>3, <1>4 DEF Safe

(* accept(): the head goes, and has its receipt. *)
LEMMA SafeAccepted ==
  ASSUME NEW l, NEW W, NEW R, Safe(l, W, R), HeadAttempted(l),
         NEW m, m = Head(l.pending).message
  PROVE  Safe([l EXCEPT !.pending = Tail(@)], W \cup {m}, R \cup {m})
<1> DEFINE p == l.pending
<1>1. l \in Ledgers /\ p \in Seq(Entries) /\ p # <<>> /\ Len(p) \in Nat /\ Len(p) <= Bound /\ Bound \in Nat
  BY EntryType, LedgerAssumption DEF Safe, HeadAttempted
<1>2. PICK a : a = Tail(p)
  OBVIOUS
<1>3. a \in Seq(Entries) /\ Len(a) = Len(p) - 1 /\ \A i \in 1..Len(a) : a[i] = p[i + 1] /\ i + 1 \in 1..Len(p)
  BY <1>1, <1>2
<1>4. PICK k : k = [l EXCEPT !.pending = a]
  OBVIOUS
<1>5. [l EXCEPT !.pending = Tail(@)] = k
  BY <1>2, <1>4
<1>6. /\ k \in Ledgers /\ k.pending = a
      /\ k.generation = l.generation /\ k.sequence = l.sequence
  BY <1>1, <1>3, <1>4 DEF Ledgers
<1>7. \A n : Covers(l, n) => Covers(k, n)
  BY <1>6 DEF Covers
<1>8. Safe(l, W \cup {m}, R \cup {m}) /\ p[1].message = m
  BY SafePosted, HeadIsNewest
<1>9. InOrder(a)
  <2> SUFFICES ASSUME NEW i \in 1..Len(a), NEW j \in 1..Len(a), i < j
               PROVE  Below(a[i].message, a[j].message)
    BY DEF InOrder
  <2>1. i + 1 \in 1..Len(p) /\ j + 1 \in 1..Len(p) /\ i + 1 < j + 1
    BY <1>1, <1>3
  <2>2. a[i] = p[i + 1] /\ a[j] = p[j + 1]
    BY <1>3
  <2> QED BY <2>1, <2>2 DEF Safe, InOrder
<1>10. \A i \in 1..Len(a) : EntryFits(k, a[i], W \cup {m})
  BY <1>3, <1>7, <1>8 DEF Safe, EntryFits
<1>11. ASSUME NEW n \in (W \cup {m}) \ (R \cup {m}) PROVE Holds(a, n)
  <2>1. PICK i \in 1..Len(p) : p[i].message = n /\ p[i].attempted
    BY <1>8 DEF Safe, Holds
  <2>2. i # 1
    BY <1>8, <2>1
  <2>3. i - 1 \in 1..Len(a) /\ a[i - 1] = p[i]
    BY <1>1, <1>3, <2>2
  <2> QED BY <2>1, <2>3 DEF Holds
<1>12. Len(a) <= Bound
  BY <1>1, <1>3
<1>13. \A n \in W \cup {m} : Covers(k, n)
  BY <1>7, <1>8 DEF Safe
<1>14. Safe(k, W \cup {m}, R \cup {m})
  BY <1>6, <1>9, <1>10, <1>11, <1>12, <1>13 DEF Safe
<1> QED BY <1>5, <1>14

-----------------------------------------------------------------------------
(* The invariant is inductive. *)

LEMMA LInvInit == Init => LInv
BY DEF Init, LInv, WireInv, IdentityNamesOneMessage, ImagesInv, WritingInv, OpenInv, HoldingInv

(* commit() begins on a safe ledger: nothing that a crash may leave changes. *)
LEMMA CommitBegins ==
  ASSUME LInv, NEW l, NEW then \in {"opened", "observed", "attempted", "accepted"},
         Commit(l, then), Safe(l, wire', receipts'),
         then = "attempted" => HeadAttempted(l), holding' = None
  PROVE  WritingInv'
<1>1. l \in Ledgers
  BY DEF Safe
<1>2. writing' \in Writes /\ writing'.next = l /\ writing'.stage = "rename" /\ writing'.then = then
  BY <1>1 DEF Commit, Writes
<1> QED BY <1>2 DEF WritingInv

LEMMA OpenNext == ASSUME LInv, Open PROVE LInv'
<1> DEFINE l == [Stored EXCEPT !.generation = @ + 1, !.sequence = 0]
<1>1. wire \subseteq Messages /\ file \in images
  BY DEF LInv, WireInv, ImagesInv
<1>2. Safe(Stored, wire, receipts)
  <2>1. CASE file = None
    <3>1. wire = {}
      BY <1>1, <2>1, LedgerAssumption DEF LInv, ImagesInv, Safe
    <3> QED BY <2>1, <3>1, SafeFirst DEF Stored
  <2>2. CASE file # None
    BY <1>1, <2>2 DEF LInv, ImagesInv, Stored
  <2> QED BY <2>1, <2>2
<1>3. Safe(l, wire, receipts)
  BY <1>1, <1>2, SafeOpened
<1>4. holding = None
  BY DEF LInv, HoldingInv, Open
<1>5. Commit(l, "opened") /\ UNCHANGED <<file, images, ledger, memory, holding, outside>>
  BY DEF Open
<1> HIDE DEF l
<1>6. UNCHANGED <<file, images, ledger, holding, wire, receipts>>
  BY <1>5 DEF outside
<1>7. WritingInv'
  BY <1>3, <1>4, <1>5, <1>6, CommitBegins
<1>8. WireInv' /\ ImagesInv'
  BY <1>6 DEF LInv, WireInv, ImagesInv, IdentityNamesOneMessage
<1>9. OpenInv' /\ HoldingInv'
  BY <1>4, <1>6 DEF LInv, OpenInv, HoldingInv, Open
<1> QED BY <1>7, <1>8, <1>9 DEF LInv

(* What an idle process that begins a commit keeps. *)
LEMMA IdleCommit ==
  ASSUME LInv, Idle, NEW l, NEW then \in {"opened", "observed", "attempted", "accepted"},
         Commit(l, then), Safe(l, wire, receipts), then = "attempted" => HeadAttempted(l),
         UNCHANGED <<file, images, ledger, holding, wire, receipts>>
  PROVE  LInv'
<1>1. WritingInv'
  BY CommitBegins DEF Idle
<1>2. WireInv' /\ ImagesInv'
  BY DEF LInv, WireInv, ImagesInv, IdentityNamesOneMessage
<1>3. OpenInv' /\ HoldingInv'
  BY DEF LInv, OpenInv, HoldingInv, Idle
<1> QED BY <1>1, <1>2, <1>3 DEF LInv

LEMMA ObserveNext == ASSUME LInv, NEW c \in Contents, observe(c) PROVE LInv'
<1>1. PICK m : m = [generation |-> ledger.generation, sequence |-> ledger.sequence + 1, content |-> c]
  OBVIOUS
<1>2. PICK e : e = [message |-> m, attempted |-> FALSE]
  OBVIOUS
<1>3. PICK l : l = [ledger EXCEPT !.sequence = @ + 1, !.pending = Queued(@, e)]
  OBVIOUS
<1>4. /\ Idle /\ (Len(ledger.pending) = Bound => Unsent(ledger.pending) # {})
      /\ Commit(l, "observed")
      /\ UNCHANGED <<file, images, ledger, holding, wire, receipts>>
  BY <1>1, <1>2, <1>3 DEF observe, outside
<1>5. wire \subseteq Messages /\ Safe(ledger, wire, receipts)
  BY <1>4 DEF LInv, WireInv, OpenInv, Idle
<1>6. Safe(l, wire, receipts)
  BY <1>1, <1>2, <1>3, <1>4, <1>5, SafeObserved
<1> QED BY <1>4, <1>6, IdleCommit

LEMMA NextNext == ASSUME LInv, next PROVE LInv'
<1>1. Idle /\ ledger.pending # <<>> /\ UNCHANGED <<file, images, ledger, wire, receipts>>
  BY DEF next, outside
<1>2. Safe(ledger, wire, receipts)
  BY <1>1 DEF LInv, OpenInv, Idle
<1>3. CASE Head(ledger.pending).attempted
  <2>1. holding' = Head(ledger.pending).message /\ UNCHANGED writing
    BY <1>3 DEF next
  <2>2. HoldingInv'
    BY <1>1, <1>3, <2>1 DEF HoldingInv, HeadAttempted, Idle
  <2>3. WritingInv'
    BY <1>1, <2>1 DEF WritingInv, Idle
  <2>4. WireInv' /\ ImagesInv' /\ OpenInv'
    BY <1>1, <2>1 DEF LInv, WireInv, ImagesInv, IdentityNamesOneMessage, OpenInv
  <2> QED BY <2>2, <2>3, <2>4 DEF LInv
<1>4. CASE ~Head(ledger.pending).attempted
  <2>1. PICK l : l = [ledger EXCEPT !.pending[1].attempted = TRUE]
    OBVIOUS
  <2>2. Commit(l, "attempted") /\ UNCHANGED holding
    BY <1>4, <2>1 DEF next
  <2>3. Safe(l, wire, receipts) /\ HeadAttempted(l)
    BY <1>1, <1>2, <2>1, SafeAttempted
  <2> QED BY <1>1, <2>2, <2>3, IdleCommit
<1> QED BY <1>3, <1>4

LEMMA RenameNext == ASSUME LInv, Rename PROVE LInv'
<1>1. /\ writing \in Writes /\ Safe(writing.next, wire, receipts) /\ holding = None
      /\ writing.then = "attempted" => HeadAttempted(writing.next)
  BY DEF LInv, WritingInv, Rename
<1>2. /\ writing' \in Writes /\ writing'.next = writing.next /\ writing'.then = writing.then
      /\ writing'.stage = "sync"
  BY <1>1 DEF Rename, Writes
<1>3. /\ file' = writing.next /\ images' = images \cup {writing.next}
      /\ UNCHANGED <<ledger, holding, wire, receipts>>
  BY DEF Rename, outside
<1>4. writing' # None
  BY <1>2, LedgerAssumption
<1>5. WritingInv' /\ HoldingInv'
  BY <1>1, <1>2, <1>3 DEF WritingInv, HoldingInv
<1>6. OpenInv'
  BY <1>2, <1>3, <1>4 DEF LInv, OpenInv
<1>7. WireInv' /\ ImagesInv'
  BY <1>1, <1>3 DEF LInv, WireInv, ImagesInv, IdentityNamesOneMessage
<1> QED BY <1>5, <1>6, <1>7 DEF LInv

LEMMA SyncNext == ASSUME LInv, Sync PROVE LInv'
<1>1. /\ writing \in Writes /\ Safe(writing.next, wire, receipts) /\ holding = None
      /\ file = writing.next /\ (writing.then = "attempted" => HeadAttempted(writing.next))
  BY DEF LInv, WritingInv, Sync
<1>2. /\ images' = {file} /\ ledger' = writing.next /\ writing' = None /\ file' = file
      /\ UNCHANGED <<wire, receipts>>
  BY DEF Sync, outside
<1>3. WireInv' /\ ImagesInv' /\ WritingInv' /\ OpenInv'
  BY <1>1, <1>2 DEF LInv, WireInv, ImagesInv, IdentityNamesOneMessage, WritingInv, OpenInv
<1>4. HoldingInv'
  <2>1. CASE writing.then = "attempted"
    <3>1. holding' = Head(ledger'.pending).message
      BY <2>1 DEF Sync
    <3>2. ledger' # None
      BY <1>1, <1>2, LedgerAssumption DEF Safe
    <3> QED BY <1>1, <1>2, <2>1, <3>1, <3>2 DEF HoldingInv
  <2>2. CASE writing.then # "attempted"
    BY <1>1, <2>2 DEF Sync, HoldingInv
  <2> QED BY <2>1, <2>2
<1> QED BY <1>3, <1>4 DEF LInv

(* A post adds the head to what was posted; while nothing is being written *)
(* ledger_ is all that a crash can leave.                                  *)
LEMMA PostKeeps ==
  ASSUME LInv, ledger # None, writing = None, holding # None,
         wire' = wire \cup {holding}
  PROVE  /\ WireInv' /\ images = {ledger} /\ file = ledger
         /\ Safe(ledger, wire, receipts) /\ HeadAttempted(ledger)
         /\ holding = Head(ledger.pending).message
         /\ \A n \in wire : n = holding \/ Below(n, holding)
<1>1. /\ Safe(ledger, wire, receipts) /\ HeadAttempted(ledger)
      /\ holding = Head(ledger.pending).message
  BY DEF LInv, OpenInv, HoldingInv
<1>2. images = {ledger} /\ file = ledger
  BY DEF LInv, OpenInv, ImagesInv
<1>3. holding \in Messages /\ \A n \in wire : n = holding \/ Below(n, holding)
  BY <1>1, HeadIsNewest
<1>4. wire' \subseteq Messages /\ wire \subseteq Messages
  BY <1>3 DEF LInv, WireInv
<1>5. \A n \in Messages : Below(n, holding) => Identity(n) # Identity(holding)
  BY <1>3 DEF Below, Identity, Messages
<1>6. IdentityNamesOneMessage'
  BY <1>3, <1>4, <1>5 DEF LInv, WireInv, IdentityNamesOneMessage
<1> QED BY <1>1, <1>2, <1>3, <1>4, <1>6 DEF WireInv

LEMMA AcceptNext == ASSUME LInv, accept PROVE LInv'
<1>1. /\ ledger # None /\ writing = None /\ holding # None
      /\ wire' = wire \cup {holding} /\ receipts' = receipts \cup {holding} /\ holding' = None
      /\ UNCHANGED <<file, images, ledger>>
  BY DEF accept, Post
<1>2. /\ WireInv' /\ images = {ledger} /\ file = ledger
      /\ Safe(ledger, wire, receipts) /\ HeadAttempted(ledger)
      /\ holding = Head(ledger.pending).message
  BY <1>1, PostKeeps
<1>3. Safe(ledger, wire', receipts')
  BY <1>1, <1>2, SafePosted
<1>4. PICK l : l = [ledger EXCEPT !.pending = Tail(@)]
  OBVIOUS
<1>5. Commit(l, "accepted")
  BY <1>4 DEF accept
<1>6. Safe(l, wire', receipts')
  BY <1>1, <1>2, <1>4, SafeAccepted
<1>7. WritingInv'
  BY <1>1, <1>5, <1>6, CommitBegins
<1>8. ImagesInv' /\ OpenInv' /\ HoldingInv'
  BY <1>1, <1>2, <1>3 DEF ImagesInv, OpenInv, HoldingInv
<1> QED BY <1>2, <1>7, <1>8 DEF LInv

LEMMA NotAcceptedNext == ASSUME LInv, NotAccepted PROVE LInv'
<1>1. /\ ledger # None /\ writing = None /\ holding # None /\ holding' = None
      /\ UNCHANGED <<file, images, ledger, writing, receipts>>
  BY DEF NotAccepted
<1>2. CASE UNCHANGED wire
  BY <1>1, <1>2 DEF LInv, WireInv, IdentityNamesOneMessage, ImagesInv, WritingInv, OpenInv, HoldingInv
<1>3. CASE wire' = wire \cup {holding}
  <2>1. /\ WireInv' /\ images = {ledger} /\ file = ledger
        /\ Safe(ledger, wire, receipts) /\ HeadAttempted(ledger)
        /\ holding = Head(ledger.pending).message
    BY <1>1, <1>3, PostKeeps
  <2>2. Safe(ledger, wire', receipts')
    BY <1>1, <1>3, <2>1, SafePosted
  <2>3. ImagesInv' /\ OpenInv' /\ HoldingInv' /\ WritingInv'
    BY <1>1, <2>1, <2>2 DEF ImagesInv, OpenInv, HoldingInv, WritingInv
  <2> QED BY <2>1, <2>3 DEF LInv
<1> QED BY <1>2, <1>3 DEF NotAccepted, Post

(* Whatever ends the stream leaves one of the images. *)
LEMMA DropNext ==
  ASSUME LInv, Drop, file' \in images', images' \subseteq images, UNCHANGED <<wire, receipts>>
  PROVE  LInv'
BY DEF LInv, Drop, WireInv, IdentityNamesOneMessage, ImagesInv, WritingInv, OpenInv, HoldingInv

LEMMA LInvNext == LInv /\ [Next]_vars => LInv'
<1> SUFFICES ASSUME LInv, [Next]_vars PROVE LInv'
  OBVIOUS
<1>1. file \in images
  BY DEF LInv, ImagesInv
<1>2. CASE Exhausted
  BY <1>1, <1>2, DropNext DEF Exhausted, outside
<1>3. CASE CommitFails
  BY <1>1, <1>3, DropNext DEF CommitFails
<1>4. CASE Kill
  BY <1>1, <1>4, DropNext DEF Kill
<1>5. CASE \E l \in images : PowerLoss(l)
  BY <1>5, DropNext DEF PowerLoss, outside
<1>6. CASE Tick \/ UNCHANGED vars
  <2>1. UNCHANGED <<file, images, ledger, writing, holding, wire, receipts>>
    BY <1>6 DEF Tick, outside, vars
  <2> QED BY <2>1 DEF LInv, WireInv, IdentityNamesOneMessage, ImagesInv, WritingInv, OpenInv, HoldingInv
<1> QED
  BY <1>2, <1>3, <1>4, <1>5, <1>6, OpenNext, RenameNext, SyncNext, ObserveNext, NextNext,
     AcceptNext, NotAcceptedNext DEF Next

LEMMA LInvAlways == Spec => []LInv
BY LInvInit, LInvNext, PTL DEF Spec

-----------------------------------------------------------------------------
(* What the backend may have without our knowing it is pending in every    *)
(* ledger that a crash leaves, for any bound: eviction at the bound,       *)
(* acceptance and the three steps of commit() never lose it.               *)
THEOREM PostedTheorem == Spec => []PostedStaysPending
<1>1. LInv => PostedStaysPending
  <2> SUFFICES ASSUME LInv, NEW m \in wire \ receipts, NEW l \in images
               PROVE  l # None /\ \E i \in DOMAIN l.pending : l.pending[i].message = m
    BY DEF PostedStaysPending
  <2>1. Safe(l, wire, receipts)
    BY DEF LInv, ImagesInv
  <2>2. l \in Ledgers /\ l # None
    BY <2>1, LedgerAssumption DEF Safe
  <2>3. PICK i \in 1..Len(l.pending) : l.pending[i].message = m
    BY <2>1 DEF Safe, Holds
  <2>4. DOMAIN l.pending = 1..Len(l.pending)
    BY <2>2, EntryType, LenProperties
  <2> QED BY <2>2, <2>3, <2>4
<1> QED BY <1>1, LInvAlways, PTL

(* Over restarts, uncertain commits and lost generations no two messages   *)
(* reach the backend under one generation and sequence.                    *)
THEOREM IdentityTheorem == Spec => []IdentityNamesOneMessage
<1>1. LInv => IdentityNamesOneMessage
  BY DEF LInv, WireInv
<1> QED BY <1>1, LInvAlways, PTL

(* A message that reaches the backend for the first time is newer than     *)
(* all that reached it before.                                             *)
THEOREM OrderTheorem == Spec => FirstPostsInOrder
<1> DEFINE Ordered == \A m \in wire' \ wire, n \in wire : Below(n, m)
<1>1. LInv /\ [Next]_vars => [Ordered]_vars
  <2> SUFFICES ASSUME LInv, Next, wire' # wire PROVE Ordered
    BY DEF vars
  <2>1. /\ ledger # None /\ writing = None /\ holding # None
        /\ wire' = wire \cup {holding}
    BY DEF Next, Open, Rename, Sync, CommitFails, Exhausted, observe, next, accept, NotAccepted,
           Post, Tick, Kill, PowerLoss, outside
  <2>2. \A n \in wire : n = holding \/ Below(n, holding)
    BY <2>1, PostKeeps
  <2> QED BY <2>1, <2>2
<1>2. Spec => [][Ordered]_vars
  <2> HIDE DEF Ordered
  <2> QED BY <1>1, LInvAlways, PTL DEF Spec
<1> QED BY <1>2 DEF FirstPostsInOrder
=============================================================================
