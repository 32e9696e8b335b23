------------------------ MODULE DeliveryWorkerProofs ------------------------
(***************************************************************************)
(* Proofs about DeliveryWorker for any outbox, any delays and any jitter:  *)
(* the Retry-After of an answer is kept, and a record is taken for         *)
(* delivered only when the backend has it.                                 *)
(***************************************************************************)
EXTENDS DeliveryWorker, TLAPS

Statuses == {"new", "queued", "blocked", "delivered"}

DTypeOK ==
  /\ record \in [Outbox -> Statuses]
  /\ attempt \in Nat /\ failures \in Nat
  /\ nextDelivery \in Nat /\ nextPost \in Nat
  /\ hold \in Nat /\ holdPost \in Nat

(* The wait of each stream covers what its last answer asked for, and a    *)
(* record is under way only when that wait is over.                        *)
WaitCoversHold ==
  /\ hold <= nextDelivery /\ holdPost <= nextPost
  /\ pc = "post" => nextDelivery = 0

-----------------------------------------------------------------------------
(* Least and greatest element of the sets that the delays are made of. *)
LEMMA MinOfTwo ==
  ASSUME NEW a \in Int, NEW b \in Int
  PROVE  Min({a, b}) \in {a, b} /\ Min({a, b}) <= a /\ Min({a, b}) <= b
<1>1. \E x \in {a, b} : \A y \in {a, b} : x <= y
  OBVIOUS
<1> QED BY <1>1 DEF Min

LEMMA MaxOfThree ==
  ASSUME NEW a \in Int, NEW b \in Int, NEW c \in Int
  PROVE  Max({a, b, c}) \in {a, b, c} /\ Max({a, b, c}) >= a /\ Max({a, b, c}) >= b
<1>1. \E x \in {a, b, c} : \A y \in {a, b, c} : x >= y
  <2>1. CASE a >= b /\ a >= c
    BY <2>1
  <2>2. CASE b >= a /\ b >= c
    BY <2>2
  <2>3. CASE c >= a /\ c >= b
    BY <2>3
  <2> QED BY <2>1, <2>2, <2>3
<1> QED BY <1>1 DEF Max

LEMMA BackoffType ==
  ASSUME NEW n \in Nat, NEW f \in Factors
  PROVE  Backoff(n, f) \in Int
<1>1. 2^n \in Int /\ MaxDelay \in Int /\ f \in Int
  BY DeliveryAssumption
<1> DEFINE e == 2^n
           m == Min({MaxDelay, e})
<1>2. m \in Int
  <2> HIDE DEF e
  <2> QED BY <1>1, MinOfTwo DEF e
<1>3. Backoff(n, f) = (m * f + 99) \div 100
  BY DEF Backoff
<1> HIDE DEF m
<1>4. m * f \in Int
  BY <1>1, <1>2
<1> QED BY <1>3, <1>4

(* retry_delay is never less than Retry-After. *)
LEMMA DelayCoversRetryAfter ==
  ASSUME NEW n \in Nat, NEW ra \in RetryAfters, NEW d \in Delays(n, ra)
  PROVE  d \in Nat /\ ra \in Nat /\ ra <= d
<1>1. PICK f \in Factors : d = retry_delay(n, f, ra)
  BY DEF Delays
<1>2. PICK k \in Int : k = Backoff(n, f)
  BY BackoffType
<1>3. PICK b \in Int : b = Min({MaxDelay, k})
  <2>1. MaxDelay \in Int
    BY DeliveryAssumption
  <2>2. Min({MaxDelay, k}) \in {MaxDelay, k}
    BY <2>1, MinOfTwo, Zenon
  <2> QED BY <2>1, <2>2
<1>4. d = Max({ra, 1, b})
  BY <1>1, <1>2, <1>3, Zenon DEF retry_delay
<1>5. ra \in Nat /\ ra \in Int /\ 1 \in Int
  BY DeliveryAssumption
<1>6. d \in {ra, 1, b} /\ d >= ra /\ d >= 1
  BY <1>4, <1>5, MaxOfThree, Zenon
<1> QED BY <1>5, <1>6

LEMMA AgainType == ASSUME NEW n \in Nat PROVE Again(n) \in Nat
<1>1. n + 1 \in Int /\ n + 1 \in Nat /\ MaxExponent \in Int /\ MaxExponent \in Nat
  BY DeliveryAssumption
<1>2. Min({n + 1, MaxExponent}) \in {n + 1, MaxExponent}
  BY <1>1, MinOfTwo, Zenon
<1> QED BY <1>1, <1>2 DEF Again

LEMMA AfterType ==
  ASSUME NEW answer, NEW status \in Statuses
  PROVE  /\ After(answer, status) \in Statuses
         /\ After(answer, status) = "delivered" => answer = "receipt" \/ status = "delivered"
BY DEF After, Statuses

-----------------------------------------------------------------------------
DInv == DTypeOK /\ WaitCoversHold /\ DeliveredIsStored

LEMMA DInvInit == DInit => DInv
BY DEF DInit, DInv, DTypeOK, WaitCoversHold, DeliveredIsStored, Statuses

(* What every exchange does to the record under way: nothing else becomes  *)
(* delivered, and the record only with the backend's copy.                 *)
LEMMA RecordsFollowBackend ==
  ASSUME record \in [Outbox -> Statuses], DeliveredIsStored, NEW answer, Stores(answer),
         record' = record \/ record' = [record EXCEPT ![current] = After(answer, @)]
  PROVE  record' \in [Outbox -> Statuses] /\ DeliveredIsStored'
<1>1. CASE record' = record
  BY <1>1 DEF Stores, DeliveredIsStored
<1>2. CASE record' = [record EXCEPT ![current] = After(answer, @)]
  <2>1. record' \in [Outbox -> Statuses]
    BY <1>2, AfterType
  <2>2. ASSUME NEW r \in Outbox, record'[r] = "delivered" PROVE r \in backend'
    <3>1. CASE r # current
      BY <1>2, <2>2, <3>1 DEF Stores, DeliveredIsStored
    <3>2. CASE r = current
      <4>1. record'[r] = After(answer, record[r]) /\ record[r] \in Statuses
        BY <1>2, <3>2
      <4>2. answer = "receipt" \/ record[r] = "delivered"
        BY <2>2, <4>1, AfterType
      <4> QED BY <3>2, <4>2 DEF Stores, DeliveredIsStored
    <3> QED BY <3>1, <3>2
  <2> QED BY <2>1, <2>2 DEF DeliveredIsStored
<1> QED BY <1>1, <1>2

LEMMA DInvNext == DInv /\ [DNext]_dvars => DInv'
<1> SUFFICES ASSUME DInv, [DNext]_dvars PROVE DInv'
  OBVIOUS
<1> USE DEF DInv, DTypeOK, WaitCoversHold
<1>1. CASE Observe
  <2>1. CASE UNCHANGED <<nextPost, failures, holdPost>> \/ (failures' = 0 /\ UNCHANGED <<nextPost, holdPost>>)
    BY <1>1, <2>1 DEF Observe, DeliveredIsStored
  <2>2. CASE \E ra \in RetryAfters : /\ failures' = Again(failures)
                                     /\ nextPost' \in Delays(failures, ra) /\ holdPost' = ra
    <3>1. failures' \in Nat /\ nextPost' \in Nat /\ holdPost' \in Nat /\ holdPost' <= nextPost'
      BY <2>2, AgainType, DelayCoversRetryAfter
    <3> QED BY <1>1, <3>1 DEF Observe, DeliveredIsStored
  <2> QED BY <1>1, <2>1, <2>2 DEF Observe
<1>2. CASE ObservationsEnd
  BY <1>2 DEF ObservationsEnd, DeliveredIsStored
<1>3. CASE Control
  BY <1>3 DEF Control, stream, DeliveredIsStored
<1>4. CASE NothingToDo
  BY <1>4 DEF NothingToDo, Pause, stream, DeliveredIsStored
<1>5. CASE Take
  BY <1>5 DEF Take, timers, DeliveredIsStored
<1>6. CASE Exchanges
  <2>1. PICK answer \in Answers, ra \in RetryAfters : Answered(answer, ra) /\ Stores(answer)
    BY <1>6 DEF Exchanges, Exchange
  <2>2. record' \in [Outbox -> Statuses] /\ DeliveredIsStored'
    BY <2>1, RecordsFollowBackend DEF Answered
  <2>3. CASE answer = "receipt"
    BY <2>1, <2>2, <2>3 DEF Answered, stream
  <2>4. CASE answer # "receipt"
    <3>1. attempt' = Again(attempt) /\ nextDelivery' \in Delays(attempt, ra) /\ hold' = ra
      BY <2>1, <2>4 DEF Answered
    <3>2. attempt' \in Nat /\ nextDelivery' \in Nat /\ hold' \in Nat /\ hold' <= nextDelivery'
      BY <3>1, AgainType, DelayCoversRetryAfter
    <3> QED BY <2>1, <2>2, <3>2 DEF Answered, stream
  <2> QED BY <2>3, <2>4
<1>7. CASE Resume
  BY <1>7 DEF Resume, timers, DeliveredIsStored
<1>8. CASE StorageFails
  <2>1. record' \in [Outbox -> Statuses] /\ DeliveredIsStored'
    <3>1. CASE UNCHANGED <<record, backend>>
      BY <3>1 DEF DeliveredIsStored
    <3>2. CASE \E answer \in Answers :
                 /\ record' \in {record, [record EXCEPT ![current] = After(answer, @)]}
                 /\ Stores(answer)
      BY <3>2, RecordsFollowBackend
    <3> QED BY <1>8, <3>1, <3>2 DEF StorageFails
  <2> QED BY <1>8, <2>1 DEF StorageFails, Pause, stream
<1>9. CASE Stop
  BY <1>9 DEF Stop, timers, DeliveredIsStored
<1>10. CASE Elapse
  BY <1>10 DEF Elapse, Down, DeliveredIsStored
<1>11. CASE \E r \in Outbox : Commit(r)
  BY <1>11 DEF Commit, timers, DeliveredIsStored, Statuses
<1>12. CASE UNCHANGED dvars
  BY <1>12 DEF dvars, DeliveredIsStored
<1> QED
  BY <1>1, <1>2, <1>3, <1>4, <1>5, <1>6, <1>7, <1>8, <1>9, <1>10, <1>11, <1>12 DEF DNext, Iteration

LEMMA DInvAlways == DSpec => []DInv
BY DInvInit, DInvNext, PTL DEF DSpec

(* No stream is posted to before the Retry-After of its last answer has    *)
(* passed, whatever the jitter, the number of failures and the longest     *)
(* back-off are (retry_delay and deliver, grpc_main.cpp).                  *)
THEOREM RetryAfterTheorem == DSpec => []RetryAfterKept
<1>1. DInv => RetryAfterKept
  BY DEF DInv, DTypeOK, WaitCoversHold, RetryAfterKept, PostDue
<1> QED BY <1>1, DInvAlways, PTL

(* accept removes a record only after the backend has stored it, also when *)
(* answers are lost or the store fails half way.                           *)
THEOREM DeliveredTheorem == DSpec => []DeliveredIsStored
<1>1. DInv => DeliveredIsStored
  BY DEF DInv
<1> QED BY <1>1, DInvAlways, PTL
=============================================================================
