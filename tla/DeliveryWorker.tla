--------------------------- MODULE DeliveryWorker ---------------------------
(***************************************************************************)
(* The delivery thread (deliver, src/runtime/grpc_main.cpp): one loop that *)
(* serves three streams to the backend, function observations, the demo    *)
(* control exchange and the outbox, each with its own next time.  Every    *)
(* exchange may be lost on the way there or on the way back.               *)
(*                                                                         *)
(* Instants are kept as the time left to them.  ObservationLedger models   *)
(* what observe, next and accept do; here only their outcomes matter.      *)
(***************************************************************************)
EXTENDS Integers, FiniteSets, FiniteSetsExt

CONSTANTS
  Outbox,       \* record names, as numbers: pending() takes the least
  MaxExponent,  \* 5 in the code: the back-off doubles this often
  MaxDelay,     \* 30 s: the longest back-off
  Factors,      \* 1 + jitter, in percent: 80 to 120
  RetryAfters,  \* values of the backend's Retry-After header, 0 for none
  Period,       \* 5 s: between two observations, and two control exchanges
  StoragePause, \* 1 s: after a failing store
  Nobody        \* no record

ASSUME DeliveryAssumption ==
  /\ Outbox \subseteq Nat
  /\ MaxExponent \in Nat /\ MaxDelay \in Nat \ {0}
  /\ Factors \subseteq Nat /\ Factors # {} /\ RetryAfters \subseteq Nat
  /\ Period \in Nat \ {0} /\ StoragePause \in Nat \ {0}

VARIABLES
  pc,           \* observe, control, outbox: the parts of an iteration; post, pause, stopped
  record,       \* per record: new, queued, blocked or delivered
  current,      \* the record being posted
  attempt,      \* failures in a row, as far as retry_delay tells them apart
  nextDelivery, nextControl, nextObservation,
  observations, \* the observation stream is still there
  failures,     \* observation_attempt
  nextPost,     \* next_observation_delivery
  pausing,      \* time left of a pause
  backend,      \* the records that the backend has stored
  hold,         \* history: time left of the Retry-After of an answer to the outbox
  holdPost      \* history: the same for the observations

dvars == <<pc, record, current, attempt, nextDelivery, nextControl, nextObservation,
           observations, failures, nextPost, pausing, backend, hold, holdPost>>

stream == <<observations, failures, nextPost, holdPost>>
timers == <<nextDelivery, nextControl, nextObservation, nextPost, pausing, hold, holdPost>>

(* Statuses with one name for each way the code treats them: no answer,    *)
(* a matching receipt, 200 with another body, a retryable and a final one. *)
Answers == {"none", "receipt", "other body", "retryable", "final"}

-----------------------------------------------------------------------------
Backoff(n, factor) == (Min({MaxDelay, 2^n}) * factor + 99) \div 100

(* Mutant of retry_delay: the longest back-off bounds Retry-After too. *)
retry_delay_clamped(n, factor, retryAfter) == Min({MaxDelay, Max({retryAfter, 1, Backoff(n, factor)})})

(* ceil(base * (1 + jitter)), at least 1 and at most MaxDelay, and never   *)
(* less than Retry-After.                                                  *)
retry_delay(n, factor, retryAfter) == Max({retryAfter, 1, Min({MaxDelay, Backoff(n, factor)})})

(* More failures than MaxExponent make no difference. *)
Again(n) == Min({n + 1, MaxExponent})

Delays(n, retryAfter) == {retry_delay(n, f, retryAfter) : f \in Factors}

-----------------------------------------------------------------------------
(* An iteration: observations, then control, then the outbox. *)

ObservationDue == observations /\ nextObservation = 0

PostDue == observations /\ nextPost = 0

(* observe every Period; then next, the exchange and accept when a post is *)
(* due and something is pending.  100 ms are less than a tick.             *)
Observe ==
  /\ pc = "observe" /\ pc' = "control"
  /\ nextObservation' = IF ObservationDue THEN Period ELSE nextObservation
  /\ \/ UNCHANGED <<nextPost, failures, holdPost>>
     \/ PostDue /\ failures' = 0 /\ UNCHANGED <<nextPost, holdPost>>
     \/ \E ra \in RetryAfters :
          /\ PostDue /\ failures' = Again(failures)
          /\ nextPost' \in Delays(failures, ra) /\ holdPost' = ra
  /\ UNCHANGED <<record, current, attempt, nextDelivery, nextControl, observations, pausing, backend, hold>>

(* An exception of the ledger ends the stream for good. *)
ObservationsEnd ==
  /\ pc = "observe" /\ (ObservationDue \/ PostDue) /\ pc' = "control"
  /\ observations' = FALSE /\ nextObservation' = 0 /\ nextPost' = 0 /\ failures' = 0 /\ holdPost' = 0
  /\ UNCHANGED <<record, current, attempt, nextDelivery, nextControl, pausing, backend, hold>>

(* Mutant of Control: an exception of the exchange leaves the thread. *)
ControlThrows ==
  /\ pc = "control" /\ pc' \in (IF nextControl = 0 THEN {"outbox", "gone"} ELSE {"outbox"})
  /\ nextControl' = IF nextControl = 0 THEN Period ELSE nextControl
  /\ UNCHANGED <<record, current, attempt, nextDelivery, nextObservation, stream, pausing, backend, hold>>

(* Acknowledgement and poll, whatever comes of them (AdvisoryRuntime). *)
Control ==
  /\ pc = "control" /\ pc' = "outbox"
  /\ nextControl' = IF nextControl = 0 THEN Period ELSE nextControl
  /\ UNCHANGED <<record, current, attempt, nextDelivery, nextObservation, stream, pausing, backend, hold>>

(* pending(): the first record without a marker. *)
Pending == {r \in Outbox : record[r] = "queued"}

Pause(time) == pc' = "pause" /\ pausing' = time

NothingToDo ==
  /\ pc = "outbox" /\ (nextDelivery > 0 \/ Pending = {})
  /\ attempt' = IF nextDelivery > 0 THEN attempt ELSE 0
  /\ Pause(1)
  /\ UNCHANGED <<record, current, nextDelivery, nextControl, nextObservation, stream, backend, hold>>

Take ==
  /\ pc = "outbox" /\ nextDelivery = 0 /\ Pending # {}
  /\ pc' = "post" /\ current' = Min(Pending)
  /\ UNCHANGED <<record, attempt, timers, observations, failures, backend>>

(* Mutant of After: any answer with a successful status is a receipt. *)
AfterAnyBody(answer, status) ==
  CASE answer \in {"receipt", "other body"} -> "delivered" [] answer = "final" -> "blocked" [] OTHER -> status

(* accept: a receipt removes the record, a final status marks it, anything *)
(* else leaves it.                                                         *)
After(answer, status) ==
  CASE answer = "receipt" -> "delivered" [] answer = "final" -> "blocked" [] OTHER -> status

Answered(answer, retryAfter) ==
  /\ pc = "post" /\ pc' = "observe" /\ current' = Nobody
  /\ record' = [record EXCEPT ![current] = After(answer, @)]
  /\ IF answer = "receipt"
     THEN attempt' = 0 /\ UNCHANGED <<nextDelivery, hold>>
     ELSE /\ attempt' = Again(attempt) /\ nextDelivery' \in Delays(attempt, retryAfter)
          /\ hold' = retryAfter
  /\ UNCHANGED <<nextControl, nextObservation, stream, pausing>>

(* What the backend did before it answered, or failed to. *)
Stores(answer) ==
  backend' \in IF answer = "receipt" THEN {backend \cup {current}} ELSE {backend, backend \cup {current}}

Exchange(answer, retryAfter) ==
  /\ answer \in {"none", "receipt"} => retryAfter = 0
  /\ Answered(answer, retryAfter) /\ Stores(answer)

(* next_message or accept throws and the loop pauses.  accept may already  *)
(* have removed or marked the record when its sync fails.                  *)
StorageFails ==
  /\ \/ /\ pc = "outbox" /\ nextDelivery = 0 /\ UNCHANGED <<record, backend>>
     \/ /\ pc = "post"
        /\ \E answer \in Answers : /\ record' \in {record, [record EXCEPT ![current] = After(answer, @)]}
                                  /\ Stores(answer)
  /\ current' = Nobody /\ Pause(StoragePause)
  /\ UNCHANGED <<attempt, nextDelivery, nextControl, nextObservation, stream, hold>>

Resume ==
  /\ pc = "pause" /\ pausing = 0 /\ pc' = "observe"
  /\ UNCHANGED <<record, current, attempt, timers, observations, failures, backend>>

Stop ==
  /\ pc = "observe" /\ pc' = "stopped"
  /\ UNCHANGED <<record, current, attempt, timers, observations, failures, backend>>

-----------------------------------------------------------------------------
(* The other threads commit records; time passes. *)

Commit(r) ==
  /\ record[r] = "new" /\ record' = [record EXCEPT ![r] = "queued"]
  /\ UNCHANGED <<pc, current, attempt, timers, observations, failures, backend>>

Down(time) == IF time = 0 THEN 0 ELSE time - 1

Elapse ==
  /\ nextDelivery' = Down(nextDelivery) /\ nextControl' = Down(nextControl)
  /\ nextObservation' = Down(nextObservation) /\ nextPost' = Down(nextPost)
  /\ pausing' = Down(pausing) /\ hold' = Down(hold) /\ holdPost' = Down(holdPost)
  /\ timers' # timers
  /\ UNCHANGED <<pc, record, current, attempt, observations, failures, backend>>

DInit ==
  /\ pc = "observe" /\ record \in [Outbox -> {"new", "queued", "blocked"}] /\ current = Nobody
  /\ attempt = 0 /\ nextDelivery = 0 /\ nextControl = 0 /\ nextObservation = 0
  /\ observations \in BOOLEAN /\ failures = 0 /\ nextPost = 0 /\ pausing = 0 /\ backend = {}
  /\ hold = 0 /\ holdPost = 0

Exchanges == \E answer \in Answers, ra \in RetryAfters : Exchange(answer, ra)

Iteration == Observe \/ ObservationsEnd \/ Control \/ NothingToDo \/ Take \/ Exchanges \/ Resume

DNext == Iteration \/ StorageFails \/ Stop \/ Elapse \/ \E r \in Outbox : Commit(r)

(* Every exchange has a deadline, so the thread goes on, and time passes.  *)
(* What the backend answers and whether the store fails is left open.      *)
DFairness == WF_dvars(Iteration) /\ WF_dvars(Elapse)

DSpec == DInit /\ [][DNext]_dvars /\ DFairness

-----------------------------------------------------------------------------
(* No record is posted before the Retry-After of the last answer to its    *)
(* stream has passed, not by a smaller back-off and not by another record; *)
(* only an answer that a failing store kept from being recorded is lost.   *)
RetryAfterKept == /\ pc = "post" => hold = 0
                  /\ PostDue => holdPost = 0

(* A record leaves the outbox only when the backend has stored it: no      *)
(* other body, lost answer or failing store passes for a receipt.          *)
DeliveredIsStored == \A r \in Outbox : record[r] = "delivered" => r \in backend

Retried(r) ==
  /\ pc = "post" /\ current = r
  /\ \E answer \in Answers \ {"receipt", "final"}, ra \in RetryAfters : Exchange(answer, ra)

(* A record waits for ever only for the backend or the store: it, or a     *)
(* record before it, is answered again and again with neither a receipt    *)
(* nor a refusal, or the store fails again and again.  A refused head, a   *)
(* dead observation stream or a throwing control exchange never holds it   *)
(* up.                                                                     *)
EveryRecordSettles ==
  \A r \in Outbox :
    \/ record[r] = "queued" ~> (record[r] # "queued" \/ pc = "stopped")
    \/ \E h \in {o \in Outbox : o <= r} : []<><<Retried(h)>>_dvars
    \/ []<><<StorageFails>>_dvars
=============================================================================
