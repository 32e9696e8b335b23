------------------------- MODULE ReadinessPublication -----------------------
(***************************************************************************)
(* Publication of the advisory readiness (the advisory thread of           *)
(* src/runtime/grpc_main.cpp with readiness_publication.hpp).  A session   *)
(* that has passed its Get runs one such thread.  A round of it sends what *)
(* next_advisory returns, which may throw, evaluates the live readiness    *)
(* and, when that is due, writes it to an actuator of the KUKSA broker.    *)
(* The answer to a write may be lost after the broker has taken the value. *)
(*                                                                         *)
(* next_attempt_ and next_heartbeat_ are kept as the time left to them.    *)
(***************************************************************************)
EXTENDS Integers

CONSTANTS
  Spacing,    \* 100 ms in the code: pause after an accepted write
  RetryWait,  \* 1000 ms: pause after any other write
  Heartbeat,  \* 5000 ms: an accepted value is repeated after this
  Unset       \* no value

ASSUME PublicationAssumption ==
  /\ Spacing \in Nat /\ RetryWait \in Nat /\ Heartbeat \in Nat
  /\ Spacing <= RetryWait /\ RetryWait <= Heartbeat /\ Unset \notin BOOLEAN

VARIABLES
  step,          \* of the advisory thread; "none" while no session has one
  ready,         \* what Runtime::advisory_readiness would return
  writing,       \* the value of the Set under way, or Unset
  accepted,      \* ReadinessPublication::accepted_
  nextAttempt,   \* time left to next_attempt_
  nextHeartbeat, \* time left to next_heartbeat_
  broker,        \* the actuator as other clients of the broker see it
  unaccepted     \* history: the last write of this session was not accepted

publication == <<accepted, nextAttempt, nextHeartbeat, unaccepted>>
pvars == <<step, ready, writing, broker, publication>>

Less(time) == IF time = 0 THEN 0 ELSE time - 1

(* Mutant of due: no heartbeat. *)
due_on_change(value) == nextAttempt = 0 /\ accepted # value

due(value) ==
  nextAttempt = 0 /\ (accepted = Unset \/ accepted # value \/ nextHeartbeat = 0)

completed(value, ok) ==
  /\ nextAttempt' = IF ok THEN Spacing ELSE RetryWait
  /\ IF ok THEN accepted' = value /\ nextHeartbeat' = Heartbeat
           ELSE UNCHANGED <<accepted, nextHeartbeat>>
  /\ unaccepted' = ~ok

-----------------------------------------------------------------------------
(* A session passes its Get, some time or never, and starts the thread. *)
SessionOpens ==
  /\ step = "none" /\ step' = "sleep"
  /\ UNCHANGED <<ready, writing, broker, publication>>

(* The thread looks at the end of the session between two rounds; a Set    *)
(* that was cancelled has completed by then.  Nothing of it is inherited.  *)
SessionEnds ==
  /\ step = "sleep" /\ step' = "none"
  /\ accepted' = Unset /\ nextAttempt' = 0 /\ nextHeartbeat' = 0 /\ unaccepted' = FALSE
  /\ UNCHANGED <<ready, writing, broker>>

NextRound ==
  /\ step = "sleep" /\ step' = "advisory"
  /\ UNCHANGED <<ready, writing, broker, publication>>

(* next_advisory may commit a request; it is sent, whatever comes of that. *)
AdvisoryPasses ==
  /\ step = "advisory" /\ step' = "readiness"
  /\ UNCHANGED <<ready, writing, broker, publication>>

(* next_advisory throws: the round ends before readiness is looked at. *)
AdvisoryThrows ==
  /\ step = "advisory" /\ step' = "sleep"
  /\ UNCHANGED <<ready, writing, broker, publication>>

Evaluate ==
  /\ step = "readiness"
  /\ IF due(ready) THEN step' = "set" /\ writing' = ready
                   ELSE step' = "sleep" /\ UNCHANGED writing
  /\ UNCHANGED <<ready, broker, publication>>

SetAccepted ==
  /\ step = "set" /\ step' = "sleep"
  /\ broker' = writing /\ completed(writing, TRUE)
  /\ writing' = Unset
  /\ UNCHANGED ready

(* Refused, timed out or cancelled: the value may have arrived or not. *)
SetUncertain ==
  /\ step = "set" /\ step' = "sleep"
  /\ broker' \in {broker, writing} /\ completed(writing, FALSE)
  /\ writing' = Unset
  /\ UNCHANGED ready

(* Frames arrive or stop arriving. *)
ReadinessChanges ==
  /\ ready' = ~ready
  /\ UNCHANGED <<step, writing, broker, publication>>

Tick ==
  /\ nextAttempt' = Less(nextAttempt) /\ nextHeartbeat' = Less(nextHeartbeat)
  /\ UNCHANGED <<step, ready, writing, broker, accepted, unaccepted>>

PInit ==
  /\ ready \in BOOLEAN /\ broker \in {Unset, TRUE, FALSE}
  /\ step = "none" /\ writing = Unset /\ accepted = Unset
  /\ nextAttempt = 0 /\ nextHeartbeat = 0 /\ unaccepted = FALSE

Round == NextRound \/ AdvisoryPasses \/ AdvisoryThrows \/ Evaluate \/ SetAccepted \/ SetUncertain

PNext == Round \/ SessionOpens \/ SessionEnds \/ ReadinessChanges \/ Tick

(* A thread that exists runs, for every Set has a deadline, and time       *)
(* passes.  That there is a session, that next_advisory does not throw and *)
(* that the broker accepts a write is not assumed.                         *)
PFairness == WF_pvars(Round) /\ WF_pvars(Tick)

PSpec == PInit /\ [][PNext]_pvars /\ PFairness

-----------------------------------------------------------------------------
StaleReady == broker = TRUE /\ ~ready

(* A readiness that the vehicle no longer has is withdrawn from the broker *)
(* whatever answers were lost and sessions replaced before, once a session *)
(* lasts, unless next_advisory throws or the broker refuses again and      *)
(* again: the heartbeat repairs what accepted_ hides.                      *)
StaleReadyEnds ==
  <>[](step # "none") /\ SF_pvars(AdvisoryPasses) /\ SF_pvars(SetAccepted)
    => (StaleReady ~> ~StaleReady)

(* "Unaccepted/uncertain writes retry after one second with the current    *)
(* value" (docs/advisory-demo-control.md:6): a round that looks at the     *)
(* readiness that long after such a write finds a write due.               *)
UncertainIsRetried == step = "readiness" /\ unaccepted /\ nextAttempt = 0 => due(ready)
=============================================================================
