---------------------------- MODULE FunctionFacts ---------------------------
(***************************************************************************)
(* What the service says of itself (class FunctionFacts and the content    *)
(* check of FunctionObservation, include/aosedge/function_observation.hpp). *)
(* The threads of the service set its parts through Runtime; the delivery  *)
(* thread takes a snapshot every five seconds.  A snapshot that fails the  *)
(* check throws, and the worker then drops its observations for good.      *)
(*                                                                         *)
(* Setters map a value of the facts to the next; texts, times and versions *)
(* are reduced to whether they are there.                                  *)
(***************************************************************************)
EXTENDS Integers

Null == "null"

Fresh ==
  [connection |-> "STARTING",
   input      |-> [state |-> "WAITING", reason |-> "AWAITING_INPUT"],
   activity   |-> [state |-> "WAITING", reason |-> "NOT_QUALIFIED", episodeId |-> Null],
   delivery   |-> [state |-> "IDLE", queued |-> 0],
   advisory   |-> [state |-> "WAITING", requestId |-> Null],
   lastResult |-> Null]

input(f, connection, state, reason) ==
  [f EXCEPT !.connection = connection, !.input = [state |-> state, reason |-> reason]]

activity(f, state, reason, id) ==
  [f EXCEPT !.activity = [state |-> state, reason |-> reason, episodeId |-> id]]

(* Only an episode under way is interrupted. *)
interruption(f, reason) ==
  IF f.activity.state \in {"PRE", "ACTIVE", "POST"}
  THEN activity(f, "SKIPPED", reason, f.activity.episodeId)
  ELSE f

advisory(f, state, request) ==
  [f EXCEPT !.advisory = [state |-> state, requestId |-> request]]

result(f, id) == [f EXCEPT !.lastResult = id]

(* The answer of the backend to one message of the outbox. *)
delivery(f, accepted, status) ==
  [f EXCEPT !.delivery.state =
     IF accepted THEN "PENDING"
     ELSE IF status \in {0, 408, 429} \/ status >= 500 THEN "RETRYING"
     ELSE "BLOCKED"]

snapshot(f, queued, blocked) ==
  [f EXCEPT !.delivery =
     [queued |-> queued,
      state  |-> IF blocked THEN "BLOCKED"
                 ELSE IF queued = 0 THEN "IDLE"
                 ELSE IF @.state = "IDLE" THEN "PENDING"
                 ELSE @.state]]

-----------------------------------------------------------------------------
(* content(): the closed vocabulary and the rules between fields, for the  *)
(* tire service, which always supports advisories.                         *)

Connections == {"STARTING", "CONNECTED", "REAUTHENTICATING", "DISCONNECTED", "ACCESS_DENIED"}

InputStates == {"WAITING", "RECEIVING", "STALE", "DISCONNECTED", "ACCESS_DENIED", "INVALID"}

InputReasons == {"NONE", "AWAITING_INPUT", "SOURCE_GAP", "INVALID_SAMPLE", "TRANSPORT_LOST",
                 "ACCESS_DENIED", "REAUTHENTICATING"}

ActivityReasons == {"NONE", "NOT_QUALIFIED", "INSUFFICIENT_SAMPLES", "INVALID_INPUT",
                    "SOURCE_DISCONTINUITY", "REAUTHENTICATING", "RESET", "STORAGE_UNAVAILABLE"}

content(c) ==
  /\ c.connection \in Connections
  /\ c.input.state \in InputStates /\ c.input.reason \in InputReasons
  /\ (c.input.state = "RECEIVING") = (c.input.reason = "NONE")
  /\ c.activity.state \in {"WAITING", "PRE", "ACTIVE", "POST", "COMPLETED", "SKIPPED"}
  /\ c.activity.reason \in ActivityReasons
  /\ c.activity.state = "SKIPPED" => c.activity.reason # "NONE"
  /\ c.delivery.state \in {"IDLE", "PENDING", "RETRYING", "BLOCKED"} /\ c.delivery.queued \in Nat
  /\ c.advisory.state \in {"WAITING", "CONFIRMED", "UNAVAILABLE", "REAUTHENTICATING"}
  /\ c.advisory.state = "CONFIRMED" => c.advisory.requestId # Null
=============================================================================
