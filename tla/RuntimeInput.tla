---------------------------- MODULE RuntimeInput ----------------------------
(***************************************************************************)
(* The input side of class Runtime (src/runtime.cpp): frames go through    *)
(* the episode engine, and every operation says in the function facts what *)
(* it did.  The main thread opens and closes sessions, ingests frames and  *)
(* applies finished episodes; the watcher expires input; the advisory and  *)
(* the delivery thread move the advisory facts and the reset.  Each method *)
(* holds Runtime::mutex_, so each is one action, and any method of another *)
(* thread may come between two of them.                                    *)
(*                                                                         *)
(* Session models when sessions end and input expires; here both may       *)
(* happen whenever the threads allow it.                                   *)
(***************************************************************************)
EXTENDS EpisodeEngine, FunctionFacts

VARIABLES
  facts,     \* function_
  stage,     \* the main thread: between sessions, opening, reading, assessing, failing, classified, stopped
  live,      \* input_mono_ >= 0
  store,     \* the store came up at the start
  reset,     \* reset_pending of the committed state
  serial,    \* identity of the episode that was opened last
  finished   \* the episode that ingest returned, until it is applied

engineVars == <<engine, history, emitted>>
runtime    == <<stage, live, store, reset, serial, finished>>
allVars    == <<vars, facts, stage, live, store, reset, serial, finished>>

(* uuid_() names episodes; two names tell an episode from the one before.  *)
Episodes == {"e1", "e2"}

Other(id) == CHOOSE e \in Episodes : e # id

activity_id == IF duration = None THEN Null ELSE serial

EngineRests == UNCHANGED engineVars

-----------------------------------------------------------------------------
(* ingest. *)

EngineStep == Gap \/ Repeat \/ \E kind \in Kinds, dt \in 1..MaxGap : ingest(kind, dt)

Opened == duration = None /\ (duration' # None \/ emitted' \in {"COMPLETE", "TRUNCATED_MAX_DURATION"})

Receiving == input(facts, "CONNECTED", "RECEIVING", "NONE")

FrameWithoutStore ==
  /\ stage = "reading" /\ ~store /\ live' = TRUE
  /\ facts' = activity(Receiving, "SKIPPED", "STORAGE_UNAVAILABLE", Null)
  /\ EngineRests /\ UNCHANGED <<stage, store, reset, serial, finished>>

FrameDuringReset ==
  /\ stage = "reading" /\ store /\ reset /\ live' = TRUE
  /\ facts' = activity(Receiving, "WAITING", "RESET", Null)
  /\ EngineRests /\ UNCHANGED <<stage, store, reset, serial, finished>>

(* An episode that ends is SKIPPED until apply_episode has counted it. *)
Frame ==
  /\ stage = "reading" /\ store /\ ~reset /\ live' = TRUE
  /\ EngineStep
  /\ serial' = IF Opened THEN Other(serial) ELSE serial
  /\ IF emitted' # None
     THEN /\ facts' = activity(Receiving, "SKIPPED",
                        IF emitted' = "INCOMPLETE_SOURCE_GAP" THEN "SOURCE_DISCONTINUITY"
                                                              ELSE "INSUFFICIENT_SAMPLES", serial')
          /\ finished' = [id |-> serial', terminal |-> emitted'] /\ stage' = "assessing"
     ELSE /\ facts' = IF duration' # None THEN activity(Receiving, "ACTIVE", "NONE", serial')
                                          ELSE activity(Receiving, "WAITING", "NOT_QUALIFIED", Null)
          /\ UNCHANGED <<finished, stage>>
  /\ UNCHANGED <<store, reset>>

(* apply_episode: committed, not committed for want of space, or refused   *)
(* before the commit: no features, a source gap, a pending reset, a        *)
(* repeated episode.                                                       *)
Assessed(outcome) ==
  CASE outcome = "published" -> result(activity(facts, "COMPLETED", "NONE", finished.id), finished.id)
    [] outcome = "committed" -> activity(facts, "COMPLETED", "NONE", finished.id)
    [] outcome = "no space"  -> activity(facts, "SKIPPED", "STORAGE_UNAVAILABLE", finished.id)
    [] outcome = "refused"   -> facts

apply_episode(outcome) ==
  /\ stage = "assessing" /\ finished # None
  /\ reset \/ finished.terminal = "INCOMPLETE_SOURCE_GAP" => outcome = "refused"
  /\ facts' = Assessed(outcome) /\ finished' = None /\ stage' = "reading"
  /\ EngineRests /\ UNCHANGED <<live, store, reset, serial>>

-----------------------------------------------------------------------------
(* Sessions: subscribe, its ends, and the watcher. *)

(* update_vdp_metadata: a changed contract aborts the episode under way    *)
(* and leaves the facts alone.                                             *)
Open(changed) ==
  /\ stage = "idle" /\ stage' = "opening"
  /\ IF changed THEN abort ELSE EngineRests
  /\ UNCHANGED <<facts, live, store, reset, serial, finished>>

input_observation(f, connection, state, reason) ==
  input(interruption(f, IF reason = "REAUTHENTICATING" THEN reason ELSE "SOURCE_DISCONTINUITY"),
        connection, state, reason)

(* Get has passed. *)
GetAnswered ==
  /\ stage = "opening" /\ stage' = "reading"
  /\ facts' = input_observation(facts, "CONNECTED", "WAITING", "AWAITING_INPUT")
  /\ EngineRests /\ UNCHANGED <<live, store, reset, serial, finished>>

InSession == stage \in {"opening", "reading", "assessing"}

expire_input ==
  /\ InSession /\ live /\ live' = FALSE
  /\ abort
  /\ facts' = input(interruption(facts, "SOURCE_DISCONTINUITY"), "CONNECTED", "STALE", "SOURCE_GAP")
  /\ UNCHANGED <<stage, store, reset, serial, finished>>

(* A planned token change keeps input and episode. *)
reauthenticate ==
  /\ stage \in {"opening", "reading"} /\ stage' = "idle"
  /\ facts' = advisory(input(facts, "REAUTHENTICATING", "WAITING", "REAUTHENTICATING"),
                       "REAUTHENTICATING", Null)
  /\ EngineRests /\ UNCHANGED <<live, store, reset, serial, finished>>

Disconnected(f) ==
  input(interruption(f, "SOURCE_DISCONTINUITY"), "DISCONNECTED", "DISCONNECTED", "TRANSPORT_LOST")

(* The stream ended. *)
disconnect ==
  /\ stage = "reading" /\ stage' = "idle" /\ live' = FALSE
  /\ abort /\ facts' = Disconnected(facts)
  /\ UNCHANGED <<store, reset, serial, finished>>

Failures == {<<"STARTING", "WAITING", "AWAITING_INPUT">>,
             <<"ACCESS_DENIED", "ACCESS_DENIED", "ACCESS_DENIED">>,
             <<"DISCONNECTED", "INVALID", "INVALID_SAMPLE">>,
             <<"DISCONNECTED", "DISCONNECTED", "TRANSPORT_LOST">>}

(* An exception reached main.  It disconnects, then sets the classified    *)
(* observation, then that of the advisory: three calls, between which the  *)
(* delivery thread may come.                                               *)
Fail ==
  /\ InSession \/ stage = "idle"
  /\ stage' = "failing" /\ live' = FALSE /\ finished' = None
  /\ abort /\ facts' = Disconnected(facts)
  /\ UNCHANGED <<store, reset, serial>>

Classify(o) ==
  /\ stage = "failing" /\ stage' = "classified"
  /\ facts' = input_observation(facts, o[1], o[2], o[3])
  /\ EngineRests /\ UNCHANGED <<live, store, reset, serial, finished>>

Report ==
  /\ stage = "classified" /\ stage' = "idle"
  /\ facts' = advisory(facts, "UNAVAILABLE", Null)
  /\ EngineRests /\ UNCHANGED <<live, store, reset, serial, finished>>

stop ==
  /\ stage = "idle" /\ stage' = "stopped" /\ live' = FALSE
  /\ abort /\ UNCHANGED <<facts, store, reset, serial, finished>>

-----------------------------------------------------------------------------
(* The advisory thread, the stream's Gateway statuses and the control loop. *)

Streaming == stage \in {"reading", "assessing"}

(* next_advisory returned a request to write. *)
AdvisoryWritten ==
  /\ Streaming /\ store
  /\ facts' = advisory(facts, "WAITING", "request")
  /\ EngineRests /\ UNCHANGED runtime

Shown(state) ==
  CASE state \in {"APPLIED", "CLEARED"} -> "CONFIRMED" [] state = "RECEIVED" -> "WAITING" [] OTHER -> "UNAVAILABLE"

(* Mutant of GatewayAnswered: the confirmed request is not named. *)
GatewayAnsweredUnnamed(state) ==
  /\ stage = "reading" /\ store /\ (reset => state = "CLEARED") /\ reset' = FALSE
  /\ facts' = advisory(facts, Shown(state), Null)
  /\ EngineRests /\ UNCHANGED <<stage, live, store, serial, finished>>

(* gateway_status recorded an answer to the current request; while a reset *)
(* is pending that is the request of the reset, and only CLEARED counts.   *)
GatewayAnswered(state) ==
  /\ stage = "reading" /\ store /\ (reset => state = "CLEARED") /\ reset' = FALSE
  /\ facts' = advisory(facts, Shown(state), "request")
  /\ EngineRests /\ UNCHANGED <<stage, live, store, serial, finished>>

(* Either of them threw. *)
AdvisoryFailed ==
  /\ Streaming /\ facts' = advisory(facts, "UNAVAILABLE", Null)
  /\ EngineRests /\ UNCHANGED runtime

(* Mutant of demo_control_command: only the engine is replaced. *)
demo_control_command_silent ==
  /\ stage # "stopped" /\ store /\ ~reset /\ reset' = TRUE
  /\ abort /\ UNCHANGED <<facts, stage, live, store, serial, finished>>

(* A reset was committed: the engine is replaced by a new one. *)
demo_control_command ==
  /\ stage # "stopped" /\ store /\ ~reset /\ reset' = TRUE
  /\ abort /\ facts' = activity(facts, "WAITING", "RESET", Null)
  /\ UNCHANGED <<stage, live, store, serial, finished>>

(* demo_control_ack: the reset has expired. *)
ResetExpires ==
  /\ stage # "stopped" /\ reset /\ reset' = FALSE
  /\ EngineRests /\ UNCHANGED <<facts, stage, live, store, serial, finished>>

(* accept: the backend answered a message of the outbox. *)
accept(accepted, status) ==
  /\ stage # "stopped" /\ store
  /\ facts' = delivery(facts, accepted, status)
  /\ EngineRests /\ UNCHANGED runtime

-----------------------------------------------------------------------------
RuntimeInit ==
  /\ Init
  /\ facts = Fresh /\ stage = "idle" /\ live = FALSE
  /\ store \in BOOLEAN /\ reset \in {FALSE, store}
  /\ serial = "e1" /\ finished = None

RuntimeNext ==
  \/ FrameWithoutStore \/ FrameDuringReset \/ Frame
  \/ \E outcome \in {"published", "committed", "no space", "refused"} : apply_episode(outcome)
  \/ \E changed \in BOOLEAN : Open(changed)
  \/ GetAnswered \/ expire_input \/ reauthenticate \/ disconnect \/ stop
  \/ Fail \/ Report \/ \E o \in Failures : Classify(o)
  \/ AdvisoryWritten \/ AdvisoryFailed
  \/ \E state \in {"RECEIVED", "APPLIED", "CLEARED", "REJECTED"} : GatewayAnswered(state)
  \/ demo_control_command \/ ResetExpires
  \/ accept(TRUE, 200) \/ \E status \in {0, 200, 400, 503} : accept(FALSE, status)

RuntimeSpec == RuntimeInit /\ [][RuntimeNext]_allVars

-----------------------------------------------------------------------------
(* Whatever order the threads set their facts in, the snapshot passes the  *)
(* check that observe() makes; a refused one would end all observations    *)
(* until the next start (grpc_main.cpp:134).                               *)
SnapshotIsValid == \A queued \in 0..1 : content(snapshot(facts, queued, ~store))

(* While input is RECEIVING the observation names the engine's open        *)
(* episode, and an episode only if one is open: over expiry, renewal,      *)
(* changed contracts, resets and finished episodes.                        *)
ActivityFollowsEngine ==
  facts.input.state = "RECEIVING" =>
    /\ (facts.activity.state = "ACTIVE") = (duration # None)
    /\ duration # None => facts.activity.episodeId = activity_id
=============================================================================
