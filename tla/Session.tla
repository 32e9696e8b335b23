------------------------------- MODULE Session ------------------------------
(***************************************************************************)
(* The authenticated KUKSA session of the service (subscribe and main in   *)
(* src/runtime/grpc_main.cpp, the input side of src/runtime.cpp).  The     *)
(* main thread reads three files, opens a session and ingests frames; a    *)
(* watcher thread compares the files with those of the session, cancels it *)
(* when they differ and expires input that has gone stale.  A session that *)
(* ends because the token alone was replaced is renewed and keeps the      *)
(* input of the old one; any other end disconnects.                        *)
(*                                                                         *)
(* Times are ages: a Tick makes everything older.  No thread is assumed to *)
(* be faster than a Tick.                                                  *)
(***************************************************************************)
EXTENDS Integers

CONSTANTS
  Tokens,        \* contents of the token file
  Contracts,     \* metadata files of this unit, by their VDP contract
  Alien,         \* a metadata file of another identity
  Authorities,   \* CA files
  Unsafe,        \* a token file with wrong owner, mode or contents
  None,          \* an absent file, no session, no input, no episode
  InputLimit,    \* 250 ms in the code: input older than this is stale
  ReadyLimit,    \* 5000 ms: readiness rests on a frame at most this old
  MaxChanges     \* bound: changes of the files in one behaviour

ASSUME SessionAssumption ==
  /\ InputLimit \in Nat /\ ReadyLimit \in Nat /\ MaxChanges \in Nat
  /\ Tokens # {} /\ Contracts # {} /\ Authorities # {}
  /\ None \notin Nat

VARIABLES
  files,       \* the token, metadata and CA files
  pc,          \* where the main thread is
  outcome,     \* how the session under way ends: an exception or a return
  sess,        \* the files this session was opened with
  channel,     \* SessionTransport: the CA of the channel kept, or None
  cause,       \* SessionInterruption::cause_
  invalid,     \* the session's contexts are cancelled
  watcher,     \* the step of the watcher thread
  seen,        \* the watcher's inspection, until it is recorded in cause
  found,       \* the same of the main thread, with the status of its call
  lag,         \* age of the clock value that expire_input was called with
  inputAge,    \* time since input_mono_
  telemetryAge,\* time since telemetry_at_
  contract,    \* metadata_.vdp_contract_*
  episode,     \* the contract under which the engine's episode began
  facts,       \* connection and input state of the function observation
  interrupted, \* SIGTERM was received
  changes,     \* changes of the files so far
  unavailable  \* history: an Unavailable was recorded in this session

input == <<inputAge, telemetryAge, episode, facts>>
session == <<sess, channel, cause, invalid, unavailable, seen, found>>
world == <<files, interrupted, changes>>
vars == <<files, pc, outcome, sess, channel, cause, invalid, watcher, seen, found, lag, inputAge,
          telemetryAge, contract, episode, facts, interrupted, changes, unavailable>>

Oldest == (IF InputLimit > ReadyLimit THEN InputLimit ELSE ReadyLimit) + 2

Older(age) == IF age = None \/ age = Oldest THEN age ELSE age + 1

Fact(connection, state) == [connection |-> connection, input |-> state]

-----------------------------------------------------------------------------
(* SessionInterruption and inspect_session_inputs. *)

Rank == [NONE |-> 0, TOKEN_REPLACED |-> 1, UNAVAILABLE |-> 2]

(* Mutant of observe: the latest classification wins. *)
observeLatest(previous, change) == change

observe(previous, change) == IF Rank[change] > Rank[previous] THEN change ELSE previous

inspect_session_inputs ==
  CASE files.token \in {None, Unsafe} \/ None \in {files.metadata, files.ca} -> "UNAVAILABLE"
    [] files.metadata # sess.metadata \/ files.ca # sess.ca                    -> "UNAVAILABLE"
    [] files.token # sess.token                                                -> "TOKEN_REPLACED"
    [] OTHER                                                                   -> "NONE"

(* What an inspection found is recorded in a step of its own. *)
Record(change) ==
  /\ cause' = observe(cause, change)
  /\ unavailable' = (unavailable \/ change = "UNAVAILABLE")

-----------------------------------------------------------------------------
(* The input operations of Runtime; each holds the mutex. *)

Discard == inputAge' = None /\ telemetryAge' = None /\ episode' = None

(* Mutant of disconnect: the telemetry stamp outlives the session. *)
disconnectStamped(fact) ==
  /\ inputAge' = None /\ episode' = None /\ UNCHANGED telemetryAge
  /\ facts' = fact

disconnect(fact) == Discard /\ facts' = fact

Expired == inputAge # None /\ inputAge - lag > InputLimit

(* Mutant of expire_input: the difference of the clocks is unsigned. *)
expire_input_unsigned ==
  IF inputAge # None /\ (inputAge - lag > InputLimit \/ inputAge < lag)
  THEN Discard /\ facts' = Fact("CONNECTED", "STALE")
  ELSE UNCHANGED input

(* The age is taken under the mutex from a clock value read before it: a   *)
(* frame accepted in between has a negative one.                           *)
expire_input == IF Expired THEN Discard /\ facts' = Fact("CONNECTED", "STALE")
                           ELSE UNCHANGED input

(* Mutant of update_vdp_metadata: the episode under way is kept. *)
update_vdp_metadata_keeping == contract' = files.metadata /\ UNCHANGED episode

(* A changed contract aborts the episode under way. *)
update_vdp_metadata ==
  /\ contract' = files.metadata
  /\ episode' = IF files.metadata = contract THEN episode ELSE None

-----------------------------------------------------------------------------
(* main: how a session ends. *)

subscription_failure_observation(code) ==
  CASE code = "KUKSA_AUTH_PENDING"     -> Fact("STARTING", "WAITING")
    [] code = "KUKSA_AUTH_UNAVAILABLE" -> Fact("ACCESS_DENIED", "ACCESS_DENIED")
    [] code = "VDP_INCOMPATIBLE"       -> Fact("DISCONNECTED", "INVALID")
    [] OTHER                           -> Fact("DISCONNECTED", "DISCONNECTED")

(* What subscribe() held in its locals goes with it. *)
SessionEnds ==
  /\ sess' = None /\ cause' = "NONE" /\ invalid' = FALSE /\ unavailable' = FALSE
  /\ watcher' = "off" /\ seen' = "NONE" /\ found' = None /\ outcome' = "CLOSED"

(* The handler of main.  Its last call commits a status message; if that   *)
(* throws, the exception leaves the loop and the process ends.             *)
Failed(code) ==
  /\ SessionEnds /\ channel' = None
  /\ disconnect(subscription_failure_observation(code))
  /\ pc' \in {"pause", "exit"}

(* subscribe() unwinds.  Until a destructor has set `finished' the watcher *)
(* may begin another round; it is joined when it finds it set.             *)
Leave(how) == pc' = "leaving" /\ outcome' = how

Unwind == /\ pc = "leaving" /\ pc' = "joining"
          /\ UNCHANGED <<outcome, session, watcher, lag, input, contract, world>>

Joined == pc = "joining" /\ watcher = "look"

LeaveRenewed ==
  /\ Joined /\ outcome = "KUKSA_REAUTHENTICATING"
  /\ SessionEnds /\ pc' = "start"
  /\ facts' = Fact("REAUTHENTICATING", "WAITING")
  /\ UNCHANGED <<channel, lag, inputAge, telemetryAge, contract, episode, world>>

LeaveClosed ==
  /\ Joined /\ outcome = "CLOSED"
  /\ SessionEnds /\ pc' = "pause" /\ channel' = None
  /\ UNCHANGED <<lag, input, contract, world>>

LeaveFailed ==
  /\ Joined /\ outcome \notin {"CLOSED", "KUKSA_REAUTHENTICATING"}
  /\ Failed(outcome)
  /\ UNCHANGED <<lag, contract, world>>

Pause == /\ pc = "pause" /\ pc' = "start"
         /\ UNCHANGED <<outcome, session, watcher, lag, input, contract, world>>

Stop == /\ pc = "start" /\ interrupted
        /\ pc' = "exit" /\ Discard
        /\ UNCHANGED <<outcome, session, watcher, lag, contract, facts, world>>

-----------------------------------------------------------------------------
(* subscribe: the metadata is read and applied first, then the CA and the  *)
(* token; nothing is watched until all of them are read.                   *)

ReadMetadata ==
  /\ pc = "start" /\ ~interrupted /\ files.metadata \in Contracts
  /\ update_vdp_metadata
  /\ sess' = [token |-> None, metadata |-> files.metadata, ca |-> None]
  /\ pc' = "token"
  /\ UNCHANGED <<outcome, channel, cause, invalid, watcher, lag, inputAge, telemetryAge,
                 facts, unavailable, seen, found, world>>

MetadataRefused ==
  /\ pc = "start" /\ ~interrupted /\ files.metadata \in {None, Alien}
  /\ Failed("STATE_INVALID")
  /\ UNCHANGED <<lag, contract, world>>

(* Mutant of TransportChannel: any channel at hand is reused. *)
TransportChannelAny(ca) == IF channel = None THEN ca ELSE channel

(* SessionTransport::channel keeps the channel only under the same CA. *)
TransportChannel(ca) == IF channel = ca THEN channel ELSE ca

Open ==
  /\ pc = "token" /\ files.ca # None /\ files.token \in Tokens
  /\ sess' = [sess EXCEPT !.token = files.token, !.ca = files.ca]
  /\ channel' = TransportChannel(files.ca)
  /\ cause' = "NONE" /\ invalid' = FALSE /\ unavailable' = FALSE
  /\ watcher' = "look" /\ pc' = "get"
  /\ UNCHANGED <<outcome, seen, found, lag, input, contract, world>>

CaRefused ==
  /\ pc = "token" /\ files.ca = None
  /\ Failed("INPUT_FILE_UNAVAILABLE")
  /\ UNCHANGED <<lag, contract, world>>

TokenRefused ==
  /\ pc = "token" /\ files.ca # None /\ files.token \notin Tokens
  /\ Failed(IF files.token = None THEN "KUKSA_AUTH_PENDING" ELSE "KUKSA_AUTH_UNAVAILABLE")
  /\ UNCHANGED <<lag, contract, world>>

-----------------------------------------------------------------------------
(* The Get that proves access, and the stream. *)

GetAnswered ==
  /\ pc = "get" /\ pc' = "read"
  /\ facts' = Fact("CONNECTED", "WAITING")
  /\ UNCHANGED <<outcome, session, watcher, lag, inputAge, telemetryAge, contract, episode, world>>

GetIncompatible ==
  /\ pc = "get" /\ Leave("VDP_INCOMPATIBLE")
  /\ UNCHANGED <<session, watcher, lag, input, contract, world>>

(* After a call has failed main inspects the files itself, records what it *)
(* found and looks at the cause, which has what the watcher recorded too.  *)
Inspects(status, to) ==
  /\ found' = [status |-> status, change |-> inspect_session_inputs] /\ pc' = to
  /\ UNCHANGED <<outcome, sess, channel, cause, invalid, unavailable, watcher, seen, lag, input, contract, world>>

GetFailed(status) == pc = "get" /\ Inspects(status, "refused")

(* A call that ended in one of these ways is a renewal only if the token,  *)
(* and nothing but the token, was ever recorded as changed.                *)
Renewable(statuses) == found.status \in statuses /\ cause' = "TOKEN_REPLACED" /\ ~interrupted

GetJudged ==
  /\ pc = "refused" /\ Record(found.change) /\ found' = None
  /\ Leave(CASE Renewable({"CANCELLED"})   -> "KUKSA_REAUTHENTICATING"
             [] found.status = "DENIED"    -> "KUKSA_AUTH_UNAVAILABLE"
             [] OTHER                      -> "KUKSA_DATA_UNAVAILABLE")
  /\ UNCHANGED <<sess, channel, invalid, watcher, seen, lag, input, contract, world>>

(* An update completes a frame.  The engine may begin, continue or end an  *)
(* episode; the frame's clock value was read before the mutex was taken.   *)
ingest(delay, next) ==
  /\ pc = "read" /\ ~interrupted /\ ~invalid
  /\ inputAge' = delay /\ facts' = Fact("CONNECTED", "RECEIVING")
  /\ episode' = next
  /\ pc' = "status"
  /\ UNCHANGED <<outcome, session, watcher, lag, telemetryAge, contract, world>>

(* function_status("READY") stamps the telemetry, then commits a message. *)
StatusReady ==
  /\ pc = "status" /\ telemetryAge' = 0
  /\ \/ pc' = "read" /\ UNCHANGED outcome
     \/ Leave("STATE_FILE_FAILED")
  /\ UNCHANGED <<session, watcher, lag, inputAge, episode, facts, contract, world>>

BadUpdate ==
  /\ pc = "read" /\ ~interrupted /\ ~invalid
  /\ Leave("KUKSA_DATA_UNAVAILABLE")
  /\ UNCHANGED <<session, watcher, lag, input, contract, world>>

StreamEnds ==
  /\ pc = "read" /\ pc' = "finish"
  /\ UNCHANGED <<outcome, session, watcher, lag, input, contract, world>>

Finish(status) == pc = "finish" /\ Inspects(status, "ended")

FinishJudged ==
  /\ pc = "ended" /\ Record(found.change) /\ found' = None
  /\ IF Renewable({"OK", "CANCELLED"})
     THEN Leave("KUKSA_REAUTHENTICATING") /\ UNCHANGED input
     ELSE Leave("CLOSED") /\ disconnect(Fact("DISCONNECTED", "DISCONNECTED"))
  /\ UNCHANGED <<sess, channel, invalid, watcher, seen, lag, contract, world>>

-----------------------------------------------------------------------------
(* The watcher thread. *)

(* Mutant of WatchInputs: only the files are watched. *)
WatchInputsIgnoringStop ==
  /\ watcher = "look" /\ pc # "joining" /\ watcher' = "record"
  /\ seen' = inspect_session_inputs
  /\ UNCHANGED <<pc, outcome, sess, channel, cause, invalid, unavailable, found, lag, input, contract, world>>

(* A stopping process is recorded at once, then the files are read. *)
WatchInputs ==
  /\ watcher = "look" /\ pc # "joining" /\ watcher' = "record"
  /\ IF interrupted THEN Record("UNAVAILABLE") ELSE UNCHANGED <<cause, unavailable>>
  /\ seen' = inspect_session_inputs
  /\ UNCHANGED <<pc, outcome, sess, channel, invalid, found, lag, input, contract, world>>

(* Mutant of WatchRecord: the change is noted, nothing is cancelled. *)
WatchRecordWithoutCancel ==
  /\ watcher = "record" /\ watcher' = "clock"
  /\ Record(seen) /\ seen' = "NONE"
  /\ UNCHANGED <<pc, outcome, sess, channel, invalid, found, lag, input, contract, world>>

WatchRecord ==
  /\ watcher = "record" /\ watcher' = "clock"
  /\ Record(seen) /\ seen' = "NONE"
  /\ invalid' = (invalid \/ cause' # "NONE")
  /\ UNCHANGED <<pc, outcome, sess, channel, found, lag, input, contract, world>>

WatchClock ==
  /\ watcher = "clock" /\ watcher' = "expire" /\ lag' = 0
  /\ UNCHANGED <<pc, outcome, session, input, contract, world>>

WatchExpire ==
  /\ watcher = "expire" /\ watcher' = "look" /\ lag' = 0 /\ expire_input
  /\ UNCHANGED <<pc, outcome, session, contract, world>>

-----------------------------------------------------------------------------
(* The bootstrap and the platform replace files; time passes. *)

ChangeFile(name, value) ==
  /\ changes < MaxChanges /\ changes' = changes + 1
  /\ files[name] # value
  /\ files' = [files EXCEPT ![name] = value]
  /\ UNCHANGED <<pc, outcome, session, watcher, lag, input, contract, interrupted>>

Signal ==
  /\ ~interrupted /\ interrupted' = TRUE
  /\ UNCHANGED <<pc, outcome, session, watcher, lag, input, contract, files, changes>>

Tick ==
  /\ inputAge' = Older(inputAge) /\ telemetryAge' = Older(telemetryAge)
  /\ lag' = IF watcher = "expire" THEN Older(lag) ELSE lag
  /\ UNCHANGED <<pc, outcome, session, watcher, contract, episode, facts, world>>

Init ==
  /\ \E t \in Tokens \cup {None}, m \in Contracts, a \in Authorities :
       files = [token |-> t, metadata |-> m, ca |-> a]
  /\ contract = files.metadata
  /\ pc = "start" /\ outcome = "CLOSED" /\ sess = None /\ channel = None
  /\ cause = "NONE" /\ invalid = FALSE /\ watcher = "off" /\ seen = "NONE" /\ found = None /\ lag = 0
  /\ inputAge = None /\ telemetryAge = None /\ episode = None
  /\ facts = Fact("STARTING", "WAITING")
  /\ interrupted = FALSE /\ changes = 0 /\ unavailable = FALSE

Main ==
  \/ Unwind \/ LeaveRenewed \/ LeaveClosed \/ LeaveFailed \/ Pause \/ Stop
  \/ ReadMetadata \/ MetadataRefused \/ Open \/ CaRefused \/ TokenRefused
  \/ GetAnswered \/ GetIncompatible \/ GetJudged \/ FinishJudged \/ StatusReady
  \/ \E status \in {"CANCELLED", "DENIED", "OTHER"} : GetFailed(status)
  \/ \E status \in {"OK", "CANCELLED", "OTHER"} : Finish(status)

Stream ==
  \/ StreamEnds \/ BadUpdate
  \/ \E delay \in 0..1, next \in {None, episode, contract} : ingest(delay, next)

Watcher == WatchInputs \/ WatchRecord \/ WatchClock \/ WatchExpire

World ==
  \/ \E t \in Tokens \cup {None, Unsafe} : ChangeFile("token", t)
  \/ \E m \in Contracts \cup {None, Alien} : ChangeFile("metadata", m)
  \/ \E a \in Authorities \cup {None} : ChangeFile("ca", a)
  \/ Signal \/ Tick

Next == Main \/ Stream \/ Watcher \/ World

(* The threads keep running.  Get has a deadline, so it returns; Read may  *)
(* wait for ever, unless the watcher has cancelled its context.            *)
Fairness == WF_vars(Main) /\ WF_vars(Watcher) /\ WF_vars(invalid /\ StreamEnds)

Spec == Init /\ [][Next]_vars /\ Fairness

-----------------------------------------------------------------------------
Renews == outcome # "KUKSA_REAUTHENTICATING" /\ outcome' = "KUKSA_REAUTHENTICATING"

(* Main decides on a renewal only if nothing recorded in this session, by  *)
(* either thread and main's own inspection included, was more than a       *)
(* replaced token: a token that vanished and came back, a changed CA or a  *)
(* stopping process ends the session for good (session_reconnect.hpp:33).  *)
RenewalIsTokenOnly == [][Renews => ~unavailable']_vars

(* What observe() says of itself: "restoration after a missing/unsafe file *)
(* may not reclassify a failed session as an uninterrupted planned         *)
(* renewal" (session_reconnect.hpp:33).  The watcher may have seen the     *)
(* missing file and not yet have recorded it.                              *)
RestorationNeverRenews == [][Renews => seen # "UNAVAILABLE"]_vars

(* The watcher discards input only when it is stale at that moment; its    *)
(* delayed decision never costs a newer frame (runtime.cpp:69).            *)
ExpiryIsDeserved ==
  [][watcher = "expire" /\ watcher' = "look" /\ inputAge # None /\ inputAge' = None
       => inputAge > InputLimit]_vars

(* An episode under way lives on input that has not expired and belongs to *)
(* one VDP contract, across renewals, failures and changed metadata.       *)
EpisodeIsContinuous == episode # None => inputAge # None /\ episode = contract

(* A session runs only over a channel that was verified against the CA it  *)
(* was opened with, however many renewals kept the channel.                *)
ChannelIsTrusted == sess # None /\ sess.ca # None => channel = sess.ca

(* A session whose files were replaced or removed ends, even when Get or   *)
(* Read never return by themselves.                                        *)
SessionFollowsFiles ==
  (sess # None /\ sess # files) ~> (sess = None \/ sess = files)

(* After SIGTERM the main thread ends. *)
StopsWhenAsked == interrupted ~> pc = "exit"

Ready == telemetryAge # None /\ telemetryAge <= ReadyLimit

(* What the service claims of its input is backed: RECEIVING by input that *)
(* has not expired, and readiness by a connection, whatever the watcher    *)
(* expired, whatever frame was under way and however the session ended.    *)
(* Until Get has passed, nothing but stale input goes with CONNECTED.      *)
ClaimsAreBacked ==
  /\ facts.input = "RECEIVING" => inputAge # None
  /\ Ready => facts.connection \in {"CONNECTED", "REAUTHENTICATING"}
  /\ pc \in {"get", "refused"} /\ facts.connection = "CONNECTED" => facts.input = "STALE"
=============================================================================
