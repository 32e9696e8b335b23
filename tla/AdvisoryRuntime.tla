-------------------------- MODULE AdvisoryRuntime ---------------------------
(***************************************************************************)
(* The product logic of class Runtime (src/runtime.cpp): assessed episodes *)
(* move the condition band, a changed band becomes an advisory request     *)
(* with its own sequence number, the request is resent until the Gateway   *)
(* answers and renewed as a lease, and a reset command from the demo       *)
(* backend clears the model and waits for a correlated CLEARED.            *)
(*                                                                         *)
(* Every method runs under Runtime::mutex_, so each is one action.  The    *)
(* store is taken as AtomicStore: a commit changes `st' at once.  A commit *)
(* that throws leaves `st' alone, but its journal may have become durable  *)
(* and then decides what the next start loads (`uncertain').               *)
(* Times are ages in ticks; the outbox is StateStore's subject.            *)
(***************************************************************************)
EXTENDS ConditionModel, FiniteSets

CONSTANTS
  Commands,       \* reset command identities
  Versions,       \* installed release / service instance
  None,
  Resend,         \* 1000 ms: an unanswered request is written again
  ResetRefresh,   \* 5000 ms: a pending CLEAR gets a new sequence
  LeaseRefresh,   \* 20000 ms: a warning is renewed
  ResetWindow,    \* 60000 ms: life of a reset command
  Lags,           \* ages an episode's end may have when it is applied
  GatewayStates,  \* the states the Gateway answers with
  MaxSeq,         \* bound: sequence numbers used
  MaxRestarts,    \* bound: process ends
  MaxFaults       \* bound: commits that throw

(* advisory_request, as far as the Gateway and the service tell two apart. *)
Requests == [seq: Nat, decision: Ids \cup Commands, band: RawBands, version: Versions]

(* ModelState after an episode. *)
Models == [band: RawBands, better: Bands, count: Int, last: Ids, recent: Seq(Ids)]

ASSUME TimingAssumption ==
  /\ Resend \in Nat \ {0} /\ ResetRefresh \in Nat /\ LeaseRefresh \in Nat
  /\ Resend <= ResetRefresh /\ ResetRefresh <= LeaseRefresh
  /\ Lags \subseteq 0..LeaseRefresh /\ Lags # {}
  /\ ResetWindow \in Nat /\ MaxSeq \in Nat /\ MaxRestarts \in Nat /\ MaxFaults \in Nat
  /\ None \notin Ids \cup Commands \cup Versions \cup (0..LeaseRefresh)
  /\ Ids \cap Commands = {}
  /\ GatewayStates \subseteq {"RECEIVED", "APPLIED", "CLEARED", "REJECTED", "EXPIRED", "FAILED"}
  /\ None \notin {"CLEARED", "REJECTED", "FAILED"}
  /\ None \notin Requests /\ None \notin Models

VARIABLES
  st,         \* the committed state document
  uncertain,  \* the document of a commit that threw, or None
  version,    \* metadata_ of the running process; None while it is down
  sent,       \* advisory_sent_
  refresh,    \* age of refresh_at_, None for -1
  written,    \* age of last_write_, None for -1
  ttl,        \* ticks until each command expires
  issued,     \* the version a command was issued for, None before
  target,     \* sequence of the request the broker now holds, 0 for none
  wire,       \* requests that reached the Gateway
  status,     \* the status value the broker now holds, or None
  cleared,    \* history: sequences the Gateway has answered CLEARED
  posted,     \* <<command, result>> seen by the demo backend
  consumed,   \* history: episodes that an assessment has counted
  restarts, faults

durable  == <<st, uncertain, faults>>
volatile == <<sent, refresh, written>>
outside  == <<ttl, issued, target, wire, status, cleared, posted>>
vars == <<st, uncertain, version, sent, refresh, written, ttl, issued, target,
          wire, status, cleared, posted, consumed, restarts, faults>>

(* advisory_request: CLEAR for Good, SET with a recommendation otherwise. *)
Request(seq, decision, band) ==
  [seq |-> seq, decision |-> decision, band |-> band, version |-> version]

Operation(req) == IF req.band = Good THEN "CLEAR" ELSE "SET"

reset_pending(s) == s.reset # None /\ s.reset.ack = None

Band(s) == IF s.model = None THEN NotEvaluated ELSE s.model.band

(* Age comparisons of the code: "unset, or at least d old". *)
Due(age, d) == age # None => age >= d

(* One store commit: it takes effect and `after' holds, or it throws and   *)
(* `thrown' says what the method had already changed in memory.  A throw   *)
(* while the journal is removed comes after the store adopted `next'; one  *)
(* before the journal is replaced leaves that of an earlier commit.        *)
Commit(next, after, thrown) ==
  \/ /\ st' = next /\ uncertain' = None /\ after
     /\ UNCHANGED faults
  \/ /\ faults < MaxFaults /\ faults' = faults + 1 /\ thrown
     /\ \/ uncertain' \in {next, uncertain} /\ UNCHANGED st
        \/ st' = next /\ uncertain' = None

(* Mutant of WithRequest: the sequence is not advanced. *)
WithRequestSameSequence(s, decision, band) ==
  [s EXCEPT !.req = Request(s.seq, decision, band), !.gw = {}]

(* A request with a fresh sequence. *)
WithRequest(s, decision, band) ==
  [s EXCEPT !.seq = @ + 1, !.req = Request(s.seq, decision, band), !.gw = {}]

(* Mutant of WriteModel: the model keeps the sequence of its last write. *)
WriteModelStale(s, m) == [s EXCEPT !.model = m]

(* write_model stores the model together with the sequence it belongs to. *)
WriteModel(s, m) == [s EXCEPT !.model = m, !.mirror = s.seq]

Up == version # None

InitialState == [seq |-> 1, model |-> None, mirror |-> 1, req |-> None,
                 gw |-> {}, reset |-> None]

-----------------------------------------------------------------------------
(* apply_episode. *)

Consumed(s) == IF s.reset = None \/ s.reset.previous = None THEN <<>> ELSE s.reset.previous

(* A model that starts after a reset inherits the episodes of the old one. *)
Base(s) == IF s.model # None THEN s.model ELSE [FreshModel EXCEPT !.recent = Consumed(s)]

Applicable(id) ==
  /\ Up /\ ~reset_pending(st)
  /\ ~Listed(Consumed(st), id) /\ ~Listed(Base(st).recent, id)

(* Mutant of Asks: only a worse band is announced. *)
AsksWhenWorse(old, new) == new > old /\ new # Good

(* A change asks for a new request, except the first verdict Good. *)
Asks(old, new) == new # old /\ ~(new = Good /\ old = NotEvaluated)

(* The in-memory schedule is reset before the commit is tried; the lease   *)
(* counts from the end of the episode in source time, some lag ago.        *)
apply_episode(id, raw) ==
  LET m    == Assess(Base(st), raw, id)
      ask  == Asks(Band(st), m.band)
      next == IF ask THEN WriteModel(WithRequest(st, id, m.band), m) ELSE WriteModel(st, m)
      plan == IF ask THEN sent' = FALSE /\ refresh' \in Lags /\ written' = None
                     ELSE UNCHANGED volatile
  IN  /\ Applicable(id) /\ next.seq <= MaxSeq
      /\ Commit(next, plan /\ consumed' = consumed \cup {id}, plan /\ UNCHANGED consumed)
      /\ UNCHANGED <<version, outside, restarts>>

-----------------------------------------------------------------------------
(* next_advisory: the request is durable before its bytes are returned;    *)
(* the write to the broker that follows may be lost.                       *)

Emit(req) == \/ wire' = wire \cup {req} /\ target' = req.seq
             \/ UNCHANGED <<wire, target>>

ResetAdvisory ==
  /\ Up /\ reset_pending(st) /\ ttl[st.reset.command] > 0 /\ Due(written, Resend)
  /\ IF Due(refresh, ResetRefresh)
     THEN LET next == WithRequest(st, st.reset.command, Good)
          IN  /\ next.seq <= MaxSeq
              /\ Commit(next, refresh' = 0 /\ written' = 0 /\ Emit(next.req),
                              UNCHANGED <<refresh, written, wire, target>>)
     ELSE written' = 0 /\ Emit(st.req) /\ UNCHANGED <<durable, refresh>>
  /\ UNCHANGED <<version, sent, ttl, issued, status, cleared, posted, consumed, restarts>>

LeaseRunning == st.req # None /\ refresh # None /\ refresh < LeaseRefresh

ResendAdvisory ==
  /\ Up /\ ~reset_pending(st) /\ st.model # None
  /\ LeaseRunning /\ ~sent /\ Due(written, Resend)
  /\ written' = 0 /\ Emit(st.req)
  /\ UNCHANGED <<durable, version, sent, refresh, ttl, issued, status, cleared, posted, consumed, restarts>>

RenewLease ==
  LET s    == WithRequest(st, st.model.last, st.model.band)
      next == WriteModel(s, st.model)
  IN  /\ Up /\ ~reset_pending(st) /\ st.model # None
      /\ ~LeaseRunning
      /\ ~(st.model.band = Good /\ (sent \/ st.req = None))
      /\ next.seq <= MaxSeq
      /\ Commit(next, refresh' = 0 /\ written' = 0 /\ sent' = FALSE /\ Emit(next.req),
                      UNCHANGED <<volatile, wire, target>>)
      /\ UNCHANGED <<version, ttl, issued, status, cleared, posted, consumed, restarts>>

-----------------------------------------------------------------------------
(* gateway_status. *)

Final == {"APPLIED", "CLEARED", "REJECTED", "FAILED"}

(* Mutant of Correlated: any status is taken for the current request. *)
CorrelatedLoosely(a) ==
  /\ Up /\ st.req # None
  /\ a.state = "APPLIED" => Operation(st.req) = "SET"
  /\ a.state = "CLEARED" => Operation(st.req) = "CLEAR"

(* requestId is derived from epoch and sequence, so the sequence decides;  *)
(* a state that contradicts the operation is refused.                      *)
Correlated(a) ==
  /\ Up /\ st.req # None /\ a.seq = st.req.seq
  /\ a.state = "APPLIED" => Operation(st.req) = "SET"
  /\ a.state = "CLEARED" => Operation(st.req) = "CLEAR"

ForReset == st.reset # None /\ st.req.decision = st.reset.command

ResetCleared(a) ==
  /\ Correlated(a) /\ ForReset /\ reset_pending(st) /\ a.state = "CLEARED"
  /\ Commit([st EXCEPT !.reset.ack = "CLEARED", !.gw = {"CLEARED"}],
            sent' = TRUE, UNCHANGED sent)
  /\ UNCHANGED <<version, refresh, written, outside, consumed, restarts>>

StatusRecorded(a) ==
  /\ Correlated(a) /\ ~ForReset /\ a.state \notin st.gw
  /\ Commit([st EXCEPT !.gw = @ \cup {a.state}],
            sent' = (sent \/ a.state \in Final), UNCHANGED sent)
  /\ UNCHANGED <<version, refresh, written, outside, consumed, restarts>>

gateway_status(a) == ResetCleared(a) \/ StatusRecorded(a)

-----------------------------------------------------------------------------
(* The demo control channel; one thread posts the result and then polls.   *)

(* The backend offers a command until it has seen a result for it. *)
Offered(c) == issued[c] # None /\ \A p \in posted : p[1] # c

(* Mutant of Cleared: the sequence starts again. *)
ClearedAfresh(s, c) == WithRequest([s EXCEPT !.seq = 1], c, Good)

(* The CLEAR that a reset asks for. *)
Cleared(s, c) == WithRequest(s, c, Good)

(* A command of another binding, an expired one, a repeated one and any    *)
(* while a reset is pending are refused without a change.                  *)
demo_control_command(c) ==
  LET next == [Cleared(st, c) EXCEPT !.model = None,
                 !.reset = [command |-> c, version |-> issued[c], ack |-> None,
                            previous |-> IF st.model = None THEN None ELSE st.model.recent,
                            delivered |-> FALSE]]
  IN  /\ Up /\ Offered(c) /\ issued[c] = version
      /\ st.reset # None => st.reset.command # c
      /\ ttl[c] > 0 /\ ~reset_pending(st)
      /\ next.seq <= MaxSeq
      /\ Commit(next, refresh' = 0 /\ written' = None /\ sent' = FALSE, UNCHANGED volatile)
      /\ UNCHANGED <<version, outside, consumed, restarts>>

(* Mutant of ExpireReset: an undelivered result expires as well. *)
ExpireResetAlways ==
  /\ Up /\ st.reset # None /\ ~st.reset.delivered /\ ttl[st.reset.command] = 0
  /\ st.reset.ack # "FAILED"
  /\ Commit([st EXCEPT !.reset.ack = "FAILED"], TRUE, TRUE)
  /\ UNCHANGED <<version, volatile, outside, consumed, restarts>>

(* Mutant of ExpireReset: only a request that was written can expire. *)
ExpireResetWritten ==
  /\ Up /\ reset_pending(st) /\ ttl[st.reset.command] = 0 /\ written # None
  /\ Commit([st EXCEPT !.reset.ack = "FAILED"], TRUE, TRUE)
  /\ UNCHANGED <<version, volatile, outside, consumed, restarts>>

(* demo_control_ack: a pending command that has expired becomes FAILED. *)
ExpireReset ==
  /\ Up /\ reset_pending(st) /\ ttl[st.reset.command] = 0
  /\ Commit([st EXCEPT !.reset.ack = "FAILED"], TRUE, TRUE)
  /\ UNCHANGED <<version, volatile, outside, consumed, restarts>>

(* The recorded result is posted; only a matching 200 marks it delivered   *)
(* (demo_control_accepted), otherwise the next round posts it again.       *)
PostResult(confirmed) ==
  /\ Up /\ st.reset # None /\ st.reset.ack # None /\ ~st.reset.delivered
  /\ posted' = posted \cup {<<st.reset.command, st.reset.ack>>}
  /\ IF confirmed THEN Commit([st EXCEPT !.reset.delivered = TRUE], TRUE, TRUE)
                  ELSE UNCHANGED durable
  /\ UNCHANGED <<version, volatile, ttl, issued, target, wire, status, cleared, consumed, restarts>>

-----------------------------------------------------------------------------
(* The process. *)

Stop ==
  /\ Up /\ restarts < MaxRestarts /\ restarts' = restarts + 1
  /\ version' = None
  /\ UNCHANGED <<durable, volatile, outside, consumed>>

Loadable(s) == ~Up /\ s \in {st, uncertain} \ {None}

Forget == sent' = FALSE /\ refresh' = None /\ written' = None

Foreign(v, s) == reset_pending(s) /\ s.reset.version # v

(* The constructor rejects a pending reset of another release or instance; *)
(* if that commit throws, so does the constructor.                         *)
Start(v, s) ==
  LET rejected == [s EXCEPT !.reset.ack = "REJECTED"]
  IN  /\ Loadable(s)
      /\ \/ /\ st' = (IF Foreign(v, s) THEN rejected ELSE s)
            /\ version' = v /\ uncertain' = None /\ UNCHANGED faults
         \/ /\ Foreign(v, s) /\ faults < MaxFaults /\ faults' = faults + 1
            /\ st' = s /\ uncertain' = rejected /\ UNCHANGED version
      /\ Forget /\ UNCHANGED <<outside, consumed, restarts>>

-----------------------------------------------------------------------------
(* The surroundings: time, the demo backend and the Gateway. *)

Older(age) == IF age = None \/ age = LeaseRefresh THEN age ELSE age + 1

Tick ==
  /\ refresh' = Older(refresh) /\ written' = Older(written)
  /\ ttl' = [c \in Commands |-> IF ttl[c] > 0 THEN ttl[c] - 1 ELSE 0]
  /\ <<refresh', written', ttl'>> # <<refresh, written, ttl>>
  /\ UNCHANGED <<durable, version, sent, issued, target, wire, status, cleared, posted, consumed, restarts>>

(* The backend answers a poll, so it binds a command to the polling release. *)
Issue(c) ==
  /\ Up /\ issued[c] = None
  /\ issued' = [issued EXCEPT ![c] = version]
  /\ ttl' = [ttl EXCEPT ![c] = ResetWindow]
  /\ UNCHANGED <<durable, version, volatile, target, wire, status, cleared, posted, consumed, restarts>>

(* The Gateway answers any request it has seen.  The broker keeps the last *)
(* status, which reaches the service late, repeatedly or never.            *)
Answer(req, state) ==
  /\ state = "APPLIED" => Operation(req) = "SET"
  /\ state = "CLEARED" => Operation(req) = "CLEAR"
  /\ status' = [seq |-> req.seq, state |-> state]
  /\ cleared' = IF state = "CLEARED" THEN cleared \cup {req.seq} ELSE cleared
  /\ UNCHANGED <<durable, version, volatile, ttl, issued, target, wire, posted, consumed, restarts>>

Init ==
  /\ st = InitialState /\ uncertain = None /\ version \in Versions
  /\ sent = FALSE /\ refresh = None /\ written = None
  /\ ttl = [c \in Commands |-> 0] /\ issued = [c \in Commands |-> None]
  /\ target = 0 /\ wire = {} /\ status = None /\ cleared = {} /\ posted = {} /\ consumed = {}
  /\ restarts = 0 /\ faults = 0

Advisory == ResetAdvisory \/ ResendAdvisory \/ RenewLease

Restart == \E v \in Versions, s \in {st, uncertain} : Start(v, s)

Next ==
  \/ \E id \in Ids, raw \in RawBands : apply_episode(id, raw)
  \/ Advisory
  \/ status # None /\ gateway_status(status)
  \/ \E c \in Commands : demo_control_command(c) \/ Issue(c)
  \/ ExpireReset
  \/ \E ok \in BOOLEAN : PostResult(ok)
  \/ Stop \/ Restart \/ Tick
  \/ \E req \in wire, state \in GatewayStates : Answer(req, state)

(* Time passes, the supervisor restarts the service and the control loop   *)
(* (every five seconds, grpc_main.cpp:137-149) keeps running.              *)
Spec == /\ Init /\ [][Next]_vars
        /\ WF_vars(Tick) /\ WF_vars(Restart) /\ WF_vars(ExpireReset)
-----------------------------------------------------------------------------
(* validate_state (state.cpp:81-133), the cross-field rules.  A document   *)
(* that broke one would make every later commit and every start fail.      *)
validate_state(s) ==
  /\ s.req # None => s.req.seq < s.seq
  /\ s.model # None => s.mirror = s.seq
  /\ s.reset # None => (s.reset.delivered => s.reset.ack # None)

(* Every document that the service stores, or may have stored when a       *)
(* commit threw, passes the check of the next start; and while a reset is  *)
(* pending there is no model, so no episode of before the command and no   *)
(* lease can speak, and a running process has the binding of the command.  *)
DocumentsAreSound ==
  /\ validate_state(st) /\ (uncertain # None => validate_state(uncertain))
  /\ reset_pending(st) => /\ st.model = None /\ st.req.decision = st.reset.command
                          /\ Up => st.reset.version = version

(* A sequence number names one request for ever: over crashes, failed      *)
(* commits and resets no two different requests reach the Gateway under    *)
(* the same number.                                                        *)
SequenceNamesOneRequest == \A r, q \in wire : r.seq = q.seq => r = q

(* The broker never goes back to an older request, which the Gateway would *)
(* refuse with SEQUENCE_ROLLBACK.                                          *)
SequenceNeverRollsBack == [][target' >= target]_vars

(* What the driver is told follows the model: with an evaluated model the  *)
(* current request shows its band; a warning is never without a request.   *)
RequestShowsBand ==
  st.model # None => /\ st.req = None => Band(st) = Good
                     /\ st.req # None => st.req.band = Band(st)

(* CLEARED is reported only when the Gateway answered a CLEAR that carried *)
(* that very command.                                                      *)
ClearedIsConfirmed ==
  st.reset # None /\ st.reset.ack = "CLEARED" =>
    \E r \in wire : r.seq \in cleared /\ r.decision = st.reset.command

(* The backend never sees two different results for one command. *)
OneResultPerCommand == \A p, q \in posted : p[1] = q[1] => p = q

(* A reset does not stay pending: it is confirmed, rejected or expires. *)
ResetResolves == reset_pending(st) ~> ~reset_pending(st)

(* "A reset never makes already consumed exercises new inputs." *)
ConsumedOnce ==
  [][(\E id \in consumed, raw \in RawBands : apply_episode(id, raw)) => st' = st]_vars
=============================================================================
