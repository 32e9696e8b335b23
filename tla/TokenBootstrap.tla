---------------------------- MODULE TokenBootstrap --------------------------
(***************************************************************************)
(* The bootstrap process (src/runtime/bootstrap_main.cpp with TokenSession *)
(* and Lease): it asks the credential service (KAC) for tokens, keeps the  *)
(* current one in a private session directory for the service it started,  *)
(* and takes it away when its lease ends or access is denied.              *)
(*                                                                         *)
(* Instants are kept as the time left to them.  Two clocks matter: the     *)
(* boot clock runs with Tick, the wall clock may also jump.  An iteration  *)
(* of the loop reads both clocks first (Sample) and acts on them later.    *)
(***************************************************************************)
EXTENDS Integers

CONSTANTS
  MaxLife,      \* 300 s in the code: the longest token accepted
  RenewMargin,  \* 120 s: renewal is due this long before the expiry
  Delays,       \* retry_delay: 1 to 30 s in the code
  MaxSessions,  \* 8 in the code
  JumpSize,     \* by how much the wall clock may jump, either way
  MaxJumps,     \* bound: jumps of the wall clock in one process
  MaxRestarts,  \* bound: starts of the bootstrap after the first
  None

ASSUME BootstrapAssumption ==
  /\ MaxLife \in Nat /\ RenewMargin \in Nat /\ RenewMargin < MaxLife
  /\ Delays \subseteq Nat \ {0} /\ Delays # {}
  /\ MaxSessions \in Nat /\ MaxJumps \in Nat /\ MaxRestarts \in Nat
  /\ JumpSize \in Nat

VARIABLES
  phase,       \* inputs: waiting for files; loop, body: the two halves of an iteration;
               \* returning, unwinding, caught: on the way out; ended
  sessions,    \* session directories under the token root
  child,       \* the service process
  token,       \* the file in the directory made last: its lease when written and its age
  hasToken,    \* has_token
  lease,       \* time left to expires_wall and expires_boot
  wait,        \* time left to next_attempt
  issue,       \* the asynchronous request and its credential
  terminal,    \* access was denied for good
  skew,        \* how far the wall clock jumped since it was read
  interrupted, jumps, restarts,
  orphans,     \* services of killed processes that have not ended yet
  lost,        \* history: directories left by a kill or a failing unlink
  denied       \* history: KAC has refused this process for good

clock == <<skew, jumps>>
remains == <<lost, orphans>>
process == <<sessions, child, interrupted, restarts, remains>>
vars == <<phase, sessions, child, token, hasToken, lease, wait, issue, terminal, skew,
          interrupted, jumps, restarts, orphans, lost, denied>>

NoIssue == [state |-> "none", left |-> 0]
NoLease == [wall |-> 0, boot |-> 0]

Less(time) == IF time = 0 THEN 0 ELSE time - 1

(* The wall clock may be past an instant, and may jump back before it. *)
LessOnWall(time) == IF time <= -MaxLife THEN time ELSE time - 1

-----------------------------------------------------------------------------
(* The process begins and ends. *)

RoomForSession == sessions < MaxSessions

(* The TokenSession of the process exists. *)
HasSession == phase \in {"loop", "body", "returning", "unwinding"}

(* The files are there: the directory is made and the service started,     *)
(* unless fork or the environment fails.                                   *)
Begin ==
  /\ phase = "inputs" /\ ~interrupted /\ RoomForSession
  /\ sessions' = sessions + 1 /\ token' = None
  /\ \/ child' = "running" /\ phase' = "loop"
     \/ phase' = "unwinding" /\ UNCHANGED child
  /\ UNCHANGED <<hasToken, lease, wait, issue, terminal, clock, interrupted, restarts, remains, denied>>

(* Everything main() held goes with it. *)
Forget ==
  /\ phase' = "ended" /\ hasToken' = FALSE /\ lease' = NoLease /\ wait' = 0
  /\ issue' = NoIssue /\ terminal' = FALSE /\ denied' = FALSE
  /\ interrupted' = FALSE /\ skew' = 0 /\ jumps' = 0

(* The process ends before it has a session. *)
NoRoom ==
  /\ phase = "inputs" /\ ~RoomForSession /\ Forget
  /\ UNCHANGED <<sessions, child, token, restarts, remains>>

InterruptedEarly ==
  /\ phase = "inputs" /\ interrupted /\ Forget
  /\ UNCHANGED <<sessions, child, token, restarts, remains>>

(* remove_token, then return; a token that cannot be unlinked throws.      *)
Leave ==
  /\ \/ token' = None /\ phase' = "returning"
     \/ token # None /\ phase' = "unwinding" /\ UNCHANGED token
  /\ UNCHANGED <<hasToken, lease, wait, issue, terminal, clock, sessions, interrupted,
                 restarts, remains, denied>>

Stop == phase = "loop" /\ interrupted /\ Leave /\ UNCHANGED child

(* stop_child, before the destructors run. *)
StopChild ==
  /\ phase = "returning" /\ child # "none" /\ child' = "none"
  /\ UNCHANGED <<phase, sessions, token, hasToken, lease, wait, issue, terminal, clock,
                 interrupted, restarts, remains, denied>>

(* Local objects go in reverse order: the future waits for its request,    *)
(* then ~TokenSession unlinks the token and removes the directory; what it *)
(* cannot remove stays.                                                    *)
Destroy ==
  /\ phase = "unwinding" \/ (phase = "returning" /\ child = "none")
  /\ issue.state \notin {"asking", "answered"}
  /\ \/ sessions' = sessions - 1 /\ token' = None /\ UNCHANGED lost
     \/ lost' = lost + 1 /\ token' \in {None, token} /\ UNCHANGED sessions
  /\ IF phase = "returning" THEN Forget
     ELSE /\ phase' = "caught"
          /\ UNCHANGED <<hasToken, lease, wait, issue, terminal, clock, interrupted, denied>>
  /\ UNCHANGED <<child, restarts, orphans>>

(* Mutant of Catch: the service is left running. *)
CatchAndReturn ==
  /\ phase = "caught" /\ Forget /\ UNCHANGED <<sessions, child, token, restarts, remains>>

(* The catch of main stops the service, after everything else is gone. *)
Catch ==
  /\ phase = "caught" /\ Forget /\ child' = "none"
  /\ UNCHANGED <<sessions, token, restarts, remains>>

(* SIGKILL: the directory and the file in it stay, out of reach of the     *)
(* next process, which makes its own; the service gets SIGTERM.            *)
Kill ==
  /\ phase # "ended" /\ Forget
  /\ lost' = (IF HasSession THEN lost + 1 ELSE lost)
  /\ orphans' = (IF child = "running" THEN orphans + 1 ELSE orphans) /\ child' = "none"
  /\ UNCHANGED <<sessions, token, restarts>>

(* It ends when it has seen the signal (Session), before or after the next *)
(* process starts.                                                         *)
OrphanExits ==
  /\ orphans > 0 /\ orphans' = orphans - 1
  /\ UNCHANGED <<phase, sessions, child, token, hasToken, lease, wait, issue, terminal, clock,
                 interrupted, restarts, lost, denied>>

Restart ==
  /\ phase = "ended" /\ restarts < MaxRestarts /\ restarts' = restarts + 1
  /\ phase' = "inputs"
  /\ UNCHANGED <<sessions, child, token, hasToken, lease, wait, issue, terminal,
                 clock, interrupted, remains, denied>>

-----------------------------------------------------------------------------
(* One iteration of the loop. *)

Sample ==
  /\ phase = "loop" /\ ~interrupted
  /\ phase' = "body" /\ skew' = 0
  /\ UNCHANGED <<token, hasToken, lease, wait, issue, terminal, jumps, process, denied>>

Reap == phase = "body" /\ child = "exited" /\ child' = "none" /\ Leave

(* Mutant of Expired: only the wall clock is looked at. *)
ExpiredByWall == lease.wall + skew <= 0

(* Lease::expired, with the wall clock as it was when it was read. *)
Expired == lease.wall + skew <= 0 \/ lease.boot <= 0

Kept == hasToken /\ ~Expired

ExpireToken == token' = (IF Kept THEN token ELSE None) /\ hasToken' = Kept

(* What throws between two iterations leaves the loop. *)
Unwind ==
  /\ phase = "body" /\ child = "running" /\ phase' = "unwinding"
  /\ UNCHANGED <<token, hasToken, lease, wait, terminal, clock, process, denied>>

(* remove_token throws over an expired token. *)
ExpireThrows == hasToken /\ Expired /\ token # None /\ Unwind /\ UNCHANGED issue

Continue == phase = "body" /\ child = "running" /\ phase' = "loop" /\ skew' = 0

Again == issue' = NoIssue /\ wait' \in Delays

(* Nothing has come back; a request is begun when the time has come. *)
CollectNothing ==
  /\ issue.state \in {"none", "asking", "answered"} /\ Continue /\ ExpireToken
  /\ issue' = IF issue.state = "none" /\ ~terminal /\ wait = 0
              THEN [NoIssue EXCEPT !.state = "asking"] ELSE issue
  /\ UNCHANGED <<lease, wait, terminal, jumps, process, denied>>

(* Mutant of CollectFailure: the future is not consumed. *)
CollectFailureKeepsFuture ==
  /\ issue.state = "failed" /\ Continue /\ ExpireToken
  /\ UNCHANGED <<issue, wait, lease, terminal, jumps, process, denied>>

(* The exchange or parse_credential threw, or KAC asks to try later. *)
CollectFailure ==
  /\ issue.state = "failed" /\ Continue /\ ExpireToken /\ Again
  /\ UNCHANGED <<lease, terminal, jumps, process, denied>>

(* Lease::issued, from the clocks as they were read. *)
Granted == issue.left + skew

(* A credential can have aged, or the wall clock jumped, since it was parsed. *)
Fresh == Granted > RenewMargin

CollectToken ==
  /\ issue.state = "granted" /\ Fresh /\ Continue
  /\ token' = [grant |-> Granted, held |-> 0] /\ hasToken' = TRUE
  /\ lease' = [wall |-> issue.left, boot |-> Granted]
  /\ wait' = Granted - RenewMargin
  /\ issue' = NoIssue
  /\ UNCHANGED <<terminal, jumps, process, denied>>

(* The credential has expired since it was parsed, the token file cannot   *)
(* be written, or remove_token throws after a refusal.                     *)
CollectThrows ==
  /\ issue.state = "granted" \/ (issue.state = "denied" /\ token # None)
  /\ Unwind /\ issue' = NoIssue

(* Mutant of CollectDenial: any rejection is tried again. *)
CollectDenialRetries ==
  /\ issue.state = "denied" /\ Continue /\ ExpireToken /\ Again
  /\ UNCHANGED <<lease, terminal, jumps, process, denied>>

CollectDenial ==
  /\ issue.state = "denied" /\ Continue
  /\ token' = None /\ hasToken' = FALSE /\ terminal' = TRUE /\ issue' = NoIssue
  /\ UNCHANGED <<lease, wait, jumps, process, denied>>

-----------------------------------------------------------------------------
(* The request: KAC answers, then the answer is parsed. *)

KacGrants(life) ==
  /\ issue.state = "asking"
  /\ issue' = [state |-> "answered", left |-> life]
  /\ UNCHANGED <<phase, token, hasToken, lease, wait, terminal, clock, process, denied>>

KacRefuses ==
  /\ issue.state = "asking"
  /\ issue' = [NoIssue EXCEPT !.state = "denied"] /\ denied' = TRUE
  /\ UNCHANGED <<phase, token, hasToken, lease, wait, terminal, clock, process>>

KacFails ==
  /\ issue.state = "asking"
  /\ issue' = [NoIssue EXCEPT !.state = "failed"]
  /\ UNCHANGED <<phase, token, hasToken, lease, wait, terminal, clock, process, denied>>

Acceptable(left) == left > RenewMargin /\ left <= MaxLife

parse_credential ==
  /\ issue.state = "answered"
  /\ issue' = IF Acceptable(issue.left) THEN [issue EXCEPT !.state = "granted"]
                                        ELSE [NoIssue EXCEPT !.state = "failed"]
  /\ UNCHANGED <<phase, token, hasToken, lease, wait, terminal, clock, process, denied>>

-----------------------------------------------------------------------------
(* The clocks, the service and other instances. *)

Aged(t) == IF t = None THEN None
           ELSE [t EXCEPT !.held = IF @ > MaxLife + JumpSize * MaxJumps THEN @ ELSE @ + 1]

(* The expiry of a credential that was issued is an instant of the wall clock. *)
Issued == issue.state \in {"answered", "granted"}

Tick ==
  /\ phase # "body"
  /\ token' = Aged(token)
  /\ lease' = [wall |-> IF hasToken THEN LessOnWall(lease.wall) ELSE lease.wall,
                boot |-> Less(lease.boot)]
  /\ wait' = Less(wait)
  /\ issue' = [issue EXCEPT !.left = IF Issued THEN LessOnWall(@) ELSE @]
  /\ UNCHANGED <<phase, hasToken, terminal, clock, process, denied>>

(* The wall clock is set. *)
Jump(by) ==
  /\ phase \in {"loop", "body"} /\ jumps < MaxJumps /\ jumps' = jumps + 1
  /\ skew' = IF phase = "body" THEN skew + by ELSE 0
  /\ lease' = IF hasToken THEN [lease EXCEPT !.wall = @ - by] ELSE lease
  /\ issue' = IF Issued THEN [issue EXCEPT !.left = @ - by] ELSE issue
  /\ UNCHANGED <<phase, token, hasToken, wait, terminal, process, denied>>

ServiceExits ==
  /\ child = "running" /\ child' = "exited"
  /\ UNCHANGED <<phase, sessions, token, hasToken, lease, wait, issue, terminal, clock,
                 interrupted, restarts, remains, denied>>

Signal ==
  /\ phase # "ended" /\ ~interrupted /\ interrupted' = TRUE
  /\ UNCHANGED <<phase, sessions, child, token, hasToken, lease, wait, issue, terminal,
                 clock, restarts, remains, denied>>

Init ==
  /\ phase = "inputs" /\ sessions = 0 /\ child = "none"
  /\ token = None /\ hasToken = FALSE /\ lease = NoLease /\ wait = 0 /\ issue = NoIssue
  /\ terminal = FALSE /\ skew = 0 /\ interrupted = FALSE /\ jumps = 0 /\ restarts = 0
  /\ orphans = 0 /\ lost = 0 /\ denied = FALSE

Loop ==
  \/ Begin \/ NoRoom \/ InterruptedEarly \/ Sample \/ ExpireThrows
  \/ Stop \/ Reap \/ StopChild \/ Destroy \/ Catch
  \/ CollectNothing \/ CollectFailure \/ CollectToken \/ CollectThrows \/ CollectDenial

Request == \/ \E life \in 1..(MaxLife + 1) : KacGrants(life)
           \/ KacRefuses \/ KacFails \/ parse_credential

Next ==
  \/ Loop \/ Request \/ Tick \/ Kill \/ OrphanExits \/ Restart \/ ServiceExits \/ Signal
  \/ \E by \in {-JumpSize, JumpSize} : Jump(by)

(* The loop sleeps 100 ms and never blocks, the exchange has a deadline of *)
(* eight seconds, and time passes.  An iteration takes no time here, so    *)
(* Tick waits for its end: hence strong fairness.                          *)
Spec == Init /\ [][Next]_vars /\ WF_vars(Loop) /\ WF_vars(Request) /\ SF_vars(Tick)

-----------------------------------------------------------------------------
(* Every way out is clean: a process that ends by itself has stopped its   *)
(* service, and gives its directory back unless an unlink fails.  So the   *)
(* directories fill up, and a token outlives its process, only by kills    *)
(* and failing unlinks, whichever exception came when and however often    *)
(* the process restarted.                                                  *)
EndIsClean ==
  /\ phase = "ended" => child = "none"
  /\ sessions = lost + (IF HasSession THEN 1 ELSE 0)
  /\ token # None => sessions > 0

(* No iteration leaves a token in place that is older, by the boot clock,  *)
(* than the lease it was given, whatever the wall clock did meanwhile.     *)
LeaseIsKept ==
  [][phase = "body" /\ phase' = "loop" /\ token' # None => token'.held < token'.grant]_vars

(* A final refusal that the loop has seen is final for this process: no    *)
(* token stays or comes back and no further request is made; a token that  *)
(* cannot be removed ends the process.                                     *)
DenialIsFinal ==
  denied => \/ issue.state = "denied"
            \/ token = None /\ ~hasToken /\ issue.state = "none"
            \/ phase \in {"unwinding", "caught"} /\ issue.state = "none"

(* Requests go on for as long as the process lives and was not refused:    *)
(* a failure never leaves the service without a next attempt.              *)
RequestsGoOn ==
  []<>(issue.state = "asking" \/ terminal \/ phase \in {"inputs", "ended"})
=============================================================================
