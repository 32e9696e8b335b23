------------------------ MODULE TokenBootstrapProofs ------------------------
(***************************************************************************)
(* Proofs about TokenBootstrap for any lifetimes, jumps of the clock and   *)
(* number of sessions: every way out is clean, a token never outlives its  *)
(* lease by the boot clock, and a refusal is final.                        *)
(***************************************************************************)
EXTENDS TokenBootstrap, TLAPS

IssueStates == {"none", "asking", "answered", "granted", "denied", "failed"}

TypeOK ==
  /\ token = None \/ token \in [grant: Int, held: Int]
  /\ lease \in [wall: Int, boot: Nat]
  /\ issue \in [state: IssueStates, left: Int]
  /\ skew \in Int /\ sessions \in Int /\ lost \in Int /\ orphans \in Int

(* Who still holds what in each phase: the session directory from Begin to *)
(* Destroy, the service until it was stopped; a token is in a directory.   *)
PhaseInv ==
  /\ phase \in {"inputs", "ended"} => child = "none"
  /\ sessions = lost + (IF HasSession THEN 1 ELSE 0)
  /\ lost >= 0 /\ (token # None => sessions > 0)

(* The token's age and what is left of its lease add up to the grant. *)
LeaseInv ==
  hasToken /\ token # None /\ lease.boot > 0 => token.held + lease.boot <= token.grant

(* Once the loop has seen the refusal, it never asks again. *)
DenialInv ==
  denied => \/ issue.state = "denied"
            \/ terminal /\ token = None /\ ~hasToken /\ issue.state = "none"
            \/ phase \in {"unwinding", "caught"} /\ issue.state = "none"

BInv == TypeOK /\ PhaseInv /\ LeaseInv /\ DenialInv

-----------------------------------------------------------------------------
LEMMA BInvInit == Init => BInv
BY DEF Init, BInv, TypeOK, PhaseInv, HasSession, LeaseInv, DenialInv, NoLease, NoIssue, IssueStates

(* Every step keeps the types. *)
LEMMA TypeNext == ASSUME TypeOK, [Next]_vars PROVE TypeOK'
<1> USE BootstrapAssumption DEF TypeOK, IssueStates, NoIssue, NoLease
<1>1. CASE Begin
  BY <1>1 DEF Begin, RoomForSession, clock, remains
<1>2. CASE NoRoom
  BY <1>2 DEF NoRoom, Forget, remains
<1>3. CASE InterruptedEarly
  BY <1>3 DEF InterruptedEarly, Forget, remains
<1>4. CASE Sample
  BY <1>4 DEF Sample, process, remains
<1>5. CASE ExpireThrows
  BY <1>5 DEF ExpireThrows, Unwind, clock, process, remains
<1>6. CASE Stop
  BY <1>6 DEF Stop, Leave, clock, remains
<1>7. CASE Reap
  BY <1>7 DEF Reap, Leave, clock, remains
<1>8. CASE StopChild
  BY <1>8 DEF StopChild, clock, remains
<1>9. CASE Destroy
  BY <1>9 DEF Destroy, Forget, clock
<1>10. CASE Catch
  BY <1>10 DEF Catch, Forget, remains
<1>11. CASE CollectNothing
  BY <1>11 DEF CollectNothing, Continue, ExpireToken, Kept, Expired, process, remains
<1>12. CASE CollectFailure
  BY <1>12 DEF CollectFailure, Continue, ExpireToken, Kept, Expired, Again, process, remains
<1>13. CASE CollectToken
  BY <1>13 DEF CollectToken, Continue, Fresh, Granted, process, remains
<1>14. CASE CollectThrows
  BY <1>14 DEF CollectThrows, Unwind, clock, process, remains
<1>15. CASE CollectDenial
  BY <1>15 DEF CollectDenial, Continue, process, remains
<1>16. CASE \E life \in 1..(MaxLife + 1) : KacGrants(life)
  BY <1>16 DEF KacGrants, clock, process, remains
<1>17. CASE KacRefuses
  BY <1>17 DEF KacRefuses, clock, process, remains
<1>18. CASE KacFails
  BY <1>18 DEF KacFails, clock, process, remains
<1>19. CASE parse_credential
  BY <1>19 DEF parse_credential, clock, process, remains
<1>20. CASE Tick
  BY <1>20 DEF Tick, Aged, Less, LessOnWall, Issued, clock, process, remains
<1>21. CASE Kill
  BY <1>21 DEF Kill, Forget, HasSession
<1>22. CASE Restart
  BY <1>22 DEF Restart, clock, remains
<1>23. CASE ServiceExits
  BY <1>23 DEF ServiceExits, clock, remains
<1>24. CASE Signal
  BY <1>24 DEF Signal, clock, remains
<1>25. CASE \E by \in {-JumpSize, JumpSize} : Jump(by)
  BY <1>25 DEF Jump, Issued, process, remains
<1>26. CASE UNCHANGED vars
  BY <1>26 DEF vars
<1>27. CASE OrphanExits
  BY <1>27 DEF OrphanExits, clock
<1> QED
  BY <1>1, <1>2, <1>3, <1>4, <1>5, <1>6, <1>7, <1>8, <1>9, <1>10, <1>11, <1>12, <1>13, <1>14, <1>15, <1>16, <1>17, <1>18, <1>19, <1>20, <1>21, <1>22, <1>23, <1>24, <1>25, <1>26, <1>27 DEF Next, Loop, Request

(* Every step, among them each way out, hands over what the phase owns. *)
LEMMA PhaseNext == ASSUME TypeOK, PhaseInv, [Next]_vars PROVE PhaseInv'
<1> USE DEF TypeOK, PhaseInv, HasSession
<1>1. CASE Begin
  BY <1>1 DEF Begin, RoomForSession, clock, remains
<1>2. CASE NoRoom
  BY <1>2 DEF NoRoom, Forget, remains
<1>3. CASE InterruptedEarly
  BY <1>3 DEF InterruptedEarly, Forget, remains
<1>4. CASE Sample
  BY <1>4 DEF Sample, process, remains
<1>5. CASE ExpireThrows
  BY <1>5 DEF ExpireThrows, Unwind, clock, process, remains
<1>6. CASE Stop
  BY <1>6 DEF Stop, Leave, clock, remains
<1>7. CASE Reap
  BY <1>7 DEF Reap, Leave, clock, remains
<1>8. CASE StopChild
  BY <1>8 DEF StopChild, clock, remains
<1>9. CASE Destroy
  BY <1>9 DEF Destroy, Forget, clock
<1>10. CASE Catch
  BY <1>10 DEF Catch, Forget, remains
<1>11. CASE CollectNothing
  BY <1>11 DEF CollectNothing, Continue, ExpireToken, Kept, Expired, process, remains
<1>12. CASE CollectFailure
  BY <1>12 DEF CollectFailure, Continue, ExpireToken, Kept, Expired, Again, process, remains
<1>13. CASE CollectToken
  BY <1>13 DEF CollectToken, Continue, Fresh, Granted, process, remains
<1>14. CASE CollectThrows
  BY <1>14 DEF CollectThrows, Unwind, clock, process, remains
<1>15. CASE CollectDenial
  BY <1>15 DEF CollectDenial, Continue, process, remains
<1>16. CASE \E life \in 1..(MaxLife + 1) : KacGrants(life)
  BY <1>16 DEF KacGrants, clock, process, remains
<1>17. CASE KacRefuses
  BY <1>17 DEF KacRefuses, clock, process, remains
<1>18. CASE KacFails
  BY <1>18 DEF KacFails, clock, process, remains
<1>19. CASE parse_credential
  BY <1>19 DEF parse_credential, clock, process, remains
<1>20. CASE Tick
  BY <1>20 DEF Tick, Aged, Less, LessOnWall, Issued, clock, process, remains
<1>21. CASE Kill
  BY <1>21 DEF Kill, Forget, HasSession
<1>22. CASE Restart
  BY <1>22 DEF Restart, clock, remains
<1>23. CASE ServiceExits
  BY <1>23 DEF ServiceExits, clock, remains
<1>24. CASE Signal
  BY <1>24 DEF Signal, clock, remains
<1>25. CASE \E by \in {-JumpSize, JumpSize} : Jump(by)
  BY <1>25 DEF Jump, Issued, process, remains
<1>26. CASE UNCHANGED vars
  BY <1>26 DEF vars
<1>27. CASE OrphanExits
  BY <1>27 DEF OrphanExits, clock
<1> QED
  BY <1>1, <1>2, <1>3, <1>4, <1>5, <1>6, <1>7, <1>8, <1>9, <1>10, <1>11, <1>12, <1>13, <1>14, <1>15, <1>16, <1>17, <1>18, <1>19, <1>20, <1>21, <1>22, <1>23, <1>24, <1>25, <1>26, <1>27 DEF Next, Loop, Request

(* Time is charged to the token and to its lease alike. *)
LEMMA LeaseNext == ASSUME TypeOK, LeaseInv, [Next]_vars PROVE LeaseInv'
<1> USE BootstrapAssumption DEF TypeOK, LeaseInv, NoLease
<1>1. CASE Begin
  BY <1>1 DEF Begin, RoomForSession, clock, remains
<1>2. CASE NoRoom
  BY <1>2 DEF NoRoom, Forget, remains
<1>3. CASE InterruptedEarly
  BY <1>3 DEF InterruptedEarly, Forget, remains
<1>4. CASE Sample
  BY <1>4 DEF Sample, process, remains
<1>5. CASE ExpireThrows
  BY <1>5 DEF ExpireThrows, Unwind, clock, process, remains
<1>6. CASE Stop
  BY <1>6 DEF Stop, Leave, clock, remains
<1>7. CASE Reap
  BY <1>7 DEF Reap, Leave, clock, remains
<1>8. CASE StopChild
  BY <1>8 DEF StopChild, clock, remains
<1>9. CASE Destroy
  BY <1>9 DEF Destroy, Forget, clock
<1>10. CASE Catch
  BY <1>10 DEF Catch, Forget, remains
<1>11. CASE CollectNothing
  BY <1>11 DEF CollectNothing, Continue, ExpireToken, Kept, Expired, process, remains
<1>12. CASE CollectFailure
  BY <1>12 DEF CollectFailure, Continue, ExpireToken, Kept, Expired, Again, process, remains
<1>13. CASE CollectToken
  BY <1>13 DEF CollectToken, Continue, Fresh, Granted, process, remains
<1>14. CASE CollectThrows
  BY <1>14 DEF CollectThrows, Unwind, clock, process, remains
<1>15. CASE CollectDenial
  BY <1>15 DEF CollectDenial, Continue, process, remains
<1>16. CASE \E life \in 1..(MaxLife + 1) : KacGrants(life)
  BY <1>16 DEF KacGrants, clock, process, remains
<1>17. CASE KacRefuses
  BY <1>17 DEF KacRefuses, clock, process, remains
<1>18. CASE KacFails
  BY <1>18 DEF KacFails, clock, process, remains
<1>19. CASE parse_credential
  BY <1>19 DEF parse_credential, clock, process, remains
<1>20. CASE Tick
  BY <1>20 DEF Tick, Aged, Less, LessOnWall, Issued, clock, process, remains
<1>21. CASE Kill
  BY <1>21 DEF Kill, Forget, HasSession
<1>22. CASE Restart
  BY <1>22 DEF Restart, clock, remains
<1>23. CASE ServiceExits
  BY <1>23 DEF ServiceExits, clock, remains
<1>24. CASE Signal
  BY <1>24 DEF Signal, clock, remains
<1>25. CASE \E by \in {-JumpSize, JumpSize} : Jump(by)
  BY <1>25 DEF Jump, Issued, process, remains
<1>26. CASE UNCHANGED vars
  BY <1>26 DEF vars
<1>27. CASE OrphanExits
  BY <1>27 DEF OrphanExits, clock
<1> QED
  BY <1>1, <1>2, <1>3, <1>4, <1>5, <1>6, <1>7, <1>8, <1>9, <1>10, <1>11, <1>12, <1>13, <1>14, <1>15, <1>16, <1>17, <1>18, <1>19, <1>20, <1>21, <1>22, <1>23, <1>24, <1>25, <1>26, <1>27 DEF Next, Loop, Request

LEMMA DenialNext == ASSUME TypeOK, DenialInv, [Next]_vars PROVE DenialInv'
<1> USE DEF TypeOK, DenialInv, NoIssue, IssueStates
<1>1. CASE Begin
  BY <1>1 DEF Begin, RoomForSession, clock, remains
<1>2. CASE NoRoom
  BY <1>2 DEF NoRoom, Forget, remains
<1>3. CASE InterruptedEarly
  BY <1>3 DEF InterruptedEarly, Forget, remains
<1>4. CASE Sample
  BY <1>4 DEF Sample, process, remains
<1>5. CASE ExpireThrows
  BY <1>5 DEF ExpireThrows, Unwind, clock, process, remains
<1>6. CASE Stop
  BY <1>6 DEF Stop, Leave, clock, remains
<1>7. CASE Reap
  BY <1>7 DEF Reap, Leave, clock, remains
<1>8. CASE StopChild
  BY <1>8 DEF StopChild, clock, remains
<1>9. CASE Destroy
  BY <1>9 DEF Destroy, Forget, clock
<1>10. CASE Catch
  BY <1>10 DEF Catch, Forget, remains
<1>11. CASE CollectNothing
  BY <1>11 DEF CollectNothing, Continue, ExpireToken, Kept, Expired, process, remains
<1>12. CASE CollectFailure
  BY <1>12 DEF CollectFailure, Continue, ExpireToken, Kept, Expired, Again, process, remains
<1>13. CASE CollectToken
  BY <1>13 DEF CollectToken, Continue, Fresh, Granted, process, remains
<1>14. CASE CollectThrows
  BY <1>14 DEF CollectThrows, Unwind, clock, process, remains
<1>15. CASE CollectDenial
  BY <1>15 DEF CollectDenial, Continue, process, remains
<1>16. CASE \E life \in 1..(MaxLife + 1) : KacGrants(life)
  BY <1>16 DEF KacGrants, clock, process, remains
<1>17. CASE KacRefuses
  BY <1>17 DEF KacRefuses, clock, process, remains
<1>18. CASE KacFails
  BY <1>18 DEF KacFails, clock, process, remains
<1>19. CASE parse_credential
  BY <1>19 DEF parse_credential, clock, process, remains
<1>20. CASE Tick
  BY <1>20 DEF Tick, Aged, Less, LessOnWall, Issued, clock, process, remains
<1>21. CASE Kill
  BY <1>21 DEF Kill, Forget, HasSession
<1>22. CASE Restart
  BY <1>22 DEF Restart, clock, remains
<1>23. CASE ServiceExits
  BY <1>23 DEF ServiceExits, clock, remains
<1>24. CASE Signal
  BY <1>24 DEF Signal, clock, remains
<1>25. CASE \E by \in {-JumpSize, JumpSize} : Jump(by)
  BY <1>25 DEF Jump, Issued, process, remains
<1>26. CASE UNCHANGED vars
  BY <1>26 DEF vars
<1>27. CASE OrphanExits
  BY <1>27 DEF OrphanExits, clock
<1> QED
  BY <1>1, <1>2, <1>3, <1>4, <1>5, <1>6, <1>7, <1>8, <1>9, <1>10, <1>11, <1>12, <1>13, <1>14, <1>15, <1>16, <1>17, <1>18, <1>19, <1>20, <1>21, <1>22, <1>23, <1>24, <1>25, <1>26, <1>27 DEF Next, Loop, Request

(* An iteration that ends leaves no token that has outlived its lease. *)
LEMMA LeaseStep ==
  ASSUME TypeOK, LeaseInv, [Next]_vars, phase = "body", phase' = "loop", token' # None
  PROVE  token'.held < token'.grant
<1> USE BootstrapAssumption DEF TypeOK, LeaseInv
<1>1. CASE Begin
  BY <1>1 DEF Begin, RoomForSession, clock, remains
<1>2. CASE NoRoom
  BY <1>2 DEF NoRoom, Forget, remains
<1>3. CASE InterruptedEarly
  BY <1>3 DEF InterruptedEarly, Forget, remains
<1>4. CASE Sample
  BY <1>4 DEF Sample, process, remains
<1>5. CASE ExpireThrows
  BY <1>5 DEF ExpireThrows, Unwind, clock, process, remains
<1>6. CASE Stop
  BY <1>6 DEF Stop, Leave, clock, remains
<1>7. CASE Reap
  BY <1>7 DEF Reap, Leave, clock, remains
<1>8. CASE StopChild
  BY <1>8 DEF StopChild, clock, remains
<1>9. CASE Destroy
  BY <1>9 DEF Destroy, Forget, clock
<1>10. CASE Catch
  BY <1>10 DEF Catch, Forget, remains
<1>11. CASE CollectNothing
  BY <1>11 DEF CollectNothing, Continue, ExpireToken, Kept, Expired, process, remains
<1>12. CASE CollectFailure
  BY <1>12 DEF CollectFailure, Continue, ExpireToken, Kept, Expired, Again, process, remains
<1>13. CASE CollectToken
  BY <1>13 DEF CollectToken, Continue, Fresh, Granted, process, remains
<1>14. CASE CollectThrows
  BY <1>14 DEF CollectThrows, Unwind, clock, process, remains
<1>15. CASE CollectDenial
  BY <1>15 DEF CollectDenial, Continue, process, remains
<1>16. CASE \E life \in 1..(MaxLife + 1) : KacGrants(life)
  BY <1>16 DEF KacGrants, clock, process, remains
<1>17. CASE KacRefuses
  BY <1>17 DEF KacRefuses, clock, process, remains
<1>18. CASE KacFails
  BY <1>18 DEF KacFails, clock, process, remains
<1>19. CASE parse_credential
  BY <1>19 DEF parse_credential, clock, process, remains
<1>20. CASE Tick
  BY <1>20 DEF Tick, Aged, Less, LessOnWall, Issued, clock, process, remains
<1>21. CASE Kill
  BY <1>21 DEF Kill, Forget, HasSession
<1>22. CASE Restart
  BY <1>22 DEF Restart, clock, remains
<1>23. CASE ServiceExits
  BY <1>23 DEF ServiceExits, clock, remains
<1>24. CASE Signal
  BY <1>24 DEF Signal, clock, remains
<1>25. CASE \E by \in {-JumpSize, JumpSize} : Jump(by)
  BY <1>25 DEF Jump, Issued, process, remains
<1>26. CASE UNCHANGED vars
  BY <1>26 DEF vars
<1>27. CASE OrphanExits
  BY <1>27 DEF OrphanExits, clock
<1> QED
  BY <1>1, <1>2, <1>3, <1>4, <1>5, <1>6, <1>7, <1>8, <1>9, <1>10, <1>11, <1>12, <1>13, <1>14, <1>15, <1>16, <1>17, <1>18, <1>19, <1>20, <1>21, <1>22, <1>23, <1>24, <1>25, <1>26, <1>27 DEF Next, Loop, Request

-----------------------------------------------------------------------------
LEMMA BInvNext == BInv /\ [Next]_vars => BInv'
BY TypeNext, PhaseNext, LeaseNext, DenialNext DEF BInv

LEMMA BInvAlways == Spec => []BInv
BY BInvInit, BInvNext, PTL DEF Spec

(* However the process ends, by return or by an exception at any point,    *)
(* its service is stopped, and directories and tokens stay behind only by  *)
(* kills and failing unlinks (main and ~TokenSession).                     *)
THEOREM EndTheorem == Spec => []EndIsClean
<1>1. BInv => EndIsClean
  BY DEF BInv, PhaseInv, EndIsClean
<1> QED BY <1>1, BInvAlways, PTL

(* A final refusal that the loop has seen ends the credential for good:    *)
(* no token, no request (the denied branch of the loop).                   *)
THEOREM DenialTheorem == Spec => []DenialIsFinal
<1>1. BInv => DenialIsFinal
  BY DEF BInv, DenialInv, DenialIsFinal
<1> QED BY <1>1, BInvAlways, PTL

(* No iteration leaves a token whose lease is over by the boot clock,      *)
(* however the wall clock was set meanwhile (Lease::expired).              *)
THEOREM LeaseTheorem == Spec => LeaseIsKept
<1> DEFINE Held == phase = "body" /\ phase' = "loop" /\ token' # None => token'.held < token'.grant
<1>1. BInv /\ [Next]_vars => [Held]_vars
  BY LeaseStep DEF BInv
<1>2. Spec => [][Held]_vars
  <2> HIDE DEF Held
  <2> QED BY <1>1, BInvAlways, PTL DEF Spec
<1> QED BY <1>2 DEF LeaseIsKept
=============================================================================
