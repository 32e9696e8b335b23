---------------------------- MODULE SessionProofs ---------------------------
(***************************************************************************)
(* Proofs about Session for any files, limits and number of changes: what  *)
(* a renewal may keep, what the service may claim of its input, and what   *)
(* the watcher may discard.                                                *)
(***************************************************************************)
EXTENDS Session, TLAPS

Files == [token: Tokens \cup {None, Unsafe}, metadata: Contracts \cup {None, Alien},
          ca: Authorities \cup {None}]

SessionFiles == [token: Tokens \cup {None}, metadata: Contracts, ca: Authorities \cup {None}]

Causes == {"NONE", "TOKEN_REPLACED", "UNAVAILABLE"}

Ages == Nat \cup {None}

TypeOK ==
  /\ files \in Files
  /\ sess = None \/ sess \in SessionFiles
  /\ cause \in Causes /\ seen \in Causes
  /\ pc \in {"refused", "ended"} => found.change \in Causes
  /\ inputAge \in Ages /\ telemetryAge \in Ages /\ lag \in Nat
  /\ pc = "token" => sess \in SessionFiles

(* What was recorded as more than a new token stays in the cause. *)
CauseRemembers == unavailable => cause = "UNAVAILABLE"

(* Between Get and the end of the stream the facts say CONNECTED; outside  *)
(* of that they say so only of input that the watcher has expired.         *)
FactsFollow ==
  /\ facts.input = "RECEIVING" => facts.connection = "CONNECTED"
  /\ pc \in {"read", "status", "finish", "ended"} => facts.connection = "CONNECTED"
  /\ pc \in {"start", "pause", "token", "get", "refused", "exit"} =>
       (facts.connection = "CONNECTED" => facts.input = "STALE")
  /\ pc \in {"leaving", "joining"} /\ outcome = "CLOSED" =>
       facts.connection # "CONNECTED" /\ inputAge = None

(* What was discarded is not claimed. *)
ClaimsInv ==
  /\ facts.input = "RECEIVING" => inputAge # None
  /\ telemetryAge # None => facts.connection \in {"CONNECTED", "REAUTHENTICATING"}

SInv == TypeOK /\ CauseRemembers /\ EpisodeIsContinuous /\ ChannelIsTrusted /\ FactsFollow /\ ClaimsInv

-----------------------------------------------------------------------------
(* observe keeps the graver of two causes. *)
LEMMA ObserveGraver ==
  ASSUME NEW c \in Causes, NEW d \in Causes
  PROVE  /\ observe(c, d) \in Causes
         /\ "UNAVAILABLE" \in {c, d} => observe(c, d) = "UNAVAILABLE"
BY DEF observe, Rank, Causes

LEMMA InspectType == inspect_session_inputs \in Causes
BY DEF inspect_session_inputs, Causes

(* Whoever records an inspection leaves a cause as grave as what it saw. *)
LEMMA RecordRemembers ==
  ASSUME NEW c \in Causes, cause \in Causes, CauseRemembers, Record(c)
  PROVE  cause' \in Causes /\ CauseRemembers'
<1>1. observe(cause, c) \in Causes /\ ("UNAVAILABLE" \in {cause, c} => observe(cause, c) = "UNAVAILABLE")
  BY ObserveGraver
<1> QED BY <1>1 DEF Record, CauseRemembers

(* The steps that record one. *)
LEMMA Recorded ==
  ASSUME TypeOK, CauseRemembers, WatchInputs \/ WatchRecord \/ GetJudged \/ FinishJudged
  PROVE  cause' \in Causes /\ CauseRemembers'
<1>1. CASE UNCHANGED <<cause, unavailable>>
  BY <1>1 DEF TypeOK, CauseRemembers
<1>2. ASSUME ~UNCHANGED <<cause, unavailable>> PROVE \E c \in Causes : Record(c)
  <2> USE DEF TypeOK
  <2>1. "UNAVAILABLE" \in Causes
    BY DEF Causes
  <2>2. CASE WatchInputs
    BY <1>2, <2>1, <2>2 DEF WatchInputs
  <2>3. CASE WatchRecord
    BY <2>3 DEF WatchRecord
  <2>4. CASE GetJudged
    BY <2>4 DEF GetJudged
  <2>5. CASE FinishJudged
    BY <2>5 DEF FinishJudged
  <2> QED BY <2>2, <2>3, <2>4, <2>5
<1> QED BY <1>1, <1>2, RecordRemembers DEF TypeOK

LEMMA SInvInit == Init => SInv
<1> SUFFICES ASSUME Init PROVE SInv
  OBVIOUS
<1>1. TypeOK
  BY DEF Init, TypeOK, Files, SessionFiles, Causes, Ages, Fact
<1>2. CauseRemembers /\ EpisodeIsContinuous /\ ChannelIsTrusted
  BY DEF Init, CauseRemembers, EpisodeIsContinuous, ChannelIsTrusted
<1>3. FactsFollow /\ ClaimsInv
  BY DEF Init, FactsFollow, ClaimsInv, Fact
<1> QED BY <1>1, <1>2, <1>3 DEF SInv

(* Every step keeps the types. *)
LEMMA TypeNext == ASSUME TypeOK, CauseRemembers, [Next]_vars PROVE TypeOK'
<1> USE DEF TypeOK, Files, SessionFiles, Ages, Causes, CauseRemembers
<1>1. CASE Unwind
  BY <1>1 DEF Unwind, session, input, world
<1>2. CASE LeaveRenewed
  BY <1>2 DEF LeaveRenewed, SessionEnds, world, Fact
<1>3. CASE LeaveClosed
  BY <1>3 DEF LeaveClosed, Joined, SessionEnds, input, world
<1>4. CASE LeaveFailed
  BY <1>4 DEF LeaveFailed, Failed, SessionEnds, disconnect, Discard, subscription_failure_observation, Fact, world
<1>5. CASE Pause
  BY <1>5 DEF Pause, session, input, world
<1>6. CASE Stop
  BY <1>6 DEF Stop, Discard, session, world
<1>7. CASE ReadMetadata
  BY <1>7 DEF ReadMetadata, update_vdp_metadata, world
<1>8. CASE MetadataRefused
  BY <1>8 DEF MetadataRefused, Failed, SessionEnds, disconnect, Discard, subscription_failure_observation, Fact, world
<1>9. CASE Open
  BY <1>9 DEF Open, TransportChannel, input, world
<1>10. CASE CaRefused
  BY <1>10 DEF CaRefused, Failed, SessionEnds, disconnect, Discard, subscription_failure_observation, Fact, world
<1>11. CASE TokenRefused
  BY <1>11 DEF TokenRefused, Failed, SessionEnds, disconnect, Discard, subscription_failure_observation, Fact, world
<1>12. CASE GetAnswered
  BY <1>12 DEF GetAnswered, Fact, session, world
<1>13. CASE GetIncompatible
  BY <1>13 DEF GetIncompatible, Leave, session, input, world
<1>14. CASE GetJudged
  BY <1>14, Recorded DEF GetJudged, Leave, Renewable, input, world
<1>15. CASE FinishJudged
  BY <1>15, Recorded DEF FinishJudged, Leave, Renewable, disconnect, Discard, Fact, input, world
<1>16. CASE StatusReady
  BY <1>16 DEF StatusReady, Leave, session, world
<1>17. CASE StreamEnds
  BY <1>17 DEF StreamEnds, session, input, world
<1>18. CASE BadUpdate
  BY <1>18 DEF BadUpdate, Leave, session, input, world
<1>19. CASE WatchInputs
  BY <1>19, Recorded, InspectType DEF WatchInputs, input, world
<1>20. CASE WatchRecord
  BY <1>20, Recorded DEF WatchRecord, input, world
<1>21. CASE WatchClock
  BY <1>21 DEF WatchClock, session, input, world
<1>22. CASE WatchExpire
  BY <1>22 DEF WatchExpire, expire_input, Expired, Discard, Fact, session, input, world
<1>23. CASE Signal
  BY <1>23 DEF Signal, session, input
<1>24. CASE Tick
  BY <1>24, SessionAssumption DEF Tick, Older, Oldest, session, world
<1>25. CASE \E status \in {"CANCELLED", "DENIED", "OTHER"} : GetFailed(status)
  BY <1>25, InspectType DEF GetFailed, Inspects, input, world
<1>26. CASE \E status \in {"OK", "CANCELLED", "OTHER"} : Finish(status)
  BY <1>26, InspectType DEF Finish, Inspects, input, world
<1>27. CASE \E delay \in 0..1, next \in {None, episode, contract} : ingest(delay, next)
  BY <1>27 DEF ingest, Fact, session, world
<1>28. CASE \E t \in Tokens \cup {None, Unsafe} : ChangeFile("token", t)
  BY <1>28 DEF ChangeFile, session, input
<1>29. CASE \E m \in Contracts \cup {None, Alien} : ChangeFile("metadata", m)
  BY <1>29 DEF ChangeFile, session, input
<1>30. CASE \E a \in Authorities \cup {None} : ChangeFile("ca", a)
  BY <1>30 DEF ChangeFile, session, input
<1>31. CASE UNCHANGED vars
  BY <1>31 DEF vars
<1> QED
  BY <1>1, <1>2, <1>3, <1>4, <1>5, <1>6, <1>7, <1>8, <1>9, <1>10, <1>11, <1>12, <1>13, <1>14, <1>15, <1>16,
     <1>17, <1>18, <1>19, <1>20, <1>21, <1>22, <1>23, <1>24, <1>25, <1>26, <1>27, <1>28, <1>29, <1>30, <1>31
     DEF Next, Main, Stream, Watcher, World

(* The invariant, conjunct by conjunct. *)
LEMMA CauseNext == ASSUME TypeOK, CauseRemembers, [Next]_vars PROVE CauseRemembers'
<1> USE DEF CauseRemembers
<1>1. CASE Unwind
  BY <1>1 DEF Unwind, session, input, world
<1>2. CASE LeaveRenewed
  BY <1>2 DEF LeaveRenewed, SessionEnds, world, Fact
<1>3. CASE LeaveClosed
  BY <1>3 DEF LeaveClosed, Joined, SessionEnds, input, world
<1>4. CASE LeaveFailed
  BY <1>4 DEF LeaveFailed, Failed, SessionEnds, disconnect, Discard, subscription_failure_observation, Fact, world
<1>5. CASE Pause
  BY <1>5 DEF Pause, session, input, world
<1>6. CASE Stop
  BY <1>6 DEF Stop, Discard, session, world
<1>7. CASE ReadMetadata
  BY <1>7 DEF ReadMetadata, update_vdp_metadata, world
<1>8. CASE MetadataRefused
  BY <1>8 DEF MetadataRefused, Failed, SessionEnds, disconnect, Discard, subscription_failure_observation, Fact, world
<1>9. CASE Open
  BY <1>9 DEF Open, TransportChannel, input, world
<1>10. CASE CaRefused
  BY <1>10 DEF CaRefused, Failed, SessionEnds, disconnect, Discard, subscription_failure_observation, Fact, world
<1>11. CASE TokenRefused
  BY <1>11 DEF TokenRefused, Failed, SessionEnds, disconnect, Discard, subscription_failure_observation, Fact, world
<1>12. CASE GetAnswered
  BY <1>12 DEF GetAnswered, Fact, session, world
<1>13. CASE GetIncompatible
  BY <1>13 DEF GetIncompatible, Leave, session, input, world
<1>14. CASE GetJudged
  BY <1>14, Recorded DEF GetJudged, Leave, Renewable, input, world
<1>15. CASE FinishJudged
  BY <1>15, Recorded DEF FinishJudged, Leave, Renewable, disconnect, Discard, Fact, input, world
<1>16. CASE StatusReady
  BY <1>16 DEF StatusReady, Leave, session, world
<1>17. CASE StreamEnds
  BY <1>17 DEF StreamEnds, session, input, world
<1>18. CASE BadUpdate
  BY <1>18 DEF BadUpdate, Leave, session, input, world
<1>19. CASE WatchInputs
  BY <1>19, Recorded, InspectType DEF WatchInputs, input, world
<1>20. CASE WatchRecord
  BY <1>20, Recorded DEF WatchRecord, input, world
<1>21. CASE WatchClock
  BY <1>21 DEF WatchClock, session, input, world
<1>22. CASE WatchExpire
  BY <1>22 DEF WatchExpire, expire_input, Expired, Discard, Fact, session, input, world
<1>23. CASE Signal
  BY <1>23 DEF Signal, session, input
<1>24. CASE Tick
  BY <1>24, SessionAssumption DEF Tick, Older, Oldest, session, world
<1>25. CASE \E status \in {"CANCELLED", "DENIED", "OTHER"} : GetFailed(status)
  BY <1>25, InspectType DEF GetFailed, Inspects, input, world
<1>26. CASE \E status \in {"OK", "CANCELLED", "OTHER"} : Finish(status)
  BY <1>26, InspectType DEF Finish, Inspects, input, world
<1>27. CASE \E delay \in 0..1, next \in {None, episode, contract} : ingest(delay, next)
  BY <1>27 DEF ingest, Fact, session, world
<1>28. CASE \E t \in Tokens \cup {None, Unsafe} : ChangeFile("token", t)
  BY <1>28 DEF ChangeFile, session, input
<1>29. CASE \E m \in Contracts \cup {None, Alien} : ChangeFile("metadata", m)
  BY <1>29 DEF ChangeFile, session, input
<1>30. CASE \E a \in Authorities \cup {None} : ChangeFile("ca", a)
  BY <1>30 DEF ChangeFile, session, input
<1>31. CASE UNCHANGED vars
  BY <1>31 DEF vars
<1> QED
  BY <1>1, <1>2, <1>3, <1>4, <1>5, <1>6, <1>7, <1>8, <1>9, <1>10, <1>11, <1>12, <1>13, <1>14, <1>15, <1>16,
     <1>17, <1>18, <1>19, <1>20, <1>21, <1>22, <1>23, <1>24, <1>25, <1>26, <1>27, <1>28, <1>29, <1>30, <1>31
     DEF Next, Main, Stream, Watcher, World

LEMMA ChannelNext == ASSUME TypeOK, ChannelIsTrusted, [Next]_vars PROVE ChannelIsTrusted'
<1> USE DEF ChannelIsTrusted, TypeOK, Files, SessionFiles
<1>1. CASE Unwind
  BY <1>1 DEF Unwind, session, input, world
<1>2. CASE LeaveRenewed
  BY <1>2 DEF LeaveRenewed, SessionEnds, world, Fact
<1>3. CASE LeaveClosed
  BY <1>3 DEF LeaveClosed, Joined, SessionEnds, input, world
<1>4. CASE LeaveFailed
  BY <1>4 DEF LeaveFailed, Failed, SessionEnds, disconnect, Discard, subscription_failure_observation, Fact, world
<1>5. CASE Pause
  BY <1>5 DEF Pause, session, input, world
<1>6. CASE Stop
  BY <1>6 DEF Stop, Discard, session, world
<1>7. CASE ReadMetadata
  BY <1>7 DEF ReadMetadata, update_vdp_metadata, world
<1>8. CASE MetadataRefused
  BY <1>8 DEF MetadataRefused, Failed, SessionEnds, disconnect, Discard, subscription_failure_observation, Fact, world
<1>9. CASE Open
  BY <1>9 DEF Open, TransportChannel, input, world
<1>10. CASE CaRefused
  BY <1>10 DEF CaRefused, Failed, SessionEnds, disconnect, Discard, subscription_failure_observation, Fact, world
<1>11. CASE TokenRefused
  BY <1>11 DEF TokenRefused, Failed, SessionEnds, disconnect, Discard, subscription_failure_observation, Fact, world
<1>12. CASE GetAnswered
  BY <1>12 DEF GetAnswered, Fact, session, world
<1>13. CASE GetIncompatible
  BY <1>13 DEF GetIncompatible, Leave, session, input, world
<1>14. CASE GetJudged
  BY <1>14 DEF GetJudged, Leave, Renewable, input, world
<1>15. CASE FinishJudged
  BY <1>15 DEF FinishJudged, Leave, Renewable, disconnect, Discard, Fact, input, world
<1>16. CASE StatusReady
  BY <1>16 DEF StatusReady, Leave, session, world
<1>17. CASE StreamEnds
  BY <1>17 DEF StreamEnds, session, input, world
<1>18. CASE BadUpdate
  BY <1>18 DEF BadUpdate, Leave, session, input, world
<1>19. CASE WatchInputs
  BY <1>19 DEF WatchInputs, input, world
<1>20. CASE WatchRecord
  BY <1>20 DEF WatchRecord, input, world
<1>21. CASE WatchClock
  BY <1>21 DEF WatchClock, session, input, world
<1>22. CASE WatchExpire
  BY <1>22 DEF WatchExpire, expire_input, Expired, Discard, Fact, session, input, world
<1>23. CASE Signal
  BY <1>23 DEF Signal, session, input
<1>24. CASE Tick
  BY <1>24, SessionAssumption DEF Tick, Older, Oldest, session, world
<1>25. CASE \E status \in {"CANCELLED", "DENIED", "OTHER"} : GetFailed(status)
  BY <1>25 DEF GetFailed, Inspects, input, world
<1>26. CASE \E status \in {"OK", "CANCELLED", "OTHER"} : Finish(status)
  BY <1>26 DEF Finish, Inspects, input, world
<1>27. CASE \E delay \in 0..1, next \in {None, episode, contract} : ingest(delay, next)
  BY <1>27 DEF ingest, Fact, session, world
<1>28. CASE \E t \in Tokens \cup {None, Unsafe} : ChangeFile("token", t)
  BY <1>28 DEF ChangeFile, session, input
<1>29. CASE \E m \in Contracts \cup {None, Alien} : ChangeFile("metadata", m)
  BY <1>29 DEF ChangeFile, session, input
<1>30. CASE \E a \in Authorities \cup {None} : ChangeFile("ca", a)
  BY <1>30 DEF ChangeFile, session, input
<1>31. CASE UNCHANGED vars
  BY <1>31 DEF vars
<1> QED
  BY <1>1, <1>2, <1>3, <1>4, <1>5, <1>6, <1>7, <1>8, <1>9, <1>10, <1>11, <1>12, <1>13, <1>14, <1>15, <1>16,
     <1>17, <1>18, <1>19, <1>20, <1>21, <1>22, <1>23, <1>24, <1>25, <1>26, <1>27, <1>28, <1>29, <1>30, <1>31
     DEF Next, Main, Stream, Watcher, World

LEMMA EpisodeNext == ASSUME TypeOK, EpisodeIsContinuous, [Next]_vars PROVE EpisodeIsContinuous'
<1> USE SessionAssumption DEF EpisodeIsContinuous, TypeOK, Ages
<1>1. CASE Unwind
  BY <1>1 DEF Unwind, session, input, world
<1>2. CASE LeaveRenewed
  BY <1>2 DEF LeaveRenewed, SessionEnds, world, Fact
<1>3. CASE LeaveClosed
  BY <1>3 DEF LeaveClosed, Joined, SessionEnds, input, world
<1>4. CASE LeaveFailed
  BY <1>4 DEF LeaveFailed, Failed, SessionEnds, disconnect, Discard, subscription_failure_observation, Fact, world
<1>5. CASE Pause
  BY <1>5 DEF Pause, session, input, world
<1>6. CASE Stop
  BY <1>6 DEF Stop, Discard, session, world
<1>7. CASE ReadMetadata
  BY <1>7 DEF ReadMetadata, update_vdp_metadata, world
<1>8. CASE MetadataRefused
  BY <1>8 DEF MetadataRefused, Failed, SessionEnds, disconnect, Discard, subscription_failure_observation, Fact, world
<1>9. CASE Open
  BY <1>9 DEF Open, TransportChannel, input, world
<1>10. CASE CaRefused
  BY <1>10 DEF CaRefused, Failed, SessionEnds, disconnect, Discard, subscription_failure_observation, Fact, world
<1>11. CASE TokenRefused
  BY <1>11 DEF TokenRefused, Failed, SessionEnds, disconnect, Discard, subscription_failure_observation, Fact, world
<1>12. CASE GetAnswered
  BY <1>12 DEF GetAnswered, Fact, session, world
<1>13. CASE GetIncompatible
  BY <1>13 DEF GetIncompatible, Leave, session, input, world
<1>14. CASE GetJudged
  BY <1>14 DEF GetJudged, Leave, Renewable, input, world
<1>15. CASE FinishJudged
  BY <1>15 DEF FinishJudged, Leave, Renewable, disconnect, Discard, Fact, input, world
<1>16. CASE StatusReady
  BY <1>16 DEF StatusReady, Leave, session, world
<1>17. CASE StreamEnds
  BY <1>17 DEF StreamEnds, session, input, world
<1>18. CASE BadUpdate
  BY <1>18 DEF BadUpdate, Leave, session, input, world
<1>19. CASE WatchInputs
  BY <1>19 DEF WatchInputs, input, world
<1>20. CASE WatchRecord
  BY <1>20 DEF WatchRecord, input, world
<1>21. CASE WatchClock
  BY <1>21 DEF WatchClock, session, input, world
<1>22. CASE WatchExpire
  BY <1>22 DEF WatchExpire, expire_input, Expired, Discard, Fact, session, input, world
<1>23. CASE Signal
  BY <1>23 DEF Signal, session, input
<1>24. CASE Tick
  BY <1>24, SessionAssumption DEF Tick, Older, Oldest, session, world
<1>25. CASE \E status \in {"CANCELLED", "DENIED", "OTHER"} : GetFailed(status)
  BY <1>25 DEF GetFailed, Inspects, input, world
<1>26. CASE \E status \in {"OK", "CANCELLED", "OTHER"} : Finish(status)
  BY <1>26 DEF Finish, Inspects, input, world
<1>27. CASE \E delay \in 0..1, next \in {None, episode, contract} : ingest(delay, next)
  BY <1>27 DEF ingest, Fact, session, world
<1>28. CASE \E t \in Tokens \cup {None, Unsafe} : ChangeFile("token", t)
  BY <1>28 DEF ChangeFile, session, input
<1>29. CASE \E m \in Contracts \cup {None, Alien} : ChangeFile("metadata", m)
  BY <1>29 DEF ChangeFile, session, input
<1>30. CASE \E a \in Authorities \cup {None} : ChangeFile("ca", a)
  BY <1>30 DEF ChangeFile, session, input
<1>31. CASE UNCHANGED vars
  BY <1>31 DEF vars
<1> QED
  BY <1>1, <1>2, <1>3, <1>4, <1>5, <1>6, <1>7, <1>8, <1>9, <1>10, <1>11, <1>12, <1>13, <1>14, <1>15, <1>16,
     <1>17, <1>18, <1>19, <1>20, <1>21, <1>22, <1>23, <1>24, <1>25, <1>26, <1>27, <1>28, <1>29, <1>30, <1>31
     DEF Next, Main, Stream, Watcher, World

LEMMA FactsNext ==
  ASSUME TypeOK, FactsFollow, ClaimsInv, [Next]_vars
  PROVE  FactsFollow' /\ ClaimsInv'
<1> USE SessionAssumption DEF FactsFollow, ClaimsInv, TypeOK, Ages
<1>1. CASE Unwind
  BY <1>1 DEF Unwind, session, input, world
<1>2. CASE LeaveRenewed
  BY <1>2 DEF LeaveRenewed, SessionEnds, world, Fact
<1>3. CASE LeaveClosed
  BY <1>3 DEF LeaveClosed, Joined, SessionEnds, input, world
<1>4. CASE LeaveFailed
  BY <1>4 DEF LeaveFailed, Failed, SessionEnds, disconnect, Discard, subscription_failure_observation, Fact, world
<1>5. CASE Pause
  BY <1>5 DEF Pause, session, input, world
<1>6. CASE Stop
  BY <1>6 DEF Stop, Discard, session, world
<1>7. CASE ReadMetadata
  BY <1>7 DEF ReadMetadata, update_vdp_metadata, world
<1>8. CASE MetadataRefused
  BY <1>8 DEF MetadataRefused, Failed, SessionEnds, disconnect, Discard, subscription_failure_observation, Fact, world
<1>9. CASE Open
  BY <1>9 DEF Open, TransportChannel, input, world
<1>10. CASE CaRefused
  BY <1>10 DEF CaRefused, Failed, SessionEnds, disconnect, Discard, subscription_failure_observation, Fact, world
<1>11. CASE TokenRefused
  BY <1>11 DEF TokenRefused, Failed, SessionEnds, disconnect, Discard, subscription_failure_observation, Fact, world
<1>12. CASE GetAnswered
  BY <1>12 DEF GetAnswered, Fact, session, world
<1>13. CASE GetIncompatible
  BY <1>13 DEF GetIncompatible, Leave, session, input, world
<1>14. CASE GetJudged
  BY <1>14 DEF GetJudged, Leave, Renewable, input, world
<1>15. CASE FinishJudged
  BY <1>15 DEF FinishJudged, Leave, Renewable, disconnect, Discard, Fact, input, world
<1>16. CASE StatusReady
  BY <1>16 DEF StatusReady, Leave, session, world
<1>17. CASE StreamEnds
  BY <1>17 DEF StreamEnds, session, input, world
<1>18. CASE BadUpdate
  BY <1>18 DEF BadUpdate, Leave, session, input, world
<1>19. CASE WatchInputs
  BY <1>19 DEF WatchInputs, input, world
<1>20. CASE WatchRecord
  BY <1>20 DEF WatchRecord, input, world
<1>21. CASE WatchClock
  BY <1>21 DEF WatchClock, session, input, world
<1>22. CASE WatchExpire
  BY <1>22 DEF WatchExpire, expire_input, Expired, Discard, Fact, session, input, world
<1>23. CASE Signal
  BY <1>23 DEF Signal, session, input
<1>24. CASE Tick
  BY <1>24, SessionAssumption DEF Tick, Older, Oldest, session, world
<1>25. CASE \E status \in {"CANCELLED", "DENIED", "OTHER"} : GetFailed(status)
  BY <1>25 DEF GetFailed, Inspects, input, world
<1>26. CASE \E status \in {"OK", "CANCELLED", "OTHER"} : Finish(status)
  BY <1>26 DEF Finish, Inspects, input, world
<1>27. CASE \E delay \in 0..1, next \in {None, episode, contract} : ingest(delay, next)
  BY <1>27 DEF ingest, Fact, session, world
<1>28. CASE \E t \in Tokens \cup {None, Unsafe} : ChangeFile("token", t)
  BY <1>28 DEF ChangeFile, session, input
<1>29. CASE \E m \in Contracts \cup {None, Alien} : ChangeFile("metadata", m)
  BY <1>29 DEF ChangeFile, session, input
<1>30. CASE \E a \in Authorities \cup {None} : ChangeFile("ca", a)
  BY <1>30 DEF ChangeFile, session, input
<1>31. CASE UNCHANGED vars
  BY <1>31 DEF vars
<1> QED
  BY <1>1, <1>2, <1>3, <1>4, <1>5, <1>6, <1>7, <1>8, <1>9, <1>10, <1>11, <1>12, <1>13, <1>14, <1>15, <1>16,
     <1>17, <1>18, <1>19, <1>20, <1>21, <1>22, <1>23, <1>24, <1>25, <1>26, <1>27, <1>28, <1>29, <1>30, <1>31
     DEF Next, Main, Stream, Watcher, World

(* The watcher's last step is the only one that may discard what it        *)
(* judged, and it judged with a clock value that was read earlier.         *)
LEMMA ExpiryStep ==
  ASSUME TypeOK, [Next]_vars, watcher = "expire", watcher' = "look", inputAge # None, inputAge' = None
  PROVE  inputAge > InputLimit
<1> USE SessionAssumption DEF TypeOK, Ages
<1>1. CASE Unwind
  BY <1>1 DEF Unwind, session, input, world
<1>2. CASE LeaveRenewed
  BY <1>2 DEF LeaveRenewed, SessionEnds, world, Fact
<1>3. CASE LeaveClosed
  BY <1>3 DEF LeaveClosed, Joined, SessionEnds, input, world
<1>4. CASE LeaveFailed
  BY <1>4 DEF LeaveFailed, Failed, SessionEnds, disconnect, Discard, subscription_failure_observation, Fact, world
<1>5. CASE Pause
  BY <1>5 DEF Pause, session, input, world
<1>6. CASE Stop
  BY <1>6 DEF Stop, Discard, session, world
<1>7. CASE ReadMetadata
  BY <1>7 DEF ReadMetadata, update_vdp_metadata, world
<1>8. CASE MetadataRefused
  BY <1>8 DEF MetadataRefused, Failed, SessionEnds, disconnect, Discard, subscription_failure_observation, Fact, world
<1>9. CASE Open
  BY <1>9 DEF Open, TransportChannel, input, world
<1>10. CASE CaRefused
  BY <1>10 DEF CaRefused, Failed, SessionEnds, disconnect, Discard, subscription_failure_observation, Fact, world
<1>11. CASE TokenRefused
  BY <1>11 DEF TokenRefused, Failed, SessionEnds, disconnect, Discard, subscription_failure_observation, Fact, world
<1>12. CASE GetAnswered
  BY <1>12 DEF GetAnswered, Fact, session, world
<1>13. CASE GetIncompatible
  BY <1>13 DEF GetIncompatible, Leave, session, input, world
<1>14. CASE GetJudged
  BY <1>14 DEF GetJudged, Leave, Renewable, input, world
<1>15. CASE FinishJudged
  BY <1>15 DEF FinishJudged, Leave, Renewable, disconnect, Discard, Fact, input, world
<1>16. CASE StatusReady
  BY <1>16 DEF StatusReady, Leave, session, world
<1>17. CASE StreamEnds
  BY <1>17 DEF StreamEnds, session, input, world
<1>18. CASE BadUpdate
  BY <1>18 DEF BadUpdate, Leave, session, input, world
<1>19. CASE WatchInputs
  BY <1>19 DEF WatchInputs, input, world
<1>20. CASE WatchRecord
  BY <1>20 DEF WatchRecord, input, world
<1>21. CASE WatchClock
  BY <1>21 DEF WatchClock, session, input, world
<1>22. CASE WatchExpire
  BY <1>22 DEF WatchExpire, expire_input, Expired, Discard, Fact, session, input, world
<1>23. CASE Signal
  BY <1>23 DEF Signal, session, input
<1>24. CASE Tick
  BY <1>24, SessionAssumption DEF Tick, Older, Oldest, session, world
<1>25. CASE \E status \in {"CANCELLED", "DENIED", "OTHER"} : GetFailed(status)
  BY <1>25 DEF GetFailed, Inspects, input, world
<1>26. CASE \E status \in {"OK", "CANCELLED", "OTHER"} : Finish(status)
  BY <1>26 DEF Finish, Inspects, input, world
<1>27. CASE \E delay \in 0..1, next \in {None, episode, contract} : ingest(delay, next)
  BY <1>27 DEF ingest, Fact, session, world
<1>28. CASE \E t \in Tokens \cup {None, Unsafe} : ChangeFile("token", t)
  BY <1>28 DEF ChangeFile, session, input
<1>29. CASE \E m \in Contracts \cup {None, Alien} : ChangeFile("metadata", m)
  BY <1>29 DEF ChangeFile, session, input
<1>30. CASE \E a \in Authorities \cup {None} : ChangeFile("ca", a)
  BY <1>30 DEF ChangeFile, session, input
<1>31. CASE UNCHANGED vars
  BY <1>31 DEF vars
<1> QED
  BY <1>1, <1>2, <1>3, <1>4, <1>5, <1>6, <1>7, <1>8, <1>9, <1>10, <1>11, <1>12, <1>13, <1>14, <1>15, <1>16,
     <1>17, <1>18, <1>19, <1>20, <1>21, <1>22, <1>23, <1>24, <1>25, <1>26, <1>27, <1>28, <1>29, <1>30, <1>31
     DEF Next, Main, Stream, Watcher, World

(* Main decides on a renewal under the weaker cause. *)
LEMMA RenewalStep == ASSUME [Next]_vars, Renews PROVE cause' = "TOKEN_REPLACED"
<1> USE DEF Renews
<1>1. CASE Unwind
  BY <1>1 DEF Unwind, session, input, world
<1>2. CASE LeaveRenewed
  BY <1>2 DEF LeaveRenewed, SessionEnds, world, Fact
<1>3. CASE LeaveClosed
  BY <1>3 DEF LeaveClosed, Joined, SessionEnds, input, world
<1>4. CASE LeaveFailed
  BY <1>4 DEF LeaveFailed, Failed, SessionEnds, disconnect, Discard, subscription_failure_observation, Fact, world
<1>5. CASE Pause
  BY <1>5 DEF Pause, session, input, world
<1>6. CASE Stop
  BY <1>6 DEF Stop, Discard, session, world
<1>7. CASE ReadMetadata
  BY <1>7 DEF ReadMetadata, update_vdp_metadata, world
<1>8. CASE MetadataRefused
  BY <1>8 DEF MetadataRefused, Failed, SessionEnds, disconnect, Discard, subscription_failure_observation, Fact, world
<1>9. CASE Open
  BY <1>9 DEF Open, TransportChannel, input, world
<1>10. CASE CaRefused
  BY <1>10 DEF CaRefused, Failed, SessionEnds, disconnect, Discard, subscription_failure_observation, Fact, world
<1>11. CASE TokenRefused
  BY <1>11 DEF TokenRefused, Failed, SessionEnds, disconnect, Discard, subscription_failure_observation, Fact, world
<1>12. CASE GetAnswered
  BY <1>12 DEF GetAnswered, Fact, session, world
<1>13. CASE GetIncompatible
  BY <1>13 DEF GetIncompatible, Leave, session, input, world
<1>14. CASE GetJudged
  BY <1>14 DEF GetJudged, Leave, Renewable, input, world
<1>15. CASE FinishJudged
  BY <1>15 DEF FinishJudged, Leave, Renewable, disconnect, Discard, Fact, input, world
<1>16. CASE StatusReady
  BY <1>16 DEF StatusReady, Leave, session, world
<1>17. CASE StreamEnds
  BY <1>17 DEF StreamEnds, session, input, world
<1>18. CASE BadUpdate
  BY <1>18 DEF BadUpdate, Leave, session, input, world
<1>19. CASE WatchInputs
  BY <1>19 DEF WatchInputs, input, world
<1>20. CASE WatchRecord
  BY <1>20 DEF WatchRecord, input, world
<1>21. CASE WatchClock
  BY <1>21 DEF WatchClock, session, input, world
<1>22. CASE WatchExpire
  BY <1>22 DEF WatchExpire, expire_input, Expired, Discard, Fact, session, input, world
<1>23. CASE Signal
  BY <1>23 DEF Signal, session, input
<1>24. CASE Tick
  BY <1>24, SessionAssumption DEF Tick, Older, Oldest, session, world
<1>25. CASE \E status \in {"CANCELLED", "DENIED", "OTHER"} : GetFailed(status)
  BY <1>25 DEF GetFailed, Inspects, input, world
<1>26. CASE \E status \in {"OK", "CANCELLED", "OTHER"} : Finish(status)
  BY <1>26 DEF Finish, Inspects, input, world
<1>27. CASE \E delay \in 0..1, next \in {None, episode, contract} : ingest(delay, next)
  BY <1>27 DEF ingest, Fact, session, world
<1>28. CASE \E t \in Tokens \cup {None, Unsafe} : ChangeFile("token", t)
  BY <1>28 DEF ChangeFile, session, input
<1>29. CASE \E m \in Contracts \cup {None, Alien} : ChangeFile("metadata", m)
  BY <1>29 DEF ChangeFile, session, input
<1>30. CASE \E a \in Authorities \cup {None} : ChangeFile("ca", a)
  BY <1>30 DEF ChangeFile, session, input
<1>31. CASE UNCHANGED vars
  BY <1>31 DEF vars
<1> QED
  BY <1>1, <1>2, <1>3, <1>4, <1>5, <1>6, <1>7, <1>8, <1>9, <1>10, <1>11, <1>12, <1>13, <1>14, <1>15, <1>16,
     <1>17, <1>18, <1>19, <1>20, <1>21, <1>22, <1>23, <1>24, <1>25, <1>26, <1>27, <1>28, <1>29, <1>30, <1>31
     DEF Next, Main, Stream, Watcher, World

-----------------------------------------------------------------------------
LEMMA SInvNext == SInv /\ [Next]_vars => SInv'
BY TypeNext, CauseNext, ChannelNext, EpisodeNext, FactsNext DEF SInv

LEMMA SInvAlways == Spec => []SInv
BY SInvInit, SInvNext, PTL DEF Spec

(* Main decides on a renewal only if nothing that either thread recorded   *)
(* in this session was more than a replaced token, although they inspect   *)
(* the files and record what they saw in any order: observe never lowers   *)
(* the cause (session_reconnect.hpp:31).                                   *)
THEOREM RenewalTheorem == Spec => RenewalIsTokenOnly
<1> DEFINE TokenOnly == Renews => ~unavailable'
<1>1. SInv /\ [Next]_vars => [TokenOnly]_vars
  <2> SUFFICES ASSUME SInv, [Next]_vars, Renews PROVE ~unavailable'
    OBVIOUS
  <2>1. cause' = "TOKEN_REPLACED"
    BY RenewalStep
  <2>2. CauseRemembers'
    BY CauseNext DEF SInv
  <2> QED BY <2>1, <2>2 DEF CauseRemembers
<1>2. Spec => [][TokenOnly]_vars
  <2> HIDE DEF TokenOnly
  <2> QED BY <1>1, SInvAlways, PTL DEF Spec
<1> QED BY <1>2 DEF RenewalIsTokenOnly

(* An episode never outlives its input or its VDP contract, across         *)
(* renewals, failures and the watcher (expire_input, update_vdp_metadata). *)
THEOREM EpisodeTheorem == Spec => []EpisodeIsContinuous
<1>1. SInv => EpisodeIsContinuous
  BY DEF SInv
<1> QED BY <1>1, SInvAlways, PTL

(* A session runs only over a channel verified against the CA file it was  *)
(* opened with (SessionTransport::channel).                                *)
THEOREM ChannelTheorem == Spec => []ChannelIsTrusted
<1>1. SInv => ChannelIsTrusted
  BY DEF SInv
<1> QED BY <1>1, SInvAlways, PTL

(* The connection, input and readiness claims of the function observation  *)
(* are backed by input that main really holds, however the frames, the     *)
(* watcher and the end of the session interleave.                          *)
THEOREM ClaimsTheorem == Spec => []ClaimsAreBacked
<1>1. SInv => ClaimsAreBacked
  BY DEF SInv, FactsFollow, ClaimsInv, ClaimsAreBacked, Ready
<1> QED BY <1>1, SInvAlways, PTL

(* expire_input discards only input that is stale at that very moment,     *)
(* however late the watcher acts on its clock value (runtime.cpp:69).      *)
THEOREM ExpiryTheorem == Spec => ExpiryIsDeserved
<1> DEFINE Deserved == watcher = "expire" /\ watcher' = "look" /\ inputAge # None /\ inputAge' = None
                         => inputAge > InputLimit
<1>1. SInv /\ [Next]_vars => [Deserved]_vars
  BY ExpiryStep DEF SInv
<1>2. Spec => [][Deserved]_vars
  <2> HIDE DEF Deserved
  <2> QED BY <1>1, SInvAlways, PTL DEF Spec
<1> QED BY <1>2 DEF ExpiryIsDeserved
=============================================================================
