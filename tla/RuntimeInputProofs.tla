------------------------- MODULE RuntimeInputProofs -------------------------
(***************************************************************************)
(* Proofs about the episode engine and about the runtime that drives it,   *)
(* for every choice of the engine's times and limits.                      *)
(*                                                                         *)
(* The engine (EpisodeEngine) on its own: the inductive invariant ties its *)
(* two clocks to the history of the source; the clear clock always agrees  *)
(* with it, the activation clock whenever the engine is waiting for an     *)
(* episode.                                                                *)
(*                                                                         *)
(* The runtime (RuntimeInput): the facts always pass their own check, and  *)
(* while input is RECEIVING they name the engine's open episode; and what  *)
(* it does to the engine is nothing that the engine alone could not do.    *)
(*                                                                         *)
(* The frames the engine is given (FrameHistory): each is one instant of   *)
(* all signals.                                                            *)
(***************************************************************************)
EXTENDS RuntimeInput, FrameHistory, TLAPS

ClocksAgree ==
  /\ clear = clearRun
  /\ ~suppressed /\ duration = None => activation = activeRun

(* An engine that is not suppressed has seen the release it waits for. *)
NotSuppressedIsReleased == ~suppressed => released

IInv == TypeOK /\ ClocksAgree /\ NotSuppressedIsReleased /\ CompleteIsCleared

-----------------------------------------------------------------------------
(* Plus and Run keep an age within its cap. *)
LEMMA PlusType ==
  ASSUME NEW cap \in Nat, NEW age \in Ages(cap), NEW dt \in 1..MaxGap
  PROVE  Plus(age, dt, cap) \in Ages(cap)
  BY EngineAssumption DEF Plus, Ages

LEMMA RunType ==
  ASSUME NEW cap \in Nat, NEW run \in Ages(cap), NEW dt \in 1..MaxGap,
         NEW kind, NEW wanted
  PROVE  /\ Run(run, kind, wanted, dt, cap) \in Ages(cap)
         /\ kind # wanted => Run(run, kind, wanted, dt, cap) = None
  BY PlusType, EngineAssumption DEF Run, Ages

(* The sample count never passes its limit. *)
LEMMA RetainType ==
  ASSUME NEW age \in Ages(SampleGap), NEW n \in 0..MaxSamples
  PROVE  /\ (IF Retain(age, n) THEN n + 1 ELSE n) \in 0..MaxSamples
         /\ (IF Retain(age, n) THEN 0 ELSE age) \in Ages(SampleGap)
  BY EngineAssumption DEF Retain, Ages

(* The initial state satisfies the invariant. *)
LEMMA InitIInv == Init => IInv
<1> USE EngineAssumption
<1> SUFFICES ASSUME Init PROVE IInv
  OBVIOUS
<1>1. synced \in BOOLEAN /\ suppressed \in BOOLEAN /\ released \in BOOLEAN
  BY DEF Init
<1>2. TypeOK
  BY <1>1 DEF Init, TypeOK, Ages
<1>3. ClocksAgree /\ NotSuppressedIsReleased /\ CompleteIsCleared
  BY DEF Init, ClocksAgree, NotSuppressedIsReleased, CompleteIsCleared
<1> QED BY <1>2, <1>3 DEF IInv

(* What one frame does to the clocks and their history. *)
LEMMA SeenFacts ==
  ASSUME IInv, NEW kind \in Kinds, NEW dt \in 1..MaxGap, Seen(kind, dt)
  PROVE  /\ synced' \in BOOLEAN
         /\ clear' \in Ages(Clearance) /\ clear' = clearRun'
         /\ activeRun' \in Ages(Activation)
         /\ clearRun' \in Ages(Clearance)
         /\ ActivationAge(kind, dt) \in Ages(Activation)
         /\ ~suppressed /\ duration = None => ActivationAge(kind, dt) = activeRun'
         /\ Cleared(kind, dt) => clearRun' = Clearance /\ activeRun' = None
         /\ ClearAge(kind, dt) = clear'
<1> USE EngineAssumption
<1>1. Clearance \in Nat /\ Activation \in Nat
  OBVIOUS
<1>2. clear \in Ages(Clearance) /\ clearRun \in Ages(Clearance) /\ clear = clearRun
  BY DEF IInv, TypeOK, ClocksAgree
<1>3. activation \in Ages(Activation) /\ activeRun \in Ages(Activation)
  BY DEF IInv, TypeOK
<1>4. clear' = Run(clear, kind, "clearing", dt, Clearance)
      /\ clearRun' = Run(clearRun, kind, "clearing", dt, Clearance)
      /\ activeRun' = Run(activeRun, kind, "activating", dt, Activation)
      /\ synced' = TRUE
  BY DEF Seen, ClearAge
<1>5. clear' \in Ages(Clearance) /\ clearRun' \in Ages(Clearance)
      /\ activeRun' \in Ages(Activation) /\ ActivationAge(kind, dt) \in Ages(Activation)
  BY <1>1, <1>2, <1>3, <1>4, RunType DEF ActivationAge
<1>6. ASSUME Cleared(kind, dt) PROVE clearRun' = Clearance /\ activeRun' = None
  <2>1. clear' # None /\ clear' >= Clearance
    BY <1>4, <1>6 DEF Cleared, ClearAge
  <2>2. kind = "clearing"
    BY <1>1, <1>2, <1>4, <2>1, RunType
  <2>3. activeRun' = None
    BY <1>1, <1>3, <1>4, <2>2, RunType
  <2> QED BY <1>2, <1>4, <1>5, <2>1, <2>3 DEF Ages
<1>7. ~suppressed /\ duration = None => ActivationAge(kind, dt) = activeRun'
  BY <1>4 DEF ActivationAge, IInv, ClocksAgree
<1> QED BY <1>2, <1>4, <1>5, <1>6, <1>7 DEF ClearAge

(* A frame inside an episode keeps the invariant: the four ways it ends. *)
LEMMA RecordIInv ==
  ASSUME IInv, NEW kind \in Kinds, NEW dt \in 1..MaxGap, Seen(kind, dt),
         ~suppressed,
         NEW length \in Nat, NEW age \in Ages(SampleGap), NEW n \in 0..MaxSamples,
         Record(kind, dt, length, age, n)
  PROVE  IInv'
<1> USE EngineAssumption
<1>1. samples' \in 0..MaxSamples /\ retained' \in Ages(SampleGap)
  BY RetainType DEF Record
<1>2. released
  BY DEF IInv, NotSuppressedIsReleased
<1>3. released' \in BOOLEAN
  BY <1>2 DEF Record, Release
<1>4. activation \in Ages(Activation)
  BY DEF IInv, TypeOK
<1>5. Plus(activation, dt, Activation) \in Ages(Activation)
  BY <1>4, PlusType
<1>6. CASE length >= MaxDuration
  <2>1. /\ emitted' = "TRUNCATED_MAX_DURATION" /\ duration' = None
        /\ suppressed' = TRUE /\ activation' = None
    BY <1>6 DEF Record
  <2> QED BY <1>1, <1>3, <2>1, SeenFacts
          DEF IInv, TypeOK, ClocksAgree, NotSuppressedIsReleased, CompleteIsCleared, Ages
<1>7. CASE ~(length >= MaxDuration) /\ Cleared(kind, dt)
  <2>1. /\ emitted' = "COMPLETE" /\ duration' = None
        /\ suppressed' = FALSE /\ activation' = None /\ Release(kind, dt)
    BY <1>7 DEF Record
  <2>2. released' = TRUE
    BY <1>2, <2>1 DEF Release
  <2> QED BY <1>1, <1>7, <2>1, <2>2, SeenFacts
          DEF IInv, TypeOK, ClocksAgree, NotSuppressedIsReleased, CompleteIsCleared, Ages
<1>8. CASE ~(length >= MaxDuration) /\ ~Cleared(kind, dt)
  <2>1. /\ emitted' = None /\ duration' = length
        /\ suppressed' = suppressed /\ Release(kind, dt)
        /\ activation' = IF duration = None THEN ActivationAge(kind, dt)
                         ELSE Plus(activation, dt, Activation)
    BY <1>8 DEF Record
  <2>2. released' = TRUE
    BY <1>2, <2>1 DEF Release
  <2>3. duration' \in Ages(MaxDuration - 1) /\ duration' # None
    BY <1>8, <2>1 DEF Ages
  <2>4. activation' \in Ages(Activation)
    BY <1>5, <2>1, SeenFacts
  <2> QED BY <1>1, <2>1, <2>2, <2>3, <2>4, SeenFacts
          DEF IInv, TypeOK, ClocksAgree, NotSuppressedIsReleased, CompleteIsCleared
<1> QED BY <1>6, <1>7, <1>8

(* Every step keeps the invariant. *)
LEMMA NextIInv == IInv /\ [Next]_vars => IInv'
<1> USE EngineAssumption
<1> SUFFICES ASSUME IInv, [Next]_vars PROVE IInv'
  OBVIOUS
<1>1. ASSUME NEW terminal \in {"INCOMPLETE_SOURCE_GAP"}, Reset(terminal), Interrupted,
             synced' \in BOOLEAN
      PROVE  IInv'
  <2>1. suppressed' \in BOOLEAN /\ released' \in BOOLEAN
    BY <1>1 DEF Reset, Interrupted
  <2>2. TypeOK'
    BY <1>1, <2>1 DEF Reset, Interrupted, TypeOK, Ages
  <2>3. ClocksAgree' /\ CompleteIsCleared'
    BY <1>1 DEF Reset, Interrupted, ClocksAgree, CompleteIsCleared
  <2>4. NotSuppressedIsReleased'
    BY <1>1 DEF Interrupted, NotSuppressedIsReleased
  <2> QED BY <2>2, <2>3, <2>4 DEF IInv
<1>2. CASE abort
  BY <1>1, <1>2 DEF abort
<1>3. CASE Gap
  BY <1>1, <1>3 DEF Gap, IInv, TypeOK
<1>4. CASE Repeat
  BY <1>4 DEF Repeat, engine, history, IInv, TypeOK, ClocksAgree, NotSuppressedIsReleased, CompleteIsCleared
<1>5. ASSUME NEW kind \in Kinds, NEW dt \in 1..MaxGap, ingest(kind, dt) PROVE IInv'
  <2>1. Seen(kind, dt)
    BY <1>5 DEF ingest, Suppressed, Waiting, Begin, Continue
  <2>2. CASE Suppressed(kind, dt)
    <3>1. activation' \in Ages(Activation)
      BY PlusType, <2>2 DEF Suppressed, IInv, TypeOK, Ages
    <3>2. released' \in BOOLEAN
      BY <2>2 DEF Suppressed, Release
    <3>3. ~suppressed' => Cleared(kind, dt)
      BY <2>2 DEF Suppressed
    <3>4. Cleared(kind, dt) => activation' = None /\ released' = TRUE
      <4>1. Cleared(kind, dt) => clearRun' # None /\ clearRun' >= Clearance
        BY <2>1, SeenFacts
      <4> QED BY <2>2, <4>1 DEF Suppressed, Release
    <3>5. /\ emitted' = None /\ suppressed' \in BOOLEAN
          /\ UNCHANGED <<duration, retained, samples>>
      BY <2>2 DEF Suppressed
    <3>6. TypeOK'
      <4>1. TypeOK
        BY DEF IInv
      <4>2. /\ synced' \in BOOLEAN /\ clear' \in Ages(Clearance)
            /\ activeRun' \in Ages(Activation) /\ clearRun' \in Ages(Clearance)
        BY <2>1, SeenFacts
      <4> QED BY <3>1, <3>2, <3>5, <4>1, <4>2 DEF TypeOK
    <3>7. ClocksAgree'
      BY <2>1, <3>3, <3>4, SeenFacts DEF ClocksAgree
    <3>8. NotSuppressedIsReleased' /\ CompleteIsCleared'
      BY <3>3, <3>4, <3>5 DEF NotSuppressedIsReleased, CompleteIsCleared
    <3> QED BY <3>6, <3>7, <3>8 DEF IInv
  <2>3. CASE Waiting(kind, dt)
    <3>1. released' = TRUE
      BY <2>3 DEF Waiting, Release, IInv, NotSuppressedIsReleased
    <3> QED BY <2>1, <2>3, <3>1, SeenFacts
            DEF Waiting, IInv, TypeOK, ClocksAgree, NotSuppressedIsReleased, CompleteIsCleared
  <2>4. CASE Begin(kind, dt)
    <3>1. None \in Ages(SampleGap) /\ 0 \in 0..MaxSamples
      BY DEF Ages
    <3> QED BY <2>1, <2>4, <3>1, RecordIInv DEF Begin
  <2>5. CASE Continue(kind, dt)
    <3>1. duration + dt \in Nat /\ samples \in 0..MaxSamples
      BY <2>5 DEF Continue, IInv, TypeOK, Ages
    <3>2. Plus(retained, dt, SampleGap) \in Ages(SampleGap)
      BY PlusType DEF IInv, TypeOK
    <3> QED BY <2>1, <2>5, <3>1, <3>2, RecordIInv DEF Continue
  <2> QED BY <1>5, <2>2, <2>3, <2>4, <2>5 DEF ingest
<1>6. CASE UNCHANGED vars
  BY <1>6 DEF vars, IInv, TypeOK, ClocksAgree, NotSuppressedIsReleased, CompleteIsCleared
<1> QED BY <1>2, <1>3, <1>4, <1>5, <1>6 DEF Next

(* The inductive invariant holds in every reachable state of the engine. *)
THEOREM EngineInvariant == Spec => []IInv
  BY InitIInv, NextIInv, PTL DEF Spec

(* The clocks and counters of ingest() stay within their limits: an open   *)
(* episode is shorter than MaxDuration and keeps at most MaxSamples.       *)
THEOREM EngineTypeOK == Spec => []TypeOK
<1>1. IInv => TypeOK
  BY DEF IInv
<1> QED BY <1>1, EngineInvariant, PTL

(* ingest() says COMPLETE only after Clearance of uninterrupted clearing. *)
THEOREM CompleteAfterClearance == Spec => []CompleteIsCleared
<1>1. IInv => CompleteIsCleared
  BY DEF IInv
<1> QED BY <1>1, EngineInvariant, PTL

(* An episode that opens was earned by a full activation and, after a      *)
(* truncation, by a full clearance or an interruption of the source.       *)
LEMMA StartStep ==
  ASSUME IInv, Next, duration = None, duration' # None
  PROVE  activeRun' = Activation /\ released
<1> USE EngineAssumption
<1>1. ~abort /\ ~Gap /\ ~Repeat
  BY DEF abort, Gap, Repeat, Reset, engine
<1>2. PICK kind \in Kinds, dt \in 1..MaxGap : ingest(kind, dt)
  BY <1>1 DEF Next
<1>3. Begin(kind, dt)
  BY <1>2 DEF ingest, Suppressed, Waiting, Continue
<1>4. Seen(kind, dt) /\ ~suppressed
  BY <1>3 DEF Begin
<1>5. ActivationAge(kind, dt) = activeRun' /\ activeRun' \in Ages(Activation)
  BY <1>4, SeenFacts
<1>6. ActivationAge(kind, dt) # None /\ ActivationAge(kind, dt) >= Activation
  BY <1>3 DEF Begin
<1> QED BY <1>4, <1>5, <1>6 DEF Ages, IInv, NotSuppressedIsReleased

(* One long manoeuvre never counts as several episodes. *)
THEOREM EpisodesAreEarned == Spec => StartIsEarned
<1>1. IInv /\ [Next]_vars =>
        [duration = None /\ duration' # None => activeRun' = Activation /\ released]_vars
  BY StartStep DEF vars
<1> QED BY <1>1, EngineInvariant, PTL DEF Spec, StartIsEarned

-----------------------------------------------------------------------------
(* The runtime around the engine. *)

FactSet ==
  [connection : Connections,
   input      : [state: InputStates, reason: InputReasons],
   activity   : [state: {"WAITING", "PRE", "ACTIVE", "POST", "COMPLETED", "SKIPPED"},
                 reason: ActivityReasons, episodeId: Episodes \cup {Null}],
   delivery   : [state: {"IDLE", "PENDING", "RETRYING", "BLOCKED"}, queued: Nat],
   advisory   : [state: {"WAITING", "CONFIRMED", "UNAVAILABLE", "REAUTHENTICATING"},
                 requestId: {Null, "request"}],
   lastResult : Episodes \cup {Null}]

(* The rules of content() between fields. *)
Coupled(f) ==
  /\ (f.input.state = "RECEIVING") = (f.input.reason = "NONE")
  /\ f.activity.state = "SKIPPED" => f.activity.reason # "NONE"
  /\ f.advisory.state = "CONFIRMED" => f.advisory.requestId # Null

Sound(f) == f \in FactSet /\ Coupled(f)

(* Names that the facts may be given. *)
NamesOK == serial \in Episodes /\ (finished # None => finished.id \in Episodes)

(* Without a session nothing is RECEIVING, so aborting the engine there    *)
(* needs no word in the facts; without a store, during a reset and while a *)
(* finished episode is assessed, no episode is open.                       *)
QuietOutside == stage \in {"idle", "opening", "failing", "classified", "stopped"} => facts.input.state # "RECEIVING"

NoEpisode == ~store \/ reset \/ stage = "assessing" => duration = None

FInv == Sound(facts) /\ NamesOK

AInv == FInv /\ QuietOutside /\ NoEpisode /\ ActivityFollowsEngine

-----------------------------------------------------------------------------
(* The setters keep facts sound, and change only their own part. *)

LEMMA InputSound ==
  ASSUME NEW f, Sound(f), NEW c \in Connections, NEW s \in InputStates, NEW r \in InputReasons,
         (s = "RECEIVING") = (r = "NONE")
  PROVE  /\ Sound(input(f, c, s, r)) /\ input(f, c, s, r).input.state = s
         /\ input(f, c, s, r).activity = f.activity
  BY DEF Sound, Coupled, FactSet, input

LEMMA ActivitySound ==
  ASSUME NEW f, Sound(f), NEW s \in {"WAITING", "ACTIVE", "COMPLETED", "SKIPPED"},
         NEW r \in ActivityReasons, s = "SKIPPED" => r # "NONE", NEW id \in Episodes \cup {Null}
  PROVE  /\ Sound(activity(f, s, r, id)) /\ activity(f, s, r, id).input = f.input
         /\ activity(f, s, r, id).activity = [state |-> s, reason |-> r, episodeId |-> id]
  BY DEF Sound, Coupled, FactSet, activity

(* The activities without an open episode, for facts named g. *)
LEMMA InactiveSound ==
  ASSUME NEW f, Sound(f), NEW s \in {"WAITING", "COMPLETED", "SKIPPED"},
         NEW r \in ActivityReasons, s = "SKIPPED" => r # "NONE", NEW id \in Episodes \cup {Null},
         NEW g, g = activity(f, s, r, id)
  PROVE  Sound(g) /\ g.input = f.input /\ g.activity.state = s /\ g.activity.state # "ACTIVE"
<1>1. Sound(g) /\ g.input = f.input /\ g.activity = [state |-> s, reason |-> r, episodeId |-> id]
  BY ActivitySound
<1>2. g.activity.state = s
  BY <1>1
<1> QED BY <1>1, <1>2

LEMMA InterruptionSound ==
  ASSUME NEW f, Sound(f), NEW r \in ActivityReasons, r # "NONE"
  PROVE  Sound(interruption(f, r))
<1>1. f.activity.episodeId \in Episodes \cup {Null}
  BY DEF Sound, FactSet
<1> QED BY <1>1, ActivitySound DEF interruption

LEMMA AdvisorySound ==
  ASSUME NEW f, Sound(f), NEW s \in {"WAITING", "CONFIRMED", "UNAVAILABLE", "REAUTHENTICATING"},
         NEW q \in {Null, "request"}, s = "CONFIRMED" => q # Null
  PROVE  /\ Sound(advisory(f, s, q)) /\ advisory(f, s, q).input = f.input
         /\ advisory(f, s, q).activity = f.activity
  BY DEF Sound, Coupled, FactSet, advisory

LEMMA ResultSound ==
  ASSUME NEW f, Sound(f), NEW id \in Episodes
  PROVE  /\ Sound(result(f, id)) /\ result(f, id).input = f.input
         /\ result(f, id).activity = f.activity
  BY DEF Sound, Coupled, FactSet, result

(* A snapshot of sound facts passes the check. *)
LEMMA SnapshotSound ==
  ASSUME NEW f, Sound(f), NEW queued \in Nat, NEW blocked
  PROVE  content(snapshot(f, queued, blocked))
<1> DEFINE d == [queued |-> queued,
                 state  |-> IF blocked THEN "BLOCKED" ELSE IF queued = 0 THEN "IDLE"
                            ELSE IF f.delivery.state = "IDLE" THEN "PENDING" ELSE f.delivery.state]
           c == [f EXCEPT !.delivery = d]
<1>1. d.queued \in Nat /\ d.state \in {"IDLE", "PENDING", "RETRYING", "BLOCKED"}
  BY DEF Sound, FactSet
<1>2. /\ c.connection = f.connection /\ c.input = f.input /\ c.activity = f.activity
      /\ c.advisory = f.advisory /\ c.delivery = d
  BY DEF Sound, FactSet
<1>3. content(c)
  <2> HIDE DEF c, d
  <2> QED BY <1>1, <1>2 DEF content, Sound, Coupled, FactSet
<1> QED BY <1>3 DEF snapshot

-----------------------------------------------------------------------------
(* What the facts of an operation are, and that they are sound. *)

LEMMA ReceivingSound ==
  ASSUME Sound(facts)
  PROVE  Sound(Receiving) /\ Receiving.input.state = "RECEIVING"
  BY InputSound DEF Receiving, Connections, InputStates, InputReasons

LEMMA DisconnectedSound ==
  ASSUME Sound(facts)
  PROVE  /\ Sound(Disconnected(facts))
         /\ Disconnected(facts).input.state # "RECEIVING"
<1>1. Sound(interruption(facts, "SOURCE_DISCONTINUITY"))
  BY InterruptionSound DEF ActivityReasons
<1> QED BY <1>1, InputSound DEF Disconnected, Connections, InputStates, InputReasons

LEMMA InputObservationSound ==
  ASSUME NEW f, Sound(f), NEW c \in Connections, NEW s \in InputStates, NEW r \in InputReasons,
         s # "RECEIVING", r # "NONE"
  PROVE  /\ Sound(input_observation(f, c, s, r))
         /\ input_observation(f, c, s, r).input.state = s
<1> DEFINE why == IF r = "REAUTHENTICATING" THEN r ELSE "SOURCE_DISCONTINUITY"
<1>1. why \in ActivityReasons /\ why # "NONE"
  BY DEF ActivityReasons
<1>2. Sound(interruption(f, why))
  BY <1>1, InterruptionSound
<1> HIDE DEF why
<1>3. Sound(input(interruption(f, why), c, s, r)) /\ input(interruption(f, why), c, s, r).input.state = s
  BY <1>2, InputSound
<1> QED BY <1>3 DEF why, input_observation

LEMMA OtherType == ASSUME NEW id \in Episodes PROVE Other(id) \in Episodes
<1>1. \E e \in Episodes : e # id
  BY DEF Episodes
<1> QED BY <1>1 DEF Other

(* A frame that ends an episode leaves none open. *)
LEMMA EndedIsClosed == ASSUME EngineStep, emitted' # None PROVE duration' = None
  BY DEF EngineStep, Gap, Repeat, Reset, ingest, Suppressed, Waiting, Begin, Continue, Record

LEMMA AbortCloses == ASSUME abort PROVE duration' = None
  BY DEF abort, Reset

-----------------------------------------------------------------------------
LEMMA InitAInv == RuntimeInit => AInv
<1> SUFFICES ASSUME RuntimeInit PROVE AInv
  OBVIOUS
<1>1. Sound(facts) /\ facts.input.state = "WAITING"
  BY DEF RuntimeInit, Fresh, Sound, FactSet, Coupled, Connections, InputStates, InputReasons, ActivityReasons
<1>2. serial \in Episodes /\ finished = None /\ duration = None
  BY DEF RuntimeInit, Init, Episodes
<1> QED BY <1>1, <1>2 DEF AInv, FInv, NamesOK, QuietOutside, NoEpisode, ActivityFollowsEngine

(* The three kinds of frame. *)
LEMMA FrameStep ==
  ASSUME AInv, FrameWithoutStore \/ FrameDuringReset \/ Frame PROVE AInv'
<1> USE DEF AInv, FInv
<1>1. Sound(Receiving) /\ Receiving.input.state = "RECEIVING"
  BY ReceivingSound
<1>2. CASE FrameWithoutStore
  <2>1. /\ Sound(facts') /\ facts'.input.state = "RECEIVING"
        /\ facts'.activity.state = "SKIPPED"
    <3>1. facts' = activity(Receiving, "SKIPPED", "STORAGE_UNAVAILABLE", Null)
      BY <1>2 DEF FrameWithoutStore
    <3>2. "STORAGE_UNAVAILABLE" \in ActivityReasons /\ Null \in Episodes \cup {Null}
      BY DEF ActivityReasons
    <3>3. Sound(facts') /\ facts'.input = Receiving.input /\ facts'.activity.state = "SKIPPED"
      BY <1>1, <3>1, <3>2, InactiveSound
    <3> QED BY <1>1, <3>3
  <2>2. duration' = None /\ stage' = "reading"
    BY <1>2 DEF FrameWithoutStore, EngineRests, engineVars, engine, NoEpisode
  <2> QED BY <1>2, <2>1, <2>2 DEF FrameWithoutStore, NamesOK, QuietOutside, NoEpisode, ActivityFollowsEngine
<1>3. CASE FrameDuringReset
  <2>1. /\ Sound(facts') /\ facts'.input.state = "RECEIVING"
        /\ facts'.activity.state = "WAITING"
    <3>1. facts' = activity(Receiving, "WAITING", "RESET", Null)
      BY <1>3 DEF FrameDuringReset
    <3>2. "RESET" \in ActivityReasons /\ Null \in Episodes \cup {Null}
      BY DEF ActivityReasons
    <3>3. Sound(facts') /\ facts'.input = Receiving.input /\ facts'.activity.state = "WAITING"
      BY <1>1, <3>1, <3>2, InactiveSound
    <3> QED BY <1>1, <3>3
  <2>2. duration' = None /\ stage' = "reading"
    BY <1>3 DEF FrameDuringReset, EngineRests, engineVars, engine, NoEpisode
  <2> QED BY <1>3, <2>1, <2>2 DEF FrameDuringReset, NamesOK, QuietOutside, NoEpisode, ActivityFollowsEngine
<1>4. CASE Frame
  <2>1. serial' \in Episodes
    BY <1>4, OtherType DEF Frame, NamesOK
  <2>2. CASE emitted' # None
    <3>1. duration' = None
      BY <1>4, <2>2, EndedIsClosed DEF Frame
    <3>2. /\ Sound(facts') /\ facts'.input.state = "RECEIVING"
          /\ facts'.activity.state = "SKIPPED"
      <4>1. PICK why \in {"SOURCE_DISCONTINUITY", "INSUFFICIENT_SAMPLES"} :
              facts' = activity(Receiving, "SKIPPED", why, serial')
        BY <1>4, <2>2 DEF Frame
      <4>2. why \in ActivityReasons /\ why # "NONE" /\ serial' \in Episodes \cup {Null}
        BY <2>1 DEF ActivityReasons
      <4>3. Sound(facts') /\ facts'.input = Receiving.input /\ facts'.activity.state = "SKIPPED"
        BY <1>1, <4>1, <4>2, InactiveSound
      <4> QED BY <1>1, <4>3
    <3>3. stage' = "assessing" /\ finished'.id = serial'
      BY <1>4, <2>2 DEF Frame
    <3> QED BY <2>1, <3>1, <3>2, <3>3 DEF NamesOK, QuietOutside, NoEpisode, ActivityFollowsEngine
  <2>3. CASE emitted' = None
    <3>1. /\ Sound(facts') /\ facts'.input.state = "RECEIVING"
          /\ facts'.activity = IF duration' # None
               THEN [state |-> "ACTIVE", reason |-> "NONE", episodeId |-> serial']
               ELSE [state |-> "WAITING", reason |-> "NOT_QUALIFIED", episodeId |-> Null]
      <4>1. CASE duration' # None
        <5>1. facts' = activity(Receiving, "ACTIVE", "NONE", serial')
          BY <1>4, <2>3, <4>1 DEF Frame
        <5> QED BY <1>1, <2>1, <4>1, <5>1, ActivitySound DEF ActivityReasons
      <4>2. CASE duration' = None
        <5>1. facts' = activity(Receiving, "WAITING", "NOT_QUALIFIED", Null)
          BY <1>4, <2>3, <4>2 DEF Frame
        <5> QED BY <1>1, <4>2, <5>1, ActivitySound DEF ActivityReasons
      <4> QED BY <4>1, <4>2
    <3>2. stage' = "reading" /\ finished' = finished /\ store' /\ ~reset'
      BY <1>4, <2>3 DEF Frame
    <3>3. NamesOK' /\ QuietOutside' /\ NoEpisode'
      BY <2>1, <3>2 DEF NamesOK, QuietOutside, NoEpisode
    <3>4. ActivityFollowsEngine'
      BY <3>1 DEF ActivityFollowsEngine, activity_id
    <3> QED BY <3>1, <3>3, <3>4
  <2> QED BY <2>2, <2>3
<1> QED BY <1>2, <1>3, <1>4

(* The two activities that apply_episode sets. *)
LEMMA CompletedSound ==
  ASSUME NEW f, Sound(f), NEW e \in Episodes, NEW g, g = activity(f, "COMPLETED", "NONE", e)
  PROVE  Sound(g) /\ g.input = f.input /\ g.activity.state = "COMPLETED"
<1>1. g = [f EXCEPT !.activity = [state |-> "COMPLETED", reason |-> "NONE", episodeId |-> e]]
  BY DEF activity
<1> QED BY <1>1 DEF Sound, Coupled, FactSet, ActivityReasons

LEMMA NoSpaceSound ==
  ASSUME NEW f, Sound(f), NEW e \in Episodes, NEW g,
         g = activity(f, "SKIPPED", "STORAGE_UNAVAILABLE", e)
  PROVE  Sound(g) /\ g.input = f.input /\ g.activity.state = "SKIPPED"
<1>1. g = [f EXCEPT !.activity = [state |-> "SKIPPED", reason |-> "STORAGE_UNAVAILABLE", episodeId |-> e]]
  BY DEF activity
<1> QED BY <1>1 DEF Sound, Coupled, FactSet, ActivityReasons

(* A finished episode is applied. *)
LEMMA ApplyStep ==
  ASSUME AInv, NEW outcome \in {"published", "committed", "no space", "refused"}, apply_episode(outcome)
  PROVE  AInv'
<1> USE DEF AInv, FInv
<1>1. finished.id \in Episodes /\ duration = None /\ duration' = None
  BY DEF apply_episode, NamesOK, NoEpisode, EngineRests, engineVars, engine
<1>2. stage' = "reading" /\ finished' = None /\ serial' = serial /\ facts' = Assessed(outcome)
  BY DEF apply_episode
<1>3. /\ Sound(facts') /\ facts'.input = facts.input
      /\ facts'.activity.state \in {"COMPLETED", "SKIPPED", facts.activity.state}
  <2>1. CASE outcome = "published"
    <3>1. PICK done : done = activity(facts, "COMPLETED", "NONE", finished.id)
      OBVIOUS
    <3>2. Sound(done) /\ done.input = facts.input /\ done.activity.state = "COMPLETED"
      BY <1>1, <3>1, CompletedSound, Zenon
    <3>3. facts' = result(done, finished.id)
      BY <1>2, <2>1, <3>1 DEF Assessed
    <3>4. Sound(facts') /\ facts'.input = done.input /\ facts'.activity = done.activity
      BY <1>1, <3>2, <3>3, ResultSound
    <3> QED BY <3>2, <3>4
  <2>2. CASE outcome = "committed"
    <3>1. facts' = activity(facts, "COMPLETED", "NONE", finished.id)
      BY <1>2, <2>2 DEF Assessed
    <3>2. Sound(facts') /\ facts'.input = facts.input /\ facts'.activity.state = "COMPLETED"
      BY <1>1, <3>1, CompletedSound, Zenon
    <3> QED BY <3>2
  <2>3. CASE outcome = "no space"
    <3>1. facts' = activity(facts, "SKIPPED", "STORAGE_UNAVAILABLE", finished.id)
      BY <1>2, <2>3 DEF Assessed
    <3>2. Sound(facts') /\ facts'.input = facts.input /\ facts'.activity.state = "SKIPPED"
      BY <1>1, <3>1, NoSpaceSound, Zenon
    <3> QED BY <3>2
  <2>4. CASE outcome = "refused"
    BY <1>2, <2>4 DEF Assessed
  <2> QED BY <2>1, <2>2, <2>3, <2>4
<1> QED BY <1>1, <1>2, <1>3 DEF NamesOK, QuietOutside, NoEpisode, ActivityFollowsEngine

(* Sessions open, expire and end: outside of them nothing is RECEIVING. *)
LEMMA SessionStep ==
  ASSUME AInv,
         \/ \E changed \in BOOLEAN : Open(changed)
         \/ GetAnswered \/ expire_input \/ reauthenticate \/ disconnect \/ stop
         \/ Fail \/ Report \/ \E o \in Failures : Classify(o)
  PROVE  AInv'
<1> USE DEF AInv, FInv
<1>1. CASE \E changed \in BOOLEAN : Open(changed)
  <2>1. facts' = facts /\ stage' = "opening" /\ facts.input.state # "RECEIVING"
    BY <1>1 DEF Open, QuietOutside
  <2>2. duration' \in {duration, None} /\ serial' = serial /\ finished' = finished
        /\ store' = store /\ reset' = reset
    BY <1>1, AbortCloses DEF Open, EngineRests, engineVars, engine
  <2> QED BY <2>1, <2>2 DEF NamesOK, QuietOutside, NoEpisode, ActivityFollowsEngine
<1>2. CASE GetAnswered
  <2>1. Sound(facts') /\ facts'.input.state # "RECEIVING"
    BY <1>2, InputObservationSound DEF GetAnswered, Connections, InputStates, InputReasons
  <2>2. /\ duration' = duration /\ serial' = serial /\ finished' = finished
        /\ store' = store /\ reset' = reset /\ stage' = "reading"
    BY <1>2 DEF GetAnswered, EngineRests, engineVars, engine
  <2> QED BY <2>1, <2>2 DEF NamesOK, QuietOutside, NoEpisode, ActivityFollowsEngine
<1>3. CASE expire_input
  <2>1. Sound(interruption(facts, "SOURCE_DISCONTINUITY"))
    BY InterruptionSound DEF ActivityReasons
  <2>2. Sound(facts') /\ facts'.input.state # "RECEIVING"
    <3>1. PICK g : g = interruption(facts, "SOURCE_DISCONTINUITY")
      OBVIOUS
    <3>2. facts' = input(g, "CONNECTED", "STALE", "SOURCE_GAP")
      BY <1>3, <3>1 DEF expire_input
    <3> QED BY <2>1, <3>1, <3>2, InputSound DEF Connections, InputStates, InputReasons
  <2>3. duration' = None /\ serial' = serial /\ finished' = finished
    BY <1>3, AbortCloses DEF expire_input
  <2> QED BY <2>2, <2>3 DEF NamesOK, QuietOutside, NoEpisode, ActivityFollowsEngine
<1>4. CASE reauthenticate
  <2> DEFINE f == input(facts, "REAUTHENTICATING", "WAITING", "REAUTHENTICATING")
  <2>1. Sound(f) /\ f.input.state # "RECEIVING"
    BY InputSound DEF Connections, InputStates, InputReasons
  <2> HIDE DEF f
  <2>2. Sound(advisory(f, "REAUTHENTICATING", Null)) /\ advisory(f, "REAUTHENTICATING", Null).input = f.input
    BY <2>1, AdvisorySound
  <2>3. Sound(facts') /\ facts'.input.state # "RECEIVING"
    BY <1>4, <2>1, <2>2 DEF reauthenticate, f
  <2>4. /\ duration' = duration /\ serial' = serial /\ finished' = finished
        /\ store' = store /\ reset' = reset /\ stage' = "idle"
    BY <1>4 DEF reauthenticate, EngineRests, engineVars, engine
  <2> QED BY <2>3, <2>4 DEF NamesOK, QuietOutside, NoEpisode, ActivityFollowsEngine
<1>5. CASE disconnect
  <2>1. Sound(facts') /\ facts'.input.state # "RECEIVING"
    BY <1>5, DisconnectedSound DEF disconnect
  <2>2. duration' = None /\ serial' = serial /\ finished' = finished
    BY <1>5, AbortCloses DEF disconnect
  <2> QED BY <2>1, <2>2 DEF NamesOK, QuietOutside, NoEpisode, ActivityFollowsEngine
<1>6. CASE stop
  <2>1. facts' = facts /\ facts.input.state # "RECEIVING"
    BY <1>6 DEF stop, QuietOutside
  <2>2. duration' = None /\ serial' = serial /\ finished' = finished
    BY <1>6, AbortCloses DEF stop
  <2> QED BY <2>1, <2>2 DEF NamesOK, QuietOutside, NoEpisode, ActivityFollowsEngine
<1>7. CASE Fail
  <2>1. Sound(facts') /\ facts'.input.state # "RECEIVING"
    BY <1>7, DisconnectedSound DEF Fail
  <2>2. duration' = None /\ serial' = serial /\ finished' = None
    BY <1>7, AbortCloses DEF Fail
  <2> QED BY <2>1, <2>2 DEF NamesOK, QuietOutside, NoEpisode, ActivityFollowsEngine
<1>8. CASE \E o \in Failures : Classify(o)
  <2> PICK o \in Failures : Classify(o)
    BY <1>8
  <2>1. /\ o[1] \in Connections /\ o[2] \in InputStates /\ o[3] \in InputReasons
        /\ o[2] # "RECEIVING" /\ o[3] # "NONE"
    BY DEF Failures, Connections, InputStates, InputReasons
  <2>2. Sound(facts') /\ facts'.input.state # "RECEIVING"
    BY <2>1, InputObservationSound DEF Classify
  <2>3. /\ duration' = duration /\ serial' = serial /\ finished' = finished
        /\ store' = store /\ reset' = reset /\ stage' = "classified"
    BY DEF Classify, EngineRests, engineVars, engine
  <2>4. NoEpisode'
    BY <2>3 DEF NoEpisode
  <2> QED BY <2>2, <2>3, <2>4 DEF NamesOK, QuietOutside, ActivityFollowsEngine
<1>9. CASE Report
  <2>1. Sound(facts') /\ facts'.input = facts.input
    BY <1>9, AdvisorySound DEF Report
  <2>2. facts.input.state # "RECEIVING"
    BY <1>9 DEF Report, QuietOutside
  <2>3. /\ duration' = duration /\ serial' = serial /\ finished' = finished
        /\ store' = store /\ reset' = reset /\ stage' = "idle"
    BY <1>9 DEF Report, EngineRests, engineVars, engine
  <2>4. NoEpisode'
    BY <2>3 DEF NoEpisode
  <2> QED BY <2>1, <2>2, <2>3, <2>4 DEF NamesOK, QuietOutside, ActivityFollowsEngine
<1> QED BY <1>1, <1>2, <1>3, <1>4, <1>5, <1>6, <1>7, <1>8, <1>9

(* The advisory thread, Gateway answers, expired resets. *)
LEMMA AdvisoryStep ==
  ASSUME AInv,
         \/ AdvisoryWritten \/ AdvisoryFailed
         \/ \E state \in {"RECEIVED", "APPLIED", "CLEARED", "REJECTED"} : GatewayAnswered(state)
         \/ ResetExpires
  PROVE  AInv'
<1> USE DEF AInv, FInv
<1>1. /\ duration' = duration /\ serial' = serial /\ finished' = finished
      /\ store' = store /\ (reset' => reset) /\ stage' = stage
  <2>1. CASE AdvisoryWritten \/ AdvisoryFailed
    BY <2>1 DEF AdvisoryWritten, AdvisoryFailed, EngineRests, engineVars, engine, runtime
  <2>2. CASE \E state \in {"RECEIVED", "APPLIED", "CLEARED", "REJECTED"} : GatewayAnswered(state)
    BY <2>2 DEF GatewayAnswered, EngineRests, engineVars, engine
  <2>3. CASE ResetExpires
    BY <2>3 DEF ResetExpires, EngineRests, engineVars, engine
  <2> QED BY <2>1, <2>2, <2>3
<1>2. Sound(facts') /\ facts'.input = facts.input /\ facts'.activity = facts.activity
  <2>1. CASE AdvisoryWritten
    BY <2>1, AdvisorySound DEF AdvisoryWritten, Null
  <2>2. CASE AdvisoryFailed
    BY <2>2, AdvisorySound DEF AdvisoryFailed
  <2>3. CASE \E state \in {"RECEIVED", "APPLIED", "CLEARED", "REJECTED"} : GatewayAnswered(state)
    <3> PICK state \in {"RECEIVED", "APPLIED", "CLEARED", "REJECTED"} : GatewayAnswered(state)
      BY <2>3
    <3>1. Shown(state) \in {"WAITING", "CONFIRMED", "UNAVAILABLE", "REAUTHENTICATING"}
      BY DEF Shown
    <3>2. "request" \in {Null, "request"} /\ "request" # Null
      BY DEF Null
    <3>3. facts' = advisory(facts, Shown(state), "request")
      BY DEF GatewayAnswered
    <3>4. PICK s \in {"WAITING", "CONFIRMED", "UNAVAILABLE", "REAUTHENTICATING"} : s = Shown(state)
      BY <3>1
    <3>5. facts' = advisory(facts, s, "request")
      BY <3>3, <3>4
    <3> QED BY <3>2, <3>5, AdvisorySound
  <2>4. CASE ResetExpires
    BY <2>4 DEF ResetExpires
  <2> QED BY <2>1, <2>2, <2>3, <2>4
<1> QED BY <1>1, <1>2 DEF NamesOK, QuietOutside, NoEpisode, ActivityFollowsEngine, activity_id

(* The backend answered a message. *)
LEMMA ReceiptStep ==
  ASSUME AInv, accept(TRUE, 200) \/ \E status \in {0, 200, 400, 503} : accept(FALSE, status)
  PROVE  AInv'
<1>1. /\ duration' = duration /\ serial' = serial /\ finished' = finished
      /\ store' = store /\ reset' = reset /\ stage' = stage
  BY DEF accept, EngineRests, engineVars, engine, runtime
<1>2. Sound(facts) /\ facts \in FactSet
  BY DEF AInv, FInv, Sound
<1>3. \E d \in {"PENDING", "RETRYING", "BLOCKED"} : facts' = [facts EXCEPT !.delivery.state = d]
  <2>1. CASE accept(TRUE, 200)
    BY <2>1 DEF accept, delivery
  <2>2. CASE \E status \in {0, 200, 400, 503} : accept(FALSE, status)
    BY <2>2 DEF accept, delivery
  <2> QED BY <2>1, <2>2
<1>4. Sound(facts') /\ facts'.input = facts.input /\ facts'.activity = facts.activity
  BY <1>2, <1>3 DEF Sound, Coupled, FactSet
<1> QED BY <1>1, <1>4 DEF AInv, FInv, NamesOK, QuietOutside, NoEpisode, ActivityFollowsEngine, activity_id

(* A reset replaces the engine and says so. *)
LEMMA ResetStep == ASSUME AInv, demo_control_command PROVE AInv'
<1> USE DEF AInv, FInv
<1>1. duration' = None /\ serial' = serial /\ finished' = finished /\ stage' = stage
  BY AbortCloses DEF demo_control_command
<1>2. facts' = activity(facts, "WAITING", "RESET", Null)
  BY DEF demo_control_command
<1>3. "RESET" \in ActivityReasons /\ Null \in Episodes \cup {Null}
  BY DEF ActivityReasons
<1>4. Sound(facts') /\ facts'.input = facts.input /\ facts'.activity.state = "WAITING"
  BY <1>2, <1>3, InactiveSound
<1> QED BY <1>1, <1>4 DEF NamesOK, QuietOutside, NoEpisode, ActivityFollowsEngine

(* Every step of every thread keeps the invariant. *)
LEMMA AInvNext == AInv /\ [RuntimeNext]_allVars => AInv'
<1> SUFFICES ASSUME AInv, [RuntimeNext]_allVars PROVE AInv'
  OBVIOUS
<1>1. CASE RuntimeNext
  <2>1. \/ FrameWithoutStore \/ FrameDuringReset \/ Frame
        \/ \E outcome \in {"published", "committed", "no space", "refused"} : apply_episode(outcome)
        \/ \E changed \in BOOLEAN : Open(changed)
        \/ GetAnswered \/ expire_input \/ reauthenticate \/ disconnect \/ stop
        \/ Fail \/ Report \/ \E o \in Failures : Classify(o)
        \/ AdvisoryWritten \/ AdvisoryFailed
        \/ \E state \in {"RECEIVED", "APPLIED", "CLEARED", "REJECTED"} : GatewayAnswered(state)
        \/ accept(TRUE, 200) \/ \E status \in {0, 200, 400, 503} : accept(FALSE, status)
        \/ ResetExpires \/ demo_control_command
    BY <1>1, Zenon DEF RuntimeNext
  <2>2. CASE FrameWithoutStore \/ FrameDuringReset \/ Frame
    BY <2>2, FrameStep, Zenon
  <2>3. CASE \E outcome \in {"published", "committed", "no space", "refused"} : apply_episode(outcome)
    BY <2>3, ApplyStep, Zenon
  <2>4. CASE \/ \E changed \in BOOLEAN : Open(changed)
             \/ GetAnswered \/ expire_input \/ reauthenticate \/ disconnect \/ stop
             \/ Fail \/ Report \/ \E o \in Failures : Classify(o)
    BY <2>4, SessionStep, Zenon
  <2>5. CASE \/ AdvisoryWritten \/ AdvisoryFailed
             \/ \E state \in {"RECEIVED", "APPLIED", "CLEARED", "REJECTED"} : GatewayAnswered(state)
             \/ ResetExpires
    BY <2>5, AdvisoryStep, Zenon
  <2>6. CASE accept(TRUE, 200) \/ \E status \in {0, 200, 400, 503} : accept(FALSE, status)
    BY <2>6, ReceiptStep, Zenon
  <2>7. CASE demo_control_command
    BY <2>7, ResetStep, Zenon
  <2> QED BY <2>1, <2>2, <2>3, <2>4, <2>5, <2>6, <2>7, Zenon
<1>2. CASE UNCHANGED allVars
  BY <1>2 DEF allVars, vars, engine, AInv, FInv, NamesOK, QuietOutside, NoEpisode, ActivityFollowsEngine, activity_id
<1> QED BY <1>1, <1>2

(* Whatever order the threads set their facts in, no snapshot is refused,  *)
(* for any times and limits of the engine.                                 *)
THEOREM SnapshotsAreValid == RuntimeSpec => []SnapshotIsValid
<1>1. AInv => SnapshotIsValid
  <2> SUFFICES ASSUME AInv, NEW queued \in 0..1 PROVE content(snapshot(facts, queued, ~store))
    BY DEF SnapshotIsValid
  <2>1. Sound(facts) /\ queued \in Nat
    BY DEF AInv, FInv
  <2> QED BY <2>1, SnapshotSound
<1> QED BY <1>1, InitAInv, AInvNext, PTL DEF RuntimeSpec

(* While input is RECEIVING, the facts name the engine's open episode and  *)
(* no other, over expiry, renewal, resets and finished episodes.           *)
THEOREM ActivityIsTheEngines == RuntimeSpec => []ActivityFollowsEngine
<1>1. AInv => ActivityFollowsEngine
  BY DEF AInv
<1> QED BY <1>1, InitAInv, AInvNext, PTL DEF RuntimeSpec

-----------------------------------------------------------------------------
(* Whatever a method of the runtime does to the engine is a frame, an      *)
(* abort or nothing, also when another thread's method comes between.      *)
LEMMA EngineMoves == [RuntimeNext]_allVars => [Next]_vars
<1> SUFFICES ASSUME [RuntimeNext]_allVars PROVE [Next]_vars
  OBVIOUS
<1>1. EngineRests => UNCHANGED vars
  BY DEF EngineRests, engineVars, engine, history, vars
<1>2. abort => Next
  BY DEF Next
<1>3. CASE Frame
  <2>1. EngineStep
    BY <1>3 DEF Frame
  <2> QED BY <2>1 DEF EngineStep, Next
<1>4. CASE \/ expire_input \/ disconnect \/ stop \/ demo_control_command
           \/ Fail
  BY <1>2, <1>4 DEF expire_input, disconnect, stop, demo_control_command, Fail
<1>5. CASE \E changed \in BOOLEAN : Open(changed)
  BY <1>1, <1>2, <1>5 DEF Open
<1>6. CASE \/ FrameWithoutStore \/ FrameDuringReset
           \/ \E outcome \in {"published", "committed", "no space", "refused"} : apply_episode(outcome)
           \/ GetAnswered \/ reauthenticate \/ Report \/ \E o \in Failures : Classify(o)
  <2>1. FrameWithoutStore \/ FrameDuringReset => EngineRests
    BY DEF FrameWithoutStore, FrameDuringReset
  <2>2. \A outcome : apply_episode(outcome) => EngineRests
    BY DEF apply_episode
  <2>3. GetAnswered \/ reauthenticate \/ Report => EngineRests
    BY DEF GetAnswered, reauthenticate, Report
  <2>4. \A o : Classify(o) => EngineRests
    BY DEF Classify
  <2> QED BY <1>1, <1>6, <2>1, <2>2, <2>3, <2>4
<1>7. CASE \/ AdvisoryWritten \/ AdvisoryFailed
           \/ \E state \in {"RECEIVED", "APPLIED", "CLEARED", "REJECTED"} : GatewayAnswered(state)
           \/ ResetExpires
  <2>1. AdvisoryWritten \/ AdvisoryFailed \/ ResetExpires => EngineRests
    BY DEF AdvisoryWritten, AdvisoryFailed, ResetExpires
  <2>2. \A state : GatewayAnswered(state) => EngineRests
    BY DEF GatewayAnswered
  <2> QED BY <1>1, <1>7, <2>1, <2>2
<1>8. CASE accept(TRUE, 200) \/ \E status \in {0, 200, 400, 503} : accept(FALSE, status)
  BY <1>1, <1>8 DEF accept
<1>9. CASE UNCHANGED allVars
  BY <1>9 DEF allVars
<1>10. CASE RuntimeNext
  BY <1>3, <1>4, <1>5, <1>6, <1>7, <1>8, <1>10, Zenon DEF RuntimeNext
<1> QED BY <1>9, <1>10

(* The engine that the runtime drives is the engine: nothing that sessions *)
(* (disconnect, expire_input, stop), resets or the store do to it takes a  *)
(* step the engine on its own could not take.                              *)
THEOREM RuntimeRunsTheEngine == RuntimeSpec => Spec
<1>1. RuntimeInit => Init
  BY DEF RuntimeInit
<1> QED BY <1>1, EngineMoves, PTL DEF RuntimeSpec, Spec

(* So under the runtime's threads, too, an episode is opened only by a     *)
(* full activation time and COMPLETE only said after a full clearance.     *)
THEOREM EpisodesInTheRuntime == RuntimeSpec => []CompleteIsCleared /\ StartIsEarned
  BY RuntimeRunsTheEngine, CompleteAfterClearance, EpisodesAreEarned, PTL

-----------------------------------------------------------------------------
(* The assembly of the frames that ingest is given, over every history of   *)
(* updates (FrameHistory).                                                  *)

Updates == UNION {[some -> Entry] : some \in SUBSET Signals}

Reads == [update: Updates, wall: Walls, frame: Epochs \cup {NoEpoch}]

Assemblies == [values: [Signals -> Entry \cup {NoSignal}],
               previous: Epochs \cup {NoEpoch}, frame: Epochs \cup {NoEpoch}]

(* The entry v is good and of the instant e. *)
GoodAt(v, e) == v.quality = "good" /\ v.epoch = e

(* What is kept of a signal is its last entry. *)
KeptOf(s, n) ==
  \/ assembly.values[s] = NoSignal /\ \A i \in 1..n : s \notin DOMAIN updates[i].update
  \/ \E i \in 1..n : LastWith(s, i, n) /\ assembly.values[s] = signal(updates[i].update[s])

PreviousOK(n) == \A e \in Epochs : assembly.previous = e <=> IngestedLast(e, n)

FrInv ==
  /\ assembly \in Assemblies /\ updates \in Seq(Reads)
  /\ \A s \in Signals : KeptOf(s, Len(updates))
  /\ PreviousOK(Len(updates)) /\ FramesAreInstants

(* A stored value is good for an instant exactly if the entry is. *)
LEMMA SignalGood ==
  ASSUME NEW x \in Entry, NEW e \in Epochs
  PROVE  /\ GoodAt(signal(x), e) <=> x = [epoch |-> e, quality |-> "good"]
         /\ signal(x) \in Entry \cup {NoSignal} /\ ~GoodAt(NoSignal, e)
<1>1. ~GoodAt(NoSignal, e)
  BY DEF NoSignal, GoodAt
<1>2. GoodAt(x, e) <=> x = [epoch |-> e, quality |-> "good"]
  BY DEF GoodAt, Entry
<1>3. signal(x) = x \/ (signal(x) = NoSignal /\ x.quality = "unusable")
  BY DEF signal
<1>4. x.quality = "unusable" => ~GoodAt(x, e)
  BY DEF GoodAt
<1> QED BY <1>1, <1>2, <1>3, <1>4

(* When a frame is ingested, and what it makes the previous instant. *)
LEMMA UpdatedFields ==
  ASSUME NEW a \in Assemblies, NEW u \in Updates, NEW w \in Walls,
         NEW b, b = Updated(a, u, w)
  PROVE  /\ b \in Assemblies
         /\ \A s \in Signals : b.values[s] = IF s \in DOMAIN u THEN signal(u[s]) ELSE a.values[s]
         /\ \A e \in Epochs :
              b.frame = e <=> /\ \A s \in Signals : GoodAt(b.values[s], e)
                              /\ w >= e /\ w - e <= Window /\ a.previous # e
         /\ b.frame # NoEpoch => b.previous = b.frame
         /\ b.frame = NoEpoch => b.previous = a.previous
<1>0. \A s \in DOMAIN u : u[s] \in Entry /\ signal(u[s]) \in Entry \cup {NoSignal}
  <2>1. PICK some \in SUBSET Signals : u \in [some -> Entry]
    BY DEF Updates
  <2> QED BY <2>1 DEF signal
<1>1. PICK v : v = [s \in Signals |-> IF s \in DOMAIN u THEN signal(u[s]) ELSE a.values[s]]
  OBVIOUS
<1>2. v \in [Signals -> Entry \cup {NoSignal}]
  <2>1. ASSUME NEW s \in Signals
        PROVE  (IF s \in DOMAIN u THEN signal(u[s]) ELSE a.values[s]) \in Entry \cup {NoSignal}
    BY <1>0 DEF Assemblies
  <2> QED BY <1>1, <2>1
<1>3. PICK t \in Signals : t = CHOOSE s \in Signals : TRUE
  BY FrameAssumption
<1>4. b = IF complete_frame(v, w) /\ v[t].epoch # a.previous
          THEN [values |-> v, previous |-> v[t].epoch, frame |-> v[t].epoch]
          ELSE [a EXCEPT !.values = v, !.frame = NoEpoch]
  BY <1>1, <1>3 DEF Updated
<1>5. complete_frame(v, w) => v[t].epoch \in Epochs
  <2>1. complete_frame(v, w) => v[t].quality = "good"
    BY DEF complete_frame
  <2>2. v[t] \in Entry \cup {NoSignal}
    BY <1>2
  <2> QED BY <2>1, <2>2 DEF Entry, NoSignal
<1>6. \A e \in Epochs : complete_frame(v, w) /\ v[t].epoch = e <=>
        /\ \A s \in Signals : GoodAt(v[s], e)
        /\ w >= e /\ w - e <= Window
  BY DEF complete_frame, GoodAt
<1>7. NoEpoch \notin Epochs
  BY FrameAssumption DEF NoEpoch
<1>8. CASE complete_frame(v, w) /\ v[t].epoch # a.previous
  <2>1. PICK e \in Epochs : e = v[t].epoch
    BY <1>5, <1>8
  <2>2. b = [values |-> v, previous |-> e, frame |-> e]
    BY <1>4, <1>8, <2>1
  <2>3. b \in Assemblies /\ b.values = v /\ b.previous = e /\ b.frame = e
    BY <1>2, <2>2 DEF Assemblies
  <2>4. \A x \in Epochs : b.frame = x <=>
          complete_frame(v, w) /\ v[t].epoch = x /\ a.previous # x
    BY <1>8, <2>1, <2>3
  <2> QED BY <1>1, <1>6, <1>7, <2>3, <2>4
<1>9. CASE ~(complete_frame(v, w) /\ v[t].epoch # a.previous)
  <2>1. b = [a EXCEPT !.values = v, !.frame = NoEpoch]
    BY <1>4, <1>9
  <2>2. b \in Assemblies /\ b.values = v /\ b.previous = a.previous /\ b.frame = NoEpoch
    BY <1>2, <2>1 DEF Assemblies
  <2>3. \A x \in Epochs : b.frame = x <=>
          complete_frame(v, w) /\ v[t].epoch = x /\ a.previous # x
    BY <1>7, <1>9, <2>2
  <2> QED BY <1>1, <1>6, <2>2, <2>3
<1> QED BY <1>8, <1>9

(* What is said of the first n updates stays when one is added. *)
LEMMA OldUpdates ==
  ASSUME NEW N \in Nat, \A i \in 1..N : updates'[i] = updates[i]
  PROVE  /\ \A n \in 0..N : \A i, s : LastWith(s, i, n)' <=> LastWith(s, i, n)
         /\ \A n \in 0..N : \A e : IngestedLast(e, n)' <=> IngestedLast(e, n)
         /\ \A n \in 1..N : \A e : FrameDue(e, n)' <=> FrameDue(e, n)
<1>1. ASSUME NEW n \in 0..N, NEW i, NEW s PROVE LastWith(s, i, n)' <=> LastWith(s, i, n)
  <2>1. i \in 1..n => i \in 1..N /\ \A j \in (i + 1)..n : j \in 1..N
    OBVIOUS
  <2> QED BY <2>1 DEF LastWith
<1>2. ASSUME NEW n \in 0..N, NEW e PROVE IngestedLast(e, n)' <=> IngestedLast(e, n)
  <2>1. \A i \in 1..n : i \in 1..N /\ \A j \in (i + 1)..n : j \in 1..N
    OBVIOUS
  <2> QED BY <2>1 DEF IngestedLast
<1>3. ASSUME NEW n \in 1..N, NEW e PROVE FrameDue(e, n)' <=> FrameDue(e, n)
  <2>1. n \in 0..N /\ n - 1 \in 0..N /\ \A i \in 1..n : i \in 1..N
    OBVIOUS
  <2> QED BY <1>1, <1>2, <2>1 DEF FrameDue
<1> QED BY <1>1, <1>2, <1>3

(* After a step, the kept value of a signal is good for e exactly if the   *)
(* last entry is.                                                          *)
LEMMA KeptIsLast ==
  ASSUME NEW n \in Nat, NEW s \in Signals, NEW e \in Epochs, KeptOf(s, n)',
         \A i \in 1..n : updates'[i].update \in Updates
  PROVE  GoodAt(assembly'.values[s], e) <=>
           \E i \in 1..n : LastWith(s, i, n)' /\ updates'[i].update[s] = [epoch |-> e, quality |-> "good"]
<1>1. ASSUME NEW i \in 1..n, LastWith(s, i, n)' PROVE updates'[i].update[s] \in Entry
  <2>1. PICK some \in SUBSET Signals : updates'[i].update \in [some -> Entry]
    BY DEF Updates
  <2> QED BY <1>1, <2>1 DEF LastWith
<1>2. ASSUME NEW i \in 1..n, NEW j \in 1..n, LastWith(s, i, n)', LastWith(s, j, n)' PROVE i = j
  <2>1. ~(j \in (i + 1)..n) /\ ~(i \in (j + 1)..n)
    BY <1>2 DEF LastWith
  <2> QED BY <2>1
<1>3. CASE assembly'.values[s] = NoSignal /\ \A i \in 1..n : s \notin DOMAIN updates'[i].update
  <2>1. \A i \in 1..n : ~LastWith(s, i, n)'
    BY <1>3 DEF LastWith
  <2>2. ~GoodAt(NoSignal, e)
    BY DEF NoSignal, GoodAt
  <2> QED BY <1>3, <2>1, <2>2
<1>4. ASSUME NEW i \in 1..n, LastWith(s, i, n)', assembly'.values[s] = signal(updates'[i].update[s])
      PROVE  GoodAt(assembly'.values[s], e) <=>
               \E j \in 1..n : LastWith(s, j, n)' /\ updates'[j].update[s] = [epoch |-> e, quality |-> "good"]
  <2>1. PICK x \in Entry : x = updates'[i].update[s]
    BY <1>1, <1>4
  <2>2. GoodAt(signal(x), e) <=> x = [epoch |-> e, quality |-> "good"]
    BY SignalGood
  <2> QED BY <1>2, <1>4, <2>1, <2>2
<1> QED BY <1>3, <1>4 DEF KeptOf

LEMMA FrInvNext == FrInv /\ [FrameNext]_frameVars => FrInv'
<1> SUFFICES ASSUME FrInv, [FrameNext]_frameVars PROVE FrInv'
  OBVIOUS
<1>1. CASE UNCHANGED frameVars
  <2>1. updates' = updates /\ assembly' = assembly
    BY <1>1 DEF frameVars
  <2>2. \A s, n : KeptOf(s, n)' <=> KeptOf(s, n)
    BY <2>1 DEF KeptOf, LastWith
  <2>3. \A n : PreviousOK(n)' <=> PreviousOK(n)
    BY <2>1 DEF PreviousOK, IngestedLast
  <2>4. FramesAreInstants' <=> FramesAreInstants
    BY <2>1 DEF FramesAreInstants, FrameDue, LastWith, IngestedLast
  <2> QED BY <2>1, <2>2, <2>3, <2>4 DEF FrInv
<1>2. ASSUME NEW u \in Updates, NEW w \in Walls, AddUpdate(u, w) PROVE FrInv'
  <2>1. PICK a \in Assemblies : a = assembly
    BY DEF FrInv
  <2>2. PICK b : b = Updated(a, u, w)
    OBVIOUS
  <2>3. /\ b \in Assemblies
        /\ \A s \in Signals : b.values[s] = IF s \in DOMAIN u THEN signal(u[s]) ELSE a.values[s]
        /\ \A e \in Epochs :
             b.frame = e <=> /\ \A s \in Signals : GoodAt(b.values[s], e)
                             /\ w >= e /\ w - e <= Window /\ a.previous # e
        /\ b.frame # NoEpoch => b.previous = b.frame
        /\ b.frame = NoEpoch => b.previous = a.previous
    BY <2>2, UpdatedFields
  <2>4. assembly' = b
    BY <1>2, <2>1, <2>2 DEF AddUpdate
  <2>5. PICK x : x = [update |-> u, wall |-> w, frame |-> b.frame]
    OBVIOUS
  <2>6. x \in Reads /\ x.update = u /\ x.wall = w /\ x.frame = b.frame
    BY <2>3, <2>5 DEF Reads, Assemblies
  <2>7. updates' = Append(updates, x)
    BY <1>2, <2>4, <2>5 DEF AddUpdate
  <2>8. PICK N : N = Len(updates)
    OBVIOUS
  <2>9. updates \in Seq(Reads)
    BY DEF FrInv
  <2>10. /\ updates' \in Seq(Reads) /\ N \in Nat /\ Len(updates') = N + 1
         /\ DOMAIN updates = 1..N /\ DOMAIN updates' = 1..(N + 1)
         /\ \A i \in 1..N : updates'[i] = updates[i]
         /\ updates'[N + 1] = x
    BY <2>6, <2>7, <2>8, <2>9
  <2>11. PICK M \in Nat : M = N + 1 /\ M - 1 = N
    BY <2>10
  <2>12. /\ \A n \in 0..N : \A i, s : LastWith(s, i, n)' <=> LastWith(s, i, n)
         /\ \A n \in 0..N : \A e : IngestedLast(e, n)' <=> IngestedLast(e, n)
         /\ \A n \in 1..N : \A e : FrameDue(e, n)' <=> FrameDue(e, n)
    BY <2>10, OldUpdates
  <2>13. \A s \in Signals : KeptOf(s, N)
    BY <2>8 DEF FrInv
  <2>14. ASSUME NEW s \in Signals PROVE KeptOf(s, M)'
    <3>1. CASE s \in DOMAIN u
      <4>1. M \in 1..M /\ \A j \in (M + 1)..M : FALSE
        BY <2>10, <2>11
      <4>2. LastWith(s, M, M)'
        BY <2>6, <2>10, <2>11, <3>1, <4>1 DEF LastWith
      <4> QED BY <2>3, <2>4, <2>6, <2>10, <2>11, <3>1, <4>1, <4>2 DEF KeptOf
    <3>2. CASE s \notin DOMAIN u
      <4>1. b.values[s] = a.values[s]
        BY <2>3, <3>2
      <4>2. CASE a.values[s] = NoSignal /\ \A i \in 1..N : s \notin DOMAIN updates[i].update
        <5>1. ASSUME NEW i \in 1..M PROVE s \notin DOMAIN updates'[i].update
          <6>1. i \in 1..N \/ i = M
            BY <2>10, <2>11
          <6> QED BY <2>6, <2>10, <2>11, <3>2, <4>2, <6>1
        <5> QED BY <2>4, <4>1, <4>2, <5>1 DEF KeptOf
      <4>3. ASSUME NEW i \in 1..N, LastWith(s, i, N), a.values[s] = signal(updates[i].update[s])
            PROVE  KeptOf(s, M)'
        <5>1. i \in 1..M /\ updates'[i] = updates[i]
          BY <2>10, <2>11
        <5>2. ASSUME NEW j \in (i + 1)..M PROVE s \notin DOMAIN updates'[j].update
          <6>1. j \in (i + 1)..N \/ j = M
            BY <2>10, <2>11
          <6>2. j \in (i + 1)..N => j \in 1..N
            BY <2>10
          <6> QED BY <2>6, <2>10, <2>11, <3>2, <4>3, <6>1, <6>2 DEF LastWith
        <5>3. LastWith(s, i, M)'
          BY <4>3, <5>1, <5>2 DEF LastWith
        <5> QED BY <2>4, <4>1, <4>3, <5>1, <5>3 DEF KeptOf
      <4> QED BY <2>1, <2>13, <4>2, <4>3 DEF KeptOf
    <3> QED BY <3>1, <3>2
  <2>15. /\ b.frame \in Epochs \cup {NoEpoch} /\ NoEpoch \notin Epochs
         /\ \A e \in Epochs : a.previous = e <=> IngestedLast(e, N)
    BY <2>1, <2>3, <2>8, FrameAssumption DEF Assemblies, NoEpoch, FrInv, PreviousOK
  <2>16. ASSUME NEW e \in Epochs
         PROVE  IngestedLast(e, M)' <=> b.frame = e \/ (b.frame = NoEpoch /\ IngestedLast(e, N))
    <3>1. ASSUME b.frame = e PROVE IngestedLast(e, M)'
      <4>1. M \in 1..M /\ \A j \in (M + 1)..M : FALSE
        BY <2>10, <2>11
      <4> QED BY <2>6, <2>10, <2>11, <3>1, <4>1 DEF IngestedLast
    <3>2. ASSUME b.frame = NoEpoch, IngestedLast(e, N) PROVE IngestedLast(e, M)'
      <4>1. PICK i \in 1..N : updates[i].frame = e /\ \A j \in (i + 1)..N : updates[j].frame = NoEpoch
        BY <3>2 DEF IngestedLast
      <4>2. i \in 1..M
        BY <2>10, <2>11
      <4>3. ASSUME NEW j \in (i + 1)..M PROVE updates'[j].frame = NoEpoch
        <5>1. j = M \/ (j \in (i + 1)..N /\ j \in 1..N)
          BY <2>10, <2>11
        <5> QED BY <2>6, <2>10, <2>11, <3>2, <4>1, <5>1
      <4> QED BY <2>10, <4>1, <4>2, <4>3 DEF IngestedLast
    <3>3. ASSUME IngestedLast(e, M)' PROVE b.frame = e \/ (b.frame = NoEpoch /\ IngestedLast(e, N))
      <4>1. PICK i \in 1..M : updates'[i].frame = e /\ \A j \in (i + 1)..M : updates'[j].frame = NoEpoch
        BY <3>3 DEF IngestedLast
      <4>2. CASE i = M
        BY <2>6, <2>10, <2>11, <4>1, <4>2
      <4>3. CASE i # M
        <5>1. i \in 1..N /\ M \in (i + 1)..M
          BY <2>10, <2>11, <4>3
        <5>2. b.frame = NoEpoch
          BY <2>6, <2>10, <2>11, <4>1, <5>1
        <5>3. \A j \in (i + 1)..N : j \in (i + 1)..M /\ j \in 1..N
          BY <2>10, <2>11, <5>1
        <5>4. IngestedLast(e, N)
          BY <2>10, <4>1, <5>1, <5>3 DEF IngestedLast
        <5> QED BY <5>2, <5>4
      <4> QED BY <4>2, <4>3
    <3> QED BY <3>1, <3>2, <3>3
  <2>17. PreviousOK(M)'
    <3>1. ASSUME NEW e \in Epochs PROVE b.previous = e <=> IngestedLast(e, M)'
      <4>1. CASE b.frame = NoEpoch
        BY <2>3, <2>15, <2>16, <4>1
      <4>2. CASE b.frame # NoEpoch
        BY <2>3, <2>15, <2>16, <4>2
      <4> QED BY <4>1, <4>2
    <3> QED BY <2>4, <3>1 DEF PreviousOK
  <2>18. ASSUME NEW e \in Epochs PROVE b.frame = e <=> FrameDue(e, M)'
    <3>1. \A i \in 1..M : updates'[i].update \in Updates
      <4>1. updates' \in Seq(Reads) /\ DOMAIN updates' = 1..M
        BY <2>10, <2>11
      <4>2. \A i \in 1..M : updates'[i] \in Reads
        BY <4>1
      <4> QED BY <4>2 DEF Reads
    <3>2. ASSUME NEW s \in Signals
          PROVE  GoodAt(b.values[s], e) <=>
                   \E i \in 1..M : /\ LastWith(s, i, M)'
                                   /\ updates'[i].update[s] = [epoch |-> e, quality |-> "good"]
      <4>1. KeptOf(s, M)'
        BY <2>14
      <4> QED BY <2>4, <3>1, <4>1, KeptIsLast
    <3>3. FrameDue(e, M)' <=> /\ \A s \in Signals : GoodAt(b.values[s], e)
                              /\ w >= e /\ w - e <= Window /\ ~IngestedLast(e, N)'
      <4>1. updates'[M].wall = w
        BY <2>6, <2>10, <2>11
      <4>2. FrameDue(e, M)' <=>
              /\ \A s \in Signals :
                   \E i \in 1..M : /\ LastWith(s, i, M)'
                                   /\ updates'[i].update[s] = [epoch |-> e, quality |-> "good"]
              /\ w >= e /\ w - e <= Window /\ ~IngestedLast(e, N)'
        BY <2>11, <4>1, Zenon DEF FrameDue
      <4> QED BY <3>2, <4>2, Zenon
    <3>4. IngestedLast(e, N)' <=> a.previous = e
      BY <2>10, <2>12, <2>15
    <3> QED BY <2>3, <3>3, <3>4
  <2>19. FramesAreInstants'
    <3>1. ASSUME NEW n \in 1..M, NEW e \in Epochs PROVE updates'[n].frame = e <=> FrameDue(e, n)'
      <4>1. CASE n = M
        BY <2>6, <2>10, <2>11, <2>18, <4>1
      <4>2. CASE n # M
        <5>1. n \in 1..N
          BY <2>10, <2>11, <4>2
        <5>2. updates[n].frame = e <=> FrameDue(e, n)
          <6>1. (updates[n].frame = e) = FrameDue(e, n)
            BY <2>10, <5>1 DEF FrInv, FramesAreInstants
          <6> QED BY <6>1
        <5> QED BY <2>10, <2>12, <5>1, <5>2
      <4> QED BY <4>1, <4>2
    <3>2. \A n, e : FrameDue(e, n)' \in BOOLEAN
      BY DEF FrameDue
    <3>3. ASSUME NEW n \in 1..M, NEW e \in Epochs PROVE (updates'[n].frame = e) = FrameDue(e, n)'
      BY <3>1, <3>2
    <3> QED BY <2>10, <2>11, <3>3 DEF FramesAreInstants
  <2> QED BY <2>3, <2>4, <2>10, <2>11, <2>14, <2>17, <2>19 DEF FrInv
<1>3. FrameNext => \E u \in Updates, w \in Walls : AddUpdate(u, w)
  <2>1. ASSUME NEW some \in SUBSET Signals, NEW u \in [some -> Entry] PROVE u \in Updates
    BY DEF Updates
  <2> QED BY <2>1 DEF FrameNext
<1> QED BY <1>1, <1>2, <1>3

LEMMA FrInvInit == FrameInit => FrInv
<1> SUFFICES ASSUME FrameInit PROVE FrInv
  OBVIOUS
<1>1. updates = <<>> /\ assembly = Subscribed
  BY DEF FrameInit
<1>2. updates \in Seq(Reads) /\ Len(updates) = 0 /\ DOMAIN updates = {} /\ 1..0 = {}
  BY <1>1
<1>3. PICK v \in [Signals -> Entry \cup {NoSignal}] : v = [s \in Signals |-> NoSignal]
  OBVIOUS
<1>4. PICK p \in Epochs \cup {NoEpoch} : p = NoEpoch
  OBVIOUS
<1>5. assembly = [values |-> v, previous |-> p, frame |-> p]
  BY <1>1, <1>3, <1>4 DEF Subscribed
<1>6. assembly \in Assemblies /\ assembly.values = v /\ assembly.previous = NoEpoch
  BY <1>4, <1>5 DEF Assemblies
<1>7. NoEpoch \notin Epochs
  BY FrameAssumption DEF NoEpoch
<1>8. ASSUME NEW s \in Signals PROVE KeptOf(s, 0)
  BY <1>2, <1>3, <1>6 DEF KeptOf
<1>9. PreviousOK(0)
  BY <1>2, <1>6, <1>7 DEF PreviousOK, IngestedLast
<1> QED BY <1>2, <1>6, <1>8, <1>9 DEF FrInv, FramesAreInstants

(* However the entries of the signals are spread over the updates of the    *)
(* Read loop, complete_frame and the previous instant let through exactly   *)
(* the instants at which all signals' last entries are good, each once in   *)
(* a row.                                                                   *)
THEOREM FramesAreWhole == FrameSpec => []FramesAreInstants
<1>1. FrInv => FramesAreInstants
  BY DEF FrInv
<1> QED BY FrInvInit, FrInvNext, <1>1, PTL DEF FrameSpec
=============================================================================
