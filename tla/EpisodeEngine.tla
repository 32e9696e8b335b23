---------------------------- MODULE EpisodeEngine ---------------------------
(***************************************************************************)
(* EpisodeEngine (src/model.cpp:76-95): frames of the vehicle become       *)
(* driving episodes.  Half a second of activating frames opens an episode, *)
(* one second of clearing frames completes it, twelve seconds truncate it, *)
(* and a gap in the source time throws it away.                            *)
(*                                                                         *)
(* The engine compares source times only with times it remembered, so each *)
(* remembered time is kept as its age in ticks (None for -1), capped where *)
(* the code no longer tells ages apart.                                    *)
(***************************************************************************)
EXTENDS Integers

CONSTANTS
  MaxGap,       \* 250 ms between frames
  Activation,   \* 500 ms of activating frames
  Clearance,    \* 1000 ms of clearing frames
  MaxDuration,  \* 12000 ms
  SampleGap,    \* 100 ms between retained samples
  MaxSamples,   \* 120 samples
  None

ASSUME EngineAssumption ==
  /\ MaxGap \in Nat \ {0} /\ Activation \in Nat /\ Clearance \in Nat \ {0}
  /\ MaxDuration \in Nat \ {0} /\ SampleGap \in Nat \ {0} /\ MaxSamples \in Nat \ {0}
  /\ None \notin Nat
  /\ None \notin {"INCOMPLETE_SOURCE_GAP", "COMPLETE", "TRUNCATED_MAX_DURATION"}

VARIABLES
  synced,      \* previous_ >= 0
  activation,  \* age of activation_
  clear,       \* age of clear_
  suppressed,
  duration,    \* current_: ended - started, None for no episode
  retained,    \* age of retained_
  samples,     \* size of current_->samples
  emitted,     \* the terminal of the episode that the last frame returned
  activeRun, clearRun, released  \* history, see below

engine == <<synced, activation, clear, suppressed, duration, retained, samples>>
history == <<activeRun, clearRun, released>>
vars == <<synced, activation, clear, suppressed, duration, retained, samples,
          emitted, activeRun, clearRun, released>>

(* What the thresholds on speed and steering make of a frame. *)
Kinds == {"activating", "neutral", "clearing"}

Plus(age, dt, cap) == IF age = None THEN None ELSE IF age + dt <= cap THEN age + dt ELSE cap

(* abort(): everything is forgotten, suppression too. *)
Reset(terminal) ==
  /\ emitted' = IF duration # None THEN terminal ELSE None
  /\ activation' = None /\ clear' = None /\ suppressed' = FALSE
  /\ duration' = None /\ retained' = None /\ samples' = 0

(* History: how long the source itself has been activating or clearing     *)
(* without interruption, and whether the driver has released the steering  *)
(* (or the source was interrupted) since an episode was truncated.         *)
Run(run, kind, wanted, dt, cap) ==
  IF kind # wanted THEN None ELSE IF run = None THEN 0 ELSE Plus(run, dt, cap)

Interrupted == activeRun' = None /\ clearRun' = None /\ released' = TRUE

(* disconnect, expire_input, stop, a contract change, or a frame that is   *)
(* not a number: the next frame is the first one.                          *)
abort ==
  /\ Reset("INCOMPLETE_SOURCE_GAP") /\ synced' = FALSE /\ Interrupted

(* A frame that is older than the last one or too late after it. *)
Gap ==
  /\ synced /\ Reset("INCOMPLETE_SOURCE_GAP") /\ Interrupted /\ UNCHANGED synced

(* A frame of the same source time changes nothing. *)
Repeat == synced /\ emitted' = None /\ UNCHANGED <<engine, history>>

(* Mutant of ClearAge: only an activating frame restarts the clearance. *)
ClearAgeLax(kind, dt) ==
  IF kind = "activating" THEN None ELSE IF clear = None THEN 0 ELSE Plus(clear, dt, Clearance)

(* The ages that the frame is judged with. *)
ClearAge(kind, dt) == Run(clear, kind, "clearing", dt, Clearance)

Cleared(kind, dt) == ClearAge(kind, dt) # None /\ ClearAge(kind, dt) >= Clearance

ActivationAge(kind, dt) == Run(activation, kind, "activating", dt, Activation)

Seen(kind, dt) ==
  /\ synced' = TRUE /\ clear' = ClearAge(kind, dt)
  /\ activeRun' = Run(activeRun, kind, "activating", dt, Activation)
  /\ clearRun' = Run(clearRun, kind, "clearing", dt, Clearance)

Release(kind, dt) ==
  released' = (released \/ (clearRun' # None /\ clearRun' >= Clearance))

(* Mutant of Suppressed: one clearing frame is enough. *)
SuppressedBriefly(kind, dt) ==
  /\ suppressed /\ Seen(kind, dt) /\ Release(kind, dt)
  /\ suppressed' = (kind # "clearing")
  /\ activation' = None /\ emitted' = None
  /\ UNCHANGED <<duration, retained, samples>>

(* After a truncation nothing counts until a full clearance. *)
Suppressed(kind, dt) ==
  /\ suppressed /\ Seen(kind, dt) /\ Release(kind, dt)
  /\ suppressed' = ~Cleared(kind, dt)
  /\ activation' = IF Cleared(kind, dt) THEN None ELSE Plus(activation, dt, Activation)
  /\ emitted' = None
  /\ UNCHANGED <<duration, retained, samples>>

Waiting(kind, dt) ==
  /\ ~suppressed /\ duration = None
  /\ ActivationAge(kind, dt) # None => ActivationAge(kind, dt) < Activation
  /\ Seen(kind, dt) /\ Release(kind, dt)
  /\ activation' = ActivationAge(kind, dt)
  /\ emitted' = None
  /\ UNCHANGED <<suppressed, duration, retained, samples>>

(* The frame belongs to an episode: it is sampled, and may end it. *)
Retain(age, n) == (age # None => age >= SampleGap) /\ n < MaxSamples

Record(kind, dt, length, age, n) ==
  /\ samples' = IF Retain(age, n) THEN n + 1 ELSE n
  /\ retained' = IF Retain(age, n) THEN 0 ELSE age
  /\ IF length >= MaxDuration
     THEN /\ emitted' = "TRUNCATED_MAX_DURATION" /\ duration' = None
          /\ suppressed' = TRUE /\ activation' = None /\ released' = FALSE
     ELSE IF Cleared(kind, dt)
     THEN /\ emitted' = "COMPLETE" /\ duration' = None
          /\ suppressed' = FALSE /\ activation' = None /\ Release(kind, dt)
     ELSE /\ emitted' = None /\ duration' = length
          /\ UNCHANGED suppressed /\ Release(kind, dt)
          /\ activation' = IF duration = None THEN ActivationAge(kind, dt)
                           ELSE Plus(activation, dt, Activation)

Begin(kind, dt) ==
  /\ ~suppressed /\ duration = None
  /\ ActivationAge(kind, dt) # None /\ ActivationAge(kind, dt) >= Activation
  /\ Seen(kind, dt) /\ Record(kind, dt, 0, None, 0)

Continue(kind, dt) ==
  /\ ~suppressed /\ duration # None
  /\ Seen(kind, dt) /\ Record(kind, dt, duration + dt, Plus(retained, dt, SampleGap), samples)

(* ingest(): a frame dt after the last one; the first has no predecessor. *)
ingest(kind, dt) ==
  /\ Suppressed(kind, dt) \/ Waiting(kind, dt) \/ Begin(kind, dt) \/ Continue(kind, dt)

Init ==
  /\ synced = FALSE /\ activation = None /\ clear = None /\ suppressed = FALSE
  /\ duration = None /\ retained = None /\ samples = 0 /\ emitted = None
  /\ activeRun = None /\ clearRun = None /\ released = TRUE

Next ==
  \/ abort \/ Gap \/ Repeat
  \/ \E kind \in Kinds, dt \in 1..MaxGap : ingest(kind, dt)

Spec == Init /\ [][Next]_vars

-----------------------------------------------------------------------------
Ages(cap) == (0..cap) \cup {None}

(* The shape of the variables; an open episode is shorter than the limit. *)
TypeOK ==
  /\ synced \in BOOLEAN /\ suppressed \in BOOLEAN /\ released \in BOOLEAN
  /\ activation \in Ages(Activation) /\ activeRun \in Ages(Activation)
  /\ clear \in Ages(Clearance) /\ clearRun \in Ages(Clearance)
  /\ duration \in Ages(MaxDuration - 1) /\ retained \in Ages(SampleGap)
  /\ samples \in 0..MaxSamples
  /\ emitted \in {None, "INCOMPLETE_SOURCE_GAP", "COMPLETE", "TRUNCATED_MAX_DURATION"}

(* COMPLETE is only said after a full clearance without interruption. *)
CompleteIsCleared == emitted = "COMPLETE" => clearRun = Clearance

(* An episode opens only after the source was activating for the whole     *)
(* activation time, and after a truncation only once the driver has let go *)
(* for a full clearance or the source was interrupted: one long manoeuvre  *)
(* never counts as several episodes.                                       *)
StartIsEarned ==
  [][duration = None /\ duration' # None => activeRun' = Activation /\ released]_vars
=============================================================================
