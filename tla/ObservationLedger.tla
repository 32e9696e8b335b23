-------------------------- MODULE ObservationLedger -------------------------
(***************************************************************************)
(* FunctionObservation (include/aosedge/function_observation.hpp): the     *)
(* delivery worker's stream of function observations.  One ledger file     *)
(* holds the generation, the last sequence and at most Bound messages; it  *)
(* is replaced by write, rename and directory sync.  The identity of a     *)
(* message is its generation and sequence; the backend answers a repeated  *)
(* identity as a duplicate, so an identity must never get a new content.   *)
(* `images' are the ledgers that a power loss may leave.                   *)
(***************************************************************************)
EXTENDS Integers, Sequences, FiniteSets, SequencesExt

CONSTANTS
  Contents,      \* snapshots of the function facts
  Bound,         \* 64 in the code
  MaxInteger,    \* maximum_integer in the code
  EmitGap,       \* 5000 ms between two observations
  RepeatGap,     \* 30000 ms before an unchanged observation is repeated
  MaxStops,      \* bound: kills and failing system calls in one behaviour
  None

Messages == [generation: Nat, sequence: Nat, content: Contents]
Entries  == [message: Messages, attempted: BOOLEAN]
Ledgers  == [generation: Nat, sequence: Nat, pending: Seq(Entries)]

(* A commit under way: the ledger it writes, how far it is, and what the   *)
(* method does after it.                                                   *)
Writes == [next: Ledgers, stage: {"rename", "sync"},
           then: {"opened", "observed", "attempted", "accepted"}]

ASSUME LedgerAssumption ==
  /\ Bound \in Nat \ {0} /\ MaxInteger \in Nat \ {0}
  /\ EmitGap \in Nat \ {0} /\ RepeatGap \in Nat /\ EmitGap <= RepeatGap
  /\ MaxStops \in Nat
  /\ None \notin Contents /\ None \notin Ledgers /\ None \notin Writes

VARIABLES
  file,      \* ledger.json as the process sees it, None before the first start
  images,    \* what a power loss may leave of it
  ledger,    \* ledger_, None while no stream is open
  writing,   \* one of Writes while commit() runs, else None
  age, last, \* age of last_emit_ (None for -1) and last_content_
  holding,   \* the message the worker is posting, None otherwise
  wire,      \* messages that were posted
  receipts,  \* messages with a valid receipt
  stops

memory  == <<age, last>>
outside == <<wire, receipts, stops>>
vars    == <<file, images, ledger, writing, age, last, holding, wire, receipts, stops>>

Identity(m) == <<m.generation, m.sequence>>

Below(m, n) == \/ m.generation < n.generation
               \/ m.generation = n.generation /\ m.sequence < n.sequence

NoLedger == [generation |-> 0, sequence |-> 0, pending |-> <<>>]

(* What the constructor demands of a ledger it finds. *)
Acceptable(l) ==
  /\ Len(l.pending) <= Bound
  /\ \A i, j \in DOMAIN l.pending :
       i # j => Identity(l.pending[i].message) # Identity(l.pending[j].message)
  /\ \A i \in DOMAIN l.pending :
       LET m == l.pending[i].message
       IN  \/ m.generation < l.generation
           \/ m.generation = l.generation /\ m.sequence <= l.sequence

-----------------------------------------------------------------------------
(* commit(): the new ledger is written aside, renamed, and the directory   *)
(* synced; only then it becomes ledger_ and the method goes on.            *)

Commit(next, then) == writing' = [next |-> next, stage |-> "rename", then |-> then]

Rename ==
  /\ writing # None /\ writing.stage = "rename"
  /\ file' = writing.next /\ images' = images \cup {file'}
  /\ writing' = [writing EXCEPT !.stage = "sync"]
  /\ UNCHANGED <<ledger, memory, holding, outside>>

(* After observe() the emission time is noted, after next() the head goes  *)
(* out, after accept() the posted message is done.                         *)
Sync ==
  /\ writing # None /\ writing.stage = "sync"
  /\ images' = {file} /\ ledger' = writing.next /\ writing' = None
  /\ IF writing.then = "observed"
     THEN age' = 0 /\ last' = Last(ledger'.pending).message.content
     ELSE UNCHANGED memory
  /\ holding' = IF writing.then = "attempted" THEN Head(ledger'.pending).message ELSE holding
  /\ UNCHANGED <<file, outside>>

(* Any exception poisons the stream; the worker drops it for good. *)
Drop == ledger' = None /\ writing' = None /\ holding' = None /\ age' = None /\ last' = None

CommitFails ==
  /\ writing # None /\ stops < MaxStops /\ stops' = stops + 1
  /\ Drop /\ UNCHANGED <<file, images, wire, receipts>>

-----------------------------------------------------------------------------
(* The constructor reserves a new generation before anything is sent. *)
Stored == IF file = None THEN NoLedger ELSE file

(* Mutant of Open: the generation is not advanced. *)
OpenSameGeneration ==
  /\ ledger = None /\ writing = None
  /\ Acceptable(Stored) /\ Stored.generation < MaxInteger
  /\ Commit([Stored EXCEPT !.generation = IF @ = 0 THEN 1 ELSE @, !.sequence = 0], "opened")
  /\ UNCHANGED <<file, images, ledger, memory, holding, outside>>

Open ==
  /\ ledger = None /\ writing = None
  /\ Acceptable(Stored) /\ Stored.generation < MaxInteger
  /\ Commit([Stored EXCEPT !.generation = @ + 1, !.sequence = 0], "opened")
  /\ UNCHANGED <<file, images, ledger, memory, holding, outside>>

Idle == ledger # None /\ writing = None /\ holding = None

DueNow(c) == age # None => age >= (IF c = last THEN RepeatGap ELSE EmitGap)

Unsent(p) == {i \in DOMAIN p : ~p[i].attempted}

(* Mutant of MakeRoom: the oldest entry goes, sent or not. *)
MakeRoomOldest(p) == IF Len(p) < Bound THEN p ELSE Tail(p)

(* At the bound the newest entry that was never sent gives way. *)
MakeRoom(p) ==
  IF Len(p) < Bound THEN p
  ELSE RemoveAt(p, CHOOSE i \in Unsent(p) : \A j \in Unsent(p) : j <= i)

(* Mutant of Queued: the new entry goes to the front. *)
QueuedFirst(p, entry) == <<entry>> \o MakeRoom(p)

Queued(p, entry) == Append(MakeRoom(p), entry)

SequenceLeft == ledger.sequence < MaxInteger

observe(c) ==
  LET m == [generation |-> ledger.generation, sequence |-> ledger.sequence + 1, content |-> c]
  IN  /\ Idle /\ DueNow(c)
      /\ Len(ledger.pending) = Bound => Unsent(ledger.pending) # {}
      /\ SequenceLeft
      /\ Commit([ledger EXCEPT !.sequence = @ + 1,
                   !.pending = Queued(@, [message |-> m, attempted |-> FALSE])],
                "observed")
      /\ UNCHANGED <<file, images, ledger, memory, holding, outside>>

(* The sequence is used up: observe() throws and the worker drops the stream. *)
Exhausted ==
  /\ Idle /\ ~SequenceLeft /\ \E c \in Contents : DueNow(c)
  /\ Drop /\ UNCHANGED <<file, images, outside>>

(* next(): the head is durably marked as attempted before it is posted. *)
next ==
  /\ Idle /\ ledger.pending # <<>>
  /\ IF Head(ledger.pending).attempted
     THEN holding' = Head(ledger.pending).message /\ UNCHANGED writing
     ELSE Commit([ledger EXCEPT !.pending[1].attempted = TRUE], "attempted") /\ UNCHANGED holding
  /\ UNCHANGED <<file, images, ledger, memory, outside>>

(* The POST reaches the backend or not; its answer may be lost. *)
Post(m) == wire' = wire \cup {m}

accept ==
  /\ ledger # None /\ writing = None /\ holding # None
  /\ ledger.pending # <<>> /\ Head(ledger.pending).attempted
  /\ Head(ledger.pending).message = holding
  /\ Post(holding) /\ receipts' = receipts \cup {holding}
  /\ Commit([ledger EXCEPT !.pending = Tail(@)], "accepted")
  /\ holding' = None
  /\ UNCHANGED <<file, images, ledger, memory, stops>>

NotAccepted ==
  /\ ledger # None /\ writing = None /\ holding # None
  /\ Post(holding) \/ UNCHANGED wire
  /\ holding' = None
  /\ UNCHANGED <<file, images, ledger, writing, memory, receipts, stops>>

Older(a) == IF a = None \/ a = RepeatGap THEN a ELSE a + 1

Tick == /\ age' = Older(age) /\ age' # age
        /\ UNCHANGED <<file, images, ledger, writing, last, holding, outside>>

(* The service process ends, or the power goes with it. *)
Kill == /\ ledger # None \/ writing # None
        /\ stops < MaxStops /\ stops' = stops + 1
        /\ Drop /\ UNCHANGED <<file, images, wire, receipts>>

PowerLoss(l) ==
  /\ ledger # None \/ writing # None
  /\ file' = l /\ images' = {l} /\ Drop /\ UNCHANGED outside

-----------------------------------------------------------------------------
Init ==
  /\ file = None /\ images = {None} /\ ledger = None /\ writing = None
  /\ age = None /\ last = None /\ holding = None
  /\ wire = {} /\ receipts = {} /\ stops = 0

Next ==
  \/ Open \/ Rename \/ Sync \/ CommitFails \/ Exhausted
  \/ \E c \in Contents : observe(c)
  \/ next \/ accept \/ NotAccepted \/ Tick \/ Kill
  \/ \E l \in images : PowerLoss(l)

Spec == Init /\ [][Next]_vars
-----------------------------------------------------------------------------
(* A message that was posted and has no receipt is still in the ledger     *)
(* that any crash leaves, so it is posted again; the bound never costs a   *)
(* message that the backend may already have.                              *)
PostedStaysPending ==
  \A m \in wire \ receipts, l \in images :
    l # None /\ \E i \in DOMAIN l.pending : l.pending[i].message = m

(* One identity, one message, over restarts, uncertain commits and         *)
(* generations whose reservation was lost.                                 *)
IdentityNamesOneMessage == \A m, n \in wire : Identity(m) = Identity(n) => m = n

(* Messages reach the backend for the first time in the order in which     *)
(* they were observed, whatever was evicted or lost between.               *)
FirstPostsInOrder == [][\A m \in wire' \ wire, n \in wire : Below(n, m)]_vars
=============================================================================
