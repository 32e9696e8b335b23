---------------------------- MODULE AtomicStore -----------------------------
(***************************************************************************)
(* What the store promises its callers while no system call fails: one     *)
(* durable state and one outbox, changed only by the call under way, once, *)
(* and wholly.  A commit replaces the state and adds its messages in one   *)
(* step, a receipt removes its message, a refusal marks it.  A call        *)
(* returns only after its change; a power loss forgets the call, or comes  *)
(* when its change is made, and changes nothing else.                      *)
(***************************************************************************)
EXTENDS FiniteSets, FiniteSetsExt, Integers
CONSTANTS States, InitStates, Keys, Bytes, Size, Capacity, ByteCapacity, None
VARIABLES
  state, outbox, blocked, \* what is durable
  mode,  \* down, idle, the kind of call under way, or done: it has only to return
  call   \* its argument: a transaction or a key

durable == <<state, outbox, blocked>>

Txn == [state: States, messages: SUBSET [key: Keys, bytes: Bytes]]

Occupied(o) == {k \in Keys : o[k] # None}

Fits(o) == /\ Cardinality(Occupied(o)) <= Capacity
           /\ MapThenSumSet(LAMBDA k : Size[o[k]], Occupied(o)) <= ByteCapacity

(* Stored messages are never altered. *)
Extended(o, M) ==
  [k \in Keys |-> IF o[k] = None /\ \E m \in M : m.key = k
                  THEN (CHOOSE m \in M : m.key = k).bytes ELSE o[k]]

Init == /\ state = None /\ outbox = [k \in Keys |-> None] /\ blocked = {}
        /\ mode = "down" /\ call = None

-----------------------------------------------------------------------------
(* Calls. *)

Begin(from, kind, argument) ==
  mode = from /\ mode' = kind /\ call' = argument /\ UNCHANGED durable

Create(s) == state = None /\ Begin("down", "commit", [state |-> s, messages |-> {}])

Open == state # None /\ Begin("down", "idle", None)

(* The messages of a transaction are new, and fit beside the others. *)
Commit(t) ==
  /\ \A m, n \in t.messages : m.key = n.key => m = n
  /\ \A m \in t.messages : outbox[m.key] = None
  /\ Fits(Extended(outbox, t.messages))
  /\ Begin("idle", "commit", t)

Deliverable(k) == k \in Occupied(outbox) \ blocked

Acknowledge(k) == Deliverable(k) /\ Begin("idle", "acknowledge", k)

Block(k) == Deliverable(k) /\ Begin("idle", "block", k)

-----------------------------------------------------------------------------
(* The one change of a call, and its end. *)

Change ==
  \/ /\ mode = "commit"
     /\ state' = call.state /\ outbox' = Extended(outbox, call.messages)
     /\ UNCHANGED blocked
  \/ /\ mode = "acknowledge"
     /\ outbox' = [outbox EXCEPT ![call] = None] /\ UNCHANGED <<state, blocked>>
  \/ /\ mode = "block"
     /\ blocked' = blocked \cup {call} /\ UNCHANGED <<state, outbox>>

Perform == Change /\ mode' \in {"done", "idle", "down"} /\ call' = None

Return == Begin("done", "idle", None)

Loss == mode' = "down" /\ call' = None /\ UNCHANGED durable

Next ==
  \/ \E s \in InitStates : Create(s)
  \/ \E t \in Txn : Commit(t)
  \/ \E k \in Keys : Acknowledge(k) \/ Block(k)
  \/ Open \/ Perform \/ Return \/ Loss

Spec == Init /\ [][Next]_<<state, outbox, blocked, mode, call>>
=============================================================================
