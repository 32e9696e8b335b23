---------------------------- MODULE FrameHistory ----------------------------
(***************************************************************************)
(* The assembly of frames under every sequence of updates and times of     *)
(* reading, with the history of the updates and of the frames ingested.    *)
(***************************************************************************)
EXTENDS FrameAssembly, Sequences

CONSTANTS Epochs, Walls  \* source times of entries, times of reading

ASSUME FrameAssumption ==
  /\ Signals # {} /\ Window \in Nat /\ Epochs \subseteq Nat /\ Walls \subseteq Nat

VARIABLES
  assembly,  \* values and previous of the Read loop, and the instant ingested
  updates    \* history: each update, when it was read and what it ingested

frameVars == <<assembly, updates>>

Entry == [epoch: Epochs, quality: {"good", "unusable", "implausible"}]

AddUpdate(update, wall) ==
  /\ assembly' = Updated(assembly, update, wall)
  /\ updates' = Append(updates, [update |-> update, wall |-> wall, frame |-> assembly'.frame])

FrameInit == assembly = Subscribed /\ updates = <<>>

FrameNext ==
  \E some \in SUBSET Signals : \E update \in [some -> Entry], wall \in Walls : AddUpdate(update, wall)

FrameSpec == FrameInit /\ [][FrameNext]_frameVars

-----------------------------------------------------------------------------
(* The i-th update is the last of the first n that has an entry of s. *)
LastWith(s, i, n) == /\ i \in 1..n /\ s \in DOMAIN updates[i].update
                     /\ \A j \in (i + 1)..n : s \notin DOMAIN updates[j].update

(* e is the instant that the first n updates ingested last. *)
IngestedLast(e, n) == \E i \in 1..n : /\ updates[i].frame = e
                                      /\ \A j \in (i + 1)..n : updates[j].frame = NoEpoch

FrameDue(e, n) ==
  /\ \A s \in Signals : \E i \in 1..n : LastWith(s, i, n) /\ updates[i].update[s] = [epoch |-> e, quality |-> "good"]
  /\ updates[n].wall >= e /\ updates[n].wall - e <= Window
  /\ ~IngestedLast(e, n - 1)

(* A frame is ingested exactly when the last entries of all signals are    *)
(* good, of one instant that is not over a Window old and is not the one   *)
(* ingested last: no frame mixes two instants, none counts twice.          *)
FramesAreInstants ==
  \A n \in DOMAIN updates, e \in Epochs : (updates[n].frame = e) = FrameDue(e, n)
=============================================================================
