---------------------------- MODULE FrameAssembly ---------------------------
(***************************************************************************)
(* How the stream thread makes frames of KUKSA updates (the Read loop of   *)
(* src/runtime/grpc_main.cpp with complete_frame of protocol.cpp).  An     *)
(* update carries some of the fifteen signals; the last entry of each is   *)
(* kept, and a frame is ingested when all of them are of one instant.      *)
(*                                                                         *)
(* An entry has its source time and what its value is: "good", "unusable"  *)
(* (missing, no float, or a time out of range) or "implausible" (not       *)
(* finite, or a negative speed).                                           *)
(***************************************************************************)
EXTENDS Integers

CONSTANTS Signals,  \* fifteen in the code
          Window    \* 250 ms: how old an instant may be when it is complete

NoEpoch == -1

NoSignal == [epoch |-> 0, quality |-> "unusable"]

signal(entry) == IF entry.quality = "unusable" THEN NoSignal ELSE entry

(* Mutant of complete_frame: the instants are not compared. *)
complete_frame_mixed(values, wall) ==
  \A s \in Signals : /\ values[s].quality = "good"
                     /\ wall >= values[s].epoch /\ wall - values[s].epoch <= Window

complete_frame(values, wall) ==
  \A s, r \in Signals : /\ values[s].quality = "good" /\ values[s].epoch = values[r].epoch
                        /\ wall >= values[s].epoch /\ wall - values[s].epoch <= Window

Subscribed == [values |-> [s \in Signals |-> NoSignal], previous |-> NoEpoch, frame |-> NoEpoch]

(* One update, read at the given wall time; "frame" is the instant that    *)
(* was ingested, if one was.                                               *)
Updated(a, update, wall) ==
  LET values == [s \in Signals |-> IF s \in DOMAIN update THEN signal(update[s]) ELSE a.values[s]]
      epoch  == values[CHOOSE s \in Signals : TRUE].epoch
  IN  IF complete_frame(values, wall) /\ epoch # a.previous
      THEN [values |-> values, previous |-> epoch, frame |-> epoch]
      ELSE [a EXCEPT !.values = values, !.frame = NoEpoch]
=============================================================================
