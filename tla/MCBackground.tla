---------------------------- MODULE MCBackground ----------------------------
(* The facts that all threads of the service set through Runtime, the      *)
(* advisory thread's publication of readiness and the delivery thread.     *)
(* The three models share no state, so each is checked while the others    *)
(* rest.                                                                   *)
EXTENDS RuntimeInput, ReadinessPublication, DeliveryWorker
VARIABLE subject

MCInit ==
  /\ RuntimeInit /\ PInit /\ DInit /\ subject \in {"runtime", "advisory", "delivery"}
  /\ subject # "runtime" => store /\ ~reset
  /\ subject # "advisory" => ready /\ broker = Unset
  /\ subject # "delivery" => observations /\ \A r \in Outbox : record[r] = "new"

MCNext ==
  \/ subject = "runtime" /\ RuntimeNext /\ UNCHANGED <<subject, pvars, dvars>>
  \/ subject = "advisory" /\ PNext /\ UNCHANGED <<subject, allVars, dvars>>
  \/ subject = "delivery" /\ DNext /\ UNCHANGED <<subject, allVars, pvars>>

MCSpec == /\ MCInit /\ [][MCNext]_<<subject, allVars, pvars, dvars>>
          /\ subject = "advisory" => PFairness
          /\ subject = "delivery" => DFairness
=============================================================================
