------------------------------ MODULE MCSession -----------------------------
(* The files that a behaviour begins with, named in the order in which     *)
(* they come: contents of one kind are exchangeable, and every behaviour   *)
(* is one of these with other names.                                       *)
EXTENDS Session

First(S) == CHOOSE x \in S : TRUE

MCInit ==
  /\ Init
  /\ files \in [token: {First(Tokens), None}, metadata: {First(Contracts)}, ca: {First(Authorities)}]

MCSpec == MCInit /\ [][Next]_vars /\ Fairness
=============================================================================
