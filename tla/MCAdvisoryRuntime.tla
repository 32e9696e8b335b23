-------------------------- MODULE MCAdvisoryRuntime -------------------------
(* Episodes are interchangeable, and so are releases. *)
EXTENDS AdvisoryRuntime, TLC
Symmetry == Permutations(Ids) \cup Permutations(Versions)
=============================================================================
