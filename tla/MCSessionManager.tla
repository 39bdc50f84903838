--------------------------- MODULE MCSessionManager ---------------------------
(* Instances of SessionManager for TLC. *)
EXTENDS SessionManager, TLC

\* Ids, runtimes and requests are interchangeable.
Symmetry == Permutations(Sids) \cup Permutations(Insts) \cup Permutations(Callers)
=============================================================================
