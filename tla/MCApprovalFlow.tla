--------------------------- MODULE MCApprovalFlow ---------------------------
\* ApprovalFlow for TLC: the calls are interchangeable.
EXTENDS ApprovalFlow, TLC

Symmetry == Permutations(Calls)
=============================================================================
