---------------------------- MODULE MCQuotaReset ----------------------------
(* QuotaReset for TLC: the operators' tasks are interchangeable.            *)
EXTENDS QuotaReset, TLC

Symmetry == Permutations(Operators)
=============================================================================
