------------------------- MODULE MCMLOpsGovernance -------------------------
(* Small instances of MLOpsGovernance.                                      *)
EXTENDS MLOpsGovernance, TLC

Symmetric == Permutations(Versions) \union Permutations(Workers)
============================================================================
