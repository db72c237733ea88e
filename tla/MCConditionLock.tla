---------------------------- MODULE MCConditionLock ----------------------------
(* Model-checking instance of NSConditionLock. *)
EXTENDS NSConditionLock, TLC

CONSTANTS t1, t2, t3

MCThreads == {t1, t2, t3}
MCTwo == {t1, t2}
MCSymmetry == Permutations(MCThreads)
================================================================================
