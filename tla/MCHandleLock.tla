---------------------------- MODULE MCHandleLock ----------------------------
(* HandleLock for TLC: interchangeable processes. *)
EXTENDS HandleLock, TLC

Symmetry == Permutations(Process)
=============================================================================
