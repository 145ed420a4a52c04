--------------------------- MODULE MCCoreSession ---------------------------
(* Two participants; one of them may be initialised twice, or both may be    *)
(* given the same index.                                                     *)
EXTENDS CoreSessionProperties

CONSTANT label1

MCParams ==
  {[index |-> i, participantsCount |-> 2, bound |-> Bound] : i \in 0 .. 1}

MCSymmetry == Permutations(Handle) \cup Permutations(Key)
=============================================================================
