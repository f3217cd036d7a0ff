------------------------ MODULE MCOverlappingCalls ------------------------
(* Small instances of OverlappingCalls for TLC. *)
EXTENDS OverlappingCalls, TLC

CONSTANTS p1, p2, f1, f2

TwoPids == {p1, p2}
TwoFiles == {f1, f2}
AllKinds == {"open", "open_fails", "close", "dup", "dup2", "dup2_new", "exit", "clone"}

Symmetry == Permutations(TwoFiles)
=============================================================================
