------------------------ MODULE MCResourcesManager ------------------------
(* A small instance of ResourcesManager for TLC. *)
EXTENDS ResourcesManager, TLC

CONSTANTS p1, p2, p3, a1, a2, a3

MCPids == {p1, p2, p3}
MCAddresses == {a1, a2, a3}

\* One descriptor, replayed either by a descriptor dup is called for when the
\* table is copied or by one that is copied as it is.
MCTracedFds == {3}
MCReplayedFds == {0, 4}

Symmetry == Permutations({p2, p3}) \cup Permutations(MCAddresses)
=============================================================================
