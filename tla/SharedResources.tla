-------------------------- MODULE SharedResources --------------------------
(***************************************************************************)
(* What ReplayerResourcesManager promises its callers, said without        *)
(* pointers and reference counts: the live processes fall into groups of   *)
(* peers that share one value; a new process joins its parent's group or   *)
(* starts one of its own with a copy; the value's resources are handed     *)
(* back for closing by the last peer to leave, and by nobody else.         *)
(***************************************************************************)
CONSTANTS
    Pids, Root,
    Values,          \* what a group shares
    Copies(_),       \* the values a copy of a value may have
    Resources(_)     \* what must be released along with a value

VARIABLES
    peers,           \* the groups: a partition of the live processes
    seen,            \* the value each live process sees
    released         \* what the last exit handed back

vars == <<peers, seen, released>>

Live == DOMAIN seen
GroupOf(p) == CHOOSE g \in peers : p \in g

Extend(child, v) ==
    seen' = [p \in Live \cup {child} |-> IF p = child THEN v ELSE seen[p]]

Init ==
    /\ peers = {{Root}}
    /\ seen \in [{Root} -> Values]
    /\ released = {}

Update(p) ==
    /\ \E v \in Values :
          seen' = [q \in Live |-> IF q \in GroupOf(p) THEN v ELSE seen[q]]
    /\ UNCHANGED <<peers, released>>

Join(parent, child) ==
    /\ peers' = (peers \ {GroupOf(parent)}) \cup {GroupOf(parent) \cup {child}}
    /\ Extend(child, seen[parent])
    /\ UNCHANGED released

Fork(parent, child) ==
    /\ peers' = peers \cup {{child}}
    /\ \E v \in Copies(seen[parent]) : Extend(child, v)
    /\ UNCHANGED released

Exit(p) ==
    LET remaining == GroupOf(p) \ {p} IN
    /\ peers' = (peers \ {GroupOf(p)}) \cup ({remaining} \ {{}})
    /\ seen' = [q \in Live \ {p} |-> seen[q]]
    /\ released' = IF remaining = {} THEN Resources(seen[p]) ELSE {}

Next ==
    \/ \E p \in Live : Update(p) \/ Exit(p)
    \/ \E parent \in Live, child \in Pids \ Live :
          Join(parent, child) \/ Fork(parent, child)

Spec == Init /\ [][Next]_vars
=============================================================================
