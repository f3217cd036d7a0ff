---------------------------- MODULE RefCounting ----------------------------
(***************************************************************************)
(* BasicEntry and the two maps that point at its subclasses:               *)
(*   fd_table_map_ : pid -> FileDescriptorTableEntry*                       *)
(*   umask_table_  : pid -> UmaskEntry*                                     *)
(* A pid-to-entry map together with the heap it points into is a record S: *)
(*   S.of  : pid     -> address of the entry it points to                   *)
(*   S.rc  : address -> rc_          (its domain is what is allocated)      *)
(*   S.val : address -> what the entry holds (a descriptor table, a mask)   *)
(* The operators below are the bodies of the manager's clone_* and remove_* *)
(* functions, which are the same code for the two maps.                    *)
(***************************************************************************)
EXTENDS Integers, FiniteSets

\* map[k] = v: inserts the key or replaces what it held.
Put(f, k, v) == [x \in DOMAIN f \cup {k} |-> IF x = k THEN v ELSE f[x]]

\* map.erase(k)
Without(f, k) == [x \in DOMAIN f \ {k} |-> f[x]]

\* The processes whose pointer is a.
Holders(S, a) == {p \in DOMAIN S.of : S.of[p] = a}

\* map[p] = new Entry(v): BasicEntry's constructor starts rc_ at 1.
Created(S, p, a, v) ==
    [of |-> Put(S.of, p, a), rc |-> Put(S.rc, a, 1), val |-> Put(S.val, a, v)]

\* An empty heap with one process that owns one new entry.
Single(p, a, v) == Created([of |-> <<>>, rc |-> <<>>, val |-> <<>>], p, a, v)

\* A faulty Shared: the new reference is not counted.
Shared_uncounted(S, parent, child) ==
    [of |-> Put(S.of, child, S.of[parent]), rc |-> S.rc, val |-> S.val]

\* clone_* with shared: the child points at its parent's entry, rc_++.
Shared(S, parent, child) ==
    [of  |-> Put(S.of, child, S.of[parent]),
     rc  |-> [S.rc EXCEPT ![S.of[parent]] = @ + 1],
     val |-> S.val]

\* A faulty LastReference: off by one.
LastReference_but_one(S, p) == S.rc[S.of[p]] - 1 <= 1

\* remove_*: rc_--, delete the entry when it reaches 0, erase the process.
LastReference(S, p) == S.rc[S.of[p]] - 1 <= 0

Dropped(S, p) ==
    IF LastReference(S, p)
    THEN [of  |-> Without(S.of, p),
          rc  |-> Without(S.rc, S.of[p]),
          val |-> Without(S.val, S.of[p])]
    ELSE [of  |-> Without(S.of, p),
          rc  |-> [S.rc EXCEPT ![S.of[p]] = @ - 1],
          val |-> S.val]

\* A change of the contents of the entry p points at: every process that
\* shares the entry sees it.
Updated(S, p, v) ==
    [of |-> S.of, rc |-> S.rc, val |-> [S.val EXCEPT ![S.of[p]] = v]]

\* What process p sees.
View(S, p) == S.val[S.of[p]]

(***************************************************************************)
(* The condition that makes the counts right: nobody points at a deleted   *)
(* entry, no entry is left that nobody points at, and rc_ is the number of  *)
(* processes that do.                                                      *)
(***************************************************************************)
NoDangling(S) == \A p \in DOMAIN S.of : S.of[p] \in DOMAIN S.rc
NoOrphan(S)   == \A a \in DOMAIN S.rc : Holders(S, a) # {}
Counted(S)    == \A a \in DOMAIN S.rc : S.rc[a] = Cardinality(Holders(S, a))

Consistent(S) == NoDangling(S) /\ NoOrphan(S) /\ Counted(S)
=============================================================================
