-------------------------- MODULE ResourcesManager --------------------------
(***************************************************************************)
(* ReplayerResourcesManager: which replayed descriptor stands for which    *)
(* descriptor of each traced process, and each traced process's umask.     *)
(* This module is the class on its own, driven by any sequence of calls    *)
(* that keeps the assertions at the head of its methods; what the system   *)
(* call modules really do with it is module DescriptorReplay.              *)
(***************************************************************************)
EXTENDS DescriptorTable

CONSTANTS
    Pids,          \* process ids found in the trace
    Root,          \* the process the trace starts with
    Addresses,     \* where entries can be allocated
    TracedFds,     \* descriptors in the trace
    ReplayedFds,   \* what dup, open... return in the replayer, -1 and -2 included
    FdFlags,       \* flags kept with a descriptor
    Modes          \* umask values

ASSUME PidsAssumption == IsFiniteSet(Pids) /\ Root \in Pids
ASSUME AddressesAssumption == Addresses # {}
ASSUME InitialAssumption == 0 \in FdFlags /\ 0 \in Modes
ASSUME FdsAssumption == TracedFds \subseteq Int /\ ReplayedFds \subseteq Int

VARIABLES
    fds,           \* fd_table_map_ and the tables, as a RefCounting record
    umasks,        \* umask_table_ and the masks, as a RefCounting record
    to_close       \* what the last remove_fd_table handed back to its caller

vars == <<fds, umasks, to_close>>

FdEntry == [fd : ReplayedFds, flags : FdFlags]
FdTable == UNION {[D -> FdEntry] : D \in SUBSET TracedFds}

-----------------------------------------------------------------------------
Live == DOMAIN fds.of
Table(p) == View(fds, p)
Unallocated(S) == Addresses \ DOMAIN S.rc

\* initialize(): one process, umask 0, and a table filled from fd_map.
Init ==
    /\ \E a \in Addresses, t \in FdTable :
          /\ \A x \in DOMAIN t : t[x].flags = 0
          /\ fds = Single(Root, a, t)
    /\ \E m \in Addresses : umasks = Single(Root, m, 0)
    /\ to_close = {}

add_fd(p, traced_fd, replayed_fd, flags) ==
    /\ p \in Live
    /\ may_add(Table(p), traced_fd)
    /\ fds' = Updated(fds, p, add_fd_entry(Table(p), traced_fd, replayed_fd, flags))
    /\ UNCHANGED <<umasks, to_close>>

remove_fd(p, traced_fd) ==
    /\ p \in Live
    /\ has_fd(Table(p), traced_fd)
    /\ fds' = Updated(fds, p, remove_fd_entry(Table(p), traced_fd))
    /\ UNCHANGED <<umasks, to_close>>

update_fd(p, traced_fd, replayed_fd) ==
    /\ p \in Live
    /\ has_fd(Table(p), traced_fd)
    /\ fds' = Updated(fds, p, update_fd_entry(Table(p), traced_fd, replayed_fd))
    /\ UNCHANGED <<umasks, to_close>>

set_flags(p, traced_fd, flags) ==
    /\ p \in Live
    /\ has_fd(Table(p), traced_fd)
    /\ fds' = Updated(fds, p, set_entry_flags(Table(p), traced_fd, flags))
    /\ UNCHANGED <<umasks, to_close>>

\* A copy for a new process: dup() gives every descriptor above 0 a new
\* number (or -1); what is 0 or negative is copied as it is.
CopiesOf(table) ==
    {c \in [DOMAIN table -> FdEntry] :
        \A t \in DOMAIN table :
            /\ c[t].flags = table[t].flags
            /\ table[t].fd <= 0 => c[t].fd = table[t].fd}

clone_fd_table_shared(parent, child) == fds' = Shared(fds, parent, child)

clone_fd_table_copied(parent, child) ==
    \E a \in Unallocated(fds), copy \in CopiesOf(Table(parent)) :
        fds' = Created(fds, child, a, copy)

clone_umask_shared(parent, child) == umasks' = Shared(umasks, parent, child)

clone_umask_copied(parent, child) ==
    \E m \in Unallocated(umasks) :
        umasks' = Created(umasks, child, m, View(umasks, parent))

\* The system call modules clone both maps together, and drop both together.
clone(parent, child, share_files, share_umask) ==
    /\ parent \in Live /\ child \notin Live
    /\ IF share_umask THEN clone_umask_shared(parent, child)
                      ELSE clone_umask_copied(parent, child)
    /\ IF share_files THEN clone_fd_table_shared(parent, child)
                      ELSE clone_fd_table_copied(parent, child)
    /\ UNCHANGED to_close

set_umask(p, mode) ==
    /\ p \in DOMAIN umasks.of
    /\ umasks' = Updated(umasks, p, mode)
    /\ UNCHANGED <<fds, to_close>>

\* Faulty forms of exit: the umask's reference is kept; the descriptors are
\* handed back by whoever exits.
exit_keeps_umask(p) ==
    /\ p \in Live
    /\ fds' = Dropped(fds, p)
    /\ to_close' = IF LastReference(fds, p) THEN all_replayed_fds(Table(p)) ELSE {}
    /\ UNCHANGED umasks

exit_closes_shared(p) ==
    /\ p \in Live
    /\ umasks' = Dropped(umasks, p)
    /\ fds' = Dropped(fds, p)
    /\ to_close' = all_replayed_fds(Table(p))

\* remove_umask, then remove_fd_table, which returns the descriptors to close.
exit(p) ==
    /\ p \in Live
    /\ umasks' = Dropped(umasks, p)
    /\ fds' = Dropped(fds, p)
    /\ to_close' = IF LastReference(fds, p)
                   THEN all_replayed_fds(Table(p)) ELSE {}

Next ==
    \/ \E p \in Pids, t \in TracedFds, r \in ReplayedFds, f \in FdFlags :
          add_fd(p, t, r, f)
    \/ \E p \in Pids, t \in TracedFds : remove_fd(p, t)
    \/ \E p \in Pids, t \in TracedFds, r \in ReplayedFds : update_fd(p, t, r)
    \/ \E p \in Pids, t \in TracedFds, f \in FdFlags : set_flags(p, t, f)
    \/ \E p, q \in Pids, share_files, share_umask \in BOOLEAN :
          clone(p, q, share_files, share_umask)
    \/ \E p \in Pids, mode \in Modes : set_umask(p, mode)
    \/ \E p \in Pids : exit(p)

Spec == Init /\ [][Next]_vars
-----------------------------------------------------------------------------
(* Every pointer, count, descriptor and mask is of its kind, and the two    *)
(* maps know the same processes: a module that finds a process in one of   *)
(* them may use the other without checking.                                *)
TypeOK ==
    /\ DOMAIN fds.of \subseteq Pids
    /\ fds.of \in [DOMAIN fds.of -> Addresses]
    /\ fds.rc \in [DOMAIN fds.rc -> Nat]
    /\ fds.val \in [DOMAIN fds.rc -> FdTable]
    /\ umasks.of \in [DOMAIN fds.of -> Addresses]
    /\ umasks.rc \in [DOMAIN umasks.rc -> Nat]
    /\ umasks.val \in [DOMAIN umasks.rc -> Modes]
    /\ to_close \in SUBSET ReplayedFds

(* rc_ is the number of processes that point at an entry, so an entry is    *)
(* deleted when, and only when, the last of them exits: never under a      *)
(* process that still uses it, and never left behind.                      *)
RefCountsExact == Consistent(fds) /\ Consistent(umasks)
-----------------------------------------------------------------------------
(***************************************************************************)
(* What the class promises, without counts or pointers: module             *)
(* SharedResources, under the mapping that forgets the addresses.          *)
(***************************************************************************)
Peers == {Holders(fds, a) : a \in DOMAIN fds.rc}
Seen == [p \in Live |-> Table(p)]

Promise == INSTANCE SharedResources
             WITH peers <- Peers, seen <- Seen, released <- to_close,
                  Values <- FdTable, Copies <- CopiesOf,
                  Resources <- all_replayed_fds

PromiseSpec == Promise!Spec
=============================================================================
