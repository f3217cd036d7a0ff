-------------------------- MODULE DescriptorTable --------------------------
(***************************************************************************)
(* FileDescriptorTableEntry: the fd_table_ map of one traced process, from  *)
(* traced descriptors to the replayer's descriptors and their flags, as     *)
(* operators on that map.                                                  *)
(***************************************************************************)
EXTENDS RefCounting

SYSCALL_FAILURE   == -1
SYSCALL_SIMULATED == -2

Entry(replayed_fd, flags) == [fd |-> replayed_fd, flags |-> flags]

has_fd(table, traced_fd) == traced_fd \in DOMAIN table

\* The assertion at the head of add_fd_entry.
may_add(table, traced_fd) ==
    traced_fd = SYSCALL_FAILURE \/ ~has_fd(table, traced_fd)

\* A failed call returns -1 again and again: only the first one makes an entry.
add_fd_entry(table, traced_fd, replayed_fd, flags) ==
    IF traced_fd # SYSCALL_FAILURE \/ ~has_fd(table, traced_fd)
    THEN Put(table, traced_fd, Entry(replayed_fd, flags))
    ELSE table

\* A faulty remove_fd_entry: the entry is marked and not erased.
remove_fd_entry_marked(table, traced_fd) ==
    IF has_fd(table, traced_fd) THEN [table EXCEPT ![traced_fd].fd = SYSCALL_FAILURE]
    ELSE table

remove_fd_entry(table, traced_fd) == Without(table, traced_fd)

get_fd(table, traced_fd) ==
    IF has_fd(table, traced_fd) THEN table[traced_fd].fd ELSE SYSCALL_FAILURE

\* set_fd and set_flags of an entry the table has.
update_fd_entry(table, traced_fd, replayed_fd) ==
    [table EXCEPT ![traced_fd].fd = replayed_fd]

set_entry_flags(table, traced_fd, flags) ==
    [table EXCEPT ![traced_fd].flags = flags]

all_replayed_fds(table) == {table[t].fd : t \in DOMAIN table}
=============================================================================
