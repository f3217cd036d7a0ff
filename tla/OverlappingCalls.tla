-------------------------- MODULE OverlappingCalls --------------------------
(***************************************************************************)
(* processRow of calls that several traced processes made at the same time *)
(* and that their threads replay at the same time. There is one kernel     *)
(* table for all of them, and between what a call does to it and what the  *)
(* call does to the manager's tables the other threads go on. A step is    *)
(* what one thread does to one of the two. The manager's own functions are *)
(* single steps. Each process has a table of its own, so what the traced   *)
(* kernel answered a call depends on the calls of its process alone.       *)
(***************************************************************************)
EXTENDS KernelFds

CONSTANTS
    Pids, Root,      \* traced processes, the first of them
    Files,           \* open files the trace may create
    ReplayerFds,     \* open in the replayer and in no process's table...
    ReplayerFile,    \* ... and what they designate
    Kinds,           \* the kinds of calls the trace contains
    AloneKinds,      \* those of them made only while a single process runs
    TracedLimit, ReplayLimit

\* The replayer's log, and the standard streams, 0 among them: the first
\* process has marked them close-on-exec and executed a program, which took
\* them out of its table and left them open.
ASSUME OverlapAssumption ==
    /\ Root \in Pids /\ TracedLimit \in Nat /\ ReplayLimit \in Nat
    /\ 0 \in ReplayerFds /\ ReplayerFds \subseteq 0 .. ReplayLimit - 1
    /\ ReplayerFile \notin Files

VARIABLES
    traced,          \* live process -> its descriptors -> what they designate
    tables,          \* fd_table_map_, for the processes whose thread runs
    open_fds,        \* the replayer's kernel table
    row,             \* pid -> the call its thread is in
    hand,            \* pid -> numbers that call has from the kernel or a table
    copy             \* pid -> clone_fd_table_ptr, while its thread fills it

vars == <<traced, tables, open_fds, row, hand, copy>>

AT_FDCWD == -100
Idle == [at |-> "idle"]
Adding(traced_fd, fd) == [at |-> "add", traced_fd |-> traced_fd, fd |-> fd]
Closing == [at |-> "close"]
Onto(old_fd, new, target) ==
    [at |-> "onto", old_fd |-> old_fd, new |-> new, target |-> target]
Copying(child, todo) == [at |-> "copy", child |-> child, todo |-> todo]

Live == DOMAIN tables
TracedFds == 0 .. TracedLimit - 1
EntryFds == TracedFds \cup {AT_FDCWD, SYSCALL_FAILURE}
Numbers(S) == S \cap Nat
At(p, place) == p \in Pids /\ row[p].at = place
Goes(p, r, numbers) == row' = [row EXCEPT ![p] = r] /\ hand' = [hand EXCEPT ![p] = numbers]

\* Process p begins a call of this kind.
Begins(p, kind) ==
    /\ kind \in Kinds /\ p \in Live /\ At(p, "idle")
    /\ kind \in AloneKinds => Live = {p} /\ \A q \in Pids : At(q, "idle")
Room(p) == FreeFds(traced[p], TracedLimit) # {}
NextFd(p) == NewFd(traced[p], TracedLimit)
Unused == Files \ {open_fds[n] : n \in DOMAIN open_fds}

Init ==
    /\ traced = [p \in {Root} |-> <<>>]
    /\ tables = [p \in {Root} |-> [t \in {AT_FDCWD} |-> Entry(t, {})]]
    /\ open_fds = [n \in ReplayerFds |-> ReplayerFile]
    /\ row = [p \in Pids |-> Idle]
    /\ hand = [p \in Pids |-> {}]
    /\ copy = [p \in Pids |-> <<>>]

-----------------------------------------------------------------------------
\* open, up to its call of add_fd.
Open(p, file) ==
    LET n == NewFd(open_fds, ReplayLimit) IN
    /\ Begins(p, "open") /\ Room(p)
    /\ file \in Unused
    /\ traced' = [traced EXCEPT ![p] = Put(@, NextFd(p), file)]
    /\ open_fds' = Opened(open_fds, n, file)
    /\ Goes(p, Adding(NextFd(p), n), Numbers({n}))
    /\ UNCHANGED <<tables, copy>>

\* open failed in the trace. If it works now, its descriptor is to be closed.
OpenFails(p, file) ==
    LET n == NewFd(open_fds, ReplayLimit) IN
    /\ Begins(p, "open_fails")
    /\ file \in Unused
    /\ open_fds' = Opened(open_fds, n, file)
    /\ IF n = SYSCALL_FAILURE THEN Goes(p, Adding(SYSCALL_FAILURE, n), {})
       ELSE Goes(p, Closing, {n})
    /\ UNCHANGED <<traced, tables, copy>>

\* A faulty Close, which makes the kernel's call first.
Close_then_remove(p, t) ==
    /\ Begins(p, "close") /\ t \in DOMAIN traced[p]
    /\ traced' = [traced EXCEPT ![p] = Without(@, t)]
    /\ open_fds' = Closed(open_fds, get_fd(tables[p], t))
    /\ Goes(p, Closing, {})
    /\ UNCHANGED <<tables, copy>>

\* close: remove_fd first.
Close(p, t) ==
    /\ Begins(p, "close") /\ t \in DOMAIN traced[p]
    /\ traced' = [traced EXCEPT ![p] = Without(@, t)]
    /\ tables' = [tables EXCEPT ![p] = remove_fd_entry(@, t)]
    /\ Goes(p, Closing, Numbers({get_fd(tables[p], t)}))
    /\ UNCHANGED <<open_fds, copy>>

\* exit: remove_fd_table, which returns what is to be closed.
Exit(p) ==
    /\ Begins(p, "exit")
    /\ traced' = Without(traced, p)
    /\ tables' = Without(tables, p)
    /\ Goes(p, Closing, Numbers(all_replayed_fds(tables[p])))
    /\ UNCHANGED <<open_fds, copy>>

\* A faulty CloseOne: it may close once more, as after an interrupted call.
CloseOne_again(p) ==
    /\ At(p, "close")
    /\ IF hand[p] = {} THEN Goes(p, Idle, {}) /\ UNCHANGED open_fds
       ELSE \E n \in hand[p], again \in BOOLEAN :
               /\ open_fds' = Closed(open_fds, n)
               /\ Goes(p, Closing, IF again THEN hand[p] ELSE hand[p] \ {n})
    /\ UNCHANGED <<traced, tables, copy>>

\* close(fd), for each descriptor in hand.
CloseOne(p) ==
    /\ At(p, "close")
    /\ IF hand[p] = {} THEN Goes(p, Idle, {}) /\ UNCHANGED open_fds
       ELSE \E n \in hand[p] :
               /\ open_fds' = Closed(open_fds, n)
               /\ Goes(p, Closing, hand[p] \ {n})
    /\ UNCHANGED <<traced, tables, copy>>

\* dup, up to its call of add_fd.
Dup(p, t) ==
    LET fd == get_fd(tables[p], t)
        n == DupReturns(open_fds, ReplayLimit, fd)
    IN
    /\ Begins(p, "dup") /\ Room(p) /\ t \in DOMAIN traced[p]
    /\ traced' = [traced EXCEPT ![p] = Put(@, NextFd(p), @[t])]
    /\ open_fds' = AfterDup(open_fds, ReplayLimit, fd)
    /\ Goes(p, Adding(NextFd(p), n), Numbers({n}))
    /\ UNCHANGED <<tables, copy>>

\* The lowest number that no table has: what another thread has in its hand
\* is not looked at.
generate_unused_fd ==
    LET known == ReplayerFds \cup UNION {all_replayed_fds(tables[q]) : q \in Live}
        unused == (0 .. ReplayLimit) \ known
    IN CHOOSE n \in unused : IsLowest(n, unused)

\* dup2 onto a descriptor that has an entry, whose number is reused, and onto
\* one that has none, up to the call of dup2.
Dup2Over(p, old, new) ==
    LET target == get_fd(tables[p], new) IN
    /\ Begins(p, "dup2") /\ {old, new} \subseteq DOMAIN traced[p]
    /\ traced' = [traced EXCEPT ![p] = Put(@, new, @[old])]
    /\ tables' = [tables EXCEPT ![p] = remove_fd_entry(@, new)]
    /\ Goes(p, Onto(get_fd(tables[p], old), new, target), Numbers({target}))
    /\ UNCHANGED <<open_fds, copy>>

Dup2New(p, old, new) ==
    /\ Begins(p, "dup2_new") /\ old \in DOMAIN traced[p] /\ new \notin DOMAIN traced[p]
    /\ traced' = [traced EXCEPT ![p] = Put(@, new, @[old])]
    /\ Goes(p, Onto(get_fd(tables[p], old), new, generate_unused_fd), {})
    /\ UNCHANGED <<tables, open_fds, copy>>

Dup2Call(p) ==
    LET n == Dup2Returns(open_fds, ReplayLimit, row[p].old_fd, row[p].target) IN
    /\ At(p, "onto")
    /\ open_fds' = AfterDup2(open_fds, row[p].old_fd, n)
    /\ Goes(p, Adding(row[p].new, n), Numbers({n}))
    /\ UNCHANGED <<traced, tables, copy>>

\* add_fd, the end of open, dup and dup2.
Add(p) ==
    /\ At(p, "add") /\ may_add(tables[p], row[p].traced_fd)
    /\ tables' = [tables EXCEPT ![p] = add_fd_entry(@, row[p].traced_fd, row[p].fd, {})]
    /\ Goes(p, Idle, {})
    /\ UNCHANGED <<traced, open_fds, copy>>

(***************************************************************************)
(* clone without CLONE_FILES: the table is copied entry by entry, outside  *)
(* the lock; then it is published and the child's thread may start.        *)
(***************************************************************************)
Clone(p, child) ==
    /\ Begins(p, "clone") /\ child \in Pids \ Live /\ At(child, "idle")
    /\ \A q \in Pids : At(q, "copy") => row[q].child # child
    /\ Goes(p, Copying(child, DOMAIN tables[p]), {})
    /\ UNCHANGED <<traced, tables, open_fds, copy>>

\* A faulty CopyOne: the child's entry holds the parent's descriptor.
CopyOne_shared(p, t) ==
    /\ At(p, "copy") /\ IsLowest(t, row[p].todo)
    /\ copy' = [copy EXCEPT ![p] = add_fd_entry(@, t, tables[p][t].fd, tables[p][t].flags)]
    /\ Goes(p, Copying(row[p].child, row[p].todo \ {t}), {})
    /\ UNCHANGED <<traced, tables, open_fds>>

CopyOne(p, t) ==
    LET old_fd == tables[p][t].fd
        new_fd == IF old_fd > 0 THEN DupReturns(open_fds, ReplayLimit, old_fd) ELSE old_fd
    IN
    /\ At(p, "copy") /\ IsLowest(t, row[p].todo)
    /\ open_fds' = IF old_fd > 0 THEN AfterDup(open_fds, ReplayLimit, old_fd) ELSE open_fds
    /\ copy' = [copy EXCEPT ![p] = add_fd_entry(@, t, new_fd, tables[p][t].flags)]
    /\ Goes(p, Copying(row[p].child, row[p].todo \ {t}), {})
    /\ UNCHANGED <<traced, tables>>

Publish(p) ==
    /\ At(p, "copy") /\ row[p].todo = {}
    /\ traced' = Put(traced, row[p].child, traced[p])
    /\ tables' = Put(tables, row[p].child, copy[p])
    /\ copy' = [copy EXCEPT ![p] = <<>>]
    /\ Goes(p, Idle, {})
    /\ UNCHANGED open_fds

Next ==
    \E p \in Pids :
        \/ \E file \in Files : Open(p, file) \/ OpenFails(p, file)
        \/ \E t \in TracedFds : Close(p, t) \/ Dup(p, t)
        \/ \E old, new \in TracedFds : Dup2Over(p, old, new) \/ Dup2New(p, old, new)
        \/ Exit(p) \/ CloseOne(p) \/ Dup2Call(p) \/ Add(p)
        \/ \E child \in Pids : Clone(p, child)
        \/ \E t \in EntryFds : CopyOne(p, t)
        \/ Publish(p)

Spec == Init /\ [][Next]_vars
-----------------------------------------------------------------------------
\* The places that hold replayed descriptor n: an entry of a table, of a table
\* that is being copied, and a call.
EntriesWith(maps, n) ==
    {h \in UNION {{p} \X DOMAIN maps[p] : p \in DOMAIN maps} : maps[h[1]][h[2]].fd = n}
Places(n) ==
    ({"entry"} \X EntriesWith(tables, n)) \cup ({"copy"} \X EntriesWith(copy, n))
        \cup ({"call"} \X {p \in Pids : n \in hand[p]})

(* At every moment between the steps of all the calls that go on, a         *)
(* replayed descriptor is held in one place, by an entry or by one call,    *)
(* and it is open: what one thread is about to close, to duplicate onto or  *)
(* to enter is nobody else's. The replayer's own are never held.            *)
OneHolder ==
    \A n \in 0 .. ReplayLimit - 1 : \A place \in Places(n) :
        Places(n) = {place} /\ n \in DOMAIN open_fds /\ n \notin ReplayerFds

(* And no descriptor is lost between two threads: each open one is held.    *)
NothingLost == \A n \in DOMAIN open_fds \ ReplayerFds : Places(n) # {}

(* An entry designates the file of the traced descriptor, whatever the      *)
(* other threads open, close and copy meanwhile; and a process between two  *)
(* calls has an entry for each of its descriptors.                         *)
SameFiles ==
    \A p \in Live :
        /\ \A t \in DOMAIN tables[p] \ {AT_FDCWD} :
              /\ t \in DOMAIN traced[p] /\ tables[p][t].fd \in DOMAIN open_fds
              /\ open_fds[tables[p][t].fd] = traced[p][t]
        /\ At(p, "idle") => DOMAIN traced[p] \subseteq DOMAIN tables[p]

(* "Return a fd that is currently unused" (ReplayerResourcesManager.hpp):   *)
(* what generate_unused_fd returns is not open when it returns it.          *)
GeneratedIsUnused ==
    [][\A p \in Pids : At(p, "idle") /\ row'[p].at = "onto" /\ hand'[p] = {} =>
          row'[p].target \notin DOMAIN open_fds]_vars
=============================================================================
