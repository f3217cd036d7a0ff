-------------------------- MODULE DescriptorReplay --------------------------
(***************************************************************************)
(* The system call modules that use ReplayerResourcesManager, composed     *)
(* with the traced application and the replayer's kernel. One step is one  *)
(* record: the call as the traced kernel answered it, and the processRow   *)
(* of its module, which brings the replayer's tables up to date. Records   *)
(* are replayed one at a time here; module ReplayScheduler is about their  *)
(* order.                                                                  *)
(***************************************************************************)
EXTENDS TracedProcesses

CONSTANTS
    Kinds,           \* the kinds of records the trace contains...
    CloexecKinds,    \* ... and those made with the close-on-exec flag
    CloneFlags,      \* the flag sets clone() is called with
    ReplayMayFail,   \* whether an open that worked in the trace may fail now
    Addresses,       \* where the manager's entries can be allocated
    FailedPid,       \* -1, the "process id" returned by a failed clone
    ReplayerFds,     \* descriptors the replayer opened for itself: its log
    ReplayerFile,    \* what those designate
    CountLimit,      \* bound on the references failed clones leave behind
    ReplayLimit      \* descriptors the replayer may have: RLIMIT_NOFILE

ASSUME ReplayAssumption ==
    /\ ReplayLimit \in Nat /\ CountLimit \in Nat /\ ReplayMayFail \in BOOLEAN
    /\ ReplayerFds \subseteq 1 .. ReplayLimit - 1 /\ ReplayerFds \cap StdFds = {}
    /\ StdFds \subseteq 0 .. ReplayLimit - 1
    /\ FailedPid \notin Pids /\ Addresses # {}

VARIABLES
    fds,             \* fd_table_map_: a RefCounting record
    umasks,          \* umask_table_: a RefCounting record
    open_fds,        \* the replayer's open descriptors -> what they designate
    exec_ret,        \* sign of ExecveSystemCallTraceReplayModule::returnVal
    aborted          \* an assertion of the manager failed

replayVars == <<fds, umasks, open_fds, exec_ret, aborted>>
vars == <<tracedVars, replayVars>>

AT_FDCWD == -100
O_CLOEXEC == "O_CLOEXEC"
\* A faulty FlagsOf: the flag as F_SETFD knows it.
FlagsOf_raw(cloexec) == IF cloexec THEN {"FD_CLOEXEC"} ELSE {}

FlagsOf(cloexec) == IF cloexec THEN {O_CLOEXEC} ELSE {}

Table(p) == View(fds, p)
Unallocated(S) == Addresses \ DOMAIN S.rc

\* The descriptors the manager knows of: those in the table of a process and
\* those found open at the start; and the lowest number that is none of them.
KnownFds(S) == (UNION {all_replayed_fds(View(S, q)) : q \in DOMAIN S.of}) \cup ReplayerFds

\* A faulty generate_unused_fd, which forgets the tables.
generate_unused_fd_initial(S) ==
    LET unused == (0 .. ReplayLimit) \ ReplayerFds
    IN CHOOSE n \in unused : IsLowest(n, unused)

generate_unused_fd(S) ==
    LET unused == (0 .. ReplayLimit) \ KnownFds(S)
    IN CHOOSE n \in unused : IsLowest(n, unused)

\* prepare_replay: the first process, its umask, and the standard streams.
Init ==
    /\ TracedInit
    /\ \E a \in Addresses :
          fds = Single(Root, a, [t \in StdFds \cup {AT_FDCWD} |-> Entry(t, {})])
    /\ \E m \in Addresses : umasks = Single(Root, m, 0)
    /\ open_fds = [n \in StdFds \cup ReplayerFds |->
                      IF n \in StdFds THEN Terminal ELSE ReplayerFile]
    /\ exec_ret \in {0, SYSCALL_FAILURE}
    /\ aborted = FALSE

-----------------------------------------------------------------------------
\* The trace has records of this kind and the replayer is still running.
Row(kind) == ~aborted /\ kind \in Kinds
RowWith(kind, cloexec) == ~aborted /\ kind \in (IF cloexec THEN CloexecKinds ELSE Kinds)

\* add_fd on p's table as the module left it; its assertion stops the replayer.
AddFd(p, table, t, replayed_fd, flags) ==
    IF may_add(table, t)
    THEN /\ fds' = Updated(fds, p, add_fd_entry(table, t, replayed_fd, flags))
         /\ UNCHANGED aborted
    ELSE aborted' = TRUE /\ UNCHANGED fds

Aborts == aborted' = TRUE /\ UNCHANGED <<fds, umasks, open_fds, exec_ret>>

FreshFiles ==
    {f \in Files :
        /\ \A p \in Alive, t \in TracedFds :
              t \in DOMAIN traced[p] => traced[p][t].file # f
        /\ \A n \in DOMAIN open_fds : open_fds[n] # f}

\* open: a file of its own each time; it may not open in the replayer.
Open(p, file, cloexec, opens) ==
    LET replayed == IF opens THEN NewFd(open_fds, ReplayLimit) ELSE SYSCALL_FAILURE IN
    /\ p \in Alive /\ RowWith("open", cloexec) /\ HasRoom(p, 1) /\ file \in FreshFiles
    /\ TracedGains(p, NextFd(p), file, cloexec)
    /\ open_fds' = Opened(open_fds, replayed, file)
    /\ AddFd(p, Table(p), NextFd(p), replayed, FlagsOf(cloexec))
    /\ UNCHANGED <<umasks, exec_ret>>

\* open failed in the trace: if it works now its descriptor is closed at
\* once, else -1 is mapped to -1.
OpenFails(p, opens) ==
    /\ p \in Alive /\ Row("open_fails")
    /\ IF opens /\ NewFd(open_fds, ReplayLimit) # SYSCALL_FAILURE
       THEN UNCHANGED <<fds, aborted>>
       ELSE AddFd(p, Table(p), SYSCALL_FAILURE, SYSCALL_FAILURE, {})
    /\ UNCHANGED <<tracedVars, umasks, open_fds, exec_ret>>

\* A faulty Close: the entry stays.
Close_keeps_entry(p, t) ==
    /\ p \in Alive /\ Row(IF t \in StdFds THEN "close_std" ELSE "close")
    /\ TracedCloses(p, t)
    /\ open_fds' = Closed(open_fds, get_fd(Table(p), t))
    /\ UNCHANGED <<fds, umasks, exec_ret, aborted>>

\* close of t, which may be no descriptor at all.
Close(p, t) ==
    LET fd == get_fd(Table(p), t) IN
    /\ p \in Alive /\ Row(IF t \in StdFds THEN "close_std" ELSE "close")
    /\ TracedCloses(p, t)
    /\ fds' = Updated(fds, p, remove_fd_entry(Table(p), t))
    /\ open_fds' = IF fd = SYSCALL_SIMULATED THEN open_fds ELSE Closed(open_fds, fd)
    /\ UNCHANGED <<umasks, exec_ret, aborted>>

\* A faulty Dup: the new entry holds the old replayed descriptor.
Dup_without_call(p, t) ==
    /\ p \in Alive /\ Row("dup") /\ t \in DOMAIN traced[p] /\ HasRoom(p, 1)
    /\ TracedGains(p, NextFd(p), traced[p][t].file, FALSE)
    /\ AddFd(p, Table(p), NextFd(p), get_fd(Table(p), t), {})
    /\ UNCHANGED <<umasks, open_fds, exec_ret>>

\* dup of an open descriptor.
Dup(p, t) ==
    LET fd == get_fd(Table(p), t)
        replayed == IF fd = SYSCALL_SIMULATED THEN NextFd(p)
                    ELSE DupReturns(open_fds, ReplayLimit, fd)
    IN
    /\ p \in Alive /\ Row("dup") /\ t \in DOMAIN traced[p] /\ HasRoom(p, 1)
    /\ TracedGains(p, NextFd(p), traced[p][t].file, FALSE)
    /\ IF has_fd(Table(p), t)
       THEN /\ open_fds' = IF fd = SYSCALL_SIMULATED THEN open_fds
                           ELSE AfterDup(open_fds, ReplayLimit, fd)
            /\ AddFd(p, Table(p), NextFd(p), replayed, Table(p)[t].flags \ {O_CLOEXEC})
            /\ UNCHANGED <<umasks, exec_ret>>
       ELSE Aborts

\* dup of a descriptor that is not open: get_flags asserts that it is.
DupFails(p, t) ==
    /\ p \in Alive /\ Row("dup_fails") /\ t \notin DOMAIN traced[p]
    /\ UNCHANGED tracedVars
    /\ IF has_fd(Table(p), t)
       THEN /\ AddFd(p, Table(p), SYSCALL_FAILURE,
                     DupReturns(open_fds, ReplayLimit, get_fd(Table(p), t)),
                     Table(p)[t].flags \ {O_CLOEXEC})
            /\ open_fds' = AfterDup(open_fds, ReplayLimit, get_fd(Table(p), t))
            /\ UNCHANGED <<umasks, exec_ret>>
       ELSE Aborts

(***************************************************************************)
(* dup2 and dup3 of a descriptor the manager knows: the new descriptor     *)
(* leaves the table; a simulated one stays simulated; else the replayed    *)
(* new descriptor is reused, or one is generated, and what the kernel      *)
(* answers is added under what the trace says was returned.                *)
(***************************************************************************)
Target(p, new) ==
    LET table == remove_fd_entry(Table(p), new)
        fd == get_fd(Table(p), new)
    IN IF has_fd(Table(p), new) /\ fd # SYSCALL_SIMULATED THEN fd
       ELSE generate_unused_fd(Updated(fds, p, table))

DupOnto(p, old, new, returned, flags, replayed) ==
    LET table == remove_fd_entry(Table(p), new)
        fd == get_fd(Table(p), old)
    IN /\ IF fd = SYSCALL_SIMULATED
          THEN /\ AddFd(p, table, returned, SYSCALL_SIMULATED, flags)
               /\ UNCHANGED open_fds
          ELSE /\ AddFd(p, table, returned, replayed, flags)
               /\ open_fds' = AfterDup2(open_fds, fd, replayed)
       /\ UNCHANGED <<umasks, exec_ret>>

\* What dup2 and dup3 return in the replayer.
OntoBy2(p, old, new) ==
    Dup2Returns(open_fds, ReplayLimit, get_fd(Table(p), old), Target(p, new))
OntoBy3(p, old, new) ==
    Dup3Returns(open_fds, ReplayLimit, get_fd(Table(p), old), Target(p, new))

Dup2Kind(old, new) ==
    IF old = new THEN "dup2_same" ELSE IF new \in StdFds THEN "dup2_std" ELSE "dup2"

Dup2(p, old, new) ==
    /\ p \in Alive /\ Row(Dup2Kind(old, new)) /\ old \in DOMAIN traced[p]
    /\ IF old = new THEN UNCHANGED tracedVars
       ELSE TracedGains(p, new, traced[p][old].file, FALSE)
    /\ IF has_fd(Table(p), old)
       THEN DupOnto(p, old, new, new, Table(p)[old].flags \ {O_CLOEXEC},
                    OntoBy2(p, old, new))
       ELSE Aborts

Dup3(p, old, new, cloexec) ==
    /\ p \in Alive /\ RowWith("dup3", cloexec) /\ old \in DOMAIN traced[p] /\ old # new
    /\ TracedGains(p, new, traced[p][old].file, cloexec)
    /\ IF has_fd(Table(p), old)
       THEN DupOnto(p, old, new, new, Table(p)[old].flags, OntoBy3(p, old, new))
       ELSE Aborts

\* dup3 of a descriptor onto itself fails with EINVAL.
Dup3Fails(p, t) ==
    /\ p \in Alive /\ Row("dup3_same") /\ t \in DOMAIN traced[p]
    /\ UNCHANGED tracedVars
    /\ IF has_fd(Table(p), t)
       THEN DupOnto(p, t, t, SYSCALL_FAILURE, Table(p)[t].flags, OntoBy3(p, t, t))
       ELSE Aborts

\* A faulty FcntlDup: fcntl is called with the traced descriptor.
FcntlDup_untranslated(p, t, cloexec) ==
    /\ p \in Alive /\ RowWith("fcntl_dup", cloexec) /\ t \in DOMAIN traced[p] /\ HasRoom(p, 1)
    /\ TracedGains(p, NextFd(p), traced[p][t].file, cloexec)
    /\ AddFd(p, Table(p), NextFd(p), t, FlagsOf(cloexec))
    /\ UNCHANGED <<umasks, open_fds, exec_ret>>

\* fcntl(F_DUPFD) and F_DUPFD_CLOEXEC: a simulated descriptor is not left
\* alone here, and fcntl fails on it.
FcntlDup(p, t, cloexec) ==
    LET fd == get_fd(Table(p), t) IN
    /\ p \in Alive /\ RowWith("fcntl_dup", cloexec) /\ t \in DOMAIN traced[p] /\ HasRoom(p, 1)
    /\ TracedGains(p, NextFd(p), traced[p][t].file, cloexec)
    /\ IF has_fd(Table(p), t)
       THEN /\ AddFd(p, Table(p), NextFd(p), DupReturns(open_fds, ReplayLimit, fd),
                     (Table(p)[t].flags \ {O_CLOEXEC}) \cup FlagsOf(cloexec))
            /\ open_fds' = AfterDup(open_fds, ReplayLimit, fd)
            /\ UNCHANGED <<umasks, exec_ret>>
       ELSE Aborts

\* fcntl(F_SETFD): only setting FD_CLOEXEC reaches the table.
FcntlSetFd(p, t, cloexec) ==
    /\ p \in Alive /\ Row(IF cloexec THEN "set_cloexec" ELSE "clear_cloexec")
    /\ t \in DOMAIN traced[p]
    /\ TracedSetsCloexec(p, t, cloexec)
    /\ IF ~cloexec THEN UNCHANGED <<fds, aborted>>
       ELSE IF has_fd(Table(p), t)
       THEN /\ fds' = Updated(fds, p, set_entry_flags(Table(p), t,
                                          Table(p)[t].flags \cup {O_CLOEXEC}))
            /\ UNCHANGED aborted
       ELSE aborted' = TRUE /\ UNCHANGED fds
    /\ UNCHANGED <<umasks, open_fds, exec_ret>>

\* A faulty FlagsKept: socket's flag is lost too.
FlagsKept_not(kind, cloexec) == IF kind = "accept4" THEN {O_CLOEXEC} ELSE {}

\* socket, accept, accept4, epoll_create: an entry without a call. Each keeps
\* flags of its own, whatever the call was given.
FlagsKept(kind, cloexec) ==
    CASE kind = "socket"  -> FlagsOf(cloexec)
      [] kind = "accept"  -> {}
      [] kind = "accept4" -> {O_CLOEXEC}

\* A faulty Simulated: the traced number is taken for a replayed descriptor.
Simulated_by_number(p, kind, cloexec) ==
    /\ p \in Alive /\ RowWith(kind, cloexec) /\ HasRoom(p, 1)
    /\ TracedGains(p, NextFd(p), Socket, cloexec)
    /\ AddFd(p, Table(p), NextFd(p), NextFd(p), FlagsKept(kind, cloexec))
    /\ UNCHANGED <<umasks, open_fds, exec_ret>>

Simulated(p, kind, cloexec) ==
    /\ p \in Alive /\ RowWith(kind, cloexec) /\ HasRoom(p, 1)
    /\ TracedGains(p, NextFd(p), Socket, cloexec)
    /\ IF kind = "accept4" /\ NextFd(p) = 0 THEN UNCHANGED <<fds, aborted>>
       ELSE AddFd(p, Table(p), NextFd(p), SYSCALL_SIMULATED, FlagsKept(kind, cloexec))
    /\ UNCHANGED <<umasks, open_fds, exec_ret>>

\* The two ends of a socketpair or of a pipe, entered as simulated.
AddPair(p) ==
    IF may_add(Table(p), NextFd(p))
    THEN AddFd(p, add_fd_entry(Table(p), NextFd(p), SYSCALL_SIMULATED, {}),
               SecondFd(p), SYSCALL_SIMULATED, {})
    ELSE aborted' = TRUE /\ UNCHANGED fds

TracedPair(p, cloexec) ==
    TracedBecomes(p, Put(Put(traced[p], NextFd(p), Descriptor(Socket, cloexec)),
                         SecondFd(p), Descriptor(Socket, cloexec)))

SocketPair(p, cloexec) ==
    /\ p \in Alive /\ RowWith("socketpair", cloexec) /\ HasRoom(p, 2)
    /\ TracedPair(p, cloexec)
    /\ AddPair(p)
    /\ UNCHANGED <<umasks, open_fds, exec_ret>>

\* pipe() is called, and the two descriptors it opens are not kept.
Pipe(p) ==
    LET one == NewFd(open_fds, ReplayLimit)
        two == NewFd(Put(open_fds, one, Socket), ReplayLimit)
    IN
    /\ p \in Alive /\ Row("pipe") /\ HasRoom(p, 2)
    /\ TracedPair(p, FALSE)
    /\ AddPair(p)
    /\ open_fds' = IF SYSCALL_FAILURE \in {one, two} THEN open_fds
                   ELSE Put(Put(open_fds, one, Socket), two, Socket)
    /\ UNCHANGED <<umasks, exec_ret>>

\* A pipe that failed is recorded with both descriptors 0 and is replayed as
\* pipe(nullptr); both zeros are entered all the same, and they cannot be.
PipeFails(p) ==
    /\ p \in Alive /\ Row("pipe_fails")
    /\ UNCHANGED tracedVars
    /\ IF may_add(Table(p), 0)
       THEN AddFd(p, add_fd_entry(Table(p), 0, SYSCALL_SIMULATED, {}),
                  0, SYSCALL_SIMULATED, {})
       ELSE aborted' = TRUE /\ UNCHANGED fds
    /\ UNCHANGED <<umasks, open_fds, exec_ret>>

-----------------------------------------------------------------------------
(***************************************************************************)
(* clone_fd_table without sharing: the table is walked in the order of its *)
(* traced descriptors and dup() is called for every replayed one above 0.  *)
(***************************************************************************)
Duplicated(table, t) == table[t].fd > 0 /\ table[t].fd \in DOMAIN open_fds

NthFree(n) ==
    LET free == FreeFds(open_fds, ReplayLimit)
    IN IF n > Cardinality(free) THEN SYSCALL_FAILURE
       ELSE CHOOSE k \in free : Cardinality({j \in free : j <= k}) = n

\* A faulty CopiedFd: the copy holds the parent's descriptors.
CopiedFd_same(table, t) == table[t].fd

CopiedFd(table, t) ==
    CASE table[t].fd <= 0 -> table[t].fd
      [] Duplicated(table, t) ->
            NthFree(Cardinality({u \in DOMAIN table : u <= t /\ Duplicated(table, u)}))
      [] OTHER -> EBADF

CopiedTable(table) ==
    [t \in DOMAIN table |-> Entry(CopiedFd(table, t), table[t].flags)]

OpenAfterCopy(table) ==
    LET made == {t \in DOMAIN table :
                    Duplicated(table, t) /\ CopiedFd(table, t) # SYSCALL_FAILURE}
    IN [n \in DOMAIN open_fds \cup {CopiedFd(table, t) : t \in made} |->
           IF n \in DOMAIN open_fds THEN open_fds[n]
           ELSE open_fds[table[CHOOSE t \in made : CopiedFd(table, t) = n].fd]]

\* clone_umask, then clone_fd_table.
CloneResources(parent, child, share_umask, share_files) ==
    /\ IF share_umask THEN umasks' = Shared(umasks, parent, child)
       ELSE \E m \in Unallocated(umasks) :
               umasks' = Created(umasks, child, m, View(umasks, parent))
    /\ IF share_files THEN fds' = Shared(fds, parent, child) /\ UNCHANGED open_fds
       ELSE /\ \E a \in Unallocated(fds) :
                  fds' = Created(fds, child, a, CopiedTable(Table(parent)))
            /\ open_fds' = OpenAfterCopy(Table(parent))
    /\ UNCHANGED <<exec_ret, aborted>>

\* Faulty forms of the two tests: only threads share.
SharesUmask_threads(flags) == "CLONE_THREAD" \in flags
SharesFiles_threads(flags) == "CLONE_THREAD" \in flags

SharesUmask(flags) == flags \cap {"CLONE_FS", "CLONE_THREAD"} # {}
SharesFiles(flags) == flags \cap {"CLONE_FILES", "CLONE_THREAD"} # {}

Clone(parent, child, flags) ==
    /\ parent \in Alive /\ Row("clone") /\ child \in Pids \ Alive
    /\ TracedClones(parent, child, "CLONE_FILES" \in flags, "CLONE_FS" \in flags)
    /\ CloneResources(parent, child, SharesUmask(flags), SharesFiles(flags))

VFork(parent, child) ==
    /\ parent \in Alive /\ Row("vfork") /\ child \in Pids \ Alive
    /\ TracedClones(parent, child, FALSE, FALSE)
    /\ CloneResources(parent, child, FALSE, FALSE)

\* A clone that failed is replayed like one that worked, for process id -1:
\* counts that nothing brings down again grow, up to the bound CountLimit.
CloneFails(parent, flags) ==
    /\ parent \in Alive /\ Row("clone_fails")
    /\ fds.rc[fds.of[parent]] < CountLimit /\ umasks.rc[umasks.of[parent]] < CountLimit
    /\ UNCHANGED tracedVars
    /\ CloneResources(parent, FailedPid, SharesUmask(flags), SharesFiles(flags))

\* Faulty forms of Exit: nothing is closed; every exit closes.
Exit_closes_none(p) ==
    /\ p \in Alive /\ Row(IF file_peers[p] = {p} THEN "exit" ELSE "exit_thread")
    /\ TracedExits(p)
    /\ umasks' = Dropped(umasks, p)
    /\ fds' = Dropped(fds, p)
    /\ UNCHANGED <<open_fds, exec_ret, aborted>>

Exit_closes_shared(p) ==
    /\ p \in Alive /\ Row(IF file_peers[p] = {p} THEN "exit" ELSE "exit_thread")
    /\ TracedExits(p)
    /\ umasks' = Dropped(umasks, p)
    /\ fds' = Dropped(fds, p)
    /\ open_fds' = ClosedAll(open_fds, all_replayed_fds(Table(p)))
    /\ UNCHANGED <<exec_ret, aborted>>

\* exit: remove_umask, remove_fd_table, close what it returned.
Exit(p) ==
    /\ p \in Alive /\ Row(IF file_peers[p] = {p} THEN "exit" ELSE "exit_thread")
    /\ TracedExits(p)
    /\ umasks' = Dropped(umasks, p)
    /\ fds' = Dropped(fds, p)
    /\ open_fds' = IF LastReference(fds, p)
                   THEN ClosedAll(open_fds, all_replayed_fds(Table(p))) ELSE open_fds
    /\ UNCHANGED <<exec_ret, aborted>>

\* A faulty Execve: simulated entries wait for a success as well.
Execve_like_files(p, returned) ==
    LET gone == {t \in DOMAIN Table(p) : O_CLOEXEC \in Table(p)[t].flags /\ exec_ret >= 0}
    IN
    /\ p \in Alive /\ Row(IF returned >= 0 THEN "execve" ELSE "execve_fails")
    /\ file_peers[p] = {p}
    /\ IF returned >= 0 THEN TracedExecs(p) ELSE UNCHANGED tracedVars
    /\ fds' = Updated(fds, p, ClosedAll(Table(p), gone))
    /\ exec_ret' = returned
    /\ UNCHANGED <<umasks, open_fds, aborted>>

\* execve: entries leave the table, nothing is closed. What decides is the
\* return value of the execve record before this one: prepareRow reads it
\* before the base class reads this record's.
Execve(p, returned) ==
    LET marked == {t \in DOMAIN Table(p) : O_CLOEXEC \in Table(p)[t].flags}
        gone == {t \in marked : exec_ret >= 0 \/ Table(p)[t].fd = SYSCALL_SIMULATED}
    IN
    /\ p \in Alive /\ Row(IF returned >= 0 THEN "execve" ELSE "execve_fails")
    /\ file_peers[p] = {p}
    /\ IF returned >= 0 THEN TracedExecs(p) ELSE UNCHANGED tracedVars
    /\ fds' = Updated(fds, p, ClosedAll(Table(p), gone))
    /\ exec_ret' = returned
    /\ UNCHANGED <<umasks, open_fds, aborted>>

Umask(p, mode) ==
    /\ p \in Alive /\ Row("umask")
    /\ TracedUmask(p, mode)
    /\ umasks' = Updated(umasks, p, mode)
    /\ UNCHANGED <<fds, open_fds, exec_ret, aborted>>

Next ==
    \/ \E p \in Pids, f \in Files, cloexec \in BOOLEAN, opens \in {TRUE, ~ReplayMayFail} :
          Open(p, f, cloexec, opens)
    \/ \E p \in Pids, opens \in BOOLEAN : OpenFails(p, opens)
    \/ \E p \in Pids, t \in TracedFds \cup {SYSCALL_FAILURE} : Close(p, t)
    \/ \E p \in Pids, t \in TracedFds : Dup(p, t)
    \/ \E p \in Pids, t \in TracedFds \cup {SYSCALL_FAILURE} : DupFails(p, t)
    \/ \E p \in Pids, old, new \in TracedFds : Dup2(p, old, new)
    \/ \E p \in Pids, old, new \in TracedFds, cloexec \in BOOLEAN :
          Dup3(p, old, new, cloexec)
    \/ \E p \in Pids, t \in TracedFds : Dup3Fails(p, t)
    \/ \E p \in Pids, t \in TracedFds, cloexec \in BOOLEAN : FcntlDup(p, t, cloexec)
    \/ \E p \in Pids, t \in TracedFds, cloexec \in BOOLEAN : FcntlSetFd(p, t, cloexec)
    \/ \E p \in Pids, kind \in {"socket", "accept", "accept4"}, cloexec \in BOOLEAN :
          Simulated(p, kind, cloexec)
    \/ \E p \in Pids, cloexec \in BOOLEAN : SocketPair(p, cloexec)
    \/ \E p \in Pids : Pipe(p)
    \/ \E p \in Pids : PipeFails(p)
    \/ \E p, child \in Pids, flags \in CloneFlags : Clone(p, child, flags)
    \/ \E p, child \in Pids : VFork(p, child)
    \/ \E p \in Pids, flags \in CloneFlags : CloneFails(p, flags)
    \/ \E p \in Pids : Exit(p)
    \/ \E p \in Pids, returned \in {0, SYSCALL_FAILURE} : Execve(p, returned)
    \/ \E p \in Pids, mode \in Modes : Umask(p, mode)

Spec == Init /\ [][Next]_vars
-----------------------------------------------------------------------------
(* Tables, masks, descriptors and processes are of their kinds, and the     *)
(* manager knows exactly the processes that are alive (and -1, if a clone   *)
(* failed).                                                                *)
TypeOK ==
    /\ Alive \subseteq Pids
    /\ DOMAIN fds.of \ {FailedPid} = Alive /\ DOMAIN umasks.of = DOMAIN fds.of
    /\ \A a \in DOMAIN fds.val :
          /\ DOMAIN fds.val[a] \subseteq TracedFds \cup {SYSCALL_FAILURE, AT_FDCWD}
          /\ \A t \in DOMAIN fds.val[a] :
                fds.val[a][t] \in [fd : Int, flags : SUBSET {O_CLOEXEC}]
    /\ \A m \in DOMAIN umasks.val : umasks.val[m] \in Modes
    /\ open_fds \in [DOMAIN open_fds -> Files \cup {Terminal, Socket, ReplayerFile}]
    /\ DOMAIN open_fds \subseteq 0 .. ReplayLimit - 1

(* Whatever the trace holds, calls that failed included, no table or mask   *)
(* is freed while a process still points at it: a count may be too high     *)
(* (a failed clone leaves it so), never too low.                           *)
NeverLow(S) == \A a \in DOMAIN S.rc : S.rc[a] >= Cardinality(Holders(S, a))
NeverFreedInUse ==
    /\ NoDangling(fds) /\ NeverLow(fds)
    /\ NoDangling(umasks) /\ NeverLow(umasks)

(* A process's table has an entry for each descriptor the traced process   *)
(* has open, and for no other. add_fd_entry's assertion rests on it: one    *)
(* stale entry and the next call that returns that number aborts.          *)
SameDescriptors ==
    \A p \in Alive :
        DOMAIN Table(p) \ {SYSCALL_FAILURE, AT_FDCWD} = DOMAIN traced[p]

(* What the replayer passes to a call on a traced descriptor designates     *)
(* the same open file the traced call was made on, or the entry says that   *)
(* the call is simulated: no replayed read or write reaches another file.   *)
Designates(p, t) ==
    LET fd == get_fd(Table(p), t) IN
    IF traced[p][t].file = Socket THEN fd = SYSCALL_SIMULATED
    ELSE fd \in DOMAIN open_fds /\ open_fds[fd] = traced[p][t].file

SameFiles == \A p \in Alive : \A t \in DOMAIN traced[p] : Designates(p, t)

(* The same through forks, exits and opens that fail in the replayer: an    *)
(* entry that says -1 makes the replayed call fail too, and never reaches   *)
(* another file. (0 is shared by the copies of a table: run StdinShared.)   *)
SameFilesButStdin ==
    \A p \in Alive : \A t \in DOMAIN traced[p] :
        Designates(p, t) \/ get_fd(Table(p), t) \in {0, SYSCALL_FAILURE}

(* The replayer's descriptors have one owner each: two entries, of one      *)
(* process or of two with tables of their own, never hold the same          *)
(* replayed descriptor, so closing one entry's cannot close another's.      *)
OneOwner ==
    \A a, b \in DOMAIN fds.val :
        \A t \in DOMAIN fds.val[a], u \in DOMAIN fds.val[b] :
            fds.val[a][t].fd > 0 /\ fds.val[a][t].fd = fds.val[b][u].fd
                => a = b /\ t = u

(* "every fd that is open is known to this resource manager"               *)
(* (ReplayerResourcesManager.hpp): nothing the replayer opened is lost.     *)
EveryOpenFdKnown == DOMAIN open_fds \subseteq KnownFds(fds)

(* The table's close-on-exec flag is the traced one, which the next execve  *)
(* record relies on to drop the right entries.                             *)
SameCloexec ==
    \A p \in Alive : \A t \in DOMAIN traced[p] \cap DOMAIN Table(p) :
        O_CLOEXEC \in Table(p)[t].flags <=> traced[p][t].cloexec

(* The mask get_mode() applies to a mode is the traced process's, through   *)
(* any sharing by clone.                                                   *)
SameUmask == \A p \in Alive : View(umasks, p) = mask[p]

(* No assertion of the manager fails while the trace is replayed.           *)
NeverAborts == ~aborted
=============================================================================
