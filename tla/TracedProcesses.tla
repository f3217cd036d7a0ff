-------------------------- MODULE TracedProcesses --------------------------
(***************************************************************************)
(* The traced application, as the trace shows it (external). Its processes *)
(* and their descriptors live in the kernel of the machine where the trace *)
(* was taken; this is the ground truth the replayer's tables must follow.  *)
(* A record of the trace is one system call with the value it returned.    *)
(***************************************************************************)
EXTENDS KernelFds

CONSTANTS
    Pids,            \* process ids of the trace, Root the first of them
    Root,
    Files,           \* open files the trace may create
    Terminal,        \* what the standard streams designate
    Socket,          \* any object the replayer simulates: socket, pipe, epoll
    StdFds,          \* the standard streams: 0, 1, 2
    TracedLimit,     \* descriptors a traced process may have
    Modes            \* umask values

ASSUME TracedAssumption ==
    /\ IsFiniteSet(Pids) /\ Root \in Pids
    /\ TracedLimit \in Nat /\ StdFds \subseteq 0 .. TracedLimit - 1
    /\ 0 \in Modes /\ Socket \notin Files \cup {Terminal}

VARIABLES
    traced,          \* live process -> its descriptors: [file, cloexec]
    file_peers,      \* live process -> the processes that share its descriptors
    fs_peers,        \* live process -> the processes that share its umask
    mask             \* live process -> its umask

tracedVars == <<traced, file_peers, fs_peers, mask>>

Alive == DOMAIN traced
TracedFds == 0 .. TracedLimit - 1
Descriptor(file, cloexec) == [file |-> file, cloexec |-> cloexec]

TracedInit ==
    /\ traced = [p \in {Root} |-> [t \in StdFds |-> Descriptor(Terminal, FALSE)]]
    /\ file_peers = [p \in {Root} |-> {Root}]
    /\ fs_peers = [p \in {Root} |-> {Root}]
    /\ mask = [p \in {Root} |-> 0]

\* The descriptor a traced call that creates one returns.
HasRoom(p, n) == Cardinality(FreeFds(traced[p], TracedLimit)) >= n
NextFd(p) == NewFd(traced[p], TracedLimit)
SecondFd(p) == NewFd(Put(traced[p], NextFd(p), Socket), TracedLimit)

\* Every process that shares p's descriptors sees the change.
TracedBecomes(p, table) ==
    /\ traced' = [q \in Alive |-> IF q \in file_peers[p] THEN table ELSE traced[q]]
    /\ UNCHANGED <<file_peers, fs_peers, mask>>

TracedGains(p, t, file, cloexec) ==
    TracedBecomes(p, Put(traced[p], t, Descriptor(file, cloexec)))

TracedCloses(p, t) == TracedBecomes(p, Closed(traced[p], t))

TracedSetsCloexec(p, t, cloexec) ==
    TracedBecomes(p, [traced[p] EXCEPT ![t].cloexec = cloexec])

\* A successful execve closes what is marked close-on-exec.
TracedExecs(p) ==
    TracedBecomes(p, ClosedAll(traced[p], {t \in DOMAIN traced[p] : traced[p][t].cloexec}))

\* A new process, alone with a copy or in its parent's group.
Joined(peers, parent, child, shares) ==
    LET group == IF shares THEN peers[parent] \cup {child} ELSE {child} IN
    [q \in Alive \cup {child} |-> IF q \in group THEN group ELSE peers[q]]

TracedClones(parent, child, share_files, share_fs) ==
    /\ traced' = Put(traced, child, traced[parent])
    /\ file_peers' = Joined(file_peers, parent, child, share_files)
    /\ fs_peers' = Joined(fs_peers, parent, child, share_fs)
    /\ mask' = Put(mask, child, mask[parent])

Left(peers, p) == [q \in Alive \ {p} |-> peers[q] \ {p}]

TracedExits(p) ==
    /\ traced' = Without(traced, p)
    /\ file_peers' = Left(file_peers, p)
    /\ fs_peers' = Left(fs_peers, p)
    /\ mask' = Without(mask, p)

TracedUmask(p, mode) ==
    /\ mask' = [q \in Alive |-> IF q \in fs_peers[p] THEN mode ELSE mask[q]]
    /\ UNCHANGED <<traced, file_peers, fs_peers>>
=============================================================================
