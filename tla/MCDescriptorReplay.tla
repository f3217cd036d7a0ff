------------------------ MODULE MCDescriptorReplay ------------------------
(* Small instances of DescriptorReplay for TLC. *)
EXTENDS DescriptorReplay, TLC

CONSTANTS p1, p2, f1, f2, a1, a2

TwoPids == {p1, p2}
TwoFiles == {f1, f2}
OneAddress == {a1}
TwoAddresses == {a1, a2}

\* A fork, a thread, and a process that shares only its descriptors or umask.
ForkFlags == {{}}
ThreadFlags == {{"CLONE_FS", "CLONE_FILES", "CLONE_THREAD"}, {"CLONE_FS", "CLONE_FILES"}}
ForkOrThread == {{}, {"CLONE_FS", "CLONE_FILES", "CLONE_THREAD"}}
AllFlags == ForkFlags \cup ThreadFlags \cup {{"CLONE_FILES"}, {"CLONE_FS"}}

\* What the traces of the runs contain.
ThreadKinds ==
    {"open", "close", "dup", "dup2", "open_fails", "fcntl_dup", "dup3", "close_std",
     "dup2_std", "dup2_same", "clone", "clone_fails", "exit_thread", "exit"}
ProcessKinds ==
    {"open", "close", "socket", "accept", "socketpair", "execve", "clone", "vfork",
     "umask", "exit", "exit_thread"}
OneProcessKinds ==
    {"open", "open_fails", "close", "close_std", "dup_fails", "dup2", "dup2_std", "dup2_same",
     "dup3", "dup3_same", "fcntl_dup", "set_cloexec", "clear_cloexec", "socket", "accept4",
     "pipe", "pipe_fails", "execve", "execve_fails"}

Symmetry == Permutations(TwoFiles) \cup Permutations(TwoAddresses)
=============================================================================
