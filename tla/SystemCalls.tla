----------------------------- MODULE SystemCalls -----------------------------
(***************************************************************************)
(* What the replay module of each system call does with a record: the      *)
(* members its prepareRow fills from the row and the buffers it allocates, *)
(* the members setMove copies into the record that is queued, and what     *)
(* processRow and print_specific_fields of that record pass, delete and    *)
(* read. Members have the names of the source.                             *)
(*                                                                         *)
(*   name       the call in the trace                                      *)
(*   gathers    members prepareRow sets                                    *)
(*   moves      members move copies                                        *)
(*   passes     members the call, or the verification, takes               *)
(*   reports    the member a call on a simulated descriptor returns        *)
(*   buffers    members that own a buffer                                  *)
(*   unfilled   those among passes whose buffer is not filled from the row *)
(*   verifies   members and buffers that are there only with --verify      *)
(*   deletes    buffers processRow deletes after the call                  *)
(*   unlessVerbose   it does so only if nothing will be printed            *)
(*   shows      buffers (or the row itself) print_specific_fields reads     *)
(*   showDeletes     it deletes them then                                  *)
(*   rounds     how often a replay may pass and delete                     *)
(***************************************************************************)
EXTENDS Integers, FiniteSets

NoMember == "none"

\* A call by a path, whose one buffer is deleted after it.
PathCall(name, values, moved) ==
    [name |-> name,
     gathers |-> {"pathname"} \cup values, moves |-> moved,
     passes |-> {"pathname"} \cup values, reports |-> NoMember,
     buffers |-> {"pathname"}, unfilled |-> {}, verifies |-> {},
     deletes |-> {"pathname"}, unlessVerbose |-> FALSE,
     shows |-> {"pathname"}, showDeletes |-> FALSE, rounds |-> {1}]

\* A call on a descriptor, without buffers; if the descriptor is simulated the
\* call is not made and returns what the member reports holds.
FdCall(name, values, moved) ==
    [name |-> name,
     gathers |-> values, moves |-> moved,
     passes |-> values, reports |-> "returnVal",
     buffers |-> {}, unfilled |-> {}, verifies |-> {},
     deletes |-> {}, unlessVerbose |-> FALSE,
     shows |-> {}, showDeletes |-> FALSE, rounds |-> {1}]

\* A call that has no descriptor to look up, or makes no call on one.
ValueCall(name, values, moved) ==
    [FdCall(name, values, moved) EXCEPT !.reports = NoMember]

\* SystemCallTraceReplayModule::prepareRow and setCommon: the fields of every call.
commonFields == {"uniqueIdVal", "returnVal"}

-----------------------------------------------------------------------------
(* Calls by a path.                                                        *)

access_setMove == {"pathname", "mode_value"}
access ==
    [PathCall("access", {"mode_value"}, access_setMove) EXCEPT !.unlessVerbose = TRUE]
\* The at-calls inherit move, which makes a record of the call by path.
faccessat == [access EXCEPT !.name = "faccessat"]

chdir_setMove == {"pathname"}
\* Mutant: print_specific_fields does not delete the path.
chdir_kept == [PathCall("chdir", {}, chdir_setMove) EXCEPT !.unlessVerbose = TRUE]
chdir ==
    [PathCall("chdir", {}, chdir_setMove) EXCEPT !.unlessVerbose = TRUE, !.showDeletes = TRUE]

\* Mutant: the mode is not moved.
chmod_setMove_short == {"pathname"}
chmod_setMove == {"pathname", "modeVal"}
chmod == PathCall("chmod", {"modeVal"}, chmod_setMove)

chown_setMove == {"pathname", "newOwner", "newGroup"}
chown == PathCall("chown", {"newOwner", "newGroup"}, chown_setMove)

\* The call itself is commented out.
chroot_setMove == {"pathname"}
chroot == [PathCall("chroot", {}, chroot_setMove) EXCEPT !.passes = {}]

mkdir_setMove == {"pathname", "modeVal"}
mkdir == PathCall("mkdir", {"modeVal"}, mkdir_setMove)
mkdirat == [mkdir EXCEPT !.name = "mkdirat"]

rmdir_setMove == {"pathname"}
rmdir == PathCall("rmdir", {}, rmdir_setMove)

unlink_setMove == {"pathname"}
unlink == PathCall("unlink", {}, unlink_setMove)
unlinkat == [unlink EXCEPT !.name = "unlinkat"]

open_setMove == {"pathname", "modeVal", "flags", "traced_fd"}
\* Mutant: the path itself is printed.
open_printed == PathCall("open", {"modeVal", "flags", "traced_fd"}, open_setMove)
\* What is printed of open is a copy of the path.
open ==
    [PathCall("open", {"modeVal", "flags", "traced_fd"}, open_setMove) EXCEPT !.shows = {}]
openat == [open EXCEPT !.name = "openat"]

\* Nothing deletes the path of utime. It prints the fields of the row its series
\* is on, and the series of a record that was moved is on none.
utime_setMove == {"pathname", "access_t", "mod_t"}
utime ==
    [PathCall("utime", {"access_t", "mod_t"}, utime_setMove)
        EXCEPT !.deletes = {}, !.shows = {"row"}]
utimes == [utime EXCEPT !.name = "utimes"]
utimensat == [utime EXCEPT !.name = "utimensat"]

BothPaths == {"old_pathname", "new_pathname"}
TwoPathCall(name, moved) ==
    [PathCall(name, {}, moved) EXCEPT
        !.gathers = BothPaths, !.passes = BothPaths, !.buffers = BothPaths,
        !.deletes = BothPaths, !.shows = BothPaths]

link_setMove == {"old_pathname", "new_pathname"}
link ==
    [TwoPathCall("link", link_setMove) EXCEPT !.unlessVerbose = TRUE, !.showDeletes = TRUE]
linkat == [link EXCEPT !.name = "linkat"]

rename_setMove == {"old_pathname", "new_pathname"}
rename == TwoPathCall("rename", rename_setMove)

readlink_setMove == {"buffer", "nbytes", "pathname", "dataReadBuf"}
readlink ==
    [PathCall("readlink", {"nbytes"}, readlink_setMove) EXCEPT
        !.gathers = @ \cup {"buffer", "dataReadBuf", "replayed_ret_val_"},
        !.passes = @ \cup {"dataReadBuf"},
        !.buffers = {"pathname", "buffer", "dataReadBuf"}, !.verifies = {"dataReadBuf"},
        !.deletes = {"buffer", "dataReadBuf"}, !.shows = {"pathname", "dataReadBuf"}]

-----------------------------------------------------------------------------
(* stat and its kin keep the result of the trace, to verify the replay's;   *)
(* statBuf stands for its members.                                         *)

BasicStat(c) ==
    [c EXCEPT !.gathers = @ \cup {"statBuf"}, !.passes = @ \cup {"statBuf"},
              !.verifies = {"statBuf"}]

copyStatStruct == {"statBuf"}
stat_setMove == {"pathname"} \cup copyStatStruct
stat == BasicStat(PathCall("stat", {}, stat_setMove))

\* lstat does not delete its path.
lstat_setMove == {"pathname"} \cup copyStatStruct
lstat == [BasicStat(PathCall("lstat", {}, lstat_setMove)) EXCEPT !.deletes = {}]

copyStatfsStruct == {"statBuf"}
statfs_setMove == {"pathname"} \cup copyStatfsStruct
statfs == BasicStat(PathCall("statfs", {}, statfs_setMove))

fstat_setMove == {"descriptorVal"} \cup copyStatStruct
fstat ==
    [BasicStat(FdCall("fstat", {"descriptorVal"}, fstat_setMove)) EXCEPT
        !.gathers = @ \cup {"replayed_ret_val_"}, !.reports = "replayed_ret_val_"]

fstatat_setMove == {"traced_fd", "flag_value", "pathname"} \cup copyStatStruct
fstatat ==
    [BasicStat(PathCall("fstatat", {"traced_fd", "flag_value"}, fstatat_setMove))
        EXCEPT !.reports = "returnVal"]

-----------------------------------------------------------------------------
(* Calls on a descriptor.                                                  *)

fchdir_setMove == {"file_descriptor"}
fchdir == FdCall("fchdir", {"file_descriptor"}, fchdir_setMove)

fchmod_setMove == {"traced_fd", "mode_value"}
fchmod == FdCall("fchmod", {"traced_fd", "mode_value"}, fchmod_setMove)
fchmodat == [fchmod EXCEPT !.name = "fchmodat"]

\* ftruncate does not ask whether the descriptor is simulated.
ftruncate_setMove == {"traced_fd", "length"}
ftruncate == ValueCall("ftruncate", {"traced_fd", "length"}, ftruncate_setMove)

\* A simulated call that returns the copy its own prepareRow took of the value.
ReportsOwn(c, member) == [c EXCEPT !.gathers = @ \cup {member}, !.reports = member]

fallocate_setMove == {"traced_fd", "mode_val", "offset", "length", "simulated_ret_val"}
fallocate ==
    ReportsOwn(FdCall("fallocate", {"traced_fd", "mode_val", "offset", "length"},
                      fallocate_setMove), "simulated_ret_val")

fdatasync_setMove == {"traced_fd", "simulated_ret_val"}
fdatasync ==
    ReportsOwn(FdCall("fdatasync", {"traced_fd"}, fdatasync_setMove), "simulated_ret_val")

\* Mutant: the value of the trace is not moved, as in read and close.
fsync_setMove_short == {"traced_fd"}
fsync_setMove == {"traced_fd", "simulated_ret_val"}
fsync == ReportsOwn(FdCall("fsync", {"traced_fd"}, fsync_setMove), "simulated_ret_val")

readahead_setMove == {"traced_fd", "offset", "size", "simulated_ret_val"}
readahead ==
    ReportsOwn(FdCall("readahead", {"traced_fd", "offset", "size"}, readahead_setMove),
               "simulated_ret_val")

\* replayed_fd is moved before processRow looks it up.
lseek_setMove == {"descriptorVal", "offset", "whence", "replayed_fd"}
lseek ==
    ReportsOwn(FdCall("lseek", {"descriptorVal", "offset", "whence"}, lseek_setMove),
               "replayed_ret_val_")

getdents_setMove == {"traced_fd", "dirent_buffer_val", "count_val", "return_val"}
getdents ==
    [ReportsOwn(FdCall("getdents", {"traced_fd", "count_val"}, getdents_setMove),
                "return_val") EXCEPT
        !.gathers = @ \cup {"dirent_buffer_val"}, !.passes = @ \cup {"dirent_buffer_val"},
        !.buffers = {"dirent_buffer_val"}, !.verifies = {"dirent_buffer_val"},
        !.deletes = {"dirent_buffer_val"}]

ioctl_setMove == {"file_descriptor", "req", "params", "buffer", "size"}
ioctl ==
    [FdCall("ioctl", {"file_descriptor", "req", "params"}, ioctl_setMove) EXCEPT
        !.gathers = @ \cup {"size"}]
\* With a buffer: prepareRow copies replayed_ret_val_ bytes into it, which is 0.
ioctl_buffer ==
    [ioctl EXCEPT !.name = "ioctl_buffer", !.gathers = @ \cup {"buffer"},
        !.passes = {"file_descriptor", "req", "buffer"},
        !.buffers = {"buffer"}, !.unfilled = {"buffer"}, !.deletes = {"buffer"}]

read_setMove == {"buffer", "nbytes", "traced_fd", "dataReadBuf"}
read ==
    [ReportsOwn(FdCall("read", {"nbytes", "traced_fd"}, read_setMove),
                "replayed_ret_val_") EXCEPT
        !.gathers = @ \cup {"buffer", "dataReadBuf"}, !.passes = @ \cup {"dataReadBuf"},
        !.buffers = {"buffer", "dataReadBuf"}, !.verifies = {"dataReadBuf"},
        !.deletes = {"buffer", "dataReadBuf"}]

pread_setMove == read_setMove \cup {"off"}
pread ==
    [read EXCEPT !.name = "pread", !.moves = pread_setMove,
        !.gathers = @ \cup {"off"}, !.passes = @ \cup {"off"}, !.reports = "returnVal"]

\* A page fault: once for each mapping the address lies in, it copies
\* replayed_ret_val_ bytes of the mapping and calls verifyRow.
mmappread_setMove == pread_setMove \cup {"ptr"}
mmappread ==
    [pread EXCEPT !.name = "mmappread", !.moves = mmappread_setMove,
        !.gathers = @ \cup {"ptr"}, !.passes = @ \cup {"ptr", "replayed_ret_val_"},
        !.rounds = 0 .. 2]

\* The data of the trace, not a pattern.
write_setMove == {"data_buffer", "nbytes", "traced_fd"}
write ==
    [ReportsOwn(FdCall("write", {"data_buffer", "nbytes", "traced_fd"}, write_setMove),
                "replayed_ret_val_") EXCEPT
        !.buffers = {"data_buffer"}, !.deletes = {"data_buffer"}, !.shows = {"data_buffer"}]

pwrite_setMove == write_setMove \cup {"off"}
pwrite ==
    [write EXCEPT !.name = "pwrite", !.moves = pwrite_setMove,
        !.gathers = @ \cup {"off"}, !.passes = @ \cup {"off"}, !.reports = "returnVal"]
mmappwrite == [pwrite EXCEPT !.name = "mmappwrite"]

-----------------------------------------------------------------------------
(* Calls that change descriptors, tables or mappings: only the part their   *)
(* records play here. What they do is in DescriptorReplay and              *)
(* VirtualAddressSpace.                                                    *)

close_setMove == {"descVal"}
close == ReportsOwn(FdCall("close", {"descVal"}, close_setMove), "replayed_ret_val_")

dup_setMove == {"file_descriptor"}
dup == FdCall("dup", {"file_descriptor"}, dup_setMove)

dup2_setMove == {"old_file_descriptor", "new_file_descriptor"}
dup2 == FdCall("dup2", {"old_file_descriptor", "new_file_descriptor"}, dup2_setMove)

dup3_setMove == {"old_file_descriptor", "new_file_descriptor", "flags"}
dup3 ==
    FdCall("dup3", {"old_file_descriptor", "new_file_descriptor", "flags"}, dup3_setMove)

\* The value for a simulated descriptor is set and then overwritten by the call;
\* lock stands for the five members of the lock.
fcntl_setMove == {"traced_fd", "command_val", "arg_val", "lock", "simulated_ret_val"}
fcntl ==
    [ValueCall("fcntl", {"traced_fd", "command_val", "arg_val", "lock"}, fcntl_setMove)
        EXCEPT !.gathers = @ \cup {"simulated_ret_val"}]

pipe_setMove == {"read_fd", "write_fd"}
pipe == ValueCall("pipe", {"read_fd", "write_fd"}, pipe_setMove)

socketpair_setMove == {"read_fd", "write_fd"}
socketpair == ValueCall("socketpair", {"read_fd", "write_fd"}, socketpair_setMove)

socket_setMove == {"domain", "type", "protocol"}
socket ==
    [FdCall("socket", {"domain", "type", "protocol"}, socket_setMove) EXCEPT
        !.passes = {"type"}]

accept_setMove == {"socket_fd"}
accept == [FdCall("accept", {"socket_fd"}, accept_setMove) EXCEPT !.passes = {}]
accept4_setMove == {"socket_fd"}
accept4 == [FdCall("accept4", {"socket_fd"}, accept4_setMove) EXCEPT !.passes = {}]

epoll_create_setMove == {"size"}
epoll_create ==
    [FdCall("epoll_create", {"size"}, epoll_create_setMove) EXCEPT !.passes = {}]

clone_setMove == {"flagVal", "childStackAddrVal", "parentTIDVal", "childTIDVal", "newTLSVal"}
clone ==
    [ValueCall("clone", {"flagVal", "childStackAddrVal", "parentTIDVal",
                               "childTIDVal", "newTLSVal"}, clone_setMove) EXCEPT
        !.passes = {"flagVal", "returnVal"}]

vfork_setMove == {}
vfork == [ValueCall("vfork", {}, vfork_setMove) EXCEPT !.passes = {"returnVal"}]

exit_setMove == {"exitStat", "generated"}
exit ==
    [ValueCall("exit", {"exitStat", "generated"}, exit_setMove) EXCEPT !.passes = {}]

umask_setMove == {"mode"}
umask == ValueCall("umask", {"mode"}, umask_setMove)

mmap_setMove ==
    {"startAddress", "sizeOfMap", "protectionVal", "flagsVal", "descriptorVal",
     "offsetVal", "mmapReturnVal"}
mmap ==
    ValueCall("mmap", {"startAddress", "sizeOfMap", "protectionVal", "flagsVal",
                       "descriptorVal", "offsetVal", "mmapReturnVal"}, mmap_setMove)

munmap_setMove == {"startAddress", "sizeOfMap"}
munmap == ValueCall("munmap", {"startAddress", "sizeOfMap"}, munmap_setMove)

\* The call is not replayed: what the return value decides is which descriptors
\* close on it. prepareRow of CallRecords says whose return value that is.
execve_setMove == {"continuation_num", "retVal"}
execve ==
    [ValueCall("execve", {"continuation_num", "retVal"}, execve_setMove) EXCEPT
        !.passes = {"retVal"}]

-----------------------------------------------------------------------------
(* Calls without a prepareRow and a move of their own: processRow and print *)
(* read the fields of the row that the series of the module is on.          *)

RowCall(name) ==
    [ValueCall(name, {}, {}) EXCEPT !.passes = {"row"}, !.shows = {"row"}]

\* On a simulated descriptor, the return value is the row's as well.
FdRowCall(name) == [RowCall(name) EXCEPT !.reports = "row"]

creat == RowCall("creat")
mknod == RowCall("mknod")
symlink == RowCall("symlink")
truncate == RowCall("truncate")
setxattr == RowCall("setxattr")
lsetxattr == [setxattr EXCEPT !.name = "lsetxattr"]
fsetxattr == FdRowCall("fsetxattr")

\* processRow allocates the buffers of the vector and deletes them; it returns
\* before it does if the descriptor is simulated.
readv == FdRowCall("readv")
writev == FdRowCall("writev")

\* Only the result is taken from the row, in the prepareRow it shares with statfs.
fstatfs == BasicStat(FdRowCall("fstatfs"))

Unmoved ==
    {creat, mknod, symlink, truncate, setxattr, lsetxattr, fsetxattr, readv, writev, fstatfs}

-----------------------------------------------------------------------------
\* The extent types that are read, in this order.
create_prefetch_buffer_modules ==
    <<"open", "openat", "close", "read", "write", "lseek", "pread", "mmappread",
      "access", "faccessat", "chdir", "fchdir", "chroot", "truncate", "creat", "link",
      "linkat", "unlink", "unlinkat", "symlink", "rmdir", "mkdir", "mkdirat", "stat",
      "statfs", "fstatfs", "pwrite", "mmappwrite", "readlink", "utime", "chmod",
      "fchmod", "fchmodat", "chown", "readv", "writev", "lstat", "fstat", "fstatat",
      "utimes", "utimensat", "rename", "fsync", "fdatasync", "fallocate", "readahead",
      "mknod", "pipe", "dup", "dup2", "dup3", "fcntl", "exit", "execve", "mmap",
      "munmap", "getdents", "ioctl", "clone", "vfork", "umask", "setxattr",
      "lsetxattr", "fsetxattr", "ftruncate", "socket", "socketpair", "epoll_create",
      "accept", "accept4">>

\* The replay modules: each takes the buffer that comes next.
create_system_call_trace_replay_modules ==
    <<open, openat, close, read, write, lseek, pread, mmappread,
      access, faccessat, chdir, fchdir, chroot, truncate, creat, link,
      linkat, unlink, unlinkat, symlink, rmdir, mkdir, mkdirat, stat,
      statfs, fstatfs, pwrite, mmappwrite, readlink, utime, chmod,
      fchmod, fchmodat, chown, readv, writev, lstat, fstat, fstatat,
      utimes, utimensat, rename, fsync, fdatasync, fallocate, readahead,
      mknod, pipe, dup, dup2, dup3, fcntl, exit, execve, mmap,
      munmap, getdents, ioctl, clone, vfork, umask, setxattr,
      lsetxattr, fsetxattr, ftruncate, socket, socketpair, epoll_create,
      accept, accept4>>

\* Mutant: one call was added to the types, and its module at the end.
CallsOf_shifted(i) ==
    IF i < 47 THEN {create_system_call_trace_replay_modules[i]}
    ELSE {create_system_call_trace_replay_modules[47 + ((i - 46) % 24)]}

\* The calls the records of file i are of. The rows of ioctl may have a buffer.
CallsOf(i) ==
    LET c == create_system_call_trace_replay_modules[i]
    IN IF c = ioctl THEN {ioctl, ioctl_buffer} ELSE {c}

=============================================================================
