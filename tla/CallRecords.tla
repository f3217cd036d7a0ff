----------------------------- MODULE CallRecords -----------------------------
(***************************************************************************)
(* The life of the records of one trace file: its module reads a row       *)
(* (prepareRow), is copied into a record that is queued (move), and a      *)
(* replay thread replays the record (processRow), compares and prints it   *)
(* (after_sys_call). The copy has the members setMove copies and shares    *)
(* the buffers; the module goes on to the next row.                        *)
(*                                                                         *)
(* A value of a row is the number of the row, 0 what nobody has set. The   *)
(* modules of two files share none of this, so one file is enough. Any     *)
(* queued record may be replayed next: what the scheduler allows is in     *)
(* ReplayScheduler.                                                        *)
(***************************************************************************)
EXTENDS SystemCalls, Sequences

CONSTANTS
    MaxRows,   \* bound: the longest trace file
    Batch      \* the size of a batch

ASSUME RecordsAssumption == MaxRows \in Nat \ {0} /\ Batch \in Nat \ 0 .. 1

VARIABLES
    file,      \* the system call whose rows the file has
    call,      \* the system call of the module that reads it
    rows,      \* the rows of the file
    opt,       \* the command line: verify, verbose, warn
    reader,    \* at: where the reader is; left: count of batch_syscall_modules
    module,    \* member -> row its value is from
    records,   \* the records queued so far, in the order they were pushed
    live,      \* the buffers that are allocated: <<row, member>>
    fault      \* a buffer was used or deleted that is not allocated

given == <<file, call, rows, opt>>
vars == <<given, reader, module, records, live, fault>>

Present(members) == IF opt.verify THEN members ELSE members \ call.verifies
Members == call.gathers \cup call.moves \cup commonFields \cup {"row"}

Failed == -1

Init ==
    /\ \E i \in DOMAIN create_prefetch_buffer_modules :
          file = create_prefetch_buffer_modules[i] /\ call \in CallsOf(i)
    /\ rows \in 1 .. MaxRows
    /\ opt \in [verify : BOOLEAN, verbose : BOOLEAN, warn : BOOLEAN]
    /\ reader = [at |-> "load", left |-> 0]
    /\ module = [m \in Members |-> 0]
    /\ records = << >>
    /\ live = {}
    /\ fault = FALSE

-----------------------------------------------------------------------------
(* The reader.                                                             *)

RowsRead == module["uniqueIdVal"]

\* The module after prepareRow of the next row; the row before is forgotten.
\* execve asks for the return value before the common fields are taken.
prepareRow ==
    [m \in Members |->
        IF m = "retVal" THEN module["returnVal"]
        ELSE IF m \in Present(call.gathers) \cup commonFields THEN RowsRead + 1
        ELSE module[m]]

Allocated == {<<RowsRead + 1, m>> : m \in Present(call.buffers)}

\* move and setCommon: what is not copied is as the constructor left it.
move(mod) ==
    [values |-> [m \in Members |-> IF m \in call.moves \cup commonFields THEN mod[m] ELSE 0],
     at |-> "queued", simulated |-> FALSE, ret |-> 0, took |-> << >>]

Push(mod) == records' = Append(records, move(mod))

\* load_syscall_modules: the first row of the file.
Load ==
    /\ reader.at = "load" /\ call \notin Unmoved
    /\ module' = prepareRow
    /\ live' = live \cup Allocated
    /\ Push(prepareRow)
    /\ reader' = [reader EXCEPT !.at = "loaded"]
    /\ UNCHANGED <<given, fault>>

\* move of the base class returns nullptr, and load_syscall_modules uses it.
LoadCrashes ==
    /\ reader.at = "load" /\ call \in Unmoved
    /\ module' = prepareRow
    /\ reader' = [reader EXCEPT !.at = "crashed"]
    /\ UNCHANGED <<given, records, live, fault>>

\* Mutant: the first batch pushes its copy, too.
StartBatch_first_too ==
    /\ reader.at \in {"loaded", "idle"}
    /\ Push(module)
    /\ reader' = [at |-> "batch", left |-> Batch - 1]
    /\ UNCHANGED <<given, module, live, fault>>

\* Mutant: the count is decremented after the test.
StartBatch_full ==
    /\ reader.at \in {"loaded", "idle"}
    /\ IF reader.at = "loaded" THEN UNCHANGED records ELSE Push(module)
    /\ reader' = [at |-> "batch", left |-> Batch]
    /\ UNCHANGED <<given, module, live, fault>>

\* batch_syscall_modules: push the row that was kept. The first time it is the
\* row Load pushed, and the copy is dropped.
StartBatch ==
    /\ reader.at \in {"loaded", "idle"}
    /\ IF reader.at = "loaded" THEN UNCHANGED records ELSE Push(module)
    /\ reader' = [at |-> "batch", left |-> Batch - 1]
    /\ UNCHANGED <<given, module, live, fault>>

\* The last row of the batch is kept in the module.
ReadRow ==
    /\ reader.at = "batch" /\ RowsRead < rows
    /\ module' = prepareRow
    /\ live' = live \cup Allocated
    /\ IF reader.left = 1 THEN UNCHANGED records ELSE Push(prepareRow)
    /\ reader' = [at |-> IF reader.left = 1 THEN "idle" ELSE "batch",
                  left |-> reader.left - 1]
    /\ UNCHANGED <<given, fault>>

EndOfRecord ==
    /\ reader.at = "batch" /\ RowsRead = rows
    /\ reader' = [reader EXCEPT !.at = "finished"]
    /\ UNCHANGED <<given, module, records, live, fault>>

-----------------------------------------------------------------------------
(* A replay thread.                                                        *)

Buffers(r, members) == {<<r.values[m], m>> : m \in members}

\* What the call gets for a member: the value, or what the buffer holds.
Content(r, m) == IF m \in call.unfilled THEN 0 ELSE r.values[m]

\* processRow when the descriptor is simulated: return early, delete nothing.
Simulate(i) ==
    /\ records[i].at = "queued" /\ call.reports # NoMember
    /\ records' = [records EXCEPT ![i].at = "ran", ![i].simulated = TRUE,
                                  ![i].ret = records[i].values[call.reports]]
    /\ UNCHANGED <<given, reader, module, live, fault>>

\* processRow: make the call, verify, delete; it returns what it did in the
\* trace, or fails.
Replay(i) ==
    LET r == records[i]
        deleted == IF call.unlessVerbose /\ opt.verbose THEN {}
                   ELSE Buffers(r, Present(call.deletes))
        used == Buffers(r, Present(call.passes) \cap call.buffers)
    IN \E n \in call.rounds, ret \in {r.values["returnVal"], Failed} :
        /\ r.at = "queued"
        /\ records' = [records EXCEPT
               ![i].at = "ran", ![i].ret = ret,
               ![i].took = IF n = 0 THEN @
                           ELSE [m \in Present(call.passes) |-> Content(r, m)]]
        /\ live' = IF n = 0 THEN live ELSE live \ deleted
        /\ fault' = (\/ fault
                     \/ n > 0 /\ ~(used \cup deleted \subseteq live)
                     \/ n > 1 /\ deleted # {})
        /\ UNCHANGED <<given, reader, module>>

isReplayable == call.name \notin {"exit", "execve", "mmap", "munmap"}

\* How often the record is printed: in warn mode if the return values, or only
\* the errno numbers, differ; and in verbose mode.
Prints(r) ==
    LET differs == IF ~(opt.warn /\ isReplayable) THEN {0}
                   ELSE IF r.ret # r.values["returnVal"] THEN {1} ELSE {0, 1}
    IN {n + (IF opt.verbose THEN 1 ELSE 0) : n \in differs}

after_sys_call(i) ==
    LET shown == Buffers(records[i], call.shows)
    IN \E n \in Prints(records[i]) :
        /\ records[i].at = "ran"
        /\ records' = [records EXCEPT ![i].at = "done"]
        /\ live' = IF n > 0 /\ call.showDeletes THEN live \ shown ELSE live
        /\ fault' = (\/ fault
                     \/ n > 0 /\ ~(shown \subseteq live)
                     \/ n > 1 /\ call.showDeletes)
        /\ UNCHANGED <<given, reader, module>>

Next ==
    \/ Load \/ LoadCrashes \/ StartBatch \/ ReadRow \/ EndOfRecord
    \/ \E i \in DOMAIN records : Simulate(i) \/ Replay(i) \/ after_sys_call(i)

Spec == Init /\ [][Next]_vars

-----------------------------------------------------------------------------
(* Properties.                                                             *)

TypeOK ==
    /\ \E i \in DOMAIN create_prefetch_buffer_modules : call \in CallsOf(i)
    /\ rows \in 1 .. MaxRows
    /\ opt \in [verify : BOOLEAN, verbose : BOOLEAN, warn : BOOLEAN]
    /\ reader.at \in {"load", "crashed", "loaded", "idle", "batch", "finished"}
    /\ reader.left \in 0 .. Batch - 1
    /\ module \in [Members -> 0 .. rows]
    /\ live \subseteq (1 .. rows) \X call.buffers
    /\ \A i \in DOMAIN records :
        /\ records[i].values \in [Members -> 0 .. rows]
        /\ records[i].at \in {"queued", "ran", "done"}
        /\ records[i].simulated \in BOOLEAN
        /\ records[i].ret \in Failed .. rows
        /\ \A m \in DOMAIN records[i].took : records[i].took[m] \in 0 .. rows
    /\ fault \in BOOLEAN

\* Every row that was read is queued once, in the order of the file, but for the
\* one that is kept between two batches; at the end of the file none is kept
\* (batch_syscall_modules, load_syscall_modules).
Kept == IF reader.at \in {"idle", "crashed"} THEN 1 ELSE 0
RowsInOrder ==
    /\ Len(records) = RowsRead - Kept
    /\ \A i \in DOMAIN records : records[i].values["uniqueIdVal"] = i
    /\ reader.at = "finished" => Len(records) = rows

\* The rows of a call are read by the module of that call ("each entry in
\* prefetch_buffer_modules corresponds to its own module", SystemCallTraceReplayer
\* :401): two lists of 70 calls, kept by hand, agree in every place.
OwnModule ==
    \/ call.name = file
    \/ call = ioctl_buffer /\ file = "ioctl"

\* A replayed call, and its verification, gets every argument from the row of its
\* record, whatever the reader has read since: setMove misses none. Three do not: a
\* page fault copies replayed_ret_val_ bytes, which is not moved, the buffer of an
\* ioctl is filled with that many bytes (Ioctl:88), and the return value by which
\* execve closes descriptors is that of the row before (Execve:103).
OwnArguments ==
    \A i \in DOMAIN records : \A m \in DOMAIN records[i].took :
        \/ records[i].took[m] = i
        \/ call = mmappread /\ m = "replayed_ret_val_"
        \/ call = ioctl_buffer /\ m = "buffer"
        \/ call = execve /\ m = "retVal" /\ records[i].took[m] = i - 1

\* No buffer is used or deleted after it was deleted, unless what is printed in
\* verbose or warn mode was deleted by the call (some calls keep it in verbose mode,
\* and then fail only if it is printed twice or after a warning), or a page fault
\* hits two mappings.
DeleteThenPrint ==
    {chmod, chown, chroot, mkdir, mkdirat, rmdir, unlink, unlinkat, rename, readlink,
     stat, statfs, fstatat, write, pwrite, mmappwrite, utime, utimes, utimensat}
PrintThenDelete == {access, faccessat, chdir, link, linkat}
OnlyPrintingFaults ==
    fault => \/ call \in DeleteThenPrint /\ (opt.verbose \/ opt.warn)
             \/ call \in PrintThenDelete /\ opt.warn
             \/ call = mmappread

\* A record that was replayed leaves no buffer behind, but for the paths of lstat,
\* utime and readlink, the path of access in verbose mode, and a page fault that
\* hits no mapping.
Leaks ==
    IF call \in {lstat, utime, utimes, utimensat, readlink} THEN {"pathname"}
    ELSE IF call \in {access, faccessat} /\ opt.verbose THEN {"pathname"}
    ELSE IF call = mmappread THEN call.buffers ELSE {}
BuffersFreed ==
    \A i \in DOMAIN records :
        records[i].at = "done" /\ ~records[i].simulated
            => \A m \in call.buffers \ Leaks : <<i, m>> \notin live

\* A call on a simulated descriptor returns what it returned in the trace ("Original
\* return value will be returned", Read:103-105, FStat of BasicStat:302-304,
\* LSeek:62-64; "Traced return value will be returned", Write and Close).
TracedReturn ==
    \A i \in DOMAIN records : records[i].simulated => records[i].ret = i

\* It does for the calls that take the value from a member setMove copies.
ReturnForgotten == {read, write, lseek, fstat, close}
TracedReturnIfMoved == call \notin ReturnForgotten => TracedReturn

=============================================================================
