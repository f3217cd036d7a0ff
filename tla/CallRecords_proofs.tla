------------------------- MODULE CallRecords_proofs -------------------------
(***************************************************************************)
(* For files and batches of any length. First the reader: it queues every  *)
(* row of the file once and in order, and of the call nothing is used but  *)
(* that its records have the common fields. Then what the calls of the     *)
(* fixed list have in common, one fact for each (Sound); what follows from *)
(* it for the values in the module and in a record (RowsInv), and for the  *)
(* buffers (BuffersInv).                                                   *)
(***************************************************************************)
EXTENDS CallRecords, SequenceTheorems, TLAPS

\* Where the reader is, and how far the module has read by then.
Reading ==
    /\ rows \in Nat /\ RowsRead \in Nat
    /\ reader = [at |-> reader.at, left |-> reader.left]
    /\ reader.at \in {"load", "crashed", "loaded", "idle", "batch", "finished"}
    /\ reader.at = "load" => RowsRead = 0
    /\ reader.at = "crashed" => RowsRead = 1 /\ records = << >>
    /\ reader.at = "finished" => RowsRead = rows
    /\ module = [m \in Members |-> module[m]]

\* A queued record has the values of the row of its place.
HasValues(r) == "values" \in DOMAIN r
Numbered == \A i \in DOMAIN records :
    HasValues(records[i]) /\ records[i].values["uniqueIdVal"] = i

IInv == (\E S : records \in Seq(S)) /\ Reading /\ Numbered /\ RowsInOrder

-----------------------------------------------------------------------------
(* A record has the unique id of the row the module was on.                *)
LEMMA MoveKeepsId ==
    ASSUME NEW mod
    PROVE  move(mod).values["uniqueIdVal"] = mod["uniqueIdVal"]
BY DEF move, Members, commonFields

(* prepareRow goes on by one row.                                          *)
LEMMA NextRow == prepareRow["uniqueIdVal"] = RowsRead + 1
BY DEF prepareRow, Members, commonFields

LEMMA PreparedIsModule == prepareRow = [m \in Members |-> prepareRow[m]]
BY DEF prepareRow

(* Pushing the next record leaves the ones before where they are.          *)
LEMMA PushedInOrder ==
    ASSUME NEW S, records \in Seq(S), NEW mod, Push(mod),
           Numbered,
           mod["uniqueIdVal"] = Len(records) + 1
    PROVE  /\ \E T : records' \in Seq(T)
           /\ Len(records') = Len(records) + 1
           /\ Numbered'
<1> DEFINE r == move(mod)
           T == S \cup {r}
<1>1. records \in Seq(T) /\ r \in T
  <2>1. \A i \in 1 .. Len(records) : records[i] \in S
    BY ElementOfSeq
  <2>2. QED
    BY <2>1
<1>2. records' = Append(records, r)
    BY DEF Push
<1>3. records' \in Seq(T)
    BY <1>1, <1>2, AppendProperties
<1>4. /\ Len(records') = Len(records) + 1
      /\ \A i \in 1 .. Len(records) : records'[i] = records[i]
      /\ records'[Len(records) + 1] = r
    BY <1>1, <1>2, AppendProperties
<1>5. DOMAIN records' = 1 .. Len(records) + 1 /\ DOMAIN records = 1 .. Len(records)
    BY <1>1, <1>3, <1>4
<1>6. r.values["uniqueIdVal"] = Len(records) + 1
    BY MoveKeepsId
<1>7. Numbered'
  <2> SUFFICES ASSUME NEW i \in DOMAIN records'
               PROVE  HasValues(records'[i]) /\ records'[i].values["uniqueIdVal"] = i
    BY DEF Numbered
  <2>1. CASE i = Len(records) + 1
    BY <2>1, <1>4, <1>6 DEF HasValues, move
  <2>2. CASE i # Len(records) + 1
    <3>1. i \in 1 .. Len(records)
      BY <2>2, <1>5, LenProperties
    <3>2. QED
      BY <3>1, <1>4, <1>5 DEF Numbered
  <2>3. QED
    BY <2>1, <2>2
<1>8. QED
    BY <1>3, <1>4, <1>7

(* What a replay thread writes into a record is neither its id nor its place. *)
LEMMA ReplayedInOrder ==
    ASSUME NEW S, records \in Seq(S), NEW i \in DOMAIN records, NEW r,
           records' = [records EXCEPT ![i] = r], r.values = records[i].values,
           Numbered, HasValues(r)
    PROVE  /\ \E T : records' \in Seq(T)
           /\ Len(records') = Len(records)
           /\ Numbered'
<1> DEFINE T == S \cup {r}
<1>1. records \in Seq(T) /\ r \in T
  <2>1. \A j \in 1 .. Len(records) : records[j] \in S
    BY ElementOfSeq
  <2>2. QED
    BY <2>1
<1>2. i \in 1 .. Len(records)
    BY <1>1
<1>3. /\ [records EXCEPT ![i] = r] \in Seq(T)
      /\ Len([records EXCEPT ![i] = r]) = Len(records)
    BY <1>1, <1>2, ExceptSeq
<1>4. Numbered'
  <2>1. DOMAIN records' = DOMAIN records
    OBVIOUS
  <2>2. \A j \in DOMAIN records : records'[j] = IF j = i THEN r ELSE records[j]
    OBVIOUS
  <2>3. QED
    BY <2>1, <2>2 DEF Numbered
<1>5. QED
  BY <1>3, <1>4

-----------------------------------------------------------------------------
LEMMA InitIsGood == Init => IInv
<1> SUFFICES ASSUME Init PROVE IInv
  OBVIOUS
<1>1. records = << >> /\ module = [m \in Members |-> 0] /\ reader = [at |-> "load", left |-> 0]
  BY DEF Init
<1>2. rows \in Nat
  BY RecordsAssumption DEF Init
<1>3. RowsRead = 0
  BY <1>1 DEF RowsRead, Members, commonFields
<1>4. Reading
  BY <1>1, <1>2, <1>3 DEF Reading
<1>5. Numbered /\ RowsInOrder
  <2>1. Len(records) = 0 /\ DOMAIN records = {} /\ reader.at = "load"
    BY <1>1
  <2>2. Numbered
    BY <2>1 DEF Numbered
  <2>3. Kept = 0
    BY <2>1 DEF Kept
  <2>4. QED
    BY <2>1, <2>2, <2>3, <1>3 DEF RowsInOrder, Numbered
<1>6. \E S : records \in Seq(S)
  <2>1. records \in Seq({})
    BY <1>1
  <2>2. QED
    BY <2>1
<1>7. QED
  BY <1>4, <1>5, <1>6 DEF IInv

(* The steps of the reader.                                                *)
LEMMA LoadIsGood == IInv /\ Load => IInv'
<1> SUFFICES ASSUME IInv, Load PROVE IInv'
  OBVIOUS
<1>1. PICK S : records \in Seq(S)
  BY DEF IInv
<1>2. RowsRead = 0 /\ RowsRead' = 1 /\ Len(records) = 0
  BY NextRow DEF Load, IInv, Reading, RowsRead, RowsInOrder, Kept
<1>3. Numbered
  BY DEF IInv, RowsInOrder
<1>4. Push(prepareRow) /\ prepareRow["uniqueIdVal"] = Len(records) + 1
  BY <1>2, NextRow DEF Load
<1>5. /\ \E T : records' \in Seq(T)
      /\ Len(records') = Len(records) + 1
      /\ Numbered'
  BY <1>1, <1>3, <1>4, PushedInOrder
<1>6. reader' = [at |-> "loaded", left |-> reader.left]
  BY DEF Load, IInv, Reading
<1>7. Reading'
  BY <1>2, <1>6, PreparedIsModule DEF Load, IInv, Reading, given, Members
<1>8. RowsInOrder'
  BY <1>2, <1>5, <1>6 DEF RowsInOrder, Numbered, Kept
<1>9. QED
  BY <1>5, <1>7, <1>8 DEF IInv

LEMMA LoadCrashesIsGood == IInv /\ LoadCrashes => IInv'
<1> SUFFICES ASSUME IInv, LoadCrashes PROVE IInv'
  OBVIOUS
<1>1. RowsRead = 0 /\ RowsRead' = 1 /\ Len(records) = 0
  BY NextRow DEF LoadCrashes, IInv, Reading, RowsRead, RowsInOrder, Kept
<1>2. records = << >> /\ records' = records
  BY <1>1, EmptySeq DEF LoadCrashes, IInv
<1>3. reader' = [at |-> "crashed", left |-> reader.left]
  BY DEF LoadCrashes, IInv, Reading
<1>4. Reading'
  BY <1>1, <1>2, <1>3, PreparedIsModule DEF LoadCrashes, IInv, Reading, given, Members
<1>5. RowsInOrder' /\ Numbered'
  BY <1>1, <1>2, <1>3 DEF RowsInOrder, Numbered, Kept, IInv
<1>6. QED
  BY <1>2, <1>4, <1>5 DEF IInv

\* The row that was kept is the next one in the queue.
LEMMA StartBatchIsGood == IInv /\ StartBatch => IInv'
<1> SUFFICES ASSUME IInv, StartBatch PROVE IInv'
  OBVIOUS
<1>1. PICK S : records \in Seq(S)
  BY DEF IInv
<1>2. RowsRead' = RowsRead /\ reader' = [at |-> "batch", left |-> Batch - 1]
  BY DEF StartBatch, RowsRead
<1>3. Reading'
  BY <1>2 DEF StartBatch, IInv, Reading, given, Members, Present
<1>4. CASE reader.at = "loaded"
  <2>1. records' = records /\ RowsInOrder' /\ Numbered'
    BY <1>2, <1>4 DEF StartBatch, IInv, RowsInOrder, Numbered, Kept
  <2>2. QED
    BY <1>1, <1>3, <2>1 DEF IInv
<1>5. CASE reader.at = "idle"
  <2>1. /\ Push(module) /\ Len(records) = RowsRead - 1
        /\ Numbered
    BY <1>5 DEF StartBatch, IInv, RowsInOrder, Numbered, Kept
  <2>2. module["uniqueIdVal"] = Len(records) + 1
    BY <2>1 DEF RowsRead, IInv, Reading
  <2>3. /\ \E T : records' \in Seq(T)
        /\ Len(records') = Len(records) + 1
        /\ Numbered'
    BY <1>1, <2>1, <2>2, PushedInOrder
  <2>4. RowsInOrder'
    BY <1>2, <2>1, <2>3 DEF RowsInOrder, Numbered, Kept, IInv, Reading
  <2>5. QED
    BY <1>3, <2>3, <2>4 DEF IInv
<1>6. QED
  BY <1>4, <1>5 DEF StartBatch

LEMMA ReadRowIsGood == IInv /\ ReadRow => IInv'
<1> SUFFICES ASSUME IInv, ReadRow PROVE IInv'
  OBVIOUS
<1>1. PICK S : records \in Seq(S)
  BY DEF IInv
<1>2. RowsRead' = RowsRead + 1 /\ RowsRead \in Nat
  BY NextRow DEF ReadRow, IInv, Reading, RowsRead
<1>3. /\ Len(records) = RowsRead
      /\ Numbered
  BY <1>2 DEF ReadRow, IInv, RowsInOrder, Kept
<1>4. CASE reader.left = 1
  <2>1. records' = records /\ reader'.at = "idle"
    BY <1>4 DEF ReadRow
  <2>2. Reading'
    BY <1>2, <1>4, PreparedIsModule DEF ReadRow, IInv, Reading, given, Members
  <2>3. RowsInOrder' /\ Numbered'
    BY <1>2, <1>3, <2>1 DEF RowsInOrder, Numbered, Kept
  <2>4. QED
    BY <1>1, <2>1, <2>2, <2>3 DEF IInv
<1>5. CASE reader.left # 1
  <2>1. Push(prepareRow) /\ reader'.at = "batch"
    BY <1>5 DEF ReadRow
  <2>2. prepareRow["uniqueIdVal"] = Len(records) + 1
    BY <1>3, NextRow
  <2>3. /\ \E T : records' \in Seq(T)
        /\ Len(records') = Len(records) + 1
        /\ Numbered'
    BY <1>1, <1>3, <2>1, <2>2, PushedInOrder
  <2>4. Reading'
    BY <1>2, <1>5, PreparedIsModule DEF ReadRow, IInv, Reading, given, Members
  <2>5. RowsInOrder'
    BY <1>2, <1>3, <2>1, <2>3 DEF RowsInOrder, Numbered, Kept
  <2>6. QED
    BY <2>3, <2>4, <2>5 DEF IInv
<1>6. QED
  BY <1>4, <1>5

LEMMA EndOfRecordIsGood == IInv /\ EndOfRecord => IInv'
<1> SUFFICES ASSUME IInv, EndOfRecord PROVE IInv'
  OBVIOUS
<1>1. /\ records' = records /\ RowsRead' = RowsRead /\ rows' = rows
      /\ RowsRead = rows /\ reader.at = "batch"
      /\ reader' = [at |-> "finished", left |-> reader.left]
  BY DEF EndOfRecord, IInv, Reading, RowsRead, given
<1>2. Reading'
  BY <1>1 DEF EndOfRecord, IInv, Reading, given, Members
<1>3. RowsInOrder' /\ Numbered'
  BY <1>1 DEF IInv, Reading, RowsInOrder, Numbered, Kept
<1>4. QED
  BY <1>1, <1>2, <1>3 DEF IInv

(* The steps of a replay thread: each rewrites one record, but not its values. *)
LEMMA ThreadIsGood ==
    ASSUME IInv, NEW i \in DOMAIN records, NEW r, HasValues(r),
           records' = [records EXCEPT ![i] = r], r.values = records[i].values,
           UNCHANGED <<given, reader, module>>
    PROVE  IInv'
<1>1. PICK S : records \in Seq(S)
  BY DEF IInv
<1>2. /\ \E T : records' \in Seq(T)
      /\ Len(records') = Len(records)
      /\ Numbered'
  BY <1>1, ReplayedInOrder DEF IInv
<1>3. RowsRead' = RowsRead /\ rows' = rows /\ reader' = reader
  BY DEF RowsRead, given
<1>4. records # << >>
  BY <1>1
<1>5. Reading'
  BY <1>3, <1>4 DEF IInv, Reading, given, Members
<1>6. RowsInOrder'
  BY <1>2, <1>3 DEF IInv, RowsInOrder, Numbered, Kept
<1>7. QED
  BY <1>2, <1>5, <1>6 DEF IInv

LEMMA NextIsGood == IInv /\ [Next]_vars => IInv'
<1> SUFFICES ASSUME IInv, [Next]_vars PROVE IInv'
  OBVIOUS
<1>1. CASE Load
  BY <1>1, LoadIsGood
<1>2. CASE LoadCrashes
  BY <1>2, LoadCrashesIsGood
<1>3. CASE StartBatch
  BY <1>3, StartBatchIsGood
<1>4. CASE ReadRow
  BY <1>4, ReadRowIsGood
<1>5. CASE EndOfRecord
  BY <1>5, EndOfRecordIsGood
<1>6. ASSUME NEW i \in DOMAIN records, Simulate(i) PROVE IInv'
  <2> DEFINE r == [records[i] EXCEPT !.at = "ran", !.simulated = TRUE,
                                     !.ret = records[i].values[call.reports]]
  <2>1. HasValues(r) /\ r.values = records[i].values
    BY DEF IInv, Numbered, HasValues
  <2>2. records' = [records EXCEPT ![i] = r] /\ UNCHANGED <<given, reader, module>>
    BY <1>6 DEF Simulate
  <2>3. QED
    BY <2>1, <2>2, ThreadIsGood
<1>7. ASSUME NEW i \in DOMAIN records, Replay(i) PROVE IInv'
  <2>1. PICK ret, took : records' = [records EXCEPT
            ![i] = [records[i] EXCEPT !.at = "ran", !.ret = ret, !.took = took]]
    <3>1. PICK n, ret : n \in call.rounds /\
              records' = [records EXCEPT
                  ![i].at = "ran", ![i].ret = ret,
                  ![i].took = IF n = 0 THEN @
                     ELSE [m \in Present(call.passes) |-> Content(records[i], m)]]
      BY <1>7 DEF Replay
    <3>2. QED
      BY <3>1
  <2> DEFINE r == [records[i] EXCEPT !.at = "ran", !.ret = ret, !.took = took]
  <2>2. HasValues(r) /\ r.values = records[i].values
    BY DEF IInv, Numbered, HasValues
  <2>3. UNCHANGED <<given, reader, module>>
    BY <1>7 DEF Replay
  <2>4. QED
    BY <2>1, <2>2, <2>3, ThreadIsGood
<1>8. ASSUME NEW i \in DOMAIN records, after_sys_call(i) PROVE IInv'
  <2> DEFINE r == [records[i] EXCEPT !.at = "done"]
  <2>1. HasValues(r) /\ r.values = records[i].values
    BY DEF IInv, Numbered, HasValues
  <2>2. records' = [records EXCEPT ![i] = r] /\ UNCHANGED <<given, reader, module>>
    BY <1>8 DEF after_sys_call
  <2>3. QED
    BY <2>1, <2>2, ThreadIsGood
<1>9. CASE UNCHANGED vars
  BY <1>9 DEF vars, given, IInv, Reading, Numbered, RowsInOrder, RowsRead, Kept, Members
<1>10. QED
  BY <1>1, <1>2, <1>3, <1>4, <1>5, <1>6, <1>7, <1>8, <1>9 DEF Next

(* Every row the reader has read is queued once, in the order of the file,  *)
(* but for the one kept between two batches, and at the end of the file all *)
(* are: for every length of file and of batches (batch_syscall_modules).    *)
THEOREM QueuedOnce == Spec => []RowsInOrder
<1>1. IInv => RowsInOrder
  BY DEF IInv
<1>2. QED
  BY InitIsGood, NextIsGood, <1>1, PTL DEF Spec

-----------------------------------------------------------------------------
(* What the fixed list of calls has in common.                             *)

\* What a call takes is filled from the row and copied, or is one of the three
\* exceptions.
TakesItsRow(c) ==
    \A m \in c.passes :
        /\ m \in c.gathers \cup commonFields
        /\ \/ m \in c.moves \cup commonFields /\ m \notin c.unfilled
              /\ (m = "retVal" => c = execve)
           \/ c = mmappread /\ m = "replayed_ret_val_"
           \/ c = ioctl_buffer /\ m = "buffer"

\* So is what a call on a simulated descriptor returns.
ReportsItsRow(c) ==
    c.reports = NoMember \/
        /\ c.reports \in c.gathers \cup commonFields
        /\ \/ c \in ReturnForgotten
           \/ /\ c.reports \in c.moves \cup commonFields
              /\ c.reports \notin c.verifies \cup {"retVal"}

\* The buffers are filled and copied; the call deletes some of them, at most once.
OwnsBuffers(c) ==
    /\ c.buffers \subseteq c.gathers \cap c.moves
    /\ "retVal" \notin c.buffers
    /\ c.deletes \subseteq c.buffers
    /\ c.shows \subseteq c.buffers \cup {"row"}
    /\ c.rounds \subseteq Nat
    /\ c = mmappread \/ c.rounds = {1}

\* What is printed was not deleted, or not in verbose mode, but for the calls that
\* OnlyPrintingFaults names.
PrintsWhatIsThere(c) ==
    \/ c \in DeleteThenPrint \cup {mmappread}
    \/ /\ c.shows \subseteq c.buffers \ c.verifies
       /\ \/ c.shows \cap c.deletes = {} /\ ~c.showDeletes
          \/ c \in PrintThenDelete /\ c.unlessVerbose

\* Every buffer is deleted, by the call or when it is printed, but for those that
\* Leaks names.
DeletesAll(c) ==
    \A m \in c.buffers :
        \/ c = mmappread
        \/ c \in {lstat, utime, utimes, utimensat, readlink} /\ m = "pathname"
        \/ c \in {access, faccessat} /\ m = "pathname" /\ m \in c.deletes
        \/ m \in c.deletes /\ (c.unlessVerbose => c.showDeletes /\ m \in c.shows)

Sound(c) ==
    /\ TakesItsRow(c) /\ ReportsItsRow(c) /\ OwnsBuffers(c)
    /\ PrintsWhatIsThere(c) /\ DeletesAll(c)

MovedCalls ==
    {open, openat, close, read, write, lseek, pread, mmappread, access,
     faccessat, chdir, fchdir, chroot, link, linkat, unlink, unlinkat, rmdir,
     mkdir, mkdirat, stat, statfs, pwrite, mmappwrite, readlink, utime, chmod,
     fchmod, fchmodat, chown, lstat, fstat, fstatat, utimes, utimensat,
     rename, fsync, fdatasync, fallocate, readahead, pipe, dup, dup2, dup3,
     fcntl, exit, execve, mmap, munmap, getdents, ioctl, ioctl_buffer, clone,
     vfork, umask, ftruncate, socket, socketpair, epoll_create, accept,
     accept4}

LEMMA MovedCallsAreSound == \A c \in MovedCalls : Sound(c)
<1> USE DEF Sound, TakesItsRow, ReportsItsRow, OwnsBuffers, PrintsWhatIsThere, DeletesAll,
            commonFields, ReturnForgotten, DeleteThenPrint, PrintThenDelete
<1>1. Sound(open)
  BY DEF open, PathCall, open_setMove
<1>2. Sound(openat)
  BY DEF openat, open, PathCall, open_setMove
<1>3. Sound(close)
  BY DEF close, ReportsOwn, FdCall, close_setMove
<1>4. Sound(read)
  BY DEF read, ReportsOwn, FdCall, read_setMove
<1>5. Sound(write)
  BY DEF write, ReportsOwn, FdCall, write_setMove
<1>6. Sound(lseek)
  BY DEF lseek, ReportsOwn, FdCall, lseek_setMove
<1>7. Sound(pread)
  BY DEF pread, read, ReportsOwn, FdCall, read_setMove, pread_setMove
<1>8. Sound(mmappread)
  <2>1. /\ mmappread.gathers = {"nbytes", "traced_fd", "replayed_ret_val_", "buffer",
                                "dataReadBuf", "off", "ptr"}
        /\ mmappread.moves = {"buffer", "nbytes", "traced_fd", "dataReadBuf", "off", "ptr"}
        /\ mmappread.passes = {"nbytes", "traced_fd", "dataReadBuf", "off", "ptr",
                               "replayed_ret_val_"}
    BY DEF mmappread, pread, read, ReportsOwn, FdCall, read_setMove, pread_setMove,
           mmappread_setMove
  <2>2. /\ mmappread.reports = "returnVal" /\ mmappread.unfilled = {}
        /\ mmappread.buffers = {"buffer", "dataReadBuf"} /\ mmappread.shows = {}
        /\ mmappread.verifies = {"dataReadBuf"} /\ mmappread.rounds = 0 .. 2
        /\ mmappread.deletes = {"buffer", "dataReadBuf"}
    BY DEF mmappread, pread, read, ReportsOwn, FdCall
  <2>3. QED
    BY <2>1, <2>2
<1>9. Sound(access)
  BY DEF access, PathCall, access_setMove
<1>10. Sound(faccessat)
  BY DEF faccessat, access, PathCall, access_setMove
<1>11. Sound(chdir)
  BY DEF chdir, PathCall, chdir_setMove
<1>12. Sound(fchdir)
  BY DEF fchdir, FdCall, fchdir_setMove
<1>13. Sound(chroot)
  BY DEF chroot, PathCall, chroot_setMove
<1>14. Sound(link)
  BY DEF link, TwoPathCall, PathCall, BothPaths, link_setMove
<1>15. Sound(linkat)
  BY DEF linkat, link, TwoPathCall, PathCall, BothPaths, link_setMove
<1>16. Sound(unlink)
  BY DEF unlink, PathCall, unlink_setMove
<1>17. Sound(unlinkat)
  BY DEF unlinkat, unlink, PathCall, unlink_setMove
<1>18. Sound(rmdir)
  BY DEF rmdir, PathCall, rmdir_setMove
<1>19. Sound(mkdir)
  BY DEF mkdir, PathCall, mkdir_setMove
<1>20. Sound(mkdirat)
  BY DEF mkdirat, mkdir, PathCall, mkdir_setMove
<1>21. Sound(stat)
  BY DEF stat, BasicStat, PathCall, stat_setMove, copyStatStruct
<1>22. Sound(statfs)
  BY DEF statfs, BasicStat, PathCall, statfs_setMove, copyStatfsStruct
<1>23. Sound(pwrite)
  BY DEF pwrite, write, ReportsOwn, FdCall, write_setMove,
     pwrite_setMove
<1>24. Sound(mmappwrite)
  BY DEF mmappwrite, pwrite, write, ReportsOwn, FdCall, write_setMove,
     pwrite_setMove
<1>25. Sound(readlink)
  BY DEF readlink, PathCall, readlink_setMove
<1>26. Sound(utime)
  BY DEF utime, PathCall, utime_setMove
<1>27. Sound(chmod)
  BY DEF chmod, PathCall, chmod_setMove
<1>28. Sound(fchmod)
  BY DEF fchmod, FdCall, fchmod_setMove
<1>29. Sound(fchmodat)
  BY DEF fchmodat, fchmod, FdCall, fchmod_setMove
<1>30. Sound(chown)
  BY DEF chown, PathCall, chown_setMove
<1>31. Sound(lstat)
  BY DEF lstat, BasicStat, PathCall, lstat_setMove, copyStatStruct
<1>32. Sound(fstat)
  BY DEF fstat, BasicStat, FdCall, fstat_setMove, copyStatStruct
<1>33. Sound(fstatat)
  BY DEF fstatat, BasicStat, PathCall, fstatat_setMove, copyStatStruct
<1>34. Sound(utimes)
  BY DEF utimes, utime, PathCall, utime_setMove
<1>35. Sound(utimensat)
  BY DEF utimensat, utime, PathCall, utime_setMove
<1>36. Sound(rename)
  BY DEF rename, TwoPathCall, PathCall, BothPaths, rename_setMove
<1>37. Sound(fsync)
  BY DEF fsync, ReportsOwn, FdCall, fsync_setMove
<1>38. Sound(fdatasync)
  BY DEF fdatasync, ReportsOwn, FdCall, fdatasync_setMove
<1>39. Sound(fallocate)
  BY DEF fallocate, ReportsOwn, FdCall, fallocate_setMove
<1>40. Sound(readahead)
  BY DEF readahead, ReportsOwn, FdCall, readahead_setMove
<1>41. Sound(pipe)
  BY DEF pipe, ValueCall, FdCall, pipe_setMove
<1>42. Sound(dup)
  BY DEF dup, FdCall, dup_setMove
<1>43. Sound(dup2)
  BY DEF dup2, FdCall, dup2_setMove
<1>44. Sound(dup3)
  BY DEF dup3, FdCall, dup3_setMove
<1>45. Sound(fcntl)
  BY DEF fcntl, ValueCall, FdCall, fcntl_setMove
<1>46. Sound(exit)
  BY DEF exit, ValueCall, FdCall, exit_setMove
<1>47. Sound(execve)
  BY DEF execve, ValueCall, FdCall, execve_setMove
<1>48. Sound(mmap)
  BY DEF mmap, ValueCall, FdCall, mmap_setMove
<1>49. Sound(munmap)
  BY DEF munmap, ValueCall, FdCall, munmap_setMove
<1>50. Sound(getdents)
  BY DEF getdents, ReportsOwn, FdCall, getdents_setMove
<1>51. Sound(ioctl)
  BY DEF ioctl, FdCall, ioctl_setMove
<1>52. Sound(ioctl_buffer)
  BY DEF ioctl_buffer, ioctl, FdCall, ioctl_setMove
<1>53. Sound(clone)
  BY DEF clone, ValueCall, FdCall, clone_setMove
<1>54. Sound(vfork)
  BY DEF vfork, ValueCall, FdCall, vfork_setMove
<1>55. Sound(umask)
  BY DEF umask, ValueCall, FdCall, umask_setMove
<1>56. Sound(ftruncate)
  BY DEF ftruncate, ValueCall, FdCall, ftruncate_setMove
<1>57. Sound(socket)
  BY DEF socket, FdCall, socket_setMove
<1>58. Sound(socketpair)
  BY DEF socketpair, ValueCall, FdCall, socketpair_setMove
<1>59. Sound(epoll_create)
  BY DEF epoll_create, FdCall, epoll_create_setMove
<1>60. Sound(accept)
  BY DEF accept, FdCall, accept_setMove
<1>61. Sound(accept4)
  BY DEF accept4, FdCall, accept4_setMove
<1> HIDE DEF Sound
<1> QED
  BY <1>1, <1>2, <1>3, <1>4, <1>5, <1>6, <1>7, <1>8, <1>9, <1>10, <1>11,
     <1>12, <1>13, <1>14, <1>15, <1>16, <1>17, <1>18, <1>19, <1>20, <1>21,
     <1>22, <1>23, <1>24, <1>25, <1>26, <1>27, <1>28, <1>29, <1>30, <1>31,
     <1>32, <1>33, <1>34, <1>35, <1>36, <1>37, <1>38, <1>39, <1>40, <1>41,
     <1>42, <1>43, <1>44, <1>45, <1>46, <1>47, <1>48, <1>49, <1>50, <1>51,
     <1>52, <1>53, <1>54, <1>55, <1>56, <1>57, <1>58, <1>59, <1>60, <1>61
  DEF MovedCalls

LEMMA CallsAreKnown ==
    ASSUME NEW i \in DOMAIN create_prefetch_buffer_modules, NEW c \in CallsOf(i)
    PROVE  c \in MovedCalls \cup Unmoved
BY DEF create_prefetch_buffer_modules, CallsOf, create_system_call_trace_replay_modules,
       MovedCalls, Unmoved

-----------------------------------------------------------------------------
(* What the members of the module and of a record hold.                    *)

\* A member of the module on row n: the return value execve uses is that of the
\* row before.
RowValue(n, m) ==
    IF n = 0 THEN 0
    ELSE IF m = "retVal" THEN n - 1
    ELSE IF m \in Present(call.gathers) \cup commonFields THEN n ELSE 0

ModuleOfRow(n) == [m \in Members |-> RowValue(n, m)]

Taken(r) == [m \in Present(call.passes) |-> Content(r, m)]

\* The record of row i, wherever its replay is.
IsRecord(r, i) ==
    /\ DOMAIN r = {"values", "at", "simulated", "ret", "took"}
    /\ r.values = move(ModuleOfRow(i)).values
    /\ r.at \in {"queued", "ran", "done"}
    /\ r.simulated \in BOOLEAN
    /\ r.ret \in Failed .. i
    /\ r.took \in {<< >>, Taken(r)}
    /\ r.simulated => /\ r.at # "queued" /\ call.reports # NoMember
                      /\ r.ret = r.values[call.reports]

RowsInv ==
    /\ \E j \in DOMAIN create_prefetch_buffer_modules : call \in CallsOf(j)
    /\ rows \in 1 .. MaxRows
    /\ opt \in [verify : BOOLEAN, verbose : BOOLEAN, warn : BOOLEAN]
    /\ reader.left \in 0 .. Batch - 1
    /\ reader.at = "batch" => reader.left > 0
    /\ RowsRead \in 0 .. rows
    /\ call \in Unmoved => reader.at \in {"load", "crashed"}
    /\ module = ModuleOfRow(RowsRead)
    /\ \A i \in DOMAIN records : IsRecord(records[i], i)

LEMMA IdOfRow == ASSUME NEW n \in Nat PROVE ModuleOfRow(n)["uniqueIdVal"] = n
BY DEF ModuleOfRow, RowValue, Members, commonFields

LEMMA PreparedNext ==
    ASSUME RowsRead \in Nat, module = ModuleOfRow(RowsRead)
    PROVE  prepareRow = ModuleOfRow(RowsRead + 1)
<1>1. module["returnVal"] = RowsRead
  BY DEF ModuleOfRow, RowValue, Members, commonFields
<1>2. \A m \in Members : module[m] = RowValue(RowsRead, m)
  BY DEF ModuleOfRow
<1>3. \A m \in Members :
        (IF m = "retVal" THEN module["returnVal"]
         ELSE IF m \in Present(call.gathers) \cup commonFields THEN RowsRead + 1
         ELSE module[m]) = RowValue(RowsRead + 1, m)
  BY <1>1, <1>2 DEF RowValue
<1>4. QED
  BY <1>3 DEF prepareRow, ModuleOfRow

\* With records in the queue, the call is one of those that move.
LEMMA CallIsSound ==
    ASSUME IInv, RowsInv, reader.at \notin {"load", "crashed"} \/ records # << >>
    PROVE  Sound(call)
<1>1. call \notin Unmoved
  <2>1. reader.at = "load" => Len(records) = 0
    BY DEF IInv, RowsInOrder, Reading, Kept
  <2>2. reader.at = "load" => records = << >>
    BY <2>1, EmptySeq DEF IInv
  <2>3. QED
    BY <2>2 DEF RowsInv, IInv, Reading
<1>2. QED
  BY <1>1, CallsAreKnown, MovedCallsAreSound DEF RowsInv

\* Every queued record is of a row that was read.
LEMMA RecordOfRow ==
    ASSUME IInv, RowsInv, NEW i \in DOMAIN records
    PROVE  /\ i \in 1 .. RowsRead /\ i \in 1 .. rows /\ i <= Len(records)
           /\ records # << >>
<1>1. PICK S : records \in Seq(S)
  BY DEF IInv
<1>2. i \in 1 .. Len(records)
  BY <1>1
<1>3. QED
  BY <1>1, <1>2 DEF IInv, RowsInOrder, Kept, RowsInv

LEMMA MovedValue ==
    ASSUME NEW i, NEW m \in Members
    PROVE  move(ModuleOfRow(i)).values[m] =
               IF m \in call.moves \cup commonFields THEN RowValue(i, m) ELSE 0
BY DEF move, ModuleOfRow

LEMMA ValuesInRange ==
    ASSUME NEW i \in Nat
    PROVE  move(ModuleOfRow(i)).values \in [Members -> 0 .. i]
<1>1. \A m \in Members : RowValue(i, m) \in 0 .. i
  BY DEF RowValue
<1>2. QED
  BY <1>1 DEF move, ModuleOfRow

\* A record just moved.
LEMMA NewIsRecord ==
    ASSUME NEW i \in Nat
    PROVE  IsRecord(move(ModuleOfRow(i)), i)
BY DEF IsRecord, move, Failed, Taken

\* What a record says does not depend on where the others are.
LEMMA StaysRecord ==
    ASSUME UNCHANGED given, NEW j,
           IsRecord(records'[j], j)
    PROVE  IsRecord(records[j], j)'
BY DEF IsRecord, move, ModuleOfRow, RowValue, Taken, Content, Present, Members, given

LEMMA PushedAreRecords ==
    ASSUME IInv, RowsInv, NEW i \in Nat, Push(ModuleOfRow(i)), i = Len(records) + 1,
           UNCHANGED given
    PROVE  (\A j \in DOMAIN records : IsRecord(records[j], j))'
<1>1. PICK S : records \in Seq(S)
  BY DEF IInv
<1> DEFINE r == move(ModuleOfRow(i))
           T == S \cup {r}
<1>2. records \in Seq(T) /\ r \in T
  <2>1. \A j \in 1 .. Len(records) : records[j] \in S
    BY <1>1, ElementOfSeq
  <2>2. QED
    BY <1>1, <2>1
<1>3. records' = Append(records, r)
  BY DEF Push
<1>4. /\ Len(records') = Len(records) + 1
      /\ \A j \in 1 .. Len(records) : records'[j] = records[j]
      /\ records'[Len(records) + 1] = r
      /\ records' \in Seq(T)
  BY <1>2, <1>3, AppendProperties
<1>5. DOMAIN records' = 1 .. Len(records) + 1 /\ DOMAIN records = 1 .. Len(records)
  BY <1>1, <1>4
<1>6. \A j \in DOMAIN records' : IsRecord(records'[j], j)
  BY <1>1, <1>4, <1>5, NewIsRecord, LenProperties DEF RowsInv
<1>7. QED
  BY <1>6, StaysRecord

LEMMA InitRows == Init => RowsInv
<1> SUFFICES ASSUME Init PROVE RowsInv
  OBVIOUS
<1>1. module = [m \in Members |-> 0] /\ RowsRead = 0
  BY DEF Init, RowsRead, Members, commonFields
<1>2. module = ModuleOfRow(0)
  BY <1>1 DEF ModuleOfRow, RowValue
<1>3. records = << >> /\ DOMAIN records = {}
  BY DEF Init
<1>4. QED
  BY <1>1, <1>2, <1>3, RecordsAssumption DEF Init, RowsInv

LEMMA SameModule ==
    ASSUME UNCHANGED given, NEW n \in Nat, module' = ModuleOfRow(n)
    PROVE  RowsRead' = n /\ module' = ModuleOfRow(RowsRead)'
<1>1. RowsRead' = n
  BY IdOfRow DEF RowsRead
<1>2. QED
  BY <1>1 DEF ModuleOfRow, RowValue, Members, Present, given

LEMMA LoadRows == IInv /\ RowsInv /\ Load => RowsInv'
<1> SUFFICES ASSUME IInv, RowsInv, Load PROVE RowsInv'
  OBVIOUS
<1>1. RowsRead = 0 /\ Len(records) = 0 /\ UNCHANGED given
  BY DEF Load, IInv, Reading, RowsInOrder, Kept
<1>2. module' = ModuleOfRow(1) /\ Push(ModuleOfRow(1))
  BY <1>1, PreparedNext DEF Load, RowsInv
<1>3. RowsRead' = 1 /\ module' = ModuleOfRow(RowsRead)'
  BY <1>1, <1>2, SameModule
<1>4. (\A j \in DOMAIN records : IsRecord(records[j], j))'
  BY <1>1, <1>2, PushedAreRecords
<1>5. reader'.at = "loaded" /\ reader'.left = reader.left
  BY DEF Load, IInv, Reading
<1>6. QED
  BY <1>1, <1>3, <1>4, <1>5, RecordsAssumption DEF RowsInv, given, Load

LEMMA SameRecords ==
    ASSUME RowsInv, UNCHANGED <<given, records>>
    PROVE  (\A j \in DOMAIN records : IsRecord(records[j], j))'
BY StaysRecord DEF RowsInv

LEMMA LoadCrashesRows == IInv /\ RowsInv /\ LoadCrashes => RowsInv'
<1> SUFFICES ASSUME IInv, RowsInv, LoadCrashes PROVE RowsInv'
  OBVIOUS
<1>1. RowsRead = 0 /\ UNCHANGED <<given, records>>
  BY DEF LoadCrashes, IInv, Reading
<1>2. module' = ModuleOfRow(1)
  BY <1>1, PreparedNext DEF LoadCrashes, RowsInv
<1>3. RowsRead' = 1 /\ module' = ModuleOfRow(RowsRead)'
  BY <1>1, <1>2, SameModule
<1>4. reader'.at = "crashed" /\ reader'.left = reader.left
  BY DEF LoadCrashes, IInv, Reading
<1>5. QED
  BY <1>1, <1>3, <1>4, SameRecords, RecordsAssumption DEF RowsInv, given

LEMMA StartBatchRows == IInv /\ RowsInv /\ StartBatch => RowsInv'
<1> SUFFICES ASSUME IInv, RowsInv, StartBatch PROVE RowsInv'
  OBVIOUS
<1>1. UNCHANGED <<given, module>> /\ reader' = [at |-> "batch", left |-> Batch - 1]
  BY DEF StartBatch
<1>2. RowsRead' = RowsRead /\ module' = ModuleOfRow(RowsRead)'
  BY <1>1, SameModule DEF RowsInv
<1>3. (\A j \in DOMAIN records : IsRecord(records[j], j))'
  <2>1. CASE reader.at = "loaded"
    BY <2>1, <1>1, SameRecords DEF StartBatch
  <2>2. CASE reader.at = "idle"
    <3>1. Push(ModuleOfRow(RowsRead)) /\ RowsRead = Len(records) + 1
      BY <2>2 DEF StartBatch, RowsInv, IInv, RowsInOrder, Kept, Reading
    <3>2. QED
      BY <3>1, <1>1, PushedAreRecords DEF RowsInv
  <2>3. QED
    BY <2>1, <2>2 DEF StartBatch
<1>4. Batch - 1 \in 1 .. Batch - 1 /\ Batch \in Nat
  BY RecordsAssumption
<1>5. call \notin Unmoved
  BY DEF StartBatch, RowsInv
<1>6. QED
  BY <1>1, <1>2, <1>3, <1>4, <1>5 DEF RowsInv, given

LEMMA ReadRowRows == IInv /\ RowsInv /\ ReadRow => RowsInv'
<1> SUFFICES ASSUME IInv, RowsInv, ReadRow PROVE RowsInv'
  OBVIOUS
<1> DEFINE n == RowsRead + 1
<1>1. n \in Nat /\ n \in 0 .. rows /\ UNCHANGED given
  BY RecordsAssumption DEF RowsInv, ReadRow
<1>2. prepareRow = ModuleOfRow(n) /\ module' = prepareRow
  BY PreparedNext DEF RowsInv, ReadRow
<1>3. RowsRead' = n /\ module' = ModuleOfRow(RowsRead)'
  BY <1>1, <1>2, SameModule
<1>4. (\A j \in DOMAIN records : IsRecord(records[j], j))'
  <2>1. CASE reader.left = 1
    BY <2>1, <1>1, SameRecords DEF ReadRow
  <2>2. CASE reader.left # 1
    <3>1. Push(ModuleOfRow(n)) /\ n = Len(records) + 1
      BY <2>2, <1>2 DEF ReadRow, IInv, RowsInOrder, Kept, Reading
    <3>2. QED
      BY <3>1, <1>1, PushedAreRecords
  <2>3. QED
    BY <2>1, <2>2
<1>5. /\ reader'.at \in {"idle", "batch"}
      /\ reader'.left = reader.left - 1
      /\ reader'.left \in 0 .. Batch - 1
      /\ reader'.at = "batch" => reader'.left > 0
  BY RecordsAssumption DEF ReadRow, RowsInv
<1>6. call \notin Unmoved
  BY DEF ReadRow, RowsInv
<1>7. QED
  BY <1>1, <1>3, <1>4, <1>5, <1>6 DEF RowsInv, given

LEMMA EndOfRecordRows == IInv /\ RowsInv /\ EndOfRecord => RowsInv'
<1> SUFFICES ASSUME IInv, RowsInv, EndOfRecord PROVE RowsInv'
  OBVIOUS
<1>1. UNCHANGED <<given, module, records>>
  BY DEF EndOfRecord
<1>2. RowsRead' = RowsRead /\ module' = ModuleOfRow(RowsRead)'
  BY <1>1, SameModule DEF RowsInv
<1>3. reader' = [at |-> "finished", left |-> reader.left]
  BY DEF EndOfRecord, IInv, Reading
<1>4. call \notin Unmoved
  BY DEF EndOfRecord, RowsInv
<1>5. QED
  BY <1>1, <1>2, <1>3, <1>4, SameRecords DEF RowsInv, given

(* A replay thread rewrites one record.                                    *)
LEMMA ThreadRows ==
    ASSUME IInv, RowsInv, NEW i \in DOMAIN records, NEW r, IsRecord(r, i),
           records' = [records EXCEPT ![i] = r],
           UNCHANGED <<given, reader, module>>
    PROVE  RowsInv'
<1>1. RowsRead' = RowsRead /\ module' = ModuleOfRow(RowsRead)'
  BY SameModule DEF RowsInv
<1>2. \A j \in DOMAIN records' : IsRecord(records'[j], j)
  BY DEF RowsInv
<1>3. (\A j \in DOMAIN records : IsRecord(records[j], j))'
  BY <1>2, StaysRecord
<1>4. QED
  BY <1>1, <1>3 DEF RowsInv, given

LEMMA SimulateIsRecord ==
    ASSUME IInv, RowsInv, NEW i \in DOMAIN records, Simulate(i)
    PROVE  \E r : /\ IsRecord(r, i)
                  /\ records' = [records EXCEPT ![i] = r]
                  /\ r.at = "ran" /\ r.simulated
<1> DEFINE q == records[i]
           ret == q.values[call.reports]
           r == [q EXCEPT !.at = "ran", !.simulated = TRUE, !.ret = ret]
<1>1. IsRecord(q, i) /\ i \in Nat
  BY RecordOfRow DEF RowsInv
<1>2. records' = [records EXCEPT ![i] = r]
  BY DEF Simulate
<1>3. ret \in Failed .. i
  <2>1. call.reports \in Members
    BY CallIsSound, RecordOfRow DEF Sound, ReportsItsRow, Members, Simulate
  <2>2. QED
    BY <1>1, <2>1, ValuesInRange DEF IsRecord, Failed
<1>4. /\ DOMAIN r = DOMAIN q /\ r.values = q.values /\ r.took = q.took
      /\ r.at = "ran" /\ r.simulated = TRUE /\ r.ret = ret
  BY <1>1 DEF IsRecord
<1> HIDE DEF r
<1>5. IsRecord(r, i)
  BY <1>1, <1>3, <1>4 DEF IsRecord, Simulate, Taken, Content
<1>6. QED
  BY <1>2, <1>4, <1>5

LEMMA ReplayIsRecord ==
    ASSUME IInv, RowsInv, NEW i \in DOMAIN records, Replay(i)
    PROVE  \E r : /\ IsRecord(r, i)
                  /\ records' = [records EXCEPT ![i] = r]
                  /\ r.at = "ran" /\ r.simulated = records[i].simulated
<1> DEFINE q == records[i]
<1>1. IsRecord(q, i) /\ i \in Nat /\ q.at = "queued"
  BY RecordOfRow DEF RowsInv, Replay
<1>2. PICK n \in call.rounds, ret \in {q.values["returnVal"], Failed} :
          records' = [records EXCEPT ![i].at = "ran", ![i].ret = ret,
              ![i].took = IF n = 0 THEN @ ELSE Taken(q)]
  BY DEF Replay, Taken
<1> DEFINE took == IF n = 0 THEN q.took ELSE Taken(q)
           r == [q EXCEPT !.at = "ran", !.ret = ret, !.took = took]
<1>3. records' = [records EXCEPT ![i] = r]
  BY <1>2
<1>4. ret \in Failed .. i
  <2>1. "returnVal" \in Members
    BY DEF Members, commonFields
  <2>2. QED
    BY <1>1, <2>1, ValuesInRange DEF IsRecord, Failed
<1>5. took \in {<< >>, Taken(q)}
  BY <1>1 DEF IsRecord
<1> HIDE DEF took
<1>6. /\ DOMAIN r = DOMAIN q /\ r.values = q.values /\ r.took = took
      /\ r.at = "ran" /\ r.simulated = q.simulated /\ r.ret = ret
  BY <1>1 DEF IsRecord
<1> HIDE DEF r
<1>7. IsRecord(r, i)
  BY <1>1, <1>4, <1>5, <1>6 DEF IsRecord, Taken, Content
<1>8. QED
  BY <1>3, <1>6, <1>7

LEMMA AfterIsRecord ==
    ASSUME IInv, RowsInv, NEW i \in DOMAIN records, after_sys_call(i)
    PROVE  \E r : /\ IsRecord(r, i)
                  /\ records' = [records EXCEPT ![i] = r]
                  /\ r.at = "done" /\ r.simulated = records[i].simulated
<1> DEFINE q == records[i]
           r == [q EXCEPT !.at = "done"]
<1>1. IsRecord(q, i)
  BY DEF RowsInv
<1>2. records' = [records EXCEPT ![i] = r]
  BY DEF after_sys_call
<1>3. /\ DOMAIN r = DOMAIN q /\ r.values = q.values /\ r.took = q.took
      /\ r.at = "done" /\ r.simulated = q.simulated /\ r.ret = q.ret
  BY <1>1 DEF IsRecord
<1> HIDE DEF r
<1>4. IsRecord(r, i)
  BY <1>1, <1>3 DEF IsRecord, Taken, Content
<1>5. QED
  BY <1>2, <1>3, <1>4

LEMMA NextRows == IInv /\ RowsInv /\ [Next]_vars => RowsInv'
<1> SUFFICES ASSUME IInv, RowsInv, [Next]_vars PROVE RowsInv'
  OBVIOUS
<1>1. CASE Load
  BY <1>1, LoadRows
<1>2. CASE LoadCrashes
  BY <1>2, LoadCrashesRows
<1>3. CASE StartBatch
  BY <1>3, StartBatchRows
<1>4. CASE ReadRow
  BY <1>4, ReadRowRows
<1>5. CASE EndOfRecord
  BY <1>5, EndOfRecordRows
<1>6. ASSUME NEW i \in DOMAIN records, Simulate(i) PROVE RowsInv'
  BY <1>6, SimulateIsRecord, ThreadRows DEF Simulate
<1>7. ASSUME NEW i \in DOMAIN records, Replay(i) PROVE RowsInv'
  <2>1. UNCHANGED <<given, reader, module>>
    BY <1>7 DEF Replay
  <2>2. QED
    BY <1>7, <2>1, ReplayIsRecord, ThreadRows
<1>8. ASSUME NEW i \in DOMAIN records, after_sys_call(i) PROVE RowsInv'
  <2>1. UNCHANGED <<given, reader, module>>
    BY <1>8 DEF after_sys_call
  <2>2. QED
    BY <1>8, <2>1, AfterIsRecord, ThreadRows
<1>9. CASE UNCHANGED vars
  <2>1. RowsRead' = RowsRead /\ module' = ModuleOfRow(RowsRead)' /\ UNCHANGED <<given, reader>>
    BY <1>9, SameModule DEF RowsInv, vars
  <2>2. QED
    BY <1>9, <2>1, SameRecords DEF RowsInv, vars, given
<1>10. QED
  BY <1>1, <1>2, <1>3, <1>4, <1>5, <1>6, <1>7, <1>8, <1>9 DEF Next

-----------------------------------------------------------------------------
(* The buffers.                                                            *)

\* The call deletes the buffer of m.
DeletesBuffer(m) == m \in call.deletes /\ ~(call.unlessVerbose /\ opt.verbose)

\* What is allocated of row i, whose record is r.
BuffersOf(r, i) ==
    \A m \in Present(call.buffers) :
        /\ r.at = "queued" => <<i, m>> \in live
        /\ r.at = "ran" /\ (r.simulated \/ ~DeletesBuffer(m)) => <<i, m>> \in live
        /\ r.at # "queued" /\ ~r.simulated /\ DeletesBuffer(m) /\ call # mmappread
               => <<i, m>> \notin live
        /\ r.at = "done" /\ opt.verbose /\ call.showDeletes /\ m \in call.shows
               => <<i, m>> \notin live

BuffersInv ==
    /\ live \subseteq (1 .. RowsRead) \X Present(call.buffers)
    /\ reader.at # "crashed" =>
           \A n \in Len(records) + 1 .. RowsRead : \A m \in Present(call.buffers) :
               <<n, m>> \in live
    /\ \A i \in DOMAIN records : BuffersOf(records[i], i)
    /\ fault \in BOOLEAN /\ OnlyPrintingFaults

LEMMA InitBuffers == Init => BuffersInv
<1> SUFFICES ASSUME Init PROVE BuffersInv
  OBVIOUS
<1>1. RowsRead = 0 /\ records = << >> /\ DOMAIN records = {} /\ Len(records) = 0
  BY DEF Init, RowsRead, Members, commonFields
<1>2. live = {} /\ fault = FALSE
  BY DEF Init
<1>3. Len(records) + 1 .. RowsRead = {}
  BY <1>1
<1>4. QED
  BY <1>1, <1>2, <1>3 DEF BuffersInv, OnlyPrintingFaults

\* A buffer of a record is that of its row.
LEMMA BufferOfRow ==
    ASSUME Sound(call), NEW i \in Nat \ {0}, NEW r, IsRecord(r, i)
    PROVE  /\ \A m \in Present(call.buffers) : r.values[m] = i
           /\ \A m \in call.shows : r.values[m] \in {0, i}
<1>1. \A m \in call.buffers : m \in Members /\ m # "retVal" /\ m \in call.gathers \cap call.moves
  BY DEF Sound, OwnsBuffers, Members
<1>2. ASSUME NEW m \in Present(call.buffers) PROVE r.values[m] = i
  <2>1. m \in call.buffers /\ m \in Present(call.gathers)
    BY <1>1 DEF Present
  <2>2. QED
    BY <1>1, <2>1, MovedValue DEF IsRecord, RowValue
<1>3. ASSUME NEW m \in call.shows PROVE r.values[m] \in {0, i}
  <2>1. m \in Members /\ m # "retVal"
    BY <1>1 DEF Sound, OwnsBuffers, Members
  <2>2. QED
    BY <2>1, MovedValue DEF IsRecord, RowValue
<1>4. QED
  BY <1>2, <1>3

LEMMA SameOptions ==
    ASSUME UNCHANGED given
    PROVE  Present(call.buffers)' = Present(call.buffers)
BY DEF Present, given

\* A row more in the module, or the kept one queued: no buffer is lost.
LEMMA ReaderKeepsBuffers ==
    ASSUME IInv, RowsInv, BuffersInv, NEW k \in {0, 1}, NEW n \in {0, 1},
           UNCHANGED <<given, fault>>,
           RowsRead' = RowsRead + n,
           live' = IF n = 0 THEN live ELSE live \cup Allocated,
           IF k = 0 THEN records' = records
           ELSE \E row \in Nat : Push(ModuleOfRow(row)),
           Len(records) + k <= RowsRead + n,
           reader.at # "crashed"
    PROVE  BuffersInv'
<1>1. PICK S : records \in Seq(S)
  BY DEF IInv
<1>2. RowsRead \in Nat /\ Len(records) \in Nat
  BY <1>1 DEF RowsInv
<1>3. Allocated = {<<RowsRead + 1, m>> : m \in Present(call.buffers)}
  BY DEF Allocated
<1>4. /\ live' \subseteq (1 .. RowsRead') \X Present(call.buffers)
      /\ \A j \in Len(records) + 1 .. RowsRead' : \A m \in Present(call.buffers) :
             <<j, m>> \in live'
  BY <1>2, <1>3 DEF BuffersInv
<1>5. /\ Len(records') = Len(records) + k
      /\ \A j \in DOMAIN records' :
            \/ j \in DOMAIN records /\ records'[j] = records[j]
            \/ /\ j = Len(records) + 1 /\ k = 1
               /\ records'[j].at = "queued" /\ records'[j].simulated = FALSE
  <2>1. CASE k = 0
    BY <2>1
  <2>2. CASE k = 1
    <3>1. PICK row \in Nat : records' = Append(records, move(ModuleOfRow(row)))
      BY <2>2 DEF Push
    <3> DEFINE r == move(ModuleOfRow(row))
               T == S \cup {r}
    <3>2. records \in Seq(T) /\ r \in T
      <4>1. \A j \in 1 .. Len(records) : records[j] \in S
        BY <1>1, ElementOfSeq
      <4>2. QED
        BY <1>1, <4>1
    <3>3. r.at = "queued" /\ r.simulated = FALSE
      BY DEF move
    <3> HIDE DEF r
    <3>4. /\ Len(records') = Len(records) + 1
          /\ \A j \in 1 .. Len(records) : records'[j] = records[j]
          /\ records'[Len(records) + 1] = r
          /\ records' \in Seq(T)
      BY <3>1, <3>2, AppendProperties DEF r
    <3>5. DOMAIN records' = 1 .. Len(records) + 1 /\ DOMAIN records = 1 .. Len(records)
      BY <1>1, <3>4
    <3>6. QED
      BY <1>2, <2>2, <3>3, <3>4, <3>5
  <2>3. QED
    BY <2>1, <2>2
<1>6. ASSUME NEW j \in DOMAIN records', NEW m \in Present(call.buffers)
      PROVE  LET r == records'[j] IN
        /\ r.at = "queued" => <<j, m>> \in live'
        /\ r.at = "ran" /\ (r.simulated \/ ~DeletesBuffer(m)) => <<j, m>> \in live'
        /\ r.at # "queued" /\ ~r.simulated /\ DeletesBuffer(m) /\ call # mmappread
               => <<j, m>> \notin live'
        /\ r.at = "done" /\ opt.verbose /\ call.showDeletes /\ m \in call.shows
               => <<j, m>> \notin live'
  <2>1. CASE j \in DOMAIN records /\ records'[j] = records[j]
    <3>1. j \in Nat /\ j # RowsRead + 1
      BY <2>1, <1>2, RecordOfRow
    <3>2. <<j, m>> \in live' <=> <<j, m>> \in live
      BY <1>3, <3>1
    <3>3. BuffersOf(records[j], j)
      BY <2>1 DEF BuffersInv
    <3>4. QED
      BY <2>1, <3>2, <3>3 DEF BuffersOf
  <2>2. CASE /\ j = Len(records) + 1 /\ k = 1
             /\ records'[j].at = "queued" /\ records'[j].simulated = FALSE
    <3>1. <<j, m>> \in live'
      BY <2>2, <1>2, <1>4
    <3>2. QED
      BY <2>2, <3>1
  <2>3. QED
    BY <1>5, <2>1, <2>2
<1>7. (\A j \in DOMAIN records : BuffersOf(records[j], j))'
  BY <1>6, SameOptions DEF BuffersOf, DeletesBuffer, given
<1>8. \A j \in Len(records') + 1 .. RowsRead' : j \in Len(records) + 1 .. RowsRead'
  BY <1>2, <1>5
<1>9. QED
  BY <1>4, <1>7, <1>8, SameOptions DEF BuffersInv, OnlyPrintingFaults, given

LEMMA LoadBuffers == IInv /\ RowsInv /\ BuffersInv /\ Load => BuffersInv'
<1> SUFFICES ASSUME IInv, RowsInv, BuffersInv, Load PROVE BuffersInv'
  OBVIOUS
<1>1. RowsRead = 0 /\ Len(records) = 0 /\ RowsRead' = 1
  BY NextRow DEF Load, IInv, Reading, RowsInOrder, Kept, RowsRead
<1>2. Push(ModuleOfRow(1))
  BY <1>1, PreparedNext DEF Load, RowsInv
<1>3. QED
  BY <1>1, <1>2, ReaderKeepsBuffers DEF Load

LEMMA LoadCrashesBuffers == IInv /\ RowsInv /\ BuffersInv /\ LoadCrashes => BuffersInv'
<1> SUFFICES ASSUME IInv, RowsInv, BuffersInv, LoadCrashes PROVE BuffersInv'
  OBVIOUS
<1>1. RowsRead = 0 /\ RowsRead' = 1
  BY NextRow DEF LoadCrashes, IInv, Reading, RowsRead
<1>2. UNCHANGED <<given, records, live, fault>> /\ reader'.at = "crashed"
  BY DEF LoadCrashes, IInv, Reading
<1>3. (\A j \in DOMAIN records : BuffersOf(records[j], j))'
  BY <1>2, SameOptions DEF BuffersOf, DeletesBuffer, given, BuffersInv
<1>4. live' \subseteq (1 .. RowsRead') \X Present(call.buffers)
  BY <1>1, <1>2 DEF BuffersInv
<1>5. QED
  BY <1>2, <1>3, <1>4, SameOptions DEF BuffersInv, OnlyPrintingFaults, given

LEMMA StartBatchBuffers == IInv /\ RowsInv /\ BuffersInv /\ StartBatch => BuffersInv'
<1> SUFFICES ASSUME IInv, RowsInv, BuffersInv, StartBatch PROVE BuffersInv'
  OBVIOUS
<1>1. UNCHANGED <<given, live, fault>> /\ RowsRead' = RowsRead + 0 /\ RowsRead \in Nat
  BY DEF StartBatch, RowsRead, IInv, Reading
<1>2. CASE reader.at = "loaded"
  BY <1>1, <1>2, ReaderKeepsBuffers DEF StartBatch, IInv, RowsInOrder, Kept
<1>3. CASE reader.at = "idle"
  <2>1. Push(ModuleOfRow(RowsRead)) /\ Len(records) + 1 <= RowsRead
    BY <1>1, <1>3 DEF StartBatch, RowsInv, IInv, RowsInOrder, Kept
  <2>2. QED
    BY <1>1, <1>3, <2>1, ReaderKeepsBuffers
<1>4. QED
  BY <1>2, <1>3 DEF StartBatch

LEMMA ReadRowBuffers == IInv /\ RowsInv /\ BuffersInv /\ ReadRow => BuffersInv'
<1> SUFFICES ASSUME IInv, RowsInv, BuffersInv, ReadRow PROVE BuffersInv'
  OBVIOUS
<1>1. /\ UNCHANGED <<given, fault>> /\ RowsRead' = RowsRead + 1 /\ RowsRead \in Nat
      /\ live' = live \cup Allocated /\ Len(records) = RowsRead /\ reader.at = "batch"
  BY NextRow DEF ReadRow, RowsRead, IInv, Reading, RowsInOrder, Kept
<1>2. CASE reader.left = 1
  BY <1>1, <1>2, ReaderKeepsBuffers DEF ReadRow
<1>3. CASE reader.left # 1
  <2>1. Push(ModuleOfRow(RowsRead + 1)) /\ RowsRead + 1 \in Nat
    BY <1>1, <1>3, PreparedNext DEF ReadRow, RowsInv
  <2>2. QED
    BY <1>1, <2>1, ReaderKeepsBuffers
<1>4. QED
  BY <1>2, <1>3

LEMMA EndOfRecordBuffers == IInv /\ RowsInv /\ BuffersInv /\ EndOfRecord => BuffersInv'
<1> SUFFICES ASSUME IInv, RowsInv, BuffersInv, EndOfRecord PROVE BuffersInv'
  OBVIOUS
<1>1. /\ UNCHANGED <<given, live, records, fault>> /\ RowsRead' = RowsRead + 0
      /\ RowsRead \in Nat /\ Len(records) = RowsRead /\ reader.at = "batch"
  BY DEF EndOfRecord, RowsRead, IInv, Reading, RowsInOrder, Kept
<1>2. QED
  BY <1>1, ReaderKeepsBuffers

\* A thread deletes buffers of its own record only.
LEMMA ThreadKeepsBuffers ==
    ASSUME IInv, RowsInv, BuffersInv, NEW i \in DOMAIN records, NEW r,
           records' = [records EXCEPT ![i] = r],
           UNCHANGED <<given, reader, module>>,
           live' \subseteq live,
           \A j \in Nat \ {0, i}, m \in Present(call.buffers) :
               <<j, m>> \in live => <<j, m>> \in live',
           BuffersOf(r, i)',
           fault' \in BOOLEAN, OnlyPrintingFaults'
    PROVE  BuffersInv'
<1>1. PICK S : records \in Seq(S)
  BY DEF IInv
<1>2. RowsRead' = RowsRead /\ Len(records') = Len(records) /\ RowsRead \in Nat
  <2>1. i \in 1 .. Len(records) /\ records \in Seq(S \cup {r}) /\ r \in S \cup {r}
    <3>1. \A j \in 1 .. Len(records) : records[j] \in S
      BY <1>1, ElementOfSeq
    <3>2. QED
      BY <1>1, <3>1
  <2>2. QED
    BY <2>1, ExceptSeq DEF RowsInv, RowsRead
<1>3. live' \subseteq (1 .. RowsRead') \X Present(call.buffers)
  BY <1>2 DEF BuffersInv
<1>4. reader.at # "crashed" => \A n \in Len(records) + 1 .. RowsRead : \A m \in Present(call.buffers) :
          <<n, m>> \in live'
  <2>1. i \in Nat /\ i <= Len(records) /\ Len(records) \in Nat
    BY <1>1, RecordOfRow
  <2>2. \A n \in Len(records) + 1 .. RowsRead : n \in Nat \ {0, i}
    BY <1>2, <2>1
  <2>3. QED
    BY <2>2 DEF BuffersInv
<1>5. ASSUME NEW j \in DOMAIN records' PROVE BuffersOf(records[j], j)'
  <2>1. CASE j = i
    BY <2>1
  <2>2. CASE j # i
    <3>1. j \in DOMAIN records /\ records'[j] = records[j] /\ j \in Nat \ {0, i}
      BY <2>2, RecordOfRow
    <3>2. BuffersOf(records[j], j)
      BY <3>1 DEF BuffersInv
    <3>3. \A m \in Present(call.buffers) : <<j, m>> \in live' <=> <<j, m>> \in live
      BY <3>1
    <3>4. QED
      BY <3>1, <3>2, <3>3, SameOptions DEF BuffersOf, DeletesBuffer, given
  <2>3. QED
    BY <2>1, <2>2
<1>6. Present(call.buffers)' = Present(call.buffers) /\ reader' = reader
  BY SameOptions
<1>7. QED
  BY <1>2, <1>3, <1>4, <1>5, <1>6 DEF BuffersInv

LEMMA SimulateBuffers ==
    ASSUME IInv, RowsInv, BuffersInv, NEW i \in DOMAIN records, Simulate(i)
    PROVE  BuffersInv'
<1>1. PICK r : /\ IsRecord(r, i) /\ records' = [records EXCEPT ![i] = r]
               /\ r.at = "ran" /\ r.simulated
  BY SimulateIsRecord
<1>2. UNCHANGED <<given, reader, module, live, fault>> /\ records[i].at = "queued"
  BY DEF Simulate
<1>3. \A m \in Present(call.buffers) : <<i, m>> \in live
  BY <1>2 DEF BuffersInv, BuffersOf
<1>4. BuffersOf(r, i)'
  BY <1>1, <1>2, <1>3, SameOptions DEF BuffersOf
<1>5. fault' \in BOOLEAN /\ OnlyPrintingFaults'
  BY <1>2 DEF BuffersInv, OnlyPrintingFaults, given
<1>6. QED
  BY <1>1, <1>2, <1>4, <1>5, ThreadKeepsBuffers

LEMMA ReplayBuffers ==
    ASSUME IInv, RowsInv, BuffersInv, NEW i \in DOMAIN records, Replay(i)
    PROVE  BuffersInv'
<1> DEFINE q == records[i]
           gone == IF call.unlessVerbose /\ opt.verbose THEN {}
                   ELSE Buffers(q, Present(call.deletes))
           used == Buffers(q, Present(call.passes) \cap call.buffers)
<1>1. PICK r : /\ IsRecord(r, i) /\ records' = [records EXCEPT ![i] = r]
               /\ r.at = "ran" /\ r.simulated = q.simulated
  BY ReplayIsRecord
<1>2. PICK n \in call.rounds :
        /\ q.at = "queued"
        /\ live' = IF n = 0 THEN live ELSE live \ gone
        /\ fault' = (\/ fault
                     \/ n > 0 /\ ~(used \cup gone \subseteq live)
                     \/ n > 1 /\ gone # {})
        /\ UNCHANGED <<given, reader, module>>
  BY DEF Replay
<1>3. /\ IsRecord(q, i) /\ q.simulated = FALSE /\ Sound(call)
      /\ i \in Nat \ {0} /\ \A m \in Present(call.buffers) : <<i, m>> \in live
  <2>1. IsRecord(q, i) /\ BuffersOf(q, i)
    BY DEF RowsInv, BuffersInv
  <2>2. q.simulated = FALSE
    BY <1>2, <2>1 DEF IsRecord
  <2>3. QED
    BY <1>2, <2>1, <2>2, CallIsSound, RecordOfRow DEF BuffersOf
<1>4. \A m \in Present(call.buffers) : q.values[m] = i
  BY <1>3, BufferOfRow
<1>5. gone = {<<i, m>> : m \in {d \in Present(call.buffers) : DeletesBuffer(d)}}
  <2>1. Present(call.deletes) = {d \in Present(call.buffers) : d \in call.deletes}
    BY <1>3 DEF Present, Sound, OwnsBuffers
  <2>2. QED
    BY <1>4, <2>1 DEF Buffers, DeletesBuffer
<1>6. used \cup gone \subseteq live
  <2>1. used \subseteq {<<i, m>> : m \in Present(call.buffers)}
    BY <1>4 DEF Buffers, Present
  <2>2. QED
    BY <1>3, <1>5, <2>1
<1> HIDE DEF gone, used
<1>7. call = mmappread \/ n = 1
  BY <1>3 DEF Sound, OwnsBuffers
<1>8. BuffersOf(r, i)'
  <2>1. ASSUME NEW m \in Present(call.buffers)
        PROVE  <<i, m>> \in live' <=> (n # 0 => ~DeletesBuffer(m))
    BY <1>2, <1>3, <1>5
  <2>2. QED
    BY <1>1, <1>2, <1>3, <1>7, <2>1, SameOptions DEF BuffersOf, DeletesBuffer, given
<1>9. fault' \in BOOLEAN /\ OnlyPrintingFaults'
  BY <1>2, <1>6, <1>7 DEF BuffersInv, OnlyPrintingFaults, given
<1>10. /\ live' \subseteq live
       /\ \A j \in Nat \ {0, i}, m \in Present(call.buffers) :
              <<j, m>> \in live => <<j, m>> \in live'
  BY <1>2, <1>5
<1>11. QED
  BY <1>1, <1>2, <1>8, <1>9, <1>10, ThreadKeepsBuffers

LEMMA PrintsCount ==
    ASSUME NEW r, NEW n \in Prints(r), opt \in [verify : BOOLEAN, verbose : BOOLEAN, warn : BOOLEAN]
    PROVE  /\ n \in Nat
           /\ n > 0 => opt.verbose \/ opt.warn
           /\ n > 1 => opt.warn
           /\ opt.verbose => n > 0
           /\ ~opt.warn /\ n > 0 => opt.verbose
BY DEF Prints

LEMMA AfterBuffers ==
    ASSUME IInv, RowsInv, BuffersInv, NEW i \in DOMAIN records, after_sys_call(i)
    PROVE  BuffersInv'
<1> DEFINE q == records[i]
           shown == Buffers(q, call.shows)
<1>1. PICK r : /\ IsRecord(r, i) /\ records' = [records EXCEPT ![i] = r]
               /\ r.at = "done" /\ r.simulated = q.simulated
  BY AfterIsRecord
<1>2. PICK n \in Prints(q) :
        /\ q.at = "ran"
        /\ live' = IF n > 0 /\ call.showDeletes THEN live \ shown ELSE live
        /\ fault' = (\/ fault
                     \/ n > 0 /\ ~(shown \subseteq live)
                     \/ n > 1 /\ call.showDeletes)
        /\ UNCHANGED <<given, reader, module>>
  BY DEF after_sys_call
<1>3. /\ IsRecord(q, i) /\ BuffersOf(q, i) /\ Sound(call) /\ i \in Nat \ {0}
      /\ opt \in [verify : BOOLEAN, verbose : BOOLEAN, warn : BOOLEAN]
  BY CallIsSound, RecordOfRow DEF RowsInv, BuffersInv
<1>4. /\ n \in Nat
      /\ n > 0 => opt.verbose \/ opt.warn
      /\ n > 1 => opt.warn
      /\ opt.verbose => n > 0
      /\ ~opt.warn /\ n > 0 => opt.verbose
  BY <1>3, PrintsCount
<1>5. /\ \A m \in Present(call.buffers) : q.values[m] = i
      /\ \A m \in call.shows : q.values[m] \in {0, i}
  BY <1>3, BufferOfRow
<1>6. /\ \A j, m : <<j, m>> \in shown => j \in {0, i} /\ m \in call.shows
      /\ \A m \in Present(call.buffers) : m \in call.shows => <<i, m>> \in shown
  BY <1>5 DEF Buffers
<1>7. \/ call \in DeleteThenPrint \cup {mmappread}
      \/ call \in PrintThenDelete /\ opt.warn
      \/ /\ n > 0 => shown \subseteq live
         /\ n > 1 => ~call.showDeletes
  <2>1. CASE call.shows \subseteq call.buffers \ call.verifies
    <3>1. call.shows \subseteq Present(call.buffers)
      BY <2>1 DEF Present
    <3>2. CASE call.shows \cap call.deletes = {} /\ ~call.showDeletes
      <4>1. \A m \in call.shows : <<i, m>> \in live
        BY <1>2, <1>3, <3>1, <3>2 DEF BuffersOf, DeletesBuffer
      <4>2. shown \subseteq live
        BY <1>5, <3>1, <4>1 DEF Buffers
      <4>3. QED
        BY <3>2, <4>2
    <3>3. CASE call \in PrintThenDelete /\ call.unlessVerbose /\ ~opt.warn
      <4>1. n > 0 => \A m \in call.shows : <<i, m>> \in live
        BY <1>2, <1>3, <1>4, <3>1, <3>3 DEF BuffersOf, DeletesBuffer
      <4>2. n > 0 => shown \subseteq live
        BY <1>5, <3>1, <4>1 DEF Buffers
      <4>3. QED
        BY <1>4, <3>3, <4>2
    <3>4. QED
      BY <1>3, <3>2, <3>3 DEF Sound, PrintsWhatIsThere
  <2>2. QED
    BY <1>3, <2>1 DEF Sound, PrintsWhatIsThere
<1> HIDE DEF shown
<1>8. fault' \in BOOLEAN /\ OnlyPrintingFaults'
  BY <1>2, <1>4, <1>7 DEF BuffersInv, OnlyPrintingFaults, given
<1>9. BuffersOf(r, i)'
  <2>1. ASSUME NEW m \in Present(call.buffers)
        PROVE  /\ <<i, m>> \in live' => <<i, m>> \in live
               /\ opt.verbose /\ call.showDeletes /\ m \in call.shows => <<i, m>> \notin live'
    BY <1>2, <1>4, <1>6
  <2>2. QED
    BY <1>1, <1>2, <1>3, <2>1, SameOptions DEF BuffersOf, DeletesBuffer, given
<1>10. /\ live' \subseteq live
       /\ \A j \in Nat \ {0, i}, m \in Present(call.buffers) :
              <<j, m>> \in live => <<j, m>> \in live'
  BY <1>2, <1>6
<1>11. QED
  BY <1>1, <1>2, <1>8, <1>9, <1>10, ThreadKeepsBuffers

LEMMA NextBuffers == IInv /\ RowsInv /\ BuffersInv /\ [Next]_vars => BuffersInv'
<1> SUFFICES ASSUME IInv, RowsInv, BuffersInv, [Next]_vars PROVE BuffersInv'
  OBVIOUS
<1>1. CASE Load
  BY <1>1, LoadBuffers
<1>2. CASE LoadCrashes
  BY <1>2, LoadCrashesBuffers
<1>3. CASE StartBatch
  BY <1>3, StartBatchBuffers
<1>4. CASE ReadRow
  BY <1>4, ReadRowBuffers
<1>5. CASE EndOfRecord
  BY <1>5, EndOfRecordBuffers
<1>6. ASSUME NEW i \in DOMAIN records, Simulate(i) PROVE BuffersInv'
  BY <1>6, SimulateBuffers
<1>7. ASSUME NEW i \in DOMAIN records, Replay(i) PROVE BuffersInv'
  BY <1>7, ReplayBuffers
<1>8. ASSUME NEW i \in DOMAIN records, after_sys_call(i) PROVE BuffersInv'
  BY <1>8, AfterBuffers
<1>9. CASE UNCHANGED vars
  <2>1. /\ UNCHANGED <<given, reader, records, live, fault>> /\ RowsRead' = RowsRead
        /\ Present(call.buffers)' = Present(call.buffers)
    BY <1>9, SameOptions DEF vars, RowsRead
  <2>2. QED
    BY <2>1 DEF BuffersInv, BuffersOf, DeletesBuffer, OnlyPrintingFaults, given
<1>10. QED
  BY <1>1, <1>2, <1>3, <1>4, <1>5, <1>6, <1>7, <1>8, <1>9 DEF Next

-----------------------------------------------------------------------------
(* What follows.                                                           *)
LEMMA RowsAndBuffers == Spec => [](IInv /\ RowsInv /\ BuffersInv)
BY InitIsGood, NextIsGood, InitRows, NextRows, InitBuffers, NextBuffers, PTL DEF Spec

(* Module, records and buffers hold what they can, for files of any length. *)
THEOREM TypeCorrect == Spec => []TypeOK
<1>1. IInv /\ RowsInv /\ BuffersInv => TypeOK
  <2> SUFFICES ASSUME IInv, RowsInv, BuffersInv PROVE TypeOK
    OBVIOUS
  <2>1. RowsRead \in Nat /\ rows \in Nat /\ RowsRead <= rows
    BY RecordsAssumption DEF RowsInv
  <2>2. module \in [Members -> 0 .. rows]
    <3>1. \A m \in Members : RowValue(RowsRead, m) \in 0 .. rows
      BY <2>1 DEF RowValue
    <3>2. QED
      BY <3>1 DEF RowsInv, ModuleOfRow
  <2>3. live \subseteq (1 .. rows) \X call.buffers
    BY <2>1 DEF BuffersInv, Present
  <2>4. ASSUME NEW i \in DOMAIN records
        PROVE  /\ records[i].values \in [Members -> 0 .. rows]
               /\ records[i].at \in {"queued", "ran", "done"}
               /\ records[i].simulated \in BOOLEAN
               /\ records[i].ret \in Failed .. rows
               /\ \A m \in DOMAIN records[i].took : records[i].took[m] \in 0 .. rows
    <3> DEFINE r == records[i]
    <3>1. IsRecord(r, i) /\ i \in 1 .. rows /\ Sound(call)
      BY CallIsSound, RecordOfRow DEF RowsInv
    <3>2. r.values \in [Members -> 0 .. i]
      BY <3>1, ValuesInRange DEF IsRecord
    <3>3. r.values \in [Members -> 0 .. rows]
      BY <2>1, <3>1, <3>2
    <3>4. ASSUME NEW m \in DOMAIN r.took PROVE r.took[m] \in 0 .. rows
      <4>1. CASE r.took = << >>
        BY <4>1
      <4>2. CASE r.took = Taken(r)
        <5>1. m \in Members /\ r.took[m] = Content(r, m)
          BY <3>1, <4>2 DEF Taken, Present, Sound, TakesItsRow, Members
        <5>2. QED
          BY <2>1, <3>3, <5>1 DEF Content
      <4>3. QED
        BY <3>1, <4>1, <4>2 DEF IsRecord
    <3>5. QED
      BY <2>1, <3>1, <3>3, <3>4 DEF IsRecord, Failed
  <2>5. QED
    BY <2>2, <2>3, <2>4 DEF TypeOK, RowsInv, BuffersInv, IInv, Reading
<1>2. QED
  BY <1>1, RowsAndBuffers, PTL

(* A call and its verification get their arguments from the row of their   *)
(* record, but for the three that OwnArguments names.                      *)
THEOREM ArgumentsOfItsRow == Spec => []OwnArguments
<1>1. IInv /\ RowsInv /\ BuffersInv => OwnArguments
  <2> SUFFICES ASSUME IInv, RowsInv, NEW i \in DOMAIN records, NEW m \in DOMAIN records[i].took
               PROVE  \/ records[i].took[m] = i
                      \/ call = mmappread /\ m = "replayed_ret_val_"
                      \/ call = ioctl_buffer /\ m = "buffer"
                      \/ call = execve /\ m = "retVal" /\ records[i].took[m] = i - 1
    BY DEF OwnArguments
  <2> DEFINE r == records[i]
  <2>1. IsRecord(r, i) /\ i \in Nat \ {0} /\ Sound(call)
    BY CallIsSound, RecordOfRow DEF RowsInv
  <2>2. /\ m \in Present(call.passes) /\ m \in call.passes /\ m \in Members
        /\ r.took[m] = Content(r, m)
    BY <2>1 DEF IsRecord, Taken, Present, Sound, TakesItsRow, Members
  <2>3. CASE /\ m \in call.moves \cup commonFields /\ m \notin call.unfilled
             /\ m = "retVal" => call = execve
    <3>1. r.took[m] = RowValue(i, m)
      BY <2>1, <2>2, <2>3, MovedValue DEF Content, IsRecord
    <3>2. CASE m = "retVal"
      BY <2>1, <2>3, <3>1, <3>2 DEF RowValue
    <3>3. CASE m # "retVal"
      <4>1. m \in Present(call.gathers) \cup commonFields
        BY <2>1, <2>2 DEF Sound, TakesItsRow, Present
      <4>2. QED
        BY <2>1, <3>1, <3>3, <4>1 DEF RowValue
    <3>4. QED
      BY <3>2, <3>3
  <2>4. QED
    BY <2>1, <2>2, <2>3 DEF Sound, TakesItsRow
<1>2. QED
  BY <1>1, RowsAndBuffers, PTL

(* A call on a simulated descriptor returns what it returned in the trace, *)
(* if setMove copies that.                                                 *)
THEOREM SimulatedReturn == Spec => []TracedReturnIfMoved
<1>1. IInv /\ RowsInv /\ BuffersInv => TracedReturnIfMoved
  <2> SUFFICES ASSUME IInv, RowsInv, call \notin ReturnForgotten,
                      NEW i \in DOMAIN records, records[i].simulated
               PROVE  records[i].ret = i
    BY DEF TracedReturnIfMoved, TracedReturn
  <2>1. IsRecord(records[i], i) /\ i \in Nat \ {0} /\ Sound(call)
    BY CallIsSound, RecordOfRow DEF RowsInv
  <2> DEFINE m == call.reports
  <2>2. /\ m \in call.gathers \cup commonFields /\ m \in call.moves \cup commonFields
        /\ m \notin call.verifies /\ m # "retVal"
    BY <2>1 DEF IsRecord, Sound, ReportsItsRow
  <2>3. m \in Members /\ m \in Present(call.gathers) \cup commonFields
    BY <2>2 DEF Members, Present
  <2>4. QED
    BY <2>1, <2>2, <2>3, MovedValue DEF IsRecord, RowValue
<1>2. QED
  BY <1>1, RowsAndBuffers, PTL

(* No buffer is used or deleted once it was deleted, but where a record is *)
(* printed, and by a page fault.                                           *)
THEOREM FaultsOnlyInPrint == Spec => []OnlyPrintingFaults
<1>1. BuffersInv => OnlyPrintingFaults
  BY DEF BuffersInv
<1>2. QED
  BY <1>1, RowsAndBuffers, PTL

LEMMA PageFaultsOther ==
    mmappread \notin {lstat, utime, utimes, utimensat, readlink} \cup {access, faccessat}
<1>1. mmappread.name = "mmappread"
  BY DEF mmappread, pread, read, ReportsOwn, FdCall
<1>2. lstat.name = "lstat" /\ readlink.name = "readlink"
  BY DEF lstat, readlink, BasicStat, PathCall
<1>3. utime.name = "utime" /\ utimes.name = "utimes" /\ utimensat.name = "utimensat"
  BY DEF utime, utimes, utimensat, PathCall
<1>4. access.name = "access" /\ faccessat.name = "faccessat"
  BY DEF access, faccessat, PathCall
<1>5. QED
  BY <1>1, <1>2, <1>3, <1>4

(* A record that was replayed leaves no buffer behind but those in Leaks.  *)
THEOREM NothingKept == Spec => []BuffersFreed
<1>1. IInv /\ RowsInv /\ BuffersInv => BuffersFreed
  <2> SUFFICES ASSUME IInv, RowsInv, BuffersInv, NEW i \in DOMAIN records,
                      records[i].at = "done", ~records[i].simulated,
                      NEW m \in call.buffers \ Leaks
               PROVE  <<i, m>> \notin live
    BY DEF BuffersFreed
  <2>1. BuffersOf(records[i], i) /\ Sound(call)
    BY CallIsSound, RecordOfRow DEF BuffersInv
  <2>2. CASE m \notin Present(call.buffers)
    BY <2>2 DEF BuffersInv
  <2>3. CASE m \in Present(call.buffers)
    <3>1. call # mmappread
      BY PageFaultsOther DEF Leaks
    <3>2. CASE DeletesBuffer(m)
      BY <2>1, <2>3, <3>1, <3>2 DEF BuffersOf
    <3>3. CASE ~DeletesBuffer(m) /\ opt.verbose /\ call.showDeletes /\ m \in call.shows
      BY <2>1, <2>3, <3>3 DEF BuffersOf
    <3>4. CASE call \in {lstat, utime, utimes, utimensat, readlink} /\ m = "pathname"
      BY <3>4 DEF Leaks
    <3>5. CASE call \in {access, faccessat} /\ m = "pathname" /\ m \in call.deletes
      BY <3>2, <3>5 DEF Leaks, DeletesBuffer
    <3>6. QED
      BY <2>1, <3>1, <3>2, <3>3, <3>4, <3>5 DEF Sound, DeletesAll, DeletesBuffer
  <2>4. QED
    BY <2>2, <2>3
<1>2. QED
  BY <1>1, RowsAndBuffers, PTL

\* The two lists agree in every place.
LEMMA NamesOfCalls ==
    \A i \in DOMAIN create_prefetch_buffer_modules :
        create_system_call_trace_replay_modules[i].name = create_prefetch_buffer_modules[i]
<1>1. open.name = "open" /\ openat.name = "openat" /\ access.name = "access"
        /\ faccessat.name = "faccessat" /\ chdir.name = "chdir" /\
        chroot.name = "chroot" /\ unlink.name = "unlink" /\ unlinkat.name =
        "unlinkat" /\ rmdir.name = "rmdir" /\ mkdir.name = "mkdir" /\
        mkdirat.name = "mkdirat" /\ stat.name = "stat"
  BY DEF open, PathCall, openat, access, faccessat, chdir, chroot, unlink,
     unlinkat, rmdir, mkdir, mkdirat, stat, BasicStat
<1>2. statfs.name = "statfs" /\ readlink.name = "readlink" /\ utime.name =
        "utime" /\ chmod.name = "chmod" /\ chown.name = "chown" /\
        lstat.name = "lstat" /\ fstatat.name = "fstatat" /\ utimes.name =
        "utimes" /\ utimensat.name = "utimensat"
  BY DEF statfs, BasicStat, PathCall, readlink, utime, chmod, chown, lstat,
     fstatat, utimes, utimensat
<1>3. close.name = "close" /\ read.name = "read" /\ write.name = "write" /\
        lseek.name = "lseek" /\ pread.name = "pread" /\ mmappread.name =
        "mmappread" /\ fchdir.name = "fchdir" /\ pwrite.name = "pwrite" /\
        mmappwrite.name = "mmappwrite" /\ fchmod.name = "fchmod" /\
        fchmodat.name = "fchmodat" /\ fstat.name = "fstat"
  BY DEF close, ReportsOwn, FdCall, read, write, lseek, pread, mmappread,
     fchdir, pwrite, mmappwrite, fchmod, fchmodat, fstat, BasicStat
<1>4. fsync.name = "fsync" /\ fdatasync.name = "fdatasync" /\ fallocate.name
        = "fallocate" /\ readahead.name = "readahead" /\ pipe.name = "pipe"
        /\ dup.name = "dup" /\ dup2.name = "dup2" /\ dup3.name = "dup3" /\
        fcntl.name = "fcntl" /\ exit.name = "exit" /\ execve.name =
        "execve" /\ mmap.name = "mmap"
  BY DEF fsync, ReportsOwn, FdCall, fdatasync, fallocate, readahead, pipe,
     ValueCall, dup, dup2, dup3, fcntl, exit, execve, mmap
<1>5. munmap.name = "munmap" /\ getdents.name = "getdents" /\ ioctl.name =
        "ioctl" /\ clone.name = "clone" /\ vfork.name = "vfork" /\
        umask.name = "umask" /\ ftruncate.name = "ftruncate" /\ socket.name
        = "socket" /\ socketpair.name = "socketpair" /\ epoll_create.name =
        "epoll_create" /\ accept.name = "accept" /\ accept4.name =
        "accept4"
  BY DEF munmap, ValueCall, FdCall, getdents, ReportsOwn, ioctl, clone, vfork,
     umask, ftruncate, socket, socketpair, epoll_create, accept, accept4
<1>6. truncate.name = "truncate" /\ creat.name = "creat" /\ symlink.name =
        "symlink" /\ fstatfs.name = "fstatfs" /\ readv.name = "readv" /\
        writev.name = "writev" /\ mknod.name = "mknod" /\ setxattr.name =
        "setxattr" /\ lsetxattr.name = "lsetxattr" /\ fsetxattr.name =
        "fsetxattr"
  BY DEF truncate, RowCall, ValueCall, FdCall, creat, symlink, fstatfs,
     BasicStat, FdRowCall, readv, writev, mknod, setxattr, lsetxattr,
     fsetxattr
<1>7. link.name = "link" /\ linkat.name = "linkat" /\ rename.name = "rename"
  BY DEF link, TwoPathCall, PathCall, BothPaths, linkat, rename
<1>8. QED
  BY <1>1, <1>2, <1>3, <1>4, <1>5, <1>6, <1>7
     DEF create_prefetch_buffer_modules, create_system_call_trace_replay_modules

(* The rows of a call are read by the module of that call: the two lists   *)
(* that are paired by position agree in all 70 places.                     *)
THEOREM ReadByItsModule == Spec => []OwnModule
<1>1. Init => OwnModule
  <2> SUFFICES ASSUME Init PROVE OwnModule
    OBVIOUS
  <2>1. PICK i \in DOMAIN create_prefetch_buffer_modules :
          file = create_prefetch_buffer_modules[i] /\ call \in CallsOf(i)
    BY DEF Init
  <2> DEFINE c == create_system_call_trace_replay_modules[i]
  <2>2. c.name = file
    BY <2>1, NamesOfCalls
  <2>3. call = c \/ (call = ioctl_buffer /\ c = ioctl)
    BY <2>1 DEF CallsOf
  <2>4. ioctl.name = "ioctl"
    BY DEF ioctl, FdCall
  <2>5. QED
    BY <2>2, <2>3, <2>4 DEF OwnModule
<1>2. OwnModule /\ [Next]_vars => OwnModule'
  <2>1. ASSUME NEW i \in DOMAIN records, Simulate(i) \/ Replay(i) \/ after_sys_call(i)
        PROVE  UNCHANGED given
    <3>1. CASE Simulate(i)
      BY <3>1 DEF Simulate
    <3>2. CASE Replay(i)
      BY <3>2 DEF Replay
    <3>3. CASE after_sys_call(i)
      BY <3>3 DEF after_sys_call
    <3>4. QED
      BY <2>1, <3>1, <3>2, <3>3
  <2>2. Load \/ LoadCrashes \/ StartBatch \/ ReadRow \/ EndOfRecord => UNCHANGED given
    BY DEF Load, LoadCrashes, StartBatch, ReadRow, EndOfRecord
  <2>3. UNCHANGED vars => UNCHANGED given
    BY DEF vars
  <2>4. QED
    BY <2>1, <2>2, <2>3 DEF OwnModule, given, Next
<1>3. QED
  BY <1>1, <1>2, PTL DEF Spec
=============================================================================
