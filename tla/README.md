# Verification of the system call trace replayer

TLA+ models of `reanimator-replayer`: the program that reads traces of system
calls (one DataSeries file per kind of call) and replays them, with one thread
per traced process. The models are translated from the C++ in `src/src` and
`src/include`; `PROJECT.json` names the lines each definition stands for.

## 1. Inventory

| Component | State | Operations | Talks to |
|---|---|---|---|
| Resources manager (`ReplayerResourcesManager`) | `fd_table_map_`: pid -> reference-counted table of traced fd -> (replayed fd, flags); `umask_table_`: pid -> reference-counted mask; descriptors open at the start | `add_fd`, `remove_fd`, `get_fd`, `update_fd`, `add_flags`, `clone_fd_table`, `remove_fd_table`, `clone_umask`, `set_umask`, `remove_umask`, `generate_unused_fd`, `validate_consistency` | called by every system call module; calls `dup` |
| System call modules (`*SystemCallTraceReplayModule`) | the fields of one record | `prepareRow` (read), `move` (copy), `processRow` (replay) | the manager, the kernel, the scheduler (clone and vfork start threads) |
| Scheduler (`SystemCallTraceReplayer.cpp`) | a heap of records per process, a counter per file, `currentExecutions`, `allocationQueue`, `nThreads`, `lastExecutedSyscallID` | `load_syscall_modules`, `prepare_replay`, `batch_syscall_modules`, `readerThread`, `executionThread`, `checkExecutionValidation` | all of the above, from several threads |
| Virtual address space (`VM_area`) | per process, the list of mappings traced address -> replayed address | `insert_VM_node`, `delete_VM_node`, `find_VM_node` | mmap, munmap, mmappread |
| Records (base class and `setMove` of each call) | position in the file, the common fields, the call's members and the buffers it allocates | `cur_extent_has_more_record`, `prepareRow`, `move`, `execute`, `after_sys_call`, the order on records | the scheduler, the modules |
| Creation of the modules | a list of type indexes and a list of modules, paired by position | `create_prefetch_buffer_modules`, `create_system_call_trace_replay_modules` | the records |
| Option parsing, logger, data verification | none that outlives a call | | |

What is hard in it:

- **Concurrency.** The reader and a thread per traced process share heaps,
  counters, the table of running records and the queue of records to delete,
  with atomics and concurrent containers but no lock over two of them. Two calls
  that were ordered in the trace must not be replayed the other way round.
- **Ordering at the seams.** Batches end in the middle of files; the last row
  read stays in the module; a rejected record goes back to its heap.
- **Sharing.** Processes share or copy tables and masks by the flags of clone;
  who leaves last closes the descriptors.
- **Calls in steps.** A close removes the entry and then closes, an open gets its
  number and then enters it, a clone copies a table entry by entry; other
  threads get numbers from the same kernel table in between.
- **Two numberings.** Every descriptor has a traced and a replayed number; some
  entries stand for no real descriptor (sockets); a call may fail on one side
  only; all traced processes live in one replaying process with one kernel table.
- **Copies by hand.** Each of some seventy classes lists which members its copy
  takes and decides where its buffers are deleted, by the call, the options and
  whether a warning was printed.
- **Boundaries.** Overlap of address ranges, unsigned counters, descriptor 0.

The properties that make each part correct are in section 4; `PROJECT.json`
lists the hazards at their lines with the properties that would notice.

## 2. Modules

| Module | Models |
|---|---|
| `RefCounting` | objects on the heap, their reference counts and the processes that point at them (the entry classes and both maps of the manager) |
| `DescriptorTable` | one table: entries, `add_fd_entry` with its assertion, `remove_fd_entry`, `get_fd` |
| `ResourcesManager` | the manager: both maps, every operation an action |
| `SharedResources` | **abstract**: each process has a view of its descriptors and its mask; sharers change together; the last to leave closes |
| `KernelFds` | external: the replayer's kernel table (lowest free number, dup, dup2, dup3) |
| `TracedProcesses` | external: the traced application and its kernel, the ground truth a trace records |
| `DescriptorReplay` | the system call modules that use the manager, composed with `KernelFds` and `TracedProcesses` |
| `OverlappingCalls` | the same calls of several processes replayed at once, in steps: one access to the kernel's table or to the manager's at a time |
| `ReplayScheduler` | the reader, the execution threads and what they share |
| `TraceReplay` | **abstract**: records are replayed one by one, after the earlier ones of their process and after those that had returned before they were called; all are |
| `VirtualAddressSpace` | the mappings of one process, against the traced address space |
| `SystemCalls` | the two lists that give each file its module, and for each call: the members `prepareRow` sets, those `setMove` copies, and what `processRow` and `print_specific_fields` pass, delete and read |
| `CallRecords` | the life of the records of one file, for any call of `SystemCalls` and any options |
| `MC*` | small instances for TLC |
| `*_proofs`, `ReplayScheduler_order` | theorems and lemmas (section 5) |

`DescriptorReplay` and `ResourcesManager` both use `RefCounting` and
`DescriptorTable`, so the manager the theorems are about and the one the
calls are replayed with are the same definitions. `OverlappingCalls` uses
`KernelFds` and `DescriptorTable`, without the reference counts: there every
process has a table of its own.

### How state and actions correspond to the code

*Manager.* A `RefCounting` record `[of, val, rc]` is a map from processes to
pointers (`of`), the objects pointed at (`val`) and their counts (`rc`). `new`
takes an address that is free, `delete` frees it; `Shared`, `Created` and
`Dropped` are the three things clone and exit do to a map. A flag word is the
set of the flags that matter, which is `O_CLOEXEC`. Each operation of the
manager is one step.

*Replay of descriptors.* One step is one record: what the traced kernel did,
and the whole `processRow` of its module, with the manager operations it makes,
in the model's form of their order. The replayer's kernel table is `open_fds`.
Traced calls that return a descriptor return the lowest free one, which is what
kernels do, so only such traces are considered. A file is a model value that one
`open` owns, so "the same open file" can be told apart from "some open file".
`exec_ret` is the return value the execve module still holds from the record
before. `aborted` records a failed assertion (`assert` is in the build).

*Overlapping calls.* `row[p]` is the call that p's thread is in the middle of,
and `hand[p]` the numbers it has from the kernel or from a table and has not yet
closed or entered. `Open` ends with the kernel's answer and `Add` is `add_fd`;
`Close` and `Exit` are `remove_fd` and `remove_fd_table`, and `CloseOne` closes
one number of what they returned; `Dup2Over` and `Dup2New` are dup2 up to the
call of dup2, which is `Dup2Call`; a clone is `Clone`, a `CopyOne` for each entry of
its parent's table, and `Publish`, after which the child's thread may start. Of the
manager's functions each is one step, as the code means them to be, except for
`clone_fd_table`, whose loop runs outside the lock. The traced side is simple:
with tables of their own, the processes do not see each other.

*Scheduler.* A thread's step is what it does between two accesses to shared
state: `Pop`, `CountPopped`, `Gate`, `QueuePrevious`, then the check, one entry
of `currentExecutions` at a time (`ReadRunning`, `Compare`), then `Execute` and
`StoreLast`, or `Reject` and `PutBack`. A heap is a set whose least unique id is
its top. `number` is the counter of each file; a finished file's is `LLONG_MAX`
in the code, which the model keeps as `finished`. `index` names the counter a
record is counted on: records loaded before `setReplayerIndex` carry an
uninitialised one, which is any type or none. A record is never rejected by its
own entry. Traces are given with their times: an exit's `timeReturned` is
`ULLONG_MAX` and an execve's is the time it was recorded, and to the scheduler
these are just later times.

*Records.* A value of a row is the number of the row, so a record whose members
are all of its own row has the right arguments, whatever the values are; 0 is
what nobody has set. Fields that only matter together are one member (`statBuf`
for those of stat, `lock` for those of fcntl's lock). `module` is the module
while the reader moves it from row to row, and `records` the copies that were
queued. `create_prefetch_buffer_modules` and
`create_system_call_trace_replay_modules` are the two lists, and `CallsOf(i)` the
call whose module reads the i-th file. A buffer is named by the row it was allocated for and its member;
`fault` is set when one is used or deleted that is not allocated. The at-calls
inherit `move`, so their records are of the call by path. Any queued record may
be the next: which the scheduler allows is the business of `ReplayScheduler`. A
record of a simulated descriptor returns the member `reports` names.

*Addresses.* The unit is one aligned word, the eight bytes mmappread looks up;
arithmetic is modulo `Width`, since the code's is on `uint64_t`. The list is a
set of nodes.

## 3. Runs, and what their bounds leave room for

| Run | Instance | Asks |
|---|---|---|
| `ResourcesManager` | 3 processes, all operations | `TypeOK`, `RefCountsExact`, `PromiseSpec` |
| `Threads` | process and thread, 2 files, 3 descriptors, failed clones | `SameDescriptors`, `SameFiles`, `OneOwner`, `EveryOpenFdKnown`, `NeverAborts`, `NeverFreedInUse` |
| `Processes` | 2 processes, every set of clone flags, simulated descriptors, execve, opens and copies that fail in the replay | `SameDescriptors`, `SameUmask`, `OneOwner`, `SameFilesButStdin`, `SameCloexec` |
| `OddCalls` | one process, every kind of call, failing ones too | `TypeOK`, `OneOwner` |
| `Overlapping` | 2 processes, 2 files, every interleaving of the steps of their calls | `OneHolder`, `NothingLost`, `SameFiles` |
| `OneThread` | 7 records of 2 files, every interleaving of the files | `ProgramOrder`, `ReplayFairSpec` |
| `TwoThreads` | 5 records of 2 processes, overlapping in every way, of two files, or of one that is longer than the first batch, with the reader reading and deleting | `TypeOK`, `OnePlace`, `DeletedLast`, `NeverWraps`, `HappensBefore` |
| `AddressSpace` | 5 words, up to 3 nodes when mmap is called | `FindsItsMapping`, `FindsAtLeast`, `OverlapIsExact` |
| `Records` | each of 70 calls (10 of which cannot be moved), all options, up to 4 rows | `TypeOK`, `RowsInOrder`, `OwnModule`, `OwnArguments`, `OnlyPrintingFaults`, `BuffersFreed`, `TracedReturnIfMoved` |
| `StdinShared`, `EndsEarly`, `UnusedFd` | violations, section 6 | |

- *Manager.* Sharing needs two processes, and a third to tell "the last leaves"
  from "one leaves". Three addresses allow three unshared objects at once. The
  theorems of section 5 hold for all sizes.
- *Descriptors.* One standard stream (0), two more traced descriptors and a
  replayer descriptor of its own at 1 make the traced and replayed numbers
  differ, make dup2 meet open and unused targets, and let `ReplayLimit` be
  reached, so that `dup` fails during a copy. `CountLimit` bounds the references
  that failed clones leave behind.
- *Overlapping calls.* Two threads are enough for one to act between two steps
  of the other. Two traced descriptors for each let a close meet an open, a dup
  and a copy of the same table; `ReplayLimit` 9 leaves the replayer room, since a
  call that fails for want of numbers is `Processes`' business. A dup2 to a number
  generated for it (`dup2_new`) is made only while one process runs
  (`AloneKinds`): made beside another call it fails, which is `UnusedFd`. With a third
  process or descriptor a run does not end in minutes; the theorem of section 5 is for any
  number of them.
- *Scheduler.* `Low`, `High`, `Batch`, `FirstBatch` and `Window` are 10, 100,
  150, 1000 and 150 in the program. The order `Low < High` is kept. Batches of 3
  and a first one of 4 make every file end inside a batch, at its seam or after
  it. `Low` is 2 where a record may carry a stray index: each file may then be
  one off, and with 1 the gate would mean nothing, while the program's 10 leaves
  room. In half of the traces of `TwoThreads` the first batch of 4 leaves records that the
  reader loads while both threads run and reject; in the other half it loads both
  files whole, which is when `HappensBefore` says anything; with `nThreads` 2 the window of 3 rejects
  records now and then. Length 5 has a clone, two records of each process and one more.
- *Addresses.* Five words have every way two ranges can meet, before and after
  a split, with a gap on each side. `Width` 64 is far above the mapped words, as
  2^64 is.

- *Records.* A file of four rows with batches of three has a row that is loaded,
  one that is queued inside a batch, one that is kept over the seam, and one
  queued after it, or ends at each of these places. The files of two calls share
  nothing of this, so one file is enough. Page faults hit up to two mappings.

Deadlock is checked in the scheduler's runs: the only state without another
step is the one where all threads are joined (`Joined`). The other models stop
when their bounds are reached.

**Fairness** is weak fairness of the reader and of each execution thread, in
`FairSpec`: each is a `std::thread` the operating system schedules, and none
waits on a lock for ever. Spinning loops are disabled steps, which weak fairness
does not force. It is assumed in `OneThread` only, for `ReplayFairSpec`.

## 4. Properties

*Manager.* `RefCountsExact`: a count is the number of processes that point at
the object. `PromiseSpec`: with the pointers followed, the manager is
`SharedResources`.

*Descriptors.* `SameDescriptors`: entries are exactly the traced process's open
descriptors; a stale one aborts the replay later (`NeverAborts`). `SameFiles`,
with the weaker `SameFilesButStdin` where opens fail or tables are copied: a replayed call reaches the file the traced call reached.
`OneOwner`: no two entries hold one replayed descriptor. `EveryOpenFdKnown`:
none is lost. `SameCloexec`, `SameUmask`: flag and mask are the traced ones.
`NeverFreedInUse`: no object is freed under a process, failed clones included.

*Overlapping calls.* `OneHolder`: a replayed number is held by one entry or one
call, open, and not the replayer's own, so that what a thread is about to close,
to duplicate onto or to enter is nobody else's. `NothingLost`: every open one is
held. `SameFiles`: entries stand for their traced files at every moment, also
while other threads are in the middle of calls.

*Scheduler.* `OnePlace`: a record not yet replayed is in exactly one of file,
module, heap and hand, and a replayed one in none. `DeletedLast`: deleted once,
after its replay and when no thread can find it. `NeverWraps`: the unsigned
counters stay above zero. `ProgramOrder`: a process's records are replayed in
the order of the trace. `HappensBefore`: with files that the first batch loads
whole, so are those of a process and of the one that made it, where one call
returned before the other was called; for longer files and for processes made by
a third the code does not keep this order (section 6). `ReplayFairSpec`: with
one thread the replay implements `TraceReplay`, with all records replayed in the end.

*Addresses.* `FindsItsMapping`: in ordinary use a read finds exactly the one
node it should, at the right replayed address. `FindsAtLeast`: after failed or
fixed mappings too, the right node is among those found. `OverlapIsExact`: the
four overlap tests are together the overlap of intervals.

*Records.* `OwnModule`: the rows of a call are read by the module of that call,
in two lists of 70 that must agree in every place. `RowsInOrder`: every row is
queued once, but for the one kept between batches. `OwnArguments`: a replayed call takes every argument from its
own row, so that no `setMove` misses a member the call uses. `OnlyPrintingFaults`:
no buffer is used after or deleted twice, but when a call prints what it has
deleted; the property lists those calls, and with any one of them left out TLC
finds it violated. `BuffersFreed`: a replayed record leaves no buffer behind; its
exceptions are listed the same way. `TracedReturnIfMoved`: a simulated call
returns the traced value, for the calls that move it.

Each property has a mutant in `PROJECT.json`: an operator beside the one it
would replace (`Close_keeps_entry`, `Gate_open`, ...), with a plausible slip,
under which TLC finds the property violated.

## 5. Proofs

For every set of processes, addresses, descriptors and modes:

- `Invariance`, `TypeCorrect`, `CountsExact` (`ResourcesManager_proofs`):
  `Spec => []IInv`, and with it `TypeOK` and `RefCountsExact`.
- `Refinement` (same module): `Spec => PromiseSpec`.

`RefCountsExact` is not inductive by itself. A count that is exact says nothing
of a process whose pointer leads nowhere, and `Dropped` decides by the count
whether to free the object: if the holders were not finite sets of known
processes, or a pointer could dangle, a step could break it. `IInv` adds that
every pointer leads to an allocated object, that every allocated object is held,
and that all three functions agree in their domains. The lemmas of
`RefCounting_proofs` prove this once for the four changes a map can undergo
(`CreatedIsGood`, `SharedIsGood`, `DroppedIsGood`, `UpdatedIsGood`), so that the
proof for the manager has one step per operation and cites them twice, once for
descriptor tables and once for masks. The refinement then follows because two
processes that point at different objects are unaffected by each other's
updates, and because a count of one means that one process holds the object,
which is the abstract "last to leave".

For any trace, any number of replay threads, files and batch sizes
(`ReplayScheduler_proofs`): `NeverLost` (`OnePlace`) and `NeverEarly`
(`DeletedLast`). Neither is inductive. A record could reach two places if a row
were read over one that its module still keeps, or a thread were started twice;
it could be deleted early if `running` showed a record its thread has handed
over. `IInv` therefore adds to the typing: every record is in exactly one of
file, module, heap, hand of its thread, and `executed`; a module keeps nothing
while more rows of its batch are to be read; a thread that runs was started, and
by one record; the deletion queue has no record twice and only executed ones;
and `running` shows for each thread its record of the moment or the one before,
which it has not yet queued. A lemma for each step of the reader and of a thread
shows that it keeps `IInv`; `Keeps` and `PlacesStay` gather what most steps
leave alone. The assumption on a trace (`TraceAssumption`) is that its records are
finitely many and begin with the root's, and that no two clones return the same
process id: the program keys heaps and `running` by that id.

The order and the counters (`ReplayScheduler_order`), on top of `IInv`:

- `TypeCorrect` (`TypeOK`). `Shaped` adds to the typing that `running` has an
  entry for every thread that was started, and what a thread's hand holds
  wherever it is; `ThreadsCounted` that `nThreads` is one more than the records
  that have started a thread, so that it never exceeds the processes.
- `CountersNeverWrap` (`NeverWraps`). The gate is passed once and the counters
  are decremented later, by any number of threads. `Covered` says that the
  counter of every unfinished file is at least `Debt`, the records that may
  still be taken without another look at the gate: one for each thread between
  the gate and its next count, and one for each clone that has passed it,
  whose child takes its first record without a gate. While the first batch is read, `Covered` says which
  counters have already got a record, so that the stray index cannot take them below zero.
  Hypothesis `RoomySizes`: `Low >= 2` and `FirstBatch >= 3` (10 and 1000 in
  the program); with `Low` 1 and a stray index TLC finds a counter below zero.
- `KinInOrder` (`HappensBefore`). With `ShortFiles`, `AllLoaded`: every record is in its
  heap when a thread starts. Then a thread has its process's earliest
  record in hand (`LowestFirst`), and an entry of `running` is not later than what its process
  has left (`Shown`). `Checked`: in the middle of a check, each process of the kin is still
  to be compared with, is being compared with, or has nothing left that must come first
  (`Cleared`), and the latter stays so whatever the others do.
- `OneProcessInOrder` (`ProgramOrder`) and `OneProcessKeepsPromise` (`Spec =>
  ReplaySpec`), for traces of one process (`OneProcess`) and with `RoomySizes`. A heap gives its
  least record, and the question is whether an earlier one of another file may
  still be unread. `FilesOrdered`: what is left of a file is later than what was read of
  it. `GateInv`: a counter is at most one more than the counted records that wait (`Balanced`: one
  more, because of the stray index), so that behind the gate each unfinished file
  has a record in the heap (`AllStocked`, and `FirstStocked` for the first batch), and the least of
  the heap is the least of all (`Steady`). With more processes a
  counter counts records in the heaps of all, and `AllStocked` holds of none of them.

For any number of processes, descriptors and files, and every set of clone
flags (`DescriptorReplay_proofs`):

- `NeverFreed` (`NeverFreedInUse`), for every trace. A failed clone overwrites
  the pointer of the process id -1 and leaves its count, so the counts are not
  exact here and the lemmas of `RefCounting_proofs` do not apply; `SafeHeap` has
  instead that no pointer dangles and no count is too low, which each of the four
  changes keeps (`PointsAtIsSafe`, `DroppedIsSafe`).
- `MasksFollow` (`SameUmask`), `TablesFollow` (`SameDescriptors`) and
  `AssertionsHold` (`NeverAborts`). What makes them inductive is `Grouped`: two
  processes have the same pointer in the replayer exactly when they share in the
  trace, so that a change through one is seen by the same others on both sides.
  Hypotheses, each named: `ThreadsShare`, a clone with `CLONE_THREAD` also has
  `CLONE_FILES` and `CLONE_FS` (the code takes the first for the others);
  `OrdinaryCalls`, no dup3 onto itself, accept4 or execve, whose modules leave other
  entries (section 6); and for the assertions no dup or pipe that failed in the
  trace (`CallsFailing`). Opens and clones that fail, on either side, are allowed.
- `TypeCorrect` (`TypeOK`), for every trace.
- `Owners` (`OneOwner`). A number that is in no entry may still be open, and one
  that is in an entry must be, or the kernel gives it away a second time.
  `OwnInv` therefore says of each entry that its number is one the program can hold, open, and
  in no other entry (`Held`), and that every table has a process that points at
  it, so that `generate_unused_fd` sees its numbers: counts are exact until a clone
  fails (`Exact`, with the lemmas of `RefCounting_proofs`). `AddFdOwns` and
  `OwnCallKeeps` carry this through the calls. Hypotheses: `NoSimulatedDup`, since `dup` of a
  simulated descriptor enters the traced number as if it had been opened;
  `NoStrayTables`, no dup2 or dup3 along with failed clones that copy a table, since
  the table of the first is lost to `generate_unused_fd` when a second fails.
- `MarksFollow` (`SameCloexec`) and `TablesFollowExecve` (`SameDescriptors`, with
  execve and accept4 among the calls). What execve drops is decided by the entries' flags here and
  by the descriptors' in the trace, so each property needs the other; `MarkInv` has both, and
  that 0 stays open, without which accept4 could return it. Hypothesis `MarksKept`: none of the calls whose
  modules give the entry another flag than the call does, no failed execve, and with execve
  only simulated descriptors are marked, since the module decides by the record before.
- `FilesFollow` (`SameFilesButStdin`), with `OrdinaryCalls` or `MarksKept`, and
  `FileCalls`: dups where all processes share one table, or forks without dups. A dup
  of the 0 that copies share may reach what another process has opened since.
  `FilesAreSame` (`SameFiles`) and `NoDescriptorLost` (`EveryOpenFdKnown`), with `Lossless`: one table,
  nothing simulated, no open that fails only here, no execve, and numbers enough (`Roomy`).
  `FileInv` is `OwnInv` with what each entry reaches (`AllFiles`) and, for `Lossless`, that every open number
  is named by an entry (`AllKnown`). The two hold each other up: an entry still reaches its file
  because it owns its number (`StillReach`), and a call that needs a number finds one because
  those that are open are those of the traced process (`HasSpace`, by counting;
  `TargetInRange` for the number dup2 is given).
  At the exit of the last process the count decides whether they are closed (`LastOneCloses`).

TLC checked what `OwnInv`, `MarkInv` and `FileInv` add on the instances of `Threads` and `Processes`,
which satisfy the hypotheses, before they were proved.

For files of any length and batches of any size (`CallRecords_proofs`):

- `QueuedOnce` (`RowsInOrder`). The invariant says how many rows the module has
  read wherever the reader is, and that the record queued at a place has the id
  of the row of that place.
- `ArgumentsOfItsRow` (`OwnArguments`), `SimulatedReturn` (`TracedReturnIfMoved`)
  and `TypeCorrect` (`TypeOK`). `RowsInv` gives the value of each member in closed
  form: in the module from the row it is on, in a record from the row the record
  is of, whatever the reader has read since.
- `FaultsOnlyInPrint` (`OnlyPrintingFaults`) and `NothingKept` (`BuffersFreed`).
  `BuffersInv` says which buffers of a row are allocated at each point of its
  record's life; a step of a thread deletes buffers of its own record only.
- All of these rest on `Sound`, five facts about a call, each proved for the 61
  calls that are moved (`MovedCallsAreSound`); it is where a member missing from
  a `setMove` would show. `ReadByItsModule` (`OwnModule`) compares the two lists.

For address spaces and ranges of any size (`VirtualAddressSpace_proofs`):
`FindsExactly` (`FindsItsMapping`), `NeverLoses` (`FindsAtLeast`) and
`OverlapsExactly` (`OverlapIsExact`). The invariant: each mapped word has a node
at its replayed address; and, until a mapping fails or moves, the nodes are parts
of the mappings and do not meet. The cases of an unmap (a node is covered, cut at
an end, split) are one lemma each. It rests on the assumption that a mapping does
not reach over the end of the address space.

For any number of processes, descriptors and files (`OverlappingCalls_proofs`):
`NeverTwoHolders` (`OneHolder`), with `dup2_new` not among the kinds of call. For
each number, the invariant says it is in at most one entry, copy or hand, and then
open and not the replayer's own. Each step moves a number from one place to another
(`Stays`, `Leaves`, `IsNew` and their companions are the ways it may), whatever the other
threads are in the middle of. With `dup2_new` the invariant fails at
`get_unused_fd`, which reserves nothing, and `UnusedFd` shows how.

`NothingIsLost` (`NothingLost`) and `FilesFollow` (`SameFiles`) are proved from it
with `FInv`. Outside a call the entries of a process designate the traced files
(`Follows`); inside one they may not yet, and `Owed` says for each step of each call what
its entries still lack: a descriptor opened and not entered, an entry removed and not
closed. A step touches only numbers in its own hand (`Kept`), so that what the others
are owed stays as it was. The hypothesis is `HasRoom`, that
the kernel has a free number whenever a call may ask for one: a dup2 that fails in the
replay for want of numbers, and did not in the trace, has closed its target by then.

The other assumptions are those named in `ResourcesManager` (finitely many
processes, the root among them, addresses enough to start) and those on the
constants of each module. TLC evaluates them on each run.

*Only model-checked*: the fairness half of `ReplayFairSpec` and with it that all
records are replayed; the prover does not handle liveness. Outside the named hypotheses
the properties of `DescriptorReplay` may be false, as section 6 says.

## 6. Where the code does not do what it says

- `StdinShared`. `clone_fd_table` says it duplicates a valid `old_fd`, and tests
  `old_fd > 0`: descriptor 0 is shared by copies, and the exit of one process
  closes it for the other (`SameFiles`).
- `EndsEarly`. An execution thread ends when its heap is empty for a moment;
  the records read later are never executed (`EndsWithTrace`). In `OneThread`
  the gate prevents it, since there the thread's own files are the ones counted;
  with a child whose records come late nothing does.

- `UnusedFd`. A dup2 in the trace to a number the replayer uses gets another from
  `get_unused_fd`, "an unused file descriptor number"; nothing reserves it, the
  kernel gives it to a call of another thread, and dup2 closes that one
  (`OneHolder`).

Met while modelling, present in the models, and without a run of its own: a
successful execve drops close-on-exec entries and leaves the replayed descriptors
open and unknown (`EveryOpenFdKnown` fails with execve among the calls); pipe opens two
real descriptors and enters simulated ones, so that the real ones leak; dup2 of
a simulated descriptor onto an open one leaks the latter; dup of a simulated one
enters the traced number as a replayed one; a failed pipe, dup or
dup3 makes an assertion fail or enters a wrong entry; the execve module decides by the
return value of the record before it in its file; a failed execve drops simulated
entries; accept4 ignores its flags and takes a returned 0 for a failure; fcntl is
replayed on simulated descriptors, and never clears the flag in the table; a lost
update of `lastExecutedSyscallID` can move the window of `checkSequential` back.
`OddCalls` steps through the calls that do this, and asks of them only what
still holds.

The order between processes is only checked against the records in
`currentExecutions`: a call is replayed before one of another process that had
returned before it was called, if the thread of that process ended early and its
records are read later, if it has taken a record whose earlier one of another
file is not yet loaded, if that process's thread is not started yet because the clone of a third
process returns late, or if it was started while the check was walking through
the map (found by TLC on traces of seven records and of three processes).

Met while modelling and not in a model: where threads share a table, a close and
an open that overlap in the replay, though not in the trace, can enter a
descriptor before the old entry is removed, which the assertion of
`add_fd_entry` ends; and `validate_consistency`, run while another thread is
between its system call and its entry, reports what is no fault.

Of records, as the properties of `CallRecords` name them:

- read, write, lseek, fstat and close on a simulated descriptor return 0:
  `prepareRow` sets `replayed_ret_val_` in the module and `setMove` does not copy
  it, though the comments say the original value will be returned. For the same
  reason a page fault copies no bytes before it is verified, and ioctl fills its
  buffer with none.
- In verbose mode chmod, chown, chroot, mkdir, rmdir, unlink, rename, readlink,
  stat, statfs, fstatat, write and pwrite print a buffer they have deleted (in
  warn mode, when a warning is printed), and utime a field of a row it is not on;
  access, chdir and link do so in warn mode. A page fault that hits two
  mappings deletes its buffers twice.
- The paths of lstat, readlink and utime are never deleted, nor are the buffers
  of a simulated call, nor the path of access in verbose mode.
- faccessat, mkdirat, unlinkat, openat, linkat, fchmodat, utimes and utimensat
  inherit `move` and are replayed as access, mkdir, unlink, open, link, fchmod
  and utime, without their descriptor and flags.
- creat, mknod, symlink, truncate, readv, writev, the three setxattr calls and
  fstatfs have no `move`: a trace with one of them ends the replayer while it
  loads (`LoadCrashes`).

## 7. Not modelled

- What a call does to files other than opening, sharing and closing them, the
  text of the logger, the comparison of verified data, write patterns (`-p`),
  abort mode, null buffers, profiling and the `WEBSERVER_TESTING` variant.
- Option parsing. Of the creation of the modules, only the two lists that are
  paired by position.
- Threads that share one descriptor table or one `VM_area` in split steps:
  `OverlappingCalls` has the calls of different processes, each with a table of
  its own, overlap; in `DescriptorReplay`, where tables are shared, an
  operation is atomic. Several functions of the manager read its maps without
  the lock while others insert; what a data race on a `std::map` does is beyond
  a model of the calls.
- In `OverlappingCalls` descriptor 0 belongs to the replayer, as it does once an
  execve has dropped the standard entries.
- Open files of different processes that share an offset: a file is identified,
  not its offset.
- A trace in which a process id is used again after its process ended: heaps and
  the `running` map are keyed by it, and `TraceAssumption` leaves it out.

## 8. Plan

1. Done: manager with abstract specification and proofs; descriptor replay;
   overlapping calls of processes, with a proof; scheduler with abstract
   specification, and proofs that no record is lost or deleted early, of its
   counters and of the order it keeps; address
   space with proofs; records of all calls, with proofs of all their properties;
   descriptor replay proved to follow the traced tables, masks, flags and files.
2. The first loading (`load_syscall_modules`, `prepare_replay`) as steps of the
   scheduler, and a run on the window of `checkSequential` when
   `lastExecutedSyscallID` moves back.
3. Overlapping calls of threads that share a table.
