-------------------------- MODULE ReplayScheduler --------------------------
(***************************************************************************)
(* SystemCallTraceReplayer.cpp: one reader thread that loads records of the *)
(* trace, in batches, into one heap per traced process, and one execution   *)
(* thread per traced process that takes them out and replays them. A thread *)
(* step is what it does between two accesses to what the threads share.     *)
(*                                                                         *)
(* The program's numbers are the constants Low (10), High (100), Batch     *)
(* (150), FirstBatch (1000) and Window (150).                              *)
(***************************************************************************)
EXTENDS Integers, FiniteSets, Sequences

CONSTANTS
    Types,           \* the system calls of the trace, one file of records each
    Pids,            \* traced processes, Root the one of the first record
    Root,
    Traces,          \* traces: functions from unique ids 0 .. n to records
    StrayIndexes,    \* what an uninitialised replayerIndex may be
    Low, High, Batch, FirstBatch, Window

NoRecord == -1       \* nullptr
NoChild == -1        \* the record makes no process
NoType == "none"     \* no batch going on

ASSUME SchedulerAssumption ==
    /\ Root \in Pids /\ IsFiniteSet(Pids) /\ IsFiniteSet(Types)
    /\ NoType \notin Types /\ NoChild \notin Pids
    /\ {Low, High, Window} \subseteq Nat
    /\ Batch \in Nat \ 0 .. 1 /\ FirstBatch \in Nat \ 0 .. 1

\* A trace: records ordered by unique id, which is the order of the calls; a
\* process makes one call at a time; a clone comes before its child's calls, and a
\* process id is not used again. The first record is an umask (prepare_replay).
ASSUME TraceAssumption ==
    \A t \in Traces :
        /\ IsFiniteSet(DOMAIN t) /\ DOMAIN t = 0 .. Cardinality(DOMAIN t) - 1
        /\ 0 \in DOMAIN t /\ t[0].pid = Root /\ t[0].child = NoChild
        /\ Types = {t[u].type : u \in DOMAIN t}
        /\ \A u \in DOMAIN t :
              /\ t[u].pid \in Pids
              /\ t[u].child \in Pids \cup {NoChild}
              /\ t[u].called \in Nat /\ t[u].returned \in Nat
              /\ t[u].called < t[u].returned
        /\ \A u, v \in DOMAIN t :
              u < v => /\ t[u].called < t[v].called
                       /\ t[u].pid = t[v].pid => t[u].returned < t[v].called
        /\ \A v \in DOMAIN t :
              t[v].pid # Root => \E u \in 0 .. v - 1 : t[u].child = t[v].pid
        /\ \A u, v \in DOMAIN t :
              t[u].child # NoChild => t[u].child # Root /\ (t[u].child = t[v].child => u = v)

VARIABLES
    trace,           \* the trace being replayed
    unread,          \* records still in the files
    pending,         \* type -> the record prepareRow left in the module
    index,           \* record -> the counter its replayerIndex names
    finished,        \* finishedModules: types with no record left in their file
    number,          \* numberOfSyscalls: type -> counter
    heap,            \* executionHeaps: pid -> records
    running,         \* currentExecutions: pid -> record or NoRecord
    queue,           \* allocationQueue: records to delete
    deleted,         \* records deleted
    nThreads,
    last,            \* lastExecutedSyscallID
    reader,          \* main, then the reader thread: [at, todo, type, size, left, pushed]
    pc,              \* pid -> where its execution thread is
    cur, prev,       \* pid -> execute_replayer, prev_replayer
    todo,            \* pid -> entries its check has still to compare with
    seen,            \* pid -> compare; then what it will store in last
    executed         \* records whose execute() returned

sourceVars == <<trace, index>>
loadVars == <<unread, pending, finished>>
threadVars == <<pc, cur, prev, todo, seen>>
sharedVars == <<number, heap, running, queue, deleted, nThreads, last>>
vars == <<sourceVars, loadVars, threadVars, sharedVars, reader, executed>>

Uids == DOMAIN trace
LowestOf(S) == CHOOSE u \in S : \A v \in S : u <= v
OfType(k) == {u \in Uids : trace[u].type = k}
FirstOf(t, k) == {LowestOf({u \in DOMAIN t : t[u].type = k})}

-----------------------------------------------------------------------------
checkModulesFinished == finished = Types

MinAbove(n) == \A k \in Types \ finished : number[k] > n
MinBelow(n) == \E k \in Types \ finished : number[k] < n

\* A counter changes; that of a finished type, or none, does not count.
Counted(u, d) ==
    number' = IF index[u] \in Types \ finished
              THEN [number EXCEPT ![index[u]] = @ + d] ELSE number

Push(u) == heap' = [heap EXCEPT ![trace[u].pid] = @ \cup {u}]

(***************************************************************************)
(* load_syscall_modules, with one record of each type in its heap and every *)
(* counter 1, then prepare_replay, which replays the first record. The      *)
(* records loaded here were copied before setReplayerIndex.                *)
(***************************************************************************)
Init ==
    /\ trace \in Traces
    /\ LET Loaded == UNION {FirstOf(trace, k) : k \in Types} IN
       /\ unread = Uids \ Loaded
       /\ index \in {i \in [Uids -> Types \cup StrayIndexes] :
                        \A u \in Uids : u \in Loaded \/ i[u] = trace[u].type}
       /\ \A u \in Loaded : index[u] \in StrayIndexes
       /\ heap = [p \in Pids |-> {u \in Loaded \ {0} : trace[u].pid = p}]
    /\ pending = [k \in Types |-> NoRecord]
    /\ finished = {}
    /\ number = [k \in Types |-> IF index[0] = k THEN 0 ELSE 1]
    /\ running = [p \in {Root} |-> 0]
    /\ queue = <<>> /\ deleted = {}
    /\ nThreads = 1 /\ last = 0
    /\ reader = [at |-> "first", todo |-> Types, type |-> NoType,
                 size |-> FirstBatch, left |-> 0, pushed |-> NoRecord]
    /\ pc = [p \in Pids |-> "none"]
    /\ cur = [p \in Pids |-> NoRecord] /\ prev = cur
    /\ todo = [p \in Pids |-> {}] /\ seen = cur
    /\ executed = {0}

-----------------------------------------------------------------------------
(***************************************************************************)
(* batch_for_all_syscalls, called by main before the threads start and by   *)
(* the reader thread after that.                                           *)
(***************************************************************************)
Batching == reader.at \in {"first", "batch"}

\* batch_syscall_modules returns at once.
SkipType(k) ==
    /\ Batching /\ reader.type = NoType /\ k \in reader.todo
    /\ k \in finished \/ number[k] > 2 * reader.size
    /\ reader' = [reader EXCEPT !.todo = @ \ {k}]
    /\ UNCHANGED <<sourceVars, loadVars, threadVars, sharedVars, executed>>

\* It starts with the record the last call left in the module, if any.
StartType(k) ==
    /\ Batching /\ reader.type = NoType /\ k \in reader.todo
    /\ k \notin finished /\ number[k] <= 2 * reader.size
    /\ reader' = [reader EXCEPT !.todo = @ \ {k}, !.type = k, !.left = reader.size,
                                !.pushed = pending[k]]
    /\ IF pending[k] = NoRecord THEN UNCHANGED heap ELSE Push(pending[k])
    /\ pending' = [pending EXCEPT ![k] = NoRecord]
    /\ UNCHANGED <<sourceVars, unread, finished, threadVars, number, running, queue,
                   deleted, nThreads, last, executed>>

\* numberOfSyscalls[...]++ after a push.
CountPushed ==
    /\ reader.pushed # NoRecord
    /\ Counted(reader.pushed, 1)
    /\ reader' = [reader EXCEPT !.pushed = NoRecord]
    /\ UNCHANGED <<sourceVars, loadVars, threadVars, heap, running, queue, deleted,
                   nThreads, last, executed>>

\* A faulty ReadRow: the last row is forgotten.
ReadRow_drops_last ==
    LET k == reader.type
        row == LowestOf(unread \cap OfType(k))
    IN
    /\ k # NoType /\ reader.pushed = NoRecord /\ reader.left > 1
    /\ unread \cap OfType(k) # {}
    /\ unread' = unread \ {row}
    /\ IF reader.left > 2
       THEN Push(row) /\ reader' = [reader EXCEPT !.left = @ - 1, !.pushed = row]
       ELSE UNCHANGED heap /\ reader' = [reader EXCEPT !.left = @ - 1]
    /\ UNCHANGED <<sourceVars, pending, finished, threadVars, number, running, queue,
                   deleted, nThreads, last, executed>>

\* One turn of the loop while (--count != 0): the last row stays in the module.
ReadRow ==
    LET k == reader.type
        row == LowestOf(unread \cap OfType(k))
    IN
    /\ k # NoType /\ reader.pushed = NoRecord /\ reader.left > 1
    /\ unread \cap OfType(k) # {}
    /\ unread' = unread \ {row}
    /\ IF reader.left > 2
       THEN /\ Push(row) /\ UNCHANGED pending
            /\ reader' = [reader EXCEPT !.left = @ - 1, !.pushed = row]
       ELSE /\ pending' = [pending EXCEPT ![k] = row] /\ UNCHANGED heap
            /\ reader' = [reader EXCEPT !.left = @ - 1]
    /\ UNCHANGED <<sourceVars, finished, threadVars, number, running, queue, deleted,
                   nThreads, last, executed>>

\* A faulty EndOfRecord, which only stops.
EndOfRecord_unmarked ==
    /\ reader.type # NoType /\ reader.pushed = NoRecord /\ reader.left > 1
    /\ unread \cap OfType(reader.type) = {}
    /\ reader' = [reader EXCEPT !.type = NoType]
    /\ UNCHANGED <<sourceVars, loadVars, threadVars, sharedVars, executed>>

EndOfRecord ==
    /\ reader.type # NoType /\ reader.pushed = NoRecord /\ reader.left > 1
    /\ unread \cap OfType(reader.type) = {}
    /\ finished' = finished \cup {reader.type}
    /\ reader' = [reader EXCEPT !.type = NoType]
    /\ UNCHANGED <<sourceVars, unread, pending, threadVars, sharedVars, executed>>

BatchFull ==
    /\ reader.type # NoType /\ reader.pushed = NoRecord /\ reader.left = 1
    /\ reader' = [reader EXCEPT !.type = NoType]
    /\ UNCHANGED <<sourceVars, loadVars, threadVars, sharedVars, executed>>

\* All types are done: main starts the first execution thread, the reader
\* goes back to its loop.
EndBatch ==
    /\ Batching /\ reader.todo = {} /\ reader.type = NoType
    /\ reader' = [reader EXCEPT !.at = "loop"]
    /\ pc' = IF reader.at = "first" THEN [pc EXCEPT ![Root] = "pop"] ELSE pc
    /\ UNCHANGED <<sourceVars, loadVars, cur, prev, todo, seen, sharedVars, executed>>

(***************************************************************************)
(* readerThread                                                            *)
(***************************************************************************)
ReaderEnds ==
    /\ reader.at = "loop" /\ checkModulesFinished
    /\ reader' = [reader EXCEPT !.at = "ended"]
    /\ UNCHANGED <<sourceVars, loadVars, threadVars, sharedVars, executed>>

ReaderDrains ==
    /\ reader.at = "loop" /\ ~checkModulesFinished
    /\ MinAbove(High * nThreads) /\ queue # <<>>
    /\ reader' = [reader EXCEPT !.at = "drain"]
    /\ UNCHANGED <<sourceVars, loadVars, threadVars, sharedVars, executed>>

\* A faulty DeleteNext, which looks at the queue's head and leaves it there.
DeleteNext_keeps ==
    /\ reader.at = "drain"
    /\ reader' = [reader EXCEPT !.at = "loop"]
    /\ deleted' = deleted \cup {queue[1]}
    /\ UNCHANGED <<sourceVars, loadVars, threadVars, number, heap, running, queue,
                   nThreads, last, executed>>

DeleteNext ==
    /\ reader.at = "drain"
    /\ IF queue = <<>>
       THEN reader' = [reader EXCEPT !.at = "loop"] /\ UNCHANGED <<queue, deleted>>
       ELSE /\ queue' = Tail(queue) /\ deleted' = deleted \cup {Head(queue)}
            /\ UNCHANGED reader
    /\ UNCHANGED <<sourceVars, loadVars, threadVars, number, heap, running, nThreads,
                   last, executed>>

ReaderBatches ==
    /\ reader.at = "loop" /\ ~checkModulesFinished /\ ~MinAbove(High * nThreads)
    /\ reader' = [reader EXCEPT !.at = "batch", !.todo = Types, !.size = Batch * nThreads]
    /\ UNCHANGED <<sourceVars, loadVars, threadVars, sharedVars, executed>>

Reader ==
    \/ \E k \in Types : SkipType(k) \/ StartType(k)
    \/ CountPushed \/ ReadRow \/ EndOfRecord \/ BatchFull \/ EndBatch
    \/ ReaderEnds \/ ReaderDrains \/ DeleteNext \/ ReaderBatches

-----------------------------------------------------------------------------
(***************************************************************************)
(* executionThread(p)                                                      *)
(***************************************************************************)
At(p, place) == pc[p] = place
Goto(p, place) == pc' = [pc EXCEPT ![p] = place]

\* The top of a heap is its lowest unique id; a faulty one, its highest.
Top_highest(p) == CHOOSE u \in heap[p] : \A v \in heap[p] : u >= v

Top(p) == LowestOf(heap[p])

Pop(p) ==
    /\ At(p, "pop") /\ heap[p] # {}
    /\ cur' = [cur EXCEPT ![p] = Top(p)]
    /\ heap' = [heap EXCEPT ![p] = @ \ {Top(p)}]
    /\ Goto(p, "count")
    /\ UNCHANGED <<sourceVars, loadVars, prev, todo, seen, number, running, queue,
                   deleted, nThreads, last, reader, executed>>

\* The heap is empty: the thread ends, for good.
ThreadEnds(p) ==
    /\ At(p, "pop") /\ heap[p] = {}
    /\ running' = [q \in DOMAIN running \ {p} |-> running[q]]
    /\ Goto(p, "ended")
    /\ UNCHANGED <<sourceVars, loadVars, cur, prev, todo, seen, number, heap, queue,
                   deleted, nThreads, last, reader, executed>>

CountPopped(p) ==
    /\ At(p, "count")
    /\ Counted(cur[p], -1)
    /\ Goto(p, "gate")
    /\ UNCHANGED <<sourceVars, loadVars, cur, prev, todo, seen, heap, running, queue,
                   deleted, nThreads, last, reader, executed>>

\* A faulty Gate, always open.
Gate_open(p) ==
    /\ At(p, "gate")
    /\ running' = [q \in DOMAIN running \cup {p} |->
                      IF q = p THEN cur[p] ELSE running[q]]
    /\ Goto(p, "queue")
    /\ UNCHANGED <<sourceVars, loadVars, cur, prev, todo, seen, number, heap, queue,
                   deleted, nThreads, last, reader, executed>>

\* The spinning loop lets the thread through; setRunning.
Gate(p) ==
    /\ At(p, "gate")
    /\ ~MinBelow(Low * nThreads) \/ checkModulesFinished
    /\ running' = [q \in DOMAIN running \cup {p} |->
                      IF q = p THEN cur[p] ELSE running[q]]
    /\ Goto(p, "queue")
    /\ UNCHANGED <<sourceVars, loadVars, cur, prev, todo, seen, number, heap, queue,
                   deleted, nThreads, last, reader, executed>>

\* allocationQueue.push(prev_replayer), then the check begins, unless there
\* is one thread only.
QueuePrevious(p) ==
    /\ At(p, "queue")
    /\ queue' = IF prev[p] = NoRecord THEN queue ELSE Append(queue, prev[p])
    /\ IF nThreads = 1 THEN Goto(p, "execute") /\ UNCHANGED todo
       ELSE IF cur[p] > last + Window THEN Goto(p, "reject") /\ UNCHANGED todo
       ELSE Goto(p, "check") /\ todo' = [todo EXCEPT ![p] = DOMAIN running]
    /\ UNCHANGED <<sourceVars, loadVars, cur, prev, seen, number, heap, running,
                   deleted, nThreads, last, reader, executed>>

\* A faulty ReadRunning: a thread with nothing running is no obstacle.
ReadRunning_skips_null(p) ==
    /\ At(p, "check") /\ todo[p] # {}
    /\ \E q \in todo[p] :
          /\ todo' = [todo EXCEPT ![p] = @ \ {q}]
          /\ IF q \notin DOMAIN running \/ running[q] = NoRecord THEN UNCHANGED <<pc, seen>>
             ELSE Goto(p, "compare") /\ seen' = [seen EXCEPT ![p] = running[q]]
    /\ UNCHANGED <<sourceVars, loadVars, cur, prev, sharedVars, reader, executed>>

\* The check reads the pointer of one more running record...
ReadRunning(p) ==
    /\ At(p, "check") /\ todo[p] # {}
    /\ \E q \in todo[p] :
          /\ todo' = [todo EXCEPT ![p] = @ \ {q}]
          /\ IF q \notin DOMAIN running THEN UNCHANGED <<pc, seen>>
             ELSE IF running[q] = NoRecord THEN Goto(p, "reject") /\ UNCHANGED seen
             ELSE Goto(p, "compare") /\ seen' = [seen EXCEPT ![p] = running[q]]
    /\ UNCHANGED <<sourceVars, loadVars, cur, prev, sharedVars, reader, executed>>

\* ... and then that record's times, which are anything once it is deleted.
\* (called > returned excludes both overlaps the code tests for before it.)
Compare(p) ==
    /\ At(p, "compare")
    /\ \E late \in IF seen[p] \in deleted THEN BOOLEAN
                   ELSE {trace[cur[p]].called > trace[seen[p]].returned} :
          Goto(p, IF late THEN "reject" ELSE "check")
    /\ seen' = [seen EXCEPT ![p] = NoRecord]
    /\ UNCHANGED <<sourceVars, loadVars, cur, prev, todo, sharedVars, reader, executed>>

CheckPasses(p) ==
    /\ At(p, "check") /\ todo[p] = {}
    /\ Goto(p, "execute")
    /\ UNCHANGED <<sourceVars, loadVars, cur, prev, todo, seen, sharedVars, reader, executed>>

\* setRunning(threadID, nullptr)
Reject(p) ==
    /\ At(p, "reject")
    /\ running' = [running EXCEPT ![p] = NoRecord]
    /\ todo' = [todo EXCEPT ![p] = {}]
    /\ Goto(p, "putback")
    /\ UNCHANGED <<sourceVars, loadVars, cur, prev, seen, number, heap, queue, deleted,
                   nThreads, last, reader, executed>>

\* Faulty forms of PutBack: the record is dropped; the record before it is
\* queued a second time; the counter does not follow.
PutBack_drops(p) ==
    /\ At(p, "putback")
    /\ cur' = [cur EXCEPT ![p] = NoRecord]
    /\ prev' = [prev EXCEPT ![p] = NoRecord]
    /\ Goto(p, "pop")
    /\ UNCHANGED <<sourceVars, loadVars, todo, seen, number, heap, running, queue,
                   deleted, nThreads, last, reader, executed>>

PutBack_keeps_previous(p) ==
    /\ At(p, "putback")
    /\ Push(cur[p]) /\ Counted(cur[p], 1)
    /\ cur' = [cur EXCEPT ![p] = NoRecord]
    /\ Goto(p, "pop")
    /\ UNCHANGED <<sourceVars, loadVars, prev, todo, seen, running, queue, deleted,
                   nThreads, last, reader, executed>>

PutBack(p) ==
    /\ At(p, "putback")
    /\ Push(cur[p]) /\ Counted(cur[p], 1)
    /\ cur' = [cur EXCEPT ![p] = NoRecord]
    /\ prev' = [prev EXCEPT ![p] = NoRecord]
    /\ Goto(p, "pop")
    /\ UNCHANGED <<sourceVars, loadVars, todo, seen, running, queue, deleted, nThreads,
                   last, reader, executed>>

\* A faulty Execute: every record counts as a new thread.
Execute_counts_all(p) ==
    /\ At(p, "execute")
    /\ executed' = executed \cup {cur[p]}
    /\ seen' = [seen EXCEPT ![p] = IF last > cur[p] THEN last ELSE cur[p]]
    /\ nThreads' = nThreads + 1
    /\ Goto(p, "store")
    /\ UNCHANGED <<sourceVars, loadVars, cur, prev, todo, number, heap, running, queue,
                   deleted, last, reader>>

\* execute() returns, and lastExecutedSyscallID is read. A clone has started
\* the thread of the process it made.
Execute(p) ==
    LET child == trace[cur[p]].child IN
    /\ At(p, "execute")
    /\ executed' = executed \cup {cur[p]}
    /\ seen' = [seen EXCEPT ![p] = IF last > cur[p] THEN last ELSE cur[p]]
    /\ IF child = NoChild
       THEN Goto(p, "store") /\ UNCHANGED <<nThreads, running>>
       ELSE /\ nThreads' = nThreads + 1
            /\ running' = [q \in DOMAIN running \cup {child} |->
                              IF q = child THEN NoRecord ELSE running[q]]
            /\ pc' = [pc EXCEPT ![p] = "store", ![child] = "pop"]
    /\ UNCHANGED <<sourceVars, loadVars, cur, prev, todo, number, heap, queue, deleted,
                   last, reader>>

\* lastExecutedSyscallID is written.
StoreLast(p) ==
    /\ At(p, "store")
    /\ last' = seen[p]
    /\ seen' = [seen EXCEPT ![p] = NoRecord]
    /\ prev' = [prev EXCEPT ![p] = cur[p]]
    /\ cur' = [cur EXCEPT ![p] = NoRecord]
    /\ Goto(p, "pop")
    /\ UNCHANGED <<sourceVars, loadVars, todo, number, heap, running, queue, deleted,
                   nThreads, reader, executed>>

Thread(p) ==
    \/ Pop(p) \/ ThreadEnds(p) \/ CountPopped(p) \/ Gate(p) \/ QueuePrevious(p)
    \/ ReadRunning(p) \/ Compare(p) \/ CheckPasses(p) \/ Reject(p) \/ PutBack(p)
    \/ Execute(p) \/ StoreLast(p)

\* main has joined every thread.
Joined ==
    /\ reader.at = "ended" /\ \A p \in Pids : pc[p] \in {"none", "ended"}
    /\ UNCHANGED vars

Next == Reader \/ (\E p \in Pids : Thread(p)) \/ Joined

Spec == Init /\ [][Next]_vars

\* Every thread is scheduled as long as it can go on.
FairSpec == Spec /\ WF_vars(Reader) /\ \A p \in Pids : WF_vars(Thread(p))
-----------------------------------------------------------------------------
Places == {"none", "pop", "count", "gate", "queue", "check", "compare", "reject",
           "putback", "execute", "store", "ended"}

(* Records, threads, counters and the reader are where they can be, and     *)
(* what is running is a record or nothing.                                 *)
TypeOK ==
    /\ unread \subseteq Uids /\ finished \subseteq Types
    /\ pending \in [Types -> Uids \cup {NoRecord}]
    /\ number \in [Types -> Int]
    /\ heap \in [Pids -> SUBSET Uids]
    /\ running \in [DOMAIN running -> Uids \cup {NoRecord}] /\ DOMAIN running \subseteq Pids
    /\ queue \in Seq(Uids) /\ deleted \subseteq Uids
    /\ nThreads \in 1 .. Cardinality(Pids) /\ last \in Uids
    /\ reader.at \in {"first", "loop", "drain", "batch", "ended"}
    /\ pc \in [Pids -> Places]
    /\ cur \in [Pids -> Uids \cup {NoRecord}] /\ prev \in [Pids -> Uids \cup {NoRecord}]
    /\ todo \in [Pids -> SUBSET Pids] /\ seen \in [Pids -> Uids \cup {NoRecord}]
    /\ executed \subseteq Uids

(* A record that was not replayed is in one place, where the replayer can   *)
(* still get it: in its file, in its module, in the heap of its process or  *)
(* in the hands of that process's thread. One that was replayed is in none  *)
(* of them, so it is not replayed again: neither batches nor threads that   *)
(* put records back lose or copy one.                                      *)
InHand(p) == IF pc[p] \in {"count", "gate", "queue", "check", "compare", "reject",
                           "putback", "execute"}
             THEN {cur[p]} ELSE {}
Waiting(p) == heap[p] \cup InHand(p)

OnePlace ==
    /\ Uids \ executed =
          unread \cup ({pending[k] : k \in Types} \ {NoRecord})
                 \cup UNION {Waiting(p) : p \in Pids}
    /\ \A k \in Types : pending[k] \notin unread
    /\ \A p \in Pids :
          /\ heap[p] \cap InHand(p) = {}
          /\ \A u \in Waiting(p) :
                /\ trace[u].pid = p
                /\ u \notin unread /\ \A k \in Types : pending[k] # u

(* A record is deleted after it was replayed, once, and when no thread      *)
(* finds it in currentExecutions any more.                                 *)
DeletedLast ==
    LET queued == {queue[i] : i \in DOMAIN queue} IN
    /\ queued \cup deleted \subseteq executed
    /\ Cardinality(queued) = Len(queue) /\ queued \cap deleted = {}
    /\ \A q \in DOMAIN running : running[q] \notin queued \cup deleted

(* No counter of an unread file goes below zero (it is unsigned: it would   *)
(* be huge, and the reader would leave that file alone): each thread takes  *)
(* at most one record more than the gate let it.                           *)
NeverWraps == \A k \in Types \ finished : number[k] >= 0

(* The record a thread is about to replay is not ahead of any record its    *)
(* own process must replay first, loaded or not.                           *)
ProgramOrder ==
    \A p \in Pids : At(p, "execute") =>
        \A u \in Uids : trace[u].pid = p /\ u < cur[p] => u \in executed

(* When every file fits into the first batch, so that all records are in    *)
(* the heaps before a thread starts: the records of a process, and of the   *)
(* one that made it, that returned before the record a thread is about to   *)
(* replay was called, are replayed. (Longer files, and two processes made   *)
(* by a third, can be out of order.)                                        *)
ShortFiles == \A k \in Types : Cardinality(OfType(k)) < FirstBatch
Made(p, q) == \E u \in Uids : trace[u].pid = p /\ trace[u].child = q
Kin(p, q) == p = q \/ Made(p, q) \/ Made(q, p)

HappensBefore ==
    ShortFiles =>
        \A p \in Pids : At(p, "execute") =>
            \A u \in Uids :
                /\ trace[u].returned < trace[cur[p]].called
                /\ Kin(p, trace[u].pid)
                => u \in executed

(* "Replayer should call this function [execute] until there are no more    *)
(* trace record" (SystemCallTraceReplayModule.hpp): the thread of a process *)
(* ends after the process's last record.                                   *)
EndsWithTrace ==
    \A p \in Pids : At(p, "ended") =>
        \A u \in Uids : trace[u].pid = p => u \in executed
-----------------------------------------------------------------------------
(***************************************************************************)
(* The threads and queues implement TraceReplay: records of one process in *)
(* their order, and of two processes when one returned before the other    *)
(* was called; with fairness, all of them are replayed.                    *)
(***************************************************************************)
Promise == INSTANCE TraceReplay WITH replayed <- executed

ReplaySpec == Promise!Spec
ReplayFairSpec == Promise!FairSpec
=============================================================================
