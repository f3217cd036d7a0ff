------------------------ MODULE ReplayScheduler_order ------------------------
(***************************************************************************)
(* The counters of the scheduler and the order in which its threads replay *)
(* records: with any number of threads when every file fits into the first *)
(* batch, and with one thread for files of any length.                     *)
(***************************************************************************)
EXTENDS ReplayScheduler_proofs

\* Low is 10 and FirstBatch is 1000 in the program.
RoomySizes == Low >= 2 /\ FirstBatch >= 3
OneProcess == Pids = {Root}

-----------------------------------------------------------------------------
\* The rest of the typing.
Shaped ==
    /\ number \in [Types -> Int] /\ finished \subseteq Types
    /\ running \in [DOMAIN running -> Uids \cup {NoRecord}] /\ DOMAIN running \subseteq Pids
    /\ last \in Uids
    /\ todo \in [Pids -> SUBSET Pids] /\ seen \in [Pids -> Uids \cup {NoRecord}]
    /\ \A p \in Pids : pc[p] \in {"compare", "store"} => seen[p] \in Uids

\* The processes whose thread was started, and those that are in a place.
Begun == {p \in Pids : p = Root \/ \E u \in executed : trace[u].child = p}
In(places) == {p \in Pids : pc[p] \in places}
Active == Places \ {"none"}

ThreadsCounted ==
    /\ nThreads <= Cardinality(Begun)
    /\ Cardinality(In(Active)) <= nThreads
    /\ \A u \in executed : trace[u].child # NoChild => pc[trace[u].child] # "none"
    /\ reader.at = "first" => executed = {0}
    /\ reader.at # "first" => \A u \in executed : pc[trace[u].pid] # "none"

-----------------------------------------------------------------------------
\* What the reader knows of the files: rows come in order, and only the records
\* of load_syscall_modules are not counted on the counter of their own type.
Loaded == UNION {FirstOf(trace, k) : k \in Types}

FilesOrdered ==
    /\ unread \cap Loaded = {} /\ \A u \in Uids \ Loaded : index[u] = trace[u].type
    /\ \A k \in Types : pending[k] # NoRecord => pending[k] \notin Loaded
    /\ \A u \in unread : \A v \in Uids \ unread : trace[u].type = trace[v].type => v < u
    /\ \A k \in Types : pending[k] # NoRecord =>
          \A v \in OfType(k) \ unread : v <= pending[k]
    /\ \A k \in finished : unread \cap OfType(k) = {} /\ pending[k] = NoRecord
    /\ reader.type # NoType =>
          Batching /\ reader.type \in Types \ finished /\ reader.type \notin reader.todo
    /\ reader.pushed # NoRecord =>
          /\ reader.type # NoType
          /\ reader.pushed \notin Loaded /\ trace[reader.pushed].type = reader.type

FirstBatching ==
    reader.at = "first" =>
        /\ reader.size = FirstBatch /\ nThreads = 1
        /\ reader.type # NoType => reader.left \in 1 .. FirstBatch

\* A type the first batch is through with, or in the middle of.
Begins(k) == k \in Types \ (finished \cup reader.todo)
Middle(k) == reader.type = k => reader.left < FirstBatch

\* What a thread may still take before the gate holds it: its next record, and
\* the first one of a process it makes.
Owing == {"pop", "count", "queue", "check", "compare", "reject", "putback", "execute", "store"}
Making == {"queue", "check", "compare", "execute"}
Debt == Cardinality(In(Owing)) + Cardinality(In(Making))

Covered ==
    /\ reader.at = "first" => \A k \in Types \ finished :
          /\ number[k] >= 0
          /\ Begins(k) /\ Middle(k) /\ ~(reader.type = k /\ reader.pushed # NoRecord)
                => number[k] >= 1
    /\ reader.at # "first" => \A k \in Types \ finished : number[k] >= Debt

-----------------------------------------------------------------------------
\* Files of less than a batch: all records are in the heaps when threads start.
RowsLeft(k) == Cardinality(unread \cap OfType(k))

AllLoaded ==
    /\ deleted = {} /\ \A k \in Types : pending[k] = NoRecord
    /\ reader.at = "first" =>
          /\ Root \in DOMAIN running
          /\ \A k \in reader.todo \ finished : FirstBatch >= RowsLeft(k) + 2 /\ number[k] <= 1
          /\ reader.type # NoType => reader.left >= RowsLeft(reader.type) + 2
          /\ \A k \in Types : k \in reader.todo \/ k = reader.type \/ k \in finished
    /\ reader.at # "first" =>
          unread = {} /\ finished = Types /\ reader.type = NoType /\ reader.at \in {"loop", "ended"}

\* All that q did not replay yet is later than v.
NoneBefore(q, v) == \A u \in Uids : trace[u].pid = q /\ u \notin executed => v <= u

LowestFirst ==
    \A p \in Pids :
        /\ pc[p] \in HandPlaces => \A u \in heap[p] : cur[p] < u
        /\ pc[p] = "ended" => heap[p] = {}
        /\ pc[p] \notin {"none", "ended"} => p \in DOMAIN running
        /\ pc[p] = "compare" => NoneBefore(trace[seen[p]].pid, seen[p])

Shown ==
    \A q \in DOMAIN running : running[q] # NoRecord =>
        trace[running[q]].pid = q /\ NoneBefore(q, running[q])

\* What q did that returned before p's record was called is replayed.
Cleared(p, q) ==
    \A u \in Uids : trace[u].pid = q /\ trace[u].returned < trace[cur[p]].called => u \in executed

Checked ==
    \A p \in Pids : \A q \in Pids : Kin(p, q) =>
        /\ pc[p] = "check" => q \in todo[p] \/ Cleared(p, q)
        /\ pc[p] = "compare" => q \in todo[p] \/ Cleared(p, q) \/ q = trace[seen[p]].pid
        /\ pc[p] = "execute" => Cleared(p, q)

OrderInv == ShortFiles => AllLoaded /\ LowestFirst /\ Shown /\ Checked

-----------------------------------------------------------------------------
\* One process: the gate opens only while each unfinished file has a record in
\* the heap, and so an unread record is never the next one.
Waits(k) == {u \in OfType(k) \ Loaded :
                 u \in heap[Root] \/ (pc[Root] = "count" /\ u = cur[Root])}
Uncounted(k) == IF reader.pushed # NoRecord /\ reader.type = k THEN 1 ELSE 0
Stocked(k) == heap[Root] \cap OfType(k) # {}

\* A counter is at most one more than the records that wait and are counted.
Balanced == \A k \in Types \ finished : number[k] + Uncounted(k) <= Cardinality(Waits(k)) + 1

FirstStocked ==
    reader.at = "first" => \A k \in Types \ finished : Begins(k) /\ Middle(k) => Stocked(k)

AllStocked ==
    pc[Root] \in {"queue", "execute", "store", "pop"} => \A k \in Types \ finished : Stocked(k)

Steady ==
    /\ nThreads = 1 /\ pc[Root] \notin {"check", "compare", "reject", "putback"}
    /\ pc[Root] \in HandPlaces => NoneBefore(Root, cur[Root])

GateInv == OneProcess => Balanced /\ FirstStocked /\ AllStocked /\ Steady

-----------------------------------------------------------------------------
(***************************************************************************)
(* What a step leaves alone.                                               *)
(***************************************************************************)
LEMMA ReaderLeaves ==
    ASSUME Reader
    PROVE  /\ UNCHANGED <<trace, index, cur, prev, todo, seen, running, nThreads, last, executed>>
           /\ pc' = pc \/ (EndBatch /\ reader.at = "first")
BY DEF Reader, SkipType, StartType, CountPushed, ReadRow, EndOfRecord, BatchFull, EndBatch,
   ReaderEnds, ReaderDrains, DeleteNext, ReaderBatches,
   sourceVars, loadVars, threadVars, sharedVars

LEMMA ThreadLeaves ==
    ASSUME NEW p \in Pids, Thread(p)
    PROVE  /\ UNCHANGED <<trace, index, unread, pending, finished, reader, deleted>>
           /\ (UNCHANGED <<executed, nThreads>>) \/ Execute(p)
BY DEF Thread, Pop, ThreadEnds, CountPopped, Gate, QueuePrevious, ReadRunning, Compare,
   CheckPasses, Reject, PutBack, Execute, StoreLast,
   sourceVars, loadVars, threadVars, sharedVars

(* The record a thread has in hand is one of its process, not replayed.    *)
LEMMA HandRecord ==
    ASSUME IInv, NEW p \in Pids, pc[p] \in HandPlaces
    PROVE  cur[p] \in Uids /\ trace[cur[p]].pid = p /\ cur[p] \notin executed
<1>1. InHand(p) = {cur[p]}
  BY DEF InHand, HandPlaces
<1>2. cur[p] \in Uids /\ trace[cur[p]].pid = p
  BY <1>1 DEF IInv, Homes
<1>3. QED
  BY <1>1, <1>2 DEF IInv, EachOnce, OneOf, Held, Done

(* A clone starts the one thread of a process that had none.               *)
LEMMA CloneStarts ==
    ASSUME IInv, NEW p \in Pids, pc[p] = "execute", NEW c, c = trace[cur[p]].child, c # NoChild
    PROVE  /\ c \in Pids \ {p, Root} /\ pc[c] = "none"
           /\ \A u \in Uids : trace[u].child = c => u = cur[p]
<1>1. trace \in Traces /\ cur[p] \in Uids /\ cur[p] \notin executed /\ executed \subseteq Uids
  BY HandRecord DEF IInv, Typed, HandPlaces
<1>2. c \in Pids \ {Root} /\ \A u \in Uids : trace[u].child = c => u = cur[p]
  BY <1>1, TraceAssumption DEF Uids
<1>3. pc[c] = "none"
  BY <1>1, <1>2 DEF IInv, Started
<1>4. QED
  BY <1>2, <1>3

(* Where the thread of p was and is. The others stay where they are, but   *)
(* for the thread of a process that p makes.                               *)
LEMMA ThreadMoves ==
    ASSUME IInv, NEW p \in Pids, Thread(p)
    PROVE  /\ pc[p] \in Active \ {"ended"} /\ pc'[p] \in Active
           /\ \A q \in Pids \ {p} :
                 pc'[q] = pc[q] \/ (pc[q] = "none" /\ pc'[q] = "pop" /\ trace[cur[p]].child = q)
           /\ Execute(p) \/ \A q \in Pids \ {p} : pc'[q] = pc[q]
<1>1. pc \in [Pids -> Places]
  BY DEF IInv, Typed
<1>2. CASE Execute(p)
  <2>1. pc[p] = "execute"
    BY <1>2 DEF Execute, At
  <2> DEFINE c == trace[cur[p]].child
  <2>2. c # NoChild => c \in Pids \ {p} /\ pc[c] = "none"
    BY <2>1, CloneStarts
  <2>3. pc' = IF c = NoChild THEN [pc EXCEPT ![p] = "store"]
              ELSE [pc EXCEPT ![p] = "store", ![c] = "pop"]
    BY <1>2 DEF Execute, Goto
  <2> HIDE DEF c
  <2>4. /\ pc'[p] = "store"
        /\ \A q \in Pids \ {p} : pc'[q] = IF c # NoChild /\ q = c THEN "pop" ELSE pc[q]
    BY <1>1, <2>2, <2>3
  <2>5. QED
    BY <1>2, <2>1, <2>2, <2>4 DEF Active, Places, c
<1>3. ASSUME ~Execute(p)
      PROVE  pc[p] \in Active \ {"ended"} /\ \E place \in Active : pc' = [pc EXCEPT ![p] = place]
  <2>1. CASE ReadRunning(p)
    <3>1. pc[p] = "check" /\ (pc' = pc \/ Goto(p, "reject") \/ Goto(p, "compare"))
      BY <2>1 DEF ReadRunning, At
    <3>2. pc' = [pc EXCEPT ![p] = pc'[p]] /\ pc'[p] \in {"check", "reject", "compare"}
      BY <1>1, <3>1 DEF Goto
    <3>3. QED
      BY <3>1, <3>2 DEF Active, Places
  <2>2. CASE Compare(p) \/ QueuePrevious(p)
    BY <2>2 DEF Compare, QueuePrevious, At, Goto, Active, Places
  <2>3. CASE Pop(p) \/ ThreadEnds(p) \/ CountPopped(p) \/ Gate(p)
    BY <2>3 DEF Pop, ThreadEnds, CountPopped, Gate, At, Goto, Active, Places
  <2>4. CASE CheckPasses(p) \/ Reject(p) \/ PutBack(p) \/ StoreLast(p)
    BY <2>4 DEF CheckPasses, Reject, PutBack, StoreLast, At, Goto, Active, Places
  <2>5. QED
    BY <1>3, <2>1, <2>2, <2>3, <2>4 DEF Thread
<1>4. QED
  BY <1>1, <1>2, <1>3

-----------------------------------------------------------------------------
(***************************************************************************)
(* Types.                                                                  *)
(***************************************************************************)
LEMMA CountedIsInt ==
    ASSUME number \in [Types -> Int], NEW u, NEW d \in Int, Counted(u, d)
    PROVE  number' \in [Types -> Int]
BY DEF Counted

LEMMA ShapedInit == Init => Shaped
<1> SUFFICES ASSUME Init PROVE Shaped
  OBVIOUS
<1>1. /\ trace \in Traces /\ finished = {} /\ last = 0
      /\ number = [k \in Types |-> IF index[0] = k THEN 0 ELSE 1]
      /\ running = [p \in {Root} |-> 0]
      /\ pc = [p \in Pids |-> "none"] /\ todo = [p \in Pids |-> {}]
      /\ seen = [p \in Pids |-> NoRecord]
  BY DEF Init
<1>2. 0 \in Uids /\ Root \in Pids
  BY <1>1, UidsAreNumbers, SchedulerAssumption
<1>3. QED
  BY <1>1, <1>2 DEF Shaped

LEMMA ShapedStep ==
    ASSUME IInv, Shaped, [Next]_vars
    PROVE  Shaped'
<1>1. /\ pc \in [Pids -> Places] /\ cur \in [Pids -> Uids \cup {NoRecord}]
      /\ reader \in ReaderStates /\ trace \in Traces
  BY DEF IInv, Typed
<1>2. CASE Reader
  <2>1. UNCHANGED <<trace, running, last, todo, seen>>
    BY <1>2, ReaderLeaves
  <2>2. number' \in [Types -> Int]
    <3>1. number' = number \/ CountPushed
      BY <1>2 DEF Reader, SkipType, StartType, CountPushed, ReadRow, EndOfRecord, BatchFull, EndBatch,
         ReaderEnds, ReaderDrains, DeleteNext, ReaderBatches, sharedVars
    <3>2. QED
      BY <3>1, CountedIsInt DEF Shaped, CountPushed
  <2>3. finished' \subseteq Types
    <3>1. finished' = finished \/ EndOfRecord
      BY <1>2 DEF Reader, SkipType, StartType, CountPushed, ReadRow, EndOfRecord, BatchFull, EndBatch,
         ReaderEnds, ReaderDrains, DeleteNext, ReaderBatches, loadVars
    <3>2. QED
      BY <1>1, <3>1 DEF Shaped, EndOfRecord, ReaderStates
  <2>4. \A p \in Pids : pc'[p] \in {"compare", "store"} => pc[p] = pc'[p]
    <3>1. pc' = pc \/ pc' = [pc EXCEPT ![Root] = "pop"]
      BY <1>2, ReaderLeaves DEF EndBatch
    <3>2. QED
      BY <1>1, <3>1
  <2>5. QED
    BY <2>1, <2>2, <2>3, <2>4 DEF Shaped, Uids
<1>3. ASSUME NEW p \in Pids, Thread(p) PROVE Shaped'
  <2>1. UNCHANGED <<trace, finished>> /\ Uids' = Uids
    BY <1>3, ThreadLeaves DEF Uids
  <2>2. pc[p] \in HandPlaces => cur[p] \in Uids
    BY HandRecord
  <2>3. number' \in [Types -> Int]
    <3>1. number' = number \/ CountPopped(p) \/ PutBack(p)
      BY <1>3 DEF Thread, Pop, ThreadEnds, CountPopped, Gate, QueuePrevious, ReadRunning, Compare,
         CheckPasses, Reject, PutBack, Execute, StoreLast, sharedVars
    <3>2. QED
      BY <3>1, CountedIsInt DEF Shaped, CountPopped, PutBack
  <2>4. running' \in [DOMAIN running' -> Uids \cup {NoRecord}] /\ DOMAIN running' \subseteq Pids
    <3>1. CASE running' = running
      BY <3>1 DEF Shaped
    <3>2. CASE Gate(p)
      BY <2>2, <3>2 DEF Shaped, Gate, At, HandPlaces
    <3>3. CASE ThreadEnds(p)
      BY <3>3 DEF Shaped, ThreadEnds
    <3>4. CASE Reject(p)
      BY <3>4 DEF Shaped, Reject
    <3>5. CASE Execute(p) /\ trace[cur[p]].child # NoChild
      <4>1. trace[cur[p]].child \in Pids
        BY <3>5, CloneStarts DEF Execute, At
      <4>2. QED
        BY <3>5, <4>1 DEF Shaped, Execute
    <3>6. QED
      BY <1>3, <3>1, <3>2, <3>3, <3>4, <3>5 DEF Thread, Pop, CountPopped, QueuePrevious, ReadRunning,
         Compare, CheckPasses, PutBack, Execute, StoreLast, sharedVars
  <2>5. last' \in Uids
    <3>1. last' = last \/ StoreLast(p)
      BY <1>3 DEF Thread, Pop, ThreadEnds, CountPopped, Gate, QueuePrevious, ReadRunning, Compare,
         CheckPasses, Reject, PutBack, Execute, StoreLast, sharedVars
    <3>2. QED
      BY <3>1 DEF Shaped, StoreLast, At
  <2>6. todo' \in [Pids -> SUBSET Pids]
    BY <1>3 DEF Shaped, Thread, Pop, ThreadEnds, CountPopped, Gate, QueuePrevious, ReadRunning, Compare,
       CheckPasses, Reject, PutBack, Execute, StoreLast, threadVars
  <2>7. /\ seen' \in [Pids -> Uids \cup {NoRecord}]
        /\ \A q \in Pids \ {p} : seen'[q] = seen[q]
        /\ pc'[p] \in {"compare", "store"} => seen'[p] \in Uids
    <3>1. CASE ReadRunning(p)
      <4>1. PICK q \in todo[p] :
                IF q \notin DOMAIN running THEN UNCHANGED <<pc, seen>>
                ELSE IF running[q] = NoRecord
                     THEN pc' = [pc EXCEPT ![p] = "reject"] /\ UNCHANGED seen
                     ELSE pc' = [pc EXCEPT ![p] = "compare"] /\ seen' = [seen EXCEPT ![p] = running[q]]
        BY <3>1 DEF ReadRunning, Goto
      <4>2. pc[p] = "check"
        BY <3>1 DEF ReadRunning, At
      <4>3. QED
        BY <1>1, <4>1, <4>2 DEF Shaped
    <3>2. CASE Execute(p)
      <4>1. seen' = [seen EXCEPT ![p] = IF last > cur[p] THEN last ELSE cur[p]] /\ pc[p] = "execute"
        BY <3>2 DEF Execute, At
      <4>2. (IF last > cur[p] THEN last ELSE cur[p]) \in Uids
        BY <2>2, <4>1 DEF Shaped, HandPlaces
      <4> DEFINE s == IF last > cur[p] THEN last ELSE cur[p]
      <4> HIDE DEF s
      <4>3. seen' = [seen EXCEPT ![p] = s] /\ s \in Uids
        BY <4>1, <4>2 DEF s
      <4>4. QED
        BY <4>3 DEF Shaped
    <3>3. CASE ~ReadRunning(p) /\ ~Execute(p)
      <4>1. /\ seen' = seen \/ seen' = [seen EXCEPT ![p] = NoRecord]
            /\ \E place \in Places \ {"compare", "store"} : pc' = [pc EXCEPT ![p] = place]
        BY <1>3, <3>3 DEF Thread, Pop, ThreadEnds, CountPopped, Gate, QueuePrevious, Compare,
           CheckPasses, Reject, PutBack, StoreLast, At, Goto, Places
      <4>2. QED
        BY <1>1, <4>1 DEF Shaped
    <3>4. QED
      BY <3>1, <3>2, <3>3
  <2>8. \A q \in Pids \ {p} : pc'[q] \in {"compare", "store"} => pc[q] = pc'[q]
    BY <1>3, ThreadMoves
  <2>9. QED
    BY <2>1, <2>3, <2>4, <2>5, <2>6, <2>7, <2>8 DEF Shaped
<1>4. CASE Joined \/ UNCHANGED vars
  BY <1>4 DEF Joined, vars, sourceVars, loadVars, threadVars, sharedVars, Shaped, Uids
<1>5. QED
  BY <1>2, <1>3, <1>4 DEF Next

-----------------------------------------------------------------------------
(***************************************************************************)
(* The number of threads.                                                  *)
(***************************************************************************)
LEMMA SomePids ==
    ASSUME NEW S, S \subseteq Pids
    PROVE  IsFiniteSet(S) /\ Cardinality(S) \in Nat
BY SchedulerAssumption, FS_Subset, FS_CardinalityType

LEMMA MorePids ==
    ASSUME NEW S, NEW T, S \subseteq T, T \subseteq Pids
    PROVE  Cardinality(S) \in Nat /\ Cardinality(T) \in Nat /\ Cardinality(S) <= Cardinality(T)
BY SomePids, FS_Subset

LEMMA OnePidMore ==
    ASSUME NEW S, NEW p \in Pids, S \subseteq Pids, p \notin S
    PROVE  Cardinality(S) \in Nat /\ Cardinality(S \cup {p}) = Cardinality(S) + 1
BY SomePids, FS_AddElement

LEMMA ThreadsCountedInit == Init => ThreadsCounted
<1> SUFFICES ASSUME Init PROVE ThreadsCounted
  OBVIOUS
<1>1. /\ trace \in Traces /\ nThreads = 1 /\ executed = {0} /\ reader.at = "first"
      /\ pc = [p \in Pids |-> "none"]
  BY DEF Init
<1>2. trace[0].child = NoChild /\ Root \in Pids
  BY <1>1, TraceAssumption, SchedulerAssumption
<1>3. In(Active) = {} /\ Cardinality({}) = 0
  BY <1>1, FS_EmptySet DEF In, Active
<1>4. {Root} \subseteq Begun /\ Begun \subseteq Pids /\ Cardinality({Root}) = 1
  BY <1>2, FS_Singleton DEF Begun
<1>5. Cardinality(Begun) \in Nat /\ 1 <= Cardinality(Begun)
  BY <1>4, MorePids
<1>6. QED
  BY <1>1, <1>2, <1>3, <1>5 DEF ThreadsCounted

LEMMA ThreadsCountedByReader ==
    ASSUME IInv, ThreadsCounted, Reader
    PROVE  ThreadsCounted'
<1>1. /\ pc \in [Pids -> Places] /\ trace \in Traces /\ nThreads \in Nat \ {0} /\ Root \in Pids
  BY SchedulerAssumption DEF IInv, Typed
<1>2. UNCHANGED <<trace, nThreads, executed>> /\ Begun' = Begun
  BY ReaderLeaves DEF Begun
<1>3. CASE EndBatch /\ reader.at = "first"
  <2>1. /\ pc' = [pc EXCEPT ![Root] = "pop"] /\ reader'.at # "first" /\ executed = {0}
        /\ \A p \in Pids : pc[p] = "none"
    BY <1>3 DEF EndBatch, IInv, Typed, ReaderStates, Started, ThreadsCounted
  <2>2. In(Active)' = {Root} /\ Cardinality({Root}) = 1
    BY <1>1, <2>1, FS_Singleton DEF In, Active, Places
  <2>3. trace[0].child = NoChild /\ trace[0].pid = Root
    BY <1>1, TraceAssumption
  <2>4. QED
    BY <1>1, <1>2, <2>1, <2>2, <2>3 DEF ThreadsCounted
<1>4. CASE ~(EndBatch /\ reader.at = "first")
  <2>1. pc' = pc /\ In(Active)' = In(Active)
    BY <1>4, ReaderLeaves DEF In
  <2>2. reader'.at = "first" <=> reader.at = "first"
    BY <1>4 DEF Reader, SkipType, StartType, CountPushed, ReadRow, EndOfRecord, BatchFull, EndBatch,
       ReaderEnds, ReaderDrains, DeleteNext, ReaderBatches, IInv, Typed, ReaderStates
  <2>3. QED
    BY <1>2, <2>1, <2>2 DEF ThreadsCounted
<1>5. QED
  BY <1>3, <1>4

LEMMA ThreadsCountedByThread ==
    ASSUME IInv, ThreadsCounted, NEW p \in Pids, Thread(p)
    PROVE  ThreadsCounted'
<1>1. /\ pc \in [Pids -> Places] /\ trace \in Traces /\ nThreads \in Nat \ {0} /\ Root \in Pids
      /\ executed \subseteq Uids /\ \A u \in Uids : trace[u].pid \in Pids
  BY SchedulerAssumption, TypesOfRecords DEF IInv, Typed
<1>2. /\ UNCHANGED <<trace, reader>>
      /\ pc[p] \in Active \ {"ended"} /\ pc'[p] \in Active
      /\ \A q \in Pids \ {p} : pc'[q] = pc[q] \/ (pc[q] = "none" /\ pc'[q] = "pop")
  BY ThreadLeaves, ThreadMoves
<1>3. reader.at # "first"
  BY <1>2 DEF IInv, Started, Active
<1>4. CASE executed' = executed /\ nThreads' = nThreads /\ ~Execute(p)
  <2>1. \A q \in Pids \ {p} : pc'[q] = pc[q]
    BY <1>4, ThreadMoves
  <2>2. In(Active)' = In(Active) /\ Begun' = Begun
    BY <1>2, <1>4, <2>1 DEF In, Begun
  <2>3. \A u \in executed : trace[u].child # NoChild => trace[u].child \in Pids
    BY <1>1, TraceAssumption DEF Uids
  <2>4. \A q \in Pids : pc[q] # "none" => pc'[q] # "none"
    BY <1>2, <2>1 DEF Active
  <2>5. QED
    BY <1>1, <1>2, <1>3, <1>4, <2>2, <2>3, <2>4 DEF ThreadsCounted
<1>5. CASE Execute(p)
  <2> DEFINE c == trace[cur[p]].child
  <2>1. /\ pc[p] = "execute" /\ executed' = executed \cup {cur[p]}
        /\ c = NoChild => pc' = [pc EXCEPT ![p] = "store"] /\ nThreads' = nThreads
        /\ c # NoChild => /\ nThreads' = nThreads + 1
                          /\ pc' = [pc EXCEPT ![p] = "store", ![c] = "pop"]
    BY <1>5 DEF Execute, At, Goto
  <2>2. cur[p] \in Uids /\ trace[cur[p]].pid = p /\ cur[p] \notin executed
    BY <2>1, HandRecord DEF HandPlaces
  <2>3. \A u \in executed' : trace[u].child # NoChild => trace[u].child \in Pids
    BY <1>1, <2>1, <2>2, TraceAssumption DEF Uids
  <2>4. c # NoChild =>
            c \in Pids \ {p, Root} /\ pc[c] = "none" /\ \A u \in executed : trace[u].child # c
    BY <1>1, <2>1, <2>2, CloneStarts
  <2>5. \A q \in Pids : pc[q] # "none" => pc'[q] # "none"
    BY <1>2 DEF Active
  <2>6. c # NoChild => pc'[c] = "pop"
    BY <1>1, <2>1, <2>4
  <2>7. \A u \in executed' : trace[u].child # NoChild => pc'[trace[u].child] # "none"
    BY <2>1, <2>3, <2>5, <2>6 DEF ThreadsCounted
  <2>8. \A u \in executed' : pc'[trace[u].pid] # "none"
    BY <1>1, <1>2, <1>3, <2>1, <2>2, <2>5 DEF ThreadsCounted, Active
  <2>9. Begun \subseteq Pids /\ Begun \subseteq Begun' /\ Begun' \subseteq Pids /\ In(Active) \subseteq Pids
    BY <1>2, <2>1 DEF Begun, In
  <2> HIDE DEF c
  <2>10. CASE c = NoChild
    <3>1. nThreads' = nThreads /\ In(Active)' = In(Active)
      BY <1>1, <1>2, <2>1, <2>10 DEF In
    <3>2. Cardinality(Begun) <= Cardinality(Begun')
          /\ Cardinality(Begun) \in Nat /\ Cardinality(Begun') \in Nat
      BY <2>9, MorePids
    <3>3. QED
      BY <1>1, <1>2, <1>3, <2>7, <2>8, <3>1, <3>2 DEF ThreadsCounted
  <2>11. CASE c # NoChild
    <3>1. /\ nThreads' = nThreads + 1 /\ c \in Pids /\ pc[c] = "none" /\ c # Root
          /\ \A u \in executed : trace[u].child # c
      BY <2>1, <2>4, <2>11
    <3>2. In(Active)' = In(Active) \cup {c} /\ c \notin In(Active)
      <4>1. \A q \in Pids \ {p, c} : pc'[q] = pc[q]
        BY <1>1, <2>1, <2>11
      <4>2. QED
        BY <1>2, <2>6, <2>11, <3>1, <4>1 DEF In, Active, Places
    <3>3. Begun \cup {c} \subseteq Begun' /\ c \notin Begun
      BY <1>2, <2>1, <2>9, <3>1 DEF Begun, c
    <3>4. Cardinality(Begun) \in Nat /\ Cardinality(Begun \cup {c}) = Cardinality(Begun) + 1
      BY <2>9, <3>1, <3>3, OnePidMore
    <3>5. Cardinality(Begun \cup {c}) <= Cardinality(Begun') /\ Cardinality(Begun') \in Nat
      BY <2>9, <3>3, MorePids
    <3>6. Cardinality(In(Active)) \in Nat /\ Cardinality(In(Active)') = Cardinality(In(Active)) + 1
      BY <2>9, <3>1, <3>2, OnePidMore
    <3>7. QED
      BY <1>1, <1>2, <1>3, <2>7, <2>8, <3>1, <3>4, <3>5, <3>6 DEF ThreadsCounted
  <2>12. QED
    BY <2>10, <2>11
<1>6. QED
  BY <1>4, <1>5, ThreadLeaves

LEMMA ThreadsCountedStep ==
    ASSUME IInv, ThreadsCounted, [Next]_vars
    PROVE  ThreadsCounted'
<1>1. CASE Joined \/ UNCHANGED vars
  BY <1>1 DEF Joined, vars, sourceVars, loadVars, threadVars, sharedVars, ThreadsCounted, Begun, In
<1>2. QED
  BY <1>1, ThreadsCountedByReader, ThreadsCountedByThread DEF Next

(* Records, threads, counters and the reader are where they can be; at most *)
(* one thread is counted for each process of the trace.                    *)
THEOREM TypeCorrect == Spec => []TypeOK
<1>1. IInv /\ Shaped /\ ThreadsCounted => TypeOK
  <2> SUFFICES ASSUME IInv, Shaped, ThreadsCounted PROVE TypeOK
    OBVIOUS
  <2>1. Begun \subseteq Pids
    BY DEF Begun
  <2>2. Cardinality(Begun) <= Cardinality(Pids) /\ Cardinality(Begun) \in Nat /\ Cardinality(Pids) \in Nat
    BY <2>1, MorePids
  <2>3. nThreads \in 1 .. Cardinality(Pids)
    BY <2>2 DEF IInv, Typed, ThreadsCounted
  <2>4. QED
    BY <2>3 DEF IInv, Typed, Shaped, TypeOK, ReaderStates
<1>2. Init => IInv /\ Shaped /\ ThreadsCounted
  BY InitIsGood, ShapedInit, ThreadsCountedInit
<1>3. IInv /\ Shaped /\ ThreadsCounted /\ [Next]_vars => (IInv /\ Shaped /\ ThreadsCounted)'
  BY NextIsGood, ShapedStep, ThreadsCountedStep
<1>4. QED
  BY <1>1, <1>2, <1>3, PTL DEF Spec

-----------------------------------------------------------------------------
(***************************************************************************)
(* The files.                                                              *)
(***************************************************************************)
(* load_syscall_modules takes the first record of each file.               *)
LEMMA LoadedAreFirst ==
    ASSUME trace \in Traces
    PROVE  /\ Loaded \subseteq Uids
           /\ \A k \in Types : \E u \in Loaded : u \in OfType(k)
           /\ \A u \in Loaded, v \in Uids : trace[u].type = trace[v].type => u <= v
<1>1. Uids \subseteq Nat
  BY UidsAreNumbers
<1>2. ASSUME NEW k \in Types
      PROVE  /\ LowestOf(OfType(k)) \in OfType(k) /\ FirstOf(trace, k) = {LowestOf(OfType(k))}
             /\ \A v \in OfType(k) : LowestOf(OfType(k)) <= v
  <2>1. OfType(k) # {} /\ OfType(k) \subseteq Nat
    BY <1>1, TraceAssumption DEF OfType, Uids
  <2>2. FirstOf(trace, k) = {LowestOf(OfType(k))}
    BY DEF FirstOf, OfType, Uids
  <2>3. QED
    BY <2>1, <2>2, LowestIsIn
<1>3. ASSUME NEW u \in Loaded
      PROVE  u \in Uids /\ \A v \in Uids : trace[u].type = trace[v].type => u <= v
  <2>1. PICK k \in Types : u \in FirstOf(trace, k)
    BY DEF Loaded
  <2>2. u = LowestOf(OfType(k)) /\ u \in OfType(k) /\ \A v \in OfType(k) : u <= v
    BY <1>2, <2>1
  <2>3. QED
    BY <2>2 DEF OfType
<1>4. \A k \in Types : LowestOf(OfType(k)) \in Loaded
  <2>1. ASSUME NEW k \in Types PROVE LowestOf(OfType(k)) \in FirstOf(trace, k)
    BY <1>2
  <2>2. QED
    BY <2>1 DEF Loaded
<1>5. QED
  BY <1>2, <1>3, <1>4

LEMMA FilesOrderedInit == Init => FilesOrdered /\ FirstBatching
<1> SUFFICES ASSUME Init PROVE FilesOrdered /\ FirstBatching
  OBVIOUS
<1>1. /\ trace \in Traces /\ unread = Uids \ Loaded /\ finished = {} /\ nThreads = 1
      /\ \A u \in Uids : u \in Loaded \/ index[u] = trace[u].type
      /\ pending = [k \in Types |-> NoRecord]
      /\ reader = [at |-> "first", todo |-> Types, type |-> NoType,
                   size |-> FirstBatch, left |-> 0, pushed |-> NoRecord]
  BY DEF Init, Loaded
<1>2. Uids \subseteq Nat
  BY <1>1, UidsAreNumbers
<1>3. ASSUME NEW u \in unread, NEW v \in Uids \ unread, trace[u].type = trace[v].type
      PROVE  v < u
  <2>1. v <= u /\ v # u /\ u \in Nat /\ v \in Nat
    BY <1>1, <1>2, <1>3, LoadedAreFirst
  <2>2. QED
    BY <2>1
<1>4. QED
  BY <1>1, <1>3 DEF FilesOrdered, FirstBatching

(* A row is the lowest record left in its file.                            *)
LEMMA RowIsLowest ==
    ASSUME IInv, NEW k \in Types, NEW row, row = LowestOf(unread \cap OfType(k)),
           unread \cap OfType(k) # {}
    PROVE  /\ row \in unread /\ row \in OfType(k) /\ row \in Nat
           /\ \A v \in unread \cap OfType(k) : row <= v
<1>1. unread \cap OfType(k) \subseteq Nat
  BY UidsAreNumbers DEF IInv, Typed
<1>2. QED
  BY <1>1, LowestIsIn

LEMMA FilesOrderedByReading ==
    ASSUME IInv, Shaped, FilesOrdered, ReadRow
    PROVE  FilesOrdered'
<1> DEFINE k == reader.type
           row == LowestOf(unread \cap OfType(k))
<1>1. /\ trace \in Traces /\ pending \in [Types -> Uids \cup {NoRecord}] /\ reader \in ReaderStates
      /\ unread \subseteq Uids /\ Uids \subseteq Nat
  BY UidsAreNumbers DEF IInv, Typed
<1>2. /\ k # NoType /\ reader.pushed = NoRecord /\ reader.left > 1 /\ unread \cap OfType(k) # {}
      /\ unread' = unread \ {row} /\ UNCHANGED <<trace, index, finished>>
      /\ IF reader.left > 2
         THEN pending' = pending /\ reader' = [reader EXCEPT !.left = @ - 1, !.pushed = row]
         ELSE pending' = [pending EXCEPT ![k] = row] /\ reader' = [reader EXCEPT !.left = @ - 1]
  BY DEF ReadRow, sourceVars
<1>3. k \in Types /\ k \notin finished /\ Loaded' = Loaded /\ Uids' = Uids
      /\ \A j : OfType(j)' = OfType(j)
  BY <1>2 DEF FilesOrdered, Loaded, Uids, OfType
<1>4. /\ row \in unread /\ row \in OfType(k) /\ row \in Nat
      /\ \A v \in unread \cap OfType(k) : row <= v
  BY <1>2, <1>3, RowIsLowest
<1>5. pending[k] = NoRecord
  BY <1>2 DEF IInv, ModuleFree
<1> HIDE DEF k, row
<1>6. trace[row].type = k /\ row \in Uids /\ row \notin Loaded
  BY <1>1, <1>4 DEF OfType, FilesOrdered
<1>7. \A j \in Types : pending'[j] = pending[j] \/ (j = k /\ pending'[j] = row)
  BY <1>1, <1>2, <1>3
<1>8. ASSUME NEW u \in unread', NEW v \in Uids \ unread', trace[u].type = trace[v].type
      PROVE  v < u
  <2>1. u \in unread /\ u # row /\ u \in Nat
    BY <1>1, <1>2
  <2>2. CASE v = row
    <3>1. u \in OfType(k)
      BY <1>1, <1>6, <1>8, <2>1, <2>2 DEF OfType
    <3>2. row <= u
      BY <1>4, <2>1, <3>1
    <3>3. QED
      BY <1>4, <2>1, <2>2, <3>2
  <2>3. CASE v # row
    BY <1>2, <1>8, <2>1, <2>3 DEF FilesOrdered
  <2>4. QED
    BY <2>2, <2>3
<1>9. ASSUME NEW j \in Types, pending'[j] # NoRecord, NEW v \in OfType(j) \ unread'
      PROVE  pending'[j] \notin Loaded /\ v <= pending'[j]
  <2>1. CASE j = k
    <3>1. pending'[j] = row
      BY <1>5, <1>7, <1>9, <2>1
    <3>2. v = row \/ v < row
      BY <1>2, <1>4, <1>6, <2>1 DEF FilesOrdered, OfType
    <3>3. QED
      BY <1>4, <1>6, <3>1, <3>2
  <2>2. CASE j # k
    <3>1. v # row /\ pending'[j] = pending[j]
      BY <1>4, <1>7, <2>2 DEF OfType
    <3>2. QED
      BY <1>2, <1>9, <3>1 DEF FilesOrdered
  <2>3. QED
    BY <2>1, <2>2
<1>10. \A j \in Types : pending'[j] # NoRecord => pending'[j] \notin Loaded
  BY <1>6, <1>7 DEF FilesOrdered
<1>11. \A j \in finished : unread' \cap OfType(j) = {} /\ pending'[j] = NoRecord
  <2>1. ASSUME NEW j \in finished PROVE unread' \cap OfType(j) = {} /\ pending'[j] = NoRecord
    <3>1. unread \cap OfType(j) = {} /\ pending[j] = NoRecord /\ j # k
      BY <1>3 DEF FilesOrdered
    <3>2. j \in Types
      BY DEF Shaped
    <3>3. QED
      BY <1>2, <1>7, <3>1, <3>2
  <2>2. QED
    BY <2>1
<1>12. /\ reader'.type = k /\ reader'.todo = reader.todo /\ reader'.at = reader.at
       /\ reader'.pushed \in {NoRecord, row}
  BY <1>1, <1>2 DEF ReaderStates, k
<1>13. unread' \cap Loaded = {} /\ \A u \in Uids \ Loaded : index'[u] = trace[u].type
  BY <1>2 DEF FilesOrdered
<1>14. Batching' /\ k \notin reader.todo
  BY <1>2, <1>12 DEF FilesOrdered, Batching, k
<1>15. QED
  BY <1>2, <1>3, <1>6, <1>8, <1>9, <1>10, <1>11, <1>12, <1>13, <1>14 DEF FilesOrdered

LEMMA FilesOrderedStep ==
    ASSUME IInv, Shaped, FilesOrdered, [Next]_vars
    PROVE  FilesOrdered'
<1>1. reader \in ReaderStates /\ pending \in [Types -> Uids \cup {NoRecord}]
  BY DEF IInv, Typed
<1>2. CASE \E k \in Types : StartType(k)
  <2>1. PICK k \in Types : StartType(k)
    BY <1>2
  <2>2. /\ Batching /\ k \notin finished
        /\ reader' = [reader EXCEPT !.todo = @ \ {k}, !.type = k, !.left = reader.size,
                                    !.pushed = pending[k]]
        /\ pending' = [pending EXCEPT ![k] = NoRecord]
        /\ UNCHANGED <<trace, index, unread, finished>>
    BY <2>1 DEF StartType, sourceVars
  <2>3. Loaded' = Loaded /\ Uids' = Uids /\ \A j : OfType(j)' = OfType(j)
    BY <2>2 DEF Loaded, Uids, OfType
  <2>4. /\ reader'.type = k /\ reader'.pushed = pending[k] /\ reader'.at = reader.at
        /\ reader'.todo = reader.todo \ {k}
    BY <1>1, <2>2 DEF ReaderStates
  <2>5. k # NoType /\ (pending[k] # NoRecord => trace[pending[k]].type = k)
    BY SchedulerAssumption DEF IInv, Homes
  <2>6. \A j \in Types : pending'[j] = IF j = k THEN NoRecord ELSE pending[j]
    BY <1>1, <2>2
  <2>7. QED
    BY <2>2, <2>3, <2>4, <2>5, <2>6 DEF FilesOrdered, Batching
<1>3. CASE EndOfRecord
  <2>1. /\ reader.type # NoType /\ reader.pushed = NoRecord /\ reader.left > 1
        /\ unread \cap OfType(reader.type) = {}
        /\ finished' = finished \cup {reader.type}
        /\ reader' = [reader EXCEPT !.type = NoType]
        /\ UNCHANGED <<trace, index, unread, pending>>
    BY <1>3 DEF EndOfRecord, sourceVars
  <2>2. Loaded' = Loaded /\ Uids' = Uids /\ \A j : OfType(j)' = OfType(j)
    BY <2>1 DEF Loaded, Uids, OfType
  <2>3. pending[reader.type] = NoRecord
    BY <2>1 DEF IInv, ModuleFree
  <2>4. reader'.type = NoType /\ reader'.pushed = NoRecord
    BY <1>1, <2>1 DEF ReaderStates
  <2>5. QED
    BY <2>1, <2>2, <2>3, <2>4 DEF FilesOrdered
<1>4. ASSUME /\ UNCHANGED <<trace, index, unread, pending, finished>>
             /\ \/ reader' = reader
                \/ reader'.type = reader.type /\ reader'.todo \subseteq reader.todo
                   /\ reader'.pushed \in {reader.pushed, NoRecord} /\ (Batching => Batching')
                \/ reader'.type = NoType /\ reader'.pushed = NoRecord
      PROVE  FilesOrdered'
  <2>1. Loaded' = Loaded /\ Uids' = Uids /\ \A j : OfType(j)' = OfType(j)
    BY <1>4 DEF Loaded, Uids, OfType
  <2>2. Batching' => Batching \/ reader' # reader
    BY DEF Batching
  <2>3. QED
    BY <1>4, <2>1, <2>2 DEF FilesOrdered, Batching
<1>5. CASE \E k \in Types : SkipType(k)
  <2>1. reader'.type = reader.type /\ reader'.todo \subseteq reader.todo /\ reader'.pushed = reader.pushed
        /\ reader'.at = reader.at /\ UNCHANGED <<trace, index, unread, pending, finished>>
    BY <1>1, <1>5 DEF SkipType, ReaderStates, sourceVars, loadVars
  <2>2. QED
    BY <1>4, <2>1 DEF Batching
<1>6. CASE CountPushed \/ BatchFull
  <2>1. /\ reader'.at = reader.at /\ reader'.todo = reader.todo /\ reader'.pushed = NoRecord
        /\ reader'.type = reader.type \/ reader'.type = NoType
        /\ UNCHANGED <<trace, index, unread, pending, finished>>
    BY <1>1, <1>6 DEF CountPushed, BatchFull, ReaderStates, sourceVars, loadVars
  <2>2. QED
    BY <1>4, <2>1 DEF Batching
<1>7. CASE EndBatch \/ ReaderEnds \/ ReaderDrains \/ ReaderBatches
  <2>1. /\ reader'.type = NoType /\ reader'.pushed = NoRecord
        /\ UNCHANGED <<trace, index, unread, pending, finished>>
    <3>1. reader.type = NoType
      BY <1>7 DEF EndBatch, ReaderEnds, ReaderDrains, ReaderBatches, FilesOrdered, Batching
    <3>2. reader.pushed = NoRecord
      BY <3>1 DEF FilesOrdered
    <3>3. CASE ReaderBatches
      <4> DEFINE size == Batch * nThreads
      <4>1. reader' = [reader EXCEPT !.at = "batch", !.todo = Types, !.size = size]
            /\ UNCHANGED <<trace, index, unread, pending, finished>>
        BY <3>3 DEF ReaderBatches, sourceVars, loadVars
      <4> HIDE DEF size
      <4>2. QED
        BY <1>1, <3>1, <3>2, <4>1 DEF ReaderStates
    <3>4. CASE EndBatch \/ ReaderEnds \/ ReaderDrains
      BY <1>1, <3>1, <3>2, <3>4 DEF EndBatch, ReaderEnds, ReaderDrains, ReaderStates, sourceVars, loadVars
    <3>5. QED
      BY <1>7, <3>3, <3>4
  <2>2. QED
    BY <1>4, <2>1
<1>8. CASE DeleteNext
  <2>1. reader.at = "drain"
    BY <1>8 DEF DeleteNext
  <2>2. reader.type = NoType /\ reader.pushed = NoRecord
    BY <2>1 DEF FilesOrdered, Batching
  <2>3. /\ reader'.type = NoType /\ reader'.pushed = NoRecord
        /\ UNCHANGED <<trace, index, unread, pending, finished>>
    BY <1>1, <1>8, <2>2 DEF DeleteNext, ReaderStates, sourceVars, loadVars
  <2>4. QED
    BY <1>4, <2>3
<1>9. CASE \E p \in Pids : Thread(p)
  BY <1>4, <1>9, ThreadLeaves
<1>10. CASE Joined \/ UNCHANGED vars
  BY <1>4, <1>10 DEF Joined, vars, sourceVars, loadVars
<1>11. QED
  BY <1>2, <1>3, <1>5, <1>6, <1>7, <1>8, <1>9, <1>10, FilesOrderedByReading DEF Next, Reader

LEMMA FirstBatchingStep ==
    ASSUME IInv, FirstBatching, [Next]_vars
    PROVE  FirstBatching'
<1>1. reader \in ReaderStates /\ FirstBatch \in Nat \ {0}
  BY SchedulerAssumption DEF IInv, Typed
<1>2. CASE Reader
  <2>1. nThreads' = nThreads
    BY <1>2, ReaderLeaves
  <2>2. reader'.at = "first" => reader.at = "first"
    BY <1>1, <1>2 DEF Reader, SkipType, StartType, CountPushed, ReadRow, EndOfRecord, BatchFull, EndBatch,
       ReaderEnds, ReaderDrains, DeleteNext, ReaderBatches, ReaderStates
  <2>3. CASE reader'.at = "first"
    <3>1. /\ reader.size = FirstBatch /\ nThreads = 1
          /\ reader.type # NoType => reader.left \in 1 .. FirstBatch
      BY <2>2, <2>3 DEF FirstBatching
    <3>2. /\ reader'.size = reader.size
          /\ \/ reader'.left = reader.left /\ reader'.type \in {reader.type, NoType}
             \/ reader'.left = reader.size
             \/ reader'.left = reader.left - 1 /\ reader.left > 1 /\ reader.type # NoType
      BY <1>1, <1>2, <2>2, <2>3 DEF Reader, SkipType, StartType, CountPushed, ReadRow, EndOfRecord,
         BatchFull, EndBatch, ReaderEnds, ReaderDrains, DeleteNext, ReaderBatches, ReaderStates
    <3>3. QED
      BY <1>1, <2>1, <3>1, <3>2 DEF FirstBatching, ReaderStates
  <2>4. QED
    BY <2>3 DEF FirstBatching
<1>3. ASSUME NEW p \in Pids, Thread(p) PROVE FirstBatching'
  <2>1. reader' = reader /\ pc[p] # "none"
    BY <1>3, ThreadLeaves, ThreadMoves DEF Active
  <2>2. QED
    BY <2>1 DEF IInv, Started, FirstBatching
<1>4. CASE Joined \/ UNCHANGED vars
  BY <1>4 DEF Joined, vars, sharedVars, FirstBatching
<1>5. QED
  BY <1>2, <1>3, <1>4 DEF Next

-----------------------------------------------------------------------------
(***************************************************************************)
(* The counters.                                                           *)
(***************************************************************************)
LEMMA CountedChanges ==
    ASSUME number \in [Types -> Int], NEW u, NEW d \in Int, Counted(u, d)
    PROVE  \A k \in Types : number'[k] = IF k = index[u] /\ k \notin finished THEN number[k] + d
                                         ELSE number[k]
BY DEF Counted

LEMMA CoveredInit ==
    ASSUME RoomySizes, Init
    PROVE  Covered
<1>1. /\ number = [k \in Types |-> IF index[0] = k THEN 0 ELSE 1]
      /\ reader = [at |-> "first", todo |-> Types, type |-> NoType,
                   size |-> FirstBatch, left |-> 0, pushed |-> NoRecord]
  BY DEF Init
<1>2. QED
  BY <1>1 DEF Covered, Begins

(* While the first batch is read no counter goes down, and each that is    *)
(* passed has grown.                                                       *)
LEMMA CoveredByFirstBatch ==
    ASSUME RoomySizes, IInv, Shaped, FilesOrdered, FirstBatching, Covered, Reader,
           reader.at = "first", reader'.at = "first"
    PROVE  Covered'
<1>1. /\ reader \in ReaderStates /\ number \in [Types -> Int] /\ FirstBatch \in Nat /\ FirstBatch >= 3
      /\ reader.size = FirstBatch /\ NoType \notin Types
  BY SchedulerAssumption DEF IInv, Typed, Shaped, FirstBatching, RoomySizes
<1>2. \A j \in Types \ finished :
          /\ number[j] >= 0
          /\ Begins(j) /\ Middle(j) /\ ~(reader.type = j /\ reader.pushed # NoRecord)
                => number[j] >= 1
  BY DEF Covered
<1>3. SUFFICES ASSUME NEW j \in Types \ finished'
               PROVE  /\ number'[j] >= 0
                      /\ Begins(j)' /\ Middle(j)' /\ ~(reader.type = j /\ reader.pushed # NoRecord)'
                            => number'[j] >= 1
  BY DEF Covered
<1>4. CASE \E k \in Types : SkipType(k)
  <2>1. PICK k \in Types : SkipType(k)
    BY <1>4
  <2>2. /\ number' = number /\ finished' = finished /\ reader.type = NoType
        /\ reader' = [reader EXCEPT !.todo = @ \ {k}] /\ (k \in finished \/ number[k] > 2 * FirstBatch)
    BY <1>1, <2>1 DEF SkipType, sharedVars, loadVars
  <2>3. reader'.type = NoType /\ reader'.todo = reader.todo \ {k}
    BY <1>1, <2>2 DEF ReaderStates
  <2>4. QED
    BY <1>1, <1>2, <2>2, <2>3 DEF Begins, Middle
<1>5. CASE \E k \in Types : StartType(k)
  <2>1. PICK k \in Types : StartType(k)
    BY <1>5
  <2>2. /\ number' = number /\ finished' = finished /\ reader.type = NoType
        /\ reader' = [reader EXCEPT !.todo = @ \ {k}, !.type = k, !.left = reader.size,
                                    !.pushed = pending[k]]
    BY <2>1 DEF StartType
  <2>3. reader'.type = k /\ reader'.todo = reader.todo \ {k} /\ reader'.left = FirstBatch
    BY <1>1, <2>2 DEF ReaderStates
  <2>4. QED
    BY <1>1, <1>2, <2>2, <2>3 DEF Begins, Middle
<1>6. CASE CountPushed
  <2> DEFINE u == reader.pushed
  <2>1. /\ u # NoRecord /\ Counted(u, 1) /\ finished' = finished
        /\ reader' = [reader EXCEPT !.pushed = NoRecord]
    BY <1>6 DEF CountPushed, loadVars
  <2>2. u \in Uids \ Loaded /\ index[u] = reader.type
    BY <1>1, <2>1 DEF FilesOrdered, ReaderStates
  <2>3. /\ reader'.type = reader.type /\ reader'.todo = reader.todo /\ reader'.left = reader.left
    BY <1>1, <2>1 DEF ReaderStates
  <2>4. number'[j] = IF j = reader.type THEN number[j] + 1 ELSE number[j]
    BY <1>1, <2>1, <2>2, CountedChanges
  <2>5. number[j] \in Int /\ number[j] >= 0
    BY <1>1, <1>2, <2>1
  <2>6. QED
    BY <1>2, <2>1, <2>3, <2>4, <2>5 DEF Begins, Middle
<1>7. CASE ReadRow
  <2> DEFINE row == LowestOf(unread \cap OfType(reader.type))
  <2>1. /\ number' = number /\ finished' = finished /\ reader.left > 1 /\ reader.pushed = NoRecord
        /\ reader.type # NoType
        /\ reader' = IF reader.left > 2 THEN [reader EXCEPT !.left = @ - 1, !.pushed = row]
                     ELSE [reader EXCEPT !.left = @ - 1]
        /\ unread \cap OfType(reader.type) # {}
    BY <1>7 DEF ReadRow, loadVars, sharedVars
  <2>2. row # NoRecord
    BY <1>1, <2>1, RowIsLowest DEF NoRecord, ReaderStates
  <2> HIDE DEF row
  <2>3. /\ reader'.type = reader.type /\ reader'.todo = reader.todo
        /\ reader.left = 2 \/ reader'.pushed # NoRecord
    BY <1>1, <2>1, <2>2 DEF ReaderStates
  <2>4. QED
    BY <1>1, <1>2, <2>1, <2>3 DEF Begins, Middle
<1>8. CASE EndOfRecord
  <2>1. /\ number' = number /\ finished' = finished \cup {reader.type} /\ reader.type # NoType
        /\ reader' = [reader EXCEPT !.type = NoType]
    BY <1>8 DEF EndOfRecord, sharedVars
  <2>2. reader'.type = NoType /\ reader'.todo = reader.todo
    BY <1>1, <2>1 DEF ReaderStates
  <2>3. QED
    BY <1>1, <1>2, <2>1, <2>2 DEF Begins, Middle
<1>9. CASE BatchFull
  <2>1. /\ number' = number /\ finished' = finished /\ reader.left = 1 /\ reader.pushed = NoRecord
        /\ reader' = [reader EXCEPT !.type = NoType]
    BY <1>9 DEF BatchFull, sharedVars, loadVars
  <2>2. reader'.type = NoType /\ reader'.todo = reader.todo
    BY <1>1, <2>1 DEF ReaderStates
  <2>3. QED
    BY <1>1, <1>2, <2>1, <2>2 DEF Begins, Middle
<1>10. QED
  BY <1>1, <1>4, <1>5, <1>6, <1>7, <1>8, <1>9 DEF Reader, EndBatch, ReaderEnds, ReaderDrains,
     DeleteNext, ReaderBatches, ReaderStates

LEMMA CoveredByReader ==
    ASSUME RoomySizes, IInv, Shaped, FilesOrdered, FirstBatching, Covered, Reader
    PROVE  Covered'
<1>1. /\ reader \in ReaderStates /\ number \in [Types -> Int] /\ pc \in [Pids -> Places]
      /\ Root \in Pids /\ NoType \notin Types
  BY SchedulerAssumption DEF IInv, Typed, Shaped
<1>2. reader'.at = "first" => reader.at = "first"
  BY <1>1 DEF Reader, SkipType, StartType, CountPushed, ReadRow, EndOfRecord, BatchFull, EndBatch,
     ReaderEnds, ReaderDrains, DeleteNext, ReaderBatches, ReaderStates
<1>3. CASE reader.at = "first" /\ reader'.at # "first"
  <2>1. EndBatch
    BY <1>1, <1>3 DEF Reader, SkipType, StartType, CountPushed, ReadRow, EndOfRecord, BatchFull, EndBatch,
       ReaderEnds, ReaderDrains, DeleteNext, ReaderBatches, ReaderStates
  <2>2. /\ reader.todo = {} /\ reader.type = NoType /\ pc' = [pc EXCEPT ![Root] = "pop"]
        /\ UNCHANGED <<number, finished>>
    BY <1>3, <2>1 DEF EndBatch, loadVars, sharedVars
  <2>3. \A p \in Pids : pc[p] = "none"
    BY <1>3 DEF IInv, Started
  <2>4. In(Owing)' = {Root} /\ In(Making)' = {}
    BY <1>1, <2>2, <2>3 DEF In, Owing, Making
  <2>5. Debt' = 1
    <3>1. Cardinality({Root}) = 1 /\ Cardinality({}) = 0
      BY FS_EmptySet, FS_Singleton
    <3>2. QED
      BY <2>4, <3>1 DEF Debt
  <2>6. \A k \in Types \ finished : number[k] >= 1
    BY <1>1, <1>3, <2>2 DEF Covered, Begins, Middle
  <2>7. QED
    BY <1>3, <2>2, <2>5, <2>6 DEF Covered
<1>4. CASE reader.at # "first"
  <2>1. pc' = pc /\ Debt' = Debt
    BY <1>4, ReaderLeaves DEF Debt, In
  <2>2. finished \subseteq finished' /\ (number' = number \/ CountPushed)
    BY DEF Reader, SkipType, StartType, CountPushed, ReadRow, EndOfRecord, BatchFull, EndBatch,
       ReaderEnds, ReaderDrains, DeleteNext, ReaderBatches, loadVars, sharedVars
  <2>3. \A k \in Types : number[k] \in Int /\ number'[k] >= number[k]
    BY <1>1, <2>2, CountedChanges DEF CountPushed
  <2>4. Debt \in Nat
    BY SomePids DEF Debt, In
  <2>5. \A k \in Types : number'[k] \in Int
    BY <1>1, <2>2, CountedIsInt DEF CountPushed
  <2>6. QED
    BY <1>2, <1>4, <2>1, <2>2, <2>3, <2>4, <2>5 DEF Covered
<1>5. QED
  BY <1>2, <1>3, <1>4, CoveredByFirstBatch

(* A thread that does not pass the gate owes no more than before.          *)
LEMMA DebtFalls ==
    ASSUME IInv, NEW p \in Pids, Thread(p), ~Gate(p)
    PROVE  Debt \in Nat /\ Debt' \in Nat /\ Debt' <= Debt /\ (CountPopped(p) => Debt' <= Debt - 1)
<1>1. pc \in [Pids -> Places]
  BY DEF IInv, Typed
<1>2. \A places : In(places) \subseteq Pids /\ In(places)' \subseteq Pids
  BY DEF In
<1>3. /\ pc[p] \in Active \ {"ended"} /\ pc'[p] \in Active
      /\ \A q \in Pids \ {p} :
            pc'[q] = pc[q] \/ (pc[q] = "none" /\ pc'[q] = "pop" /\ trace[cur[p]].child = q)
      /\ Execute(p) \/ \A q \in Pids \ {p} : pc'[q] = pc[q]
  BY ThreadMoves
<1>4. ASSUME \A q \in Pids : pc'[q] \in Owing => pc[q] \in Owing,
             \A q \in Pids : pc'[q] \in Making => pc[q] \in Making
      PROVE  Debt \in Nat /\ Debt' \in Nat /\ Debt' <= Debt
  <2>1. In(Owing)' \subseteq In(Owing) /\ In(Making)' \subseteq In(Making)
    BY <1>4 DEF In
  <2>2. /\ Cardinality(In(Owing)') <= Cardinality(In(Owing))
        /\ Cardinality(In(Owing)) \in Nat /\ Cardinality(In(Owing)') \in Nat
    BY <1>2, <2>1, MorePids
  <2>3. /\ Cardinality(In(Making)') <= Cardinality(In(Making))
        /\ Cardinality(In(Making)) \in Nat /\ Cardinality(In(Making)') \in Nat
    BY <1>2, <2>1, MorePids
  <2>4. QED
    BY <2>2, <2>3 DEF Debt
<1>5. CASE CountPopped(p)
  <2>1. pc[p] = "count" /\ pc'[p] = "gate" /\ \A q \in Pids \ {p} : pc'[q] = pc[q]
    BY <1>1, <1>5 DEF CountPopped, At, Goto
  <2>2. /\ p \in In(Owing) /\ In(Owing)' = In(Owing) \ {p} /\ p \notin In(Owing)'
        /\ In(Making)' = In(Making)
    BY <2>1 DEF In, Owing, Making
  <2>3. In(Owing) = In(Owing)' \cup {p}
    BY <2>2
  <2>4. Cardinality(In(Owing)') \in Nat /\ Cardinality(In(Owing)) = Cardinality(In(Owing)') + 1
    BY <1>2, <2>2, <2>3, OnePidMore
  <2>5. Cardinality(In(Making)) \in Nat
    BY <1>2, SomePids
  <2>6. QED
    BY <2>2, <2>4, <2>5 DEF Debt
<1>6. CASE Execute(p)
  <2> DEFINE c == trace[cur[p]].child
  <2>1. pc[p] = "execute" /\ pc' = IF c = NoChild THEN [pc EXCEPT ![p] = "store"]
                                   ELSE [pc EXCEPT ![p] = "store", ![c] = "pop"]
    BY <1>6 DEF Execute, At, Goto
  <2>2. c # NoChild => c \in Pids \ {p} /\ pc[c] = "none"
    BY <2>1, CloneStarts
  <2>3. ~CountPopped(p)
    BY <2>1 DEF CountPopped, At
  <2> HIDE DEF c
  <2>4. CASE c = NoChild
    <3>1. \A q \in Pids : pc'[q] = IF q = p THEN "store" ELSE pc[q]
      BY <1>1, <2>1, <2>4
    <3>2. QED
      BY <1>4, <2>1, <2>3, <3>1 DEF Owing, Making
  <2>5. CASE c # NoChild
    <3>1. \A q \in Pids : pc'[q] = IF q = p THEN "store" ELSE IF q = c THEN "pop" ELSE pc[q]
      BY <1>1, <2>1, <2>2, <2>5
    <3>2. In(Owing)' = In(Owing) \cup {c} /\ c \notin In(Owing)
      BY <2>1, <2>2, <2>5, <3>1 DEF In, Owing
    <3>3. p \in In(Making) /\ p \notin In(Making)' /\ In(Making) = In(Making)' \cup {p}
      <4>1. pc[p] = "execute" /\ pc'[p] = "store"
        BY <2>1, <3>1
      <4>2. \A q \in Pids \ {p} : pc'[q] \in Making <=> pc[q] \in Making
        BY <2>2, <2>5, <3>1 DEF Making
      <4>3. pc[p] \in Making /\ pc'[p] \notin Making
        BY <4>1 DEF Making
      <4>4. QED
        BY <4>2, <4>3 DEF In
    <3>4. Cardinality(In(Owing)) \in Nat /\ Cardinality(In(Owing)') = Cardinality(In(Owing)) + 1
      BY <1>2, <2>2, <2>5, <3>2, OnePidMore
    <3>5. Cardinality(In(Making)') \in Nat /\ Cardinality(In(Making)) = Cardinality(In(Making)') + 1
      BY <1>2, <3>3, OnePidMore
    <3>6. QED
      BY <2>3, <3>4, <3>5 DEF Debt
  <2>6. QED
    BY <2>4, <2>5
<1>7. CASE ~CountPopped(p) /\ ~Execute(p)
  <2>1. \A q \in Pids \ {p} : pc'[q] = pc[q]
    BY <1>3, <1>7
  <2>2. (pc'[p] \in Owing => pc[p] \in Owing) /\ (pc'[p] \in Making => pc[p] \in Making)
    <3>1. CASE Pop(p) \/ ThreadEnds(p) \/ CheckPasses(p) \/ Reject(p) \/ PutBack(p) \/ StoreLast(p)
      BY <1>1, <3>1 DEF Pop, ThreadEnds, CheckPasses, Reject, PutBack, StoreLast, At, Goto, Owing, Making
    <3>2. CASE QueuePrevious(p)
      BY <1>1, <3>2 DEF QueuePrevious, At, Goto, Owing, Making
    <3>3. CASE ReadRunning(p)
      <4>1. pc[p] = "check" /\ (pc' = pc \/ Goto(p, "reject") \/ Goto(p, "compare"))
        BY <3>3 DEF ReadRunning, At
      <4>2. QED
        BY <1>1, <4>1 DEF Goto, Owing, Making
    <3>4. CASE Compare(p)
      BY <1>1, <3>4 DEF Compare, At, Goto, Owing, Making
    <3>5. QED
      BY <1>7, <3>1, <3>2, <3>3, <3>4 DEF Thread
  <2>3. QED
    BY <1>4, <1>7, <2>1, <2>2
<1>8. QED
  BY <1>5, <1>6, <1>7

(* Through the open gate each counter is at least twice the active threads. *)
LEMMA GateCovers ==
    ASSUME RoomySizes, IInv, Shaped, ThreadsCounted, NEW p \in Pids, Gate(p), NEW k \in Types \ finished
    PROVE  number[k] >= Debt'
<1>1. /\ pc \in [Pids -> Places] /\ number \in [Types -> Int] /\ nThreads \in Nat /\ Low \in Nat /\ Low >= 2
      /\ Cardinality(In(Active)) <= nThreads
  BY SchedulerAssumption DEF IInv, Typed, Shaped, RoomySizes, ThreadsCounted
<1>2. ~(number[k] < Low * nThreads)
  BY DEF Gate, MinBelow, checkModulesFinished
<1>3. Low * nThreads >= 2 * nThreads /\ Low * nThreads \in Nat
  <2>1. \A a, b, c \in Nat : a >= b => a * c >= b * c /\ a * c \in Nat
    OBVIOUS
  <2>2. QED
    BY <1>1, <2>1
<1>4. number[k] >= 2 * nThreads
  BY <1>1, <1>2, <1>3
<1>5. /\ pc[p] = "gate" /\ pc'[p] = "queue" /\ \A q \in Pids \ {p} : pc'[q] = pc[q]
  BY <1>1 DEF Gate, At, Goto
<1>6. In(Owing)' \subseteq In(Active) /\ In(Making)' \subseteq In(Active) /\ In(Active) \subseteq Pids
  BY <1>1, <1>5 DEF In, Owing, Making, Active, Places
<1>7. /\ Cardinality(In(Owing)') \in Nat /\ Cardinality(In(Active)) \in Nat
      /\ Cardinality(In(Owing)') <= Cardinality(In(Active))
  BY <1>6, MorePids
<1>8. /\ Cardinality(In(Making)') \in Nat /\ Cardinality(In(Making)') <= Cardinality(In(Active))
  BY <1>6, MorePids
<1>9. QED
  BY <1>1, <1>4, <1>7, <1>8 DEF Debt

LEMMA CoveredByThread ==
    ASSUME RoomySizes, IInv, Shaped, ThreadsCounted, Covered, NEW p \in Pids, Thread(p)
    PROVE  Covered'
<1>1. /\ number \in [Types -> Int] /\ UNCHANGED <<finished, reader>> /\ pc[p] # "none"
  BY ThreadLeaves, ThreadMoves DEF Shaped, Active
<1>2. reader.at # "first"
  BY <1>1 DEF IInv, Started
<1>3. SUFFICES ASSUME NEW k \in Types \ finished PROVE number'[k] >= Debt'
  BY <1>1, <1>2 DEF Covered
<1>4. number[k] \in Int /\ number[k] >= Debt
  BY <1>1, <1>2 DEF Covered
<1>5. CASE Gate(p)
  BY <1>5, GateCovers DEF Gate
<1>6. CASE ~Gate(p)
  <2>1. Debt \in Nat /\ Debt' \in Nat /\ Debt' <= Debt /\ (CountPopped(p) => Debt' <= Debt - 1)
    BY <1>6, DebtFalls
  <2>2. CASE CountPopped(p)
    <3>1. number'[k] = number[k] \/ number'[k] = number[k] + (-1)
      BY <1>1, <2>2, CountedChanges DEF CountPopped
    <3>2. QED
      BY <1>4, <2>1, <2>2, <3>1
  <2>3. CASE PutBack(p)
    <3>1. number'[k] = number[k] \/ number'[k] = number[k] + 1
      BY <1>1, <2>3, CountedChanges DEF PutBack
    <3>2. QED
      BY <1>4, <2>1, <3>1
  <2>4. CASE ~CountPopped(p) /\ ~PutBack(p)
    <3>1. number' = number
      BY <1>6, <2>4 DEF Thread, Pop, ThreadEnds, Gate, QueuePrevious, ReadRunning, Compare,
         CheckPasses, Reject, Execute, StoreLast, sharedVars
    <3>2. QED
      BY <1>4, <2>1, <3>1
  <2>5. QED
    BY <2>2, <2>3, <2>4
<1>7. QED
  BY <1>5, <1>6

-----------------------------------------------------------------------------
Bookkeeping == IInv /\ Shaped /\ ThreadsCounted /\ FilesOrdered /\ FirstBatching

LEMMA CoveredStep ==
    ASSUME RoomySizes, Bookkeeping, Covered, [Next]_vars
    PROVE  Covered'
<1>1. CASE Joined \/ UNCHANGED vars
  BY <1>1 DEF Joined, vars, loadVars, threadVars, sharedVars, Covered, Debt, In, Begins, Middle
<1>2. QED
  BY <1>1, CoveredByReader, CoveredByThread DEF Next, Bookkeeping

(* With a gate of two records or more for each thread, no counter of an     *)
(* unread file goes below zero: each thread that passed the gate takes one  *)
(* more record, and so does the one it may have made, whatever the others   *)
(* do in the meantime.                                                     *)
THEOREM CountersNeverWrap ==
    ASSUME RoomySizes
    PROVE  Spec => []NeverWraps
<1>1. Init => Bookkeeping /\ Covered
  BY CoveredInit, InitIsGood, ShapedInit, ThreadsCountedInit, FilesOrderedInit DEF Bookkeeping
<1>2. Bookkeeping /\ Covered /\ [Next]_vars => (Bookkeeping /\ Covered)'
  BY CoveredStep, NextIsGood, ShapedStep, ThreadsCountedStep, FilesOrderedStep, FirstBatchingStep
     DEF Bookkeeping
<1>3. Bookkeeping /\ Covered => NeverWraps
  <2>1. ASSUME Bookkeeping, Covered PROVE NeverWraps
    <3>1. Debt \in Nat /\ number \in [Types -> Int]
      BY <2>1, SomePids DEF Debt, In, Bookkeeping, Shaped
    <3>2. QED
      BY <2>1, <3>1 DEF Covered, NeverWraps
  <2>2. QED
    BY <2>1
<1>4. QED
  BY <1>1, <1>2, <1>3, PTL DEF Spec

-----------------------------------------------------------------------------
(***************************************************************************)
(* Short files: the reader is through before a thread starts.              *)
(***************************************************************************)
LEMMA RowsLeftIsNat ==
    ASSUME IInv, NEW k
    PROVE  RowsLeft(k) \in Nat
<1>1. unread \cap OfType(k) \subseteq Uids /\ IsFiniteSet(Uids)
  BY TraceAssumption DEF OfType, Uids, IInv, Typed
<1>2. QED
  BY <1>1, FS_Subset, FS_CardinalityType DEF RowsLeft

LEMMA AllLoadedInit ==
    ASSUME Init, ShortFiles
    PROVE  AllLoaded
<1>1. /\ trace \in Traces /\ deleted = {} /\ pending = [k \in Types |-> NoRecord] /\ finished = {}
      /\ unread = Uids \ Loaded
      /\ number = [k \in Types |-> IF index[0] = k THEN 0 ELSE 1]
      /\ running = [p \in {Root} |-> 0]
      /\ reader = [at |-> "first", todo |-> Types, type |-> NoType,
                   size |-> FirstBatch, left |-> 0, pushed |-> NoRecord]
  BY DEF Init, Loaded
<1>2. ASSUME NEW k \in Types PROVE FirstBatch >= RowsLeft(k) + 2
  <2>1. PICK u \in Loaded : u \in OfType(k)
    BY <1>1, LoadedAreFirst
  <2>2. /\ unread \cap OfType(k) \subseteq OfType(k) \ {u}
        /\ OfType(k) \subseteq Uids /\ IsFiniteSet(Uids)
    BY <1>1, <2>1, TraceAssumption DEF OfType, Uids
  <2>3. IsFiniteSet(OfType(k)) /\ Cardinality(OfType(k)) \in Nat
    BY <2>2, FS_Subset, FS_CardinalityType
  <2>4. IsFiniteSet(OfType(k) \ {u}) /\ Cardinality(OfType(k) \ {u}) = Cardinality(OfType(k)) - 1
    BY <2>1, <2>3, FS_RemoveElement
  <2>5. RowsLeft(k) <= Cardinality(OfType(k)) - 1 /\ RowsLeft(k) \in Nat
    BY <2>2, <2>4, FS_Subset, FS_CardinalityType DEF RowsLeft
  <2>6. Cardinality(OfType(k)) < FirstBatch /\ FirstBatch \in Nat
    BY SchedulerAssumption DEF ShortFiles
  <2>7. QED
    BY <2>3, <2>5, <2>6
<1>3. QED
  BY <1>1, <1>2 DEF AllLoaded

\* After the first batch nothing is left for the reader but to end.
LEMMA ReaderOnlyEnds ==
    ASSUME Bookkeeping, AllLoaded, Reader, reader.at # "first"
    PROVE  ReaderEnds
BY DEF Bookkeeping, AllLoaded, FilesOrdered, Reader, SkipType, StartType, CountPushed, ReadRow,
   EndOfRecord, BatchFull, EndBatch, ReaderDrains, DeleteNext, ReaderBatches, Batching,
   checkModulesFinished

LEMMA AllLoadedByFirstBatch ==
    ASSUME Bookkeeping, AllLoaded, Reader, reader.at = "first"
    PROVE  AllLoaded'
<1>1. /\ trace \in Traces /\ reader \in ReaderStates /\ number \in [Types -> Int]
      /\ pending \in [Types -> Uids \cup {NoRecord}] /\ unread \subseteq Uids
      /\ FirstBatch \in Nat /\ FirstBatch > 1 /\ NoType \notin Types /\ reader.size = FirstBatch
  BY SchedulerAssumption DEF Bookkeeping, IInv, Typed, Shaped, FirstBatching
<1>2. /\ deleted = {} /\ \A k \in Types : pending[k] = NoRecord
      /\ Root \in DOMAIN running
      /\ \A k \in reader.todo \ finished : FirstBatch >= RowsLeft(k) + 2 /\ number[k] <= 1
      /\ reader.type # NoType => reader.left >= RowsLeft(reader.type) + 2
      /\ \A k \in Types : k \in reader.todo \/ k = reader.type \/ k \in finished
  BY DEF AllLoaded
<1>3. UNCHANGED <<trace, running>> /\ \A k : OfType(k)' = OfType(k)
  BY ReaderLeaves DEF OfType, Uids
<1>4. \A k : RowsLeft(k) \in Nat
  BY RowsLeftIsNat DEF Bookkeeping
<1>5. reader.type # NoType => reader.type \in Types \ finished /\ reader.type \notin reader.todo
  BY DEF Bookkeeping, FilesOrdered
<1>6. SUFFICES ASSUME reader'.at = "first"
               PROVE  /\ deleted' = {} /\ \A k \in Types : pending'[k] = NoRecord
                      /\ \A k \in reader'.todo \ finished' :
                            FirstBatch >= RowsLeft(k)' + 2 /\ number'[k] <= 1
                      /\ reader'.type # NoType => reader'.left >= RowsLeft(reader.type)' + 2
                      /\ \A k \in Types : k \in reader'.todo \/ k = reader'.type \/ k \in finished'
  <2>1. ASSUME reader'.at # "first" PROVE AllLoaded'
    <3>1. EndBatch
      BY <1>1, <2>1 DEF Reader, SkipType, StartType, CountPushed, ReadRow, EndOfRecord, BatchFull,
         EndBatch, ReaderEnds, ReaderDrains, DeleteNext, ReaderBatches, ReaderStates
    <3>2. /\ reader.todo = {} /\ reader.type = NoType /\ reader' = [reader EXCEPT !.at = "loop"]
          /\ UNCHANGED <<unread, pending, finished, deleted>>
      BY <3>1 DEF EndBatch, loadVars, sharedVars
    <3>3. finished = Types
      BY <1>1, <1>2, <3>2 DEF Bookkeeping, Shaped
    <3>4. \A u \in unread : u \in OfType(trace[u].type) /\ trace[u].type \in Types
      BY <1>1, TypesOfRecords DEF OfType
    <3>5. unread = {}
      BY <3>3, <3>4 DEF Bookkeeping, FilesOrdered
    <3>6. reader'.at = "loop" /\ reader'.type = NoType
      BY <1>1, <3>2 DEF ReaderStates
    <3>7. QED
      BY <1>2, <3>2, <3>3, <3>5, <3>6 DEF AllLoaded
  <2>2. QED
    BY <1>2, <1>3, <2>1 DEF AllLoaded
<1>7. CASE \E k \in Types : SkipType(k)
  <2>1. PICK k \in Types : SkipType(k)
    BY <1>7
  <2>2. /\ k \in reader.todo /\ (k \in finished \/ number[k] > 2 * FirstBatch)
        /\ reader.type = NoType /\ reader' = [reader EXCEPT !.todo = @ \ {k}]
        /\ UNCHANGED <<unread, pending, finished, number, deleted>>
    BY <1>1, <2>1 DEF SkipType, loadVars, sharedVars
  <2>3. k \in finished
    BY <1>1, <1>2, <2>2
  <2>4. reader'.todo = reader.todo \ {k} /\ reader'.type = NoType
    BY <1>1, <2>2 DEF ReaderStates
  <2>5. QED
    BY <1>2, <1>3, <2>2, <2>3, <2>4 DEF RowsLeft
<1>8. CASE \E k \in Types : StartType(k)
  <2>1. PICK k \in Types : StartType(k)
    BY <1>8
  <2>2. /\ k \in reader.todo /\ k \notin finished /\ reader.type = NoType
        /\ reader' = [reader EXCEPT !.todo = @ \ {k}, !.type = k, !.left = reader.size,
                                    !.pushed = pending[k]]
        /\ pending' = [pending EXCEPT ![k] = NoRecord]
        /\ UNCHANGED <<unread, finished, number, deleted>>
    BY <2>1 DEF StartType
  <2>3. reader'.todo = reader.todo \ {k} /\ reader'.type = k /\ reader'.left = FirstBatch
    BY <1>1, <2>2 DEF ReaderStates
  <2>4. \A j \in Types : pending'[j] = NoRecord
    BY <1>1, <1>2, <2>2
  <2>5. \A j : RowsLeft(j)' = RowsLeft(j)
    BY <1>3, <2>2 DEF RowsLeft
  <2>6. RowsLeft(reader.type)' = RowsLeft(k)'
    BY <1>3, <2>3 DEF RowsLeft
  <2>7. reader'.left >= RowsLeft(reader.type)' + 2
    BY <1>2, <2>2, <2>3, <2>5, <2>6
  <2>8. \A j \in reader'.todo \ finished' : FirstBatch >= RowsLeft(j)' + 2 /\ number'[j] <= 1
    BY <1>2, <2>2, <2>3, <2>5
  <2>9. \A j \in Types : j \in reader'.todo \/ j = reader'.type \/ j \in finished'
    BY <1>1, <1>2, <2>2, <2>3
  <2>10. QED
    BY <1>2, <2>2, <2>4, <2>7, <2>8, <2>9
<1>9. CASE CountPushed
  <2>1. /\ reader.pushed # NoRecord /\ Counted(reader.pushed, 1)
        /\ reader' = [reader EXCEPT !.pushed = NoRecord]
        /\ UNCHANGED <<unread, pending, finished, deleted>>
    BY <1>9 DEF CountPushed, loadVars
  <2>2. reader.pushed \in Uids \ Loaded /\ index[reader.pushed] = reader.type /\ reader.type # NoType
    BY <1>1, <2>1 DEF Bookkeeping, FilesOrdered, ReaderStates
  <2>3. \A j \in Types : j # reader.type => number'[j] = number[j]
    BY <1>1, <2>1, <2>2, CountedChanges
  <2>4. reader'.todo = reader.todo /\ reader'.type = reader.type /\ reader'.left = reader.left
    BY <1>1, <2>1 DEF ReaderStates
  <2>5. \A j : RowsLeft(j)' = RowsLeft(j)
    BY <1>3, <2>1 DEF RowsLeft
  <2>6. RowsLeft(reader.type)' = RowsLeft(reader.type)
    BY <1>3, <2>1, <2>4 DEF RowsLeft
  <2>7. reader.todo \subseteq Types
    BY <1>1 DEF ReaderStates
  <2>8. QED
    BY <1>2, <1>5, <2>1, <2>2, <2>3, <2>4, <2>5, <2>6, <2>7
<1>10. CASE ReadRow
  <2>1. reader.type \in Types
    BY <1>5, <1>10 DEF ReadRow
  <2>2. PICK k \in Types : k = reader.type
    BY <2>1
  <2>3. PICK row : row = LowestOf(unread \cap OfType(k))
    OBVIOUS
  <2>4. /\ unread \cap OfType(k) # {} /\ unread' = unread \ {row}
        /\ UNCHANGED <<finished, number, deleted>>
        /\ reader.left > 2 => /\ pending' = pending
                              /\ reader' = [reader EXCEPT !.left = @ - 1, !.pushed = row]
    BY <1>10, <2>2, <2>3 DEF ReadRow, sharedVars
  <2>5. row \in unread /\ row \in OfType(k)
    BY <2>3, <2>4, RowIsLowest DEF Bookkeeping
  <2>6. RowsLeft(k)' = RowsLeft(k) - 1 /\ RowsLeft(k) >= 1
    <3>1. IsFiniteSet(Uids) /\ OfType(k) \subseteq Uids
      BY <1>1, TraceAssumption DEF Uids, OfType
    <3>2. IsFiniteSet(unread \cap OfType(k))
      BY <3>1, FS_Subset
    <3>3. Cardinality((unread \cap OfType(k)) \ {row}) = RowsLeft(k) - 1
      BY <2>5, <3>2, FS_RemoveElement DEF RowsLeft
    <3>4. Cardinality((unread \cap OfType(k)) \ {row}) \in Nat
      BY <3>2, FS_RemoveElement, FS_CardinalityType
    <3>5. unread' \cap OfType(k)' = (unread \cap OfType(k)) \ {row}
      BY <1>3, <2>4
    <3>6. RowsLeft(k)' = Cardinality((unread \cap OfType(k)) \ {row})
      BY <3>5 DEF RowsLeft
    <3>7. QED
      BY <1>4, <3>3, <3>4, <3>6
  <2>7. reader.left \in Nat /\ reader.left >= RowsLeft(k) + 2 /\ RowsLeft(k) \in Nat
    BY <1>1, <1>2, <1>4, <2>2 DEF ReaderStates
  <2>8. /\ reader'.todo = reader.todo /\ reader'.type = k /\ reader'.left = reader.left - 1
        /\ pending' = pending
    <3>1. reader.left > 2
      BY <2>6, <2>7
    <3>2. reader' = [reader EXCEPT !.left = @ - 1, !.pushed = row] /\ pending' = pending
      BY <2>4, <3>1
    <3>3. QED
      BY <1>1, <2>2, <3>2 DEF ReaderStates
  <2>9. ASSUME NEW j, j # k PROVE RowsLeft(j)' = RowsLeft(j)
    <3>1. unread' \cap OfType(j) = unread \cap OfType(j)
      BY <2>4, <2>5, <2>9 DEF OfType
    <3>2. QED
      BY <1>3, <3>1 DEF RowsLeft
  <2>10. reader'.left >= RowsLeft(k)' + 2
    BY <2>6, <2>7, <2>8
  <2>11. RowsLeft(reader.type)' = RowsLeft(k)'
    BY <1>3, <2>8 DEF RowsLeft
  <2>12. \A j \in reader.todo : j # k
    BY <1>1, <1>5, <2>1, <2>2
  <2>13. QED
    BY <1>2, <1>5, <2>2, <2>4, <2>8, <2>9, <2>10, <2>11, <2>12
<1>11. CASE EndOfRecord
  <2>1. /\ reader' = [reader EXCEPT !.type = NoType] /\ finished' = finished \cup {reader.type}
        /\ UNCHANGED <<unread, pending, number, deleted>>
    BY <1>11 DEF EndOfRecord, sharedVars
  <2>2. reader'.todo = reader.todo /\ reader'.type = NoType
    BY <1>1, <2>1 DEF ReaderStates
  <2>3. \A j : RowsLeft(j)' = RowsLeft(j)
    BY <1>3, <2>1 DEF RowsLeft
  <2>4. QED
    BY <1>2, <2>1, <2>2, <2>3
<1>12. CASE BatchFull
  <2>1. reader.type # NoType /\ reader.left = 1
    BY <1>12 DEF BatchFull
  <2>2. FALSE
    BY <1>1, <1>2, <1>4, <2>1 DEF ReaderStates
  <2>3. QED
    BY <2>2
<1>13. QED
  BY <1>1, <1>6, <1>7, <1>8, <1>9, <1>10, <1>11, <1>12 DEF Reader, EndBatch, ReaderEnds, ReaderDrains,
     DeleteNext, ReaderBatches, ReaderStates

LEMMA AllLoadedStep ==
    ASSUME Bookkeeping, AllLoaded, [Next]_vars
    PROVE  AllLoaded'
<1>1. CASE Reader /\ reader.at # "first"
  <2>1. ReaderEnds
    BY <1>1, ReaderOnlyEnds
  <2>2. /\ UNCHANGED <<unread, pending, finished, deleted>> /\ reader' = [reader EXCEPT !.at = "ended"]
    BY <2>1 DEF ReaderEnds, loadVars, sharedVars
  <2>3. reader'.at = "ended" /\ reader'.type = reader.type
    BY <2>2 DEF Bookkeeping, IInv, Typed, ReaderStates
  <2>4. QED
    BY <1>1, <2>2, <2>3 DEF AllLoaded
<1>2. ASSUME NEW p \in Pids, Thread(p) PROVE AllLoaded'
  <2>1. UNCHANGED <<unread, pending, finished, deleted, reader>> /\ pc[p] # "none"
    BY <1>2, ThreadLeaves, ThreadMoves DEF Bookkeeping, Active
  <2>2. reader.at # "first"
    BY <2>1 DEF Bookkeeping, IInv, Started
  <2>3. QED
    BY <2>1, <2>2 DEF AllLoaded
<1>3. CASE Joined \/ UNCHANGED vars
  BY <1>3 DEF Joined, vars, sourceVars, loadVars, sharedVars, AllLoaded, RowsLeft, OfType, Uids
<1>4. QED
  BY <1>1, <1>2, <1>3, AllLoadedByFirstBatch DEF Next

-----------------------------------------------------------------------------
(***************************************************************************)
(* Short files: the order.                                                 *)
(***************************************************************************)
(* A record did not return before an earlier one was called.               *)
LEMMA LaterNotBefore ==
    ASSUME trace \in Traces, NEW v \in Uids, NEW u \in Uids, v <= u
    PROVE  /\ ~(trace[u].returned < trace[v].called)
           /\ trace[u].pid = trace[v].pid => trace[v].returned <= trace[u].returned
<1>1. /\ trace[u].called \in Nat /\ trace[u].returned \in Nat /\ trace[u].called < trace[u].returned
      /\ trace[v].called \in Nat /\ trace[v].returned \in Nat
      /\ u < v \/ v < u \/ u = v
  BY TraceAssumption, UidsAreNumbers DEF Uids
<1>2. v < u => /\ trace[v].called < trace[u].called
               /\ trace[v].pid = trace[u].pid => trace[v].returned < trace[u].called
  BY TraceAssumption DEF Uids
<1>3. v < u \/ u = v
  BY <1>1, UidsAreNumbers
<1>4. QED
  BY <1>1, <1>2, <1>3

(* What a process still has to replay is in its heap or in its thread's hand. *)
LEMMA RestIsNear ==
    ASSUME IInv, AllLoaded, reader.at # "first", NEW u \in Uids, u \notin executed
    PROVE  LET q == trace[u].pid IN u \in heap[q] \/ (pc[q] \in HandPlaces /\ u = cur[q])
<1>1. trace[u].type \in Types /\ u # NoRecord
  BY TypesOfRecords, UidsAreNumbers DEF IInv, Typed, NoRecord
<1>2. ~InFile(u) /\ ~InModule(u)
  BY <1>1 DEF AllLoaded, InFile, InModule
<1>3. InHeap(u) \/ Held(u)
  BY <1>2 DEF IInv, EachOnce, OneOf, Done
<1>4. QED
  BY <1>3 DEF InHeap, Held, InHand, HandPlaces

LEMMA HandIsLowest ==
    ASSUME IInv, AllLoaded, LowestFirst, reader.at # "first", NEW p \in Pids, pc[p] \in HandPlaces
    PROVE  NoneBefore(p, cur[p])
<1>1. SUFFICES ASSUME NEW u \in Uids, trace[u].pid = p, u \notin executed PROVE cur[p] <= u
  BY DEF NoneBefore
<1>2. u \in heap[p] \/ u = cur[p]
  BY <1>1, RestIsNear
<1>3. cur[p] \in Nat /\ u \in Nat
  BY HandRecord, UidsAreNumbers DEF IInv, Typed
<1>4. QED
  BY <1>2, <1>3 DEF LowestFirst

(* The records of q that returned before p's record was called are done if  *)
(* all that is left of q is later than a record that was not before p's.    *)
LEMMA NoneBeforeClears ==
    ASSUME IInv, NEW p \in Pids, pc[p] \in HandPlaces, NEW q, NEW v \in Uids,
           NoneBefore(q, v), trace[v].pid = q \/ v = cur[p],
           ~(trace[v].returned < trace[cur[p]].called)
    PROVE  Cleared(p, q)
<1>1. trace \in Traces /\ cur[p] \in Uids
  BY HandRecord DEF IInv, Typed
<1>2. SUFFICES ASSUME NEW u \in Uids, trace[u].pid = q,
                      trace[u].returned < trace[cur[p]].called, u \notin executed
               PROVE  FALSE
  BY DEF Cleared
<1>3. v <= u
  BY <1>2 DEF NoneBefore
<1>4. v # cur[p] /\ trace[v].returned <= trace[u].returned
  BY <1>1, <1>2, <1>3, LaterNotBefore
<1>5. trace[v].returned \in Nat /\ trace[u].returned \in Nat /\ trace[cur[p]].called \in Nat
  BY <1>1, TraceAssumption DEF Uids
<1>6. QED
  BY <1>2, <1>4, <1>5

(* The own records, and those of kin whose thread was not started or ended. *)
LEMMA OwnCleared ==
    ASSUME IInv, AllLoaded, LowestFirst, reader.at # "first", NEW p \in Pids, pc[p] \in HandPlaces
    PROVE  Cleared(p, p)
<1>1. NoneBefore(p, cur[p]) /\ cur[p] \in Uids /\ trace \in Traces
  BY HandIsLowest, HandRecord DEF IInv, Typed
<1>2. cur[p] \in Nat
  BY <1>1, UidsAreNumbers
<1>3. ~(trace[cur[p]].returned < trace[cur[p]].called)
  BY <1>1, <1>2, LaterNotBefore
<1>4. QED
  BY <1>1, <1>3, NoneBeforeClears

LEMMA UnstartedCleared ==
    ASSUME IInv, ThreadsCounted, AllLoaded, LowestFirst, reader.at # "first",
           NEW p \in Pids, pc[p] \in HandPlaces, NEW q \in Pids, Kin(p, q), pc[q] = "none"
    PROVE  Cleared(p, q)
<1>1. trace \in Traces /\ NoneBefore(p, cur[p]) /\ cur[p] \in Uids /\ NoChild \notin Pids
      /\ executed \subseteq Uids
  BY HandIsLowest, HandRecord, SchedulerAssumption DEF IInv, Typed
<1>2. CASE Made(p, q)
  <2>1. PICK c \in Uids : trace[c].pid = p /\ trace[c].child = q
    BY <1>2 DEF Made
  <2>2. c \notin executed /\ q # Root
    BY <1>1, <2>1, TraceAssumption DEF ThreadsCounted, Uids
  <2>3. cur[p] <= c
    BY <1>1, <2>1, <2>2 DEF NoneBefore
  <2>4. ASSUME NEW u \in Uids, trace[u].pid = q PROVE ~(trace[u].returned < trace[cur[p]].called)
    <3>1. PICK b \in 0 .. u - 1 : trace[b].child = q
      BY <1>1, <2>2, <2>4, TraceAssumption DEF Uids
    <3>2. u \in Nat /\ b \in Nat /\ b < u /\ c \in Nat /\ cur[p] \in Nat
      BY <1>1, <3>1, UidsAreNumbers
    <3>3. b \in Uids
      <4>1. PICK n \in Int : DOMAIN trace = 0 .. n
        <5>1. Cardinality(DOMAIN trace) \in Nat /\ DOMAIN trace = 0 .. Cardinality(DOMAIN trace) - 1
          BY <1>1, TraceAssumption, FS_CardinalityType
        <5>2. QED
          BY <5>1
      <4>2. QED
        BY <3>2, <4>1 DEF Uids
    <3>4. b = c
      BY <1>1, <2>1, <3>1, <3>3, TraceAssumption DEF Uids
    <3>5. cur[p] <= u
      BY <2>3, <3>2, <3>4
    <3>6. QED
      BY <1>1, <3>5, LaterNotBefore
  <2>5. QED
    BY <2>4 DEF Cleared
<1>3. CASE Made(q, p)
  <2>1. PICK c \in Uids : trace[c].pid = q /\ trace[c].child = p
    BY <1>3 DEF Made
  <2>2. p # Root /\ \A u \in Uids : trace[u].child = p => u = c
    BY <1>1, <2>1, TraceAssumption DEF Uids
  <2>3. pc[p] # "none"
    BY DEF HandPlaces
  <2>4. c \in executed
    BY <1>1, <2>2, <2>3 DEF IInv, Started
  <2>5. pc[q] # "none"
    BY <2>1, <2>4 DEF ThreadsCounted
  <2>6. QED
    BY <2>5
<1>4. CASE p = q
  BY <1>4 DEF HandPlaces
<1>5. QED
  BY <1>2, <1>3, <1>4 DEF Kin

LEMMA NotRunningCleared ==
    ASSUME IInv, ThreadsCounted, AllLoaded, LowestFirst, reader.at # "first",
           NEW p \in Pids, pc[p] \in HandPlaces, NEW q \in Pids, Kin(p, q), q \notin DOMAIN running
    PROVE  Cleared(p, q)
<1>1. pc[q] \in {"none", "ended"}
  BY DEF LowestFirst
<1>2. CASE pc[q] = "ended"
  <2>1. heap[q] = {} /\ pc[q] \notin HandPlaces
    BY <1>2 DEF LowestFirst, HandPlaces
  <2>2. \A u \in Uids : trace[u].pid = q => u \in executed
    BY <2>1, RestIsNear
  <2>3. QED
    BY <2>2 DEF Cleared
<1>3. QED
  BY <1>1, <1>2, UnstartedCleared

\* Alone, a thread is not checked.
LEMMA AloneCleared ==
    ASSUME IInv, ThreadsCounted, AllLoaded, LowestFirst, reader.at # "first", nThreads = 1,
           NEW p \in Pids, pc[p] \in HandPlaces, NEW q \in Pids, Kin(p, q)
    PROVE  Cleared(p, q)
<1>1. CASE q = p
  BY <1>1, OwnCleared
<1>2. CASE q # p
  <2>1. p \in In(Active) /\ In(Active) \subseteq Pids
    BY DEF In, Active, HandPlaces, Places
  <2>2. q \notin In(Active)
    <3>1. SUFFICES ASSUME q \in In(Active) PROVE FALSE
      OBVIOUS
    <3>2. {q} \cup {p} \subseteq In(Active)
      BY <2>1, <3>1
    <3>3. Cardinality({q}) = 1
      BY FS_Singleton
    <3>4. Cardinality({q} \cup {p}) = 2
      BY <1>2, <3>3, OnePidMore
    <3>5. Cardinality(In(Active)) >= 2
      BY <2>1, <3>2, <3>4, MorePids
    <3>6. QED
      BY <2>1, <3>5, SomePids DEF ThreadsCounted
  <2>3. pc[q] = "none"
    BY <2>2 DEF In, Active, IInv, Typed
  <2>4. QED
    BY <2>3, UnstartedCleared
<1>3. QED
  BY <1>1, <1>2

(* What a thread's step means to the others: its own entries change only.   *)
LEMMA OthersKeep ==
    ASSUME IInv, Shaped, NEW p \in Pids, Thread(p)
    PROVE  /\ \A q \in Pids \ {p} : /\ cur'[q] = cur[q] /\ seen'[q] = seen[q]
                                    /\ todo'[q] = todo[q] /\ heap'[q] = heap[q]
           /\ \A q \in DOMAIN running \ {p} : q \in DOMAIN running'
           /\ \A q \in DOMAIN running' \ {p} :
                 (q \in DOMAIN running /\ running'[q] = running[q]) \/ running'[q] = NoRecord
           /\ \A q \in Pids \ {p} : pc'[q] # pc[q] => q \in DOMAIN running'
<1>1. /\ cur \in [Pids -> Uids \cup {NoRecord}] /\ heap \in [Pids -> SUBSET Uids]
      /\ seen \in [Pids -> Uids \cup {NoRecord}] /\ todo \in [Pids -> SUBSET Pids]
  BY DEF IInv, Typed, Shaped
<1>2. PutBack(p) => trace[cur[p]].pid = p
  BY HandRecord DEF PutBack, At, HandPlaces
<1>3. \A q \in Pids \ {p} : cur'[q] = cur[q]
  BY <1>1 DEF Thread, Pop, ThreadEnds, CountPopped, Gate, QueuePrevious, ReadRunning, Compare,
     CheckPasses, Reject, PutBack, Execute, StoreLast
<1>4. \A q \in Pids \ {p} : seen'[q] = seen[q] /\ todo'[q] = todo[q]
  BY <1>1 DEF Thread, Pop, ThreadEnds, CountPopped, Gate, QueuePrevious, ReadRunning, Compare,
     CheckPasses, Reject, PutBack, Execute, StoreLast, threadVars
<1>5. \A q \in Pids \ {p} : heap'[q] = heap[q]
  <2>1. heap' = heap \/ heap' = [heap EXCEPT ![p] = heap[p] \ {Top(p)}] \/ (Push(cur[p]) /\ PutBack(p))
    <3>1. CASE Pop(p)
      BY <3>1 DEF Pop
    <3>2. CASE PutBack(p)
      BY <3>2 DEF PutBack
    <3>3. CASE ~Pop(p) /\ ~PutBack(p)
      BY <3>3 DEF Thread, ThreadEnds, CountPopped, Gate, QueuePrevious, ReadRunning, Compare,
         CheckPasses, Reject, Execute, StoreLast, sharedVars
    <3>4. QED
      BY <3>1, <3>2, <3>3
  <2>2. QED
    BY <1>1, <1>2, <2>1 DEF Push
<1>6. CASE Execute(p)
  <2> DEFINE c == trace[cur[p]].child
  <2>1. /\ c = NoChild => running' = running /\ pc' = [pc EXCEPT ![p] = "store"]
        /\ c # NoChild => /\ running' = [q \in DOMAIN running \cup {c} |->
                                             IF q = c THEN NoRecord ELSE running[q]]
                          /\ pc' = [pc EXCEPT ![p] = "store", ![c] = "pop"]
    BY <1>6 DEF Execute, Goto
  <2>2. pc \in [Pids -> Places]
    BY DEF IInv, Typed
  <2> HIDE DEF c
  <2>3. CASE c = NoChild
    BY <1>3, <1>4, <1>5, <2>1, <2>2, <2>3
  <2>4. CASE c # NoChild
    BY <1>3, <1>4, <1>5, <2>1, <2>2, <2>4
  <2>5. QED
    BY <2>3, <2>4
<1>7. CASE ~Execute(p)
  <2>1. \A q \in Pids \ {p} : pc'[q] = pc[q]
    BY <1>7, ThreadMoves
  <2>2. /\ \A q \in DOMAIN running \ {p} : q \in DOMAIN running'
        /\ \A q \in DOMAIN running' \ {p} : q \in DOMAIN running /\ running'[q] = running[q]
    <3>1. CASE running' = running
      BY <3>1
    <3>2. CASE Gate(p)
      BY <3>2 DEF Gate
    <3>3. CASE ThreadEnds(p)
      BY <3>3 DEF ThreadEnds
    <3>4. CASE Reject(p)
      BY <3>4 DEF Reject, Shaped
    <3>5. QED
      BY <1>7, <3>1, <3>2, <3>3, <3>4 DEF Thread, Pop, CountPopped, QueuePrevious, ReadRunning,
         Compare, CheckPasses, PutBack, StoreLast, sharedVars
  <2>3. QED
    BY <1>3, <1>4, <1>5, <2>1, <2>2
<1>8. QED
  BY <1>6, <1>7

LEMMA MoreExecuted ==
    ASSUME IInv, NEW p \in Pids, Thread(p)
    PROVE  trace' = trace /\ Uids' = Uids /\ executed \subseteq executed'
BY ThreadLeaves DEF Execute, Uids

LEMMA LowestFirstStep ==
    ASSUME Bookkeeping, AllLoaded, LowestFirst, Shown, reader.at # "first", NEW p \in Pids, Thread(p)
    PROVE  LowestFirst'
<1>1. /\ IInv /\ Shaped /\ pc \in [Pids -> Places] /\ cur \in [Pids -> Uids \cup {NoRecord}]
      /\ heap \in [Pids -> SUBSET Uids] /\ Uids \subseteq Nat /\ seen \in [Pids -> Uids \cup {NoRecord}]
  BY UidsAreNumbers DEF Bookkeeping, IInv, Typed, Shaped
<1>2. trace' = trace /\ Uids' = Uids /\ executed \subseteq executed'
  BY <1>1, MoreExecuted
<1>3. /\ pc[p] \in Active \ {"ended"} /\ pc'[p] \in Active
      /\ \A q \in Pids \ {p} : pc'[q] = pc[q] \/ (pc[q] = "none" /\ pc'[q] = "pop")
  BY <1>1, ThreadMoves
<1>4. ASSUME NEW q \in Pids \ {p}
      PROVE  /\ pc'[q] \in HandPlaces => \A u \in heap'[q] : cur'[q] < u
             /\ pc'[q] = "ended" => heap'[q] = {}
             /\ pc'[q] \notin {"none", "ended"} => q \in DOMAIN running'
             /\ pc'[q] = "compare" => NoneBefore(trace[seen[q]].pid, seen[q])' /\ seen'[q] = seen[q]
  <2>1. /\ cur'[q] = cur[q] /\ seen'[q] = seen[q] /\ heap'[q] = heap[q]
        /\ q \in DOMAIN running => q \in DOMAIN running'
        /\ pc'[q] # pc[q] => q \in DOMAIN running'
    BY <1>1, OthersKeep
  <2>2. pc'[q] = pc[q] \/ pc'[q] = "pop"
    BY <1>3
  <2>3. /\ pc[q] \in HandPlaces => \A u \in heap[q] : cur[q] < u
        /\ pc[q] = "ended" => heap[q] = {}
        /\ pc[q] \notin {"none", "ended"} => q \in DOMAIN running
        /\ pc[q] = "compare" => NoneBefore(trace[seen[q]].pid, seen[q])
    BY DEF LowestFirst
  <2>4. NoneBefore(trace[seen[q]].pid, seen[q]) => NoneBefore(trace[seen[q]].pid, seen[q])'
    BY <1>2, <2>1 DEF NoneBefore
  <2>5. QED
    BY <2>1, <2>2, <2>3, <2>4 DEF HandPlaces
<1>5. /\ pc'[p] \in HandPlaces => \A u \in heap'[p] : cur'[p] < u
      /\ pc'[p] = "ended" => heap'[p] = {}
  <2>1. CASE Pop(p)
    <3>1. /\ cur'[p] = Top(p) /\ heap'[p] = heap[p] \ {Top(p)} /\ pc'[p] = "count" /\ heap[p] # {}
      BY <1>1, <2>1 DEF Pop, Goto, At
    <3>2. heap[p] \subseteq Nat
      BY <1>1
    <3>3. Top(p) \in heap[p] /\ \A u \in heap[p] : Top(p) <= u
      BY <3>1, <3>2, LowestIsIn DEF Top
    <3>4. QED
      BY <3>1, <3>2, <3>3
  <2>2. CASE ThreadEnds(p)
    BY <1>1, <2>2 DEF ThreadEnds, Goto, At, HandPlaces
  <2>3. CASE PutBack(p) \/ StoreLast(p) \/ Execute(p)
    <3>1. pc'[p] \in {"pop", "store"}
      <4>1. CASE PutBack(p) \/ StoreLast(p)
        BY <1>1, <4>1 DEF PutBack, StoreLast, Goto
      <4>2. CASE Execute(p)
        <5>1. trace[cur[p]].child # NoChild => trace[cur[p]].child # p
          BY <1>1, <4>2, CloneStarts DEF Execute, At
        <5>2. QED
          BY <1>1, <4>2, <5>1 DEF Execute, Goto
      <4>3. QED
        BY <2>3, <4>1, <4>2
    <3>2. QED
      BY <3>1 DEF HandPlaces
  <2>4. CASE CountPopped(p) \/ Gate(p) \/ QueuePrevious(p) \/ ReadRunning(p) \/ Compare(p)
             \/ CheckPasses(p) \/ Reject(p)
    <3>1. UNCHANGED <<heap, cur>> /\ pc[p] \in HandPlaces
      BY <2>4 DEF CountPopped, Gate, QueuePrevious, ReadRunning, Compare, CheckPasses, Reject, At,
         HandPlaces, sharedVars
    <3>2. pc'[p] # "ended"
      <4>1. CASE ReadRunning(p)
        BY <1>1, <3>1, <4>1 DEF ReadRunning, Goto, HandPlaces
      <4>2. CASE ~ReadRunning(p)
        BY <1>1, <2>4, <4>2 DEF CountPopped, Gate, QueuePrevious, Compare, CheckPasses, Reject, Goto
      <4>3. QED
        BY <4>1, <4>2
    <3>3. QED
      BY <3>1, <3>2 DEF LowestFirst
  <2>5. QED
    BY <2>1, <2>2, <2>3, <2>4 DEF Bookkeeping, Thread
<1>6. pc'[p] \notin {"none", "ended"} => p \in DOMAIN running'
  <2>1. p \in DOMAIN running
    BY <1>3 DEF LowestFirst, Active
  <2>2. CASE ThreadEnds(p)
    BY <1>1, <2>2 DEF ThreadEnds, Goto
  <2>3. CASE ~ThreadEnds(p)
    BY <2>1, <2>3 DEF Thread, Pop, CountPopped, Gate, QueuePrevious, ReadRunning, Compare,
       CheckPasses, Reject, PutBack, Execute, StoreLast, sharedVars
  <2>4. QED
    BY <2>2, <2>3
<1>7. ASSUME pc'[p] = "compare"
      PROVE  \A u \in Uids : trace[u].pid = trace[seen'[p]].pid /\ u \notin executed' => seen'[p] <= u
  <2>1. ReadRunning(p)
    <3>1. CASE Execute(p)
      <4>1. trace[cur[p]].child # NoChild => trace[cur[p]].child # p
        BY <1>1, <3>1, CloneStarts DEF Execute, At
      <4>2. QED
        BY <1>1, <1>7, <3>1, <4>1 DEF Execute, Goto
    <3>2. CASE Compare(p) \/ QueuePrevious(p)
      BY <1>1, <1>7, <3>2 DEF Compare, QueuePrevious, Goto
    <3>3. CASE Pop(p) \/ ThreadEnds(p) \/ CountPopped(p) \/ Gate(p)
      BY <1>1, <1>7, <3>3 DEF Pop, ThreadEnds, CountPopped, Gate, Goto
    <3>4. CASE CheckPasses(p) \/ Reject(p) \/ PutBack(p) \/ StoreLast(p)
      BY <1>1, <1>7, <3>4 DEF CheckPasses, Reject, PutBack, StoreLast, Goto
    <3>5. QED
      BY <3>1, <3>2, <3>3, <3>4 DEF Thread
  <2>2. PICK q \in todo[p] :
            IF q \notin DOMAIN running THEN UNCHANGED <<pc, seen>>
            ELSE IF running[q] = NoRecord THEN pc' = [pc EXCEPT ![p] = "reject"] /\ UNCHANGED seen
            ELSE pc' = [pc EXCEPT ![p] = "compare"] /\ seen' = [seen EXCEPT ![p] = running[q]]
    BY <2>1 DEF ReadRunning, Goto
  <2>3. pc[p] = "check"
    BY <2>1 DEF ReadRunning, At
  <2>4. q \in DOMAIN running /\ running[q] # NoRecord /\ seen'[p] = running[q]
    BY <1>1, <1>7, <2>2, <2>3
  <2>5. trace[running[q]].pid = q /\ NoneBefore(q, running[q])
    BY <2>4 DEF Shown
  <2>6. QED
    BY <1>2, <2>4, <2>5 DEF NoneBefore
<1>8. ASSUME NEW q \in Pids
      PROVE  pc'[q] = "compare" =>
                 \A u \in Uids : trace[u].pid = trace[seen'[q]].pid /\ u \notin executed' => seen'[q] <= u
  BY <1>2, <1>4, <1>7 DEF NoneBefore
<1>9. ASSUME NEW q \in Pids
      PROVE  /\ pc'[q] \in HandPlaces => \A u \in heap'[q] : cur'[q] < u
             /\ pc'[q] = "ended" => heap'[q] = {}
             /\ pc'[q] \notin {"none", "ended"} => q \in DOMAIN running'
  BY <1>4, <1>5, <1>6
<1>10. QED
  BY <1>2, <1>8, <1>9 DEF LowestFirst, NoneBefore

LEMMA ShownStep ==
    ASSUME Bookkeeping, AllLoaded, LowestFirst, Shown, reader.at # "first", NEW p \in Pids, Thread(p)
    PROVE  Shown'
<1>1. IInv /\ Shaped /\ DOMAIN running \subseteq Pids /\ cur \in [Pids -> Uids \cup {NoRecord}]
  BY DEF Bookkeeping, Shaped, IInv, Typed
<1>2. trace' = trace /\ Uids' = Uids /\ executed \subseteq executed'
  BY <1>1, MoreExecuted
<1>3. SUFFICES ASSUME NEW q \in DOMAIN running', running'[q] # NoRecord
               PROVE  /\ trace[running'[q]].pid = q
                      /\ \A u \in Uids : trace[u].pid = q /\ u \notin executed' => running'[q] <= u
  BY <1>2 DEF Shown, NoneBefore
<1>4. CASE q \in DOMAIN running /\ running'[q] = running[q]
  BY <1>2, <1>3, <1>4 DEF Shown, NoneBefore
<1>5. CASE Gate(p) /\ q = p
  <2>1. running'[q] = cur[p] /\ pc[p] \in HandPlaces
    BY <1>5 DEF Gate, At, HandPlaces
  <2>2. trace[cur[p]].pid = p /\ NoneBefore(p, cur[p])
    BY <1>1, <2>1, HandRecord, HandIsLowest
  <2>3. QED
    BY <1>2, <1>5, <2>1, <2>2 DEF NoneBefore
<1>6. CASE q = p /\ ~Gate(p)
  <2>1. CASE Reject(p)
    BY <1>3, <1>6, <2>1 DEF Reject
  <2>2. CASE ThreadEnds(p)
    BY <1>6, <2>2 DEF ThreadEnds
  <2>3. CASE Execute(p)
    BY <1>3, <1>4, <1>6, <2>3 DEF Execute
  <2>4. QED
    BY <1>4, <1>6, <2>1, <2>2, <2>3 DEF Thread, Pop, CountPopped, QueuePrevious, ReadRunning, Compare,
       CheckPasses, PutBack, StoreLast, sharedVars
<1>7. QED
  BY <1>1, <1>3, <1>4, <1>5, <1>6, OthersKeep

LEMMA CheckedStep ==
    ASSUME Bookkeeping, AllLoaded, LowestFirst, Shown, Checked, reader.at # "first",
           NEW p \in Pids, Thread(p)
    PROVE  Checked'
<1>1. /\ IInv /\ Shaped /\ ThreadsCounted /\ pc \in [Pids -> Places]
      /\ todo \in [Pids -> SUBSET Pids] /\ seen \in [Pids -> Uids \cup {NoRecord}]
      /\ running \in [DOMAIN running -> Uids \cup {NoRecord}] /\ DOMAIN running \subseteq Pids
  BY DEF Bookkeeping, Shaped, IInv, Typed
<1>2. trace' = trace /\ Uids' = Uids /\ executed \subseteq executed'
  BY <1>1, MoreExecuted
<1>3. \A r, q \in Pids : Kin(r, q)' <=> Kin(r, q)
  BY <1>2 DEF Kin, Made
<1>4. \A r, q \in Pids : cur'[r] = cur[r] /\ Cleared(r, q) => Cleared(r, q)'
  BY <1>2 DEF Cleared
<1>5. SUFFICES ASSUME NEW r \in Pids, NEW q \in Pids, Kin(r, q)
               PROVE  /\ pc'[r] = "check" => q \in todo'[r] \/ Cleared(r, q)'
                      /\ pc'[r] = "compare" =>
                            q \in todo'[r] \/ Cleared(r, q)' \/ q = trace[seen'[r]].pid
                      /\ pc'[r] = "execute" => Cleared(r, q)'
  BY <1>2, <1>3 DEF Checked
<1>6. /\ pc[r] = "check" => q \in todo[r] \/ Cleared(r, q)
      /\ pc[r] = "compare" => q \in todo[r] \/ Cleared(r, q) \/ q = trace[seen[r]].pid
      /\ pc[r] = "execute" => Cleared(r, q)
  BY <1>5 DEF Checked
<1>7. CASE r # p
  <2>1. pc'[r] = pc[r] \/ pc'[r] = "pop"
    BY <1>1, <1>7, ThreadMoves
  <2>2. cur'[r] = cur[r] /\ todo'[r] = todo[r] /\ seen'[r] = seen[r]
    BY <1>1, <1>7, OthersKeep
  <2>3. QED
    BY <1>4, <1>6, <2>1, <2>2
<1>8. CASE r = p /\ QueuePrevious(p)
  <2>1. pc[p] \in HandPlaces /\ cur' = cur
    BY <1>8 DEF QueuePrevious, At, HandPlaces
  <2>2. nThreads = 1 => Cleared(p, q)
    BY <1>1, <1>5, <1>8, <2>1, AloneCleared
  <2>3. q \in DOMAIN running \/ Cleared(p, q)
    BY <1>1, <1>5, <1>8, <2>1, NotRunningCleared
  <2>4. \/ nThreads = 1 /\ pc'[p] = "execute"
        \/ pc'[p] = "reject"
        \/ pc'[p] = "check" /\ todo'[p] = DOMAIN running
    BY <1>1, <1>8 DEF QueuePrevious, Goto
  <2>5. QED
    BY <1>4, <1>8, <2>1, <2>2, <2>3, <2>4
<1>9. CASE r = p /\ ReadRunning(p)
  <2>1. PICK z \in todo[p] :
            /\ todo' = [todo EXCEPT ![p] = @ \ {z}]
            /\ IF z \notin DOMAIN running THEN UNCHANGED <<pc, seen>>
               ELSE IF running[z] = NoRecord THEN pc' = [pc EXCEPT ![p] = "reject"] /\ UNCHANGED seen
               ELSE pc' = [pc EXCEPT ![p] = "compare"] /\ seen' = [seen EXCEPT ![p] = running[z]]
    BY <1>9 DEF ReadRunning, Goto
  <2>2. pc[p] = "check" /\ pc[p] \in HandPlaces /\ cur' = cur
    BY <1>9 DEF ReadRunning, At, HandPlaces
  <2>3. todo'[p] = todo[p] \ {z}
    BY <1>1, <2>1
  <2>4. CASE z \notin DOMAIN running
    <3>1. q = z => Cleared(p, q)
      BY <1>1, <1>5, <1>9, <2>2, <2>4, NotRunningCleared
    <3>2. pc'[p] = "check"
      BY <2>1, <2>2, <2>4
    <3>3. QED
      BY <1>4, <1>6, <1>9, <2>2, <2>3, <3>1, <3>2
  <2>5. CASE z \in DOMAIN running /\ running[z] = NoRecord
    <3>1. pc'[p] = "reject"
      BY <1>1, <2>1, <2>5
    <3>2. QED
      BY <1>9, <3>1
  <2>6. CASE z \in DOMAIN running /\ running[z] # NoRecord
    <3>1. pc'[p] = "compare" /\ seen'[p] = running[z]
      BY <1>1, <2>1, <2>6
    <3>2. trace[seen'[p]].pid = z
      BY <2>6, <3>1 DEF Shown
    <3>3. QED
      BY <1>4, <1>6, <1>9, <2>2, <2>3, <3>1, <3>2
  <2>7. QED
    BY <2>4, <2>5, <2>6
<1>10. CASE r = p /\ Compare(p)
  <2>1. /\ pc[p] = "compare" /\ pc[p] \in HandPlaces /\ UNCHANGED <<cur, todo>>
        /\ deleted = {}
    BY <1>10 DEF Compare, At, HandPlaces, AllLoaded
  <2>2. pc'[p] = IF trace[cur[p]].called > trace[seen[p]].returned THEN "reject" ELSE "check"
    BY <1>1, <1>10, <2>1 DEF Compare, Goto
  <2>3. seen[p] \in Uids /\ NoneBefore(trace[seen[p]].pid, seen[p])
    BY <2>1 DEF Bookkeeping, Shaped, LowestFirst
  <2>4. pc'[p] = "check" => Cleared(p, trace[seen[p]].pid)
    <3>1. cur[p] \in Uids /\ trace \in Traces
      BY <1>1, <2>1, HandRecord DEF IInv, Typed
    <3>2. trace[cur[p]].called \in Nat /\ trace[seen[p]].returned \in Nat
      BY <2>3, <3>1, TraceAssumption DEF Uids
    <3>3. pc'[p] = "check" => ~(trace[seen[p]].returned < trace[cur[p]].called)
      BY <2>2, <3>2
    <3>4. QED
      BY <1>1, <2>1, <2>3, <3>3, NoneBeforeClears
  <2>5. QED
    BY <1>4, <1>6, <1>10, <2>1, <2>2, <2>4
<1>11. CASE r = p /\ CheckPasses(p)
  <2>1. pc[p] = "check" /\ todo[p] = {} /\ cur' = cur /\ pc'[p] = "execute"
    BY <1>1, <1>11 DEF CheckPasses, At, Goto
  <2>2. QED
    BY <1>4, <1>6, <1>11, <2>1
<1>12. CASE r = p /\ ~QueuePrevious(p) /\ ~ReadRunning(p) /\ ~Compare(p) /\ ~CheckPasses(p)
  <2>1. pc'[p] \notin {"check", "compare", "execute"}
    <3>1. CASE Execute(p)
      <4>1. trace[cur[p]].child # NoChild => trace[cur[p]].child # p
        BY <1>1, <3>1, CloneStarts DEF Execute, At
      <4>2. QED
        BY <1>1, <3>1, <4>1 DEF Execute, Goto
    <3>2. CASE ~Execute(p)
      BY <1>1, <1>12, <3>2 DEF Thread, Pop, ThreadEnds, CountPopped, Gate, Reject, PutBack, StoreLast, Goto
    <3>3. QED
      BY <3>1, <3>2
  <2>2. QED
    BY <1>12, <2>1
<1>13. QED
  BY <1>7, <1>8, <1>9, <1>10, <1>11, <1>12

LEMMA OrderStep ==
    ASSUME Bookkeeping, OrderInv, [Next]_vars
    PROVE  OrderInv'
<1>1. trace' = trace
  BY ReaderLeaves, ThreadLeaves DEF Next, Joined, vars, sourceVars
<1>2. SUFFICES ASSUME ShortFiles, AllLoaded, LowestFirst, Shown, Checked
               PROVE  LowestFirst' /\ Shown' /\ Checked'
  BY <1>1, AllLoadedStep DEF OrderInv, ShortFiles, OfType, Uids
<1>3. pc \in [Pids -> Places] /\ Root \in Pids
  BY SchedulerAssumption DEF Bookkeeping, IInv, Typed
<1>4. CASE Reader
  <2>1. UNCHANGED <<trace, cur, todo, seen, running, executed>>
    BY <1>4, ReaderLeaves
  <2>2. CASE reader.at = "first"
    <3>1. \A p \in Pids : pc[p] = "none"
      BY <2>2 DEF Bookkeeping, IInv, Started
    <3>2. pc' = pc \/ pc' = [pc EXCEPT ![Root] = "pop"]
      BY <1>4, ReaderLeaves DEF EndBatch
    <3>3. \A p \in Pids : pc'[p] \in {"none", "pop"} /\ (pc'[p] = "pop" => p = Root)
      BY <1>3, <3>1, <3>2
    <3>4. Root \in DOMAIN running
      BY <1>2, <2>2 DEF AllLoaded
    <3>5. QED
      BY <1>2, <2>1, <3>3, <3>4 DEF LowestFirst, Shown, Checked, NoneBefore, HandPlaces, Uids
  <2>3. CASE reader.at # "first"
    <3>1. UNCHANGED <<pc, heap>>
      BY <1>2, <1>4, <2>3, ReaderOnlyEnds DEF ReaderEnds, threadVars, sharedVars
    <3>2. QED
      BY <1>2, <2>1, <3>1 DEF LowestFirst, Shown, Checked, NoneBefore, Cleared, Kin, Made, Uids
  <2>4. QED
    BY <2>2, <2>3
<1>5. ASSUME NEW p \in Pids, Thread(p) PROVE LowestFirst' /\ Shown' /\ Checked'
  <2>1. reader.at # "first"
    BY <1>5, ThreadMoves DEF Active, Bookkeeping, IInv, Started
  <2>2. QED
    BY <1>2, <1>5, <2>1, LowestFirstStep, ShownStep, CheckedStep
<1>6. CASE Joined \/ UNCHANGED vars
  BY <1>2, <1>6 DEF Joined, vars, sourceVars, threadVars, sharedVars, LowestFirst, Shown, Checked,
     NoneBefore, Cleared, Kin, Made, Uids
<1>7. QED
  BY <1>4, <1>5, <1>6 DEF Next

LEMMA OrderInit == Init => OrderInv
<1> SUFFICES ASSUME Init, ShortFiles PROVE OrderInv
  BY DEF OrderInv
<1>1. /\ trace \in Traces /\ pc = [p \in Pids |-> "none"] /\ running = [p \in {Root} |-> 0]
  BY DEF Init
<1>2. 0 \in Uids /\ Uids \subseteq Nat /\ trace[0].pid = Root
  BY <1>1, UidsAreNumbers, TraceAssumption
<1>3. LowestFirst /\ Checked
  BY <1>1 DEF LowestFirst, Checked, HandPlaces
<1>4. Shown
  BY <1>1, <1>2 DEF Shown, NoneBefore
<1>5. QED
  BY <1>3, <1>4, AllLoadedInit DEF OrderInv

(* When every file fits into the first batch: whatever the threads do at    *)
(* the same time, what a process and the one that made it did before a      *)
(* record was called is replayed before it, for any number of processes.    *)
THEOREM KinInOrder == Spec => []HappensBefore
<1>1. Init => Bookkeeping /\ OrderInv
  BY OrderInit, InitIsGood, ShapedInit, ThreadsCountedInit, FilesOrderedInit DEF Bookkeeping
<1>2. Bookkeeping /\ OrderInv /\ [Next]_vars => (Bookkeeping /\ OrderInv)'
  BY OrderStep, NextIsGood, ShapedStep, ThreadsCountedStep, FilesOrderedStep, FirstBatchingStep
     DEF Bookkeeping
<1>3. Bookkeeping /\ OrderInv => HappensBefore
  <2> SUFFICES ASSUME Bookkeeping, OrderInv, ShortFiles, NEW p \in Pids, pc[p] = "execute",
                      NEW u \in Uids, trace[u].returned < trace[cur[p]].called, Kin(p, trace[u].pid)
               PROVE  u \in executed
    BY DEF HappensBefore, At
  <2>1. trace[u].pid \in Pids
    BY TypesOfRecords DEF Bookkeeping, IInv, Typed
  <2>2. Cleared(p, trace[u].pid)
    BY <2>1 DEF OrderInv, Checked
  <2>3. QED
    BY <2>2 DEF Cleared
<1>4. QED
  BY <1>1, <1>2, <1>3, PTL DEF Spec

-----------------------------------------------------------------------------
(***************************************************************************)
(* One process, files of any length.                                       *)
(***************************************************************************)
LEMMA GateInit == Init => GateInv
<1> SUFFICES ASSUME Init, OneProcess PROVE GateInv
  BY DEF GateInv
<1>1. /\ number = [k \in Types |-> IF index[0] = k THEN 0 ELSE 1]
      /\ heap = [p \in Pids |-> {u \in Loaded \ {0} : trace[u].pid = p}]
      /\ reader = [at |-> "first", todo |-> Types, type |-> NoType,
                   size |-> FirstBatch, left |-> 0, pushed |-> NoRecord]
      /\ pc = [p \in Pids |-> "none"] /\ nThreads = 1 /\ Root \in Pids
  BY SchedulerAssumption DEF Init, Loaded
<1>2. \A k \in Types : Waits(k) = {} /\ Uncounted(k) = 0
  BY <1>1 DEF Waits, Uncounted
<1>3. Cardinality({}) = 0
  BY FS_EmptySet
<1>4. Balanced
  <2>1. ASSUME NEW k \in Types PROVE number[k] + Uncounted(k) <= Cardinality(Waits(k)) + 1
    <3>1. number[k] \in {0, 1} /\ Uncounted(k) = 0
      BY <1>1, <1>2
    <3>2. Cardinality(Waits(k)) = 0
      BY <1>2, <1>3
    <3>3. QED
      BY <3>1, <3>2
  <2>2. QED
    BY <2>1 DEF Balanced
<1>5. FirstStocked
  BY <1>1 DEF FirstStocked, Begins
<1>6. AllStocked /\ Steady
  BY <1>1 DEF AllStocked, Steady, HandPlaces
<1>7. QED
  BY <1>4, <1>5, <1>6 DEF GateInv

LEMMA WaitsIsFinite ==
    ASSUME IInv, NEW k
    PROVE  IsFiniteSet(Waits(k)) /\ Cardinality(Waits(k)) \in Nat
<1>1. Waits(k) \subseteq Uids /\ IsFiniteSet(Uids)
  BY TraceAssumption DEF Waits, OfType, Uids, IInv, Typed
<1>2. QED
  BY <1>1, FS_Subset, FS_CardinalityType

(* The reader puts u, the next record of k, in the heap.                   *)
LEMMA PushWaits ==
    ASSUME IInv, OneProcess, NEW u \in Uids, NEW k, trace[u].type = k, u \notin Loaded,
           InFile(u) \/ InModule(u), Push(u), pc' = pc, cur' = cur, trace' = trace
    PROVE  /\ Cardinality(Waits(k))' = Cardinality(Waits(k)) + 1
           /\ \A j : j # k => Waits(j)' = Waits(j)
           /\ heap'[Root] = heap[Root] \cup {u}
<1>1. heap \in [Pids -> SUBSET Uids] /\ trace[u].pid = Root /\ Root \in Pids
  BY TypesOfRecords, SchedulerAssumption DEF IInv, Typed, OneProcess
<1>2. heap'[Root] = heap[Root] \cup {u}
  BY <1>1 DEF Push
<1>3. u \notin heap[Root] /\ ~(pc[Root] = "count" /\ u = cur[Root])
  <2>1. ~InHeap(u) /\ ~Held(u)
    BY DEF IInv, EachOnce, OneOf
  <2>2. QED
    BY <1>1, <2>1 DEF InHeap, Held, InHand
<1>4. \A j : OfType(j)' = OfType(j) /\ Loaded' = Loaded
  BY DEF OfType, Uids, Loaded
<1>5. u \notin Waits(k)
  BY <1>3 DEF Waits
<1>6. u \in OfType(k)
  BY DEF OfType
<1>7. Waits(k)' = Waits(k) \cup {u}
  BY <1>2, <1>4, <1>6 DEF Waits
<1>8. ASSUME NEW j, j # k PROVE Waits(j)' = Waits(j)
  <2>1. u \notin OfType(j)
    BY <1>8 DEF OfType
  <2>2. QED
    BY <1>2, <1>4, <2>1 DEF Waits
<1>9. Cardinality(Waits(k) \cup {u}) = Cardinality(Waits(k)) + 1
  BY <1>5, WaitsIsFinite, FS_AddElement
<1>10. QED
  BY <1>2, <1>7, <1>8, <1>9

LEMMA BalancedByReader ==
    ASSUME Bookkeeping, OneProcess, Balanced, Reader
    PROVE  Balanced' /\ heap[Root] \subseteq heap'[Root]
<1>1. /\ IInv /\ reader \in ReaderStates /\ number \in [Types -> Int] /\ trace \in Traces
      /\ heap \in [Pids -> SUBSET Uids] /\ Root \in Pids /\ pc \in [Pids -> Places]
      /\ pending \in [Types -> Uids \cup {NoRecord}] /\ unread \subseteq Uids
      /\ NoType \notin Types
  BY SchedulerAssumption DEF Bookkeeping, IInv, Typed, Shaped
<1>2. /\ UNCHANGED <<trace, cur>> /\ \A j : OfType(j)' = OfType(j) /\ Loaded' = Loaded
  BY ReaderLeaves DEF OfType, Uids, Loaded
<1>3. ASSUME heap' = heap, pc' = pc \/ (pc[Root] = "none" /\ pc'[Root] = "pop")
      PROVE  \A k : Waits(k)' = Waits(k)
  BY <1>2, <1>3 DEF Waits
<1>4. reader.pushed # NoRecord =>
          /\ reader.pushed \in Uids \ Loaded /\ index[reader.pushed] = reader.type
          /\ reader.type # NoType /\ reader.type \in Types \ finished
  BY <1>1 DEF Bookkeeping, FilesOrdered, ReaderStates
<1>5. \A k : Cardinality(Waits(k)) \in Nat /\ Uncounted(k) \in {0, 1}
  BY <1>1, WaitsIsFinite DEF Uncounted
<1>6. \A k \in Types : number[k] \in Int
  BY <1>1
<1>7. CASE \E k \in Types : StartType(k)
  <2>1. PICK k \in Types : StartType(k)
    BY <1>7
  <2>2. /\ reader.type = NoType /\ pc' = pc /\ number' = number /\ finished' = finished
        /\ reader' = [reader EXCEPT !.todo = @ \ {k}, !.type = k, !.left = reader.size,
                                    !.pushed = pending[k]]
        /\ IF pending[k] = NoRecord THEN heap' = heap ELSE Push(pending[k])
    BY <2>1 DEF StartType, threadVars
  <2>3. reader'.type = k /\ reader'.pushed = pending[k]
    BY <1>1, <2>2 DEF ReaderStates
  <2>4. CASE pending[k] = NoRecord
    <3>1. \A j : Waits(j)' = Waits(j)
      BY <1>3, <2>2, <2>4
    <3>2. \A j \in Types : Uncounted(j) = 0 /\ Uncounted(j)' = 0
      BY <1>1, <2>2, <2>3, <2>4 DEF Uncounted
    <3>3. QED
      BY <2>2, <2>4, <3>1, <3>2 DEF Balanced
  <2>5. CASE pending[k] # NoRecord
    <3>1. PICK u \in Uids : u = pending[k]
      BY <1>1, <2>5
    <3>2. trace[u].type = k /\ u \notin Loaded /\ InModule(u)
      BY <1>1, <2>5, <3>1 DEF Bookkeeping, FilesOrdered, IInv, Homes, InModule
    <3>3. /\ Cardinality(Waits(k))' = Cardinality(Waits(k)) + 1
          /\ \A j : j # k => Waits(j)' = Waits(j)
          /\ heap'[Root] = heap[Root] \cup {u}
      BY <1>1, <1>2, <2>2, <2>5, <3>1, <3>2, PushWaits
    <3>4. \A j \in Types : Uncounted(j) = 0 /\ Uncounted(j)' = IF j = k THEN 1 ELSE 0
      BY <1>1, <2>2, <2>3, <2>5 DEF Uncounted
    <3>5. ASSUME NEW j \in Types \ finished
          PROVE  number[j] + Uncounted(j)' <= Cardinality(Waits(j))' + 1
      <4>1. number[j] + Uncounted(j) <= Cardinality(Waits(j)) + 1
        BY DEF Balanced
      <4>2. CASE j = k
        BY <1>5, <1>6, <3>3, <3>4, <4>1, <4>2
      <4>3. CASE j # k
        BY <1>5, <1>6, <3>3, <3>4, <4>1, <4>3
      <4>4. QED
        BY <4>2, <4>3
    <3>6. QED
      BY <2>2, <3>3, <3>5 DEF Balanced
  <2>6. QED
    BY <2>4, <2>5
<1>8. CASE CountPushed
  <2>1. /\ reader.pushed # NoRecord /\ Counted(reader.pushed, 1) /\ finished' = finished
        /\ reader' = [reader EXCEPT !.pushed = NoRecord] /\ heap' = heap /\ pc' = pc
    BY <1>8 DEF CountPushed, loadVars, threadVars
  <2>2. \A j \in Types : number'[j] = IF j = reader.type THEN number[j] + 1 ELSE number[j]
    BY <1>1, <1>4, <2>1, CountedChanges
  <2>3. \A j \in Types : Uncounted(j)' = 0 /\ Uncounted(j) = IF j = reader.type THEN 1 ELSE 0
    BY <1>1, <2>1 DEF Uncounted, ReaderStates
  <2>4. \A j : Waits(j)' = Waits(j)
    BY <1>3, <2>1
  <2>5. ASSUME NEW j \in Types \ finished
        PROVE  number'[j] + Uncounted(j)' <= Cardinality(Waits(j))' + 1
    <3>1. number[j] + Uncounted(j) <= Cardinality(Waits(j)) + 1
      BY DEF Balanced
    <3>2. QED
      BY <1>5, <1>6, <2>2, <2>3, <2>4, <3>1
  <2>6. QED
    BY <2>1, <2>5 DEF Balanced
<1>9. CASE ReadRow
  <2>1. reader.type \in Types
    BY <1>9 DEF ReadRow, Bookkeeping, FilesOrdered
  <2>2. PICK k \in Types : k = reader.type
    BY <2>1
  <2>3. PICK row : row = LowestOf(unread \cap OfType(k))
    OBVIOUS
  <2>4. /\ unread \cap OfType(k) # {} /\ reader.pushed = NoRecord /\ pc' = pc
        /\ number' = number /\ finished' = finished
        /\ IF reader.left > 2
           THEN Push(row) /\ reader' = [reader EXCEPT !.left = @ - 1, !.pushed = row]
           ELSE heap' = heap /\ reader' = [reader EXCEPT !.left = @ - 1]
    BY <1>9, <2>2, <2>3 DEF ReadRow, threadVars
  <2>5. row \in Uids /\ row \in unread /\ trace[row].type = k /\ row \notin Loaded /\ row # NoRecord
    BY <1>1, <2>3, <2>4, RowIsLowest DEF Bookkeeping, FilesOrdered, OfType, NoRecord
  <2>6. CASE reader.left > 2
    <3>1. /\ Cardinality(Waits(k))' = Cardinality(Waits(k)) + 1
          /\ \A j : j # k => Waits(j)' = Waits(j)
          /\ heap'[Root] = heap[Root] \cup {row}
      BY <1>1, <1>2, <2>4, <2>5, <2>6, PushWaits DEF InFile
    <3>2. \A j \in Types : Uncounted(j) = 0 /\ Uncounted(j)' = IF j = k THEN 1 ELSE 0
      BY <1>1, <2>2, <2>4, <2>5, <2>6 DEF Uncounted, ReaderStates
    <3>3. ASSUME NEW j \in Types \ finished
          PROVE  number[j] + Uncounted(j)' <= Cardinality(Waits(j))' + 1
      <4>1. number[j] + Uncounted(j) <= Cardinality(Waits(j)) + 1
        BY DEF Balanced
      <4>2. CASE j = k
        BY <1>5, <1>6, <3>1, <3>2, <4>1, <4>2
      <4>3. CASE j # k
        BY <1>5, <1>6, <3>1, <3>2, <4>1, <4>3
      <4>4. QED
        BY <4>2, <4>3
    <3>4. QED
      BY <2>4, <3>1, <3>3 DEF Balanced
  <2>7. CASE ~(reader.left > 2)
    <3>1. \A j : Waits(j)' = Waits(j)
      BY <1>3, <2>4, <2>7
    <3>2. \A j \in Types : Uncounted(j) = 0 /\ Uncounted(j)' = 0
      BY <1>1, <2>4, <2>7 DEF Uncounted, ReaderStates
    <3>3. QED
      BY <2>4, <2>7, <3>1, <3>2 DEF Balanced
  <2>8. QED
    BY <2>6, <2>7
<1>10. ASSUME heap' = heap, number' = number, finished \subseteq finished',
              pc' = pc \/ (pc[Root] = "none" /\ pc'[Root] = "pop"),
              reader'.pushed = NoRecord
       PROVE  Balanced' /\ heap[Root] \subseteq heap'[Root]
  <2>1. \A k : Waits(k)' = Waits(k) /\ Uncounted(k)' = 0
    BY <1>3, <1>10 DEF Uncounted
  <2>2. ASSUME NEW k \in Types \ finished'
        PROVE  number[k] + 0 <= Cardinality(Waits(k)) + 1
    <3>1. number[k] + Uncounted(k) <= Cardinality(Waits(k)) + 1
      BY <1>10 DEF Balanced
    <3>2. QED
      BY <1>5, <1>6, <3>1
  <2>3. QED
    BY <1>10, <2>1, <2>2 DEF Balanced
<1>11. reader.type = NoType \/ ~Batching => reader.pushed = NoRecord
  BY DEF Bookkeeping, FilesOrdered
<1>12. CASE EndOfRecord \/ BatchFull \/ \E k \in Types : SkipType(k)
  <2>1. /\ heap' = heap /\ number' = number /\ finished \subseteq finished' /\ pc' = pc
        /\ reader'.pushed = NoRecord
    BY <1>1, <1>11, <1>12 DEF EndOfRecord, BatchFull, SkipType, ReaderStates, loadVars, threadVars, sharedVars
  <2>2. QED
    BY <1>10, <2>1
<1>13. CASE EndBatch
  <2>1. /\ heap' = heap /\ number' = number /\ finished' = finished
        /\ reader' = [reader EXCEPT !.at = "loop"] /\ reader.pushed = NoRecord
        /\ pc' = IF reader.at = "first" THEN [pc EXCEPT ![Root] = "pop"] ELSE pc
    BY <1>11, <1>13 DEF EndBatch, loadVars, sharedVars
  <2>2. reader.at = "first" => pc[Root] = "none"
    BY <1>1 DEF IInv, Started
  <2>3. pc' = pc \/ (pc[Root] = "none" /\ pc'[Root] = "pop")
    BY <1>1, <2>1, <2>2
  <2>4. reader'.pushed = NoRecord
    BY <1>1, <2>1 DEF ReaderStates
  <2>5. QED
    BY <1>10, <2>1, <2>3, <2>4
<1>14. CASE ReaderEnds \/ ReaderDrains \/ DeleteNext \/ ReaderBatches
  <2>1. reader.pushed = NoRecord
    BY <1>11, <1>14 DEF ReaderEnds, ReaderDrains, DeleteNext, ReaderBatches, Batching
  <2>2. /\ heap' = heap /\ number' = number /\ finished' = finished /\ pc' = pc
        /\ reader'.pushed = reader.pushed
    BY <1>1, <1>14 DEF ReaderEnds, ReaderDrains, DeleteNext, ReaderBatches, ReaderStates, loadVars,
       threadVars, sharedVars
  <2>3. QED
    BY <1>10, <2>1, <2>2
<1>15. QED
  BY <1>7, <1>8, <1>9, <1>12, <1>13, <1>14 DEF Reader

LEMMA FirstStockedByReader ==
    ASSUME RoomySizes, Bookkeeping, OneProcess, Balanced, FirstStocked, Reader,
           heap[Root] \subseteq heap'[Root]
    PROVE  FirstStocked'
<1>1. /\ IInv /\ reader \in ReaderStates /\ number \in [Types -> Int] /\ trace \in Traces
      /\ NoType \notin Types /\ FirstBatch \in Nat /\ FirstBatch >= 3
      /\ heap \in [Pids -> SUBSET Uids] /\ Root \in Pids
  BY SchedulerAssumption DEF Bookkeeping, IInv, Typed, Shaped, RoomySizes
<1>2. \A k : OfType(k)' = OfType(k)
  BY ReaderLeaves DEF OfType, Uids
<1>3. \A k : Stocked(k) => Stocked(k)'
  BY <1>2 DEF Stocked
<1>4. SUFFICES ASSUME reader'.at = "first", NEW j \in Types \ finished', Begins(j)', Middle(j)'
               PROVE  Stocked(j)'
  BY DEF FirstStocked
<1>5. reader.at = "first" /\ finished \subseteq finished'
  BY <1>1, <1>4 DEF Reader, SkipType, StartType, CountPushed, ReadRow, EndOfRecord, BatchFull, EndBatch,
     ReaderEnds, ReaderDrains, DeleteNext, ReaderBatches, ReaderStates, loadVars
<1>6. j \notin finished /\ reader.size = FirstBatch
  BY <1>4, <1>5 DEF Bookkeeping, FirstBatching
<1>7. ASSUME Begins(j), Middle(j) PROVE Stocked(j)'
  BY <1>3, <1>5, <1>6, <1>7 DEF FirstStocked
<1>8. j \notin reader'.todo
  BY <1>4 DEF Begins
<1>9. CASE \E k \in Types : SkipType(k)
  <2>1. PICK k \in Types : SkipType(k)
    BY <1>9
  <2>2. /\ reader.type = NoType /\ (k \in finished \/ number[k] > 2 * FirstBatch)
        /\ reader' = [reader EXCEPT !.todo = @ \ {k}]
    BY <1>6, <2>1 DEF SkipType
  <2>3. reader'.todo = reader.todo \ {k}
    BY <1>1, <2>2 DEF ReaderStates
  <2>4. CASE j # k
    BY <1>1, <1>6, <1>7, <1>8, <2>2, <2>3, <2>4 DEF Begins, Middle
  <2>5. CASE j = k
    <3>1. number[j] > 6 /\ number[j] + Uncounted(j) <= Cardinality(Waits(j)) + 1
      BY <1>1, <1>6, <2>2, <2>5 DEF Balanced
    <3>2. Cardinality(Waits(j)) \in Nat /\ Uncounted(j) \in {0, 1} /\ number[j] \in Int
      BY <1>1, WaitsIsFinite DEF Uncounted
    <3>3. Waits(j) # {}
      BY <3>1, <3>2, FS_EmptySet
    <3>4. pc[Root] = "none"
      BY <1>1, <1>5 DEF IInv, Started
    <3>5. Stocked(j)
      BY <3>3, <3>4 DEF Waits, Stocked
    <3>6. QED
      BY <1>3, <3>5
  <2>6. QED
    BY <2>4, <2>5
<1>10. CASE \E k \in Types : StartType(k)
  <2>1. PICK k \in Types : StartType(k)
    BY <1>10
  <2>2. /\ reader.type = NoType
        /\ reader' = [reader EXCEPT !.todo = @ \ {k}, !.type = k, !.left = reader.size,
                                    !.pushed = pending[k]]
    BY <2>1 DEF StartType
  <2>3. reader'.todo = reader.todo \ {k} /\ reader'.type = k /\ reader'.left = FirstBatch
    BY <1>1, <1>6, <2>2 DEF ReaderStates
  <2>4. j # k
    BY <1>1, <1>4, <2>3 DEF Middle
  <2>5. QED
    BY <1>1, <1>6, <1>7, <1>8, <2>2, <2>3, <2>4 DEF Begins, Middle
<1>11. CASE ReadRow
  <2>1. reader.type \in Types
    BY <1>11 DEF ReadRow, Bookkeeping, FilesOrdered
  <2>2. PICK k \in Types : k = reader.type
    BY <2>1
  <2>3. PICK row : row = LowestOf(unread \cap OfType(k))
    OBVIOUS
  <2>4. /\ unread \cap OfType(k) # {} /\ reader.left > 1
        /\ IF reader.left > 2
           THEN Push(row) /\ reader' = [reader EXCEPT !.left = @ - 1, !.pushed = row]
           ELSE reader' = [reader EXCEPT !.left = @ - 1]
    BY <1>11, <2>2, <2>3 DEF ReadRow
  <2>5. reader'.todo = reader.todo /\ reader'.type = k /\ reader'.left = reader.left - 1
    BY <1>1, <2>2, <2>4 DEF ReaderStates
  <2>6. CASE j = k /\ reader.left > 2
    <3>1. row \in OfType(k) /\ row \in Uids
      BY <1>1, <2>3, <2>4, RowIsLowest DEF OfType
    <3>2. trace[row].pid = Root
      BY <1>1, <3>1, TypesOfRecords DEF OneProcess
    <3>3. row \in heap'[Root]
      BY <1>1, <2>4, <2>6, <3>2 DEF Push
    <3>4. QED
      BY <1>2, <2>6, <3>1, <3>3 DEF Stocked
  <2>7. CASE j # k \/ ~(reader.left > 2)
    BY <1>1, <1>6, <1>7, <1>8, <2>2, <2>4, <2>5, <2>7 DEF Begins, Middle, ReaderStates
  <2>8. QED
    BY <2>6, <2>7
<1>12. CASE EndOfRecord
  <2>1. /\ reader' = [reader EXCEPT !.type = NoType] /\ finished' = finished \cup {reader.type}
    BY <1>12 DEF EndOfRecord
  <2>2. reader'.todo = reader.todo /\ j # reader.type
    BY <1>1, <1>4, <2>1 DEF ReaderStates
  <2>3. QED
    BY <1>6, <1>7, <1>8, <2>2 DEF Begins, Middle
<1>13. CASE BatchFull
  <2>1. reader.left = 1 /\ reader' = [reader EXCEPT !.type = NoType]
    BY <1>13 DEF BatchFull
  <2>2. reader'.todo = reader.todo
    BY <1>1, <2>1 DEF ReaderStates
  <2>3. QED
    BY <1>1, <1>6, <1>7, <1>8, <2>1, <2>2 DEF Begins, Middle
<1>14. CASE CountPushed
  <2>1. reader' = [reader EXCEPT !.pushed = NoRecord]
    BY <1>14 DEF CountPushed
  <2>2. reader'.todo = reader.todo /\ reader'.type = reader.type /\ reader'.left = reader.left
    BY <1>1, <2>1 DEF ReaderStates
  <2>3. QED
    BY <1>4, <1>6, <1>7, <1>8, <2>2 DEF Begins, Middle
<1>15. QED
  BY <1>1, <1>4, <1>5, <1>9, <1>10, <1>11, <1>12, <1>13, <1>14 DEF Reader, EndBatch, ReaderEnds,
     ReaderDrains, DeleteNext, ReaderBatches, ReaderStates

LEMMA GateInvByReader ==
    ASSUME RoomySizes, Bookkeeping, OneProcess, Balanced, FirstStocked, AllStocked, Steady, Reader
    PROVE  Balanced' /\ FirstStocked' /\ AllStocked' /\ Steady'
<1>1. IInv /\ pc \in [Pids -> Places] /\ Root \in Pids
  BY SchedulerAssumption DEF Bookkeeping, IInv, Typed
<1>2. Balanced' /\ heap[Root] \subseteq heap'[Root]
  BY BalancedByReader
<1>3. FirstStocked'
  BY <1>2, FirstStockedByReader
<1>4. UNCHANGED <<trace, nThreads, cur, executed>> /\ (pc' = pc \/ (EndBatch /\ reader.at = "first"))
  BY ReaderLeaves
<1>5. \A k : Stocked(k) => Stocked(k)'
  BY <1>2, <1>4 DEF Stocked, OfType, Uids
<1>6. finished \subseteq finished'
  BY DEF Reader, SkipType, StartType, CountPushed, ReadRow, EndOfRecord, BatchFull, EndBatch,
     ReaderEnds, ReaderDrains, DeleteNext, ReaderBatches, loadVars
<1>7. CASE pc' = pc
  BY <1>2, <1>3, <1>4, <1>5, <1>6, <1>7 DEF AllStocked, Steady, NoneBefore, Uids
<1>8. CASE EndBatch /\ reader.at = "first"
  <2>1. pc' = [pc EXCEPT ![Root] = "pop"] /\ reader.todo = {} /\ reader.type = NoType
    BY <1>8 DEF EndBatch
  <2>2. pc'[Root] = "pop"
    BY <1>1, <2>1
  <2>3. \A k \in Types \ finished : Stocked(k)
    BY <1>8, <2>1, SchedulerAssumption DEF FirstStocked, Begins, Middle
  <2>4. AllStocked'
    BY <1>5, <1>6, <2>3 DEF AllStocked
  <2>5. Steady'
    BY <1>4, <2>2 DEF Steady, HandPlaces
  <2>6. QED
    BY <1>2, <1>3, <2>4, <2>5
<1>9. QED
  BY <1>4, <1>7, <1>8

-----------------------------------------------------------------------------
(* With a record of each unfinished file in the heap, its lowest record is  *)
(* the next of the trace: what is still in a file or a module comes later.  *)
LEMMA TopIsNext ==
    ASSUME Bookkeeping, OneProcess, AllStocked, pc[Root] = "pop", heap[Root] # {}
    PROVE  Top(Root) \in heap[Root] /\ Top(Root) \in Uids /\ NoneBefore(Root, Top(Root))
<1>1. /\ IInv /\ trace \in Traces /\ heap \in [Pids -> SUBSET Uids] /\ Root \in Pids
      /\ Uids \subseteq Nat
  BY SchedulerAssumption, UidsAreNumbers DEF Bookkeeping, IInv, Typed
<1>2. PICK t : t = Top(Root)
  OBVIOUS
<1>3. t \in heap[Root] /\ \A v \in heap[Root] : t <= v
  <2>1. heap[Root] \subseteq Nat
    BY <1>1
  <2>2. QED
    BY <1>2, <2>1, LowestIsIn DEF Top
<1>4. ASSUME NEW u \in Uids, u \notin executed PROVE t <= u
  <2>1. trace[u].pid = Root /\ trace[u].type \in Types
    BY <1>1, TypesOfRecords DEF OneProcess
  <2>2. PICK k \in Types : k = trace[u].type
    BY <2>1
  <2>3. ~Held(u)
    BY <2>1 DEF Held, InHand
  <2>4. u \in unread \/ pending[k] = u \/ u \in heap[Root]
    BY <1>1, <1>4, <2>1, <2>2, <2>3 DEF IInv, EachOnce, OneOf, InFile, InModule, InHeap, Done
  <2>5. CASE u \in heap[Root]
    BY <1>3, <2>5
  <2>6. CASE u \in unread \/ pending[k] = u
    <3>1. u \in OfType(k) /\ u # NoRecord
      BY <1>1, <2>2 DEF OfType, NoRecord
    <3>2. k \notin finished
      BY <2>6, <3>1 DEF Bookkeeping, FilesOrdered
    <3>3. PICK w \in heap[Root] : w \in OfType(k)
      BY <3>2 DEF AllStocked, Stocked
    <3>4. w \in Uids /\ trace[w].pid = Root /\ trace[w].type = k
      BY <1>1, <3>3, TypesOfRecords DEF OneProcess, OfType
    <3>5. w \notin unread
      BY <1>1, <3>3, <3>4 DEF IInv, EachOnce, OneOf, InFile, InHeap
    <3>6. w <= u
      <4>1. CASE u \in unread
        BY <1>1, <2>2, <3>4, <3>5, <4>1 DEF Bookkeeping, FilesOrdered
      <4>2. CASE pending[k] = u
        BY <3>1, <3>3, <3>5, <4>2 DEF Bookkeeping, FilesOrdered
      <4>3. QED
        BY <2>6, <4>1, <4>2
    <3>7. t <= w /\ t \in Nat /\ w \in Nat /\ u \in Nat
      BY <1>1, <1>3, <3>3
    <3>8. QED
      BY <3>6, <3>7
  <2>7. QED
    BY <2>4, <2>5, <2>6
<1>5. t \in Uids
  BY <1>1, <1>3
<1>6. QED
  BY <1>2, <1>3, <1>4, <1>5 DEF NoneBefore

LEMMA GateInvByThread ==
    ASSUME RoomySizes, Bookkeeping, OneProcess, Balanced, AllStocked, Steady,
           NEW p \in Pids, Thread(p)
    PROVE  Balanced' /\ FirstStocked' /\ AllStocked' /\ Steady'
<1>1. /\ IInv /\ Shaped /\ pc \in [Pids -> Places] /\ Root \in Pids /\ p = Root /\ trace \in Traces
      /\ number \in [Types -> Int] /\ cur \in [Pids -> Uids \cup {NoRecord}]
      /\ heap \in [Pids -> SUBSET Uids] /\ NoRecord \notin Uids
  BY SchedulerAssumption, UidsAreNumbers DEF Bookkeeping, IInv, Typed, Shaped, OneProcess, NoRecord
<1>2. UNCHANGED <<trace, index, unread, pending, finished, reader>> /\ pc[Root] # "none"
  BY <1>1, ThreadLeaves, ThreadMoves DEF Active
<1>3. reader.at # "first" /\ FirstStocked'
  BY <1>1, <1>2 DEF IInv, Started, FirstStocked
<1>4. \A j : OfType(j)' = OfType(j) /\ Loaded' = Loaded /\ Uids' = Uids /\ Uncounted(j)' = Uncounted(j)
  BY <1>2 DEF OfType, Uids, Loaded, Uncounted
<1>6. ASSUME NEW j \in Types \ finished
      PROVE  /\ number[j] + Uncounted(j) <= Cardinality(Waits(j)) + 1 /\ number[j] \in Int
             /\ Cardinality(Waits(j)) \in Nat /\ Uncounted(j) \in {0, 1}
  BY <1>1, WaitsIsFinite DEF Balanced, Uncounted
<1>7. ASSUME number' = number, \A j : Waits(j)' = Waits(j) PROVE Balanced'
  <2>1. \A j \in Types \ finished : number[j] + Uncounted(j) <= Cardinality(Waits(j)) + 1
    BY <1>6
  <2>2. QED
    BY <1>2, <1>4, <1>7, <2>1 DEF Balanced
<1>8. heap' = heap => \A j : Stocked(j)' <=> Stocked(j)
  BY <1>4 DEF Stocked
<1>9. CASE Pop(p)
  <2>1. /\ pc[Root] = "pop" /\ heap[Root] # {} /\ pc'[Root] = "count"
        /\ cur'[Root] = Top(Root) /\ heap'[Root] = heap[Root] \ {Top(Root)}
        /\ UNCHANGED <<number, nThreads, executed>>
    BY <1>1, <1>9 DEF Pop, At, Goto
  <2>2. Top(Root) \in heap[Root] /\ NoneBefore(Root, Top(Root))
    BY <2>1, TopIsNext
  <2>3. \A j : Waits(j)' = Waits(j)
    BY <1>4, <2>1, <2>2 DEF Waits
  <2>4. AllStocked'
    BY <2>1 DEF AllStocked
  <2>5. Steady'
    BY <1>2, <1>4, <2>1, <2>2 DEF Steady, NoneBefore
  <2>6. QED
    BY <1>3, <1>7, <2>1, <2>3, <2>4, <2>5
<1>10. CASE CountPopped(p)
  <2>1. /\ pc[Root] = "count" /\ pc'[Root] = "gate" /\ Counted(cur[Root], -1)
        /\ UNCHANGED <<cur, heap, nThreads, executed>>
    BY <1>1, <1>10 DEF CountPopped, At, Goto
  <2>2. PICK r : r = cur[Root]
    OBVIOUS
  <2>3. r \in Uids /\ r \notin heap[Root] /\ trace[r].pid = Root
    <3>1. r \in Uids /\ trace[r].pid = Root /\ Held(r)
      BY <1>1, <2>1, <2>2, HandRecord DEF HandPlaces, Held, InHand
    <3>2. QED
      BY <1>1, <3>1 DEF IInv, EachOnce, OneOf, InHeap
  <2>4. \A j \in Types : number'[j] = IF j = index[r] /\ j \notin finished THEN number[j] - 1
                                      ELSE number[j]
    BY <1>1, <2>1, <2>2, CountedChanges
  <2>5. \A j : Waits(j)' = Waits(j) \ {r}
    BY <1>4, <2>1, <2>2, <2>3 DEF Waits
  <2>6. ASSUME NEW j \in Types \ finished
        PROVE  number'[j] + Uncounted(j) <= Cardinality(Waits(j) \ {r}) + 1
    <3>1. Cardinality(Waits(j) \ {r}) = IF r \in Waits(j) THEN Cardinality(Waits(j)) - 1
                                        ELSE Cardinality(Waits(j))
      BY <1>1, WaitsIsFinite, FS_RemoveElement
    <3>2. r \in Waits(j) => index[r] = j
      BY <2>3 DEF Waits, OfType, Bookkeeping, FilesOrdered
    <3>3. QED
      BY <1>6, <2>4, <3>1, <3>2
  <2>7. Balanced'
    BY <1>2, <1>4, <2>5, <2>6 DEF Balanced
  <2>8. AllStocked' /\ Steady'
    BY <1>2, <1>4, <2>1 DEF AllStocked, Steady, NoneBefore, HandPlaces
  <2>9. QED
    BY <1>3, <2>7, <2>8
<1>11. CASE Gate(p)
  <2>1. /\ pc[Root] = "gate" /\ pc'[Root] = "queue"
        /\ ~MinBelow(Low * nThreads) \/ checkModulesFinished
        /\ UNCHANGED <<number, cur, heap, nThreads, executed>>
    BY <1>1, <1>11 DEF Gate, At, Goto
  <2>2. \A j : Waits(j)' = Waits(j)
    BY <1>4, <2>1 DEF Waits
  <2>3. ASSUME NEW j \in Types \ finished PROVE Stocked(j)
    <3>1. Low \in Nat /\ Low >= 2 /\ nThreads = 1
      BY SchedulerAssumption DEF RoomySizes, Steady
    <3>2. ~(number[j] < Low * nThreads)
      BY <2>1, <2>3 DEF MinBelow, checkModulesFinished
    <3>3. number[j] >= 2
      BY <1>6, <3>1, <3>2
    <3>4. Cardinality(Waits(j)) >= 1
      BY <1>6, <3>3
    <3>5. PICK w : w \in Waits(j)
      BY <3>4, FS_EmptySet
    <3>6. QED
      BY <2>1, <3>5 DEF Waits, Stocked
  <2>4. AllStocked'
    BY <1>2, <1>8, <2>1, <2>3 DEF AllStocked
  <2>5. Steady'
    BY <1>2, <1>4, <2>1 DEF Steady, NoneBefore, HandPlaces
  <2>6. QED
    BY <1>3, <1>7, <2>1, <2>2, <2>4, <2>5
<1>12. CASE QueuePrevious(p)
  <2>1. nThreads = 1
    BY DEF Steady
  <2>2. /\ pc[Root] = "queue" /\ pc'[Root] = "execute"
        /\ UNCHANGED <<number, cur, heap, nThreads, executed>>
    BY <1>1, <1>12, <2>1 DEF QueuePrevious, At, Goto
  <2>3. \A j : Waits(j)' = Waits(j)
    BY <1>4, <2>2 DEF Waits
  <2>4. AllStocked' /\ Steady'
    BY <1>2, <1>4, <1>8, <2>2 DEF AllStocked, Steady, NoneBefore, HandPlaces
  <2>5. QED
    BY <1>3, <1>7, <2>2, <2>3, <2>4
<1>13. CASE Execute(p) \/ StoreLast(p)
  <2>1. Execute(p) => trace[cur[p]].child = NoChild
    BY <1>1, CloneStarts DEF Execute, At, OneProcess
  <2>2. /\ pc[Root] \in {"execute", "store"} /\ pc'[Root] \in {"store", "pop"}
        /\ UNCHANGED <<number, heap, nThreads>>
    BY <1>1, <1>13, <2>1 DEF Execute, StoreLast, At, Goto
  <2>3. \A j : Waits(j)' = Waits(j)
    BY <1>4, <2>2 DEF Waits
  <2>4. AllStocked' /\ Steady'
    BY <1>2, <1>8, <2>2 DEF AllStocked, Steady, HandPlaces
  <2>5. QED
    BY <1>3, <1>7, <2>2, <2>3, <2>4
<1>14. CASE ThreadEnds(p)
  <2>1. pc[Root] = "pop" /\ pc'[Root] = "ended" /\ UNCHANGED <<number, heap, nThreads>>
    BY <1>1, <1>14 DEF ThreadEnds, At, Goto
  <2>2. \A j : Waits(j)' = Waits(j)
    BY <1>4, <2>1 DEF Waits
  <2>3. AllStocked' /\ Steady'
    BY <2>1 DEF AllStocked, Steady, HandPlaces
  <2>4. QED
    BY <1>3, <1>7, <2>1, <2>2, <2>3
<1>15. QED
  BY <1>1, <1>9, <1>10, <1>11, <1>12, <1>13, <1>14 DEF Thread, ReadRunning, Compare, CheckPasses,
     Reject, PutBack, At, Steady

OneInv == Bookkeeping /\ GateInv

LEMMA OneInvKept ==
    ASSUME RoomySizes, OneProcess
    PROVE  /\ Init => OneInv
           /\ OneInv /\ [Next]_vars => OneInv'
<1>1. Init => OneInv
  BY GateInit, InitIsGood, ShapedInit, ThreadsCountedInit, FilesOrderedInit DEF OneInv, Bookkeeping
<1>2. ASSUME OneInv, [Next]_vars PROVE OneInv'
  <2>1. Bookkeeping'
    BY <1>2, NextIsGood, ShapedStep, ThreadsCountedStep, FilesOrderedStep, FirstBatchingStep
       DEF OneInv, Bookkeeping
  <2>2. Balanced /\ FirstStocked /\ AllStocked /\ Steady
    BY <1>2 DEF OneInv, GateInv
  <2>3. CASE Joined \/ UNCHANGED vars
    <3>1. UNCHANGED <<trace, heap, pc, cur, number, finished, reader, nThreads, executed>>
      BY <2>3 DEF Joined, vars, sourceVars, loadVars, threadVars, sharedVars
    <3>2. QED
      BY <2>1, <2>2, <3>1 DEF OneInv, GateInv, Balanced, FirstStocked, AllStocked, Steady, Waits,
         Uncounted, Stocked, Begins, Middle, NoneBefore, OfType, Uids, Loaded
  <2>4. GateInv'
    BY <1>2, <2>2, <2>3, GateInvByReader, GateInvByThread DEF Next, OneInv, GateInv
  <2>5. QED
    BY <2>1, <2>4 DEF OneInv
<1>3. QED
  BY <1>1, <1>2

(* One process, files of any length: the gate, which asks for two records   *)
(* or more of each unfinished file, keeps the thread from running ahead of  *)
(* a record that is still in its file.                                     *)
THEOREM OneProcessInOrder ==
    ASSUME RoomySizes, OneProcess
    PROVE  Spec => []ProgramOrder
<1>1. OneInv => ProgramOrder
  <2> SUFFICES ASSUME OneInv, NEW p \in Pids, pc[p] = "execute",
                      NEW u \in Uids, trace[u].pid = p, u < cur[p], u \notin executed
               PROVE  FALSE
    BY DEF ProgramOrder, At
  <2>1. p = Root
    BY DEF OneProcess
  <2>2. cur[Root] <= u
    BY <2>1 DEF OneInv, GateInv, Steady, NoneBefore, HandPlaces
  <2>3. cur[Root] \in Nat /\ u \in Nat
    BY <2>1, HandRecord, UidsAreNumbers DEF OneInv, Bookkeeping, IInv, Typed, HandPlaces
  <2>4. QED
    BY <2>1, <2>2, <2>3
<1>2. QED
  BY OneInvKept, <1>1, PTL DEF Spec

-----------------------------------------------------------------------------
(* What is due before r is earlier in the trace.                           *)
LEMMA DueIsEarlier ==
    ASSUME trace \in Traces, NEW r \in Uids, NEW u \in Promise!Due(r)
    PROVE  u \in Uids /\ u < r
<1>1. /\ u \in Uids
      /\ trace[u].returned < trace[r].called \/ trace[u].called < trace[r].called
  BY DEF Promise!Due, Uids
<1>2. u \in Nat /\ r \in Nat /\ trace[u].called \in Nat /\ trace[r].called \in Nat
  BY <1>1, UidsAreNumbers, TraceAssumption DEF Uids
<1>3. u # r /\ ~(r < u)
  <2>1. r <= u => ~(trace[u].returned < trace[r].called)
    BY <1>1, LaterNotBefore
  <2>2. r < u => trace[r].called < trace[u].called
    BY <1>1, TraceAssumption DEF Uids
  <2>3. QED
    BY <1>1, <1>2, <2>1, <2>2
<1>4. QED
  BY <1>1, <1>2, <1>3

(* A step of the scheduler is a step of the promise: it replays the next    *)
(* record, once, or nothing.                                               *)
LEMMA StepKeepsPromise ==
    ASSUME OneProcess, OneInv, [Next]_vars
    PROVE  [Promise!Next]_(Promise!vars)
<1>1. trace' = trace
  BY ReaderLeaves, ThreadLeaves DEF Next, Joined, vars, sourceVars
<1>2. CASE executed' = executed
  BY <1>1, <1>2 DEF Promise!vars
<1>3. ASSUME NEW p \in Pids, Execute(p) PROVE Promise!Next
  <2>1. p = Root /\ pc[p] = "execute" /\ pc[p] \in HandPlaces /\ executed' = executed \cup {cur[p]}
    BY <1>3 DEF OneProcess, Execute, At, HandPlaces
  <2>2. IInv /\ trace \in Traces
    BY DEF OneInv, Bookkeeping, IInv, Typed
  <2>3. cur[p] \in Uids /\ cur[p] \notin executed
    BY <2>1, <2>2, HandRecord
  <2>4. NoneBefore(Root, cur[p])
    BY <2>1 DEF OneProcess, OneInv, GateInv, Steady
  <2>5. ASSUME NEW u \in Promise!Due(cur[p]) PROVE u \in executed
    <3>1. u \in Uids /\ u < cur[p]
      BY <2>2, <2>3, DueIsEarlier
    <3>2. trace[u].pid = Root /\ u \in Nat /\ cur[p] \in Nat
      BY <2>2, <2>3, <3>1, TypesOfRecords, UidsAreNumbers DEF OneProcess
    <3>3. QED
      BY <2>4, <3>1, <3>2 DEF NoneBefore
  <2>6. Promise!Replay(cur[p])
    BY <1>1, <2>1, <2>3, <2>5 DEF Promise!Replay
  <2>7. QED
    BY <2>3, <2>6 DEF Promise!Next, Uids
<1>4. executed' = executed \/ \E p \in Pids : Execute(p)
  BY ReaderLeaves, ThreadLeaves DEF Next, Joined, vars
<1>5. QED
  BY <1>2, <1>3, <1>4

(* The queue, batches and counters of one process implement TraceReplay:    *)
(* each record once, in the order of the trace.                            *)
THEOREM OneProcessKeepsPromise ==
    ASSUME RoomySizes, OneProcess
    PROVE  Spec => ReplaySpec
<1>1. Init => Promise!Init
  <2> SUFFICES ASSUME Init PROVE Promise!Init
    OBVIOUS
  <2>1. trace \in Traces /\ executed = {0} /\ 0 \in Uids
    BY UidsAreNumbers DEF Init
  <2>2. Promise!Due(0) = {}
    <3>1. ASSUME NEW u \in Promise!Due(0) PROVE FALSE
      <4>1. u \in Uids /\ u < 0
        BY <2>1, DueIsEarlier
      <4>2. u \in Nat
        BY <2>1, <4>1, UidsAreNumbers
      <4>3. QED
        BY <4>1, <4>2
    <3>2. QED
      BY <3>1
  <2>3. QED
    BY <2>1, <2>2 DEF Promise!Init, Uids
<1>2. OneInv /\ [Next]_vars => [Promise!Next]_(Promise!vars)
  BY StepKeepsPromise
<1>3. QED
  BY OneInvKept, <1>1, <1>2, PTL DEF Spec, ReplaySpec, Promise!Spec
=============================================================================
