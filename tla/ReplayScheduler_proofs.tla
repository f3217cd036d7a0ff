----------------------- MODULE ReplayScheduler_proofs -----------------------
(***************************************************************************)
(* However the reader and the threads interleave, and whatever the sizes   *)
(* of batches, gate and window: no record is lost, taken twice or replayed *)
(* twice, and none is deleted that a thread may still look at.             *)
(***************************************************************************)
EXTENDS ReplayScheduler, SequenceTheorems, FiniteSetTheorems, WellFoundedInduction, TLAPS

HandPlaces == {"count", "gate", "queue", "check", "compare", "reject", "putback", "execute"}

ReaderStates ==
    [at : {"first", "loop", "drain", "batch", "ended"}, todo : SUBSET Types,
     type : Types \cup {NoType}, size : Nat, left : Nat, pushed : Uids \cup {NoRecord}]

Typed ==
    /\ trace \in Traces
    /\ unread \subseteq Uids /\ executed \subseteq Uids /\ 0 \in executed
    /\ pending \in [Types -> Uids \cup {NoRecord}]
    /\ heap \in [Pids -> SUBSET Uids]
    /\ queue \in Seq(Uids) /\ deleted \subseteq Uids
    /\ nThreads \in Nat \ {0}
    /\ reader \in ReaderStates
    /\ pc \in [Pids -> Places]
    /\ cur \in [Pids -> Uids \cup {NoRecord}] /\ prev \in [Pids -> Uids \cup {NoRecord}]

\* Modules, heaps and threads have records of their own file or process.
Homes ==
    /\ \A k \in Types : pending[k] # NoRecord => trace[pending[k]].type = k
    /\ \A p \in Pids : \A u \in heap[p] : trace[u].pid = p
    /\ \A p \in Pids : \A u \in InHand(p) : u \in Uids /\ trace[u].pid = p

\* The places of a record, given the one file and process it can be at.
InFile(u) == u \in unread
InModule(u) == pending[trace[u].type] = u
InHeap(u) == u \in heap[trace[u].pid]
Held(u) == u \in InHand(trace[u].pid)
Done(u) == u \in executed

OneOf(u) ==
    /\ InFile(u) \/ InModule(u) \/ InHeap(u) \/ Held(u) \/ Done(u)
    /\ InFile(u) => ~InModule(u) /\ ~InHeap(u) /\ ~Held(u) /\ ~Done(u)
    /\ InModule(u) => ~InHeap(u) /\ ~Held(u) /\ ~Done(u)
    /\ InHeap(u) => ~Held(u) /\ ~Done(u)
    /\ Held(u) => ~Done(u)

EachOnce == \A u \in Uids : OneOf(u)

\* While rows are read the module keeps none, and so none is overwritten.
ModuleFree ==
    reader.type # NoType /\ reader.left > 1 => pending[reader.type] = NoRecord

\* A thread runs after it was started, once.
Started ==
    /\ reader.at = "first" => \A p \in Pids : pc[p] = "none"
    /\ \A p \in Pids : pc[p] # "none" /\ p # Root => \E u \in executed : trace[u].child = p

\* Records on the way to deletion: in the queue, deleted, or with their thread.
Queued(u) == \E i \in 1 .. Len(queue) : queue[i] = u
Gone(u) == Queued(u) \/ u \in deleted

QueuedOnce ==
    /\ \A i, j \in 1 .. Len(queue) : queue[i] = queue[j] => i = j
    /\ \A u \in deleted : ~Queued(u)

Replayed(u, p) == u \in executed /\ u # 0 /\ trace[u].pid = p /\ ~Gone(u)

GoneLast ==
    /\ \A u \in Uids : Gone(u) => u \in executed /\ u # 0
    /\ \A p \in Pids :
          /\ pc[p] \in {"pop", "count", "gate", "queue"} /\ prev[p] # NoRecord
                => Replayed(prev[p], p)
          /\ pc[p] = "store" => Replayed(cur[p], p)
          /\ pc[p] = "none" => prev[p] = NoRecord

\* What the others find a thread running is what it has, or what it had last.
RunPlaces == {"queue", "check", "compare", "reject", "execute", "store"}

Running ==
    \A q \in DOMAIN running :
        \/ running[q] \in {NoRecord, 0}
        \/ q \in Pids /\ pc[q] \in {"pop", "count", "gate"} /\ running[q] = prev[q]
        \/ q \in Pids /\ pc[q] \in RunPlaces /\ running[q] = cur[q]

IInv == Typed /\ Homes /\ EachOnce /\ ModuleFree /\ Started /\ QueuedOnce /\ GoneLast /\ Running

-----------------------------------------------------------------------------
(* A set of unique ids has a lowest one.                                   *)
LEMMA LowestIsIn ==
    ASSUME NEW S, S \subseteq Nat, S # {}
    PROVE  LowestOf(S) \in S /\ \A v \in S : LowestOf(S) <= v
<1>1. PICK n \in S : \A m \in S : ~(<<m, n>> \in OpToRel(<, Nat))
  BY NatLessThanWellFounded, WFMin
<1>2. OpToRel(<, Nat) = {ss \in Nat \X Nat : ss[1] < ss[2]}
  BY DEF OpToRel
<1>3. \A m \in S : ~(m < n)
  BY <1>1, <1>2
<1>4. QED
  <2>1. \A m \in S : n <= m
    BY <1>3
  <2>2. QED
    BY <2>1 DEF LowestOf

LEMMA UidsAreNumbers ==
    ASSUME trace \in Traces
    PROVE  Uids \subseteq Nat /\ 0 \in Uids /\ \A u \in Uids : trace[u].pid \in Pids
<1>1. Cardinality(DOMAIN trace) \in Nat
  BY TraceAssumption, FS_CardinalityType
<1>2. DOMAIN trace = 0 .. Cardinality(DOMAIN trace) - 1 /\ 0 \in DOMAIN trace
  BY TraceAssumption
<1>3. \A u \in DOMAIN trace : trace[u].pid \in Pids
  BY TraceAssumption
<1>4. QED
  BY <1>1, <1>2, <1>3 DEF Uids

\* The facts of the typing that every step needs, without the invariant.
LEMMA TypesOfRecords ==
    ASSUME trace \in Traces, NEW u \in Uids
    PROVE  trace[u].type \in Types /\ trace[u].pid \in Pids
BY TraceAssumption DEF Uids

-----------------------------------------------------------------------------
(***************************************************************************)
(* Steps that leave a part of the invariant alone.                         *)
(***************************************************************************)
LEMMA PlacesStay ==
    ASSUME Homes, EachOnce, UNCHANGED <<trace, unread, pending, heap, executed>>,
           \A p \in Pids : InHand(p)' = InHand(p), trace \in Traces
    PROVE  Homes' /\ EachOnce'
<1>1. Homes'
  BY DEF Homes, Uids
<1>2. ASSUME NEW u \in Uids PROVE OneOf(u)'
  <2>1. OneOf(u) /\ trace[u].pid \in Pids
    BY TypesOfRecords DEF EachOnce
  <2>2. QED
    BY <2>1 DEF OneOf, InFile, InModule, InHeap, Held, Done
<1>3. QED
  BY <1>1, <1>2 DEF EachOnce, Uids

LEMMA GoneStay ==
    ASSUME QueuedOnce, UNCHANGED <<queue, deleted>>
    PROVE  QueuedOnce' /\ \A u : Gone(u)' <=> Gone(u)
BY DEF QueuedOnce, Gone, Queued

-----------------------------------------------------------------------------
(***************************************************************************)
(* The reader.                                                             *)
(***************************************************************************)
ReaderMoves ==
    /\ reader' \in ReaderStates /\ (reader'.at = "first" => reader.at = "first")
    /\ UNCHANGED <<trace, unread, pending, pc, cur, prev, heap, running, queue, deleted,
                   nThreads, executed>>

LEMMA ReaderMovesIsGood ==
    ASSUME IInv, ReaderMoves, ModuleFree'
    PROVE  IInv'
<1>1. Typed'
  BY DEF IInv, ReaderMoves, Typed, Uids, ReaderStates
<1>2. Homes' /\ EachOnce'
  BY PlacesStay DEF IInv, Typed, ReaderMoves, InHand
<1>3. Started'
  BY DEF IInv, ReaderMoves, Started
<1>4. QueuedOnce' /\ \A u : Gone(u)' <=> Gone(u)
  BY GoneStay DEF IInv, ReaderMoves
<1>5. GoneLast'
  BY <1>4 DEF IInv, ReaderMoves, GoneLast, Replayed, Uids
<1>6. Running'
  BY DEF IInv, ReaderMoves, Running
<1>7. QED
  BY <1>1, <1>2, <1>3, <1>4, <1>5, <1>6 DEF IInv

LEMMA SmallReaderStepsAreGood ==
    ASSUME IInv,
           \/ \E k \in Types : SkipType(k)
           \/ CountPushed \/ EndOfRecord \/ BatchFull
           \/ ReaderEnds \/ ReaderDrains \/ ReaderBatches
    PROVE  IInv'
<1>1. reader \in ReaderStates /\ nThreads \in Nat
  BY DEF IInv, Typed
<1>2. ASSUME NEW k \in Types, SkipType(k) PROVE IInv'
  <2>1. ReaderMoves
    BY <1>1, <1>2 DEF SkipType, ReaderMoves, ReaderStates, sourceVars, loadVars, threadVars, sharedVars
  <2>2. ModuleFree'
    BY <1>1, <1>2 DEF IInv, SkipType, ModuleFree, ReaderStates, loadVars
  <2>3. QED
    BY <2>1, <2>2, ReaderMovesIsGood
<1>3. CASE CountPushed
  <2>1. ReaderMoves
    BY <1>1, <1>3 DEF CountPushed, ReaderMoves, ReaderStates, sourceVars, loadVars, threadVars, sharedVars
  <2>2. ModuleFree'
    BY <1>1, <1>3 DEF IInv, CountPushed, ModuleFree, ReaderStates, loadVars
  <2>3. QED
    BY <2>1, <2>2, ReaderMovesIsGood
<1>4. CASE EndOfRecord \/ BatchFull
  <2>1. ReaderMoves
    BY <1>1, <1>4 DEF EndOfRecord, BatchFull, ReaderMoves, ReaderStates, sourceVars, loadVars,
       threadVars, sharedVars
  <2>2. ModuleFree'
    BY <1>1, <1>4 DEF IInv, EndOfRecord, BatchFull, ModuleFree, ReaderStates, loadVars
  <2>3. QED
    BY <2>1, <2>2, ReaderMovesIsGood
<1>5. CASE ReaderEnds \/ ReaderDrains
  <2>1. ReaderMoves
    BY <1>1, <1>5 DEF ReaderEnds, ReaderDrains, ReaderMoves, ReaderStates, sourceVars, loadVars,
       threadVars, sharedVars
  <2>2. ModuleFree'
    BY <1>1, <1>5 DEF IInv, ReaderEnds, ReaderDrains, ModuleFree, ReaderStates, loadVars
  <2>3. QED
    BY <2>1, <2>2, ReaderMovesIsGood
<1>6. CASE ReaderBatches
  <2>1. Batch * nThreads \in Nat
    BY <1>1, SchedulerAssumption
  <2> DEFINE size == Batch * nThreads
  <2>2. /\ reader' = [reader EXCEPT !.at = "batch", !.todo = Types, !.size = size]
        /\ UNCHANGED <<sourceVars, loadVars, threadVars, sharedVars, executed>>
    BY <1>6 DEF ReaderBatches
  <2> HIDE DEF size
  <2>3. size \in Nat
    BY <2>1 DEF size
  <2>4. ReaderMoves
    BY <1>1, <2>2, <2>3 DEF ReaderMoves, ReaderStates, sourceVars, loadVars, threadVars, sharedVars
  <2>5. ModuleFree'
    BY <1>1, <2>2 DEF IInv, ModuleFree, ReaderStates, loadVars
  <2>6. QED
    BY <2>4, <2>5, ReaderMovesIsGood
<1>7. QED
  BY <1>2, <1>3, <1>4, <1>5, <1>6

(* A record moves into the heap of its process, from the module or the     *)
(* file: the thread's part of the invariant is not concerned.              *)
LEMMA ReaderPartIsGood ==
    ASSUME IInv, Typed', Homes', EachOnce', ModuleFree', reader'.at = reader.at,
           UNCHANGED <<trace, pc, cur, prev, running, queue, deleted, executed>>
    PROVE  IInv'
<1>1. Started'
  BY DEF IInv, Started
<1>2. QueuedOnce' /\ \A u : Gone(u)' <=> Gone(u)
  BY GoneStay DEF IInv
<1>3. GoneLast'
  BY <1>2 DEF IInv, GoneLast, Replayed, Uids
<1>4. Running'
  BY DEF IInv, Running
<1>5. QED
  BY <1>1, <1>2, <1>3, <1>4 DEF IInv

LEMMA StartTypeIsGood ==
    ASSUME IInv, NEW k \in Types, StartType(k)
    PROVE  IInv'
<1> DEFINE kept == pending[k]
<1>1. /\ reader \in ReaderStates /\ trace \in Traces
      /\ pending \in [Types -> Uids \cup {NoRecord}] /\ heap \in [Pids -> SUBSET Uids]
  BY DEF IInv, Typed
<1>2. /\ UNCHANGED <<trace, index, unread, finished, pc, cur, prev, running, queue, deleted,
                     nThreads, executed>>
      /\ pending' = [pending EXCEPT ![k] = NoRecord]
      /\ reader' = [reader EXCEPT !.todo = @ \ {k}, !.type = k, !.left = reader.size,
                                  !.pushed = kept]
      /\ IF kept = NoRecord THEN UNCHANGED heap ELSE Push(kept)
  BY DEF StartType, sourceVars, threadVars
<1>3. kept \in Uids \cup {NoRecord} /\ (kept # NoRecord => trace[kept].type = k)
  BY <1>1 DEF IInv, Homes
<1>4. kept # NoRecord => kept \in Uids /\ trace[kept].pid \in Pids
  BY <1>1, <1>3, TypesOfRecords
<1>5. NoRecord \notin Uids
  BY <1>1, UidsAreNumbers DEF NoRecord
<1> HIDE DEF kept
<1>6. reader' \in ReaderStates
  BY <1>1, <1>2, <1>3 DEF ReaderStates, Uids
<1>7. /\ heap' \in [Pids -> SUBSET Uids]
      /\ \A p \in Pids : heap'[p] = heap[p] \cup {u \in {kept} : u # NoRecord /\ trace[u].pid = p}
  BY <1>1, <1>2, <1>3, <1>4 DEF Push
<1>8. Typed'
  BY <1>1, <1>2, <1>6, <1>7 DEF IInv, Typed, Uids, ReaderStates
<1>9. Homes'
  BY <1>1, <1>2, <1>7 DEF IInv, Homes, InHand, Uids
<1>10. ASSUME NEW u \in Uids PROVE OneOf(u)'
  <2>1. OneOf(u) /\ trace[u].pid \in Pids /\ trace[u].type \in Types
    BY <1>1, TypesOfRecords DEF IInv, EachOnce
  <2>2. InHeap(u)' <=> InHeap(u) \/ u = kept
    BY <1>2, <1>5, <1>7, <2>1 DEF InHeap
  <2>3. InModule(u)' <=> InModule(u) /\ u # kept
    BY <1>1, <1>2, <1>3, <1>5, <2>1 DEF InModule, kept
  <2>4. u = kept => InModule(u)
    BY <1>3, <1>5 DEF InModule, kept
  <2>5. (InFile(u)' <=> InFile(u)) /\ (Held(u)' <=> Held(u)) /\ (Done(u)' <=> Done(u))
    BY <1>2 DEF InFile, Held, InHand, Done
  <2>6. QED
    BY <2>1, <2>2, <2>3, <2>4, <2>5 DEF OneOf
<1>11. ModuleFree'
  BY <1>1, <1>2 DEF ModuleFree, ReaderStates
<1>12. reader'.at = reader.at
  BY <1>1, <1>2 DEF ReaderStates
<1>13. EachOnce'
  BY <1>2, <1>10 DEF EachOnce, Uids
<1>14. QED
  BY <1>2, <1>8, <1>9, <1>11, <1>12, <1>13, ReaderPartIsGood

LEMMA ReadRowIsGood ==
    ASSUME IInv, ReadRow
    PROVE  IInv'
<1> DEFINE k == reader.type
           row == LowestOf(unread \cap OfType(k))
<1>1. /\ reader \in ReaderStates /\ trace \in Traces /\ unread \subseteq Uids
      /\ pending \in [Types -> Uids \cup {NoRecord}] /\ heap \in [Pids -> SUBSET Uids]
  BY DEF IInv, Typed
<1>2. /\ UNCHANGED <<trace, index, finished, pc, cur, prev, running, queue, deleted,
                     nThreads, executed>>
      /\ k # NoType /\ reader.left > 1 /\ unread \cap OfType(k) # {}
      /\ unread' = unread \ {row}
      /\ IF reader.left > 2
         THEN /\ Push(row) /\ UNCHANGED pending
              /\ reader' = [reader EXCEPT !.left = @ - 1, !.pushed = row]
         ELSE /\ pending' = [pending EXCEPT ![k] = row] /\ UNCHANGED heap
              /\ reader' = [reader EXCEPT !.left = @ - 1]
  BY DEF ReadRow, sourceVars, threadVars
<1>3. k \in Types /\ pending[k] = NoRecord /\ reader.left \in Nat
  BY <1>1, <1>2 DEF IInv, ModuleFree, ReaderStates
<1>4. row \in unread \cap OfType(k)
  <2>1. unread \cap OfType(k) \subseteq Nat
    BY <1>1, UidsAreNumbers
  <2>2. QED
    BY <1>2, <2>1, LowestIsIn
<1>5. row \in unread /\ row \in Uids /\ trace[row].type = k /\ trace[row].pid \in Pids
  BY <1>1, <1>4, TypesOfRecords DEF OfType
<1>6. NoRecord \notin Uids
  BY <1>1, UidsAreNumbers DEF NoRecord
<1> HIDE DEF row
<1>7. reader' \in ReaderStates /\ reader'.at = reader.at /\ reader'.type = k
      /\ reader'.left = reader.left - 1
  <2>1. reader.left - 1 \in Nat /\ row \in Uids'
    BY <1>2, <1>3, <1>5 DEF Uids
  <2>2. CASE reader.left > 2
    BY <1>1, <1>2, <2>1, <2>2 DEF ReaderStates, Uids
  <2>3. CASE ~(reader.left > 2)
    BY <1>1, <1>2, <2>1, <2>3 DEF ReaderStates, Uids
  <2>4. QED
    BY <2>2, <2>3
<1> HIDE DEF k
<1>8. CASE reader.left > 2
  <2>1. /\ heap' = [heap EXCEPT ![trace[row].pid] = @ \cup {row}] /\ UNCHANGED pending
    BY <1>2, <1>8 DEF Push
  <2>2. /\ heap' \in [Pids -> SUBSET Uids]
        /\ \A p \in Pids : heap'[p] = heap[p] \cup {u \in {row} : trace[u].pid = p}
    BY <1>1, <1>5, <2>1
  <2>3. Typed'
    BY <1>1, <1>2, <1>7, <2>1, <2>2 DEF IInv, Typed, Uids, ReaderStates
  <2>4. Homes'
    BY <1>1, <1>2, <2>1, <2>2 DEF IInv, Homes, InHand, Uids
  <2>5. ASSUME NEW u \in Uids PROVE OneOf(u)'
    <3>1. OneOf(u) /\ trace[u].pid \in Pids /\ trace[u].type \in Types
      BY <1>1, TypesOfRecords DEF IInv, EachOnce
    <3>2. InHeap(u)' <=> InHeap(u) \/ u = row
      BY <1>2, <2>2, <3>1 DEF InHeap
    <3>3. (InFile(u)' <=> InFile(u) /\ u # row) /\ (u = row => InFile(u))
      BY <1>2, <1>5 DEF InFile
    <3>4. (InModule(u)' <=> InModule(u)) /\ (Held(u)' <=> Held(u)) /\ (Done(u)' <=> Done(u))
      BY <1>2, <2>1 DEF InModule, Held, InHand, Done
    <3>5. QED
      BY <3>1, <3>2, <3>3, <3>4 DEF OneOf
  <2>6. EachOnce'
    BY <1>2, <2>5 DEF EachOnce, Uids
  <2>7. ModuleFree'
    BY <1>3, <1>7, <2>1 DEF ModuleFree
  <2>8. QED
    BY <1>2, <1>7, <2>3, <2>4, <2>6, <2>7, ReaderPartIsGood
<1>9. CASE ~(reader.left > 2)
  <2>1. /\ pending' = [pending EXCEPT ![k] = row] /\ UNCHANGED heap
    BY <1>2, <1>9
  <2>2. Typed'
    BY <1>1, <1>2, <1>3, <1>5, <1>7, <2>1 DEF IInv, Typed, Uids, ReaderStates
  <2>3. Homes'
    BY <1>1, <1>2, <1>3, <1>5, <2>1 DEF IInv, Homes, InHand, Uids
  <2>4. ASSUME NEW u \in Uids PROVE OneOf(u)'
    <3>1. OneOf(u) /\ trace[u].pid \in Pids /\ trace[u].type \in Types
      BY <1>1, TypesOfRecords DEF IInv, EachOnce
    <3>2. InModule(u)' <=> InModule(u) \/ u = row
      BY <1>1, <1>2, <1>3, <1>5, <1>6, <2>1, <3>1 DEF InModule
    <3>3. (InFile(u)' <=> InFile(u) /\ u # row) /\ (u = row => InFile(u))
      BY <1>2, <1>5 DEF InFile
    <3>4. (InHeap(u)' <=> InHeap(u)) /\ (Held(u)' <=> Held(u)) /\ (Done(u)' <=> Done(u))
      BY <1>2, <2>1 DEF InHeap, Held, InHand, Done
    <3>5. QED
      BY <3>1, <3>2, <3>3, <3>4 DEF OneOf
  <2>5. EachOnce'
    BY <1>2, <2>4 DEF EachOnce, Uids
  <2>6. ModuleFree'
    BY <1>3, <1>7, <1>9 DEF ModuleFree
  <2>7. QED
    BY <1>2, <1>7, <2>2, <2>3, <2>5, <2>6, ReaderPartIsGood
<1>10. QED
  BY <1>8, <1>9

(* The queue loses its head, which is deleted.                             *)
LEMMA DeleteNextIsGood ==
    ASSUME IInv, DeleteNext
    PROVE  IInv'
<1>1. /\ UNCHANGED <<trace, index, unread, pending, finished, pc, cur, prev, number, heap,
                     running, nThreads, executed>>
      /\ reader \in ReaderStates
  BY DEF DeleteNext, sourceVars, loadVars, threadVars, IInv, Typed
<1>2. CASE queue = <<>>
  <2>1. ReaderMoves
    BY <1>1, <1>2 DEF DeleteNext, ReaderMoves, ReaderStates
  <2>2. ModuleFree'
    BY <1>1, <1>2 DEF DeleteNext, IInv, ModuleFree, ReaderStates
  <2>3. QED
    BY <2>1, <2>2, ReaderMovesIsGood
<1>3. CASE queue # <<>>
  <2>1. queue' = Tail(queue) /\ deleted' = deleted \cup {Head(queue)} /\ UNCHANGED reader
    BY <1>3 DEF DeleteNext
  <2>2. /\ queue \in Seq(Uids) /\ Len(queue) \in Nat \ {0} /\ Head(queue) = queue[1]
        /\ queue[1] \in Uids
    BY <1>3, EmptySeq, ElementOfSeq DEF IInv, Typed
  <2>3. /\ Tail(queue) \in Seq(Uids) /\ Len(Tail(queue)) = Len(queue) - 1
        /\ \A i \in 1 .. Len(Tail(queue)) : Tail(queue)[i] = queue[i + 1]
    BY <1>3, <2>2, HeadTailProperties
  <2>4. \A u : Queued(u)' <=> \E i \in 2 .. Len(queue) : queue[i] = u
    <3>1. ASSUME NEW u, NEW i \in 2 .. Len(queue), queue[i] = u PROVE Queued(u)'
      <4>1. i - 1 \in 1 .. Len(Tail(queue)) /\ Tail(queue)[i - 1] = u
        BY <2>2, <2>3, <3>1
      <4>2. QED
        BY <2>1, <4>1 DEF Queued
    <3>2. ASSUME NEW u, Queued(u)' PROVE \E i \in 2 .. Len(queue) : queue[i] = u
      <4>1. PICK i \in 1 .. Len(Tail(queue)) : Tail(queue)[i] = u
        BY <2>1, <3>2 DEF Queued
      <4>2. i + 1 \in 2 .. Len(queue) /\ queue[i + 1] = u
        BY <2>2, <2>3, <4>1
      <4>3. QED
        BY <4>2
    <3>3. QED
      BY <3>1, <3>2
  <2>5. QueuedOnce'
    <3>1. ASSUME NEW i \in 1 .. Len(queue'), NEW j \in 1 .. Len(queue'), queue'[i] = queue'[j]
          PROVE  i = j
      BY <2>1, <2>2, <2>3, <3>1 DEF IInv, QueuedOnce
    <3>2. ASSUME NEW u \in deleted' PROVE ~Queued(u)'
      BY <2>1, <2>2, <2>4 DEF IInv, QueuedOnce, Queued
    <3>3. QED
      BY <3>1, <3>2 DEF QueuedOnce
  <2>6. \A u : Gone(u)' <=> Gone(u)
    <3>1. \A u : Queued(u) <=> u = queue[1] \/ \E i \in 2 .. Len(queue) : queue[i] = u
      BY <2>2 DEF Queued
    <3>2. QED
      BY <2>1, <2>2, <2>4, <3>1 DEF Gone
  <2>7. Typed'
    BY <1>1, <2>1, <2>2, <2>3 DEF IInv, Typed, Uids, ReaderStates
  <2>8. Homes' /\ EachOnce'
    BY <1>1, PlacesStay DEF IInv, Typed, InHand
  <2>9. ModuleFree' /\ Started'
    BY <1>1, <2>1 DEF IInv, ModuleFree, Started
  <2>10. GoneLast'
    BY <1>1, <2>6 DEF IInv, GoneLast, Replayed, Uids
  <2>11. Running'
    BY <1>1 DEF IInv, Running
  <2>12. QED
    BY <2>5, <2>7, <2>8, <2>9, <2>10, <2>11 DEF IInv
<1>4. QED
  BY <1>2, <1>3

(* main starts the thread of the first process.                            *)
LEMMA EndBatchIsGood ==
    ASSUME IInv, EndBatch
    PROVE  IInv'
<1>1. /\ UNCHANGED <<trace, unread, pending, cur, prev, heap, running, queue, deleted, nThreads,
                     executed>>
      /\ reader' = [reader EXCEPT !.at = "loop"] /\ reader \in ReaderStates
      /\ pc' = IF reader.at = "first" THEN [pc EXCEPT ![Root] = "pop"] ELSE pc
      /\ pc \in [Pids -> Places] /\ Root \in Pids
  BY SchedulerAssumption DEF EndBatch, sourceVars, loadVars, sharedVars, IInv, Typed
<1>2. reader' \in ReaderStates /\ reader'.at = "loop" /\ reader'.type = reader.type
      /\ reader'.left = reader.left
  BY <1>1 DEF ReaderStates, Uids
<1>3. ModuleFree'
  BY <1>1, <1>2 DEF IInv, ModuleFree
<1>4. CASE reader.at = "first"
  <2>1. /\ \A p \in Pids : pc[p] = "none" /\ prev[p] = NoRecord
        /\ pc' = [pc EXCEPT ![Root] = "pop"] /\ pc' \in [Pids -> Places]
    BY <1>1, <1>4 DEF IInv, Started, GoneLast, Places
  <2>2. Typed'
    BY <1>1, <1>2, <2>1 DEF IInv, Typed, Uids, ReaderStates
  <2>3. \A p \in Pids : InHand(p)' = InHand(p)
    BY <1>1, <2>1 DEF InHand
  <2>4. Homes' /\ EachOnce'
    BY <1>1, <2>3, PlacesStay DEF IInv, Typed
  <2>5. Started'
    BY <1>1, <1>2, <2>1 DEF Started
  <2>6. QueuedOnce' /\ \A u : Gone(u)' <=> Gone(u)
    BY <1>1, GoneStay DEF IInv
  <2>7. GoneLast'
    BY <1>1, <2>1, <2>6 DEF IInv, GoneLast, Uids
  <2>8. Running'
    BY <1>1, <2>1 DEF IInv, Running, RunPlaces
  <2>9. QED
    BY <1>3, <2>2, <2>4, <2>5, <2>6, <2>7, <2>8 DEF IInv
<1>5. CASE reader.at # "first"
  <2>1. ReaderMoves
    BY <1>1, <1>2, <1>5 DEF ReaderMoves
  <2>2. QED
    BY <1>3, <2>1, ReaderMovesIsGood
<1>6. QED
  BY <1>4, <1>5

LEMMA ReaderIsGood ==
    ASSUME IInv, Reader
    PROVE  IInv'
BY SmallReaderStepsAreGood, StartTypeIsGood, ReadRowIsGood, DeleteNextIsGood, EndBatchIsGood
   DEF Reader

-----------------------------------------------------------------------------
(***************************************************************************)
(* The thread of process p.                                                *)
(***************************************************************************)
LEMMA ThreadStays ==
    ASSUME IInv, NEW p \in Pids, pc[p] # "none", NEW place \in Places \ {"none"},
           pc' = [pc EXCEPT ![p] = place], UNCHANGED <<trace, pending, reader, executed>>
    PROVE  /\ ModuleFree' /\ Started'
           /\ pc' \in [Pids -> Places] /\ pc'[p] = place
           /\ \A q \in Pids \ {p} : pc'[q] = pc[q]
<1>1. pc' \in [Pids -> Places] /\ pc'[p] = place /\ \A q \in Pids \ {p} : pc'[q] = pc[q]
  BY DEF IInv, Typed
<1>2. ModuleFree'
  BY DEF IInv, ModuleFree
<1>3. Started'
  BY <1>1 DEF IInv, Started
<1>4. QED
  BY <1>1, <1>2, <1>3

(* The thread keeps its record: it goes from one place to the next, and     *)
(* may change what it is seen to run.                                      *)
Keeps(p, place) ==
    /\ pc[p] \in HandPlaces /\ place \in HandPlaces
    /\ pc' = [pc EXCEPT ![p] = place]
    /\ UNCHANGED <<trace, unread, pending, cur, prev, heap, deleted, nThreads, reader, executed>>

LEMMA KeepsIsGood ==
    ASSUME IInv, NEW p \in Pids, NEW place, Keeps(p, place),
           queue' \in Seq(Uids), QueuedOnce', GoneLast', Running'
    PROVE  IInv'
<1>1. place \in Places \ {"none"} /\ pc[p] # "none"
  BY DEF Keeps, HandPlaces, Places
<1>2. /\ ModuleFree' /\ Started' /\ pc' \in [Pids -> Places] /\ pc'[p] = place
      /\ \A q \in Pids \ {p} : pc'[q] = pc[q]
  BY <1>1, ThreadStays DEF Keeps
<1>3. Typed'
  BY <1>2 DEF IInv, Keeps, Typed, Uids, ReaderStates
<1>4. \A q \in Pids : InHand(q)' = InHand(q)
  BY <1>2 DEF Keeps, InHand, HandPlaces
<1>5. Homes' /\ EachOnce'
  BY <1>4, PlacesStay DEF IInv, Typed, Keeps
<1>6. QED
  BY <1>2, <1>3, <1>5 DEF IInv

\* The same when nothing is queued for deletion, and not seen to run anything else.
LEMMA KeepsQuietlyIsGood ==
    ASSUME IInv, NEW p \in Pids, NEW place, Keeps(p, place), UNCHANGED queue, Running',
           place \in {"count", "gate", "queue"} => pc[p] \in {"count", "gate"}
    PROVE  IInv'
<1>1. pc'[p] = place /\ place \in HandPlaces /\ \A q \in Pids \ {p} : pc'[q] = pc[q]
  BY DEF Keeps, IInv, Typed
<1>2. UNCHANGED <<queue, deleted>>
  BY DEF Keeps
<1>3. QueuedOnce' /\ \A u : Gone(u)' <=> Gone(u)
  BY <1>2, GoneStay DEF IInv
<1>4. GoneLast'
  <2>1. \A u \in Uids' : Gone(u)' => u \in executed' /\ u # 0
    BY <1>3 DEF IInv, GoneLast, Keeps, Uids
  <2>2. \A u, q : Replayed(u, q)' <=> Replayed(u, q)
    BY <1>3 DEF Replayed, Keeps
  <2>3. UNCHANGED <<cur, prev>>
    BY DEF Keeps
  <2>4. ASSUME NEW q \in Pids
        PROVE  /\ pc'[q] \in {"pop", "count", "gate", "queue"} /\ prev'[q] # NoRecord
                      => Replayed(prev[q], q)
               /\ pc'[q] = "store" => Replayed(cur[q], q)
               /\ pc'[q] = "none" => prev'[q] = NoRecord
    BY <1>1, <2>3 DEF IInv, GoneLast, HandPlaces
  <2>5. QED
    BY <2>1, <2>2, <2>3, <2>4 DEF GoneLast
<1>5. queue' \in Seq(Uids)
  BY DEF IInv, Typed
<1>6. QED
  BY <1>3, <1>4, <1>5, KeepsIsGood

LEMMA CountPoppedIsGood ==
    ASSUME IInv, NEW p \in Pids, CountPopped(p)
    PROVE  IInv'
<1>1. Keeps(p, "gate") /\ pc[p] = "count" /\ UNCHANGED <<queue, running, prev>>
  BY DEF CountPopped, Keeps, At, Goto, HandPlaces, sourceVars, loadVars
<1>2. \A q \in Pids : pc'[q] = IF q = p THEN "gate" ELSE pc[q]
  BY <1>1 DEF Keeps, IInv, Typed
<1>3. Running'
  BY <1>1, <1>2 DEF IInv, Running, RunPlaces, Keeps
<1>4. QED
  BY <1>1, <1>3, KeepsQuietlyIsGood

LEMMA GateIsGood ==
    ASSUME IInv, NEW p \in Pids, Gate(p)
    PROVE  IInv'
<1>1. /\ Keeps(p, "queue") /\ pc[p] = "gate" /\ UNCHANGED <<queue, cur, prev>>
      /\ running' = [q \in DOMAIN running \cup {p} |-> IF q = p THEN cur[p] ELSE running[q]]
  BY DEF Gate, Keeps, At, Goto, HandPlaces, sourceVars, loadVars
<1>2. \A q \in Pids : pc'[q] = IF q = p THEN "queue" ELSE pc[q]
  BY <1>1 DEF Keeps, IInv, Typed
<1>3. Running'
  BY <1>1, <1>2 DEF IInv, Running, RunPlaces
<1>4. QED
  BY <1>1, <1>3, KeepsQuietlyIsGood

LEMMA CheckIsGood ==
    ASSUME IInv, NEW p \in Pids, ReadRunning(p) \/ Compare(p) \/ CheckPasses(p)
    PROVE  IInv'
<1>1. PICK place \in {"check", "compare", "reject", "execute"} : pc' = [pc EXCEPT ![p] = place]
  BY DEF ReadRunning, Compare, CheckPasses, At, Goto, IInv, Typed
<1>2. /\ Keeps(p, place) /\ pc[p] \in {"check", "compare"}
      /\ UNCHANGED <<queue, running, cur, prev>>
  BY <1>1 DEF ReadRunning, Compare, CheckPasses, Keeps, At, Goto, HandPlaces, sourceVars, loadVars,
     sharedVars
<1>3. \A q \in Pids : pc'[q] = IF q = p THEN place ELSE pc[q]
  BY <1>1 DEF IInv, Typed
<1>4. Running'
  BY <1>2, <1>3 DEF IInv, Running, RunPlaces
<1>5. QED
  BY <1>2, <1>4, KeepsQuietlyIsGood

LEMMA RejectIsGood ==
    ASSUME IInv, NEW p \in Pids, Reject(p)
    PROVE  IInv'
<1>1. /\ Keeps(p, "putback") /\ pc[p] = "reject" /\ UNCHANGED <<queue, cur, prev>>
      /\ running' = [running EXCEPT ![p] = NoRecord]
  BY DEF Reject, Keeps, At, Goto, HandPlaces, sourceVars, loadVars
<1>2. \A q \in Pids : pc'[q] = IF q = p THEN "putback" ELSE pc[q]
  BY <1>1 DEF Keeps, IInv, Typed
<1>3. Running'
  BY <1>1, <1>2 DEF IInv, Running
<1>4. QED
  BY <1>1, <1>3, KeepsQuietlyIsGood

(* The record before goes to the queue: nobody else has it, it is not in   *)
(* the queue, and the thread is not seen to run it any more.               *)
LEMMA QueuePreviousIsGood ==
    ASSUME IInv, NEW p \in Pids, QueuePrevious(p)
    PROVE  IInv'
<1>1. PICK place \in {"execute", "reject", "check"} : pc' = [pc EXCEPT ![p] = place]
  BY DEF QueuePrevious, Goto
<1>2. /\ Keeps(p, place) /\ pc[p] = "queue" /\ UNCHANGED <<cur, prev, running, deleted, executed, trace>>
      /\ queue' = IF prev[p] = NoRecord THEN queue ELSE Append(queue, prev[p])
  BY <1>1 DEF QueuePrevious, Keeps, At, HandPlaces, sourceVars, loadVars
<1>3. \A q \in Pids : pc'[q] = IF q = p THEN place ELSE pc[q]
  BY <1>1 DEF IInv, Typed
<1>4. Running'
  BY <1>2, <1>3 DEF IInv, Running, RunPlaces
<1>5. CASE prev[p] = NoRecord
  <2>1. UNCHANGED queue
    BY <1>2, <1>5
  <2>2. QED
    BY <1>2, <1>4, <2>1, KeepsQuietlyIsGood
<1>6. CASE prev[p] # NoRecord
  <2> DEFINE r == prev[p]
  <2>1. Replayed(r, p) /\ r \in Uids
    BY <1>2, <1>6 DEF IInv, GoneLast, Typed
  <2>2. queue' = Append(queue, r) /\ queue \in Seq(Uids)
    BY <1>2, <1>6 DEF IInv, Typed
  <2> HIDE DEF r
  <2>3. /\ queue' \in Seq(Uids) /\ Len(queue) \in Nat /\ Len(queue') = Len(queue) + 1
        /\ \A i \in 1 .. Len(queue) : queue'[i] = queue[i]
        /\ queue'[Len(queue) + 1] = r
    BY <2>1, <2>2, AppendProperties, LenProperties
  <2>4. \A u : Queued(u)' <=> Queued(u) \/ u = r
    <3>1. ASSUME NEW u, Queued(u)' PROVE Queued(u) \/ u = r
      BY <2>3, <3>1 DEF Queued
    <3>2. ASSUME NEW u, Queued(u) \/ u = r PROVE Queued(u)'
      BY <2>3, <3>2 DEF Queued
    <3>3. QED
      BY <3>1, <3>2
  <2>5. ~Queued(r) /\ r \notin deleted
    BY <2>1 DEF Replayed, Gone
  <2>6. QueuedOnce'
    <3>1. ASSUME NEW i \in 1 .. Len(queue'), NEW j \in 1 .. Len(queue'), queue'[i] = queue'[j]
          PROVE  i = j
      <4>1. \A k \in 1 .. Len(queue) : queue[k] # r
        BY <2>5 DEF Queued
      <4>2. QED
        BY <2>3, <3>1, <4>1 DEF IInv, QueuedOnce
    <3>2. ASSUME NEW u \in deleted' PROVE ~Queued(u)'
      BY <1>2, <2>4, <2>5 DEF IInv, QueuedOnce
    <3>3. QED
      BY <3>1, <3>2 DEF QueuedOnce
  <2>7. \A u : Gone(u)' <=> Gone(u) \/ u = r
    BY <1>2, <2>4 DEF Gone
  <2>8. \A u, q : q # p /\ Replayed(u, q) => u # r
    BY <2>1 DEF Replayed
  <2>9. GoneLast'
    <3>1. \A u \in Uids' : Gone(u)' => u \in executed' /\ u # 0
      BY <1>2, <2>1, <2>7 DEF IInv, GoneLast, Uids, Replayed
    <3>2. ASSUME NEW q \in Pids
          PROVE  /\ pc'[q] \in {"pop", "count", "gate", "queue"} /\ prev'[q] # NoRecord
                        => Replayed(prev[q], q)'
                 /\ pc'[q] = "store" => Replayed(cur[q], q)'
                 /\ pc'[q] = "none" => prev'[q] = NoRecord
      <4>1. CASE q = p
        BY <1>3, <4>1
      <4>2. CASE q # p
        <5>1. /\ pc[q] \in {"pop", "count", "gate", "queue"} /\ prev[q] # NoRecord
                     => Replayed(prev[q], q)
              /\ pc[q] = "store" => Replayed(cur[q], q)
              /\ pc[q] = "none" => prev[q] = NoRecord
          BY DEF IInv, GoneLast
        <5>2. pc'[q] = pc[q] /\ prev'[q] = prev[q] /\ cur'[q] = cur[q]
          BY <1>2, <1>3, <4>2
        <5>3. /\ Replayed(prev[q], q) => Replayed(prev[q], q)'
              /\ Replayed(cur[q], q) => Replayed(cur[q], q)'
          BY <1>2, <2>7, <2>8, <4>2, <5>2 DEF Replayed
        <5>4. QED
          BY <5>1, <5>2, <5>3
      <4>3. QED
        BY <4>1, <4>2
    <3>3. QED
      BY <1>2, <3>1, <3>2 DEF GoneLast
  <2>10. QED
    BY <1>2, <1>4, <2>3, <2>6, <2>9, KeepsIsGood
<1>7. QED
  BY <1>5, <1>6

LEMMA PopIsGood ==
    ASSUME IInv, NEW p \in Pids, Pop(p)
    PROVE  IInv'
<1> DEFINE r == Top(p)
<1>1. /\ trace \in Traces /\ heap \in [Pids -> SUBSET Uids] /\ pc \in [Pids -> Places]
      /\ cur \in [Pids -> Uids \cup {NoRecord}]
  BY DEF IInv, Typed
<1>2. /\ pc[p] = "pop" /\ heap[p] # {} /\ cur' = [cur EXCEPT ![p] = r]
      /\ heap' = [heap EXCEPT ![p] = @ \ {r}] /\ pc' = [pc EXCEPT ![p] = "count"]
      /\ UNCHANGED <<trace, unread, pending, prev, running, queue, deleted, nThreads, reader,
                     executed>>
  BY DEF Pop, At, Goto, sourceVars, loadVars
<1>3. r \in heap[p] /\ r \in Uids /\ trace[r].pid = p
  <2>1. heap[p] \subseteq Nat
    BY <1>1, UidsAreNumbers
  <2>2. r \in heap[p]
    BY <1>2, <2>1, LowestIsIn DEF Top
  <2>3. QED
    BY <1>1, <2>2 DEF IInv, Homes
<1> HIDE DEF r
<1>4. "count" \in Places \ {"none"} /\ pc[p] # "none"
  BY <1>2 DEF Places
<1>5. /\ ModuleFree' /\ Started' /\ pc' \in [Pids -> Places] /\ pc'[p] = "count"
      /\ \A q \in Pids \ {p} : pc'[q] = pc[q]
  BY <1>2, <1>4, ThreadStays
<1>6. /\ cur' \in [Pids -> Uids \cup {NoRecord}] /\ cur'[p] = r
      /\ \A q \in Pids \ {p} : cur'[q] = cur[q]
      /\ heap' \in [Pids -> SUBSET Uids] /\ heap'[p] = heap[p] \ {r}
      /\ \A q \in Pids \ {p} : heap'[q] = heap[q]
  BY <1>1, <1>2, <1>3
<1>7. Typed'
  BY <1>2, <1>5, <1>6 DEF IInv, Typed, Uids, ReaderStates
<1>8. InHand(p) = {} /\ InHand(p)' = {r} /\ \A q \in Pids \ {p} : InHand(q)' = InHand(q)
  BY <1>2, <1>5, <1>6 DEF InHand
<1>9. Homes'
  BY <1>2, <1>3, <1>6, <1>8 DEF IInv, Homes, Uids
<1>10. ASSUME NEW u \in Uids PROVE OneOf(u)'
  <2>1. OneOf(u) /\ trace[u].pid \in Pids
    BY <1>1, TypesOfRecords DEF IInv, EachOnce
  <2>2. (InHeap(u)' <=> InHeap(u) /\ u # r) /\ (u = r => InHeap(u))
    BY <1>2, <1>3, <1>6, <2>1 DEF InHeap
  <2>3. Held(u)' <=> Held(u) \/ u = r
    BY <1>2, <1>3, <1>8, <2>1 DEF Held
  <2>4. (InFile(u)' <=> InFile(u)) /\ (InModule(u)' <=> InModule(u)) /\ (Done(u)' <=> Done(u))
    BY <1>2 DEF InFile, InModule, Done
  <2>5. QED
    BY <2>1, <2>2, <2>3, <2>4 DEF OneOf
<1>11. EachOnce'
  BY <1>2, <1>10 DEF EachOnce, Uids
<1>12. QueuedOnce' /\ \A u : Gone(u)' <=> Gone(u)
  BY <1>2, GoneStay DEF IInv
<1>13. \A u, q : Replayed(u, q)' <=> Replayed(u, q)
  BY <1>2, <1>12 DEF Replayed
<1>14. GoneLast'
  BY <1>2, <1>5, <1>6, <1>12, <1>13 DEF IInv, GoneLast, Uids
<1>15. Running'
  BY <1>2, <1>5, <1>6 DEF IInv, Running, RunPlaces
<1>16. QED
  BY <1>5, <1>7, <1>9, <1>11, <1>12, <1>14, <1>15 DEF IInv

LEMMA ThreadEndsIsGood ==
    ASSUME IInv, NEW p \in Pids, ThreadEnds(p)
    PROVE  IInv'
<1>1. /\ pc[p] = "pop" /\ pc' = [pc EXCEPT ![p] = "ended"]
      /\ running' = [q \in DOMAIN running \ {p} |-> running[q]]
      /\ UNCHANGED <<trace, unread, pending, cur, prev, heap, queue, deleted, nThreads, reader,
                     executed>>
  BY DEF ThreadEnds, At, Goto, sourceVars, loadVars
<1>2. "ended" \in Places \ {"none"} /\ pc[p] # "none"
  BY <1>1 DEF Places
<1>3. /\ ModuleFree' /\ Started' /\ pc' \in [Pids -> Places] /\ pc'[p] = "ended"
      /\ \A q \in Pids \ {p} : pc'[q] = pc[q]
  BY <1>1, <1>2, ThreadStays
<1>4. Typed'
  BY <1>1, <1>3 DEF IInv, Typed, Uids, ReaderStates
<1>5. \A q \in Pids : InHand(q)' = InHand(q)
  BY <1>1, <1>3 DEF InHand
<1>6. Homes' /\ EachOnce'
  BY <1>1, <1>5, PlacesStay DEF IInv, Typed
<1>7. QueuedOnce' /\ \A u : Gone(u)' <=> Gone(u)
  BY <1>1, GoneStay DEF IInv
<1>8. \A u, q : Replayed(u, q)' <=> Replayed(u, q)
  BY <1>1, <1>7 DEF Replayed
<1>9. GoneLast'
  BY <1>1, <1>3, <1>7, <1>8 DEF IInv, GoneLast, Uids
<1>10. Running'
  BY <1>1, <1>3 DEF IInv, Running
<1>11. QED
  BY <1>3, <1>4, <1>6, <1>7, <1>9, <1>10 DEF IInv

LEMMA PutBackIsGood ==
    ASSUME IInv, NEW p \in Pids, PutBack(p)
    PROVE  IInv'
<1> DEFINE r == cur[p]
<1>1. /\ trace \in Traces /\ heap \in [Pids -> SUBSET Uids] /\ pc \in [Pids -> Places]
      /\ cur \in [Pids -> Uids \cup {NoRecord}] /\ prev \in [Pids -> Uids \cup {NoRecord}]
  BY DEF IInv, Typed
<1>2. /\ pc[p] = "putback" /\ cur' = [cur EXCEPT ![p] = NoRecord]
      /\ prev' = [prev EXCEPT ![p] = NoRecord] /\ pc' = [pc EXCEPT ![p] = "pop"] /\ Push(r)
      /\ UNCHANGED <<trace, unread, pending, running, queue, deleted, nThreads, reader, executed>>
  BY DEF PutBack, At, Goto, sourceVars, loadVars
<1>3. r \in Uids /\ trace[r].pid = p
  BY <1>2 DEF IInv, Homes, InHand
<1>4. /\ heap' \in [Pids -> SUBSET Uids] /\ heap'[p] = heap[p] \cup {r}
      /\ \A q \in Pids \ {p} : heap'[q] = heap[q]
  BY <1>1, <1>2, <1>3 DEF Push
<1> HIDE DEF r
<1>5. "pop" \in Places \ {"none"} /\ pc[p] # "none"
  BY <1>2 DEF Places
<1>6. /\ ModuleFree' /\ Started' /\ pc' \in [Pids -> Places] /\ pc'[p] = "pop"
      /\ \A q \in Pids \ {p} : pc'[q] = pc[q]
  BY <1>2, <1>5, ThreadStays
<1>7. /\ cur' \in [Pids -> Uids \cup {NoRecord}] /\ \A q \in Pids \ {p} : cur'[q] = cur[q]
      /\ prev' \in [Pids -> Uids \cup {NoRecord}] /\ \A q \in Pids \ {p} : prev'[q] = prev[q]
      /\ prev'[p] = NoRecord
  BY <1>1, <1>2
<1>8. Typed'
  BY <1>2, <1>4, <1>6, <1>7 DEF IInv, Typed, Uids, ReaderStates
<1>9. InHand(p) = {r} /\ InHand(p)' = {} /\ \A q \in Pids \ {p} : InHand(q)' = InHand(q)
  BY <1>2, <1>6, <1>7 DEF InHand, r
<1>10. Homes'
  BY <1>2, <1>3, <1>4, <1>9 DEF IInv, Homes, Uids
<1>11. ASSUME NEW u \in Uids PROVE OneOf(u)'
  <2>1. OneOf(u) /\ trace[u].pid \in Pids
    BY <1>1, TypesOfRecords DEF IInv, EachOnce
  <2>2. InHeap(u)' <=> InHeap(u) \/ u = r
    BY <1>2, <1>3, <1>4, <2>1 DEF InHeap
  <2>3. (Held(u)' <=> Held(u) /\ u # r) /\ (u = r => Held(u))
    BY <1>2, <1>3, <1>9, <2>1 DEF Held
  <2>4. (InFile(u)' <=> InFile(u)) /\ (InModule(u)' <=> InModule(u)) /\ (Done(u)' <=> Done(u))
    BY <1>2 DEF InFile, InModule, Done
  <2>5. QED
    BY <2>1, <2>2, <2>3, <2>4 DEF OneOf
<1>12. EachOnce'
  BY <1>2, <1>11 DEF EachOnce, Uids
<1>13. QueuedOnce' /\ \A u : Gone(u)' <=> Gone(u)
  BY <1>2, GoneStay DEF IInv
<1>14. \A u, q : Replayed(u, q)' <=> Replayed(u, q)
  BY <1>2, <1>13 DEF Replayed
<1>15. GoneLast'
  BY <1>2, <1>6, <1>7, <1>13, <1>14 DEF IInv, GoneLast, Uids
<1>16. Running'
  BY <1>2, <1>6, <1>7 DEF IInv, Running, RunPlaces
<1>17. QED
  BY <1>6, <1>8, <1>10, <1>12, <1>13, <1>15, <1>16 DEF IInv

LEMMA StoreLastIsGood ==
    ASSUME IInv, NEW p \in Pids, StoreLast(p)
    PROVE  IInv'
<1>1. /\ pc \in [Pids -> Places]
      /\ cur \in [Pids -> Uids \cup {NoRecord}] /\ prev \in [Pids -> Uids \cup {NoRecord}]
  BY DEF IInv, Typed
<1>2. /\ pc[p] = "store" /\ cur' = [cur EXCEPT ![p] = NoRecord]
      /\ prev' = [prev EXCEPT ![p] = cur[p]] /\ pc' = [pc EXCEPT ![p] = "pop"]
      /\ UNCHANGED <<trace, unread, pending, heap, running, queue, deleted, nThreads, reader,
                     executed>>
  BY DEF StoreLast, At, Goto, sourceVars, loadVars
<1>3. "pop" \in Places \ {"none"} /\ pc[p] # "none"
  BY <1>2 DEF Places
<1>4. /\ ModuleFree' /\ Started' /\ pc' \in [Pids -> Places] /\ pc'[p] = "pop"
      /\ \A q \in Pids \ {p} : pc'[q] = pc[q]
  BY <1>2, <1>3, ThreadStays
<1>5. /\ cur' \in [Pids -> Uids \cup {NoRecord}] /\ \A q \in Pids \ {p} : cur'[q] = cur[q]
      /\ prev' \in [Pids -> Uids \cup {NoRecord}] /\ \A q \in Pids \ {p} : prev'[q] = prev[q]
      /\ prev'[p] = cur[p]
  BY <1>1, <1>2
<1>6. Typed'
  BY <1>2, <1>4, <1>5 DEF IInv, Typed, Uids, ReaderStates
<1>7. \A q \in Pids : InHand(q)' = InHand(q)
  BY <1>2, <1>4, <1>5 DEF InHand
<1>8. Homes' /\ EachOnce'
  BY <1>2, <1>7, PlacesStay DEF IInv, Typed
<1>9. QueuedOnce' /\ \A u : Gone(u)' <=> Gone(u)
  BY <1>2, GoneStay DEF IInv
<1>10. \A u, q : Replayed(u, q)' <=> Replayed(u, q)
  BY <1>2, <1>9 DEF Replayed
<1>11. GoneLast'
  BY <1>2, <1>4, <1>5, <1>9, <1>10 DEF IInv, GoneLast, Uids
<1>12. Running'
  BY <1>2, <1>4, <1>5 DEF IInv, Running, RunPlaces
<1>13. QED
  BY <1>4, <1>6, <1>8, <1>9, <1>11, <1>12 DEF IInv

(* The record is replayed. If it makes a process, its thread starts: it     *)
(* was not running, since only one record makes that process.              *)
LEMMA ExecuteIsGood ==
    ASSUME IInv, NEW p \in Pids, Execute(p)
    PROVE  IInv'
<1> DEFINE r == cur[p]
           child == trace[r].child
<1>1. /\ trace \in Traces /\ pc \in [Pids -> Places] /\ nThreads \in Nat \ {0}
      /\ executed \subseteq Uids
  BY DEF IInv, Typed
<1>2. /\ pc[p] = "execute" /\ executed' = executed \cup {r}
      /\ IF child = NoChild
         THEN pc' = [pc EXCEPT ![p] = "store"] /\ UNCHANGED <<nThreads, running>>
         ELSE /\ nThreads' = nThreads + 1
              /\ running' = [q \in DOMAIN running \cup {child} |->
                                IF q = child THEN NoRecord ELSE running[q]]
              /\ pc' = [pc EXCEPT ![p] = "store", ![child] = "pop"]
      /\ UNCHANGED <<trace, unread, pending, cur, prev, heap, queue, deleted, reader>>
  BY DEF Execute, At, Goto, sourceVars, loadVars
<1>3. r \in Uids /\ trace[r].pid = p /\ InHand(p) = {r}
  BY <1>2 DEF IInv, Homes, InHand
<1>4. r \notin executed /\ r # 0
  BY <1>3 DEF IInv, Typed, EachOnce, OneOf, Held, Done
<1>5. child # NoChild => child \in Pids /\ pc[child] = "none" /\ child # p
  <2>1. /\ child \in Pids \cup {NoChild}
        /\ child # NoChild => child # Root
        /\ child # NoChild => \A u \in Uids : trace[u].child = child => u = r
    BY <1>1, <1>3, TraceAssumption DEF Uids
  <2>2. child \in Pids /\ child # Root /\ pc[child] # "none" =>
            \E u \in executed : trace[u].child = child
    BY DEF IInv, Started
  <2>3. QED
    BY <1>1, <1>2, <1>4, <2>1, <2>2
<1> HIDE DEF r, child
<1>6. /\ pc' \in [Pids -> Places] /\ pc'[p] = "store"
      /\ \A q \in Pids \ {p} :
            pc'[q] = IF child # NoChild /\ q = child THEN "pop" ELSE pc[q]
  <2>1. "store" \in Places /\ "pop" \in Places
    BY DEF Places
  <2>2. CASE child = NoChild
    BY <1>1, <1>2, <2>1, <2>2
  <2>3. CASE child # NoChild
    BY <1>1, <1>2, <1>5, <2>1, <2>3
  <2>4. QED
    BY <2>2, <2>3
<1>7. Typed'
  <2>1. nThreads' \in Nat \ {0}
    BY <1>1, <1>2
  <2>2. QED
    BY <1>2, <1>3, <1>6, <2>1 DEF IInv, Typed, Uids, ReaderStates
<1>8. InHand(p)' = {} /\ \A q \in Pids \ {p} : InHand(q)' = InHand(q)
  BY <1>2, <1>5, <1>6 DEF InHand
<1>9. Homes'
  BY <1>2, <1>8 DEF IInv, Homes, Uids
<1>10. ASSUME NEW u \in Uids PROVE OneOf(u)'
  <2>1. OneOf(u) /\ trace[u].pid \in Pids
    BY <1>1, TypesOfRecords DEF IInv, EachOnce
  <2>2. Done(u)' <=> Done(u) \/ u = r
    BY <1>2 DEF Done
  <2>3. (Held(u)' <=> Held(u) /\ u # r) /\ (u = r => Held(u))
    BY <1>2, <1>3, <1>8, <2>1 DEF Held
  <2>4. (InFile(u)' <=> InFile(u)) /\ (InModule(u)' <=> InModule(u)) /\ (InHeap(u)' <=> InHeap(u))
    BY <1>2 DEF InFile, InModule, InHeap
  <2>5. QED
    BY <2>1, <2>2, <2>3, <2>4 DEF OneOf
<1>11. EachOnce'
  BY <1>2, <1>10 DEF EachOnce, Uids
<1>12. ModuleFree'
  BY <1>2 DEF IInv, ModuleFree
<1>13. Started'
  <2>1. reader.at # "first"
    BY <1>2 DEF IInv, Started
  <2>2. ASSUME NEW q \in Pids, pc'[q] # "none", q # Root
        PROVE  \E u \in executed' : trace[u].child = q
    <3>1. CASE child # NoChild /\ q = child
      BY <1>2, <3>1 DEF child
    <3>2. CASE ~(child # NoChild /\ q = child)
      <4>1. pc[q] # "none"
        BY <1>2, <1>6, <2>2, <3>2
      <4>2. PICK u \in executed : trace[u].child = q
        BY <2>2, <4>1 DEF IInv, Started
      <4>3. QED
        BY <1>2, <4>2
    <3>3. QED
      BY <3>1, <3>2
  <2>3. QED
    BY <1>2, <2>1, <2>2 DEF Started
<1>14. QueuedOnce' /\ \A u : Gone(u)' <=> Gone(u)
  BY <1>2, GoneStay DEF IInv
<1>15. ~Gone(r)
  BY <1>3, <1>4 DEF IInv, GoneLast
<1>16. Replayed(cur[p], p)' /\ \A u, q : Replayed(u, q) => Replayed(u, q)'
  <2>1. \A u, q : Replayed(u, q)' <=>
            u \in executed \cup {r} /\ u # 0 /\ trace[u].pid = q /\ ~Gone(u)
    BY <1>2, <1>14 DEF Replayed
  <2>2. cur[p] = r /\ cur' = cur
    BY <1>2 DEF r
  <2>3. \A u, q : Replayed(u, q) => Replayed(u, q)'
    BY <2>1 DEF Replayed
  <2>4. Replayed(cur[p], p)'
    BY <1>2, <1>3, <1>4, <1>14, <1>15, <2>2 DEF Replayed
  <2>5. QED
    BY <2>3, <2>4
<1>17. GoneLast'
  <2>1. \A u \in Uids' : Gone(u)' => u \in executed' /\ u # 0
    BY <1>2, <1>14 DEF IInv, GoneLast, Uids
  <2>2. ASSUME NEW q \in Pids
        PROVE  /\ pc'[q] \in {"pop", "count", "gate", "queue"} /\ prev[q] # NoRecord
                      => Replayed(prev[q], q)'
               /\ pc'[q] = "store" => Replayed(cur[q], q)'
               /\ pc'[q] = "none" => prev[q] = NoRecord
    <3>1. /\ pc[q] \in {"pop", "count", "gate", "queue"} /\ prev[q] # NoRecord
                 => Replayed(prev[q], q)
          /\ pc[q] = "store" => Replayed(cur[q], q)
          /\ pc[q] = "none" => prev[q] = NoRecord
      BY DEF IInv, GoneLast
    <3>2. prev' = prev /\ cur' = cur
      BY <1>2
    <3>3. CASE q = p
      BY <1>6, <1>16, <3>2, <3>3 DEF r
    <3>4. CASE q # p
      BY <1>5, <1>6, <1>16, <3>1, <3>2, <3>4
    <3>5. QED
      BY <3>3, <3>4
  <2>3. prev' = prev /\ cur' = cur
    BY <1>2
  <2>4. QED
    BY <2>1, <2>2, <2>3 DEF GoneLast
<1>18. Running'
  <2>1. DOMAIN running' \subseteq DOMAIN running \cup {child}
        /\ \A q \in DOMAIN running' :
              running'[q] = IF child # NoChild /\ q = child THEN NoRecord ELSE running[q]
    <3>1. CASE child = NoChild
      BY <1>2, <3>1
    <3>2. CASE child # NoChild
      BY <1>2, <3>2
    <3>3. QED
      BY <3>1, <3>2
  <2>2. QED
    BY <1>2, <1>6, <2>1 DEF IInv, Running, RunPlaces
<1>19. QED
  BY <1>7, <1>9, <1>11, <1>12, <1>13, <1>14, <1>17, <1>18 DEF IInv

LEMMA ThreadIsGood ==
    ASSUME IInv, NEW p \in Pids, Thread(p)
    PROVE  IInv'
BY PopIsGood, ThreadEndsIsGood, CountPoppedIsGood, GateIsGood, QueuePreviousIsGood, CheckIsGood,
   RejectIsGood, PutBackIsGood, ExecuteIsGood, StoreLastIsGood DEF Thread

-----------------------------------------------------------------------------
LEMMA InitIsGood == Init => IInv
<1> SUFFICES ASSUME Init PROVE IInv
  OBVIOUS
<1> DEFINE Loaded == UNION {FirstOf(trace, k) : k \in Types}
<1>1. /\ trace \in Traces /\ unread = Uids \ Loaded
      /\ heap = [p \in Pids |-> {u \in Loaded \ {0} : trace[u].pid = p}]
      /\ pending = [k \in Types |-> NoRecord]
      /\ running = [p \in {Root} |-> 0] /\ queue = <<>> /\ deleted = {} /\ nThreads = 1
      /\ reader = [at |-> "first", todo |-> Types, type |-> NoType,
                   size |-> FirstBatch, left |-> 0, pushed |-> NoRecord]
      /\ pc = [p \in Pids |-> "none"]
      /\ cur = [p \in Pids |-> NoRecord] /\ prev = cur /\ executed = {0}
  BY DEF Init
<1>2. Uids \subseteq Nat /\ 0 \in Uids /\ NoRecord \notin Nat
  BY <1>1, UidsAreNumbers DEF NoRecord
<1>3. \A k \in Types : LowestOf(OfType(k)) \in OfType(k)
                       /\ \A v \in OfType(k) : LowestOf(OfType(k)) <= v
  <2>1. ASSUME NEW k \in Types PROVE OfType(k) # {} /\ OfType(k) \subseteq Nat
    BY <1>1, <1>2, TraceAssumption DEF OfType, Uids
  <2>2. QED
    BY <2>1, LowestIsIn
<1>4. \A k \in Types : FirstOf(trace, k) = {LowestOf(OfType(k))}
  BY DEF FirstOf, OfType, Uids
<1>5. Loaded \subseteq Uids
  <2>1. ASSUME NEW u \in Loaded PROVE u \in Uids
    <3>1. PICK k \in Types : u \in FirstOf(trace, k)
      OBVIOUS
    <3>2. u \in OfType(k)
      BY <1>3, <1>4, <3>1
    <3>3. QED
      BY <3>2 DEF OfType
  <2>2. QED
    BY <2>1
<1>6. 0 \in Loaded
  <2> DEFINE k == trace[0].type
             u == LowestOf(OfType(k))
  <2>1. k \in Types
    BY <1>1, <1>2, TypesOfRecords
  <2>2. 0 \in OfType(k)
    BY <1>2 DEF OfType
  <2>3. u \in Nat /\ u <= 0
    BY <1>2, <1>3, <2>1, <2>2 DEF OfType
  <2>4. 0 \in FirstOf(trace, k)
    BY <1>4, <2>1, <2>3
  <2>5. QED
    BY <2>1, <2>4
<1> HIDE DEF Loaded
<1>7. reader \in ReaderStates
  BY <1>1, SchedulerAssumption DEF ReaderStates
<1>8. <<>> \in Seq(Uids) /\ Len(<<>>) = 0
  BY EmptySeq
<1>9. Typed
  <2>1. /\ heap \in [Pids -> SUBSET Uids] /\ pc \in [Pids -> Places]
        /\ pending \in [Types -> Uids \cup {NoRecord}]
        /\ cur \in [Pids -> Uids \cup {NoRecord}]
    BY <1>1, <1>5 DEF Places
  <2>2. unread \subseteq Uids /\ executed \subseteq Uids /\ 0 \in executed
    BY <1>1, <1>2
  <2>3. queue \in Seq(Uids) /\ deleted \subseteq Uids /\ nThreads \in Nat \ {0}
    BY <1>1, <1>8
  <2>4. QED
    BY <1>1, <1>7, <2>1, <2>2, <2>3 DEF Typed
<1>10. \A p \in Pids : InHand(p) = {}
  BY <1>1 DEF InHand
<1>11. Homes
  BY <1>1, <1>10 DEF Homes
<1>12. ASSUME NEW u \in Uids PROVE OneOf(u)
  <2>1. trace[u].type \in Types /\ trace[u].pid \in Pids
    BY <1>1, TypesOfRecords
  <2>2. ~InModule(u) /\ ~Held(u)
    BY <1>1, <1>2, <1>10, <2>1 DEF InModule, Held
  <2>3. (InFile(u) <=> u \notin Loaded) /\ (InHeap(u) <=> u \in Loaded /\ u # 0) /\ (Done(u) <=> u = 0)
    BY <1>1, <2>1 DEF InFile, InHeap, Done
  <2>4. QED
    BY <1>6, <2>2, <2>3 DEF OneOf
<1>13. ModuleFree /\ Started
  BY <1>1 DEF ModuleFree, Started
<1>14. \A u : ~Gone(u)
  BY <1>1, <1>8 DEF Gone, Queued
<1>15. QueuedOnce
  BY <1>1, <1>8 DEF QueuedOnce
<1>16. GoneLast
  BY <1>1, <1>14 DEF GoneLast
<1>17. Running
  BY <1>1 DEF Running
<1>18. QED
  BY <1>9, <1>11, <1>12, <1>13, <1>15, <1>16, <1>17 DEF IInv, EachOnce

LEMMA NextIsGood ==
    ASSUME IInv, [Next]_vars
    PROVE  IInv'
<1>1. CASE Reader
  BY <1>1, ReaderIsGood
<1>2. ASSUME NEW p \in Pids, Thread(p) PROVE IInv'
  BY <1>2, ThreadIsGood
<1>3. CASE Joined \/ UNCHANGED vars
  <2>1. ReaderMoves /\ ModuleFree'
    BY <1>3 DEF IInv, Typed, Joined, vars, sourceVars, loadVars, threadVars, sharedVars, ReaderMoves,
       ModuleFree
  <2>2. QED
    BY <2>1, ReaderMovesIsGood
<1>4. QED
  BY <1>1, <1>2, <1>3 DEF Next

(* Where every record, every thread and every deleted record can be.       *)
THEOREM Invariance == Spec => []IInv
BY InitIsGood, NextIsGood, PTL DEF Spec

-----------------------------------------------------------------------------
(* Neither the batches of the reader nor threads that put records back      *)
(* lose a record, or let two have it, for any trace and any number of       *)
(* threads.                                                                *)
THEOREM NeverLost == Spec => []OnePlace
<1>1. IInv => OnePlace
  <2> SUFFICES ASSUME IInv PROVE OnePlace
    OBVIOUS
  <2>1. /\ trace \in Traces /\ unread \subseteq Uids /\ heap \in [Pids -> SUBSET Uids]
        /\ pending \in [Types -> Uids \cup {NoRecord}]
    BY DEF IInv, Typed
  <2>2. \A u \in Uids : OneOf(u) /\ trace[u].type \in Types /\ trace[u].pid \in Pids
    BY <2>1, TypesOfRecords DEF IInv, EachOnce
  <2>3. NoRecord \notin Uids
    BY <2>1, UidsAreNumbers DEF NoRecord
  <2>4. \A k \in Types, u \in Uids : pending[k] = u => InModule(u)
    BY <2>1, <2>3 DEF IInv, Homes, InModule
  <2>5. \A p \in Pids, u \in Uids : (u \in heap[p] => InHeap(u)) /\ (u \in InHand(p) => Held(u))
    BY DEF IInv, Homes, InHeap, Held
  <2>6. \A p \in Pids : Waiting(p) \subseteq Uids
    BY <2>1 DEF IInv, Homes, Waiting
  <2>7. ASSUME NEW u \in Uids
        PROVE  u \notin executed <=>
                  \/ u \in unread
                  \/ u \in {pending[k] : k \in Types} \ {NoRecord}
                  \/ u \in UNION {Waiting(p) : p \in Pids}
    <3>1. InModule(u) <=> u \in {pending[k] : k \in Types} \ {NoRecord}
      BY <2>2, <2>3, <2>4 DEF InModule
    <3>2. InHeap(u) \/ Held(u) <=> u \in UNION {Waiting(p) : p \in Pids}
      BY <2>2, <2>5 DEF InHeap, Held, Waiting
    <3>3. QED
      BY <2>2, <3>1, <3>2 DEF OneOf, InFile, Done
  <2>8. unread \cup ({pending[k] : k \in Types} \ {NoRecord})
            \cup UNION {Waiting(p) : p \in Pids} \subseteq Uids
    BY <2>1, <2>6
  <2>9. Uids \ executed = unread \cup ({pending[k] : k \in Types} \ {NoRecord})
                                \cup UNION {Waiting(p) : p \in Pids}
    BY <2>7, <2>8
  <2>10. \A k \in Types : pending[k] \notin unread
    BY <2>1, <2>2, <2>3, <2>4 DEF OneOf, InFile
  <2>11. ASSUME NEW p \in Pids
         PROVE  /\ heap[p] \cap InHand(p) = {}
                /\ \A u \in Waiting(p) : /\ trace[u].pid = p
                                         /\ u \notin unread /\ \A k \in Types : pending[k] # u
    <3>1. heap[p] \cap InHand(p) = {}
      BY <2>1, <2>2, <2>5 DEF OneOf
    <3>2. ASSUME NEW u \in Waiting(p)
          PROVE  trace[u].pid = p /\ u \notin unread /\ \A k \in Types : pending[k] # u
      <4>1. u \in Uids /\ (InHeap(u) \/ Held(u))
        BY <2>5, <2>6 DEF Waiting
      <4>2. u \notin unread /\ ~InModule(u)
        BY <2>2, <4>1 DEF OneOf, InFile
      <4>3. trace[u].pid = p
        BY DEF IInv, Homes, Waiting
      <4>4. QED
        BY <2>4, <4>1, <4>2, <4>3
    <3>3. QED
      BY <3>1, <3>2
  <2>12. QED
    BY <2>9, <2>10, <2>11 DEF OnePlace
<1>2. QED
  BY Invariance, <1>1, PTL

(* The reader deletes a record once, after its replay and when no thread's  *)
(* check can come across it, for any trace and any number of threads.       *)
THEOREM NeverEarly == Spec => []DeletedLast
<1>1. IInv => DeletedLast
  <2> SUFFICES ASSUME IInv PROVE DeletedLast
    OBVIOUS
  <2> DEFINE queued == {queue[i] : i \in DOMAIN queue}
  <2>1. /\ queue \in [1 .. Len(queue) -> Uids] /\ DOMAIN queue = 1 .. Len(queue)
        /\ Len(queue) \in Nat /\ trace \in Traces /\ deleted \subseteq Uids
    BY LenProperties DEF IInv, Typed
  <2>2. \A u : u \in queued <=> Queued(u)
    BY <2>1 DEF Queued
  <2>3. queued \subseteq Uids /\ queued \cap deleted = {}
    BY <2>1, <2>2 DEF IInv, QueuedOnce
  <2>4. Cardinality(queued) = Len(queue)
    <3>1. queue \in Bijection(1 .. Len(queue), queued)
      <4>1. queue \in [1 .. Len(queue) -> queued]
        BY <2>1
      <4>2. \A i, j \in 1 .. Len(queue) : queue[i] = queue[j] => i = j
        BY DEF IInv, QueuedOnce
      <4>3. \A u \in queued : \E i \in 1 .. Len(queue) : queue[i] = u
        BY <2>1
      <4> HIDE DEF queued
      <4>4. QED
        BY <4>1, <4>2, <4>3 DEF Bijection, Injection, Surjection, IsInjective
    <3>2. QED
      BY <2>1, <3>1, FS_CountingElements DEF ExistsBijection
  <2> HIDE DEF queued
  <2>5. queued \cup deleted \subseteq executed /\ 0 \notin queued \cup deleted
    BY <2>1, <2>2, <2>3 DEF IInv, GoneLast, Gone
  <2>6. NoRecord \notin queued \cup deleted
    BY <2>1, <2>3, UidsAreNumbers DEF NoRecord
  <2>7. ASSUME NEW q \in DOMAIN running PROVE running[q] \notin queued \cup deleted
    <3>1. CASE running[q] \in {NoRecord, 0}
      BY <2>5, <2>6, <3>1
    <3>2. CASE q \in Pids /\ pc[q] \in {"pop", "count", "gate"} /\ running[q] = prev[q]
      BY <2>2, <2>6, <3>2 DEF IInv, GoneLast, Replayed, Gone
    <3>3. CASE q \in Pids /\ pc[q] \in RunPlaces \ {"store"} /\ running[q] = cur[q]
      <4>1. cur[q] \in Uids /\ Held(cur[q])
        BY <3>3 DEF IInv, Homes, InHand, Held, RunPlaces
      <4>2. cur[q] \notin executed
        BY <4>1 DEF IInv, EachOnce, OneOf, Done
      <4>3. QED
        BY <2>5, <3>3, <4>2
    <3>4. CASE q \in Pids /\ pc[q] = "store" /\ running[q] = cur[q]
      BY <2>2, <3>4 DEF IInv, GoneLast, Replayed, Gone
    <3>5. QED
      BY <3>1, <3>2, <3>3, <3>4 DEF IInv, Running
  <2>8. QED
    BY <2>3, <2>4, <2>5, <2>7 DEF DeletedLast, queued
<1>2. QED
  BY Invariance, <1>1, PTL
=============================================================================
