---------------------- MODULE DescriptorReplay_proofs ----------------------
(***************************************************************************)
(* What holds of the replay of calls on descriptors, in this order:         *)
(*   - no table or mask is freed in use, and each process keeps its mask    *)
(*     (NeverFreed, MasksFollow), by SafeHeap and Grouped;                  *)
(*   - a table has the descriptors its process had open in the trace, so    *)
(*     that no assertion fails (TablesFollow, AssertionsHold), by TableInv;  *)
(*   - types (TypeCorrect), by TypeInv;                                     *)
(*   - each replayed descriptor has one owner (Owners), by OwnInv;          *)
(*   - close-on-exec flags and execve (MarksFollow, TablesFollowExecve), by  *)
(*     MarkInv;                                                             *)
(*   - what an entry reaches, and that nothing is lost (FilesFollow,        *)
(*     FilesAreSame, NoDescriptorLost), by FileInv.                         *)
(***************************************************************************)
EXTENDS DescriptorReplay, RefCounting_proofs, FiniteSetTheorems,
        WellFoundedInduction, TLAPS

\* A heap in which no entry that is pointed at is freed. A failed clone
\* overwrites the pointer of FailedPid and leaves its count, so that counts
\* are bounds here, while RefCounting_proofs has them exact.
SafeHeap(S) ==
    /\ IsFiniteSet(DOMAIN S.of)
    /\ S.rc \in [DOMAIN S.rc -> Int] /\ DOMAIN S.val = DOMAIN S.rc
    /\ NoDangling(S)
    /\ NeverLow(S)

\* The processes a map has, beside that of the failed clones.
Known(S) == DOMAIN S.of \ {FailedPid}

IInv ==
    /\ SafeHeap(fds) /\ SafeHeap(umasks)
    /\ Known(fds) = Alive /\ Known(umasks) = Alive /\ Alive \subseteq Pids

-----------------------------------------------------------------------------
LEMMA HoldersAreFinite ==
    ASSUME NEW S, SafeHeap(S), NEW a
    PROVE  /\ IsFiniteSet(Holders(S, a)) /\ Cardinality(Holders(S, a)) \in Nat
           /\ a \notin DOMAIN S.rc => Holders(S, a) = {}
<1>1. Holders(S, a) \subseteq DOMAIN S.of
  BY DEF Holders
<1>2. IsFiniteSet(Holders(S, a))
  BY <1>1, FS_Subset DEF SafeHeap
<1>3. a \notin DOMAIN S.rc => Holders(S, a) = {}
  BY DEF Holders, SafeHeap, NoDangling
<1>4. QED
  BY <1>2, <1>3, FS_CardinalityType

\* T is S after the pointer of p moved to a, whose count has room for it.
PointsAt(S, p, a, T) ==
    /\ T.of = Put(S.of, p, a)
    /\ T.rc \in [DOMAIN S.rc \cup {a} -> Int]
    /\ \A b \in DOMAIN S.rc \ {a} : T.rc[b] = S.rc[b]
    /\ T.rc[a] >= Cardinality(Holders(S, a)) + 1
    /\ DOMAIN T.val = DOMAIN S.rc \cup {a}

(* What p pointed at before keeps a count at least that of its holders.      *)
LEMMA PointsAtIsSafe ==
    ASSUME NEW S, SafeHeap(S), NEW p, NEW a, NEW T, PointsAt(S, p, a, T)
    PROVE  SafeHeap(T) /\ DOMAIN T.of = DOMAIN S.of \cup {p}
<1>1. DOMAIN T.of = DOMAIN S.of \cup {p} /\ DOMAIN T.rc = DOMAIN S.rc \cup {a}
  BY DEF Put, PointsAt
<1>2. \A q \in DOMAIN T.of : T.of[q] = IF q = p THEN a ELSE S.of[q]
  BY DEF Put, PointsAt
<1>3. IsFiniteSet(DOMAIN T.of)
  BY <1>1, FS_AddElement DEF SafeHeap
<1>4. NoDangling(T)
  BY <1>1, <1>2 DEF NoDangling, SafeHeap
<1>5. ASSUME NEW b \in DOMAIN T.rc
      PROVE  T.rc[b] >= Cardinality(Holders(T, b))
  <2>1. IsFiniteSet(Holders(S, b)) /\ Cardinality(Holders(S, b)) \in Nat
    BY HoldersAreFinite
  <2>2. CASE b = a
    <3>1. Holders(T, b) \subseteq Holders(S, b) \cup {p}
      BY <1>1, <1>2 DEF Holders
    <3>2. /\ IsFiniteSet(Holders(S, b) \cup {p})
          /\ Cardinality(Holders(S, b) \cup {p}) =
                IF p \in Holders(S, b) THEN Cardinality(Holders(S, b))
                ELSE Cardinality(Holders(S, b)) + 1
      BY <2>1, FS_AddElement
    <3>3. Cardinality(Holders(T, b)) <= Cardinality(Holders(S, b) \cup {p})
          /\ Cardinality(Holders(T, b)) \in Nat
          /\ Cardinality(Holders(S, b) \cup {p}) \in Nat
      BY <3>1, <3>2, FS_Subset, FS_CardinalityType
    <3>4. T.rc[a] \in Int /\ T.rc[a] >= Cardinality(Holders(S, a)) + 1
      BY DEF PointsAt
    <3>5. QED
      BY <2>1, <2>2, <3>2, <3>3, <3>4
  <2>3. CASE b # a
    <3>1. Holders(T, b) \subseteq Holders(S, b)
      BY <1>1, <1>2, <2>3 DEF Holders
    <3>2. Cardinality(Holders(T, b)) <= Cardinality(Holders(S, b))
          /\ Cardinality(Holders(T, b)) \in Nat
      BY <2>1, <3>1, FS_Subset, FS_CardinalityType
    <3>3. T.rc[b] = S.rc[b] /\ S.rc[b] >= Cardinality(Holders(S, b)) /\ S.rc[b] \in Int
      BY <1>1, <2>3 DEF SafeHeap, NeverLow, PointsAt
    <3>4. QED
      BY <2>1, <3>2, <3>3
  <2>4. QED
    BY <2>2, <2>3
<1>6. T.rc \in [DOMAIN T.rc -> Int] /\ DOMAIN T.val = DOMAIN T.rc
  BY <1>1 DEF PointsAt
<1>7. QED
  BY <1>1, <1>3, <1>4, <1>5, <1>6 DEF SafeHeap, NeverLow

(* clone_* without sharing: the new entry has one reference.                *)
LEMMA CreatedIsSafe ==
    ASSUME NEW S, SafeHeap(S), NEW p, NEW a, a \notin DOMAIN S.rc, NEW v
    PROVE  SafeHeap(Created(S, p, a, v)) /\ DOMAIN Created(S, p, a, v).of = DOMAIN S.of \cup {p}
<1> DEFINE T == Created(S, p, a, v)
<1>1. T.of = Put(S.of, p, a) /\ T.rc = Put(S.rc, a, 1) /\ T.val = Put(S.val, a, v)
  BY DEF Created
<1>2. /\ T.rc \in [DOMAIN S.rc \cup {a} -> Int] /\ T.rc[a] = 1
      /\ \A b \in DOMAIN S.rc \ {a} : T.rc[b] = S.rc[b]
  BY <1>1 DEF Put, SafeHeap
<1>3. Cardinality(Holders(S, a)) = 0
  BY HoldersAreFinite, FS_EmptySet
<1>4. DOMAIN T.val = DOMAIN S.rc \cup {a}
  BY <1>1 DEF Put, SafeHeap
<1> HIDE DEF T
<1>5. PointsAt(S, p, a, T)
  BY <1>1, <1>2, <1>3, <1>4 DEF PointsAt
<1>6. QED
  BY <1>5, PointsAtIsSafe DEF T

(* clone_* with sharing: one more reference to the entry of the parent.      *)
LEMMA SharedIsSafe ==
    ASSUME NEW S, SafeHeap(S), NEW p \in DOMAIN S.of, NEW c
    PROVE  SafeHeap(Shared(S, p, c)) /\ DOMAIN Shared(S, p, c).of = DOMAIN S.of \cup {c}
<1> DEFINE T == Shared(S, p, c)
           a == S.of[p]
<1>1. a \in DOMAIN S.rc
  BY DEF SafeHeap, NoDangling
<1>2. T.of = Put(S.of, c, a) /\ T.rc = [S.rc EXCEPT ![a] = @ + 1] /\ T.val = S.val
  BY DEF Shared
<1>3. /\ T.rc \in [DOMAIN S.rc \cup {a} -> Int] /\ T.rc[a] = S.rc[a] + 1
      /\ \A b \in DOMAIN S.rc \ {a} : T.rc[b] = S.rc[b]
      /\ DOMAIN T.val = DOMAIN S.rc \cup {a}
  BY <1>1, <1>2 DEF SafeHeap
<1>4. S.rc[a] >= Cardinality(Holders(S, a)) /\ S.rc[a] \in Int
      /\ Cardinality(Holders(S, a)) \in Nat
  BY <1>1, HoldersAreFinite DEF SafeHeap, NeverLow
<1> HIDE DEF T, a
<1>5. PointsAt(S, c, a, T)
  BY <1>2, <1>3, <1>4 DEF PointsAt
<1>6. QED
  BY <1>5, PointsAtIsSafe DEF T

(* remove_*: an entry is freed when its count reaches 0, and then no other  *)
(* process points at it.                                                    *)
LEMMA DroppedIsSafe ==
    ASSUME NEW S, SafeHeap(S), NEW p \in DOMAIN S.of
    PROVE  SafeHeap(Dropped(S, p)) /\ DOMAIN Dropped(S, p).of = DOMAIN S.of \ {p}
<1> DEFINE T == Dropped(S, p)
           a == S.of[p]
<1>1. a \in DOMAIN S.rc /\ p \in Holders(S, a)
  BY DEF SafeHeap, NoDangling, Holders
<1>2. /\ IsFiniteSet(Holders(S, a)) /\ Cardinality(Holders(S, a)) \in Nat
      /\ S.rc[a] >= Cardinality(Holders(S, a)) /\ S.rc[a] \in Int
  BY <1>1, HoldersAreFinite DEF SafeHeap, NeverLow
<1>3. IsFiniteSet(Holders(S, a) \ {p})
      /\ Cardinality(Holders(S, a) \ {p}) = Cardinality(Holders(S, a)) - 1
  BY <1>1, <1>2, FS_RemoveElement
<1>4. T.of = Without(S.of, p)
  BY DEF Dropped
<1>5. DOMAIN T.of = DOMAIN S.of \ {p} /\ \A q \in DOMAIN T.of : T.of[q] = S.of[q]
  BY <1>4 DEF Without
<1>6. IsFiniteSet(DOMAIN T.of)
  BY <1>5, FS_RemoveElement DEF SafeHeap
<1>7. Holders(T, a) = Holders(S, a) \ {p}
  BY <1>5 DEF Holders
<1>8. \A b : b # a => Holders(T, b) = Holders(S, b)
  BY <1>5 DEF Holders
<1>9. CASE LastReference(S, p)
  <2>1. T.rc = Without(S.rc, a) /\ T.val = Without(S.val, a)
    BY <1>9 DEF Dropped
  <2>2. DOMAIN T.rc = DOMAIN S.rc \ {a} /\ \A b \in DOMAIN T.rc : T.rc[b] = S.rc[b]
    BY <2>1 DEF Without
  <2>3. T.rc \in [DOMAIN T.rc -> Int] /\ DOMAIN T.val = DOMAIN T.rc
    BY <2>1, <2>2 DEF Without, SafeHeap
  <2>4. Cardinality(Holders(S, a) \ {p}) = 0
    <3>1. Cardinality(Holders(S, a) \ {p}) \in Nat
      BY <1>3, FS_CardinalityType
    <3>2. S.rc[a] - 1 <= 0
      BY <1>9 DEF LastReference
    <3>3. QED
      BY <1>2, <1>3, <3>1, <3>2
  <2>5. Holders(T, a) = {}
    BY <1>3, <1>7, <2>4, FS_EmptySet
  <2>6. NoDangling(T)
    BY <1>5, <2>2, <2>5 DEF NoDangling, Holders, SafeHeap
  <2>7. NeverLow(T)
    BY <1>8, <2>2 DEF NeverLow, SafeHeap
  <2>8. QED
    BY <1>5, <1>6, <2>3, <2>6, <2>7 DEF SafeHeap
<1>10. CASE ~LastReference(S, p)
  <2>1. T.rc = [S.rc EXCEPT ![a] = @ - 1] /\ T.val = S.val
    BY <1>10 DEF Dropped
  <2>2. /\ DOMAIN T.rc = DOMAIN S.rc /\ T.rc \in [DOMAIN T.rc -> Int]
        /\ DOMAIN T.val = DOMAIN T.rc
        /\ T.rc[a] = S.rc[a] - 1
        /\ \A b \in DOMAIN T.rc \ {a} : T.rc[b] = S.rc[b]
    BY <1>1, <1>2, <2>1 DEF SafeHeap
  <2>3. NoDangling(T)
    BY <1>5, <2>2 DEF NoDangling, SafeHeap
  <2>4. T.rc[a] >= Cardinality(Holders(T, a))
    BY <1>2, <1>3, <1>7, <2>2
  <2>5. \A b \in DOMAIN T.rc \ {a} : T.rc[b] >= Cardinality(Holders(T, b))
    BY <1>8, <2>2 DEF NeverLow, SafeHeap
  <2>6. NeverLow(T)
    BY <2>4, <2>5 DEF NeverLow
  <2> HIDE DEF T, a
  <2>7. SafeHeap(T)
    BY <1>6, <2>2, <2>3, <2>6 DEF SafeHeap
  <2>8. QED
    BY <1>5, <2>7 DEF T
<1>11. QED
  BY <1>9, <1>10

(* The heap a manager starts with.                                          *)
LEMMA SingleIsSafe ==
    ASSUME NEW p, NEW a, NEW v
    PROVE  SafeHeap(Single(p, a, v)) /\ DOMAIN Single(p, a, v).of = {p}
<1> DEFINE S == [of |-> <<>>, rc |-> <<>>, val |-> <<>>]
<1>1. DOMAIN S.of = {} /\ DOMAIN S.rc = {} /\ DOMAIN S.val = {}
  OBVIOUS
<1>2. S.rc \in [DOMAIN S.rc -> Int] /\ a \notin DOMAIN S.rc
  BY <1>1
<1>3. SafeHeap(S)
  BY <1>1, <1>2, FS_EmptySet DEF SafeHeap, NoDangling, NeverLow
<1>4. Single(p, a, v) = Created(S, p, a, v)
  BY DEF Single
<1> HIDE DEF S
<1>5. QED
  BY <1>1, <1>2, <1>3, <1>4, CreatedIsSafe

-----------------------------------------------------------------------------
(***************************************************************************)
(* Most calls change what tables hold, and leave pointers and counts.      *)
(***************************************************************************)
PointersStay(S, T) == T.of = S.of /\ T.rc = S.rc /\ DOMAIN T.val = DOMAIN S.val

LEMMA UpdatedStays ==
    ASSUME NEW S, NEW p, NEW v
    PROVE  PointersStay(S, Updated(S, p, v))
BY DEF PointersStay, Updated

LEMMA PointersStaySafe ==
    ASSUME NEW S, NEW T, PointersStay(S, T), SafeHeap(S)
    PROVE  SafeHeap(T) /\ Known(T) = Known(S)
BY DEF SafeHeap, PointersStay, NoDangling, NeverLow, Holders, Known

\* A call that changes at most what the table of p holds.
CallOf(p) ==
    /\ p \in Alive
    /\ Alive' = Alive /\ UNCHANGED <<file_peers, fs_peers, mask, umasks>>
    /\ PointersStay(fds, fds')

LEMMA CallIsSafe ==
    ASSUME IInv, NEW p, CallOf(p)
    PROVE  IInv'
BY PointersStaySafe DEF IInv, CallOf

LEMMA AddFdStays ==
    ASSUME NEW p, NEW table, NEW t, NEW fd, NEW flags, AddFd(p, table, t, fd, flags)
    PROVE  PointersStay(fds, fds')
BY UpdatedStays DEF AddFd, PointersStay

LEMMA OthersStay ==
    ASSUME NEW p, NEW table, TracedBecomes(p, table) \/ UNCHANGED tracedVars
    PROVE  Alive' = Alive /\ UNCHANGED <<file_peers, fs_peers, mask>>
BY DEF TracedBecomes, tracedVars, Alive

LEMMA AbortsStays ==
    ASSUME Aborts
    PROVE  PointersStay(fds, fds') /\ UNCHANGED umasks
BY DEF Aborts, PointersStay

LEMMA OpenIsCall ==
    ASSUME NEW p, NEW file, NEW cloexec, NEW opens, Open(p, file, cloexec, opens)
    PROVE  CallOf(p)
BY OthersStay, AddFdStays DEF Open, TracedGains, CallOf

LEMMA OpenFailsIsCall ==
    ASSUME NEW p, NEW opens, OpenFails(p, opens)
    PROVE  CallOf(p)
BY OthersStay, AddFdStays DEF OpenFails, CallOf, PointersStay

LEMMA CloseIsCall ==
    ASSUME NEW p, NEW t, Close(p, t)
    PROVE  CallOf(p)
BY OthersStay, UpdatedStays DEF Close, TracedCloses, CallOf

LEMMA DupIsCall ==
    ASSUME NEW p, NEW t, Dup(p, t)
    PROVE  CallOf(p)
BY OthersStay, AddFdStays, AbortsStays DEF Dup, TracedGains, CallOf

LEMMA DupFailsIsCall ==
    ASSUME NEW p, NEW t, DupFails(p, t)
    PROVE  CallOf(p)
BY OthersStay, AddFdStays, AbortsStays DEF DupFails, CallOf

(* dup2 and dup3 share DupOnto.                                             *)
LEMMA DupOntoStays ==
    ASSUME NEW p, NEW old, NEW new, NEW returned, NEW flags, NEW replayed,
           DupOnto(p, old, new, returned, flags, replayed)
    PROVE  PointersStay(fds, fds') /\ UNCHANGED umasks
BY AddFdStays DEF DupOnto

LEMMA Dup2IsCall ==
    ASSUME NEW p, NEW old, NEW new, Dup2(p, old, new)
    PROVE  CallOf(p)
<1>1. p \in Alive /\ Alive' = Alive /\ UNCHANGED <<file_peers, fs_peers, mask>>
  BY OthersStay DEF Dup2, TracedGains
<1>2. PointersStay(fds, fds') /\ UNCHANGED umasks
  <2>1. CASE has_fd(Table(p), old)
    BY <2>1, DupOntoStays DEF Dup2
  <2>2. CASE ~has_fd(Table(p), old)
    BY <2>2, AbortsStays DEF Dup2
  <2>3. QED
    BY <2>1, <2>2
<1>3. QED
  BY <1>1, <1>2 DEF CallOf

LEMMA Dup3IsCall ==
    ASSUME NEW p, NEW old, NEW new, NEW cloexec, Dup3(p, old, new, cloexec)
    PROVE  CallOf(p)
<1>1. p \in Alive /\ Alive' = Alive /\ UNCHANGED <<file_peers, fs_peers, mask>>
  BY OthersStay DEF Dup3, TracedGains
<1>2. PointersStay(fds, fds') /\ UNCHANGED umasks
  <2>1. CASE has_fd(Table(p), old)
    BY <2>1, DupOntoStays DEF Dup3
  <2>2. CASE ~has_fd(Table(p), old)
    BY <2>2, AbortsStays DEF Dup3
  <2>3. QED
    BY <2>1, <2>2
<1>3. QED
  BY <1>1, <1>2 DEF CallOf

LEMMA Dup3FailsIsCall ==
    ASSUME NEW p, NEW t, Dup3Fails(p, t)
    PROVE  CallOf(p)
<1>1. p \in Alive /\ Alive' = Alive /\ UNCHANGED <<file_peers, fs_peers, mask>>
  BY OthersStay DEF Dup3Fails
<1>2. PointersStay(fds, fds') /\ UNCHANGED umasks
  <2>1. CASE has_fd(Table(p), t)
    BY <2>1, DupOntoStays DEF Dup3Fails
  <2>2. CASE ~has_fd(Table(p), t)
    BY <2>2, AbortsStays DEF Dup3Fails
  <2>3. QED
    BY <2>1, <2>2
<1>3. QED
  BY <1>1, <1>2 DEF CallOf

LEMMA FcntlDupIsCall ==
    ASSUME NEW p, NEW t, NEW cloexec, FcntlDup(p, t, cloexec)
    PROVE  CallOf(p)
BY OthersStay, AddFdStays, AbortsStays DEF FcntlDup, TracedGains, CallOf

LEMMA FcntlSetFdIsCall ==
    ASSUME NEW p, NEW t, NEW cloexec, FcntlSetFd(p, t, cloexec)
    PROVE  CallOf(p)
BY OthersStay, UpdatedStays DEF FcntlSetFd, TracedSetsCloexec, CallOf, PointersStay

LEMMA SimulatedIsCall ==
    ASSUME NEW p, NEW kind, NEW cloexec, Simulated(p, kind, cloexec)
    PROVE  CallOf(p)
BY OthersStay, AddFdStays DEF Simulated, TracedGains, CallOf, PointersStay

LEMMA AddPairStays ==
    ASSUME NEW p, AddPair(p)
    PROVE  PointersStay(fds, fds')
BY AddFdStays DEF AddPair, PointersStay

LEMMA SocketPairIsCall ==
    ASSUME NEW p, NEW cloexec, SocketPair(p, cloexec)
    PROVE  CallOf(p)
BY OthersStay, AddPairStays DEF SocketPair, TracedPair, CallOf

LEMMA PipeIsCall ==
    ASSUME NEW p, Pipe(p)
    PROVE  CallOf(p)
BY OthersStay, AddPairStays DEF Pipe, TracedPair, CallOf

LEMMA PipeFailsIsCall ==
    ASSUME NEW p, PipeFails(p)
    PROVE  CallOf(p)
BY OthersStay, AddFdStays DEF PipeFails, CallOf, PointersStay

LEMMA ExecveIsCall ==
    ASSUME NEW p, NEW returned, Execve(p, returned)
    PROVE  CallOf(p)
BY OthersStay, UpdatedStays DEF Execve, TracedExecs, CallOf

(* The steps of Next, by what they change.                                  *)
LEMMA StepsAre ==
    ASSUME Next
    PROVE  \/ \E p \in Pids : CallOf(p)
           \/ \E p, child \in Pids, flags \in CloneFlags : Clone(p, child, flags)
           \/ \E p, child \in Pids : VFork(p, child)
           \/ \E p \in Pids, flags \in CloneFlags : CloneFails(p, flags)
           \/ \E p \in Pids : Exit(p)
           \/ \E p \in Pids, mode \in Modes : Umask(p, mode)
BY OpenIsCall, OpenFailsIsCall, CloseIsCall, DupIsCall, DupFailsIsCall, Dup2IsCall,
   Dup3IsCall, Dup3FailsIsCall, FcntlDupIsCall, FcntlSetFdIsCall, SimulatedIsCall,
   SocketPairIsCall, PipeIsCall, PipeFailsIsCall, ExecveIsCall DEF Next

LEMMA UmaskIsSafe ==
    ASSUME IInv, NEW p, NEW mode, Umask(p, mode)
    PROVE  IInv'
<1>1. Alive' = Alive
  BY DEF Umask, TracedUmask, Alive
<1>2. PointersStay(umasks, umasks') /\ UNCHANGED fds
  BY UpdatedStays DEF Umask
<1>3. QED
  BY <1>1, <1>2, PointersStaySafe DEF IInv

-----------------------------------------------------------------------------
(***************************************************************************)
(* Processes come and go.                                                  *)
(***************************************************************************)
LEMMA CloneResourcesIsSafe ==
    ASSUME IInv, NEW parent \in Alive, NEW child, NEW share_umask, NEW share_files,
           CloneResources(parent, child, share_umask, share_files)
    PROVE  /\ SafeHeap(fds') /\ DOMAIN fds'.of = DOMAIN fds.of \cup {child}
           /\ SafeHeap(umasks') /\ DOMAIN umasks'.of = DOMAIN umasks.of \cup {child}
<1>1. parent \in DOMAIN fds.of /\ parent \in DOMAIN umasks.of
  BY DEF IInv, Known
<1>2. SafeHeap(umasks') /\ DOMAIN umasks'.of = DOMAIN umasks.of \cup {child}
  <2>1. CASE share_umask
    BY <1>1, <2>1, SharedIsSafe DEF CloneResources, IInv
  <2>2. CASE ~share_umask
    BY <2>2, CreatedIsSafe DEF CloneResources, IInv, Unallocated
  <2>3. QED
    BY <2>1, <2>2
<1>3. SafeHeap(fds') /\ DOMAIN fds'.of = DOMAIN fds.of \cup {child}
  <2>1. CASE share_files
    BY <1>1, <2>1, SharedIsSafe DEF CloneResources, IInv
  <2>2. CASE ~share_files
    BY <2>2, CreatedIsSafe DEF CloneResources, IInv, Unallocated
  <2>3. QED
    BY <2>1, <2>2
<1>4. QED
  BY <1>2, <1>3

(* A clone or vfork that worked adds its child to both maps.                *)
LEMMA CloneIsSafe ==
    ASSUME IInv, NEW parent \in Alive, NEW child \in Pids, NEW files, NEW fs,
           NEW share_umask, NEW share_files,
           TracedClones(parent, child, files, fs),
           CloneResources(parent, child, share_umask, share_files)
    PROVE  IInv'
<1>1. Alive' = Alive \cup {child}
  BY DEF TracedClones, Alive, Put
<1>2. child # FailedPid
  BY ReplayAssumption
<1>3. QED
  BY <1>1, <1>2, CloneResourcesIsSafe DEF IInv, Known

LEMMA CloneFailsIsSafe ==
    ASSUME IInv, NEW parent, NEW flags, CloneFails(parent, flags)
    PROVE  IInv'
<1>1. Alive' = Alive
  BY OthersStay DEF CloneFails
<1>2. parent \in Alive
      /\ CloneResources(parent, FailedPid, SharesUmask(flags), SharesFiles(flags))
  BY DEF CloneFails
<1>3. QED
  BY <1>1, <1>2, CloneResourcesIsSafe DEF IInv, Known

LEMMA ExitIsSafe ==
    ASSUME IInv, NEW p, Exit(p)
    PROVE  IInv'
<1>1. Alive' = Alive \ {p}
  BY DEF Exit, TracedExits, Alive, Without
<1>2. p \in DOMAIN fds.of /\ p \in DOMAIN umasks.of
  BY DEF Exit, IInv, Known
<1>3. fds' = Dropped(fds, p) /\ umasks' = Dropped(umasks, p)
  BY DEF Exit
<1>4. QED
  BY <1>1, <1>2, <1>3, DroppedIsSafe DEF IInv, Known

-----------------------------------------------------------------------------
LEMMA InitIsSafe == Init => IInv
<1> SUFFICES ASSUME Init PROVE IInv
  OBVIOUS
<1>1. Alive = {Root} /\ Root \in Pids /\ Root # FailedPid
  BY TracedAssumption, ReplayAssumption DEF Init, TracedInit, Alive
<1>2. SafeHeap(fds) /\ DOMAIN fds.of = {Root} /\ SafeHeap(umasks) /\ DOMAIN umasks.of = {Root}
  BY SingleIsSafe DEF Init
<1>3. QED
  BY <1>1, <1>2 DEF IInv, Known

LEMMA NextIsSafe ==
    ASSUME IInv, [Next]_vars
    PROVE  IInv'
<1>1. CASE \E p \in Pids : CallOf(p)
  BY <1>1, CallIsSafe
<1>2. CASE \E p, child \in Pids, flags \in CloneFlags : Clone(p, child, flags)
  BY <1>2, CloneIsSafe DEF Clone
<1>3. CASE \E p, child \in Pids : VFork(p, child)
  BY <1>3, CloneIsSafe DEF VFork
<1>4. CASE \E p \in Pids, flags \in CloneFlags : CloneFails(p, flags)
  BY <1>4, CloneFailsIsSafe
<1>5. CASE \E p \in Pids : Exit(p)
  BY <1>5, ExitIsSafe
<1>6. CASE \E p \in Pids, mode \in Modes : Umask(p, mode)
  BY <1>6, UmaskIsSafe
<1>7. CASE UNCHANGED vars
  BY <1>7 DEF vars, replayVars, tracedVars, IInv, Alive
<1>8. QED
  BY <1>1, <1>2, <1>3, <1>4, <1>5, <1>6, <1>7, StepsAre

(* The manager's maps have the live processes, every pointer leads to an    *)
(* entry, and every count is at least the number of its holders.           *)
THEOREM Invariance == Spec => []IInv
BY InitIsSafe, NextIsSafe, PTL DEF Spec

(* No table and no mask is freed while a process points at it, whatever    *)
(* the trace holds, for any number of processes, descriptors and files.    *)
THEOREM NeverFreed == Spec => []NeverFreedInUse
<1>1. IInv => NeverFreedInUse
  BY DEF IInv, SafeHeap, NeverFreedInUse
<1>2. QED
  BY Invariance, <1>1, PTL

-----------------------------------------------------------------------------
(***************************************************************************)
(* What processes see after a change of the map.                           *)
(***************************************************************************)
LEMMA UpdatedViews ==
    ASSUME NEW S, SafeHeap(S), NEW p \in DOMAIN S.of, NEW v, NEW q \in DOMAIN S.of
    PROVE  View(Updated(S, p, v), q) = IF S.of[q] = S.of[p] THEN v ELSE View(S, q)
<1>1. S.of[p] \in DOMAIN S.val /\ S.of[q] \in DOMAIN S.val
  BY DEF SafeHeap, NoDangling
<1>2. QED
  BY <1>1 DEF View, Updated

LEMMA CreatedViews ==
    ASSUME NEW S, SafeHeap(S), NEW c, NEW a, a \notin DOMAIN S.rc, NEW v
    PROVE  /\ Created(S, c, a, v).of[c] = a /\ View(Created(S, c, a, v), c) = v
           /\ \A q \in DOMAIN S.of \ {c} :
                 /\ Created(S, c, a, v).of[q] = S.of[q] /\ S.of[q] # a
                 /\ View(Created(S, c, a, v), q) = View(S, q)
<1> DEFINE T == Created(S, c, a, v)
<1>1. T.of = Put(S.of, c, a) /\ T.val = Put(S.val, a, v)
  BY DEF Created
<1>2. T.of[c] = a /\ T.val[a] = v
  BY <1>1 DEF Put
<1>3. ASSUME NEW q \in DOMAIN S.of \ {c}
      PROVE  T.of[q] = S.of[q] /\ S.of[q] # a /\ T.val[S.of[q]] = S.val[S.of[q]]
  <2>1. S.of[q] \in DOMAIN S.rc /\ DOMAIN S.val = DOMAIN S.rc
    BY DEF SafeHeap, NoDangling
  <2>2. QED
    BY <1>1, <2>1 DEF Put
<1>4. QED
  BY <1>2, <1>3 DEF View

LEMMA SharedViews ==
    ASSUME NEW S, NEW p \in DOMAIN S.of, NEW c
    PROVE  /\ Shared(S, p, c).of[c] = S.of[p] /\ View(Shared(S, p, c), c) = View(S, p)
           /\ \A q \in DOMAIN S.of \ {c} :
                 Shared(S, p, c).of[q] = S.of[q] /\ View(Shared(S, p, c), q) = View(S, q)
BY DEF Shared, View, Put

LEMMA DroppedViews ==
    ASSUME NEW S, SafeHeap(S), NEW p \in DOMAIN S.of, NEW q \in DOMAIN S.of \ {p}
    PROVE  Dropped(S, p).of[q] = S.of[q] /\ View(Dropped(S, p), q) = View(S, q)
<1> DEFINE T == Dropped(S, p)
<1>1. T.of = Without(S.of, p) /\ T.val \in {S.val, Without(S.val, S.of[p])}
  BY DEF Dropped
<1>2. T.of[q] = S.of[q] /\ q \in DOMAIN T.of
  BY <1>1 DEF Without
<1>3. SafeHeap(T)
  BY DroppedIsSafe
<1> HIDE DEF T
<1>4. T.of[q] \in DOMAIN T.val
  BY <1>2, <1>3 DEF SafeHeap, NoDangling
<1>5. T.val[S.of[q]] = S.val[S.of[q]]
  BY <1>1, <1>2, <1>4 DEF Without
<1>6. QED
  BY <1>2, <1>5 DEF View, T

-----------------------------------------------------------------------------
(***************************************************************************)
(* The processes that share in the trace are those whose pointers are the  *)
(* same in the replayer, when threads share their files and their mask.    *)
(***************************************************************************)
ThreadsShare ==
    \A flags \in CloneFlags : "CLONE_THREAD" \in flags => {"CLONE_FILES", "CLONE_FS"} \subseteq flags

Grouped(S, peers, alive) ==
    /\ DOMAIN peers = alive
    /\ \A p \in alive : p \in peers[p] /\ peers[p] \subseteq alive
    /\ \A p, q \in alive : q \in peers[p] <=> S.of[q] = S.of[p]

LEMMA JoinedIsGrouped ==
    ASSUME NEW S, NEW T, NEW peers, Grouped(S, peers, Alive),
           NEW parent \in Alive, NEW child, child \notin Alive, NEW shares \in BOOLEAN,
           \A q \in Alive : T.of[q] = S.of[q],
           shares => T.of[child] = S.of[parent],
           ~shares => \A q \in Alive : S.of[q] # T.of[child]
    PROVE  Grouped(T, Joined(peers, parent, child, shares), Alive \cup {child})
<1> DEFINE joined == Joined(peers, parent, child, shares)
<1>1. CASE shares
  <2>1. /\ DOMAIN joined = Alive \cup {child}
        /\ \A q \in Alive \cup {child} :
              joined[q] = IF q \in peers[parent] \cup {child} THEN peers[parent] \cup {child}
                          ELSE peers[q]
    BY <1>1 DEF Joined
  <2>2. \A q \in Alive : q \in peers[parent] => peers[q] = peers[parent]
    BY DEF Grouped
  <2> HIDE DEF joined
  <2>3. /\ peers[parent] \subseteq Alive /\ parent \in peers[parent]
        /\ \A p, q \in Alive : q \in peers[p] <=> T.of[q] = T.of[p]
    BY DEF Grouped
  <2>4. ASSUME NEW p \in Alive \cup {child}
        PROVE  p \in joined[p] /\ joined[p] \subseteq Alive \cup {child}
    BY <2>1, <2>3 DEF Grouped
  <2>5. ASSUME NEW p \in Alive \cup {child}, NEW q \in Alive \cup {child}
        PROVE  q \in joined[p] <=> T.of[q] = T.of[p]
    <3>1. T.of[child] = T.of[parent] /\ \A x \in Alive : x \in peers[parent] <=> T.of[x] = T.of[parent]
      BY <1>1, <2>3
    <3>2. CASE p = child \/ p \in peers[parent]
      <4>1. T.of[p] = T.of[parent] /\ joined[p] = peers[parent] \cup {child}
        BY <2>1, <2>3, <3>1, <3>2
      <4>2. QED
        BY <3>1, <4>1
    <3>3. CASE p # child /\ p \notin peers[parent]
      <4>1. p \in Alive /\ T.of[p] # T.of[parent] /\ joined[p] = peers[p]
        BY <2>1, <3>1, <3>3
      <4>2. peers[p] \subseteq Alive /\ child \notin peers[p]
        BY <4>1 DEF Grouped
      <4>3. QED
        BY <2>3, <3>1, <4>1, <4>2
    <3>4. QED
      BY <3>2, <3>3
  <2>6. Grouped(T, joined, Alive \cup {child})
    BY <2>1, <2>4, <2>5 DEF Grouped
  <2>7. QED
    BY <2>6 DEF joined
<1>2. CASE ~shares
  <2>1. /\ DOMAIN joined = Alive \cup {child} /\ joined[child] = {child}
        /\ \A q \in Alive : joined[q] = peers[q]
    BY <1>2 DEF Joined
  <2> HIDE DEF joined
  <2>2. QED
    BY <1>2, <2>1 DEF Grouped, joined
<1>3. QED
  BY <1>1, <1>2

LEMMA LeftIsGrouped ==
    ASSUME NEW S, NEW T, NEW peers, Grouped(S, peers, Alive), NEW p \in Alive,
           \A q \in Alive \ {p} : T.of[q] = S.of[q]
    PROVE  Grouped(T, Left(peers, p), Alive \ {p})
BY DEF Grouped, Left

LEMMA SamePointersGrouped ==
    ASSUME NEW S, NEW T, NEW peers, NEW alive, Grouped(S, peers, alive), T.of = S.of
    PROVE  Grouped(T, peers, alive)
BY DEF Grouped

-----------------------------------------------------------------------------
(***************************************************************************)
(* Masks.                                                                  *)
(***************************************************************************)
MaskInv ==
    /\ IInv
    /\ Grouped(umasks, fs_peers, Alive)
    /\ DOMAIN mask = Alive
    /\ SameUmask

LEMMA SingleViews ==
    ASSUME NEW p, NEW a, NEW v
    PROVE  View(Single(p, a, v), p) = v
BY DEF Single, Created, Put, View

LEMMA MaskInit == Init => MaskInv
<1> SUFFICES ASSUME Init PROVE MaskInv
  OBVIOUS
<1>1. IInv
  BY InitIsSafe
<1>2. /\ Alive = {Root} /\ fs_peers = [p \in {Root} |-> {Root}]
      /\ mask = [p \in {Root} |-> 0]
  BY DEF Init, TracedInit, Alive
<1>3. View(umasks, Root) = 0
  BY SingleViews DEF Init
<1>4. QED
  BY <1>1, <1>2, <1>3 DEF MaskInv, Grouped, SameUmask

LEMMA MaskCall ==
    ASSUME MaskInv, NEW p, CallOf(p) \/ UNCHANGED vars
    PROVE  MaskInv'
<1>1. IInv'
  BY CallIsSafe, NextIsSafe DEF MaskInv
<1>2. Alive' = Alive /\ UNCHANGED <<fs_peers, mask, umasks>>
  BY DEF CallOf, vars, replayVars, tracedVars, Alive
<1>3. QED
  BY <1>1, <1>2 DEF MaskInv, Grouped, SameUmask

LEMMA MaskUmask ==
    ASSUME MaskInv, NEW p, NEW mode, Umask(p, mode)
    PROVE  MaskInv'
<1>1. IInv'
  BY UmaskIsSafe DEF MaskInv
<1>2. /\ p \in Alive /\ Alive' = Alive /\ fs_peers' = fs_peers
      /\ umasks' = Updated(umasks, p, mode)
      /\ mask' = [q \in Alive |-> IF q \in fs_peers[p] THEN mode ELSE mask[q]]
  BY DEF Umask, TracedUmask, Alive
<1>3. SafeHeap(umasks) /\ Alive \subseteq DOMAIN umasks.of
  BY DEF MaskInv, IInv, Known
<1>4. Grouped(umasks', fs_peers', Alive')
  <2>1. umasks'.of = umasks.of
    BY <1>2 DEF Updated
  <2>2. QED
    BY <1>2, <2>1 DEF MaskInv, Grouped
<1>5. ASSUME NEW q \in Alive PROVE View(umasks', q) = mask'[q]
  <2>1. View(umasks', q) = IF umasks.of[q] = umasks.of[p] THEN mode ELSE View(umasks, q)
    BY <1>2, <1>3, UpdatedViews
  <2>2. q \in fs_peers[p] <=> umasks.of[q] = umasks.of[p]
    BY <1>2 DEF MaskInv, Grouped
  <2>3. View(umasks, q) = mask[q]
    BY DEF MaskInv, SameUmask
  <2>4. QED
    BY <1>2, <2>1, <2>2, <2>3
<1>6. QED
  BY <1>1, <1>2, <1>4, <1>5 DEF MaskInv, SameUmask

(* A child shares its parent's mask, or has one with the same value.        *)
LEMMA MaskClone ==
    ASSUME MaskInv, NEW parent \in Alive, NEW child \in Pids \ Alive, NEW files,
           NEW fs \in BOOLEAN, NEW share_files,
           TracedClones(parent, child, files, fs),
           CloneResources(parent, child, fs, share_files)
    PROVE  MaskInv'
<1>1. IInv'
  BY CloneIsSafe DEF MaskInv
<1>2. /\ Alive' = Alive \cup {child} /\ fs_peers' = Joined(fs_peers, parent, child, fs)
      /\ mask' = Put(mask, child, mask[parent])
  BY DEF TracedClones, Alive, Put
<1>3. SafeHeap(umasks) /\ Alive \subseteq DOMAIN umasks.of
  BY DEF MaskInv, IInv, Known
<1>4. \/ fs /\ umasks' = Shared(umasks, parent, child)
      \/ ~fs /\ \E m : m \notin DOMAIN umasks.rc
                     /\ umasks' = Created(umasks, child, m, View(umasks, parent))
  BY DEF CloneResources, Unallocated
<1>5. /\ \A q \in Alive : umasks'.of[q] = umasks.of[q] /\ View(umasks', q) = View(umasks, q)
      /\ fs => umasks'.of[child] = umasks.of[parent]
      /\ ~fs => \A q \in Alive : umasks.of[q] # umasks'.of[child]
      /\ View(umasks', child) = View(umasks, parent)
  <2>1. CASE fs /\ umasks' = Shared(umasks, parent, child)
    BY <1>3, <2>1, SharedViews
  <2>2. CASE ~fs /\ \E m : /\ m \notin DOMAIN umasks.rc
                           /\ umasks' = Created(umasks, child, m, View(umasks, parent))
    <3>1. PICK m : /\ m \notin DOMAIN umasks.rc
                   /\ umasks' = Created(umasks, child, m, View(umasks, parent))
      BY <2>2
    <3>2. /\ umasks'.of[child] = m /\ View(umasks', child) = View(umasks, parent)
          /\ \A q \in DOMAIN umasks.of \ {child} :
                /\ umasks'.of[q] = umasks.of[q] /\ umasks.of[q] # m
                /\ View(umasks', q) = View(umasks, q)
      BY <1>3, <3>1, CreatedViews
    <3>3. Alive \subseteq DOMAIN umasks.of \ {child}
      BY <1>3
    <3>4. QED
      BY <2>2, <3>2, <3>3
  <2>3. QED
    BY <1>4, <2>1, <2>2
<1>6. Grouped(umasks', fs_peers', Alive')
  BY <1>2, <1>5, JoinedIsGrouped DEF MaskInv
<1>7. DOMAIN mask' = Alive' /\ \A q \in Alive' : View(umasks', q) = mask'[q]
  BY <1>2, <1>5 DEF MaskInv, SameUmask, Put
<1>8. QED
  BY <1>1, <1>6, <1>7 DEF MaskInv, SameUmask

(* The pointer of -1 is of no process.                                      *)
LEMMA MaskCloneFails ==
    ASSUME MaskInv, NEW p, NEW flags, CloneFails(p, flags)
    PROVE  MaskInv'
<1>1. IInv'
  BY CloneFailsIsSafe DEF MaskInv
<1>2. p \in Alive /\ Alive' = Alive /\ UNCHANGED <<fs_peers, mask>>
  BY OthersStay DEF CloneFails
<1>3. SafeHeap(umasks) /\ Alive \subseteq DOMAIN umasks.of \ {FailedPid}
  BY DEF MaskInv, IInv, Known
<1>4. \/ umasks' = Shared(umasks, p, FailedPid)
      \/ \E m : m \notin DOMAIN umasks.rc
                /\ umasks' = Created(umasks, FailedPid, m, View(umasks, p))
  BY DEF CloneFails, CloneResources, Unallocated
<1>5. \A q \in Alive : umasks'.of[q] = umasks.of[q] /\ View(umasks', q) = View(umasks, q)
  BY <1>2, <1>3, <1>4, SharedViews, CreatedViews
<1>6. QED
  BY <1>1, <1>2, <1>5 DEF MaskInv, Grouped, SameUmask

LEMMA MaskExit ==
    ASSUME MaskInv, NEW p, Exit(p)
    PROVE  MaskInv'
<1>1. IInv'
  BY ExitIsSafe DEF MaskInv
<1>2. /\ p \in Alive /\ Alive' = Alive \ {p} /\ fs_peers' = Left(fs_peers, p)
      /\ mask' = Without(mask, p) /\ umasks' = Dropped(umasks, p)
  BY DEF Exit, TracedExits, Alive, Without
<1>3. SafeHeap(umasks) /\ Alive \subseteq DOMAIN umasks.of
  BY DEF MaskInv, IInv, Known
<1>4. \A q \in Alive' : umasks'.of[q] = umasks.of[q] /\ View(umasks', q) = View(umasks, q)
  BY <1>2, <1>3, DroppedViews
<1>5. Grouped(umasks', fs_peers', Alive')
  BY <1>2, <1>4, LeftIsGrouped DEF MaskInv
<1>6. DOMAIN mask' = Alive' /\ \A q \in Alive' : View(umasks', q) = mask'[q]
  BY <1>2, <1>4 DEF MaskInv, SameUmask, Without
<1>7. QED
  BY <1>1, <1>5, <1>6 DEF MaskInv, SameUmask

LEMMA MaskNext ==
    ASSUME ThreadsShare, MaskInv, [Next]_vars
    PROVE  MaskInv'
<1>1. CASE \E p \in Pids : CallOf(p)
  BY <1>1, MaskCall
<1>2. CASE \E p, child \in Pids, flags \in CloneFlags : Clone(p, child, flags)
  <2>1. PICK p, child \in Pids, flags \in CloneFlags : Clone(p, child, flags)
    BY <1>2
  <2>2. SharesUmask(flags) = ("CLONE_FS" \in flags) /\ ("CLONE_FS" \in flags) \in BOOLEAN
    BY DEF ThreadsShare, SharesUmask
  <2>3. QED
    BY <2>1, <2>2, MaskClone DEF Clone
<1>3. CASE \E p, child \in Pids : VFork(p, child)
  BY <1>3, MaskClone DEF VFork
<1>4. CASE \E p \in Pids, flags \in CloneFlags : CloneFails(p, flags)
  BY <1>4, MaskCloneFails
<1>5. CASE \E p \in Pids : Exit(p)
  BY <1>5, MaskExit
<1>6. CASE \E p \in Pids, mode \in Modes : Umask(p, mode)
  BY <1>6, MaskUmask
<1>7. CASE UNCHANGED vars
  BY <1>7, MaskCall
<1>8. QED
  BY <1>1, <1>2, <1>3, <1>4, <1>5, <1>6, <1>7, StepsAre

(* Through any clones, exits and failed clones, the mask of a process in   *)
(* the replayer is the one it had in the trace, where threads share it.    *)
THEOREM MasksFollow == ThreadsShare => (Spec => []SameUmask)
<1> SUFFICES ASSUME ThreadsShare PROVE Spec => []SameUmask
  OBVIOUS
<1>1. MaskInv /\ [Next]_vars => MaskInv'
  BY MaskNext
<1>2. MaskInv => SameUmask
  BY DEF MaskInv
<1>3. QED
  BY MaskInit, <1>1, <1>2, PTL DEF Spec

-----------------------------------------------------------------------------
(***************************************************************************)
(* Descriptors. OrdinaryCalls leaves out the calls whose modules give the   *)
(* table other descriptors than the traced process has.                    *)
(***************************************************************************)
OrdinaryCalls ==
    {"dup3_same", "accept4", "execve", "execve_fails"} \cap (Kinds \cup CloexecKinds) = {}

\* The descriptors of a table, beside the entries for -1 and AT_FDCWD.
Real(E) == E \ {SYSCALL_FAILURE, AT_FDCWD}

TableInv ==
    /\ IInv
    /\ Grouped(fds, file_peers, Alive)
    /\ \A p \in Alive : DOMAIN traced[p] \subseteq TracedFds
    /\ SameDescriptors

(* What a call of p does to the descriptors of the processes of its group,  *)
(* in the replayer and in the trace.                                       *)
TableBecomes(p, E) ==
    \A q \in Alive : DOMAIN View(fds', q) =
                        IF fds.of[q] = fds.of[p] THEN E ELSE DOMAIN View(fds, q)

GroupBecomes(p, D) ==
    \A q \in Alive : DOMAIN traced'[q] =
                        IF q \in file_peers[p] THEN D ELSE DOMAIN traced[q]

LEMMA CallFollows ==
    ASSUME TableInv, NEW p, CallOf(p), NEW E, NEW D, TableBecomes(p, E), GroupBecomes(p, D),
           Real(E) = D, D \subseteq TracedFds
    PROVE  TableInv'
<1>1. IInv'
  BY CallIsSafe DEF TableInv
<1>2. p \in Alive /\ Alive' = Alive /\ file_peers' = file_peers /\ fds'.of = fds.of
  BY DEF CallOf, PointersStay
<1>3. Grouped(fds', file_peers', Alive')
  BY <1>2 DEF TableInv, Grouped
<1>4. ASSUME NEW q \in Alive
      PROVE  DOMAIN traced'[q] \subseteq TracedFds /\ Real(DOMAIN View(fds', q)) = DOMAIN traced'[q]
  <2>1. q \in file_peers[p] <=> fds.of[q] = fds.of[p]
    BY <1>2 DEF TableInv, Grouped
  <2>2. DOMAIN traced[q] \subseteq TracedFds /\ Real(DOMAIN View(fds, q)) = DOMAIN traced[q]
    BY DEF TableInv, SameDescriptors, Real, Table
  <2>3. QED
    BY <2>1, <2>2 DEF TableBecomes, GroupBecomes
<1>5. QED
  BY <1>1, <1>2, <1>3, <1>4 DEF TableInv, SameDescriptors, Real, Table, TracedFds

LEMMA GroupBecomesTable ==
    ASSUME NEW p, NEW table, TracedBecomes(p, table)
    PROVE  GroupBecomes(p, DOMAIN table)
BY DEF TracedBecomes, GroupBecomes

(* Nothing changed in the trace: the group already has the same table.      *)
LEMMA GroupStays ==
    ASSUME TableInv, NEW p \in Alive, UNCHANGED tracedVars
    PROVE  GroupBecomes(p, DOMAIN traced[p])
<1>1. ASSUME NEW q \in Alive, q \in file_peers[p]
      PROVE  DOMAIN traced[q] = DOMAIN traced[p]
  <2>1. View(fds, q) = View(fds, p)
    BY <1>1 DEF TableInv, Grouped, View
  <2>2. QED
    BY <2>1 DEF TableInv, SameDescriptors, Table
<1>2. QED
  BY <1>1 DEF GroupBecomes, tracedVars

LEMMA TableIsUpdated ==
    ASSUME TableInv, NEW p \in Alive, NEW table, fds' = Updated(fds, p, table)
    PROVE  TableBecomes(p, DOMAIN table)
<1>1. SafeHeap(fds) /\ Alive \subseteq DOMAIN fds.of
  BY DEF TableInv, IInv, Known
<1>2. \A q \in Alive : View(fds', q) = IF fds.of[q] = fds.of[p] THEN table ELSE View(fds, q)
  BY <1>1, UpdatedViews
<1>3. QED
  BY <1>2 DEF TableBecomes

LEMMA TableStays ==
    ASSUME UNCHANGED fds, NEW p
    PROVE  TableBecomes(p, DOMAIN Table(p))
BY DEF TableBecomes, Table, View

LEMMA TableGains ==
    ASSUME TableInv, NEW p \in Alive, NEW table, NEW t, NEW fd, NEW flags,
           AddFd(p, table, t, fd, flags), may_add(table, t)
    PROVE  TableBecomes(p, DOMAIN table \cup {t}) /\ UNCHANGED aborted
<1>1. fds' = Updated(fds, p, add_fd_entry(table, t, fd, flags)) /\ UNCHANGED aborted
  BY DEF AddFd
<1>2. DOMAIN add_fd_entry(table, t, fd, flags) = DOMAIN table \cup {t}
  BY DEF add_fd_entry, has_fd, Put
<1>3. QED
  BY <1>1, <1>2, TableIsUpdated

-----------------------------------------------------------------------------
(* A set of natural numbers has a lowest one.                              *)
LEMMA LowestExists ==
    ASSUME NEW S, S \subseteq Nat, S # {}
    PROVE  \E n \in S : IsLowest(n, S)
<1>1. PICK n \in S : \A m \in S : ~(<<m, n>> \in OpToRel(<, Nat))
  BY NatLessThanWellFounded, WFMin
<1>2. OpToRel(<, Nat) = {ss \in Nat \X Nat : ss[1] < ss[2]}
  BY DEF OpToRel
<1>3. \A m \in S : ~(m < n)
  BY <1>1, <1>2
<1>4. QED
  BY <1>3 DEF IsLowest

LEMMA NewFdIsFree ==
    ASSUME NEW open, NEW limit \in Nat, FreeFds(open, limit) # {}
    PROVE  NewFd(open, limit) \in FreeFds(open, limit)
<1> DEFINE free == FreeFds(open, limit)
<1>1. free \subseteq Nat
  BY DEF FreeFds
<1>2. \E n \in free : IsLowest(n, free)
  BY <1>1, LowestExists
<1>3. (CHOOSE n \in free : IsLowest(n, free)) \in free
  BY <1>2
<1>4. QED
  BY <1>3 DEF NewFd

LEMMA FreeFdsFinite ==
    ASSUME NEW open, NEW limit \in Nat
    PROVE  IsFiniteSet(FreeFds(open, limit)) /\ Cardinality(FreeFds(open, limit)) \in Nat
<1>1. IsFiniteSet(0 .. limit - 1)
  BY FS_Interval
<1>2. FreeFds(open, limit) \subseteq 0 .. limit - 1
  BY DEF FreeFds
<1>3. QED
  BY <1>1, <1>2, FS_Subset, FS_CardinalityType

(* The descriptor a traced call returns is in neither table yet.            *)
LEMMA NextFdIsNew ==
    ASSUME TableInv, NEW p \in Alive, HasRoom(p, 1)
    PROVE  NextFd(p) \in TracedFds \ DOMAIN traced[p] /\ ~has_fd(Table(p), NextFd(p))
<1>1. TracedLimit \in Nat
  BY TracedAssumption
<1>2. FreeFds(traced[p], TracedLimit) # {}
  BY <1>1, FreeFdsFinite, FS_EmptySet DEF HasRoom
<1>3. NextFd(p) \in TracedFds \ DOMAIN traced[p]
  BY <1>1, <1>2, NewFdIsFree DEF NextFd, FreeFds, TracedFds
<1>4. NextFd(p) \notin {SYSCALL_FAILURE, AT_FDCWD}
  BY <1>1, <1>3 DEF TracedFds, SYSCALL_FAILURE, AT_FDCWD
<1>5. QED
  BY <1>3, <1>4 DEF TableInv, SameDescriptors, has_fd

LEMMA SecondFdIsNew ==
    ASSUME TableInv, NEW p \in Alive, HasRoom(p, 2)
    PROVE  /\ HasRoom(p, 1) /\ SecondFd(p) \in TracedFds \ DOMAIN traced[p]
           /\ SecondFd(p) # NextFd(p) /\ ~has_fd(Table(p), SecondFd(p))
<1> DEFINE free == FreeFds(traced[p], TracedLimit)
           left == FreeFds(Put(traced[p], NextFd(p), Socket), TracedLimit)
<1>1. TracedLimit \in Nat
  BY TracedAssumption
<1>2. IsFiniteSet(free) /\ Cardinality(free) \in Nat /\ Cardinality(free) >= 2
  BY <1>1, FreeFdsFinite DEF HasRoom
<1>3. HasRoom(p, 1)
  BY <1>2 DEF HasRoom
<1>4. NextFd(p) \in free
  BY <1>1, <1>3, NextFdIsNew DEF FreeFds, TracedFds
<1>5. left = free \ {NextFd(p)}
  BY DEF FreeFds, Put
<1>6. Cardinality(free \ {NextFd(p)}) = Cardinality(free) - 1
  BY <1>2, <1>4, FS_RemoveElement
<1>7. left # {}
  BY <1>2, <1>5, <1>6, FS_EmptySet
<1>8. SecondFd(p) \in left
  BY <1>1, <1>7, NewFdIsFree DEF SecondFd
<1>9. SecondFd(p) \in TracedFds \ DOMAIN traced[p] /\ SecondFd(p) # NextFd(p)
  BY <1>5, <1>8 DEF FreeFds, TracedFds
<1>10. SecondFd(p) \notin {SYSCALL_FAILURE, AT_FDCWD}
  BY <1>1, <1>9 DEF TracedFds, SYSCALL_FAILURE, AT_FDCWD
<1>11. QED
  BY <1>3, <1>9, <1>10 DEF TableInv, SameDescriptors, has_fd

LEMMA TracedIsKnown ==
    ASSUME TableInv, NEW p \in Alive
    PROVE  /\ Real(DOMAIN Table(p)) = DOMAIN traced[p] /\ DOMAIN traced[p] \subseteq TracedFds
           /\ \A t \in DOMAIN traced[p] : has_fd(Table(p), t)
           /\ TracedFds \cap {SYSCALL_FAILURE, AT_FDCWD} = {}
<1>1. TracedFds \cap {SYSCALL_FAILURE, AT_FDCWD} = {}
  BY TracedAssumption DEF TracedFds, SYSCALL_FAILURE, AT_FDCWD
<1>2. QED
  BY <1>1 DEF TableInv, SameDescriptors, Real, has_fd

(* A call that adds the same descriptor to both keeps them the same.        *)
LEMMA BothGain ==
    ASSUME TableInv, NEW p, CallOf(p), NEW t \in TracedFds, NEW table,
           Real(DOMAIN table) \cup {t} = DOMAIN traced[p] \cup {t}, may_add(table, t),
           NEW fd, NEW flags, AddFd(p, table, t, fd, flags),
           NEW file, NEW cloexec, TracedGains(p, t, file, cloexec)
    PROVE  TableInv' /\ UNCHANGED aborted
<1>1. p \in Alive
  BY DEF CallOf
<1>2. TableBecomes(p, DOMAIN table \cup {t}) /\ UNCHANGED aborted
  BY <1>1, TableGains
<1>3. GroupBecomes(p, DOMAIN traced[p] \cup {t})
  <2>1. DOMAIN Put(traced[p], t, Descriptor(file, cloexec)) = DOMAIN traced[p] \cup {t}
    BY DEF Put
  <2>2. QED
    BY <2>1, GroupBecomesTable DEF TracedGains
<1>4. Real(DOMAIN table \cup {t}) = DOMAIN traced[p] \cup {t}
      /\ DOMAIN traced[p] \cup {t} \subseteq TracedFds
  BY <1>1, TracedIsKnown DEF Real
<1>5. QED
  BY <1>2, <1>3, <1>4, CallFollows

-----------------------------------------------------------------------------
LEMMA OpenFollows ==
    ASSUME TableInv, NEW p, NEW file, NEW cloexec, NEW opens, Open(p, file, cloexec, opens)
    PROVE  TableInv' /\ UNCHANGED aborted
<1>1. CallOf(p) /\ p \in Alive
  BY OpenIsCall DEF CallOf
<1>2. NextFd(p) \in TracedFds /\ may_add(Table(p), NextFd(p))
  BY <1>1, NextFdIsNew DEF Open, may_add
<1>3. QED
  BY <1>1, <1>2, BothGain, TracedIsKnown DEF Open

LEMMA OpenFailsFollows ==
    ASSUME TableInv, NEW p, NEW opens, OpenFails(p, opens)
    PROVE  TableInv' /\ UNCHANGED aborted
<1>1. CallOf(p) /\ p \in Alive
  BY OpenFailsIsCall DEF CallOf
<1>2. GroupBecomes(p, DOMAIN traced[p])
  BY <1>1, GroupStays DEF OpenFails
<1>3. \E E : TableBecomes(p, E) /\ Real(E) = Real(DOMAIN Table(p)) /\ UNCHANGED aborted
  <2>1. CASE UNCHANGED <<fds, aborted>>
    BY <2>1, TableStays
  <2>2. CASE AddFd(p, Table(p), SYSCALL_FAILURE, SYSCALL_FAILURE, {})
    <3>1. may_add(Table(p), SYSCALL_FAILURE)
      BY DEF may_add
    <3>2. TableBecomes(p, DOMAIN Table(p) \cup {SYSCALL_FAILURE}) /\ UNCHANGED aborted
      BY <1>1, <2>2, <3>1, TableGains
    <3>3. QED
      BY <3>2 DEF Real
  <2>3. QED
    BY <2>1, <2>2 DEF OpenFails
<1>4. QED
  BY <1>1, <1>2, <1>3, CallFollows, TracedIsKnown

LEMMA CloseFollows ==
    ASSUME TableInv, NEW p, NEW t \in TracedFds \cup {SYSCALL_FAILURE}, Close(p, t)
    PROVE  TableInv' /\ UNCHANGED aborted
<1>1. CallOf(p) /\ p \in Alive
  BY CloseIsCall DEF CallOf
<1>2. GroupBecomes(p, DOMAIN traced[p] \ {t})
  <2>1. DOMAIN Closed(traced[p], t) = DOMAIN traced[p] \ {t}
    BY DEF Closed, Without
  <2>2. QED
    BY <2>1, GroupBecomesTable DEF Close, TracedCloses
<1>3. TableBecomes(p, DOMAIN Table(p) \ {t})
  <2>1. DOMAIN remove_fd_entry(Table(p), t) = DOMAIN Table(p) \ {t}
    BY DEF remove_fd_entry, Without
  <2>2. QED
    BY <1>1, <2>1, TableIsUpdated DEF Close
<1>4. Real(DOMAIN Table(p) \ {t}) = DOMAIN traced[p] \ {t}
  BY <1>1, TracedIsKnown DEF Real
<1>5. QED
  BY <1>1, <1>2, <1>3, <1>4, CallFollows, TracedIsKnown DEF Close

LEMMA DupFollows ==
    ASSUME TableInv, NEW p, NEW t, Dup(p, t)
    PROVE  TableInv' /\ UNCHANGED aborted
<1>1. CallOf(p) /\ p \in Alive
  BY DupIsCall DEF CallOf
<1>2. has_fd(Table(p), t) /\ NextFd(p) \in TracedFds /\ may_add(Table(p), NextFd(p))
  BY <1>1, NextFdIsNew, TracedIsKnown DEF Dup, may_add
<1>3. TracedGains(p, NextFd(p), traced[p][t].file, FALSE)
  BY DEF Dup
<1>4. \E fd, flags : AddFd(p, Table(p), NextFd(p), fd, flags)
  BY <1>2 DEF Dup
<1>5. QED
  BY <1>1, <1>2, <1>3, <1>4, BothGain, TracedIsKnown

LEMMA FcntlDupFollows ==
    ASSUME TableInv, NEW p, NEW t, NEW cloexec, FcntlDup(p, t, cloexec)
    PROVE  TableInv' /\ UNCHANGED aborted
<1>1. CallOf(p) /\ p \in Alive
  BY FcntlDupIsCall DEF CallOf
<1>2. has_fd(Table(p), t) /\ NextFd(p) \in TracedFds /\ may_add(Table(p), NextFd(p))
  BY <1>1, NextFdIsNew, TracedIsKnown DEF FcntlDup, may_add
<1>3. TracedGains(p, NextFd(p), traced[p][t].file, cloexec)
  BY DEF FcntlDup
<1>4. \E fd, flags : AddFd(p, Table(p), NextFd(p), fd, flags)
  BY <1>2 DEF FcntlDup
<1>5. QED
  BY <1>1, <1>2, <1>3, <1>4, BothGain, TracedIsKnown

(* dup of what is no descriptor adds an entry for -1, or aborts.            *)
LEMMA DupFailsFollows ==
    ASSUME TableInv, NEW p, NEW t, DupFails(p, t)
    PROVE  TableInv'
<1>1. CallOf(p) /\ p \in Alive
  BY DupFailsIsCall DEF CallOf
<1>2. GroupBecomes(p, DOMAIN traced[p])
  BY <1>1, GroupStays DEF DupFails
<1>3. \E E : TableBecomes(p, E) /\ Real(E) = Real(DOMAIN Table(p))
  <2>1. CASE has_fd(Table(p), t)
    <3>1. PICK fd, flags : AddFd(p, Table(p), SYSCALL_FAILURE, fd, flags)
      BY <2>1 DEF DupFails
    <3>2. may_add(Table(p), SYSCALL_FAILURE)
      BY DEF may_add
    <3>3. TableBecomes(p, DOMAIN Table(p) \cup {SYSCALL_FAILURE})
      BY <1>1, <3>1, <3>2, TableGains
    <3>4. QED
      BY <3>3 DEF Real
  <2>2. CASE ~has_fd(Table(p), t)
    BY <2>2, TableStays DEF DupFails, Aborts
  <2>3. QED
    BY <2>1, <2>2
<1>4. QED
  BY <1>1, <1>2, <1>3, CallFollows, TracedIsKnown

(* dup2 and dup3: the new descriptor is removed, then added.                *)
LEMMA DupOntoGains ==
    ASSUME TableInv, NEW p \in Alive, NEW old, NEW new, NEW flags, NEW replayed,
           DupOnto(p, old, new, new, flags, replayed)
    PROVE  TableBecomes(p, DOMAIN Table(p) \cup {new}) /\ UNCHANGED aborted
<1> DEFINE table == remove_fd_entry(Table(p), new)
<1>1. \E fd : AddFd(p, table, new, fd, flags)
  BY DEF DupOnto
<1>2. DOMAIN table = DOMAIN Table(p) \ {new}
  BY DEF remove_fd_entry, Without
<1>3. may_add(table, new)
  BY <1>2 DEF may_add, has_fd
<1>4. DOMAIN table \cup {new} = DOMAIN Table(p) \cup {new}
  BY <1>2
<1> HIDE DEF table
<1>5. QED
  BY <1>1, <1>3, <1>4, TableGains

LEMMA Dup2Follows ==
    ASSUME TableInv, NEW p, NEW old, NEW new \in TracedFds, Dup2(p, old, new)
    PROVE  TableInv' /\ UNCHANGED aborted
<1>1. CallOf(p) /\ p \in Alive
  BY Dup2IsCall DEF CallOf
<1>2. has_fd(Table(p), old) /\ old \in DOMAIN traced[p]
  BY <1>1, TracedIsKnown DEF Dup2
<1>3. TableBecomes(p, DOMAIN Table(p) \cup {new}) /\ UNCHANGED aborted
  BY <1>1, <1>2, DupOntoGains DEF Dup2
<1>4. GroupBecomes(p, DOMAIN traced[p] \cup {new})
  <2>1. CASE old = new
    <3>1. DOMAIN traced[p] \cup {new} = DOMAIN traced[p]
      BY <1>2, <2>1
    <3>2. QED
      BY <1>1, <2>1, <3>1, GroupStays DEF Dup2
  <2>2. CASE old # new
    <3>1. DOMAIN Put(traced[p], new, Descriptor(traced[p][old].file, FALSE)) = DOMAIN traced[p] \cup {new}
      BY DEF Put
    <3>2. QED
      BY <2>2, <3>1, GroupBecomesTable DEF Dup2, TracedGains
  <2>3. QED
    BY <2>1, <2>2
<1>5. Real(DOMAIN Table(p) \cup {new}) = DOMAIN traced[p] \cup {new}
      /\ DOMAIN traced[p] \cup {new} \subseteq TracedFds
  BY <1>1, TracedIsKnown DEF Real
<1>6. QED
  BY <1>1, <1>3, <1>4, <1>5, CallFollows

LEMMA Dup3Follows ==
    ASSUME TableInv, NEW p, NEW old, NEW new \in TracedFds, NEW cloexec,
           Dup3(p, old, new, cloexec)
    PROVE  TableInv' /\ UNCHANGED aborted
<1>1. CallOf(p) /\ p \in Alive
  BY Dup3IsCall DEF CallOf
<1>2. has_fd(Table(p), old)
  BY <1>1, TracedIsKnown DEF Dup3
<1>3. TableBecomes(p, DOMAIN Table(p) \cup {new}) /\ UNCHANGED aborted
  BY <1>1, <1>2, DupOntoGains DEF Dup3
<1>4. GroupBecomes(p, DOMAIN traced[p] \cup {new})
  <2>1. DOMAIN Put(traced[p], new, Descriptor(traced[p][old].file, cloexec)) = DOMAIN traced[p] \cup {new}
    BY DEF Put
  <2>2. QED
    BY <2>1, GroupBecomesTable DEF Dup3, TracedGains
<1>5. Real(DOMAIN Table(p) \cup {new}) = DOMAIN traced[p] \cup {new}
      /\ DOMAIN traced[p] \cup {new} \subseteq TracedFds
  BY <1>1, TracedIsKnown DEF Real
<1>6. QED
  BY <1>1, <1>3, <1>4, <1>5, CallFollows

LEMMA FcntlSetFdFollows ==
    ASSUME TableInv, NEW p, NEW t, NEW cloexec, FcntlSetFd(p, t, cloexec)
    PROVE  TableInv' /\ UNCHANGED aborted
<1>1. CallOf(p) /\ p \in Alive
  BY FcntlSetFdIsCall DEF CallOf
<1>2. has_fd(Table(p), t)
  BY <1>1, TracedIsKnown DEF FcntlSetFd
<1>3. GroupBecomes(p, DOMAIN traced[p])
  <2>1. DOMAIN [traced[p] EXCEPT ![t].cloexec = cloexec] = DOMAIN traced[p]
    OBVIOUS
  <2>2. QED
    BY <2>1, GroupBecomesTable DEF FcntlSetFd, TracedSetsCloexec
<1>4. TableBecomes(p, DOMAIN Table(p)) /\ UNCHANGED aborted
  <2>1. CASE UNCHANGED <<fds, aborted>>
    BY <2>1, TableStays
  <2>2. CASE \E flags : fds' = Updated(fds, p, set_entry_flags(Table(p), t, flags))
    <3>1. \A flags : DOMAIN set_entry_flags(Table(p), t, flags) = DOMAIN Table(p)
      BY DEF set_entry_flags
    <3>2. UNCHANGED aborted
      BY <1>2 DEF FcntlSetFd
    <3>3. QED
      BY <1>1, <2>2, <3>1, <3>2, TableIsUpdated
  <2>3. QED
    BY <1>2, <2>1, <2>2 DEF FcntlSetFd
<1>5. QED
  BY <1>1, <1>3, <1>4, CallFollows, TracedIsKnown

LEMMA SimulatedFollows ==
    ASSUME TableInv, OrdinaryCalls, NEW p, NEW kind, NEW cloexec, Simulated(p, kind, cloexec)
    PROVE  TableInv' /\ UNCHANGED aborted
<1>1. CallOf(p) /\ p \in Alive
  BY SimulatedIsCall DEF CallOf
<1>2. kind # "accept4"
  BY DEF Simulated, RowWith, OrdinaryCalls
<1>3. NextFd(p) \in TracedFds /\ may_add(Table(p), NextFd(p))
  BY <1>1, NextFdIsNew DEF Simulated, may_add
<1>4. QED
  BY <1>1, <1>2, <1>3, BothGain, TracedIsKnown DEF Simulated

(* socketpair and pipe add two.                                            *)
LEMMA PairFollows ==
    ASSUME TableInv, NEW p, CallOf(p), NEW cloexec, HasRoom(p, 2),
           TracedPair(p, cloexec), AddPair(p)
    PROVE  TableInv' /\ UNCHANGED aborted
<1> DEFINE one == NextFd(p)
           two == SecondFd(p)
           table == add_fd_entry(Table(p), one, SYSCALL_SIMULATED, {})
<1>1. p \in Alive
  BY DEF CallOf
<1>2. /\ one \in TracedFds /\ ~has_fd(Table(p), one)
      /\ two \in TracedFds /\ ~has_fd(Table(p), two) /\ two # one
  BY <1>1, NextFdIsNew, SecondFdIsNew
<1>3. DOMAIN table = DOMAIN Table(p) \cup {one}
  BY <1>2 DEF add_fd_entry, Put
<1>4. may_add(table, two)
  BY <1>2, <1>3 DEF may_add, has_fd
<1>5. AddFd(p, table, two, SYSCALL_SIMULATED, {})
  BY <1>2 DEF AddPair, may_add
<1> HIDE DEF table
<1>6. TableBecomes(p, DOMAIN Table(p) \cup {one} \cup {two}) /\ UNCHANGED aborted
  BY <1>1, <1>3, <1>4, <1>5, TableGains
<1>7. GroupBecomes(p, DOMAIN traced[p] \cup {one} \cup {two})
  <2>1. DOMAIN Put(Put(traced[p], one, Descriptor(Socket, cloexec)),
                   two, Descriptor(Socket, cloexec)) = DOMAIN traced[p] \cup {one} \cup {two}
    BY DEF Put
  <2>2. QED
    BY <2>1, GroupBecomesTable DEF TracedPair
<1>8. Real(DOMAIN Table(p) \cup {one} \cup {two}) = DOMAIN traced[p] \cup {one} \cup {two}
      /\ DOMAIN traced[p] \cup {one} \cup {two} \subseteq TracedFds
  BY <1>1, <1>2, TracedIsKnown DEF Real
<1>9. QED
  BY <1>6, <1>7, <1>8, CallFollows

(* Both ends of a pipe that failed are 0: the second add_fd aborts, if the  *)
(* first did not.                                                          *)
LEMMA PipeFailsFollows ==
    ASSUME TableInv, NEW p, PipeFails(p)
    PROVE  TableInv'
<1>1. CallOf(p) /\ p \in Alive
  BY PipeFailsIsCall DEF CallOf
<1>2. GroupBecomes(p, DOMAIN traced[p])
  BY <1>1, GroupStays DEF PipeFails
<1>3. UNCHANGED fds
  <2>1. ~may_add(add_fd_entry(Table(p), 0, SYSCALL_SIMULATED, {}), 0)
    BY DEF may_add, add_fd_entry, has_fd, Put, SYSCALL_FAILURE
  <2>2. QED
    BY <2>1 DEF PipeFails, AddFd
<1>4. TableBecomes(p, DOMAIN Table(p))
  BY <1>3, TableStays
<1>5. QED
  BY <1>1, <1>2, <1>4, CallFollows, TracedIsKnown

-----------------------------------------------------------------------------
LEMMA TableInit == Init => TableInv
<1> SUFFICES ASSUME Init PROVE TableInv
  OBVIOUS
<1>1. IInv
  BY InitIsSafe
<1>2. /\ Alive = {Root} /\ file_peers = [p \in {Root} |-> {Root}]
      /\ DOMAIN traced[Root] = StdFds
  BY DEF Init, TracedInit, Alive
<1>3. DOMAIN View(fds, Root) = StdFds \cup {AT_FDCWD}
  BY SingleViews DEF Init
<1>4. StdFds \subseteq TracedFds /\ TracedFds \cap {SYSCALL_FAILURE, AT_FDCWD} = {}
  BY TracedAssumption DEF TracedFds, SYSCALL_FAILURE, AT_FDCWD
<1>5. QED
  BY <1>1, <1>2, <1>3, <1>4 DEF TableInv, Grouped, SameDescriptors, Table

(* A child shares its parent's table, or has one with the same descriptors. *)
LEMMA TableClone ==
    ASSUME TableInv, NEW parent \in Alive, NEW child \in Pids \ Alive, NEW files \in BOOLEAN,
           NEW fs, NEW share_umask,
           TracedClones(parent, child, files, fs),
           CloneResources(parent, child, share_umask, files)
    PROVE  TableInv' /\ UNCHANGED aborted
<1>1. IInv'
  BY CloneIsSafe DEF TableInv
<1>2. /\ Alive' = Alive \cup {child} /\ file_peers' = Joined(file_peers, parent, child, files)
      /\ traced'[child] = traced[parent] /\ \A q \in Alive : traced'[q] = traced[q]
  BY DEF TracedClones, Alive, Put
<1>3. SafeHeap(fds) /\ Alive \subseteq DOMAIN fds.of \ {child}
  BY DEF TableInv, IInv, Known
<1>4. \/ files /\ fds' = Shared(fds, parent, child)
      \/ ~files /\ \E a : /\ a \notin DOMAIN fds.rc
                        /\ fds' = Created(fds, child, a, CopiedTable(Table(parent)))
  BY DEF CloneResources, Unallocated
<1>5. /\ \A q \in Alive : fds'.of[q] = fds.of[q] /\ View(fds', q) = View(fds, q)
      /\ files => fds'.of[child] = fds.of[parent]
      /\ ~files => \A q \in Alive : fds.of[q] # fds'.of[child]
      /\ DOMAIN View(fds', child) = DOMAIN View(fds, parent)
  <2>1. CASE files /\ fds' = Shared(fds, parent, child)
    BY <1>3, <2>1, SharedViews
  <2>2. CASE ~files /\ \E a : /\ a \notin DOMAIN fds.rc
                             /\ fds' = Created(fds, child, a, CopiedTable(Table(parent)))
    <3>1. PICK a : /\ a \notin DOMAIN fds.rc
                   /\ fds' = Created(fds, child, a, CopiedTable(Table(parent)))
      BY <2>2
    <3>2. /\ fds'.of[child] = a /\ View(fds', child) = CopiedTable(Table(parent))
          /\ \A q \in DOMAIN fds.of \ {child} :
                fds'.of[q] = fds.of[q] /\ fds.of[q] # a /\ View(fds', q) = View(fds, q)
      BY <1>3, <3>1, CreatedViews
    <3>3. DOMAIN CopiedTable(Table(parent)) = DOMAIN View(fds, parent)
      BY DEF CopiedTable, Table
    <3>4. QED
      BY <1>3, <2>2, <3>2, <3>3
  <2>3. QED
    BY <1>4, <2>1, <2>2
<1>6. Grouped(fds', file_peers', Alive')
  BY <1>2, <1>5, JoinedIsGrouped DEF TableInv
<1>7. \A q \in Alive' : /\ DOMAIN traced'[q] \subseteq TracedFds
                      /\ Real(DOMAIN View(fds', q)) = DOMAIN traced'[q]
  BY <1>2, <1>5 DEF TableInv, SameDescriptors, Real, Table
<1>8. UNCHANGED aborted
  BY DEF CloneResources
<1>9. QED
  BY <1>1, <1>6, <1>7, <1>8 DEF TableInv, SameDescriptors, Real, Table, TracedFds

LEMMA TableCloneFails ==
    ASSUME TableInv, NEW p, NEW flags, CloneFails(p, flags)
    PROVE  TableInv' /\ UNCHANGED aborted
<1>1. IInv'
  BY CloneFailsIsSafe DEF TableInv
<1>2. p \in Alive /\ Alive' = Alive /\ UNCHANGED <<traced, file_peers, aborted>>
  BY DEF CloneFails, CloneResources, tracedVars, Alive
<1>3. SafeHeap(fds) /\ Alive \subseteq DOMAIN fds.of \ {FailedPid}
  BY DEF TableInv, IInv, Known
<1>4. \/ fds' = Shared(fds, p, FailedPid)
      \/ \E a, v : a \notin DOMAIN fds.rc /\ fds' = Created(fds, FailedPid, a, v)
  BY DEF CloneFails, CloneResources, Unallocated
<1>5. \A q \in Alive : fds'.of[q] = fds.of[q] /\ View(fds', q) = View(fds, q)
  BY <1>2, <1>3, <1>4, SharedViews, CreatedViews
<1>6. QED
  BY <1>1, <1>2, <1>5 DEF TableInv, Grouped, SameDescriptors, Table, TracedFds

LEMMA TableExit ==
    ASSUME TableInv, NEW p, Exit(p)
    PROVE  TableInv' /\ UNCHANGED aborted
<1>1. IInv'
  BY ExitIsSafe DEF TableInv
<1>2. /\ p \in Alive /\ Alive' = Alive \ {p} /\ file_peers' = Left(file_peers, p)
      /\ \A q \in Alive \ {p} : traced'[q] = traced[q]
      /\ fds' = Dropped(fds, p) /\ UNCHANGED aborted
  BY DEF Exit, TracedExits, Alive, Without
<1>3. SafeHeap(fds) /\ Alive \subseteq DOMAIN fds.of
  BY DEF TableInv, IInv, Known
<1>4. \A q \in Alive' : fds'.of[q] = fds.of[q] /\ View(fds', q) = View(fds, q)
  BY <1>2, <1>3, DroppedViews
<1>5. Grouped(fds', file_peers', Alive')
  BY <1>2, <1>4, LeftIsGrouped DEF TableInv
<1>6. QED
  BY <1>1, <1>2, <1>4, <1>5 DEF TableInv, SameDescriptors, Table, TracedFds

LEMMA TableStutters ==
    ASSUME TableInv, UNCHANGED <<tracedVars, fds, umasks, aborted>>
    PROVE  TableInv' /\ UNCHANGED aborted
BY DEF TableInv, IInv, Grouped, SameDescriptors, Table, TracedFds, Alive, tracedVars

\* Calls whose failure in the trace makes an assertion of the replayer fail.
CallsFailing == {"dup_fails", "pipe_fails"} \cap Kinds # {}

LEMMA TableNext ==
    ASSUME ThreadsShare, OrdinaryCalls, TableInv, [Next]_vars
    PROVE  TableInv' /\ (CallsFailing \/ UNCHANGED aborted)
<1>1. CASE \E p \in Pids, f \in Files, cloexec \in BOOLEAN, opens \in {TRUE, ~ReplayMayFail} :
              Open(p, f, cloexec, opens)
  BY <1>1, OpenFollows
<1>2. CASE \E p \in Pids, opens \in BOOLEAN : OpenFails(p, opens)
  BY <1>2, OpenFailsFollows
<1>3. CASE \E p \in Pids, t \in TracedFds \cup {SYSCALL_FAILURE} : Close(p, t)
  BY <1>3, CloseFollows
<1>4. CASE \E p \in Pids, t \in TracedFds : Dup(p, t)
  BY <1>4, DupFollows
<1>5. CASE \E p \in Pids, t \in TracedFds \cup {SYSCALL_FAILURE} : DupFails(p, t)
  BY <1>5, DupFailsFollows DEF DupFails, Row, CallsFailing
<1>6. CASE \E p \in Pids, old, new \in TracedFds : Dup2(p, old, new)
  BY <1>6, Dup2Follows
<1>7. CASE \E p \in Pids, old, new \in TracedFds, cloexec \in BOOLEAN :
              Dup3(p, old, new, cloexec)
  BY <1>7, Dup3Follows
<1>8. CASE \E p \in Pids, t \in TracedFds : Dup3Fails(p, t)
  BY <1>8 DEF Dup3Fails, Row, OrdinaryCalls
<1>9. CASE \E p \in Pids, t \in TracedFds, cloexec \in BOOLEAN : FcntlDup(p, t, cloexec)
  BY <1>9, FcntlDupFollows
<1>10. CASE \E p \in Pids, t \in TracedFds, cloexec \in BOOLEAN : FcntlSetFd(p, t, cloexec)
  BY <1>10, FcntlSetFdFollows
<1>11. CASE \E p \in Pids, kind \in {"socket", "accept", "accept4"}, cloexec \in BOOLEAN :
               Simulated(p, kind, cloexec)
  BY <1>11, SimulatedFollows
<1>12. CASE \E p \in Pids, cloexec \in BOOLEAN : SocketPair(p, cloexec)
  BY <1>12, PairFollows, SocketPairIsCall DEF SocketPair
<1>13. CASE \E p \in Pids : Pipe(p)
  BY <1>13, PairFollows, PipeIsCall DEF Pipe
<1>14. CASE \E p \in Pids : PipeFails(p)
  BY <1>14, PipeFailsFollows DEF PipeFails, Row, CallsFailing
<1>15. CASE \E p, child \in Pids, flags \in CloneFlags : Clone(p, child, flags)
  <2>1. PICK p, child \in Pids, flags \in CloneFlags : Clone(p, child, flags)
    BY <1>15
  <2>2. SharesFiles(flags) = ("CLONE_FILES" \in flags) /\ ("CLONE_FILES" \in flags) \in BOOLEAN
    BY DEF ThreadsShare, SharesFiles
  <2>3. QED
    BY <2>1, <2>2, TableClone DEF Clone
<1>16. CASE \E p, child \in Pids : VFork(p, child)
  BY <1>16, TableClone DEF VFork
<1>17. CASE \E p \in Pids, flags \in CloneFlags : CloneFails(p, flags)
  BY <1>17, TableCloneFails
<1>18. CASE \E p \in Pids : Exit(p)
  BY <1>18, TableExit
<1>19. CASE \E p \in Pids, returned \in {0, SYSCALL_FAILURE} : Execve(p, returned)
  BY <1>19 DEF Execve, Row, OrdinaryCalls
<1>20. CASE \E p \in Pids, mode \in Modes : Umask(p, mode)
  <2>1. PICK p \in Pids, mode \in Modes : Umask(p, mode)
    BY <1>20
  <2>2. IInv'
    BY <2>1, UmaskIsSafe DEF TableInv
  <2>3. Alive' = Alive /\ UNCHANGED <<traced, file_peers, fds, aborted>>
    BY <2>1 DEF Umask, TracedUmask, Alive
  <2>4. QED
    BY <2>2, <2>3 DEF TableInv, Grouped, SameDescriptors, Table, TracedFds
<1>21. CASE UNCHANGED vars
  BY <1>21, TableStutters DEF vars, replayVars
<1>22. QED
  BY <1>1, <1>2, <1>3, <1>4, <1>5, <1>6, <1>7, <1>8, <1>9, <1>10, <1>11, <1>12, <1>13,
     <1>14, <1>15, <1>16, <1>17, <1>18, <1>19, <1>20, <1>21 DEF Next

(* The entries of a table are the descriptors the traced process has open,  *)
(* through any opens, duplicates, clones and exits, failed ones included.  *)
THEOREM TablesFollow == ThreadsShare /\ OrdinaryCalls => (Spec => []SameDescriptors)
<1> SUFFICES ASSUME ThreadsShare, OrdinaryCalls PROVE Spec => []SameDescriptors
  OBVIOUS
<1>1. TableInv /\ [Next]_vars => TableInv'
  BY TableNext
<1>2. TableInv => SameDescriptors
  BY DEF TableInv
<1>3. QED
  BY TableInit, <1>1, <1>2, PTL DEF Spec

(* ... and so add_fd_entry's assertion, and those of a descriptor that has  *)
(* no entry, hold, unless a dup or a pipe failed in the trace.             *)
THEOREM AssertionsHold ==
    ThreadsShare /\ OrdinaryCalls /\ ~CallsFailing => (Spec => []NeverAborts)
<1> SUFFICES ASSUME ThreadsShare, OrdinaryCalls, ~CallsFailing PROVE Spec => []NeverAborts
  OBVIOUS
<1> DEFINE Follows == TableInv /\ aborted = FALSE
<1>1. Init => Follows
  BY TableInit DEF Init
<1>2. Follows /\ [Next]_vars => Follows'
  BY TableNext
<1>3. Follows => NeverAborts
  BY DEF NeverAborts
<1>4. QED
  BY <1>1, <1>2, <1>3, PTL DEF Spec

-----------------------------------------------------------------------------
(***************************************************************************)
(* Types. A call writes entries of the right kind, for descriptors of the  *)
(* trace, and the kernel hands out numbers below its limit.                *)
(***************************************************************************)
TableTyped(table) ==
    /\ DOMAIN table \subseteq TracedFds \cup {SYSCALL_FAILURE, AT_FDCWD}
    /\ \A t \in DOMAIN table : table[t] \in [fd : Int, flags : SUBSET {O_CLOEXEC}]

Openable == Files \cup {Terminal, Socket, ReplayerFile}

OpenTyped(open) == open \in [DOMAIN open -> Openable] /\ DOMAIN open \subseteq 0 .. ReplayLimit - 1

TypeInv == IInv /\ TypeOK

(* What a call of p makes of its table.                                     *)
TypedCall(p) ==
    /\ CallOf(p)
    /\ UNCHANGED fds \/ \E table : TableTyped(table) /\ fds' = Updated(fds, p, table)
    /\ OpenTyped(open_fds')

LEMMA TypeOKSplit ==
    TypeOK <=>
        /\ Alive \subseteq Pids
        /\ DOMAIN fds.of \ {FailedPid} = Alive /\ DOMAIN umasks.of = DOMAIN fds.of
        /\ \A a \in DOMAIN fds.val : TableTyped(fds.val[a])
        /\ \A m \in DOMAIN umasks.val : umasks.val[m] \in Modes
        /\ OpenTyped(open_fds)
BY DEF TypeOK, TableTyped, OpenTyped, Openable

LEMMA TypeCall ==
    ASSUME TypeInv, NEW p, TypedCall(p)
    PROVE  TypeInv'
<1>1. IInv' /\ CallOf(p)
  BY CallIsSafe DEF TypeInv, TypedCall
<1>2. Alive' = Alive /\ UNCHANGED umasks /\ fds'.of = fds.of /\ DOMAIN fds'.val = DOMAIN fds.val
  BY <1>1 DEF CallOf, PointersStay
<1>3. \A a \in DOMAIN fds.val : TableTyped(fds.val[a])
  BY TypeOKSplit DEF TypeInv
<1>4. \A a \in DOMAIN fds'.val : TableTyped(fds'.val[a])
  <2>1. CASE UNCHANGED fds
    BY <1>3, <2>1
  <2>2. CASE \E table : TableTyped(table) /\ fds' = Updated(fds, p, table)
    <3>1. PICK table : TableTyped(table) /\ fds' = Updated(fds, p, table)
      BY <2>2
    <3>2. \A a \in DOMAIN fds.val : fds'.val[a] \in {fds.val[a], table}
      BY <3>1 DEF Updated
    <3>3. QED
      BY <1>2, <1>3, <3>1, <3>2
  <2>3. QED
    BY <2>1, <2>2 DEF TypedCall
<1>5. (\A a \in DOMAIN fds.val : TableTyped(fds.val[a]))'
  BY <1>4 DEF TableTyped, TracedFds
<1>6. OpenTyped(open_fds)'
  BY DEF TypedCall, OpenTyped, Openable
<1>7. QED
  BY <1>1, <1>2, <1>5, <1>6 DEF TypeInv, TypeOK, TableTyped, OpenTyped, Openable

-----------------------------------------------------------------------------
(* The tables of the operators.                                            *)
LEMMA AliveTables ==
    ASSUME TypeInv, NEW p \in Alive
    PROVE  TableTyped(Table(p)) /\ OpenTyped(open_fds) /\ ReplayLimit \in Nat /\ TracedLimit \in Nat
<1>1. fds.of[p] \in DOMAIN fds.val
  BY DEF TypeInv, IInv, Known, SafeHeap, NoDangling
<1>2. QED
  BY <1>1, TypeOKSplit, TracedAssumption, ReplayAssumption DEF TypeInv, Table, View

LEMMA AddedTyped ==
    ASSUME NEW table, TableTyped(table), NEW t \in TracedFds \cup {SYSCALL_FAILURE},
           NEW fd \in Int, NEW flags \in SUBSET {O_CLOEXEC}
    PROVE  TableTyped(add_fd_entry(table, t, fd, flags))
BY DEF TableTyped, add_fd_entry, Put, Entry

LEMMA RemovedTyped ==
    ASSUME NEW table, TableTyped(table), NEW t
    PROVE  TableTyped(remove_fd_entry(table, t))
BY DEF TableTyped, remove_fd_entry, Without

LEMMA GotTyped ==
    ASSUME NEW table, TableTyped(table), NEW t
    PROVE  /\ get_fd(table, t) \in Int
           /\ t \in DOMAIN table => table[t].flags \in SUBSET {O_CLOEXEC}
BY DEF TableTyped, get_fd, has_fd, SYSCALL_FAILURE

LEMMA AddFdTyped ==
    ASSUME TypeInv, NEW p \in Alive, NEW table, TableTyped(table),
           NEW t \in TracedFds \cup {SYSCALL_FAILURE},
           NEW fd \in Int, NEW flags \in SUBSET {O_CLOEXEC}, AddFd(p, table, t, fd, flags)
    PROVE  UNCHANGED fds \/ \E new : TableTyped(new) /\ fds' = Updated(fds, p, new)
BY AddedTyped DEF AddFd

(* The kernel.                                                             *)
LEMMA NewFdTyped ==
    ASSUME NEW open, NEW limit \in Nat
    PROVE  /\ NewFd(open, limit) \in Int
           /\ NewFd(open, limit) # SYSCALL_FAILURE => NewFd(open, limit) \in FreeFds(open, limit)
<1>1. CASE FreeFds(open, limit) = {}
  BY <1>1 DEF NewFd, SYSCALL_FAILURE
<1>2. CASE FreeFds(open, limit) # {}
  BY <1>2, NewFdIsFree DEF FreeFds
<1>3. QED
  BY <1>1, <1>2

LEMMA OpenedTyped ==
    ASSUME NEW open, OpenTyped(open), NEW n \in (0 .. ReplayLimit - 1) \cup {SYSCALL_FAILURE},
           NEW file \in Openable
    PROVE  OpenTyped(Opened(open, n, file))
BY DEF OpenTyped, Opened, Put

LEMMA ClosedTyped ==
    ASSUME NEW open, OpenTyped(open), NEW n, NEW S
    PROVE  OpenTyped(Closed(open, n)) /\ OpenTyped(ClosedAll(open, S))
BY DEF OpenTyped, Closed, ClosedAll, Without

LEMMA NewFdBelow ==
    ASSUME NEW open
    PROVE  NewFd(open, ReplayLimit) \in (0 .. ReplayLimit - 1) \cup {SYSCALL_FAILURE}
BY NewFdTyped, ReplayAssumption DEF FreeFds

LEMMA AfterDupTyped ==
    ASSUME NEW open, OpenTyped(open), NEW n
    PROVE  /\ OpenTyped(AfterDup(open, ReplayLimit, n))
           /\ DupReturns(open, ReplayLimit, n) \in Int
<1>1. CASE n \in DOMAIN open
  <2>1. open[n] \in Openable
    BY <1>1 DEF OpenTyped
  <2>2. QED
    BY <1>1, <2>1, NewFdBelow, OpenedTyped, NewFdTyped, ReplayAssumption DEF AfterDup, DupReturns
<1>2. CASE n \notin DOMAIN open
  BY <1>2 DEF AfterDup, DupReturns, EBADF, SYSCALL_FAILURE
<1>3. QED
  BY <1>1, <1>2

LEMMA NextFdTyped ==
    ASSUME NEW p, HasRoom(p, 1)
    PROVE  NextFd(p) \in TracedFds \ DOMAIN traced[p]
<1>1. TracedLimit \in Nat
  BY TracedAssumption
<1>2. FreeFds(traced[p], TracedLimit) # {}
  BY <1>1, FreeFdsFinite, FS_EmptySet DEF HasRoom
<1>3. QED
  BY <1>1, <1>2, NewFdIsFree DEF NextFd, FreeFds, TracedFds

LEMMA SecondFdTyped ==
    ASSUME NEW p, HasRoom(p, 2)
    PROVE  /\ HasRoom(p, 1) /\ SecondFd(p) \in TracedFds \ DOMAIN traced[p]
           /\ SecondFd(p) # NextFd(p)
<1> DEFINE free == FreeFds(traced[p], TracedLimit)
           left == FreeFds(Put(traced[p], NextFd(p), Socket), TracedLimit)
<1>1. TracedLimit \in Nat
  BY TracedAssumption
<1>2. IsFiniteSet(free) /\ Cardinality(free) \in Nat /\ Cardinality(free) >= 2
  BY <1>1, FreeFdsFinite DEF HasRoom
<1>3. HasRoom(p, 1)
  BY <1>2 DEF HasRoom
<1>4. NextFd(p) \in free
  BY <1>1, <1>3, NextFdTyped DEF FreeFds, TracedFds
<1>5. left = free \ {NextFd(p)}
  BY DEF FreeFds, Put
<1>6. Cardinality(free \ {NextFd(p)}) = Cardinality(free) - 1
  BY <1>2, <1>4, FS_RemoveElement
<1>7. left # {}
  BY <1>2, <1>5, <1>6, FS_EmptySet
<1>8. SecondFd(p) \in left
  BY <1>1, <1>7, NewFdIsFree DEF SecondFd
<1>9. QED
  BY <1>3, <1>5, <1>8 DEF FreeFds, TracedFds
-----------------------------------------------------------------------------
LEMMA OpenTypedCall ==
    ASSUME TypeInv, NEW p, NEW file \in Files, NEW cloexec \in BOOLEAN, NEW opens,
           Open(p, file, cloexec, opens)
    PROVE  TypedCall(p)
<1>1. CallOf(p) /\ p \in Alive
  BY OpenIsCall DEF CallOf
<1>2. DEFINE replayed == IF opens THEN NewFd(open_fds, ReplayLimit) ELSE SYSCALL_FAILURE
<1>3. replayed \in (0 .. ReplayLimit - 1) \cup {SYSCALL_FAILURE} /\ replayed \in Int
  BY NewFdBelow, NewFdTyped, ReplayAssumption DEF SYSCALL_FAILURE
<1>4. NextFd(p) \in TracedFds /\ FlagsOf(cloexec) \in SUBSET {O_CLOEXEC}
  BY NextFdTyped DEF Open, FlagsOf
<1>5. TableTyped(Table(p)) /\ OpenTyped(open_fds)
  BY <1>1, AliveTables
<1>6. OpenTyped(open_fds')
  BY <1>3, <1>5, OpenedTyped DEF Open, Openable
<1>7. AddFd(p, Table(p), NextFd(p), replayed, FlagsOf(cloexec))
  BY DEF Open
<1> HIDE DEF replayed
<1>8. UNCHANGED fds \/ \E new : TableTyped(new) /\ fds' = Updated(fds, p, new)
  BY <1>1, <1>3, <1>4, <1>5, <1>7, AddFdTyped
<1>9. QED
  BY <1>1, <1>6, <1>8 DEF TypedCall

LEMMA OpenFailsTypedCall ==
    ASSUME TypeInv, NEW p, NEW opens, OpenFails(p, opens)
    PROVE  TypedCall(p)
<1>1. CallOf(p) /\ p \in Alive
  BY OpenFailsIsCall DEF CallOf
<1>2. TableTyped(Table(p)) /\ OpenTyped(open_fds) /\ SYSCALL_FAILURE \in Int
  BY <1>1, AliveTables DEF SYSCALL_FAILURE
<1>3. UNCHANGED fds \/ \E new : TableTyped(new) /\ fds' = Updated(fds, p, new)
  BY <1>1, <1>2, AddFdTyped DEF OpenFails
<1>4. QED
  BY <1>1, <1>2, <1>3 DEF TypedCall, OpenFails

LEMMA CloseTypedCall ==
    ASSUME TypeInv, NEW p, NEW t, Close(p, t)
    PROVE  TypedCall(p)
<1>1. CallOf(p) /\ p \in Alive
  BY CloseIsCall DEF CallOf
<1>2. TableTyped(Table(p)) /\ OpenTyped(open_fds)
  BY <1>1, AliveTables
<1>3. OpenTyped(open_fds')
  BY <1>2, ClosedTyped DEF Close
<1>4. QED
  BY <1>1, <1>2, <1>3, RemovedTyped DEF TypedCall, Close

(* What dup and its relatives add: the replayed descriptor the kernel gave. *)
LEMMA DupAdds ==
    ASSUME TypeInv, NEW p \in Alive, NEW t \in TracedFds \cup {SYSCALL_FAILURE},
           NEW fd, NEW replayed \in Int, NEW flags \in SUBSET {O_CLOEXEC},
           AddFd(p, Table(p), t, replayed, flags),
           open_fds' \in {open_fds, AfterDup(open_fds, ReplayLimit, fd)}
    PROVE  /\ UNCHANGED fds \/ \E new : TableTyped(new) /\ fds' = Updated(fds, p, new)
           /\ OpenTyped(open_fds')
BY AliveTables, AddFdTyped, AfterDupTyped

LEMMA DupTypedCall ==
    ASSUME TypeInv, NEW p, NEW t, Dup(p, t)
    PROVE  TypedCall(p)
<1>1. CallOf(p) /\ p \in Alive
  BY DupIsCall DEF CallOf
<1>2. TableTyped(Table(p)) /\ OpenTyped(open_fds)
  BY <1>1, AliveTables
<1>3. CASE has_fd(Table(p), t)
  <2> DEFINE fd == get_fd(Table(p), t)
             replayed == IF fd = SYSCALL_SIMULATED THEN NextFd(p)
                         ELSE DupReturns(open_fds, ReplayLimit, fd)
             flags == Table(p)[t].flags \ {O_CLOEXEC}
  <2>1. NextFd(p) \in TracedFds /\ NextFd(p) \in Int
    BY NextFdTyped DEF Dup, TracedFds
  <2>2. replayed \in Int /\ flags \in SUBSET {O_CLOEXEC}
    BY <1>2, <1>3, <2>1, AfterDupTyped, GotTyped DEF has_fd
  <2>3. AddFd(p, Table(p), NextFd(p), replayed, flags)
        /\ open_fds' \in {open_fds, AfterDup(open_fds, ReplayLimit, fd)}
    BY <1>3 DEF Dup
  <2> HIDE DEF replayed, flags, fd
  <2>4. QED
    BY <1>1, <2>1, <2>2, <2>3, DupAdds DEF TypedCall
<1>4. CASE ~has_fd(Table(p), t)
  BY <1>1, <1>2, <1>4 DEF Dup, Aborts, TypedCall
<1>5. QED
  BY <1>3, <1>4

LEMMA DupFailsTypedCall ==
    ASSUME TypeInv, NEW p, NEW t, DupFails(p, t)
    PROVE  TypedCall(p)
<1>1. CallOf(p) /\ p \in Alive
  BY DupFailsIsCall DEF CallOf
<1>2. TableTyped(Table(p)) /\ OpenTyped(open_fds)
  BY <1>1, AliveTables
<1>3. CASE has_fd(Table(p), t)
  <2> DEFINE fd == get_fd(Table(p), t)
             replayed == DupReturns(open_fds, ReplayLimit, fd)
             flags == Table(p)[t].flags \ {O_CLOEXEC}
  <2>1. replayed \in Int /\ flags \in SUBSET {O_CLOEXEC}
    BY <1>2, <1>3, AfterDupTyped, GotTyped DEF has_fd
  <2>2. AddFd(p, Table(p), SYSCALL_FAILURE, replayed, flags)
        /\ open_fds' \in {open_fds, AfterDup(open_fds, ReplayLimit, fd)}
    BY <1>3 DEF DupFails
  <2> HIDE DEF replayed, flags, fd
  <2>3. QED
    BY <1>1, <2>1, <2>2, DupAdds DEF TypedCall
<1>4. CASE ~has_fd(Table(p), t)
  BY <1>1, <1>2, <1>4 DEF DupFails, Aborts, TypedCall
<1>5. QED
  BY <1>3, <1>4

LEMMA FcntlDupTypedCall ==
    ASSUME TypeInv, NEW p, NEW t, NEW cloexec \in BOOLEAN, FcntlDup(p, t, cloexec)
    PROVE  TypedCall(p)
<1>1. CallOf(p) /\ p \in Alive
  BY FcntlDupIsCall DEF CallOf
<1>2. TableTyped(Table(p)) /\ OpenTyped(open_fds)
  BY <1>1, AliveTables
<1>3. CASE has_fd(Table(p), t)
  <2> DEFINE fd == get_fd(Table(p), t)
             replayed == DupReturns(open_fds, ReplayLimit, fd)
             flags == (Table(p)[t].flags \ {O_CLOEXEC}) \cup FlagsOf(cloexec)
  <2>1. NextFd(p) \in TracedFds
    BY NextFdTyped DEF FcntlDup
  <2>2. replayed \in Int /\ flags \in SUBSET {O_CLOEXEC}
    BY <1>2, <1>3, AfterDupTyped, GotTyped DEF has_fd, FlagsOf
  <2>3. AddFd(p, Table(p), NextFd(p), replayed, flags)
        /\ open_fds' \in {open_fds, AfterDup(open_fds, ReplayLimit, fd)}
    BY <1>3 DEF FcntlDup
  <2> HIDE DEF replayed, flags, fd
  <2>4. QED
    BY <1>1, <2>1, <2>2, <2>3, DupAdds DEF TypedCall
<1>4. CASE ~has_fd(Table(p), t)
  BY <1>1, <1>2, <1>4 DEF FcntlDup, Aborts, TypedCall
<1>5. QED
  BY <1>3, <1>4

(* dup2 and dup3: the kernel answers with the number asked for, or -1.      *)
LEMMA OntoTyped ==
    ASSUME NEW open, OpenTyped(open), NEW old, NEW new
    PROVE  \A replayed \in {Dup2Returns(open, ReplayLimit, old, new),
                            Dup3Returns(open, ReplayLimit, old, new)} :
              replayed \in Int /\ OpenTyped(AfterDup2(open, old, replayed))
<1> TAKE replayed \in {Dup2Returns(open, ReplayLimit, old, new),
                       Dup3Returns(open, ReplayLimit, old, new)}
<1>1. ReplayLimit \in Nat
  BY ReplayAssumption
<1>2. replayed = SYSCALL_FAILURE \/ (old \in DOMAIN open /\ replayed \in 0 .. ReplayLimit - 1)
  BY DEF Dup2Returns, Dup3Returns, EBADF
<1>3. CASE replayed = SYSCALL_FAILURE
  BY <1>3 DEF AfterDup2, EBADF, SYSCALL_FAILURE
<1>4. CASE replayed # SYSCALL_FAILURE /\ old \in DOMAIN open /\ replayed \in 0 .. ReplayLimit - 1
  BY <1>1, <1>4 DEF AfterDup2, EBADF, OpenTyped, Put
<1>5. QED
  BY <1>2, <1>3, <1>4

LEMMA DupOntoTyped ==
    ASSUME TypeInv, NEW p \in Alive, NEW old, NEW new,
           NEW returned \in TracedFds \cup {SYSCALL_FAILURE},
           NEW flags \in SUBSET {O_CLOEXEC},
           NEW replayed \in {OntoBy2(p, old, new), OntoBy3(p, old, new)},
           DupOnto(p, old, new, returned, flags, replayed)
    PROVE  /\ UNCHANGED fds \/ \E table : TableTyped(table) /\ fds' = Updated(fds, p, table)
           /\ OpenTyped(open_fds')
<1> DEFINE fd == get_fd(Table(p), old)
           table == remove_fd_entry(Table(p), new)
<1>1. OpenTyped(open_fds) /\ TableTyped(table) /\ SYSCALL_SIMULATED \in Int
  BY AliveTables, RemovedTyped DEF SYSCALL_SIMULATED
<1>2. replayed \in Int /\ OpenTyped(AfterDup2(open_fds, fd, replayed))
  BY <1>1, OntoTyped DEF OntoBy2, OntoBy3
<1>3. \/ AddFd(p, table, returned, SYSCALL_SIMULATED, flags) /\ UNCHANGED open_fds
      \/ AddFd(p, table, returned, replayed, flags) /\ open_fds' = AfterDup2(open_fds, fd, replayed)
  BY DEF DupOnto
<1> HIDE DEF table, fd
<1>4. QED
  BY <1>1, <1>2, <1>3, AddFdTyped

LEMMA Dup2TypedCall ==
    ASSUME TypeInv, NEW p, NEW old, NEW new \in TracedFds, Dup2(p, old, new)
    PROVE  TypedCall(p)
<1>1. CallOf(p) /\ p \in Alive
  BY Dup2IsCall DEF CallOf
<1>2. TableTyped(Table(p)) /\ OpenTyped(open_fds)
  BY <1>1, AliveTables
<1>3. CASE has_fd(Table(p), old)
  <2>1. Table(p)[old].flags \ {O_CLOEXEC} \in SUBSET {O_CLOEXEC}
    BY <1>2, <1>3, GotTyped DEF has_fd
  <2>2. DupOnto(p, old, new, new, Table(p)[old].flags \ {O_CLOEXEC}, OntoBy2(p, old, new))
    BY <1>3 DEF Dup2
  <2>3. QED
    BY <1>1, <2>1, <2>2, DupOntoTyped DEF TypedCall
<1>4. CASE ~has_fd(Table(p), old)
  BY <1>1, <1>2, <1>4 DEF Dup2, Aborts, TypedCall
<1>5. QED
  BY <1>3, <1>4

LEMMA Dup3TypedCall ==
    ASSUME TypeInv, NEW p, NEW old, NEW new \in TracedFds, NEW cloexec, Dup3(p, old, new, cloexec)
    PROVE  TypedCall(p)
<1>1. CallOf(p) /\ p \in Alive
  BY Dup3IsCall DEF CallOf
<1>2. TableTyped(Table(p)) /\ OpenTyped(open_fds)
  BY <1>1, AliveTables
<1>3. CASE has_fd(Table(p), old)
  <2>1. Table(p)[old].flags \in SUBSET {O_CLOEXEC}
    BY <1>2, <1>3, GotTyped DEF has_fd
  <2>2. DupOnto(p, old, new, new, Table(p)[old].flags, OntoBy3(p, old, new))
    BY <1>3 DEF Dup3
  <2>3. QED
    BY <1>1, <2>1, <2>2, DupOntoTyped DEF TypedCall
<1>4. CASE ~has_fd(Table(p), old)
  BY <1>1, <1>2, <1>4 DEF Dup3, Aborts, TypedCall
<1>5. QED
  BY <1>3, <1>4

LEMMA Dup3FailsTypedCall ==
    ASSUME TypeInv, NEW p, NEW t, Dup3Fails(p, t)
    PROVE  TypedCall(p)
<1>1. CallOf(p) /\ p \in Alive
  BY Dup3FailsIsCall DEF CallOf
<1>2. TableTyped(Table(p)) /\ OpenTyped(open_fds)
  BY <1>1, AliveTables
<1>3. CASE has_fd(Table(p), t)
  <2>1. Table(p)[t].flags \in SUBSET {O_CLOEXEC}
    BY <1>2, <1>3, GotTyped DEF has_fd
  <2>2. DupOnto(p, t, t, SYSCALL_FAILURE, Table(p)[t].flags, OntoBy3(p, t, t))
    BY <1>3 DEF Dup3Fails
  <2>3. QED
    BY <1>1, <2>1, <2>2, DupOntoTyped DEF TypedCall
<1>4. CASE ~has_fd(Table(p), t)
  BY <1>1, <1>2, <1>4 DEF Dup3Fails, Aborts, TypedCall
<1>5. QED
  BY <1>3, <1>4

LEMMA FcntlSetFdTypedCall ==
    ASSUME TypeInv, NEW p, NEW t, NEW cloexec, FcntlSetFd(p, t, cloexec)
    PROVE  TypedCall(p)
<1>1. CallOf(p) /\ p \in Alive
  BY FcntlSetFdIsCall DEF CallOf
<1>2. TableTyped(Table(p)) /\ OpenTyped(open_fds)
  BY <1>1, AliveTables
<1>3. UNCHANGED open_fds
  BY DEF FcntlSetFd
<1>4. UNCHANGED fds \/ \E table : TableTyped(table) /\ fds' = Updated(fds, p, table)
  <2>1. CASE cloexec /\ has_fd(Table(p), t)
    <3> DEFINE table == set_entry_flags(Table(p), t, Table(p)[t].flags \cup {O_CLOEXEC})
    <3>1. fds' = Updated(fds, p, table)
      BY <2>1 DEF FcntlSetFd
    <3>2. DOMAIN table = DOMAIN Table(p)
      BY DEF set_entry_flags
    <3>3. \A u \in DOMAIN table : table[u] \in [fd : Int, flags : SUBSET {O_CLOEXEC}]
      BY <1>2 DEF set_entry_flags, TableTyped
    <3>4. QED
      BY <1>2, <3>1, <3>2, <3>3 DEF TableTyped
  <2>2. CASE ~(cloexec /\ has_fd(Table(p), t))
    BY <2>2 DEF FcntlSetFd
  <2>3. QED
    BY <2>1, <2>2
<1>5. QED
  BY <1>1, <1>2, <1>3, <1>4 DEF TypedCall

LEMMA SimulatedTypedCall ==
    ASSUME TypeInv, NEW p, NEW kind \in {"socket", "accept", "accept4"},
           NEW cloexec \in BOOLEAN, Simulated(p, kind, cloexec)
    PROVE  TypedCall(p)
<1>1. CallOf(p) /\ p \in Alive
  BY SimulatedIsCall DEF CallOf
<1>2. TableTyped(Table(p)) /\ OpenTyped(open_fds) /\ UNCHANGED open_fds
  BY <1>1, AliveTables DEF Simulated
<1>3. NextFd(p) \in TracedFds /\ FlagsKept(kind, cloexec) \in SUBSET {O_CLOEXEC}
      /\ SYSCALL_SIMULATED \in Int
  BY NextFdTyped DEF Simulated, FlagsKept, FlagsOf, SYSCALL_SIMULATED
<1>4. \/ UNCHANGED fds
      \/ AddFd(p, Table(p), NextFd(p), SYSCALL_SIMULATED, FlagsKept(kind, cloexec))
  BY DEF Simulated
<1>5. QED
  BY <1>1, <1>2, <1>3, <1>4, AddFdTyped DEF TypedCall

LEMMA PairTyped ==
    ASSUME TypeInv, NEW p \in Alive, HasRoom(p, 2), AddPair(p)
    PROVE  UNCHANGED fds \/ \E table : TableTyped(table) /\ fds' = Updated(fds, p, table)
<1> DEFINE table == add_fd_entry(Table(p), NextFd(p), SYSCALL_SIMULATED, {})
<1>1. NextFd(p) \in TracedFds /\ SecondFd(p) \in TracedFds /\ SYSCALL_SIMULATED \in Int
  BY NextFdTyped, SecondFdTyped DEF SYSCALL_SIMULATED
<1>2. TableTyped(table)
  BY <1>1, AliveTables, AddedTyped
<1>3. UNCHANGED fds \/ AddFd(p, table, SecondFd(p), SYSCALL_SIMULATED, {})
  BY DEF AddPair
<1> HIDE DEF table
<1>4. QED
  BY <1>1, <1>2, <1>3, AddFdTyped

LEMMA SocketPairTypedCall ==
    ASSUME TypeInv, NEW p, NEW cloexec, SocketPair(p, cloexec)
    PROVE  TypedCall(p)
BY SocketPairIsCall, PairTyped, AliveTables DEF SocketPair, CallOf, TypedCall

LEMMA PipeTypedCall ==
    ASSUME TypeInv, NEW p, Pipe(p)
    PROVE  TypedCall(p)
<1> DEFINE one == NewFd(open_fds, ReplayLimit)
           two == NewFd(Put(open_fds, one, Socket), ReplayLimit)
<1>1. CallOf(p) /\ p \in Alive
  BY PipeIsCall DEF CallOf
<1>2. one \in (0 .. ReplayLimit - 1) \cup {SYSCALL_FAILURE}
      /\ two \in (0 .. ReplayLimit - 1) \cup {SYSCALL_FAILURE}
  BY NewFdBelow
<1>3. OpenTyped(open_fds) /\ Socket \in Openable
  BY <1>1, AliveTables DEF Openable
<1>4. \/ UNCHANGED open_fds
      \/ /\ SYSCALL_FAILURE \notin {one, two}
         /\ open_fds' = Opened(Opened(open_fds, one, Socket), two, Socket)
  BY DEF Pipe, Opened
<1> HIDE DEF one, two
<1>5. OpenTyped(open_fds')
  BY <1>2, <1>3, <1>4, OpenedTyped
<1>6. QED
  BY <1>1, <1>5, PairTyped DEF Pipe, TypedCall

LEMMA PipeFailsTypedCall ==
    ASSUME TypeInv, NEW p, PipeFails(p)
    PROVE  TypedCall(p)
<1>1. CallOf(p) /\ p \in Alive
  BY PipeFailsIsCall DEF CallOf
<1>2. ~may_add(add_fd_entry(Table(p), 0, SYSCALL_SIMULATED, {}), 0)
  BY DEF may_add, add_fd_entry, has_fd, Put, SYSCALL_FAILURE
<1>3. UNCHANGED <<fds, open_fds>>
  BY <1>2 DEF PipeFails, AddFd
<1>4. QED
  BY <1>1, <1>3, AliveTables DEF TypedCall

LEMMA ExecveTypedCall ==
    ASSUME TypeInv, NEW p, NEW returned, Execve(p, returned)
    PROVE  TypedCall(p)
<1>1. CallOf(p) /\ p \in Alive
  BY ExecveIsCall DEF CallOf
<1>2. TableTyped(Table(p)) /\ OpenTyped(open_fds) /\ UNCHANGED open_fds
  BY <1>1, AliveTables DEF Execve
<1>3. \E gone : fds' = Updated(fds, p, ClosedAll(Table(p), gone))
  BY DEF Execve
<1>4. \A gone : TableTyped(ClosedAll(Table(p), gone))
  BY <1>2 DEF TableTyped, ClosedAll
<1>5. QED
  BY <1>1, <1>2, <1>3, <1>4 DEF TypedCall
-----------------------------------------------------------------------------
(***************************************************************************)
(* The copy of a table: the n-th dup() gets the n-th free number.          *)
(***************************************************************************)
\* The members of S up to k.
UpTo(S, k) == {j \in S : j <= k}

LEMMA UpToFinite ==
    ASSUME NEW S, IsFiniteSet(S), NEW k
    PROVE  IsFiniteSet(UpTo(S, k)) /\ Cardinality(UpTo(S, k)) \in Nat
<1>1. UpTo(S, k) \subseteq S
  BY DEF UpTo
<1>2. QED
  BY <1>1, FS_Subset, FS_CardinalityType

(* A finite set of numbers has an n-th member for each n up to its size.    *)
LEMMA NthExists ==
    ASSUME NEW S, S \subseteq Nat, IsFiniteSet(S), NEW n \in 1 .. Cardinality(S)
    PROVE  \E k \in S : Cardinality(UpTo(S, k)) = n
<1> DEFINE Bad == {i \in 1 .. Cardinality(S) : \A k \in S : Cardinality(UpTo(S, k)) # i}
<1>1. Cardinality(S) \in Nat
  BY FS_CardinalityType
<1>2. SUFFICES ASSUME Bad # {} PROVE FALSE
  OBVIOUS
<1>3. PICK i \in Bad : \A j \in Bad : i <= j
  <2>1. Bad \subseteq Nat
    BY <1>1
  <2> HIDE DEF Bad
  <2>2. QED
    BY <1>2, <2>1, LowestExists DEF IsLowest
<1>4. i \in 1 .. Cardinality(S) /\ \A k \in S : Cardinality(UpTo(S, k)) # i
  BY <1>3
<1>5. CASE i = 1
  <2>1. S # {}
    BY <1>4, FS_EmptySet
  <2>2. PICK k \in S : IsLowest(k, S)
    BY <2>1, LowestExists
  <2>3. UpTo(S, k) = {k}
    <3>1. \A j \in S : j \in Nat /\ k <= j
      BY <2>2 DEF IsLowest
    <3>2. \A j \in S : j <= k <=> j = k
      BY <3>1
    <3>3. QED
      BY <3>2 DEF UpTo
  <2>4. QED
    BY <1>4, <1>5, <2>3, FS_Singleton
<1>6. CASE i # 1
  <2>1. i - 1 \in 1 .. Cardinality(S) /\ ~(i <= i - 1)
    BY <1>1, <1>4, <1>6
  <2>2. PICK k \in S : Cardinality(UpTo(S, k)) = i - 1
    BY <1>3, <2>1
  <2> DEFINE T == UpTo(S, k)
  <2>3. T # S
    BY <1>4, <2>2
  <2>4. S \ T # {} /\ S \ T \subseteq Nat
    BY <2>3 DEF UpTo
  <2>5. PICK m \in S \ T : IsLowest(m, S \ T)
    BY <2>4, LowestExists
  <2>6. UpTo(S, m) = T \cup {m} /\ m \notin T
    <3>1. m \in Nat /\ k \in Nat /\ ~(m <= k)
      BY <2>5 DEF UpTo
    <3>2. \A j \in S : j \notin T => m <= j
      BY <2>5 DEF IsLowest
    <3>3. \A j \in S : j \in Nat
      OBVIOUS
    <3>4. \A j \in S : j <= m <=> (j \in T \/ j = m)
      BY <3>1, <3>2, <3>3 DEF UpTo
    <3>5. QED
      BY <2>5, <3>4 DEF UpTo
  <2>7. IsFiniteSet(T)
    BY UpToFinite
  <2>8. Cardinality(T \cup {m}) = Cardinality(T) + 1
    BY <2>6, <2>7, FS_AddElement
  <2>9. Cardinality(UpTo(S, m)) = i
    BY <1>1, <1>4, <2>2, <2>6, <2>8
  <2>10. QED
    BY <1>4, <2>5, <2>9
<1>7. QED
  BY <1>5, <1>6

LEMMA NthFreeIs ==
    ASSUME NEW n \in Nat \ {0}
    PROVE  \/ NthFree(n) = SYSCALL_FAILURE
           \/ /\ NthFree(n) \in FreeFds(open_fds, ReplayLimit)
              /\ Cardinality(UpTo(FreeFds(open_fds, ReplayLimit), NthFree(n))) = n
<1> DEFINE free == FreeFds(open_fds, ReplayLimit)
<1>1. ReplayLimit \in Nat
  BY ReplayAssumption
<1>2. IsFiniteSet(free) /\ Cardinality(free) \in Nat /\ free \subseteq Nat
  BY <1>1, FreeFdsFinite DEF FreeFds
<1>3. CASE n > Cardinality(free)
  BY <1>3 DEF NthFree
<1>4. CASE n \in 1 .. Cardinality(free)
  <2>1. \E k \in free : Cardinality({j \in free : j <= k}) = n
    BY <1>2, <1>4, NthExists DEF UpTo
  <2>2. NthFree(n) = CHOOSE k \in free : Cardinality({j \in free : j <= k}) = n
    BY <1>2, <1>4 DEF NthFree
  <2> HIDE DEF free
  <2>3. NthFree(n) \in free /\ Cardinality({j \in free : j <= NthFree(n)}) = n
    BY <2>1, <2>2
  <2>4. QED
    BY <2>3 DEF UpTo, free
<1>5. QED
  BY <1>2, <1>3, <1>4

\* The rank of a duplicated descriptor among those of its table.
Rank(table, t) == Cardinality({u \in DOMAIN table : u <= t /\ Duplicated(table, u)})

LEMMA RankIs ==
    ASSUME NEW table, TableTyped(table), NEW t \in DOMAIN table, Duplicated(table, t)
    PROVE  /\ Rank(table, t) \in Nat \ {0}
           /\ \A u \in DOMAIN table : Duplicated(table, u) /\ Rank(table, u) = Rank(table, t) => u = t
<1> DEFINE S == {u \in DOMAIN table : Duplicated(table, u)}
<1>1. DOMAIN table \subseteq Int /\ IsFiniteSet(DOMAIN table)
  <2>1. TracedLimit \in Nat
    BY TracedAssumption
  <2>2. IsFiniteSet(TracedFds \cup {SYSCALL_FAILURE} \cup {AT_FDCWD})
    <3>1. 0 \in Int /\ TracedLimit - 1 \in Int
      BY <2>1
    <3>2. IsFiniteSet(TracedFds)
      BY <3>1, FS_Interval DEF TracedFds
    <3>3. QED
      BY <3>2, FS_AddElement
  <2>3. DOMAIN table \subseteq TracedFds \cup {SYSCALL_FAILURE} \cup {AT_FDCWD}
    BY DEF TableTyped
  <2>4. QED
    BY <2>2, <2>3, FS_Subset DEF TracedFds, SYSCALL_FAILURE, AT_FDCWD
<1>2. IsFiniteSet(S) /\ S \subseteq Int /\ t \in S
  BY <1>1, FS_Subset
<1>3. \A u : Rank(table, u) = Cardinality(UpTo(S, u))
  <2>1. \A u : {v \in DOMAIN table : v <= u /\ Duplicated(table, v)} = UpTo(S, u)
    BY DEF UpTo
  <2>2. QED
    BY <2>1 DEF Rank
<1> HIDE DEF S
<1>4. \A u \in S : u \in UpTo(S, u) /\ IsFiniteSet(UpTo(S, u)) /\ Cardinality(UpTo(S, u)) \in Nat
  BY <1>2, UpToFinite DEF UpTo
<1>5. Rank(table, t) \in Nat \ {0}
  BY <1>2, <1>3, <1>4, FS_EmptySet
<1>6. ASSUME NEW u \in S, NEW v \in S, u < v
      PROVE  Cardinality(UpTo(S, u)) # Cardinality(UpTo(S, v))
  <2>1. UpTo(S, u) \subseteq UpTo(S, v) /\ v \notin UpTo(S, u) /\ v \in UpTo(S, v)
    <3>1. u \in Int /\ v \in Int
      BY <1>2
    <3>2. ~(v <= u) /\ v <= v
      BY <1>6, <3>1
    <3>3. \A w \in S : w \in Int
      BY <1>2
    <3>4. \A w \in S : w <= u => w <= v
      BY <1>6, <3>1, <3>3
    <3>5. QED
      BY <3>2, <3>4 DEF UpTo
  <2>2. UpTo(S, u) # UpTo(S, v)
    BY <2>1
  <2>3. Cardinality(UpTo(S, u)) < Cardinality(UpTo(S, v))
    BY <1>4, <2>1, <2>2, FS_Subset
  <2>4. QED
    BY <1>4, <2>3
<1>7. ASSUME NEW u \in DOMAIN table, Duplicated(table, u), Rank(table, u) = Rank(table, t)
      PROVE  u = t
  <2>1. u \in S
    BY <1>7 DEF S
  <2>2. ~(u < t) /\ ~(t < u)
    BY <1>2, <1>3, <1>6, <1>7, <2>1
  <2>3. u \in Int /\ t \in Int
    BY <1>2, <2>1
  <2>4. QED
    BY <2>2, <2>3
<1>8. QED
  BY <1>5, <1>7

(* An entry of a copy is simulated, closed or -1 like the original, or is   *)
(* a number that was free, another one for each entry.                     *)
LEMMA CopiedFdIs ==
    ASSUME NEW table, TableTyped(table), NEW t \in DOMAIN table
    PROVE  /\ table[t].fd <= 0 => CopiedFd(table, t) = table[t].fd
           /\ table[t].fd > 0 /\ ~Duplicated(table, t) => CopiedFd(table, t) = SYSCALL_FAILURE
           /\ Duplicated(table, t) =>
                 /\ CopiedFd(table, t) \in FreeFds(open_fds, ReplayLimit) \cup {SYSCALL_FAILURE}
                 /\ \A u \in DOMAIN table :
                       /\ Duplicated(table, u) /\ CopiedFd(table, u) = CopiedFd(table, t)
                       /\ CopiedFd(table, t) # SYSCALL_FAILURE
                       => u = t
<1>1. \A u \in DOMAIN table : table[u].fd \in Int
  BY DEF TableTyped
<1>2. table[t].fd <= 0 => CopiedFd(table, t) = table[t].fd
  BY <1>1 DEF CopiedFd, Duplicated
<1>3. table[t].fd > 0 /\ ~Duplicated(table, t) => CopiedFd(table, t) = SYSCALL_FAILURE
  BY <1>1 DEF CopiedFd, EBADF
<1>4. \A u \in DOMAIN table : Duplicated(table, u) => CopiedFd(table, u) = NthFree(Rank(table, u))
  <2> TAKE u \in DOMAIN table
  <2> HAVE Duplicated(table, u)
  <2>1. ~(table[u].fd <= 0)
    BY <1>1 DEF Duplicated
  <2>2. QED
    BY <2>1 DEF CopiedFd, Rank
<1>5. ASSUME Duplicated(table, t)
      PROVE  /\ CopiedFd(table, t) \in FreeFds(open_fds, ReplayLimit) \cup {SYSCALL_FAILURE}
             /\ \A u \in DOMAIN table :
                   /\ Duplicated(table, u) /\ CopiedFd(table, u) = CopiedFd(table, t)
                   /\ CopiedFd(table, t) # SYSCALL_FAILURE
                   => u = t
  <2>1. \A u \in DOMAIN table : Duplicated(table, u) =>
            \/ CopiedFd(table, u) = SYSCALL_FAILURE
            \/ /\ CopiedFd(table, u) \in FreeFds(open_fds, ReplayLimit)
               /\ Cardinality(UpTo(FreeFds(open_fds, ReplayLimit), CopiedFd(table, u))) = Rank(table, u)
    BY <1>4, RankIs, NthFreeIs
  <2>2. QED
    BY <1>5, <2>1, RankIs
<1>6. QED
  BY <1>2, <1>3, <1>5

LEMMA CopiedTyped ==
    ASSUME NEW table, TableTyped(table)
    PROVE  TableTyped(CopiedTable(table))
<1>1. \A t \in DOMAIN table : CopiedFd(table, t) \in Int
  <2> TAKE t \in DOMAIN table
  <2>1. table[t].fd \in Int
    BY DEF TableTyped
  <2>2. FreeFds(open_fds, ReplayLimit) \subseteq Int /\ SYSCALL_FAILURE \in Int
    BY ReplayAssumption DEF FreeFds, SYSCALL_FAILURE
  <2>3. table[t].fd <= 0 \/ table[t].fd > 0
    BY <2>1
  <2>4. QED
    BY <2>1, <2>2, <2>3, CopiedFdIs
<1>2. DOMAIN CopiedTable(table) = DOMAIN table
  BY DEF CopiedTable
<1>3. \A t \in DOMAIN table : CopiedTable(table)[t] \in [fd : Int, flags : SUBSET {O_CLOEXEC}]
  BY <1>1 DEF CopiedTable, Entry, TableTyped
<1>4. QED
  BY <1>2, <1>3 DEF TableTyped

(* What a copy opens: the numbers of its entries, designating what the      *)
(* originals do; everything open stays.                                    *)
LEMMA CopyOpens ==
    ASSUME NEW table, TableTyped(table)
    PROVE  /\ DOMAIN open_fds \subseteq DOMAIN OpenAfterCopy(table)
           /\ \A n \in DOMAIN open_fds : OpenAfterCopy(table)[n] = open_fds[n]
           /\ \A t \in DOMAIN table :
                 Duplicated(table, t) /\ CopiedFd(table, t) # SYSCALL_FAILURE
                 => /\ CopiedFd(table, t) \in DOMAIN OpenAfterCopy(table) \ DOMAIN open_fds
                    /\ OpenAfterCopy(table)[CopiedFd(table, t)] = open_fds[table[t].fd]
           /\ \A n \in DOMAIN OpenAfterCopy(table) \ DOMAIN open_fds :
                 /\ n \in 0 .. ReplayLimit - 1
                 /\ \E t \in DOMAIN table : /\ Duplicated(table, t) /\ CopiedFd(table, t) = n
                                            /\ OpenAfterCopy(table)[n] = open_fds[table[t].fd]
<1> DEFINE made == {t \in DOMAIN table : Duplicated(table, t) /\ CopiedFd(table, t) # SYSCALL_FAILURE}
           new == OpenAfterCopy(table)
<1>1. /\ DOMAIN new = DOMAIN open_fds \cup {CopiedFd(table, t) : t \in made}
      /\ \A n \in DOMAIN new :
            new[n] = IF n \in DOMAIN open_fds THEN open_fds[n]
                     ELSE open_fds[table[CHOOSE t \in made : CopiedFd(table, t) = n].fd]
  BY DEF OpenAfterCopy
<1> HIDE DEF new
<1>2. \A t \in made : CopiedFd(table, t) \in (0 .. ReplayLimit - 1) \ DOMAIN open_fds
  BY CopiedFdIs DEF FreeFds
<1>3. \A t \in made : (CHOOSE u \in made : CopiedFd(table, u) = CopiedFd(table, t)) = t
  <2> TAKE t \in made
  <2>1. \A u \in made : CopiedFd(table, u) = CopiedFd(table, t) => u = t
    BY CopiedFdIs
  <2> HIDE DEF made
  <2>2. QED
    BY <2>1
<1>4. \A t \in made : new[CopiedFd(table, t)] = open_fds[table[t].fd]
  BY <1>1, <1>2, <1>3
<1>5. \A n \in DOMAIN new \ DOMAIN open_fds : \E t \in made : CopiedFd(table, t) = n
  BY <1>1
<1>6. QED
  BY <1>1, <1>2, <1>4, <1>5 DEF new
-----------------------------------------------------------------------------
(* A new process's table is its parent's or a copy of it.                   *)
LEMMA CloneResourcesTyped ==
    ASSUME TypeInv, NEW parent \in Alive, NEW child, NEW share_umask, NEW share_files,
           CloneResources(parent, child, share_umask, share_files)
    PROVE  /\ DOMAIN fds'.of = DOMAIN fds.of \cup {child}
           /\ DOMAIN umasks'.of = DOMAIN umasks.of \cup {child}
           /\ \A a \in DOMAIN fds'.val : TableTyped(fds'.val[a])
           /\ \A m \in DOMAIN umasks'.val : umasks'.val[m] \in Modes
           /\ OpenTyped(open_fds')
<1>1. DOMAIN fds'.of = DOMAIN fds.of \cup {child} /\ DOMAIN umasks'.of = DOMAIN umasks.of \cup {child}
  BY CloneResourcesIsSafe DEF TypeInv
<1>2. /\ TableTyped(Table(parent)) /\ OpenTyped(open_fds) /\ View(umasks, parent) \in Modes
      /\ \A a \in DOMAIN fds.val : TableTyped(fds.val[a])
      /\ \A m \in DOMAIN umasks.val : umasks.val[m] \in Modes
  <2>1. umasks.of[parent] \in DOMAIN umasks.val
    BY DEF TypeInv, IInv, Known, SafeHeap, NoDangling
  <2>2. QED
    BY <2>1, AliveTables, TypeOKSplit DEF TypeInv, View
<1>3. \A m \in DOMAIN umasks'.val : umasks'.val[m] \in Modes
  <2>1. CASE share_umask
    BY <1>2, <2>1 DEF CloneResources, Shared
  <2>2. CASE ~share_umask
    <3>1. PICK m \in Unallocated(umasks) : umasks' = Created(umasks, child, m, View(umasks, parent))
      BY <2>2 DEF CloneResources
    <3>2. umasks'.val = Put(umasks.val, m, View(umasks, parent))
      BY <3>1 DEF Created
    <3>3. QED
      BY <1>2, <3>2 DEF Put
  <2>3. QED
    BY <2>1, <2>2
<1>4. CASE share_files
  BY <1>1, <1>2, <1>3, <1>4 DEF CloneResources, Shared
<1>5. CASE ~share_files
  <2>1. PICK a \in Unallocated(fds) : fds' = Created(fds, child, a, CopiedTable(Table(parent)))
    BY <1>5 DEF CloneResources
  <2>2. open_fds' = OpenAfterCopy(Table(parent))
    BY <1>5 DEF CloneResources
  <2>3. TableTyped(CopiedTable(Table(parent)))
    BY <1>2, CopiedTyped
  <2>4. \A b \in DOMAIN fds'.val : TableTyped(fds'.val[b])
    BY <1>2, <2>1, <2>3 DEF Created, Put
  <2>5. OpenTyped(OpenAfterCopy(Table(parent)))
    <3> DEFINE new == OpenAfterCopy(Table(parent))
    <3>1. new = [n \in DOMAIN new |-> new[n]]
      BY DEF OpenAfterCopy
    <3>2. \A n \in DOMAIN new : n \in 0 .. ReplayLimit - 1 /\ new[n] \in Openable
      BY <1>2, CopyOpens DEF OpenTyped, Duplicated
    <3> HIDE DEF new
    <3>3. OpenTyped(new)
      BY <3>1, <3>2 DEF OpenTyped
    <3>4. QED
      BY <3>3 DEF new
  <2>6. QED
    BY <1>1, <1>3, <2>2, <2>4, <2>5
<1>6. QED
  BY <1>4, <1>5

LEMMA TypeClone ==
    ASSUME TypeInv, NEW parent \in Alive, NEW child \in Pids, NEW files, NEW fs,
           NEW share_umask, NEW share_files,
           TracedClones(parent, child, files, fs),
           CloneResources(parent, child, share_umask, share_files)
    PROVE  TypeInv'
<1>1. IInv'
  BY CloneIsSafe DEF TypeInv
<1>2. DOMAIN umasks.of = DOMAIN fds.of
  BY DEF TypeInv, TypeOK
<1>3. QED
  BY <1>1, <1>2, CloneResourcesTyped
  DEF TypeInv, TypeOK, IInv, Known, TableTyped, TracedFds, OpenTyped, Openable

LEMMA TypeCloneFails ==
    ASSUME TypeInv, NEW p, NEW flags, CloneFails(p, flags)
    PROVE  TypeInv'
<1>1. IInv'
  BY CloneFailsIsSafe DEF TypeInv
<1>2. p \in Alive /\ CloneResources(p, FailedPid, SharesUmask(flags), SharesFiles(flags))
  BY DEF CloneFails
<1>3. DOMAIN umasks.of = DOMAIN fds.of
  BY DEF TypeInv, TypeOK
<1>4. QED
  BY <1>1, <1>2, <1>3, CloneResourcesTyped
  DEF TypeInv, TypeOK, IInv, Known, TableTyped, TracedFds, OpenTyped, Openable

LEMMA DroppedValues ==
    ASSUME NEW S, NEW p
    PROVE  /\ DOMAIN Dropped(S, p).val \subseteq DOMAIN S.val
           /\ \A a \in DOMAIN Dropped(S, p).val : Dropped(S, p).val[a] = S.val[a]
           /\ DOMAIN Dropped(S, p).of = DOMAIN S.of \ {p}
<1>1. Dropped(S, p).val \in {S.val, Without(S.val, S.of[p])} /\ Dropped(S, p).of = Without(S.of, p)
  BY DEF Dropped
<1>2. QED
  BY <1>1 DEF Without

LEMMA TypeExit ==
    ASSUME TypeInv, NEW p, Exit(p)
    PROVE  TypeInv'
<1>1. IInv'
  BY ExitIsSafe DEF TypeInv
<1>2. /\ p \in Alive /\ umasks' = Dropped(umasks, p) /\ fds' = Dropped(fds, p)
      /\ open_fds' \in {open_fds, ClosedAll(open_fds, all_replayed_fds(Table(p)))}
  BY DEF Exit
<1>3. OpenTyped(open_fds')
  BY <1>2, AliveTables, ClosedTyped
<1>4. DOMAIN fds'.of = DOMAIN umasks'.of
  <2>1. DOMAIN fds'.of = DOMAIN fds.of \ {p} /\ DOMAIN umasks'.of = DOMAIN umasks.of \ {p}
    BY <1>2, DroppedValues
  <2>2. QED
    BY <2>1 DEF TypeInv, TypeOK
<1>5. \A a \in DOMAIN fds'.val : TableTyped(fds'.val[a])
  BY <1>2, DroppedValues, TypeOKSplit DEF TypeInv
<1>6. \A m \in DOMAIN umasks'.val : umasks'.val[m] \in Modes
  BY <1>2, DroppedValues, TypeOKSplit DEF TypeInv
<1>7. QED
  BY <1>1, <1>3, <1>4, <1>5, <1>6
  DEF TypeInv, TypeOK, IInv, Known, TableTyped, TracedFds, OpenTyped, Openable

LEMMA TypeUmask ==
    ASSUME TypeInv, NEW p, NEW mode \in Modes, Umask(p, mode)
    PROVE  TypeInv'
<1>1. IInv'
  BY UmaskIsSafe DEF TypeInv
<1>2. umasks' = Updated(umasks, p, mode) /\ UNCHANGED <<fds, open_fds>>
  BY DEF Umask
<1>3. DOMAIN umasks'.of = DOMAIN umasks.of
      /\ \A m \in DOMAIN umasks'.val : m \in DOMAIN umasks.val /\ umasks'.val[m] \in {umasks.val[m], mode}
  BY <1>2 DEF Updated
<1>4. QED
  BY <1>1, <1>2, <1>3 DEF TypeInv, TypeOK, IInv, Known, TracedFds

LEMMA TypeInit == Init => TypeInv
<1> SUFFICES ASSUME Init PROVE TypeInv
  OBVIOUS
<1>1. IInv
  BY InitIsSafe
<1> DEFINE table == [t \in StdFds \cup {AT_FDCWD} |-> Entry(t, {})]
<1>2. PICK a \in Addresses : fds = Single(Root, a, table)
  BY DEF Init
<1>3. PICK m \in Addresses : umasks = Single(Root, m, 0)
  BY DEF Init
<1>4. /\ DOMAIN fds.of = {Root} /\ DOMAIN fds.val = {a} /\ fds.val[a] = table
      /\ DOMAIN umasks.of = {Root} /\ DOMAIN umasks.val = {m} /\ umasks.val[m] = 0
  <2>1. DOMAIN (<<>>) = {}
    OBVIOUS
  <2>2. QED
    BY <1>2, <1>3, <2>1 DEF Single, Created, Put
<1>5. TableTyped(table)
  <2>1. StdFds \subseteq TracedFds /\ TracedFds \subseteq Int /\ AT_FDCWD \in Int
    BY TracedAssumption DEF TracedFds, AT_FDCWD
  <2>2. QED
    BY <2>1 DEF TableTyped, Entry
<1>6. OpenTyped(open_fds)
  <2>1. /\ DOMAIN open_fds = StdFds \cup ReplayerFds
        /\ \A n \in DOMAIN open_fds : open_fds[n] \in {Terminal, ReplayerFile}
        /\ open_fds \in [DOMAIN open_fds -> {Terminal, ReplayerFile}]
    BY DEF Init
  <2>2. StdFds \cup ReplayerFds \subseteq 0 .. ReplayLimit - 1
    BY ReplayAssumption
  <2>3. QED
    BY <2>1, <2>2 DEF OpenTyped, Openable
<1>7. 0 \in Modes
  BY TracedAssumption
<1> HIDE DEF table
<1>8. QED
  BY <1>1, <1>4, <1>5, <1>6, <1>7, TypeOKSplit DEF TypeInv, IInv, Known

LEMMA TypeNext ==
    ASSUME TypeInv, [Next]_vars
    PROVE  TypeInv'
<1>1. CASE \E p \in Pids, f \in Files, cloexec \in BOOLEAN, opens \in {TRUE, ~ReplayMayFail} :
              Open(p, f, cloexec, opens)
  BY <1>1, OpenTypedCall, TypeCall
<1>2. CASE \E p \in Pids, opens \in BOOLEAN : OpenFails(p, opens)
  BY <1>2, OpenFailsTypedCall, TypeCall
<1>3. CASE \E p \in Pids, t \in TracedFds \cup {SYSCALL_FAILURE} : Close(p, t)
  BY <1>3, CloseTypedCall, TypeCall
<1>4. CASE \E p \in Pids, t \in TracedFds : Dup(p, t)
  BY <1>4, DupTypedCall, TypeCall
<1>5. CASE \E p \in Pids, t \in TracedFds \cup {SYSCALL_FAILURE} : DupFails(p, t)
  BY <1>5, DupFailsTypedCall, TypeCall
<1>6. CASE \E p \in Pids, old, new \in TracedFds : Dup2(p, old, new)
  BY <1>6, Dup2TypedCall, TypeCall
<1>7. CASE \E p \in Pids, old, new \in TracedFds, cloexec \in BOOLEAN :
              Dup3(p, old, new, cloexec)
  BY <1>7, Dup3TypedCall, TypeCall
<1>8. CASE \E p \in Pids, t \in TracedFds : Dup3Fails(p, t)
  BY <1>8, Dup3FailsTypedCall, TypeCall
<1>9. CASE \E p \in Pids, t \in TracedFds, cloexec \in BOOLEAN : FcntlDup(p, t, cloexec)
  BY <1>9, FcntlDupTypedCall, TypeCall
<1>10. CASE \E p \in Pids, t \in TracedFds, cloexec \in BOOLEAN : FcntlSetFd(p, t, cloexec)
  BY <1>10, FcntlSetFdTypedCall, TypeCall
<1>11. CASE \E p \in Pids, kind \in {"socket", "accept", "accept4"}, cloexec \in BOOLEAN :
               Simulated(p, kind, cloexec)
  BY <1>11, SimulatedTypedCall, TypeCall
<1>12. CASE \E p \in Pids, cloexec \in BOOLEAN : SocketPair(p, cloexec)
  BY <1>12, SocketPairTypedCall, TypeCall
<1>13. CASE \E p \in Pids : Pipe(p)
  BY <1>13, PipeTypedCall, TypeCall
<1>14. CASE \E p \in Pids : PipeFails(p)
  BY <1>14, PipeFailsTypedCall, TypeCall
<1>15. CASE \E p, child \in Pids, flags \in CloneFlags : Clone(p, child, flags)
  BY <1>15, TypeClone DEF Clone
<1>16. CASE \E p, child \in Pids : VFork(p, child)
  BY <1>16, TypeClone DEF VFork
<1>17. CASE \E p \in Pids, flags \in CloneFlags : CloneFails(p, flags)
  BY <1>17, TypeCloneFails
<1>18. CASE \E p \in Pids : Exit(p)
  BY <1>18, TypeExit
<1>19. CASE \E p \in Pids, returned \in {0, SYSCALL_FAILURE} : Execve(p, returned)
  BY <1>19, ExecveTypedCall, TypeCall
<1>20. CASE \E p \in Pids, mode \in Modes : Umask(p, mode)
  BY <1>20, TypeUmask
<1>21. CASE UNCHANGED vars
  BY <1>21 DEF vars, replayVars, tracedVars, TypeInv, IInv, TypeOK, Alive, TracedFds
<1>22. QED
  BY <1>1, <1>2, <1>3, <1>4, <1>5, <1>6, <1>7, <1>8, <1>9, <1>10, <1>11, <1>12, <1>13,
     <1>14, <1>15, <1>16, <1>17, <1>18, <1>19, <1>20, <1>21 DEF Next

(* Whatever the trace holds: tables, masks and descriptors are of their     *)
(* kinds, and the manager's two maps know the same processes.              *)
THEOREM TypeCorrect == Spec => []TypeOK
<1>1. TypeInv /\ [Next]_vars => TypeInv'
  BY TypeNext
<1>2. TypeInv => TypeOK
  BY DEF TypeInv
<1>3. QED
  BY TypeInit, <1>1, <1>2, PTL DEF Spec
-----------------------------------------------------------------------------
(***************************************************************************)
(* Owners. As long as no clone failed, counts are exact (RefCounting_proofs *)
(* has the operators), so that every table is that of some process.        *)
(***************************************************************************)
Exact(S) == \E V : GoodHeap(S, Addresses, V)

LEMMA GoodHeapWider ==
    ASSUME NEW S, NEW V, GoodHeap(S, Addresses, V), NEW v
    PROVE  GoodHeap(S, Addresses, V \cup {v})
<1>1. S.val \in [DOMAIN S.rc -> V \cup {v}]
  BY DEF GoodHeap, IsHeap
<1>2. QED
  BY <1>1 DEF GoodHeap, IsHeap

LEMMA ExactSteps ==
    ASSUME NEW S, Exact(S), NEW p
    PROVE  /\ p \in DOMAIN S.of => Exact(Dropped(S, p))
           /\ \A v : p \in DOMAIN S.of => Exact(Updated(S, p, v))
           /\ \A v, a : p \notin DOMAIN S.of /\ a \in Addresses \ DOMAIN S.rc => Exact(Created(S, p, a, v))
           /\ \A q : q \in DOMAIN S.of /\ p \notin DOMAIN S.of => Exact(Shared(S, q, p))
<1>1. PICK V : GoodHeap(S, Addresses, V)
  BY DEF Exact
<1>2. p \in DOMAIN S.of => Exact(Dropped(S, p))
  BY <1>1, DroppedIsGood DEF Exact
<1>3. ASSUME NEW v, p \in DOMAIN S.of PROVE Exact(Updated(S, p, v))
  <2>1. GoodHeap(S, Addresses, V \cup {v}) /\ v \in V \cup {v}
    BY <1>1, GoodHeapWider
  <2>2. GoodHeap(Updated(S, p, v), Addresses, V \cup {v})
    BY <1>3, <2>1, UpdatedIsGood
  <2>3. QED
    BY <2>2 DEF Exact
<1>4. ASSUME NEW v, NEW a, p \notin DOMAIN S.of, a \in Addresses \ DOMAIN S.rc
      PROVE  Exact(Created(S, p, a, v))
  <2>1. GoodHeap(S, Addresses, V \cup {v}) /\ v \in V \cup {v}
    BY <1>1, GoodHeapWider
  <2>2. GoodHeap(Created(S, p, a, v), Addresses, V \cup {v})
    BY <1>4, <2>1, CreatedIsGood
  <2>3. QED
    BY <2>2 DEF Exact
<1>5. ASSUME NEW q, q \in DOMAIN S.of, p \notin DOMAIN S.of PROVE Exact(Shared(S, q, p))
  BY <1>1, <1>5, SharedIsGood DEF Exact
<1>6. QED
  BY <1>2, <1>3, <1>4, <1>5

LEMMA ExactHolders ==
    ASSUME NEW S, Exact(S), NEW a \in DOMAIN S.val
    PROVE  \E p \in DOMAIN S.of : S.of[p] = a
<1>1. PICK V : GoodHeap(S, Addresses, V)
  BY DEF Exact
<1>2. a \in DOMAIN S.rc
  BY <1>1 DEF GoodHeap, IsHeap
<1>3. Holders(S, a) # {}
  BY <1>1, <1>2 DEF GoodHeap, Consistent, NoOrphan
<1>4. QED
  BY <1>3 DEF Holders

-----------------------------------------------------------------------------
\* No record makes an entry that says simulated.
NothingSimulated ==
    {"socket", "accept", "accept4", "socketpair", "pipe"} \cap (Kinds \cup CloexecKinds) = {}

\* Dup of a simulated entry enters the traced number as a replayed one.
NoSimulatedDup == "dup" \notin Kinds \/ NothingSimulated

\* Every process that is created shares its parent's table.
OneTable ==
    /\ "vfork" \notin Kinds
    /\ {"clone", "clone_fails"} \cap Kinds = {} \/ \A flags \in CloneFlags : SharesFiles(flags)

\* A second failed clone leaves the table of the first without a pointer, and
\* a number it holds can then be generated for dup2.
NoStrayTables ==
    \/ "clone_fails" \notin Kinds \/ OneTable
    \/ {"dup2", "dup2_std", "dup2_same", "dup3", "dup3_same"} \cap (Kinds \cup CloexecKinds) = {}

\* The replayed descriptors that have an owner: 0 goes to every copy.
Owned(n) == n > 0 \/ (n = 0 /\ OneTable)

FdNumbers ==
    {AT_FDCWD, SYSCALL_FAILURE} \cup (0 .. ReplayLimit - 1)
    \cup (IF NothingSimulated THEN {} ELSE {SYSCALL_SIMULATED})

(* What an entry holds is open and held by no other.                        *)
Held(val, open, a, t) ==
    LET n == val[a][t].fd IN
    /\ n \in FdNumbers
    /\ Owned(n) => /\ n \in DOMAIN open
                   /\ \A b \in DOMAIN val : \A u \in DOMAIN val[b] :
                         val[b][u].fd = n => b = a /\ u = t

Holdings(val, open) == \A a \in DOMAIN val : \A t \in DOMAIN val[a] : Held(val, open, a, t)

OneAddress(S) == OneTable => \A a, b \in DOMAIN S.val : a = b

CountsExact(S) ==
    /\ Exact(S) \/ FailedPid \in DOMAIN S.of
    /\ "clone_fails" \notin Kinds => FailedPid \notin DOMAIN S.of

OwnInv == TypeInv /\ CountsExact(fds) /\ OneAddress(fds) /\ Holdings(fds.val, open_fds)

LEMMA FdNumbersAre ==
    /\ FdNumbers \subseteq Int /\ SYSCALL_FAILURE \in FdNumbers
    /\ (0 .. ReplayLimit - 1) \subseteq FdNumbers /\ ReplayLimit \notin FdNumbers
    /\ ~NothingSimulated => SYSCALL_SIMULATED \in FdNumbers
    /\ NothingSimulated => SYSCALL_SIMULATED \notin FdNumbers
    /\ ~Owned(SYSCALL_FAILURE) /\ ~Owned(SYSCALL_SIMULATED) /\ ~Owned(AT_FDCWD)
    /\ \A n \in FdNumbers : n \notin {AT_FDCWD, SYSCALL_FAILURE, SYSCALL_SIMULATED} => n \in 0 .. ReplayLimit - 1
<1>1. ReplayLimit \in Nat
  BY ReplayAssumption
<1>2. FdNumbers = {-100, -1} \cup (0 .. ReplayLimit - 1) \cup (IF NothingSimulated THEN {} ELSE {-2})
  BY DEF FdNumbers, AT_FDCWD, SYSCALL_FAILURE, SYSCALL_SIMULATED
<1>3. QED
  BY <1>1, <1>2 DEF Owned, AT_FDCWD, SYSCALL_FAILURE, SYSCALL_SIMULATED

(* Every table is pointed at where dup2 generates a number.                 *)
LEMMA TablesAreHeld ==
    ASSUME OwnInv, "clone_fails" \notin Kinds \/ OneTable, NEW a \in DOMAIN fds.val
    PROVE  \E q \in DOMAIN fds.of : fds.of[q] = a
<1>1. CASE Exact(fds)
  BY <1>1, ExactHolders
<1>2. CASE FailedPid \in DOMAIN fds.of
  <2>1. fds.of[FailedPid] \in DOMAIN fds.val
    BY <1>2 DEF OwnInv, TypeInv, IInv, SafeHeap, NoDangling
  <2>2. OneTable
    BY <1>2 DEF OwnInv, CountsExact
  <2>3. QED
    BY <1>2, <2>1, <2>2 DEF OwnInv, OneAddress
<1>3. QED
  BY <1>1, <1>2 DEF OwnInv, CountsExact

-----------------------------------------------------------------------------
(***************************************************************************)
(* A call rewrites the table of its process.                               *)
(***************************************************************************)
\* Another table has an entry that holds n.
Elsewhere(p, n) ==
    \E a \in DOMAIN fds.val \ {fds.of[p]} : \E u \in DOMAIN fds.val[a] : fds.val[a][u].fd = n

\* The entries of a table hold what no other does, once open is open.
Good(p, table, open) ==
    \A t \in DOMAIN table :
        /\ table[t].fd \in FdNumbers
        /\ Owned(table[t].fd) =>
              /\ table[t].fd \in DOMAIN open /\ ~Elsewhere(p, table[t].fd)
              /\ \A u \in DOMAIN table : table[u].fd = table[t].fd => u = t

Spared(p, open) == \A n \in DOMAIN open_fds \ DOMAIN open : Owned(n) => ~Elsewhere(p, n)

OwnCall(p) ==
    /\ TypedCall(p)
    /\ \/ UNCHANGED fds /\ DOMAIN open_fds \subseteq DOMAIN open_fds'
       \/ \E table : fds' = Updated(fds, p, table) /\ Good(p, table, open_fds') /\ Spared(p, open_fds')

LEMMA OwnCallKeeps ==
    ASSUME OwnInv, NEW p, OwnCall(p)
    PROVE  OwnInv'
<1>1. TypeInv' /\ CallOf(p) /\ p \in Alive
  BY TypeCall DEF OwnInv, OwnCall, TypedCall, CallOf
<1>2. p \in DOMAIN fds.of /\ fds.of[p] \in DOMAIN fds.val
  BY <1>1 DEF OwnInv, TypeInv, IInv, Known, SafeHeap, NoDangling
<1>3. fds'.of = fds.of /\ DOMAIN fds'.val = DOMAIN fds.val
  BY <1>1 DEF CallOf, PointersStay
<1>4. CountsExact(fds')
  <2>1. UNCHANGED fds \/ \E table : fds' = Updated(fds, p, table)
    BY DEF OwnCall
  <2>2. QED
    BY <1>2, <1>3, <2>1, ExactSteps DEF OwnInv, CountsExact
<1>5. OneAddress(fds')
  BY <1>3 DEF OwnInv, OneAddress
<1>6. CASE UNCHANGED fds /\ DOMAIN open_fds \subseteq DOMAIN open_fds'
  BY <1>1, <1>4, <1>5, <1>6 DEF OwnInv, Holdings, Held, CountsExact, OneAddress
<1>7. CASE \E table : fds' = Updated(fds, p, table) /\ Good(p, table, open_fds') /\ Spared(p, open_fds')
  <2>1. PICK table : fds' = Updated(fds, p, table) /\ Good(p, table, open_fds') /\ Spared(p, open_fds')
    BY <1>7
  <2> DEFINE a0 == fds.of[p]
             val == fds'.val
  <2>2. /\ DOMAIN val = DOMAIN fds.val /\ val[a0] = table
        /\ \A a \in DOMAIN fds.val \ {a0} : val[a] = fds.val[a]
    BY <1>2, <2>1 DEF Updated
  <2> HIDE DEF val, a0
  <2>3. a0 \in DOMAIN fds.val /\ \A n : Elsewhere(p, n) <=>
            \E a \in DOMAIN val \ {a0} : \E u \in DOMAIN val[a] : val[a][u].fd = n
    BY <1>2, <2>2 DEF Elsewhere, a0
  <2>4. ASSUME NEW t \in DOMAIN val[a0]
        PROVE  Held(val, open_fds', a0, t)
    BY <2>1, <2>2, <2>3, <2>4 DEF Good, Held
  <2>5. ASSUME NEW a \in DOMAIN val \ {a0}, NEW t \in DOMAIN val[a]
        PROVE  Held(val, open_fds', a, t)
    <3> DEFINE n == val[a][t].fd
    <3>1. Held(fds.val, open_fds, a, t) /\ n = fds.val[a][t].fd
      BY <2>2 DEF OwnInv, Holdings
    <3>2. n \in FdNumbers
      BY <3>1 DEF Held
    <3>3. ASSUME Owned(n)
          PROVE  /\ n \in DOMAIN open_fds'
                 /\ \A b \in DOMAIN val : \A u \in DOMAIN val[b] : val[b][u].fd = n => b = a /\ u = t
      <4>1. Elsewhere(p, n)
        BY <2>3
      <4>2. n \in DOMAIN open_fds'
        BY <2>1, <3>1, <3>3, <4>1 DEF Held, Spared
      <4>3. \A u \in DOMAIN val[a0] : val[a0][u].fd # n
        BY <2>1, <2>2, <3>3, <4>1 DEF Good
      <4>4. \A b \in DOMAIN val \ {a0} : \A u \in DOMAIN val[b] : val[b][u].fd = n => b = a /\ u = t
        BY <2>2, <3>1, <3>3 DEF Held
      <4>5. QED
        BY <4>2, <4>3, <4>4
    <3>4. QED
      BY <3>2, <3>3 DEF Held
  <2>6. Holdings(val, open_fds')
    BY <2>4, <2>5 DEF Holdings
  <2>7. QED
    BY <1>1, <1>4, <1>5, <2>6 DEF OwnInv, CountsExact, OneAddress, Holdings, Held, val
<1>8. QED
  BY <1>6, <1>7 DEF OwnCall
-----------------------------------------------------------------------------
\* Some entries of p's table, with the replayed descriptors they have there.
PartOf(p, base) ==
    DOMAIN base \subseteq DOMAIN Table(p) /\ \A t \in DOMAIN base : base[t].fd = Table(p)[t].fd

\* fd can be entered in base: if it can have an owner it has none.
Enters(p, base, fd, open) ==
    /\ fd \in FdNumbers
    /\ Owned(fd) => /\ fd \in DOMAIN open /\ ~Elsewhere(p, fd)
                    /\ \A u \in DOMAIN base : base[u].fd # fd

LEMMA TableIsGood ==
    ASSUME OwnInv, NEW p \in Alive
    PROVE  Good(p, Table(p), open_fds) /\ PartOf(p, Table(p))
<1>1. fds.of[p] \in DOMAIN fds.val
  BY DEF OwnInv, TypeInv, IInv, Known, SafeHeap, NoDangling
<1>2. \A t \in DOMAIN Table(p) : Held(fds.val, open_fds, fds.of[p], t)
  BY <1>1 DEF OwnInv, Holdings, Table, View
<1>3. QED
  BY <1>1, <1>2 DEF Good, Held, PartOf, Elsewhere, Table, View

LEMMA PartIsGood ==
    ASSUME OwnInv, NEW p \in Alive, NEW base, PartOf(p, base), NEW open,
           \A t \in DOMAIN base : Owned(base[t].fd) => base[t].fd \in DOMAIN open
    PROVE  Good(p, base, open)
BY TableIsGood DEF Good, PartOf

LEMMA AddedIsGood ==
    ASSUME NEW p, NEW base, NEW open, Good(p, base, open), NEW t, NEW fd, NEW flags,
           Enters(p, base, fd, open)
    PROVE  Good(p, add_fd_entry(base, t, fd, flags), open)
<1> DEFINE table == add_fd_entry(base, t, fd, flags)
<1>1. CASE table = base
  BY <1>1
<1>2. CASE table = Put(base, t, Entry(fd, flags))
  <2>1. /\ DOMAIN table = DOMAIN base \cup {t} /\ table[t].fd = fd
        /\ \A u \in DOMAIN base \ {t} : table[u] = base[u]
    BY <1>2 DEF Put, Entry
  <2> HIDE DEF table
  <2>2. QED
    BY <2>1 DEF Good, Enters, table
<1>3. QED
  BY <1>1, <1>2 DEF add_fd_entry

\* What a step of p may do to its table and to the open descriptors.
Owns(p) ==
    \/ UNCHANGED fds /\ DOMAIN open_fds \subseteq DOMAIN open_fds'
    \/ \E table : fds' = Updated(fds, p, table) /\ Good(p, table, open_fds') /\ Spared(p, open_fds')

LEMMA AddFdOwns ==
    ASSUME OwnInv, NEW p \in Alive, NEW base, PartOf(p, base), NEW t, NEW fd, NEW flags,
           AddFd(p, base, t, fd, flags), DOMAIN open_fds \subseteq DOMAIN open_fds',
           Enters(p, base, fd, open_fds')
    PROVE  Owns(p)
<1>1. CASE UNCHANGED fds
  BY <1>1 DEF Owns
<1>2. CASE fds' = Updated(fds, p, add_fd_entry(base, t, fd, flags))
  <2>1. \A u \in DOMAIN base : Owned(base[u].fd) => base[u].fd \in DOMAIN open_fds'
    BY TableIsGood DEF Good, PartOf
  <2>2. Good(p, add_fd_entry(base, t, fd, flags), open_fds')
    BY <2>1, PartIsGood, AddedIsGood
  <2>3. QED
    BY <1>2, <2>2 DEF Owns, Spared
<1>3. QED
  BY <1>1, <1>2 DEF AddFd

(* A number that was not open is held by no entry.                          *)
LEMMA FreshEnters ==
    ASSUME OwnInv, NEW p \in Alive, NEW base, PartOf(p, base), NEW fd, NEW open,
           \/ fd = SYSCALL_FAILURE
           \/ fd \in (0 .. ReplayLimit - 1) \cap DOMAIN open /\ fd \notin DOMAIN open_fds
    PROVE  Enters(p, base, fd, open)
<1>1. CASE fd = SYSCALL_FAILURE
  BY <1>1, FdNumbersAre DEF Enters
<1>2. CASE fd \in (0 .. ReplayLimit - 1) \cap DOMAIN open /\ fd \notin DOMAIN open_fds
  <2>1. fd \in FdNumbers
    BY <1>2, FdNumbersAre
  <2>2. ASSUME Owned(fd)
        PROVE  ~Elsewhere(p, fd) /\ \A u \in DOMAIN base : base[u].fd # fd
    <3>1. \A a \in DOMAIN fds.val : \A u \in DOMAIN fds.val[a] : fds.val[a][u].fd # fd
      BY <1>2, <2>2 DEF OwnInv, Holdings, Held
    <3>2. \A u \in DOMAIN Table(p) : Table(p)[u].fd # fd
      BY <1>2, <2>2, TableIsGood DEF Good
    <3>3. QED
      BY <3>1, <3>2 DEF Elsewhere, PartOf
  <2>3. QED
    BY <1>2, <2>1, <2>2 DEF Enters
<1>3. QED
  BY <1>1, <1>2

LEMMA DupIsFresh ==
    ASSUME NEW fd
    PROVE  LET n == DupReturns(open_fds, ReplayLimit, fd)
               open == AfterDup(open_fds, ReplayLimit, fd)
           IN /\ DOMAIN open_fds \subseteq DOMAIN open
              /\ \/ n = SYSCALL_FAILURE
                 \/ n \in (0 .. ReplayLimit - 1) \cap DOMAIN open /\ n \notin DOMAIN open_fds
<1>1. ReplayLimit \in Nat
  BY ReplayAssumption
<1>2. CASE fd \in DOMAIN open_fds
  BY <1>1, <1>2, NewFdTyped DEF DupReturns, AfterDup, Opened, Put, FreeFds
<1>3. CASE fd \notin DOMAIN open_fds
  BY <1>3 DEF DupReturns, AfterDup, EBADF
<1>4. QED
  BY <1>2, <1>3

-----------------------------------------------------------------------------
LEMMA OpenOwns ==
    ASSUME OwnInv, NEW p, NEW file, NEW cloexec, NEW opens, Open(p, file, cloexec, opens)
    PROVE  Owns(p)
<1> DEFINE replayed == IF opens THEN NewFd(open_fds, ReplayLimit) ELSE SYSCALL_FAILURE
<1>1. p \in Alive /\ open_fds' = Opened(open_fds, replayed, file)
      /\ AddFd(p, Table(p), NextFd(p), replayed, FlagsOf(cloexec))
  BY DEF Open
<1>2. \/ replayed = SYSCALL_FAILURE
      \/ replayed \in (0 .. ReplayLimit - 1) /\ replayed \notin DOMAIN open_fds
  BY NewFdTyped, ReplayAssumption DEF FreeFds
<1> HIDE DEF replayed
<1>3. DOMAIN open_fds \subseteq DOMAIN open_fds'
      /\ (replayed # SYSCALL_FAILURE => replayed \in DOMAIN open_fds')
  BY <1>1 DEF Opened, Put
<1>4. PartOf(p, Table(p)) /\ Enters(p, Table(p), replayed, open_fds')
  BY <1>1, <1>2, <1>3, FreshEnters, TableIsGood
<1>5. QED
  BY <1>1, <1>3, <1>4, AddFdOwns

LEMMA OpenFailsOwns ==
    ASSUME OwnInv, NEW p, NEW opens, OpenFails(p, opens)
    PROVE  Owns(p)
<1>1. p \in Alive /\ UNCHANGED open_fds
      /\ (UNCHANGED fds \/ AddFd(p, Table(p), SYSCALL_FAILURE, SYSCALL_FAILURE, {}))
  BY DEF OpenFails
<1>2. PartOf(p, Table(p)) /\ Enters(p, Table(p), SYSCALL_FAILURE, open_fds')
  BY <1>1, FreshEnters, TableIsGood
<1>3. QED
  BY <1>1, <1>2, AddFdOwns DEF Owns

(* What close closes has no owner, or had this entry for its owner.         *)
LEMMA CloseOwns ==
    ASSUME OwnInv, NEW p, NEW t, Close(p, t)
    PROVE  Owns(p)
<1> DEFINE fd == get_fd(Table(p), t)
           base == remove_fd_entry(Table(p), t)
<1>1. /\ p \in Alive /\ fds' = Updated(fds, p, base)
      /\ open_fds' \in {open_fds, Closed(open_fds, fd)}
  BY DEF Close
<1>2. DOMAIN base = DOMAIN Table(p) \ {t} /\ \A u \in DOMAIN base : base[u] = Table(p)[u]
  BY DEF remove_fd_entry, Without
<1>3. PartOf(p, base) /\ Good(p, Table(p), open_fds)
  BY <1>1, <1>2, TableIsGood DEF PartOf
<1>4. /\ DOMAIN open_fds \ {fd} \subseteq DOMAIN open_fds'
      /\ t \notin DOMAIN Table(p) => fd = SYSCALL_FAILURE
      /\ t \in DOMAIN Table(p) => fd = Table(p)[t].fd
  BY <1>1 DEF Closed, Without, get_fd, has_fd
<1> HIDE DEF fd, base
<1>5. ASSUME Owned(fd)
      PROVE  ~Elsewhere(p, fd) /\ \A u \in DOMAIN base : base[u].fd # fd
  <2>1. t \in DOMAIN Table(p)
    BY <1>4, <1>5, FdNumbersAre
  <2>2. QED
    BY <1>2, <1>3, <1>4, <1>5, <2>1 DEF Good
<1>6. Good(p, base, open_fds')
  <2>1. ASSUME NEW u \in DOMAIN base, Owned(base[u].fd) PROVE base[u].fd \in DOMAIN open_fds'
    <3>1. base[u].fd \in DOMAIN open_fds
      BY <1>2, <1>3, <2>1 DEF Good
    <3>2. base[u].fd # fd
      BY <1>5, <2>1
    <3>3. QED
      BY <1>4, <3>1, <3>2
  <2>2. QED
    BY <1>1, <1>3, <2>1, PartIsGood
<1>7. Spared(p, open_fds')
  BY <1>4, <1>5 DEF Spared
<1>8. QED
  BY <1>1, <1>6, <1>7 DEF Owns, base

(* The kernel's dup gives a number that was free.                           *)
LEMMA KernelDupOwns ==
    ASSUME OwnInv, NEW p \in Alive, NEW fd, NEW t, NEW flags,
           AddFd(p, Table(p), t, DupReturns(open_fds, ReplayLimit, fd), flags),
           open_fds' = AfterDup(open_fds, ReplayLimit, fd)
    PROVE  Owns(p)
<1>1. PartOf(p, Table(p)) /\ DOMAIN open_fds \subseteq DOMAIN open_fds'
  BY TableIsGood, DupIsFresh
<1>2. Enters(p, Table(p), DupReturns(open_fds, ReplayLimit, fd), open_fds')
  BY <1>1, FreshEnters, DupIsFresh
<1>3. QED
  BY <1>1, <1>2, AddFdOwns

LEMMA DupOwns ==
    ASSUME OwnInv, NoSimulatedDup, NEW p, NEW t, Dup(p, t)
    PROVE  Owns(p)
<1> DEFINE fd == get_fd(Table(p), t)
<1>1. p \in Alive /\ NothingSimulated
  BY DEF Dup, Row, NoSimulatedDup
<1>2. CASE has_fd(Table(p), t)
  <2>1. fd # SYSCALL_SIMULATED
    BY <1>1, <1>2, TableIsGood, FdNumbersAre DEF Good, get_fd, has_fd
  <2>2. /\ AddFd(p, Table(p), NextFd(p), DupReturns(open_fds, ReplayLimit, fd),
                 Table(p)[t].flags \ {O_CLOEXEC})
        /\ open_fds' = AfterDup(open_fds, ReplayLimit, fd)
    BY <1>2, <2>1 DEF Dup
  <2> HIDE DEF fd
  <2>3. QED
    BY <1>1, <2>2, KernelDupOwns
<1>3. CASE ~has_fd(Table(p), t)
  BY <1>3 DEF Dup, Aborts, Owns
<1>4. QED
  BY <1>2, <1>3

LEMMA DupFailsOwns ==
    ASSUME OwnInv, NEW p, NEW t, DupFails(p, t)
    PROVE  Owns(p)
BY KernelDupOwns DEF DupFails, Aborts, Owns

LEMMA FcntlDupOwns ==
    ASSUME OwnInv, NEW p, NEW t, NEW cloexec, FcntlDup(p, t, cloexec)
    PROVE  Owns(p)
BY KernelDupOwns DEF FcntlDup, Aborts, Owns
-----------------------------------------------------------------------------
LEMMA GeneratedIsUnused ==
    ASSUME NEW S, ReplayLimit \notin KnownFds(S)
    PROVE  generate_unused_fd(S) \in (0 .. ReplayLimit) \ KnownFds(S)
<1> DEFINE unused == (0 .. ReplayLimit) \ KnownFds(S)
<1>1. ReplayLimit \in Nat
  BY ReplayAssumption
<1>2. unused \subseteq Nat /\ unused # {}
  BY <1>1
<1> HIDE DEF unused
<1>3. \E n \in unused : IsLowest(n, unused)
  BY <1>2, LowestExists
<1>4. generate_unused_fd(S) = CHOOSE n \in unused : IsLowest(n, unused)
  BY DEF generate_unused_fd, unused
<1>5. QED
  BY <1>3, <1>4 DEF unused

(* dup2 closes what the new descriptor was, or a number no entry holds.     *)
LEMMA TargetIsFree ==
    ASSUME OwnInv, "clone_fails" \notin Kinds \/ OneTable, NEW p \in Alive, NEW new,
           Owned(Target(p, new))
    PROVE  /\ ~Elsewhere(p, Target(p, new))
           /\ \A u \in DOMAIN Table(p) \ {new} : Table(p)[u].fd # Target(p, new)
<1> DEFINE base == remove_fd_entry(Table(p), new)
           S == Updated(fds, p, base)
<1>1. Good(p, Table(p), open_fds)
  BY TableIsGood
<1>2. CASE has_fd(Table(p), new) /\ get_fd(Table(p), new) # SYSCALL_SIMULATED
  <2>1. new \in DOMAIN Table(p) /\ Target(p, new) = Table(p)[new].fd
    BY <1>2 DEF Target, get_fd, has_fd
  <2>2. QED
    BY <1>1, <2>1 DEF Good
<1>3. CASE ~(has_fd(Table(p), new) /\ get_fd(Table(p), new) # SYSCALL_SIMULATED)
  <2>1. Target(p, new) = generate_unused_fd(S)
    BY <1>3 DEF Target
  <2>2. SafeHeap(fds) /\ p \in DOMAIN fds.of /\ S.of = fds.of
    BY DEF OwnInv, TypeInv, IInv, Known, Updated
  <2>3. \A q \in DOMAIN fds.of : View(S, q) = IF fds.of[q] = fds.of[p] THEN base ELSE View(fds, q)
    BY <2>2, UpdatedViews
  <2>4. DOMAIN base = DOMAIN Table(p) \ {new} /\ \A u \in DOMAIN base : base[u] = Table(p)[u]
    BY DEF remove_fd_entry, Without
  <2>5. \A q \in DOMAIN fds.of : all_replayed_fds(View(S, q)) \subseteq FdNumbers
    <3> TAKE q \in DOMAIN fds.of
    <3>1. fds.of[q] \in DOMAIN fds.val
      BY <2>2 DEF SafeHeap, NoDangling
    <3>2. \A t \in DOMAIN View(fds, q) : View(fds, q)[t].fd \in FdNumbers
      BY <3>1 DEF OwnInv, Holdings, Held, View
    <3>3. \A t \in DOMAIN base : base[t].fd \in FdNumbers
      BY <1>1, <2>4 DEF Good
    <3> HIDE DEF S, base
    <3>4. QED
      BY <2>3, <3>2, <3>3 DEF all_replayed_fds
  <2> HIDE DEF S, base
  <2>6. ReplayLimit \notin KnownFds(S)
    BY <2>2, <2>5, FdNumbersAre, ReplayAssumption DEF KnownFds
  <2>7. Target(p, new) \notin KnownFds(S)
    BY <2>1, <2>6, GeneratedIsUnused
  <2>8. \A u \in DOMAIN base : base[u].fd # Target(p, new)
    BY <2>2, <2>3, <2>7 DEF KnownFds, all_replayed_fds
  <2>9. ASSUME NEW a \in DOMAIN fds.val \ {fds.of[p]}, NEW u \in DOMAIN fds.val[a]
        PROVE  fds.val[a][u].fd # Target(p, new)
    <3>1. PICK q \in DOMAIN fds.of : fds.of[q] = a
      BY TablesAreHeld
    <3>2. View(S, q) = fds.val[a]
      BY <2>3, <3>1 DEF View
    <3>3. QED
      BY <2>2, <2>7, <3>1, <3>2 DEF KnownFds, all_replayed_fds
  <2>10. QED
    BY <2>4, <2>8, <2>9 DEF Elsewhere
<1>4. QED
  BY <1>2, <1>3

LEMMA DupOntoOwns ==
    ASSUME OwnInv, "clone_fails" \notin Kinds \/ OneTable, NEW p \in Alive, NEW old, NEW new,
           NEW returned, NEW flags, NEW replayed \in {OntoBy2(p, old, new), OntoBy3(p, old, new)},
           DupOnto(p, old, new, returned, flags, replayed), has_fd(Table(p), old)
    PROVE  Owns(p)
<1> DEFINE fd == get_fd(Table(p), old)
           base == remove_fd_entry(Table(p), new)
<1>1. DOMAIN base = DOMAIN Table(p) \ {new} /\ \A u \in DOMAIN base : base[u] = Table(p)[u]
  BY DEF remove_fd_entry, Without
<1>2. PartOf(p, base) /\ Good(p, Table(p), open_fds)
  BY <1>1, TableIsGood DEF PartOf
<1>3. \/ replayed = SYSCALL_FAILURE
      \/ replayed = Target(p, new) /\ replayed \in 0 .. ReplayLimit - 1
  BY DEF OntoBy2, OntoBy3, Dup2Returns, Dup3Returns, EBADF
<1>4. CASE fd = SYSCALL_SIMULATED
  <2>1. AddFd(p, base, returned, SYSCALL_SIMULATED, flags) /\ UNCHANGED open_fds
    BY <1>4 DEF DupOnto
  <2>2. Enters(p, base, SYSCALL_SIMULATED, open_fds')
    BY <1>2, <1>4, FdNumbersAre DEF Enters, Good, get_fd, has_fd
  <2> HIDE DEF base
  <2>3. QED
    BY <1>2, <2>1, <2>2, AddFdOwns
<1>5. CASE fd # SYSCALL_SIMULATED
  <2>1. AddFd(p, base, returned, replayed, flags) /\ open_fds' = AfterDup2(open_fds, fd, replayed)
    BY <1>5 DEF DupOnto
  <2>2. DOMAIN open_fds \subseteq DOMAIN open_fds'
        /\ (replayed # SYSCALL_FAILURE => replayed \in DOMAIN open_fds')
    BY <2>1 DEF AfterDup2, EBADF, Put
  <2>3. Enters(p, base, replayed, open_fds')
    <3>1. CASE replayed = SYSCALL_FAILURE
      BY <3>1, FdNumbersAre DEF Enters
    <3>2. CASE replayed = Target(p, new) /\ replayed \in 0 .. ReplayLimit - 1
      <4>1. replayed \in FdNumbers /\ replayed # SYSCALL_FAILURE
        BY <3>2, FdNumbersAre DEF SYSCALL_FAILURE
      <4>2. Owned(replayed) => ~Elsewhere(p, replayed) /\ \A u \in DOMAIN base : base[u].fd # replayed
        BY <1>1, <3>2, TargetIsFree
      <4>3. QED
        BY <2>2, <4>1, <4>2 DEF Enters
    <3>3. QED
      BY <1>3, <3>1, <3>2
  <2> HIDE DEF base
  <2>4. QED
    BY <1>2, <2>1, <2>2, <2>3, AddFdOwns
<1>6. QED
  BY <1>4, <1>5

LEMMA Dup2Owns ==
    ASSUME OwnInv, NoStrayTables, NEW p, NEW old, NEW new, Dup2(p, old, new)
    PROVE  Owns(p)
<1>1. p \in Alive /\ ("clone_fails" \notin Kinds \/ OneTable)
  BY DEF Dup2, Row, Dup2Kind, NoStrayTables
<1>2. QED
  BY <1>1, DupOntoOwns DEF Dup2, Aborts, Owns

LEMMA Dup3Owns ==
    ASSUME OwnInv, NoStrayTables, NEW p, NEW old, NEW new, NEW cloexec, Dup3(p, old, new, cloexec)
    PROVE  Owns(p)
<1>1. p \in Alive /\ ("clone_fails" \notin Kinds \/ OneTable)
  BY DEF Dup3, RowWith, NoStrayTables
<1>2. QED
  BY <1>1, DupOntoOwns DEF Dup3, Aborts, Owns

LEMMA Dup3FailsOwns ==
    ASSUME OwnInv, NoStrayTables, NEW p, NEW t, Dup3Fails(p, t)
    PROVE  Owns(p)
<1>1. p \in Alive /\ ("clone_fails" \notin Kinds \/ OneTable)
  BY DEF Dup3Fails, Row, NoStrayTables
<1>2. QED
  BY <1>1, DupOntoOwns DEF Dup3Fails, Aborts, Owns

(* Entries that keep their replayed descriptors or leave.                   *)
LEMMA PartOwns ==
    ASSUME OwnInv, NEW p \in Alive, NEW base, PartOf(p, base), fds' = Updated(fds, p, base),
           UNCHANGED open_fds
    PROVE  Owns(p)
<1>1. \A t \in DOMAIN base : Owned(base[t].fd) => base[t].fd \in DOMAIN open_fds'
  BY TableIsGood DEF Good, PartOf
<1>2. QED
  BY <1>1, PartIsGood DEF Owns, Spared

LEMMA FcntlSetFdOwns ==
    ASSUME OwnInv, NEW p, NEW t, NEW cloexec, FcntlSetFd(p, t, cloexec)
    PROVE  Owns(p)
<1>1. p \in Alive /\ UNCHANGED open_fds
  BY DEF FcntlSetFd
<1>2. CASE UNCHANGED fds
  BY <1>1, <1>2 DEF Owns
<1>3. CASE \E flags : fds' = Updated(fds, p, set_entry_flags(Table(p), t, flags))
  <2>1. PICK flags : fds' = Updated(fds, p, set_entry_flags(Table(p), t, flags))
    BY <1>3
  <2>2. ASSUME NEW u \in DOMAIN Table(p)
        PROVE  set_entry_flags(Table(p), t, flags)[u].fd = Table(p)[u].fd
    <3>1. Table(p)[u] \in [fd : Int, flags : SUBSET {O_CLOEXEC}]
      BY <1>1, AliveTables DEF OwnInv, TableTyped
    <3>2. QED
      BY <3>1 DEF set_entry_flags
  <2>3. PartOf(p, set_entry_flags(Table(p), t, flags))
    BY <2>2 DEF PartOf, set_entry_flags
  <2>4. QED
    BY <1>1, <2>1, <2>3, PartOwns
<1>4. QED
  BY <1>2, <1>3 DEF FcntlSetFd

LEMMA ExecveOwns ==
    ASSUME OwnInv, NEW p, NEW returned, Execve(p, returned)
    PROVE  Owns(p)
<1>1. p \in Alive /\ UNCHANGED open_fds /\ \E gone : fds' = Updated(fds, p, ClosedAll(Table(p), gone))
  BY DEF Execve
<1>2. \A gone : PartOf(p, ClosedAll(Table(p), gone))
  BY DEF PartOf, ClosedAll
<1>3. QED
  BY <1>1, <1>2, PartOwns

(* A simulated entry holds no descriptor.                                   *)
LEMMA SimulatedOwns ==
    ASSUME OwnInv, NEW p, NEW kind \in {"socket", "accept", "accept4"}, NEW cloexec,
           Simulated(p, kind, cloexec)
    PROVE  Owns(p)
<1>1. p \in Alive /\ UNCHANGED open_fds /\ ~NothingSimulated
  BY DEF Simulated, RowWith, NothingSimulated
<1>2. Enters(p, Table(p), SYSCALL_SIMULATED, open_fds') /\ PartOf(p, Table(p))
  BY <1>1, FdNumbersAre, TableIsGood DEF Enters
<1>3. UNCHANGED fds \/ AddFd(p, Table(p), NextFd(p), SYSCALL_SIMULATED, FlagsKept(kind, cloexec))
  BY DEF Simulated
<1>4. QED
  BY <1>1, <1>2, <1>3, AddFdOwns DEF Owns

LEMMA AddPairOwns ==
    ASSUME OwnInv, NEW p \in Alive, ~NothingSimulated, AddPair(p),
           DOMAIN open_fds \subseteq DOMAIN open_fds'
    PROVE  Owns(p)
<1> DEFINE one == add_fd_entry(Table(p), NextFd(p), SYSCALL_SIMULATED, {})
           both == add_fd_entry(one, SecondFd(p), SYSCALL_SIMULATED, {})
<1>1. UNCHANGED fds \/ fds' = Updated(fds, p, both)
  BY DEF AddPair, AddFd
<1>2. Good(p, Table(p), open_fds')
  BY TableIsGood DEF Good
<1>3. \A base : Enters(p, base, SYSCALL_SIMULATED, open_fds')
  BY FdNumbersAre DEF Enters
<1>4. Good(p, both, open_fds')
  BY <1>2, <1>3, AddedIsGood
<1>5. QED
  BY <1>1, <1>4 DEF Owns, Spared

LEMMA SocketPairOwns ==
    ASSUME OwnInv, NEW p, NEW cloexec, SocketPair(p, cloexec)
    PROVE  Owns(p)
BY AddPairOwns DEF SocketPair, RowWith, NothingSimulated

LEMMA PipeOwns ==
    ASSUME OwnInv, NEW p, Pipe(p)
    PROVE  Owns(p)
<1>1. p \in Alive /\ AddPair(p) /\ ~NothingSimulated
  BY DEF Pipe, Row, NothingSimulated
<1>2. DOMAIN open_fds \subseteq DOMAIN open_fds'
  BY DEF Pipe, Put
<1>3. QED
  BY <1>1, <1>2, AddPairOwns

LEMMA PipeFailsOwns ==
    ASSUME NEW p, PipeFails(p)
    PROVE  Owns(p)
<1>1. ~may_add(add_fd_entry(Table(p), 0, SYSCALL_SIMULATED, {}), 0)
  BY DEF may_add, add_fd_entry, has_fd, Put, SYSCALL_FAILURE
<1>2. UNCHANGED <<fds, open_fds>>
  BY <1>1 DEF PipeFails, AddFd
<1>3. QED
  BY <1>2 DEF Owns
-----------------------------------------------------------------------------
(* A copy's entries are numbers that were free, opened by the dup() calls.  *)
LEMMA CopyHoldings ==
    ASSUME OwnInv, ~OneTable, NEW parent \in Alive, NEW child, NEW a \in Unallocated(fds),
           fds' = Created(fds, child, a, CopiedTable(Table(parent))),
           open_fds' = OpenAfterCopy(Table(parent))
    PROVE  Holdings(fds'.val, open_fds')
<1> DEFINE table == Table(parent)
           copy == CopiedTable(table)
           val == fds'.val
<1>1. TableTyped(table) /\ Good(parent, table, open_fds)
  BY AliveTables, TableIsGood DEF OwnInv
<1>2. fds.of[parent] \in DOMAIN fds.val
  BY DEF OwnInv, TypeInv, IInv, Known, SafeHeap, NoDangling
<1>3. DOMAIN fds.val = DOMAIN fds.rc /\ a \notin DOMAIN fds.val
  BY DEF OwnInv, TypeInv, IInv, SafeHeap, Unallocated
<1>4. /\ DOMAIN val = DOMAIN fds.val \cup {a} /\ val[a] = copy
      /\ \A b \in DOMAIN fds.val : val[b] = fds.val[b]
  BY <1>3 DEF Created, Put
<1>5. DOMAIN copy = DOMAIN table /\ \A t \in DOMAIN table : copy[t].fd = CopiedFd(table, t)
  BY DEF CopiedTable, Entry
<1>6. DOMAIN open_fds \subseteq DOMAIN open_fds'
  BY <1>1, CopyOpens
<1>7. \A n : Owned(n) => n \in Int \/ n > 0
  BY DEF Owned
<1> HIDE DEF val, copy, table
<1>8. ASSUME NEW t \in DOMAIN table
      PROVE  /\ copy[t].fd \in FdNumbers
             /\ Owned(copy[t].fd) =>
                   /\ copy[t].fd \in DOMAIN open_fds' \ DOMAIN open_fds
                   /\ \A u \in DOMAIN table : copy[u].fd = copy[t].fd => u = t
  <2>1. table[t].fd \in Int /\ \A u \in DOMAIN table : table[u].fd \in Int
    BY <1>1 DEF TableTyped
  <2>2. \A u \in DOMAIN table :
            \/ ~Owned(copy[u].fd) /\ copy[u].fd \in FdNumbers
            \/ /\ Duplicated(table, u) /\ copy[u].fd # SYSCALL_FAILURE
               /\ copy[u].fd \in (0 .. ReplayLimit - 1) \ DOMAIN open_fds
    <3> TAKE u \in DOMAIN table
    <3>1. CASE table[u].fd <= 0
      <4>1. copy[u].fd = table[u].fd /\ table[u].fd \in FdNumbers
        BY <1>1, <1>5, <3>1, CopiedFdIs DEF Good
      <4>2. ~(table[u].fd > 0)
        BY <2>1, <3>1
      <4>3. QED
        BY <4>1, <4>2 DEF Owned
    <3>2. CASE table[u].fd > 0 /\ ~Duplicated(table, u)
      BY <1>1, <1>5, <3>2, CopiedFdIs, FdNumbersAre
    <3>3. CASE Duplicated(table, u)
      BY <1>1, <1>5, <3>3, CopiedFdIs, FdNumbersAre DEF FreeFds
    <3>4. QED
      BY <2>1, <3>1, <3>2, <3>3
  <2>3. copy[t].fd \in FdNumbers
    BY <2>2, FdNumbersAre
  <2>4. ASSUME Owned(copy[t].fd)
        PROVE  /\ copy[t].fd \in DOMAIN open_fds' \ DOMAIN open_fds
               /\ \A u \in DOMAIN table : copy[u].fd = copy[t].fd => u = t
    <3>1. Duplicated(table, t) /\ copy[t].fd # SYSCALL_FAILURE
      BY <2>2, <2>4
    <3>2. copy[t].fd \in DOMAIN open_fds' \ DOMAIN open_fds
      BY <1>1, <1>5, <3>1, CopyOpens DEF table
    <3>3. ASSUME NEW u \in DOMAIN table, copy[u].fd = copy[t].fd
          PROVE  u = t
      <4>1. Duplicated(table, u)
        BY <2>2, <2>4, <3>3
      <4>2. QED
        BY <1>1, <1>5, <3>1, <3>3, <4>1, CopiedFdIs
    <3>4. QED
      BY <3>2, <3>3
  <2>5. QED
    BY <2>3, <2>4
<1>9. \A b \in DOMAIN fds.val : \A u \in DOMAIN fds.val[b] :
          /\ fds.val[b][u].fd \in FdNumbers
          /\ Owned(fds.val[b][u].fd) => fds.val[b][u].fd \in DOMAIN open_fds
  BY DEF OwnInv, Holdings, Held
<1>10. ASSUME NEW t \in DOMAIN val[a]
       PROVE  Held(val, open_fds', a, t)
  <2>1. t \in DOMAIN table /\ val[a][t].fd = copy[t].fd
    BY <1>4, <1>5
  <2>2. Owned(copy[t].fd) => \A b \in DOMAIN fds.val : \A u \in DOMAIN fds.val[b] :
                                  val[b][u].fd # copy[t].fd
    BY <1>4, <1>8, <1>9, <2>1
  <2>3. Owned(copy[t].fd) => \A b \in DOMAIN val : \A u \in DOMAIN val[b] :
                                  val[b][u].fd = copy[t].fd => b = a /\ u = t
    BY <1>4, <1>5, <1>8, <2>1, <2>2
  <2>4. QED
    BY <1>8, <2>1, <2>3 DEF Held
<1>11. ASSUME NEW b \in DOMAIN fds.val, NEW t \in DOMAIN val[b]
       PROVE  Held(val, open_fds', b, t)
  <2>1. Held(fds.val, open_fds, b, t) /\ val[b][t] = fds.val[b][t] /\ t \in DOMAIN fds.val[b]
    BY <1>4 DEF OwnInv, Holdings
  <2>2. ASSUME Owned(val[b][t].fd)
        PROVE  \A u \in DOMAIN val[a] : val[a][u].fd # val[b][t].fd
    BY <1>4, <1>5, <1>8, <1>9, <2>1, <2>2
  <2>3. QED
    BY <1>4, <1>6, <2>1, <2>2 DEF Held
<1>12. QED
  BY <1>4, <1>10, <1>11 DEF Holdings, val

LEMMA CloneResourcesOwns ==
    ASSUME OwnInv, NEW parent \in Alive, NEW child, NEW share_umask, NEW share_files,
           OneTable => share_files, CloneResources(parent, child, share_umask, share_files)
    PROVE  OneAddress(fds') /\ Holdings(fds'.val, open_fds')
<1>1. CASE share_files
  <2>1. fds' = Shared(fds, parent, child) /\ UNCHANGED open_fds
    BY <1>1 DEF CloneResources
  <2>2. fds'.val = fds.val
    BY <2>1 DEF Shared
  <2>3. QED
    BY <2>1, <2>2 DEF OwnInv, OneAddress
<1>2. CASE ~share_files
  BY <1>2, CopyHoldings DEF CloneResources, OneAddress
<1>3. QED
  BY <1>1, <1>2

LEMMA CloneResourcesExact ==
    ASSUME OwnInv, Exact(fds), NEW parent \in Alive, NEW child, child \notin DOMAIN fds.of,
           NEW share_umask, NEW share_files,
           CloneResources(parent, child, share_umask, share_files)
    PROVE  Exact(fds')
<1>1. parent \in DOMAIN fds.of
  BY DEF OwnInv, TypeInv, IInv, Known
<1>2. QED
  BY <1>1, ExactSteps DEF CloneResources, Unallocated

(* OwnInv in the next state, from its parts.                                *)
LEMMA OwnInvNext ==
    ASSUME TypeInv', CountsExact(fds'), OneAddress(fds'), Holdings(fds'.val, open_fds')
    PROVE  OwnInv'
BY DEF OwnInv, CountsExact, OneAddress, Holdings, Held

LEMMA OwnClone ==
    ASSUME OwnInv, NEW parent \in Alive, NEW child \in Pids \ Alive, NEW files, NEW fs,
           NEW share_umask, NEW share_files, OneTable => share_files,
           TracedClones(parent, child, files, fs),
           CloneResources(parent, child, share_umask, share_files)
    PROVE  OwnInv'
<1>1. TypeInv'
  BY TypeClone DEF OwnInv
<1>2. OneAddress(fds') /\ Holdings(fds'.val, open_fds')
  BY CloneResourcesOwns
<1>3. child \notin DOMAIN fds.of /\ child # FailedPid
  BY ReplayAssumption DEF OwnInv, TypeInv, IInv, Known
<1>4. DOMAIN fds'.of = DOMAIN fds.of \cup {child}
  BY CloneResourcesTyped DEF OwnInv
<1>5. CountsExact(fds')
  BY <1>3, <1>4, CloneResourcesExact DEF OwnInv, CountsExact
<1>6. QED
  BY <1>1, <1>2, <1>5, OwnInvNext

LEMMA OwnCloneFails ==
    ASSUME OwnInv, NEW p, NEW flags \in CloneFlags, CloneFails(p, flags)
    PROVE  OwnInv'
<1>1. TypeInv'
  BY TypeCloneFails DEF OwnInv
<1>2. /\ p \in Alive /\ "clone_fails" \in Kinds
      /\ CloneResources(p, FailedPid, SharesUmask(flags), SharesFiles(flags))
  BY DEF CloneFails, Row
<1>3. OneTable => SharesFiles(flags)
  BY <1>2 DEF OneTable
<1>4. OneAddress(fds') /\ Holdings(fds'.val, open_fds')
  BY <1>2, <1>3, CloneResourcesOwns
<1>5. DOMAIN fds'.of = DOMAIN fds.of \cup {FailedPid}
  BY <1>2, CloneResourcesTyped DEF OwnInv
<1>6. CountsExact(fds')
  BY <1>2, <1>5 DEF CountsExact
<1>7. QED
  BY <1>1, <1>4, <1>6, OwnInvNext

(* exit closes what only the table that goes with it holds.                 *)
LEMMA OwnExit ==
    ASSUME OwnInv, NEW p, Exit(p)
    PROVE  OwnInv'
<1>1. TypeInv'
  BY TypeExit DEF OwnInv
<1>2. /\ p \in Alive /\ p \in Pids /\ fds' = Dropped(fds, p)
      /\ open_fds' = IF LastReference(fds, p) THEN ClosedAll(open_fds, all_replayed_fds(Table(p)))
                     ELSE open_fds
  BY DEF Exit, OwnInv, TypeInv, IInv
<1>3. p \in DOMAIN fds.of /\ p # FailedPid /\ fds.of[p] \in DOMAIN fds.val
  BY <1>2, ReplayAssumption DEF OwnInv, TypeInv, IInv, Known, SafeHeap, NoDangling
<1>4. /\ DOMAIN fds'.val \subseteq DOMAIN fds.val /\ DOMAIN fds'.of = DOMAIN fds.of \ {p}
      /\ \A a \in DOMAIN fds'.val : fds'.val[a] = fds.val[a]
  BY <1>2, DroppedValues
<1>5. CountsExact(fds')
  BY <1>2, <1>3, <1>4, ExactSteps DEF OwnInv, CountsExact
<1>6. OneAddress(fds')
  BY <1>4 DEF OwnInv, OneAddress
<1>7. ASSUME NEW a \in DOMAIN fds'.val, NEW t \in DOMAIN fds.val[a],
             Owned(fds.val[a][t].fd), fds.val[a][t].fd \notin DOMAIN open_fds'
      PROVE  FALSE
  <2>1. Held(fds.val, open_fds, a, t)
    BY <1>4, <1>7 DEF OwnInv, Holdings
  <2>2. LastReference(fds, p) /\ fds.val[a][t].fd \in all_replayed_fds(Table(p))
    BY <1>2, <1>7, <2>1 DEF Held, ClosedAll
  <2>3. PICK u \in DOMAIN fds.val[fds.of[p]] : fds.val[fds.of[p]][u].fd = fds.val[a][t].fd
    BY <2>2 DEF all_replayed_fds, Table, View
  <2>4. a = fds.of[p]
    BY <1>3, <1>7, <2>1, <2>3 DEF Held
  <2>5. fds.of[p] \notin DOMAIN fds'.val
    BY <1>2, <2>2 DEF Dropped, Without
  <2>6. QED
    BY <2>4, <2>5
<1>8. Holdings(fds'.val, open_fds')
  BY <1>4, <1>7 DEF OwnInv, Holdings, Held
<1>9. QED
  BY <1>1, <1>5, <1>6, <1>8, OwnInvNext

LEMMA OwnStutters ==
    ASSUME OwnInv, TypeInv', UNCHANGED <<fds, open_fds>>
    PROVE  OwnInv'
BY OwnInvNext DEF OwnInv

LEMMA OwnInit == Init => OwnInv
<1> SUFFICES ASSUME Init PROVE OwnInv
  OBVIOUS
<1> DEFINE table == [t \in StdFds \cup {AT_FDCWD} |-> Entry(t, {})]
<1>1. TypeInv
  BY TypeInit
<1>2. PICK a \in Addresses : fds = Single(Root, a, table)
  BY DEF Init
<1>3. DOMAIN fds.of = {Root} /\ DOMAIN fds.val = {a} /\ fds.val[a] = table
  <2>1. DOMAIN (<<>>) = {}
    OBVIOUS
  <2>2. QED
    BY <1>2, <2>1 DEF Single, Created, Put
<1>4. CountsExact(fds)
  <2>1. GoodHeap(fds, Addresses, {table})
    BY <1>2, SingleIsGood
  <2>2. Root # FailedPid
    BY ReplayAssumption, TracedAssumption
  <2>3. QED
    BY <1>3, <2>1, <2>2 DEF CountsExact, Exact
<1>5. OneAddress(fds)
  BY <1>3 DEF OneAddress
<1>6. Holdings(fds.val, open_fds)
  <2>1. \A t \in DOMAIN table : table[t].fd = t /\ (t \in StdFds \/ t = AT_FDCWD)
    BY DEF Entry
  <2>2. StdFds \subseteq DOMAIN open_fds /\ StdFds \subseteq FdNumbers /\ AT_FDCWD \in FdNumbers
    BY ReplayAssumption, FdNumbersAre DEF Init, FdNumbers
  <2> HIDE DEF table
  <2>3. QED
    BY <1>3, <2>1, <2>2, FdNumbersAre DEF Holdings, Held
<1>7. QED
  BY <1>1, <1>4, <1>5, <1>6 DEF OwnInv

(* Every kind of call, with what makes it typed and what it owns.           *)
LEMMA OwnNext ==
    ASSUME NoSimulatedDup, NoStrayTables, OwnInv, [Next]_vars
    PROVE  OwnInv'
<1>0. TypeInv /\ \A p : TypedCall(p) /\ Owns(p) => OwnInv'
  BY OwnCallKeeps DEF OwnInv, OwnCall, Owns
<1>1. CASE \E p \in Pids, f \in Files, cloexec \in BOOLEAN, opens \in {TRUE, ~ReplayMayFail} :
              Open(p, f, cloexec, opens)
  BY <1>0, <1>1, OpenTypedCall, OpenOwns
<1>2. CASE \E p \in Pids, opens \in BOOLEAN : OpenFails(p, opens)
  BY <1>0, <1>2, OpenFailsTypedCall, OpenFailsOwns
<1>3. CASE \E p \in Pids, t \in TracedFds \cup {SYSCALL_FAILURE} : Close(p, t)
  BY <1>0, <1>3, CloseTypedCall, CloseOwns
<1>4. CASE \E p \in Pids, t \in TracedFds : Dup(p, t)
  BY <1>0, <1>4, DupTypedCall, DupOwns
<1>5. CASE \E p \in Pids, t \in TracedFds \cup {SYSCALL_FAILURE} : DupFails(p, t)
  BY <1>0, <1>5, DupFailsTypedCall, DupFailsOwns
<1>6. CASE \E p \in Pids, old, new \in TracedFds : Dup2(p, old, new)
  BY <1>0, <1>6, Dup2TypedCall, Dup2Owns
<1>7. CASE \E p \in Pids, old, new \in TracedFds, cloexec \in BOOLEAN :
              Dup3(p, old, new, cloexec)
  BY <1>0, <1>7, Dup3TypedCall, Dup3Owns
<1>8. CASE \E p \in Pids, t \in TracedFds : Dup3Fails(p, t)
  BY <1>0, <1>8, Dup3FailsTypedCall, Dup3FailsOwns
<1>9. CASE \E p \in Pids, t \in TracedFds, cloexec \in BOOLEAN : FcntlDup(p, t, cloexec)
  BY <1>0, <1>9, FcntlDupTypedCall, FcntlDupOwns
<1>10. CASE \E p \in Pids, t \in TracedFds, cloexec \in BOOLEAN : FcntlSetFd(p, t, cloexec)
  BY <1>0, <1>10, FcntlSetFdTypedCall, FcntlSetFdOwns
<1>11. CASE \E p \in Pids, kind \in {"socket", "accept", "accept4"}, cloexec \in BOOLEAN :
               Simulated(p, kind, cloexec)
  BY <1>0, <1>11, SimulatedTypedCall, SimulatedOwns
<1>12. CASE \E p \in Pids, cloexec \in BOOLEAN : SocketPair(p, cloexec)
  BY <1>0, <1>12, SocketPairTypedCall, SocketPairOwns
<1>13. CASE \E p \in Pids : Pipe(p)
  BY <1>0, <1>13, PipeTypedCall, PipeOwns
<1>14. CASE \E p \in Pids : PipeFails(p)
  BY <1>0, <1>14, PipeFailsTypedCall, PipeFailsOwns
<1>15. CASE \E p, child \in Pids, flags \in CloneFlags : Clone(p, child, flags)
  <2>1. PICK p, child \in Pids, flags \in CloneFlags : Clone(p, child, flags)
    BY <1>15
  <2>2. OneTable => SharesFiles(flags)
    BY <2>1 DEF OneTable, Clone, Row
  <2>3. QED
    BY <2>1, <2>2, OwnClone DEF Clone
<1>16. CASE \E p, child \in Pids : VFork(p, child)
  BY <1>16, OwnClone DEF VFork, Row, OneTable
<1>17. CASE \E p \in Pids, flags \in CloneFlags : CloneFails(p, flags)
  BY <1>17, OwnCloneFails
<1>18. CASE \E p \in Pids : Exit(p)
  BY <1>18, OwnExit
<1>19. CASE \E p \in Pids, returned \in {0, SYSCALL_FAILURE} : Execve(p, returned)
  BY <1>0, <1>19, ExecveTypedCall, ExecveOwns
<1>20. CASE \E p \in Pids, mode \in Modes : Umask(p, mode)
  BY <1>0, <1>20, TypeNext, OwnStutters DEF Umask, Next
<1>21. CASE UNCHANGED vars
  BY <1>0, <1>21, TypeNext, OwnStutters DEF vars, replayVars
<1>22. QED
  BY <1>1, <1>2, <1>3, <1>4, <1>5, <1>6, <1>7, <1>8, <1>9, <1>10, <1>11, <1>12, <1>13,
     <1>14, <1>15, <1>16, <1>17, <1>18, <1>19, <1>20, <1>21 DEF Next

(* No two entries, of one process or of two, hold the same replayed         *)
(* descriptor: what close, exit or dup2 closes was nobody else's.           *)
THEOREM Owners == NoSimulatedDup /\ NoStrayTables => (Spec => []OneOwner)
<1> SUFFICES ASSUME NoSimulatedDup, NoStrayTables PROVE Spec => []OneOwner
  OBVIOUS
<1>1. OwnInv /\ [Next]_vars => OwnInv'
  BY OwnNext
<1>2. OwnInv => OneOwner
  BY DEF OwnInv, Holdings, Held, Owned, OneOwner
<1>3. QED
  BY OwnInit, <1>1, <1>2, PTL DEF Spec
-----------------------------------------------------------------------------
(***************************************************************************)
(* What a call does to the tables of the processes that share p's, here    *)
(* and in the trace, entry by entry.                                       *)
(***************************************************************************)
PeersAgree == \A p, q \in Alive : q \in file_peers[p] => traced[q] = traced[p]

PeerInv == TableInv /\ PeersAgree

TracedBecome(p, dest) ==
    \A q \in Alive : traced'[q] = IF q \in file_peers[p] THEN dest ELSE traced[q]

TablesBecome(p, table) ==
    \A q \in Alive : View(fds', q) = IF fds.of[q] = fds.of[p] THEN table ELSE View(fds, q)

\* Entry u of q is the one it was, here and in the trace.
Kept(q, u) ==
    /\ u \in DOMAIN traced[q] /\ u \in DOMAIN View(fds, q)
    /\ View(fds', q)[u] = View(fds, q)[u] /\ traced'[q][u] = traced[q][u]

\* The processes that share p's table get e at the descriptors T, d in the
\* trace; what else is there was there before.
Gains(p, T, e, d) ==
    \A q \in Alive :
        /\ DOMAIN traced'[q] =
              IF fds.of[q] = fds.of[p] THEN DOMAIN traced[q] \cup T ELSE DOMAIN traced[q]
        /\ \A u \in DOMAIN traced'[q] :
              IF fds.of[q] = fds.of[p] /\ u \in T
              THEN View(fds', q)[u] = e /\ traced'[q][u] = d
              ELSE Kept(q, u)

\* They lose the descriptors T.
Loses(p, T) ==
    \A q \in Alive :
        /\ DOMAIN traced'[q] =
              IF fds.of[q] = fds.of[p] THEN DOMAIN traced[q] \ T ELSE DOMAIN traced[q]
        /\ \A u \in DOMAIN traced'[q] : Kept(q, u)

LEMMA TablesBecomeIs ==
    ASSUME TableInv, NEW p \in Alive, NEW table,
           \/ fds' = Updated(fds, p, table)
           \/ UNCHANGED fds /\ table = Table(p)
    PROVE  TablesBecome(p, table)
<1>1. SafeHeap(fds) /\ Alive \subseteq DOMAIN fds.of
  BY DEF TableInv, IInv, Known
<1>2. CASE fds' = Updated(fds, p, table)
  BY <1>1, <1>2, UpdatedViews DEF TablesBecome
<1>3. CASE UNCHANGED fds /\ table = Table(p)
  BY <1>3 DEF TablesBecome, Table, View
<1>4. QED
  BY <1>2, <1>3

LEMMA TracedBecomeIs ==
    ASSUME PeerInv, NEW p \in Alive, NEW dest,
           \/ TracedBecomes(p, dest)
           \/ UNCHANGED tracedVars /\ dest = traced[p]
    PROVE  TracedBecome(p, dest)
BY DEF TracedBecomes, TracedBecome, tracedVars, PeerInv, PeersAgree

LEMMA PeersStayInGroups ==
    ASSUME PeerInv, NEW p, CallOf(p), NEW dest, TracedBecome(p, dest)
    PROVE  PeersAgree'
<1>1. p \in Alive /\ Alive' = Alive /\ file_peers' = file_peers
  BY DEF CallOf
<1>2. ASSUME NEW q \in Alive, NEW r \in Alive, r \in file_peers[q]
      PROVE  traced'[r] = traced'[q]
  <2>1. fds.of[r] = fds.of[q] /\ (r \in file_peers[p] <=> q \in file_peers[p])
    BY <1>1, <1>2 DEF PeerInv, TableInv, Grouped
  <2>2. traced[r] = traced[q]
    BY <1>2 DEF PeerInv, PeersAgree
  <2>3. QED
    BY <2>1, <2>2 DEF TracedBecome
<1>3. QED
  BY <1>1, <1>2 DEF PeersAgree

LEMMA GroupIs ==
    ASSUME PeerInv, NEW p \in Alive, NEW q \in Alive
    PROVE  /\ q \in file_peers[p] <=> fds.of[q] = fds.of[p]
           /\ fds.of[q] = fds.of[p] => traced[q] = traced[p] /\ View(fds, q) = Table(p)
BY DEF PeerInv, PeersAgree, TableInv, Grouped, Table, View

LEMMA OthersAreKept ==
    ASSUME PeerInv, NEW p \in Alive, NEW table, NEW dest, TablesBecome(p, table),
           TracedBecome(p, dest), NEW q \in Alive, fds.of[q] # fds.of[p]
    PROVE  DOMAIN traced'[q] = DOMAIN traced[q] /\ \A u \in DOMAIN traced'[q] : Kept(q, u)
<1>1. View(fds', q) = View(fds, q) /\ traced'[q] = traced[q]
  BY GroupIs DEF TablesBecome, TracedBecome
<1>2. DOMAIN traced[q] \subseteq DOMAIN View(fds, q)
  BY TracedIsKnown DEF PeerInv, has_fd, Table
<1>3. QED
  BY <1>1, <1>2 DEF Kept

LEMMA GainsIs ==
    ASSUME PeerInv, NEW p \in Alive, NEW table, NEW dest, TablesBecome(p, table),
           TracedBecome(p, dest), NEW T, NEW e, NEW d, DOMAIN dest = DOMAIN traced[p] \cup T,
           \A u \in T : table[u] = e /\ dest[u] = d,
           \A u \in DOMAIN traced[p] \ T : table[u] = Table(p)[u] /\ dest[u] = traced[p][u]
    PROVE  Gains(p, T, e, d)
<1>1. ASSUME NEW q \in Alive, fds.of[q] = fds.of[p]
      PROVE  /\ DOMAIN traced'[q] = DOMAIN traced[q] \cup T
             /\ \A u \in DOMAIN traced'[q] :
                   IF u \in T THEN View(fds', q)[u] = e /\ traced'[q][u] = d ELSE Kept(q, u)
  <2>1. View(fds', q) = table /\ traced'[q] = dest /\ traced[q] = traced[p] /\ View(fds, q) = Table(p)
    BY <1>1, GroupIs DEF TablesBecome, TracedBecome
  <2>2. DOMAIN traced[p] \subseteq DOMAIN Table(p)
    BY TracedIsKnown DEF PeerInv, has_fd
  <2>3. QED
    BY <1>1, <2>1, <2>2 DEF Kept
<1>2. ASSUME NEW q \in Alive, fds.of[q] # fds.of[p]
      PROVE  /\ DOMAIN traced'[q] = DOMAIN traced[q]
             /\ \A u \in DOMAIN traced'[q] : Kept(q, u)
  BY <1>2, OthersAreKept
<1>3. QED
  BY <1>1, <1>2 DEF Gains

LEMMA LosesIs ==
    ASSUME PeerInv, NEW p \in Alive, NEW table, NEW dest, TablesBecome(p, table),
           TracedBecome(p, dest), NEW T, DOMAIN dest = DOMAIN traced[p] \ T,
           \A u \in DOMAIN dest : table[u] = Table(p)[u] /\ dest[u] = traced[p][u]
    PROVE  Loses(p, T)
<1>1. ASSUME NEW q \in Alive, fds.of[q] = fds.of[p]
      PROVE  /\ DOMAIN traced'[q] = DOMAIN traced[q] \ T
             /\ \A u \in DOMAIN traced'[q] : Kept(q, u)
  <2>1. View(fds', q) = table /\ traced'[q] = dest /\ traced[q] = traced[p] /\ View(fds, q) = Table(p)
    BY <1>1, GroupIs DEF TablesBecome, TracedBecome
  <2>2. DOMAIN traced[p] \subseteq DOMAIN Table(p)
    BY TracedIsKnown DEF PeerInv, has_fd
  <2>3. QED
    BY <1>1, <2>1, <2>2 DEF Kept
<1>2. ASSUME NEW q \in Alive, fds.of[q] # fds.of[p]
      PROVE  /\ DOMAIN traced'[q] = DOMAIN traced[q]
             /\ \A u \in DOMAIN traced'[q] : Kept(q, u)
  BY <1>2, OthersAreKept
<1>3. QED
  BY <1>1, <1>2 DEF Loses

(* A descriptor added to both.                                             *)
LEMMA AddGains ==
    ASSUME PeerInv, NEW p, CallOf(p), NEW t, NEW base, NEW fd, NEW flags, NEW file, NEW cloexec,
           t # SYSCALL_FAILURE, may_add(base, t),
           DOMAIN traced[p] \ {t} \subseteq DOMAIN base,
           \A u \in DOMAIN base \ {t} : base[u] = Table(p)[u],
           AddFd(p, base, t, fd, flags), TracedGains(p, t, file, cloexec)
    PROVE  Gains(p, {t}, Entry(fd, flags), Descriptor(file, cloexec)) /\ PeersAgree'
<1> DEFINE table == add_fd_entry(base, t, fd, flags)
           dest == Put(traced[p], t, Descriptor(file, cloexec))
<1>1. p \in Alive
  BY DEF CallOf
<1>2. table = Put(base, t, Entry(fd, flags)) /\ fds' = Updated(fds, p, table)
  BY DEF add_fd_entry, AddFd
<1>3. /\ DOMAIN dest = DOMAIN traced[p] \cup {t} /\ dest[t] = Descriptor(file, cloexec)
      /\ \A u \in DOMAIN traced[p] \ {t} : dest[u] = traced[p][u]
      /\ table[t] = Entry(fd, flags) /\ \A u \in DOMAIN base \ {t} : table[u] = base[u]
  BY <1>2 DEF Put
<1>4. TracedBecomes(p, dest)
  BY DEF TracedGains
<1> HIDE DEF table, dest
<1>5. TablesBecome(p, table) /\ TracedBecome(p, dest)
  BY <1>1, <1>2, <1>4, TablesBecomeIs, TracedBecomeIs DEF PeerInv
<1>6. Gains(p, {t}, Entry(fd, flags), Descriptor(file, cloexec))
  BY <1>1, <1>3, <1>5, GainsIs
<1>7. QED
  BY <1>5, <1>6, PeersStayInGroups

LEMMA NextAdds ==
    ASSUME PeerInv, NEW p, CallOf(p), HasRoom(p, 1), NEW fd, NEW flags, NEW file, NEW cloexec,
           AddFd(p, Table(p), NextFd(p), fd, flags), TracedGains(p, NextFd(p), file, cloexec)
    PROVE  Gains(p, {NextFd(p)}, Entry(fd, flags), Descriptor(file, cloexec)) /\ PeersAgree'
<1>1. p \in Alive /\ TableInv
  BY DEF CallOf, PeerInv
<1>2. NextFd(p) \in TracedFds /\ may_add(Table(p), NextFd(p))
  BY <1>1, NextFdIsNew DEF may_add
<1>3. NextFd(p) # SYSCALL_FAILURE /\ DOMAIN traced[p] \subseteq DOMAIN Table(p)
  BY <1>1, <1>2, TracedIsKnown DEF has_fd
<1>4. QED
  BY <1>2, <1>3, AddGains

(* Nothing changed in the trace, and at most the entry for -1 in the table. *)
LEMMA FailureLoses ==
    ASSUME PeerInv, NEW p, CallOf(p), UNCHANGED tracedVars, NEW fd, NEW flags,
           UNCHANGED fds \/ AddFd(p, Table(p), SYSCALL_FAILURE, fd, flags)
    PROVE  Loses(p, {}) /\ PeersAgree'
<1>1. p \in Alive /\ TableInv
  BY DEF CallOf, PeerInv
<1>2. TracedBecome(p, traced[p])
  BY <1>1, TracedBecomeIs
<1>3. SYSCALL_FAILURE \notin DOMAIN traced[p] /\ DOMAIN traced[p] \subseteq DOMAIN Table(p)
  BY <1>1, TracedIsKnown DEF has_fd
<1>4. PICK table : /\ TablesBecome(p, table)
                   /\ \A u \in DOMAIN Table(p) \ {SYSCALL_FAILURE} : table[u] = Table(p)[u]
  <2>1. CASE UNCHANGED fds
    BY <1>1, <2>1, TablesBecomeIs
  <2>2. CASE fds' = Updated(fds, p, add_fd_entry(Table(p), SYSCALL_FAILURE, fd, flags))
    BY <1>1, <2>2, TablesBecomeIs DEF add_fd_entry, Put
  <2>3. QED
    BY <2>1, <2>2 DEF AddFd
<1>5. Loses(p, {})
  BY <1>1, <1>2, <1>3, <1>4, LosesIs
<1>6. QED
  BY <1>2, <1>5, PeersStayInGroups
-----------------------------------------------------------------------------
(* What each call gives to the tables and to the trace, or takes from them. *)
LEMMA PeersCall ==
    ASSUME PeerInv, TableInv', PeersAgree'
    PROVE  PeerInv'
BY DEF PeerInv, PeersAgree

LEMMA OpenMoves ==
    ASSUME PeerInv, NEW p, NEW file, NEW cloexec, NEW opens, Open(p, file, cloexec, opens)
    PROVE  /\ PeerInv' /\ NextFd(p) \notin DOMAIN traced[p]
           /\ Gains(p, {NextFd(p)},
                    Entry(IF opens THEN NewFd(open_fds, ReplayLimit) ELSE SYSCALL_FAILURE,
                          FlagsOf(cloexec)),
                    Descriptor(file, cloexec))
<1>1. CallOf(p) /\ p \in Alive /\ HasRoom(p, 1)
  BY OpenIsCall DEF CallOf, Open
<1>2. TableInv' /\ TableInv /\ NextFd(p) \notin DOMAIN traced[p]
  BY <1>1, OpenFollows, NextFdIsNew DEF PeerInv
<1>3. QED
  BY <1>1, <1>2, NextAdds, PeersCall DEF Open

LEMMA DupMoves ==
    ASSUME PeerInv, NEW p, NEW t, Dup(p, t)
    PROVE  /\ PeerInv' /\ NextFd(p) \notin DOMAIN traced[p] /\ has_fd(Table(p), t)
           /\ Gains(p, {NextFd(p)},
                    Entry(IF Table(p)[t].fd = SYSCALL_SIMULATED THEN NextFd(p)
                          ELSE DupReturns(open_fds, ReplayLimit, Table(p)[t].fd),
                          Table(p)[t].flags \ {O_CLOEXEC}),
                    Descriptor(traced[p][t].file, FALSE))
<1>1. CallOf(p) /\ p \in Alive /\ HasRoom(p, 1)
  BY DupIsCall DEF CallOf, Dup
<1>2. TableInv' /\ TableInv /\ NextFd(p) \notin DOMAIN traced[p]
  BY <1>1, DupFollows, NextFdIsNew DEF PeerInv
<1>3. has_fd(Table(p), t)
  BY <1>1, <1>2, TracedIsKnown DEF Dup
<1>4. QED
  BY <1>1, <1>2, <1>3, NextAdds, PeersCall DEF Dup, get_fd

LEMMA FcntlDupMoves ==
    ASSUME PeerInv, NEW p, NEW t, NEW cloexec, FcntlDup(p, t, cloexec)
    PROVE  /\ PeerInv' /\ NextFd(p) \notin DOMAIN traced[p] /\ has_fd(Table(p), t)
           /\ Gains(p, {NextFd(p)},
                    Entry(DupReturns(open_fds, ReplayLimit, Table(p)[t].fd),
                          (Table(p)[t].flags \ {O_CLOEXEC}) \cup FlagsOf(cloexec)),
                    Descriptor(traced[p][t].file, cloexec))
<1>1. CallOf(p) /\ p \in Alive /\ HasRoom(p, 1)
  BY FcntlDupIsCall DEF CallOf, FcntlDup
<1>2. TableInv' /\ TableInv /\ NextFd(p) \notin DOMAIN traced[p]
  BY <1>1, FcntlDupFollows, NextFdIsNew DEF PeerInv
<1>3. has_fd(Table(p), t)
  BY <1>1, <1>2, TracedIsKnown DEF FcntlDup
<1>4. QED
  BY <1>1, <1>2, <1>3, NextAdds, PeersCall DEF FcntlDup, get_fd

LEMMA SimulatedMoves ==
    ASSUME PeerInv, NEW p, NEW kind, NEW cloexec, Simulated(p, kind, cloexec),
           kind # "accept4" \/ NextFd(p) # 0
    PROVE  /\ PeerInv' /\ UNCHANGED aborted /\ NextFd(p) \notin DOMAIN traced[p]
           /\ Gains(p, {NextFd(p)}, Entry(SYSCALL_SIMULATED, FlagsKept(kind, cloexec)),
                    Descriptor(Socket, cloexec))
<1>1. CallOf(p) /\ p \in Alive /\ HasRoom(p, 1)
  BY SimulatedIsCall DEF CallOf, Simulated
<1>2. TableInv /\ NextFd(p) \notin DOMAIN traced[p]
  BY <1>1, NextFdIsNew DEF PeerInv
<1>3. NextFd(p) \in TracedFds /\ may_add(Table(p), NextFd(p))
  BY <1>1, <1>2, NextFdIsNew DEF may_add
<1>4. AddFd(p, Table(p), NextFd(p), SYSCALL_SIMULATED, FlagsKept(kind, cloexec))
  BY DEF Simulated
<1>5. TracedGains(p, NextFd(p), Socket, cloexec)
  BY DEF Simulated
<1>6. TableInv' /\ UNCHANGED aborted
  BY <1>1, <1>2, <1>3, <1>4, <1>5, BothGain, TracedIsKnown
<1>7. QED
  BY <1>1, <1>2, <1>4, <1>5, <1>6, NextAdds, PeersCall

(* A failed open or dup, and a failed clone's record, leave them alone.     *)
LEMMA OpenFailsMoves ==
    ASSUME PeerInv, NEW p, NEW opens, OpenFails(p, opens)
    PROVE  PeerInv' /\ Loses(p, {})
<1>1. CallOf(p) /\ TableInv'
  BY OpenFailsIsCall, OpenFailsFollows DEF PeerInv
<1>2. UNCHANGED fds \/ AddFd(p, Table(p), SYSCALL_FAILURE, SYSCALL_FAILURE, {})
  BY DEF OpenFails
<1>3. UNCHANGED tracedVars
  BY DEF OpenFails, tracedVars
<1>4. QED
  BY <1>1, <1>2, <1>3, FailureLoses, PeersCall

LEMMA DupFailsMoves ==
    ASSUME PeerInv, NEW p, NEW t, DupFails(p, t)
    PROVE  PeerInv' /\ Loses(p, {})
<1>1. CallOf(p) /\ TableInv'
  BY DupFailsIsCall, DupFailsFollows DEF PeerInv
<1>2. UNCHANGED fds \/ \E fd, flags : AddFd(p, Table(p), SYSCALL_FAILURE, fd, flags)
  BY DEF DupFails, Aborts
<1>3. UNCHANGED tracedVars
  BY DEF DupFails, tracedVars
<1>4. QED
  BY <1>1, <1>2, <1>3, FailureLoses, PeersCall

LEMMA PipeFailsMoves ==
    ASSUME PeerInv, NEW p, PipeFails(p)
    PROVE  PeerInv' /\ Loses(p, {})
<1>1. CallOf(p) /\ TableInv'
  BY PipeFailsIsCall, PipeFailsFollows DEF PeerInv
<1>2. UNCHANGED fds
  <2>1. ~may_add(add_fd_entry(Table(p), 0, SYSCALL_SIMULATED, {}), 0)
    BY DEF may_add, add_fd_entry, has_fd, Put, SYSCALL_FAILURE
  <2>2. QED
    BY <2>1 DEF PipeFails, AddFd
<1>3. UNCHANGED tracedVars
  BY DEF PipeFails, tracedVars
<1>4. QED
  BY <1>1, <1>2, <1>3, FailureLoses, PeersCall

(* close: the descriptor leaves both.                                       *)
LEMMA CloseMoves ==
    ASSUME PeerInv, NEW p, NEW t \in TracedFds \cup {SYSCALL_FAILURE}, Close(p, t)
    PROVE  PeerInv' /\ Loses(p, {t})
<1> DEFINE table == remove_fd_entry(Table(p), t)
           dest == Closed(traced[p], t)
<1>1. CallOf(p) /\ p \in Alive /\ TableInv /\ TableInv'
  BY CloseIsCall, CloseFollows DEF PeerInv, CallOf
<1>2. fds' = Updated(fds, p, table) /\ TracedBecomes(p, dest)
  BY DEF Close, TracedCloses
<1>3. /\ DOMAIN dest = DOMAIN traced[p] \ {t} /\ \A u \in DOMAIN dest : dest[u] = traced[p][u]
      /\ \A u \in DOMAIN Table(p) \ {t} : table[u] = Table(p)[u]
  BY DEF Closed, Without, remove_fd_entry
<1>4. DOMAIN traced[p] \subseteq DOMAIN Table(p)
  BY <1>1, TracedIsKnown DEF has_fd
<1> HIDE DEF table, dest
<1>5. TablesBecome(p, table) /\ TracedBecome(p, dest)
  BY <1>1, <1>2, TablesBecomeIs, TracedBecomeIs
<1>6. Loses(p, {t})
  BY <1>1, <1>3, <1>4, <1>5, LosesIs
<1>7. QED
  BY <1>1, <1>5, <1>6, PeersStayInGroups, PeersCall

(* dup2 and dup3: what was under the new number is replaced.               *)
LEMMA OntoMoves ==
    ASSUME PeerInv, NEW p, CallOf(p), NEW new \in TracedFds, NEW fd, NEW flags, NEW d,
           AddFd(p, remove_fd_entry(Table(p), new), new, fd, flags),
           \/ \E file, cloexec : TracedGains(p, new, file, cloexec) /\ d = Descriptor(file, cloexec)
           \/ UNCHANGED tracedVars /\ new \in DOMAIN traced[p] /\ d = traced[p][new]
    PROVE  PeersAgree' /\ Gains(p, {new}, Entry(fd, flags), d)
<1> DEFINE base == remove_fd_entry(Table(p), new)
           table == add_fd_entry(base, new, fd, flags)
<1>1. p \in Alive /\ TableInv /\ new # SYSCALL_FAILURE
  BY TracedIsKnown DEF CallOf, PeerInv
<1>2. DOMAIN base = DOMAIN Table(p) \ {new} /\ \A u \in DOMAIN base : base[u] = Table(p)[u]
  BY DEF remove_fd_entry, Without
<1>3. DOMAIN traced[p] \subseteq DOMAIN Table(p)
  BY <1>1, TracedIsKnown DEF has_fd
<1>4. may_add(base, new)
  BY <1>2 DEF may_add, has_fd
<1>5. AddFd(p, base, new, fd, flags)
  OBVIOUS
<1>6. CASE \E file, cloexec : TracedGains(p, new, file, cloexec) /\ d = Descriptor(file, cloexec)
  <2> HIDE DEF base
  <2>1. QED
    BY <1>1, <1>2, <1>3, <1>4, <1>5, <1>6, AddGains
<1>7. CASE UNCHANGED tracedVars /\ new \in DOMAIN traced[p] /\ d = traced[p][new]
  <2>1. fds' = Updated(fds, p, table)
    BY <1>4 DEF AddFd
  <2> HIDE DEF base
  <2>2. table[new] = Entry(fd, flags) /\ \A u \in DOMAIN base \ {new} : table[u] = base[u]
    BY <1>1 DEF add_fd_entry, Put
  <2> HIDE DEF table
  <2>3. TablesBecome(p, table) /\ TracedBecome(p, traced[p])
    BY <1>1, <1>7, <2>1, TablesBecomeIs, TracedBecomeIs
  <2>4. Gains(p, {new}, Entry(fd, flags), d)
    BY <1>1, <1>2, <1>3, <1>7, <2>2, <2>3, GainsIs
  <2>5. QED
    BY <2>3, <2>4, PeersStayInGroups
<1>8. QED
  BY <1>6, <1>7
-----------------------------------------------------------------------------
Onto(p, old, replayed) ==
    IF Table(p)[old].fd = SYSCALL_SIMULATED THEN SYSCALL_SIMULATED ELSE replayed

LEMMA DupOntoAdds ==
    ASSUME NEW p, NEW old, NEW new, NEW returned, NEW flags, NEW replayed, has_fd(Table(p), old),
           DupOnto(p, old, new, returned, flags, replayed)
    PROVE  AddFd(p, remove_fd_entry(Table(p), new), returned, Onto(p, old, replayed), flags)
BY DEF DupOnto, Onto, get_fd

LEMMA Dup2Moves ==
    ASSUME PeerInv, NEW p, NEW old, NEW new \in TracedFds, Dup2(p, old, new)
    PROVE  /\ PeerInv' /\ has_fd(Table(p), old) /\ old \in DOMAIN traced[p]
           /\ Gains(p, {new}, Entry(Onto(p, old, OntoBy2(p, old, new)),
                                    Table(p)[old].flags \ {O_CLOEXEC}),
                    IF old = new THEN traced[p][old] ELSE Descriptor(traced[p][old].file, FALSE))
<1>1. CallOf(p) /\ p \in Alive /\ TableInv /\ TableInv'
  BY Dup2IsCall, Dup2Follows DEF CallOf, PeerInv
<1>2. has_fd(Table(p), old) /\ old \in DOMAIN traced[p]
  BY <1>1, TracedIsKnown DEF Dup2
<1>3. AddFd(p, remove_fd_entry(Table(p), new), new, Onto(p, old, OntoBy2(p, old, new)),
            Table(p)[old].flags \ {O_CLOEXEC})
  BY <1>2, DupOntoAdds DEF Dup2
<1>4. CASE old = new
  <2>1. UNCHANGED tracedVars
    BY <1>4 DEF Dup2, tracedVars
  <2>2. QED
    BY <1>1, <1>2, <1>3, <1>4, <2>1, OntoMoves, PeersCall
<1>5. CASE old # new
  <2>1. TracedGains(p, new, traced[p][old].file, FALSE)
    BY <1>5 DEF Dup2
  <2>2. QED
    BY <1>1, <1>2, <1>3, <1>5, <2>1, OntoMoves, PeersCall
<1>6. QED
  BY <1>4, <1>5

LEMMA Dup3Moves ==
    ASSUME PeerInv, NEW p, NEW old, NEW new \in TracedFds, NEW cloexec, Dup3(p, old, new, cloexec)
    PROVE  /\ PeerInv' /\ has_fd(Table(p), old) /\ old \in DOMAIN traced[p]
           /\ Gains(p, {new}, Entry(Onto(p, old, OntoBy3(p, old, new)), Table(p)[old].flags),
                    Descriptor(traced[p][old].file, cloexec))
<1>1. CallOf(p) /\ p \in Alive /\ TableInv /\ TableInv'
  BY Dup3IsCall, Dup3Follows DEF CallOf, PeerInv
<1>2. has_fd(Table(p), old) /\ old \in DOMAIN traced[p]
  BY <1>1, TracedIsKnown DEF Dup3
<1>3. AddFd(p, remove_fd_entry(Table(p), new), new, Onto(p, old, OntoBy3(p, old, new)),
            Table(p)[old].flags)
  BY <1>2, DupOntoAdds DEF Dup3
<1>4. TracedGains(p, new, traced[p][old].file, cloexec)
  BY DEF Dup3
<1>5. QED
  BY <1>1, <1>2, <1>3, <1>4, OntoMoves, PeersCall

(* F_SETFD: one entry has other flags.                                      *)
LEMMA SetCloexecMoves ==
    ASSUME PeerInv, NEW p, NEW t, FcntlSetFd(p, t, TRUE)
    PROVE  /\ PeerInv' /\ has_fd(Table(p), t) /\ t \in DOMAIN traced[p]
           /\ Gains(p, {t}, [Table(p)[t] EXCEPT !.flags = Table(p)[t].flags \cup {O_CLOEXEC}],
                    [traced[p][t] EXCEPT !.cloexec = TRUE])
<1> DEFINE table == set_entry_flags(Table(p), t, Table(p)[t].flags \cup {O_CLOEXEC})
           dest == [traced[p] EXCEPT ![t].cloexec = TRUE]
<1>1. CallOf(p) /\ p \in Alive /\ TableInv /\ TableInv'
  BY FcntlSetFdIsCall, FcntlSetFdFollows DEF CallOf, PeerInv
<1>2. has_fd(Table(p), t) /\ t \in DOMAIN traced[p] /\ DOMAIN traced[p] \subseteq DOMAIN Table(p)
  BY <1>1, TracedIsKnown DEF FcntlSetFd, has_fd
<1>3. fds' = Updated(fds, p, table)
  BY <1>2 DEF FcntlSetFd
<1>4. TracedBecomes(p, dest)
  BY DEF FcntlSetFd, TracedSetsCloexec
<1>5. /\ DOMAIN dest = DOMAIN traced[p] /\ dest[t] = [traced[p][t] EXCEPT !.cloexec = TRUE]
      /\ \A u \in DOMAIN traced[p] \ {t} : dest[u] = traced[p][u]
  BY <1>2
<1>6. /\ table[t] = [Table(p)[t] EXCEPT !.flags = Table(p)[t].flags \cup {O_CLOEXEC}]
      /\ \A u \in DOMAIN Table(p) \ {t} : table[u] = Table(p)[u]
  BY <1>2 DEF set_entry_flags, has_fd
<1> HIDE DEF table, dest
<1>7. TablesBecome(p, table) /\ TracedBecome(p, dest)
  BY <1>1, <1>3, <1>4, TablesBecomeIs, TracedBecomeIs
<1>8. Gains(p, {t}, [Table(p)[t] EXCEPT !.flags = Table(p)[t].flags \cup {O_CLOEXEC}],
            [traced[p][t] EXCEPT !.cloexec = TRUE])
  <2> DEFINE e == [Table(p)[t] EXCEPT !.flags = Table(p)[t].flags \cup {O_CLOEXEC}]
             d == [traced[p][t] EXCEPT !.cloexec = TRUE]
  <2>1. table[t] = e /\ dest[t] = d
    BY <1>5, <1>6
  <2> HIDE DEF e, d
  <2>2. DOMAIN dest = DOMAIN traced[p] \cup {t}
    BY <1>2, <1>5
  <2>3. \A u \in DOMAIN traced[p] \ {t} : table[u] = Table(p)[u]
    BY <1>2, <1>6
  <2>4. Gains(p, {t}, e, d)
    BY <1>1, <1>5, <1>7, <2>1, <2>2, <2>3, GainsIs
  <2>5. QED
    BY <2>4 DEF e, d
<1>9. QED
  BY <1>1, <1>2, <1>7, <1>8, PeersStayInGroups, PeersCall

(* Clearing the flag does not reach the table.                             *)
LEMMA ClearCloexecMoves ==
    ASSUME PeerInv, NEW p, NEW t, FcntlSetFd(p, t, FALSE)
    PROVE  /\ PeerInv' /\ has_fd(Table(p), t) /\ t \in DOMAIN traced[p]
           /\ Gains(p, {t}, Table(p)[t], [traced[p][t] EXCEPT !.cloexec = FALSE])
<1> DEFINE dest == [traced[p] EXCEPT ![t].cloexec = FALSE]
           d == [traced[p][t] EXCEPT !.cloexec = FALSE]
<1>1. CallOf(p) /\ p \in Alive /\ TableInv /\ TableInv'
  BY FcntlSetFdIsCall, FcntlSetFdFollows DEF CallOf, PeerInv
<1>2. has_fd(Table(p), t) /\ t \in DOMAIN traced[p]
  BY <1>1, TracedIsKnown DEF FcntlSetFd
<1>3. UNCHANGED fds /\ TracedBecomes(p, dest)
  BY DEF FcntlSetFd, TracedSetsCloexec
<1>4. /\ DOMAIN dest = DOMAIN traced[p] \cup {t} /\ dest[t] = d
      /\ \A u \in DOMAIN traced[p] \ {t} : dest[u] = traced[p][u]
  BY <1>2
<1> HIDE DEF dest, d
<1>5. TablesBecome(p, Table(p)) /\ TracedBecome(p, dest)
  BY <1>1, <1>3, TablesBecomeIs, TracedBecomeIs
<1>6. Gains(p, {t}, Table(p)[t], d)
  BY <1>1, <1>4, <1>5, GainsIs
<1>7. QED
  BY <1>1, <1>2, <1>5, <1>6, PeersStayInGroups, PeersCall DEF d

(* socketpair and pipe: two of the same.                                   *)
LEMMA PairMoves ==
    ASSUME PeerInv, NEW p, CallOf(p), NEW cloexec, HasRoom(p, 2), TracedPair(p, cloexec), AddPair(p)
    PROVE  /\ PeerInv' /\ {NextFd(p), SecondFd(p)} \cap DOMAIN traced[p] = {}
           /\ Gains(p, {NextFd(p), SecondFd(p)}, Entry(SYSCALL_SIMULATED, {}),
                    Descriptor(Socket, cloexec))
<1> DEFINE one == NextFd(p)
           two == SecondFd(p)
           e == Entry(SYSCALL_SIMULATED, {})
           d == Descriptor(Socket, cloexec)
           table == Put(Put(Table(p), one, e), two, e)
           dest == Put(Put(traced[p], one, d), two, d)
<1>1. p \in Alive /\ TableInv /\ TableInv'
  BY PairFollows DEF CallOf, PeerInv
<1>2. /\ one \in TracedFds \ DOMAIN traced[p] /\ ~has_fd(Table(p), one)
      /\ two \in TracedFds \ DOMAIN traced[p] /\ ~has_fd(Table(p), two) /\ two # one
  BY <1>1, NextFdIsNew, SecondFdIsNew
<1>3. fds' = Updated(fds, p, table)
  <2>1. one # SYSCALL_FAILURE /\ two # SYSCALL_FAILURE
    BY <1>1, <1>2, TracedIsKnown
  <2>2. add_fd_entry(Table(p), one, SYSCALL_SIMULATED, {}) = Put(Table(p), one, e)
    BY <2>1 DEF add_fd_entry
  <2>3. ~has_fd(Put(Table(p), one, e), two)
    BY <1>2 DEF has_fd, Put
  <2> HIDE DEF one, two
  <2>4. AddFd(p, Put(Table(p), one, e), two, SYSCALL_SIMULATED, {})
    BY <1>2, <2>2 DEF AddPair, may_add, one, two
  <2>5. add_fd_entry(Put(Table(p), one, e), two, SYSCALL_SIMULATED, {}) = table
    BY <2>1 DEF add_fd_entry
  <2>6. QED
    BY <2>3, <2>4, <2>5 DEF AddFd, may_add
<1>4. TracedBecomes(p, dest)
  BY DEF TracedPair
<1>5. /\ DOMAIN dest = DOMAIN traced[p] \cup {one, two} /\ dest[one] = d /\ dest[two] = d
      /\ \A u \in DOMAIN traced[p] \ {one, two} : dest[u] = traced[p][u]
  BY <1>2 DEF Put
<1>6. /\ table[one] = e /\ table[two] = e
      /\ \A u \in DOMAIN Table(p) \ {one, two} : table[u] = Table(p)[u]
  BY <1>2 DEF Put
<1>7. DOMAIN traced[p] \subseteq DOMAIN Table(p)
  BY <1>1, TracedIsKnown DEF has_fd
<1> HIDE DEF table, dest, one, two, e, d
<1>8. TablesBecome(p, table) /\ TracedBecome(p, dest)
  BY <1>1, <1>3, <1>4, TablesBecomeIs, TracedBecomeIs
<1>9. Gains(p, {one, two}, e, d)
  BY <1>1, <1>5, <1>6, <1>7, <1>8, GainsIs
<1>10. QED
  BY <1>1, <1>2, <1>8, <1>9, PeersStayInGroups, PeersCall DEF one, two, e, d
-----------------------------------------------------------------------------
LEMMA PeersClone ==
    ASSUME PeerInv, NEW parent \in Alive, NEW child \in Pids \ Alive, NEW files \in BOOLEAN,
           NEW fs, NEW share_umask,
           TracedClones(parent, child, files, fs),
           CloneResources(parent, child, share_umask, files)
    PROVE  /\ PeerInv' /\ Alive' = Alive \cup {child} /\ traced'[child] = traced[parent]
           /\ \A q \in Alive : traced'[q] = traced[q] /\ View(fds', q) = View(fds, q)
           /\ View(fds', child) = IF files THEN Table(parent) ELSE CopiedTable(Table(parent))
<1>1. TableInv /\ TableInv'
  BY TableClone DEF PeerInv
<1>2. /\ Alive' = Alive \cup {child} /\ file_peers' = Joined(file_peers, parent, child, files)
      /\ traced'[child] = traced[parent] /\ \A q \in Alive : traced'[q] = traced[q]
  BY DEF TracedClones, Alive, Put
<1>3. SafeHeap(fds) /\ Alive \subseteq DOMAIN fds.of \ {child}
  BY <1>1 DEF TableInv, IInv, Known
<1>4. /\ \A q \in Alive : View(fds', q) = View(fds, q)
      /\ View(fds', child) = IF files THEN Table(parent) ELSE CopiedTable(Table(parent))
  <2>1. CASE files /\ fds' = Shared(fds, parent, child)
    BY <1>3, <2>1, SharedViews DEF Table
  <2>2. CASE ~files /\ \E a : /\ a \notin DOMAIN fds.rc
                             /\ fds' = Created(fds, child, a, CopiedTable(Table(parent)))
    <3>1. PICK a : /\ a \notin DOMAIN fds.rc
                   /\ fds' = Created(fds, child, a, CopiedTable(Table(parent)))
      BY <2>2
    <3>2. /\ View(fds', child) = CopiedTable(Table(parent))
          /\ \A q \in DOMAIN fds.of \ {child} : View(fds', q) = View(fds, q)
      BY <1>3, <3>1, CreatedViews
    <3>3. QED
      BY <1>3, <2>2, <3>2
  <2>3. QED
    BY <2>1, <2>2 DEF CloneResources, Unallocated
<1>5. PeersAgree'
  <2>1. \A q \in Alive : file_peers[q] \subseteq Alive
    BY <1>1 DEF TableInv, Grouped
  <2>2. ASSUME NEW q \in Alive', NEW r \in Alive', r \in file_peers'[q]
        PROVE  traced'[r] = traced'[q]
    <3>1. CASE files
      <4>1. q \in file_peers[parent] \cup {child} => r \in file_peers[parent] \cup {child}
        BY <1>2, <2>2, <3>1 DEF Joined
      <4>2. q \notin file_peers[parent] \cup {child} => r \in file_peers[q] /\ r # child /\ q # child
        BY <1>2, <2>1, <2>2, <3>1 DEF Joined
      <4>3. QED
        BY <1>2, <2>2, <4>1, <4>2 DEF PeerInv, PeersAgree
    <3>2. CASE ~files
      <4>1. q = child => r = child
        BY <1>2, <2>2, <3>2 DEF Joined
      <4>2. q # child => r \in file_peers[q] /\ r # child
        BY <1>2, <2>1, <2>2, <3>2 DEF Joined
      <4>3. QED
        BY <1>2, <2>2, <4>1, <4>2 DEF PeerInv, PeersAgree
    <3>3. QED
      BY <3>1, <3>2
  <2>3. QED
    BY <2>2 DEF PeersAgree
<1>6. QED
  BY <1>1, <1>2, <1>4, <1>5, PeersCall

LEMMA PeersCloneFails ==
    ASSUME PeerInv, NEW p, NEW flags, CloneFails(p, flags)
    PROVE  /\ PeerInv' /\ Alive' = Alive /\ traced' = traced
           /\ \A q \in Alive : View(fds', q) = View(fds, q)
<1>1. TableInv /\ TableInv'
  BY TableCloneFails DEF PeerInv
<1>2. p \in Alive /\ Alive' = Alive /\ UNCHANGED <<traced, file_peers>>
  BY DEF CloneFails, CloneResources, tracedVars, Alive
<1>3. SafeHeap(fds) /\ Alive \subseteq DOMAIN fds.of \ {FailedPid}
  BY <1>1 DEF TableInv, IInv, Known
<1>4. \/ fds' = Shared(fds, p, FailedPid)
      \/ \E a, v : a \notin DOMAIN fds.rc /\ fds' = Created(fds, FailedPid, a, v)
  BY DEF CloneFails, CloneResources, Unallocated
<1>5. \A q \in Alive : View(fds', q) = View(fds, q)
  BY <1>2, <1>3, <1>4, SharedViews, CreatedViews
<1>6. QED
  BY <1>1, <1>2, <1>5 DEF PeerInv, PeersAgree

LEMMA PeersExit ==
    ASSUME PeerInv, NEW p, Exit(p)
    PROVE  /\ PeerInv' /\ p \in Alive /\ Alive' = Alive \ {p}
           /\ \A q \in Alive' : traced'[q] = traced[q] /\ View(fds', q) = View(fds, q)
<1>1. TableInv /\ TableInv'
  BY TableExit DEF PeerInv
<1>2. /\ p \in Alive /\ Alive' = Alive \ {p} /\ file_peers' = Left(file_peers, p)
      /\ \A q \in Alive \ {p} : traced'[q] = traced[q]
      /\ fds' = Dropped(fds, p)
  BY DEF Exit, TracedExits, Alive, Without
<1>3. SafeHeap(fds) /\ Alive \subseteq DOMAIN fds.of
  BY <1>1 DEF TableInv, IInv, Known
<1>4. \A q \in Alive' : View(fds', q) = View(fds, q)
  BY <1>2, <1>3, DroppedViews
<1>5. \A q \in Alive' : file_peers'[q] \subseteq file_peers[q]
  BY <1>2 DEF Left
<1>6. PeersAgree'
  BY <1>2, <1>5 DEF PeerInv, PeersAgree
<1>7. QED
  BY <1>1, <1>2, <1>4, <1>6, PeersCall

(* Steps that leave tables and descriptors alone.                          *)
LEMMA PeersStutter ==
    ASSUME PeerInv, IInv', UNCHANGED <<traced, file_peers, fds>>
    PROVE  PeerInv'
<1>1. Alive' = Alive
  BY DEF Alive
<1>2. QED
  BY <1>1 DEF PeerInv, PeersAgree, TableInv, Grouped, SameDescriptors, Table, TracedFds

(* execve: a table of one process loses some of its entries.               *)
LEMMA PeersExecve ==
    ASSUME PeerInv, NEW p, CallOf(p), NEW gone, NEW closed,
           fds' = Updated(fds, p, ClosedAll(Table(p), gone)),
           TracedBecomes(p, ClosedAll(traced[p], closed)),
           DOMAIN traced[p] \cap gone = DOMAIN traced[p] \cap closed
    PROVE  PeerInv' /\ Loses(p, gone)
<1> DEFINE table == ClosedAll(Table(p), gone)
           dest == ClosedAll(traced[p], closed)
<1>1. p \in Alive /\ TableInv
  BY DEF CallOf, PeerInv
<1>2. DOMAIN table = DOMAIN Table(p) \ gone /\ DOMAIN dest = DOMAIN traced[p] \ closed
  BY DEF ClosedAll
<1>3. /\ \A u \in DOMAIN table : table[u] = Table(p)[u]
      /\ \A u \in DOMAIN dest : dest[u] = traced[p][u]
  BY DEF ClosedAll
<1>4. DOMAIN traced[p] \subseteq DOMAIN Table(p) /\ Real(DOMAIN Table(p)) = DOMAIN traced[p]
      /\ DOMAIN traced[p] \subseteq TracedFds
  BY <1>1, TracedIsKnown DEF has_fd
<1> HIDE DEF table, dest
<1>5. TablesBecome(p, table) /\ TracedBecome(p, dest)
  BY <1>1, TablesBecomeIs, TracedBecomeIs DEF table, dest
<1>6. Loses(p, gone)
  BY <1>1, <1>2, <1>3, <1>4, <1>5, LosesIs
<1>7. TableBecomes(p, DOMAIN table) /\ GroupBecomes(p, DOMAIN dest)
  BY <1>5 DEF TablesBecome, TracedBecome, TableBecomes, GroupBecomes
<1>8. Real(DOMAIN table) = DOMAIN dest /\ DOMAIN dest \subseteq TracedFds
  BY <1>2, <1>4 DEF Real
<1>9. TableInv'
  BY <1>1, <1>7, <1>8, CallFollows
<1>10. QED
  BY <1>5, <1>6, <1>9, PeersStayInGroups, PeersCall
-----------------------------------------------------------------------------
(***************************************************************************)
(* Close-on-exec. The calls left out give the entry another flag than the   *)
(* descriptor has (dup3 and accept4 without the flag, a dup2 of a           *)
(* descriptor onto itself, socketpair with the flag, fcntl(F_SETFD, 0));    *)
(* and what execve does to an entry is what the kernel does to the          *)
(* descriptor only if no execve fails and all that is marked is simulated.  *)
(* accept4 must not return 0, so that 0 is never closed.                   *)
(***************************************************************************)
MarksKept ==
    /\ {"accept4", "dup2_same", "dup3", "dup3_same", "clear_cloexec", "execve_fails"} \cap Kinds = {}
    /\ {"dup3", "accept", "socketpair"} \cap CloexecKinds = {}
    /\ "accept4" \in CloexecKinds => 0 \in StdFds /\ "close_std" \notin Kinds
    /\ "execve" \in Kinds => /\ "set_cloexec" \notin Kinds
                             /\ {"open", "fcntl_dup"} \cap CloexecKinds = {}

TracedFiles == Files \cup {Terminal, Socket}

\* An entry and the descriptor it stands for.
Marked(e, d) ==
    /\ d \in [file : TracedFiles, cloexec : BOOLEAN]
    /\ (O_CLOEXEC \in e.flags) = (d.cloexec = TRUE)
    /\ "execve" \in Kinds /\ d.cloexec = TRUE => e.fd = SYSCALL_SIMULATED

\* 0 is open, and no execve closes it.
StdinOpen ==
    "accept4" \in CloexecKinds =>
        \A p \in Alive : /\ 0 \in DOMAIN traced[p]
                         /\ "execve" \in Kinds => traced[p][0].cloexec = FALSE

AllMarked == \A q \in Alive : \A u \in DOMAIN traced[q] : Marked(View(fds, q)[u], traced[q][u])

MarkInv == PeerInv /\ AllMarked /\ StdinOpen

LEMMA MarkedGains ==
    ASSUME AllMarked, PeerInv, NEW p, CallOf(p), NEW T, NEW e, NEW d, Gains(p, T, e, d), Marked(e, d)
    PROVE  AllMarked'
<1>1. Alive' = Alive
  BY DEF CallOf
<1>2. ASSUME NEW q \in Alive, NEW u \in DOMAIN traced'[q]
      PROVE  Marked(View(fds', q)[u], traced'[q][u])
  BY <1>2 DEF Gains, Kept, AllMarked
<1>3. QED
  BY <1>1, <1>2 DEF AllMarked, Marked

LEMMA MarkedLoses ==
    ASSUME AllMarked, PeerInv, NEW p, CallOf(p), NEW T, Loses(p, T)
    PROVE  AllMarked'
<1>1. Alive' = Alive
  BY DEF CallOf
<1>2. ASSUME NEW q \in Alive, NEW u \in DOMAIN traced'[q]
      PROVE  Marked(View(fds', q)[u], traced'[q][u])
  BY <1>2 DEF Loses, Kept, AllMarked
<1>3. QED
  BY <1>1, <1>2 DEF AllMarked, Marked

(* 0 stays open.                                                           *)
LEMMA StdinBecomes ==
    ASSUME StdinOpen, NEW p \in Alive, NEW dest, TracedBecomes(p, dest),
           /\ "accept4" \in CloexecKinds
           /\ 0 \in DOMAIN traced[p] /\ ("execve" \in Kinds => traced[p][0].cloexec = FALSE)
           => 0 \in DOMAIN dest /\ ("execve" \in Kinds => dest[0].cloexec = FALSE)
    PROVE  StdinOpen'
<1>1. Alive' = Alive
  BY DEF TracedBecomes, Alive
<1>2. ASSUME "accept4" \in CloexecKinds, NEW q \in Alive
      PROVE  0 \in DOMAIN traced'[q] /\ ("execve" \in Kinds => traced'[q][0].cloexec = FALSE)
  BY <1>2 DEF TracedBecomes, StdinOpen
<1>3. QED
  BY <1>1, <1>2 DEF StdinOpen

LEMMA StdinGains ==
    ASSUME StdinOpen, NEW p \in Alive, NEW t, NEW file, NEW cloexec, TracedGains(p, t, file, cloexec),
           t \notin DOMAIN traced[p] \/ cloexec = FALSE
    PROVE  StdinOpen'
<1> DEFINE dest == Put(traced[p], t, Descriptor(file, cloexec))
<1>1. /\ DOMAIN dest = DOMAIN traced[p] \cup {t} /\ dest[t].cloexec = cloexec
      /\ \A u \in DOMAIN traced[p] \ {t} : dest[u] = traced[p][u]
  BY DEF Put, Descriptor
<1>2. TracedBecomes(p, dest)
  BY DEF TracedGains
<1> HIDE DEF dest
<1>3. QED
  BY <1>1, <1>2, StdinBecomes

LEMMA StdinStays ==
    ASSUME StdinOpen, UNCHANGED traced
    PROVE  StdinOpen'
BY DEF StdinOpen, Alive

-----------------------------------------------------------------------------
LEMMA FlagsMarked ==
    ASSUME NEW cloexec \in BOOLEAN
    PROVE  (O_CLOEXEC \in FlagsOf(cloexec)) = (cloexec = TRUE)
BY DEF FlagsOf

LEMMA MarkedAdds ==
    ASSUME AllMarked, PeerInv, NEW p, CallOf(p), NEW T, NEW fd, NEW flags,
           NEW file \in TracedFiles, NEW cloexec \in BOOLEAN,
           Gains(p, T, Entry(fd, flags), Descriptor(file, cloexec)),
           (O_CLOEXEC \in flags) = (cloexec = TRUE),
           "execve" \in Kinds /\ cloexec = TRUE => fd = SYSCALL_SIMULATED
    PROVE  AllMarked'
<1>1. Marked(Entry(fd, flags), Descriptor(file, cloexec))
  BY DEF Marked, Entry, Descriptor
<1>2. QED
  BY <1>1, MarkedGains

LEMMA TracedFileOf ==
    ASSUME AllMarked, NEW p \in Alive, NEW t \in DOMAIN traced[p]
    PROVE  traced[p][t].file \in TracedFiles
BY DEF AllMarked, Marked

LEMMA MarkOpen ==
    ASSUME MarkInv, MarksKept, NEW p, NEW file, NEW cloexec \in BOOLEAN, NEW opens,
           Open(p, file, cloexec, opens)
    PROVE  MarkInv'
<1>1. CallOf(p) /\ p \in Alive
  BY OpenIsCall DEF CallOf
<1>2. file \in TracedFiles
  BY DEF Open, FreshFiles, TracedFiles
<1>3. "execve" \in Kinds => cloexec = FALSE
  BY DEF Open, RowWith, MarksKept
<1>4. StdinOpen'
  BY <1>1, StdinGains, OpenMoves DEF Open, MarkInv
<1>5. PeerInv' /\ \E fd, flags :
            /\ Gains(p, {NextFd(p)}, Entry(fd, flags), Descriptor(file, cloexec))
            /\ flags = FlagsOf(cloexec)
  BY <1>1, OpenMoves DEF MarkInv
<1>6. AllMarked'
  BY <1>1, <1>2, <1>3, FlagsMarked, <1>5, MarkedAdds DEF MarkInv
<1>7. QED
  BY <1>4, <1>5, <1>6 DEF MarkInv

LEMMA MarkDup ==
    ASSUME MarkInv, NEW p, NEW t, Dup(p, t)
    PROVE  MarkInv'
<1>1. CallOf(p) /\ p \in Alive /\ t \in DOMAIN traced[p]
  BY DupIsCall DEF CallOf, Dup
<1>2. StdinOpen'
  BY <1>1, StdinGains DEF Dup, MarkInv
<1>3. \A flags : (O_CLOEXEC \in flags \ {O_CLOEXEC}) = (FALSE = TRUE)
  OBVIOUS
<1>4. traced[p][t].file \in TracedFiles
  BY <1>1, TracedFileOf DEF MarkInv
<1>5. PeerInv' /\ \E fd, flags :
            /\ Gains(p, {NextFd(p)}, Entry(fd, flags), Descriptor(traced[p][t].file, FALSE))
            /\ flags = Table(p)[t].flags \ {O_CLOEXEC}
  BY <1>1, DupMoves DEF MarkInv
<1>6. AllMarked'
  BY <1>1, <1>3, <1>4, <1>5, MarkedAdds DEF MarkInv
<1>7. QED
  BY <1>2, <1>5, <1>6 DEF MarkInv

LEMMA MarkFcntlDup ==
    ASSUME MarkInv, MarksKept, NEW p, NEW t, NEW cloexec \in BOOLEAN, FcntlDup(p, t, cloexec)
    PROVE  MarkInv'
<1>1. CallOf(p) /\ p \in Alive /\ t \in DOMAIN traced[p]
  BY FcntlDupIsCall DEF CallOf, FcntlDup
<1>2. StdinOpen'
  BY <1>1, StdinGains, FcntlDupMoves DEF FcntlDup, MarkInv
<1>3. \A flags : (O_CLOEXEC \in (flags \ {O_CLOEXEC}) \cup FlagsOf(cloexec)) = (cloexec = TRUE)
  BY DEF FlagsOf
<1>4. traced[p][t].file \in TracedFiles
  BY <1>1, TracedFileOf DEF MarkInv
<1>5. "execve" \in Kinds => cloexec = FALSE
  BY DEF FcntlDup, RowWith, MarksKept
<1>6. PeerInv' /\ \E fd, flags :
            /\ Gains(p, {NextFd(p)}, Entry(fd, flags), Descriptor(traced[p][t].file, cloexec))
            /\ flags = (Table(p)[t].flags \ {O_CLOEXEC}) \cup FlagsOf(cloexec)
  BY <1>1, FcntlDupMoves DEF MarkInv
<1>7. AllMarked'
  BY <1>1, <1>3, <1>4, <1>5, <1>6, MarkedAdds DEF MarkInv
<1>8. QED
  BY <1>2, <1>6, <1>7 DEF MarkInv

LEMMA MarkDup2 ==
    ASSUME MarkInv, MarksKept, NEW p, NEW old, NEW new \in TracedFds, Dup2(p, old, new)
    PROVE  MarkInv'
<1>1. CallOf(p) /\ p \in Alive /\ old \in DOMAIN traced[p]
  BY Dup2IsCall DEF CallOf, Dup2
<1>2. old # new
  BY DEF Dup2, Row, Dup2Kind, MarksKept
<1>3. StdinOpen'
  BY <1>1, <1>2, StdinGains DEF Dup2, MarkInv
<1>4. \A flags : (O_CLOEXEC \in flags \ {O_CLOEXEC}) = (FALSE = TRUE)
  OBVIOUS
<1>5. traced[p][old].file \in TracedFiles
  BY <1>1, TracedFileOf DEF MarkInv
<1>6. PeerInv' /\ \E fd, flags :
            /\ Gains(p, {new}, Entry(fd, flags), Descriptor(traced[p][old].file, FALSE))
            /\ flags = Table(p)[old].flags \ {O_CLOEXEC}
  BY <1>1, Dup2Moves, <1>2 DEF MarkInv
<1>7. AllMarked'
  BY <1>1, <1>4, <1>5, <1>6, MarkedAdds DEF MarkInv
<1>8. QED
  BY <1>3, <1>6, <1>7 DEF MarkInv

LEMMA MarkSetFd ==
    ASSUME MarkInv, TypeInv, MarksKept, NEW p, NEW t, NEW cloexec \in BOOLEAN, FcntlSetFd(p, t, cloexec)
    PROVE  MarkInv'
<1> DEFINE e == [Table(p)[t] EXCEPT !.flags = Table(p)[t].flags \cup {O_CLOEXEC}]
           d == [traced[p][t] EXCEPT !.cloexec = TRUE]
<1>1. CallOf(p) /\ p \in Alive /\ t \in DOMAIN traced[p]
  BY FcntlSetFdIsCall DEF CallOf, FcntlSetFd
<1>2. cloexec = TRUE /\ "execve" \notin Kinds
  BY DEF FcntlSetFd, Row, MarksKept
<1>3. PeerInv' /\ has_fd(Table(p), t) /\ Gains(p, {t}, e, d)
  BY <1>2, SetCloexecMoves DEF MarkInv
<1>4. Table(p)[t] \in [fd : Int, flags : SUBSET {O_CLOEXEC}]
  BY <1>1, <1>3, AliveTables DEF TableTyped, has_fd
<1>5. traced[p][t] \in [file : TracedFiles, cloexec : BOOLEAN]
  BY <1>1 DEF MarkInv, AllMarked, Marked
<1>6. Marked(e, d)
  <2>1. e.flags = Table(p)[t].flags \cup {O_CLOEXEC}
    BY <1>4
  <2>2. d \in [file : TracedFiles, cloexec : BOOLEAN] /\ d.cloexec = TRUE
    BY <1>5
  <2>3. QED
    BY <1>2, <2>1, <2>2 DEF Marked
<1>7. StdinOpen'
  <2> DEFINE dest == [traced[p] EXCEPT ![t].cloexec = TRUE]
  <2>1. DOMAIN dest = DOMAIN traced[p]
    OBVIOUS
  <2>2. TracedBecomes(p, dest)
    BY <1>2 DEF FcntlSetFd, TracedSetsCloexec
  <2> HIDE DEF dest
  <2>3. QED
    BY <1>1, <1>2, <2>1, <2>2, StdinBecomes DEF MarkInv
<1> HIDE DEF e, d
<1>8. QED
  BY <1>1, <1>3, <1>6, <1>7, MarkedGains DEF MarkInv
-----------------------------------------------------------------------------
LEMMA MarkSimulated ==
    ASSUME MarkInv, MarksKept, NEW p, NEW kind \in {"socket", "accept", "accept4"},
           NEW cloexec \in BOOLEAN, Simulated(p, kind, cloexec)
    PROVE  MarkInv' /\ UNCHANGED aborted /\ (kind # "accept4" \/ NextFd(p) # 0)
<1>1. CallOf(p) /\ p \in Alive /\ TracedGains(p, NextFd(p), Socket, cloexec)
      /\ RowWith(kind, cloexec)
  BY SimulatedIsCall DEF CallOf, Simulated
<1>2. HasRoom(p, 1) /\ NextFd(p) \notin DOMAIN traced[p]
  BY <1>1, NextFdIsNew DEF Simulated, MarkInv, PeerInv
<1>3. kind # "accept4" \/ NextFd(p) # 0
  BY <1>1, <1>2 DEF RowWith, MarksKept, MarkInv, StdinOpen
<1>4. PeerInv' /\ UNCHANGED aborted
      /\ Gains(p, {NextFd(p)}, Entry(SYSCALL_SIMULATED, FlagsKept(kind, cloexec)),
               Descriptor(Socket, cloexec))
  BY <1>3, SimulatedMoves DEF MarkInv
<1>5. (O_CLOEXEC \in FlagsKept(kind, cloexec)) = (cloexec = TRUE)
  <2>1. CASE kind = "socket"
    BY <2>1 DEF FlagsKept, FlagsOf
  <2>2. CASE kind = "accept"
    <3>1. cloexec = FALSE
      BY <1>1, <2>2 DEF RowWith, MarksKept
    <3>2. QED
      BY <2>2, <3>1 DEF FlagsKept
  <2>3. CASE kind = "accept4"
    <3>1. cloexec = TRUE
      BY <1>1, <2>3 DEF RowWith, MarksKept
    <3>2. QED
      BY <2>3, <3>1 DEF FlagsKept
  <2>4. QED
    BY <2>1, <2>2, <2>3
<1>6. Socket \in TracedFiles
  BY DEF TracedFiles
<1>7. AllMarked'
  BY <1>1, <1>4, <1>5, <1>6, MarkedAdds DEF MarkInv
<1>8. StdinOpen'
  BY <1>1, <1>2, StdinGains DEF MarkInv
<1>9. QED
  BY <1>3, <1>4, <1>7, <1>8 DEF MarkInv

LEMMA MarkPair ==
    ASSUME MarkInv, NEW p, CallOf(p), HasRoom(p, 2), TracedPair(p, FALSE), AddPair(p)
    PROVE  MarkInv'
<1>1. p \in Alive /\ Socket \in TracedFiles
  BY DEF CallOf, TracedFiles
<1>2. /\ PeerInv' /\ {NextFd(p), SecondFd(p)} \cap DOMAIN traced[p] = {}
      /\ Gains(p, {NextFd(p), SecondFd(p)}, Entry(SYSCALL_SIMULATED, {}), Descriptor(Socket, FALSE))
  BY PairMoves DEF MarkInv
<1>3. AllMarked'
  <2>1. (O_CLOEXEC \in {}) = (FALSE = TRUE)
    OBVIOUS
  <2>2. QED
    BY <1>1, <1>2, <2>1, MarkedAdds DEF MarkInv
<1>4. StdinOpen'
  <2> DEFINE d == Descriptor(Socket, FALSE)
             dest == Put(Put(traced[p], NextFd(p), d), SecondFd(p), d)
  <2>1. /\ DOMAIN traced[p] \subseteq DOMAIN dest
        /\ \A u \in DOMAIN traced[p] : dest[u] = traced[p][u]
    BY <1>2 DEF Put
  <2>2. TracedBecomes(p, dest)
    BY DEF TracedPair
  <2> HIDE DEF dest
  <2>3. QED
    BY <1>1, <2>1, <2>2, StdinBecomes DEF MarkInv
<1>5. QED
  BY <1>2, <1>3, <1>4 DEF MarkInv

(* What failed leaves nothing but an entry for -1.                          *)
LEMMA MarkFails ==
    ASSUME MarkInv, NEW p, CallOf(p), PeerInv', Loses(p, {}), UNCHANGED tracedVars
    PROVE  MarkInv'
BY MarkedLoses, StdinStays DEF MarkInv, tracedVars

LEMMA MarkClose ==
    ASSUME MarkInv, MarksKept, NEW p, NEW t \in TracedFds \cup {SYSCALL_FAILURE}, Close(p, t)
    PROVE  MarkInv'
<1>1. CallOf(p) /\ p \in Alive
  BY CloseIsCall DEF CallOf
<1>2. PeerInv' /\ Loses(p, {t})
  BY CloseMoves DEF MarkInv
<1>3. AllMarked'
  BY <1>1, <1>2, MarkedLoses DEF MarkInv
<1>4. StdinOpen'
  <2>1. "accept4" \in CloexecKinds => t # 0
    BY DEF Close, Row, MarksKept
  <2>2. 0 \in DOMAIN traced[p] /\ t # 0
        => 0 \in DOMAIN Closed(traced[p], t) /\ Closed(traced[p], t)[0] = traced[p][0]
    BY DEF Closed, Without
  <2>3. TracedBecomes(p, Closed(traced[p], t))
    BY DEF Close, TracedCloses
  <2>4. QED
    BY <1>1, <2>1, <2>2, <2>3, StdinBecomes DEF MarkInv
<1>5. QED
  BY <1>2, <1>3, <1>4 DEF MarkInv

(* What execve drops is what the kernel closes.                             *)
LEMMA MarkExecve ==
    ASSUME MarkInv, MarksKept, NEW p, NEW returned, Execve(p, returned)
    PROVE  MarkInv' /\ UNCHANGED aborted /\ \E T : Loses(p, T)
<1> DEFINE marked == {t \in DOMAIN Table(p) : O_CLOEXEC \in Table(p)[t].flags}
           gone == {t \in marked : exec_ret >= 0 \/ Table(p)[t].fd = SYSCALL_SIMULATED}
           closed == {t \in DOMAIN traced[p] : traced[p][t].cloexec}
<1>1. CallOf(p) /\ p \in Alive /\ UNCHANGED aborted
  BY ExecveIsCall DEF CallOf, Execve
<1>2. "execve" \in Kinds /\ returned >= 0
  BY DEF Execve, Row, MarksKept
<1>3. fds' = Updated(fds, p, ClosedAll(Table(p), gone)) /\ TracedBecomes(p, ClosedAll(traced[p], closed))
  BY <1>2 DEF Execve, TracedExecs
<1>4. DOMAIN traced[p] \cap gone = DOMAIN traced[p] \cap closed
  <2>1. DOMAIN traced[p] \subseteq DOMAIN Table(p)
    BY <1>1, TracedIsKnown DEF has_fd, MarkInv, PeerInv
  <2>2. ASSUME NEW t \in DOMAIN traced[p]
        PROVE  t \in gone <=> t \in closed
    <3>1. Marked(Table(p)[t], traced[p][t])
      BY <1>1 DEF MarkInv, AllMarked, Table
    <3>2. /\ (O_CLOEXEC \in Table(p)[t].flags) = (traced[p][t].cloexec = TRUE)
          /\ traced[p][t].cloexec = TRUE => Table(p)[t].fd = SYSCALL_SIMULATED
          /\ traced[p][t].cloexec \in BOOLEAN
      BY <1>2, <3>1 DEF Marked
    <3>3. QED
      BY <2>1, <3>2
  <2>3. QED
    BY <2>2
<1>5. 0 \in DOMAIN traced[p] /\ traced[p][0].cloexec = FALSE
      => 0 \in DOMAIN ClosedAll(traced[p], closed) /\ ClosedAll(traced[p], closed)[0] = traced[p][0]
  BY DEF ClosedAll
<1> HIDE DEF gone, closed
<1>6. PeerInv' /\ Loses(p, gone)
  BY <1>1, <1>3, <1>4, PeersExecve DEF MarkInv
<1>7. AllMarked'
  BY <1>1, <1>6, MarkedLoses DEF MarkInv
<1>8. StdinOpen'
  BY <1>1, <1>2, <1>3, <1>5, StdinBecomes DEF MarkInv
<1>9. QED
  BY <1>1, <1>6, <1>7, <1>8 DEF MarkInv

-----------------------------------------------------------------------------
(* A copy has the flags of its parent, and what was simulated stays so.     *)
LEMMA MarkClone ==
    ASSUME MarkInv, NEW parent \in Alive, NEW child \in Pids \ Alive, NEW files \in BOOLEAN,
           NEW fs, NEW share_umask,
           TracedClones(parent, child, files, fs),
           CloneResources(parent, child, share_umask, files)
    PROVE  MarkInv'
<1>1. /\ PeerInv' /\ Alive' = Alive \cup {child} /\ traced'[child] = traced[parent]
      /\ \A q \in Alive : traced'[q] = traced[q] /\ View(fds', q) = View(fds, q)
      /\ View(fds', child) = IF files THEN Table(parent) ELSE CopiedTable(Table(parent))
  BY PeersClone DEF MarkInv
<1>2. ASSUME NEW u \in DOMAIN traced'[child]
      PROVE  Marked(View(fds', child)[u], traced'[child][u])
  <2>1. Marked(Table(parent)[u], traced[parent][u]) /\ u \in DOMAIN Table(parent)
    BY <1>1, <1>2, TracedIsKnown DEF MarkInv, PeerInv, AllMarked, Table, has_fd
  <2>2. CASE files
    BY <1>1, <2>1, <2>2
  <2>3. CASE ~files
    <3>1. View(fds', child)[u] = Entry(CopiedFd(Table(parent), u), Table(parent)[u].flags)
      BY <1>1, <2>1, <2>3 DEF CopiedTable
    <3>2. Table(parent)[u].fd = SYSCALL_SIMULATED
          => CopiedFd(Table(parent), u) = SYSCALL_SIMULATED
      BY DEF CopiedFd, Duplicated, SYSCALL_SIMULATED
    <3>3. QED
      BY <1>1, <2>1, <3>1, <3>2 DEF Marked, Entry
  <2>4. QED
    BY <2>2, <2>3
<1>3. AllMarked'
  <2>1. ASSUME NEW q \in Alive, NEW u \in DOMAIN traced'[q]
        PROVE  Marked(View(fds', q)[u], traced'[q][u])
    BY <1>1, <2>1 DEF MarkInv, AllMarked
  <2>2. QED
    BY <1>1, <1>2, <2>1 DEF AllMarked, Marked
<1>4. StdinOpen'
  BY <1>1 DEF MarkInv, StdinOpen
<1>5. QED
  BY <1>1, <1>3, <1>4 DEF MarkInv

LEMMA MarkSameViews ==
    ASSUME MarkInv, PeerInv', Alive' \subseteq Alive,
           \A q \in Alive' : traced'[q] = traced[q] /\ View(fds', q) = View(fds, q)
    PROVE  MarkInv'
<1>1. AllMarked'
  BY DEF MarkInv, AllMarked, Marked
<1>2. StdinOpen'
  BY DEF MarkInv, StdinOpen
<1>3. QED
  BY <1>1, <1>2 DEF MarkInv

LEMMA PeersInit == Init => PeerInv
<1> SUFFICES ASSUME Init PROVE PeerInv
  OBVIOUS
<1>1. TableInv
  BY TableInit
<1>2. Alive = {Root} /\ file_peers = [p \in {Root} |-> {Root}]
  BY DEF Init, TracedInit, Alive
<1>3. QED
  BY <1>1, <1>2 DEF PeerInv, PeersAgree

LEMMA MarkInit ==
    ASSUME MarksKept, Init
    PROVE  MarkInv
<1>1. PeerInv
  BY PeersInit
<1>2. Alive = {Root} /\ traced[Root] = [t \in StdFds |-> Descriptor(Terminal, FALSE)]
  BY DEF Init, TracedInit, Alive
<1>3. View(fds, Root) = [t \in StdFds \cup {AT_FDCWD} |-> Entry(t, {})]
  BY SingleViews DEF Init
<1>4. AllMarked
  <2>1. ASSUME NEW u \in StdFds
        PROVE  Marked(View(fds, Root)[u], traced[Root][u])
    <3>1. View(fds, Root)[u].flags = {} /\ traced[Root][u] = Descriptor(Terminal, FALSE)
      BY <1>2, <1>3 DEF Entry
    <3>2. (O_CLOEXEC \in {}) = (FALSE = TRUE)
      OBVIOUS
    <3>3. QED
      BY <3>1, <3>2 DEF Marked, Descriptor, TracedFiles
  <2>2. QED
    BY <1>2, <2>1 DEF AllMarked
<1>5. StdinOpen
  BY <1>2 DEF StdinOpen, MarksKept, Descriptor
<1>6. QED
  BY <1>1, <1>4, <1>5 DEF MarkInv
-----------------------------------------------------------------------------
LEMMA MarkNext ==
    ASSUME ThreadsShare, MarksKept, MarkInv, TypeInv, [Next]_vars
    PROVE  MarkInv' /\ (CallsFailing \/ UNCHANGED aborted)
<1> USE DEF CallsFailing
<1>0. PeerInv /\ TableInv
  BY DEF MarkInv, PeerInv
<1>1. CASE \E p \in Pids, f \in Files, cloexec \in BOOLEAN, opens \in {TRUE, ~ReplayMayFail} :
              Open(p, f, cloexec, opens)
  BY <1>0, <1>1, MarkOpen, OpenFollows
<1>2. CASE \E p \in Pids, opens \in BOOLEAN : OpenFails(p, opens)
  <2>1. PICK p \in Pids, opens \in BOOLEAN : OpenFails(p, opens)
    BY <1>2
  <2>2. CallOf(p) /\ PeerInv' /\ Loses(p, {}) /\ UNCHANGED <<tracedVars, aborted>>
    BY <1>0, <2>1, OpenFailsIsCall, OpenFailsMoves, OpenFailsFollows DEF OpenFails
  <2>3. QED
    BY <2>2, MarkFails
<1>3. CASE \E p \in Pids, t \in TracedFds \cup {SYSCALL_FAILURE} : Close(p, t)
  BY <1>0, <1>3, MarkClose, CloseFollows
<1>4. CASE \E p \in Pids, t \in TracedFds : Dup(p, t)
  BY <1>0, <1>4, MarkDup, DupFollows
<1>5. CASE \E p \in Pids, t \in TracedFds \cup {SYSCALL_FAILURE} : DupFails(p, t)
  <2>1. PICK p \in Pids, t \in TracedFds \cup {SYSCALL_FAILURE} : DupFails(p, t)
    BY <1>5
  <2>2. CallOf(p) /\ PeerInv' /\ Loses(p, {}) /\ UNCHANGED tracedVars /\ "dup_fails" \in Kinds
    BY <1>0, <2>1, DupFailsIsCall, DupFailsMoves DEF DupFails, Row
  <2>3. QED
    BY <2>2, MarkFails
<1>6. CASE \E p \in Pids, old, new \in TracedFds : Dup2(p, old, new)
  BY <1>0, <1>6, MarkDup2, Dup2Follows
<1>7. CASE \E p \in Pids, old, new \in TracedFds, cloexec \in BOOLEAN :
              Dup3(p, old, new, cloexec)
  BY <1>7 DEF Dup3, RowWith, MarksKept
<1>8. CASE \E p \in Pids, t \in TracedFds : Dup3Fails(p, t)
  BY <1>8 DEF Dup3Fails, Row, MarksKept
<1>9. CASE \E p \in Pids, t \in TracedFds, cloexec \in BOOLEAN : FcntlDup(p, t, cloexec)
  BY <1>0, <1>9, MarkFcntlDup, FcntlDupFollows
<1>10. CASE \E p \in Pids, t \in TracedFds, cloexec \in BOOLEAN : FcntlSetFd(p, t, cloexec)
  BY <1>0, <1>10, MarkSetFd, FcntlSetFdFollows
<1>11. CASE \E p \in Pids, kind \in {"socket", "accept", "accept4"}, cloexec \in BOOLEAN :
               Simulated(p, kind, cloexec)
  BY <1>11, MarkSimulated
<1>12. CASE \E p \in Pids, cloexec \in BOOLEAN : SocketPair(p, cloexec)
  <2>1. PICK p \in Pids, cloexec \in BOOLEAN : SocketPair(p, cloexec)
    BY <1>12
  <2>2. cloexec = FALSE
    BY <2>1 DEF SocketPair, RowWith, MarksKept
  <2>3. QED
    BY <1>0, <2>1, <2>2, MarkPair, PairFollows, SocketPairIsCall DEF SocketPair
<1>13. CASE \E p \in Pids : Pipe(p)
  BY <1>0, <1>13, MarkPair, PairFollows, PipeIsCall DEF Pipe
<1>14. CASE \E p \in Pids : PipeFails(p)
  <2>1. PICK p \in Pids : PipeFails(p)
    BY <1>14
  <2>2. CallOf(p) /\ PeerInv' /\ Loses(p, {}) /\ UNCHANGED tracedVars /\ "pipe_fails" \in Kinds
    BY <1>0, <2>1, PipeFailsIsCall, PipeFailsMoves DEF PipeFails, Row
  <2>3. QED
    BY <2>2, MarkFails
<1>15. CASE \E p, child \in Pids, flags \in CloneFlags : Clone(p, child, flags)
  <2>1. PICK p, child \in Pids, flags \in CloneFlags : Clone(p, child, flags)
    BY <1>15
  <2>2. SharesFiles(flags) = ("CLONE_FILES" \in flags) /\ ("CLONE_FILES" \in flags) \in BOOLEAN
    BY DEF ThreadsShare, SharesFiles
  <2>3. UNCHANGED aborted
    BY <2>1 DEF Clone, CloneResources
  <2>4. QED
    BY <2>1, <2>2, <2>3, MarkClone DEF Clone
<1>16. CASE \E p, child \in Pids : VFork(p, child)
  BY <1>16, MarkClone DEF VFork, CloneResources
<1>17. CASE \E p \in Pids, flags \in CloneFlags : CloneFails(p, flags)
  BY <1>0, <1>17, PeersCloneFails, TableCloneFails, MarkSameViews
<1>18. CASE \E p \in Pids : Exit(p)
  BY <1>0, <1>18, PeersExit, TableExit, MarkSameViews
<1>19. CASE \E p \in Pids, returned \in {0, SYSCALL_FAILURE} : Execve(p, returned)
  BY <1>19, MarkExecve
<1>20. CASE \E p \in Pids, mode \in Modes : Umask(p, mode)
  <2>1. PICK p \in Pids, mode \in Modes : Umask(p, mode)
    BY <1>20
  <2>2. IInv' /\ UNCHANGED <<traced, file_peers, fds, aborted>>
    BY <1>0, <2>1, UmaskIsSafe DEF TableInv, Umask, TracedUmask
  <2>3. PeerInv' /\ Alive' = Alive
    BY <1>0, <2>2, PeersStutter DEF Alive
  <2>4. QED
    BY <2>2, <2>3, MarkSameViews
<1>21. CASE UNCHANGED vars
  <2>1. UNCHANGED <<tracedVars, fds, umasks, aborted>>
    BY <1>21 DEF vars, replayVars
  <2>2. TableInv'
    BY <1>0, <2>1, TableStutters
  <2>3. PeerInv' /\ Alive' = Alive /\ UNCHANGED <<traced, fds>>
    BY <1>0, <2>1, <2>2, PeersStutter DEF TableInv, Alive, tracedVars
  <2>4. QED
    BY <2>1, <2>3, MarkSameViews
<1>22. QED
  BY <1>1, <1>2, <1>3, <1>4, <1>5, <1>6, <1>7, <1>8, <1>9, <1>10, <1>11, <1>12, <1>13,
     <1>14, <1>15, <1>16, <1>17, <1>18, <1>19, <1>20, <1>21 DEF Next

LEMMA MarkIsInvariant ==
    ASSUME ThreadsShare, MarksKept
    PROVE  Spec => [](MarkInv /\ TypeInv)
<1>1. Init => MarkInv /\ TypeInv
  BY MarkInit, TypeInit
<1>2. MarkInv /\ TypeInv /\ [Next]_vars => (MarkInv /\ TypeInv)'
  BY MarkNext, TypeNext
<1>3. QED
  BY <1>1, <1>2, PTL DEF Spec

(* The O_CLOEXEC flag of an entry is that of the traced descriptor, which   *)
(* the execve module relies on, through forks, sharing, accept4 and execve. *)
(* (The calls and trace of run Processes satisfy MarksKept.)                *)
THEOREM MarksFollow == ThreadsShare /\ MarksKept => (Spec => []SameCloexec)
<1> SUFFICES ASSUME ThreadsShare, MarksKept PROVE Spec => []SameCloexec
  OBVIOUS
<1>1. ASSUME MarkInv PROVE SameCloexec
  <2>1. ASSUME NEW p \in Alive, NEW t \in DOMAIN traced[p] \cap DOMAIN Table(p)
        PROVE  O_CLOEXEC \in Table(p)[t].flags <=> traced[p][t].cloexec
    <3>1. Marked(Table(p)[t], traced[p][t])
      BY <1>1 DEF MarkInv, AllMarked, Table
    <3>2. traced[p][t].cloexec \in BOOLEAN
          /\ (O_CLOEXEC \in Table(p)[t].flags) = (traced[p][t].cloexec = TRUE)
      BY <3>1 DEF Marked
    <3>3. QED
      BY <3>2
  <2>2. QED
    BY <2>1 DEF SameCloexec
<1>2. QED
  BY <1>1, MarkIsInvariant, PTL

(* ... so that an execve drops the entries of what it closes: a table has   *)
(* the descriptors of its process in traces with execve and accept4 too.   *)
THEOREM TablesFollowExecve == ThreadsShare /\ MarksKept => (Spec => []SameDescriptors)
<1> SUFFICES ASSUME ThreadsShare, MarksKept PROVE Spec => []SameDescriptors
  OBVIOUS
<1>1. MarkInv => SameDescriptors
  BY DEF MarkInv, PeerInv, TableInv
<1>2. QED
  BY <1>1, MarkIsInvariant, PTL
-----------------------------------------------------------------------------
(***************************************************************************)
(* Files. A duplicate is of the right file only if 0 is not shared by the   *)
(* copies of a table; a call that failed here leaves an entry that says -1. *)
(* Neither happens in the traces that are Lossless: there every descriptor  *)
(* the replayer has open, beside its own, is that of a traced descriptor,   *)
(* so that there is room for another as long as the traced process has.     *)
(***************************************************************************)
NoDups ==
    {"dup", "dup2", "dup2_std", "dup2_same", "dup3", "dup3_same", "fcntl_dup"}
    \cap (Kinds \cup CloexecKinds) = {}

FileCalls == (OneTable /\ NoSimulatedDup) \/ NoDups

Roomy == ReplayLimit >= TracedLimit + Cardinality(ReplayerFds)

Lossless ==
    /\ OneTable /\ NothingSimulated /\ ~ReplayMayFail /\ Roomy
    /\ {"dup_fails", "execve"} \cap Kinds = {}

\* A call that is passed n reaches file, or is simulated.
Reach(n, file, open) ==
    \/ file = Socket /\ n = SYSCALL_SIMULATED
    \/ file # Socket /\ n \in DOMAIN open /\ open[n] = file
    \/ ~OneTable /\ n = 0
    \/ ~Lossless /\ n = SYSCALL_FAILURE

AllFiles ==
    \A q \in Alive : \A u \in DOMAIN traced[q] :
        /\ traced[q][u] \in [file : TracedFiles, cloexec : BOOLEAN]
        /\ Reach(View(fds, q)[u].fd, traced[q][u].file, open_fds)

Named(p) == {Table(p)[t].fd : t \in DOMAIN traced[p]}

AllKnown ==
    Lossless => /\ EveryOpenFdKnown
                /\ \A p \in Alive : DOMAIN open_fds \subseteq Named(p) \cup ReplayerFds

FileInv == PeerInv /\ OwnInv /\ AllFiles /\ AllKnown

\* Descriptor n is open and designates what it did.
Stays(n) ==
    Owned(n) /\ n \in DOMAIN open_fds => n \in DOMAIN open_fds' /\ open_fds'[n] = open_fds[n]

Extends ==
    /\ DOMAIN open_fds \subseteq DOMAIN open_fds'
    /\ \A n \in DOMAIN open_fds : open_fds'[n] = open_fds[n]

LEMMA StillReach ==
    ASSUME OwnInv, NEW n, NEW file, Reach(n, file, open_fds), Stays(n)
    PROVE  Reach(n, file, open_fds')
<1>1. n \in DOMAIN open_fds => Owned(n) \/ (~OneTable /\ n = 0)
  <2>1. DOMAIN open_fds \subseteq 0 .. ReplayLimit - 1 /\ ReplayLimit \in Nat
    BY ReplayAssumption DEF OwnInv, TypeInv, TypeOK
  <2>2. QED
    BY <2>1 DEF Owned
<1>2. QED
  BY <1>1 DEF Reach, Stays

LEMMA FilesGain ==
    ASSUME FileInv, NEW p, CallOf(p), NEW T, NEW e, NEW d, Gains(p, T, e, d),
           d \in [file : TracedFiles, cloexec : BOOLEAN], Reach(e.fd, d.file, open_fds'),
           \A q \in Alive : \A u \in DOMAIN traced[q] :
               fds.of[q] # fds.of[p] \/ u \notin T => Stays(View(fds, q)[u].fd)
    PROVE  AllFiles'
<1>1. Alive' = Alive
  BY DEF CallOf
<1>2. ASSUME NEW q \in Alive, NEW u \in DOMAIN traced'[q]
      PROVE  /\ traced'[q][u] \in [file : TracedFiles, cloexec : BOOLEAN]
             /\ Reach(View(fds', q)[u].fd, traced'[q][u].file, open_fds')
  <2>1. CASE fds.of[q] = fds.of[p] /\ u \in T
    BY <1>2, <2>1 DEF Gains
  <2>2. CASE fds.of[q] # fds.of[p] \/ u \notin T
    <3>1. Kept(q, u)
      BY <1>2, <2>2 DEF Gains
    <3>2. /\ traced[q][u] \in [file : TracedFiles, cloexec : BOOLEAN]
          /\ Reach(View(fds, q)[u].fd, traced[q][u].file, open_fds)
          /\ Stays(View(fds, q)[u].fd)
      BY <1>2, <2>2, <3>1 DEF Kept, FileInv, AllFiles
    <3>3. QED
      BY <3>1, <3>2, StillReach DEF Kept, FileInv
  <2>3. QED
    BY <2>1, <2>2
<1>3. QED
  BY <1>1, <1>2 DEF AllFiles, Reach, TracedFiles

LEMMA FilesLose ==
    ASSUME FileInv, NEW p, CallOf(p), NEW T, Loses(p, T),
           \A q \in Alive : \A u \in DOMAIN traced[q] :
               fds.of[q] # fds.of[p] \/ u \notin T => Stays(View(fds, q)[u].fd)
    PROVE  AllFiles'
<1>1. Alive' = Alive
  BY DEF CallOf
<1>2. ASSUME NEW q \in Alive, NEW u \in DOMAIN traced'[q]
      PROVE  /\ traced'[q][u] \in [file : TracedFiles, cloexec : BOOLEAN]
             /\ Reach(View(fds', q)[u].fd, traced'[q][u].file, open_fds')
  <2>1. Kept(q, u) /\ (fds.of[q] # fds.of[p] \/ u \notin T)
    BY <1>2 DEF Loses
  <2>2. /\ traced[q][u] \in [file : TracedFiles, cloexec : BOOLEAN]
        /\ Reach(View(fds, q)[u].fd, traced[q][u].file, open_fds)
        /\ Stays(View(fds, q)[u].fd)
    BY <1>2, <2>1 DEF Kept, FileInv, AllFiles
  <2>3. QED
    BY <2>1, <2>2, StillReach DEF Kept, FileInv
<1>3. QED
  BY <1>1, <1>2 DEF AllFiles, Reach, TracedFiles

LEMMA ExtendsStays ==
    ASSUME Extends, NEW n
    PROVE  Stays(n)
BY DEF Extends, Stays

-----------------------------------------------------------------------------
(* With one table, what p names is what each process names.                 *)
LEMMA KnownFromOne ==
    ASSUME PeerInv', OwnInv', NEW p \in Alive', OneTable,
           DOMAIN open_fds' \subseteq {View(fds', p)[t].fd : t \in DOMAIN traced'[p]} \cup ReplayerFds
    PROVE  AllKnown'
<1>1. ASSUME NEW q \in Alive'
      PROVE  View(fds', q) = View(fds', p) /\ traced'[q] = traced'[p]
  <2>1. fds'.of[q] \in DOMAIN fds'.val /\ fds'.of[p] \in DOMAIN fds'.val
    BY DEF OwnInv, TypeInv, IInv, Known, SafeHeap, NoDangling
  <2>2. fds'.of[q] = fds'.of[p]
    BY <2>1 DEF OwnInv, OneAddress
  <2>3. QED
    BY <2>2 DEF PeerInv, PeersAgree, TableInv, Grouped, View
<1>2. \A q \in Alive' : DOMAIN open_fds' \subseteq Named(q)' \cup ReplayerFds
  BY <1>1 DEF Named, Table
<1>3. IInv' /\ DOMAIN traced'[p] \subseteq DOMAIN View(fds', p)
  BY DEF PeerInv, TableInv, SameDescriptors, Table
<1>4. EveryOpenFdKnown'
  <2>1. p \in DOMAIN fds'.of
    BY <1>3 DEF IInv, Known
  <2>2. {View(fds', p)[t].fd : t \in DOMAIN traced'[p]} \subseteq all_replayed_fds(View(fds', p))
    BY <1>3 DEF all_replayed_fds
  <2>3. all_replayed_fds(View(fds', p)) \cup ReplayerFds \subseteq KnownFds(fds')
    BY <2>1 DEF KnownFds
  <2>4. QED
    BY <2>2, <2>3 DEF EveryOpenFdKnown, KnownFds
<1>5. QED
  BY <1>2, <1>4 DEF AllKnown
-----------------------------------------------------------------------------
LEMMA KnownGain ==
    ASSUME FileInv, PeerInv', OwnInv', NEW p, CallOf(p), NEW T, T # {}, NEW e, NEW d, Gains(p, T, e, d),
           Lossless => DOMAIN open_fds' \subseteq DOMAIN open_fds \cup {e.fd},
           Lossless => \A u \in DOMAIN traced[p] \cap T :
                           Table(p)[u].fd = e.fd \/ Table(p)[u].fd \notin DOMAIN open_fds'
    PROVE  AllKnown'
<1>1. CASE ~Lossless
  BY <1>1 DEF AllKnown, Lossless, Roomy
<1>2. CASE Lossless
  <2>1. p \in Alive /\ Alive' = Alive
    BY DEF CallOf
  <2>2. /\ DOMAIN traced'[p] = DOMAIN traced[p] \cup T
        /\ \A u \in T : View(fds', p)[u] = e
        /\ \A u \in DOMAIN traced[p] \ T : View(fds', p)[u] = Table(p)[u]
    BY <2>1 DEF Gains, Kept, Table
  <2>3. DOMAIN open_fds \subseteq Named(p) \cup ReplayerFds
    BY <1>2, <2>1 DEF FileInv, AllKnown
  <2>4. ASSUME NEW n \in DOMAIN open_fds', n \notin ReplayerFds
        PROVE  \E t \in DOMAIN traced'[p] : View(fds', p)[t].fd = n
    <3>1. CASE n = e.fd
      BY <2>2, <3>1
    <3>2. CASE n # e.fd
      <4>1. PICK u \in DOMAIN traced[p] : Table(p)[u].fd = n
        BY <1>2, <2>3, <2>4, <3>2 DEF Named
      <4>2. u \notin T
        BY <1>2, <2>4, <3>2, <4>1
      <4>3. QED
        BY <2>2, <4>1, <4>2
    <3>3. QED
      BY <3>1, <3>2
  <2>5. DOMAIN open_fds' \subseteq {View(fds', p)[t].fd : t \in DOMAIN traced'[p]} \cup ReplayerFds
    BY <2>4
  <2>6. p \in Alive' /\ OneTable
    BY <1>2, <2>1 DEF Lossless
  <2>7. QED
    BY <2>5, <2>6, KnownFromOne
<1>3. QED
  BY <1>1, <1>2

LEMMA KnownLose ==
    ASSUME FileInv, PeerInv', OwnInv', NEW p, CallOf(p), NEW T, Loses(p, T),
           Lossless => DOMAIN open_fds' \subseteq DOMAIN open_fds,
           Lossless => \A u \in DOMAIN traced[p] \cap T : Table(p)[u].fd \notin DOMAIN open_fds'
    PROVE  AllKnown'
<1>1. CASE ~Lossless
  BY <1>1 DEF AllKnown, Lossless, Roomy
<1>2. CASE Lossless
  <2>1. p \in Alive /\ Alive' = Alive
    BY DEF CallOf
  <2>2. /\ DOMAIN traced'[p] = DOMAIN traced[p] \ T
        /\ \A u \in DOMAIN traced[p] \ T : View(fds', p)[u] = Table(p)[u]
    BY <2>1 DEF Loses, Kept, Table
  <2>3. DOMAIN open_fds \subseteq Named(p) \cup ReplayerFds
    BY <1>2, <2>1 DEF FileInv, AllKnown
  <2>4. ASSUME NEW n \in DOMAIN open_fds', n \notin ReplayerFds
        PROVE  \E t \in DOMAIN traced'[p] : View(fds', p)[t].fd = n
    <3>1. PICK u \in DOMAIN traced[p] : Table(p)[u].fd = n
      BY <1>2, <2>3, <2>4 DEF Named
    <3>2. u \notin T
      BY <1>2, <2>4, <3>1
    <3>3. QED
      BY <2>2, <3>1, <3>2
  <2>5. DOMAIN open_fds' \subseteq {View(fds', p)[t].fd : t \in DOMAIN traced'[p]} \cup ReplayerFds
    BY <2>4
  <2>6. p \in Alive' /\ OneTable
    BY <1>2, <2>1 DEF Lossless
  <2>7. QED
    BY <2>5, <2>6, KnownFromOne
<1>3. QED
  BY <1>1, <1>2

(* While the traced process has room for a descriptor, so has the replayer. *)
LEMMA HasSpace ==
    ASSUME FileInv, Lossless, NEW p \in Alive, NEW t \in TracedFds, t \notin DOMAIN traced[p]
    PROVE  \E n \in 0 .. ReplayLimit - 1 : n \notin DOMAIN open_fds \cup ReplayerFds
<1> DEFINE D == DOMAIN traced[p]
           N == Named(p)
           all == 0 .. ReplayLimit - 1
<1>1. TracedLimit \in Nat /\ ReplayLimit \in Nat /\ ReplayerFds \subseteq all
  BY TracedAssumption, ReplayAssumption
<1>2. IsFiniteSet(TracedFds) /\ Cardinality(TracedFds) = TracedLimit
  BY <1>1, FS_Interval DEF TracedFds
<1>3. IsFiniteSet(TracedFds \ {t}) /\ Cardinality(TracedFds \ {t}) = TracedLimit - 1
  BY <1>2, FS_RemoveElement
<1>4. D \subseteq TracedFds \ {t}
  BY TracedIsKnown DEF FileInv, PeerInv
<1>5. IsFiniteSet(D) /\ Cardinality(D) <= TracedLimit - 1 /\ Cardinality(D) \in Nat
  BY <1>3, <1>4, FS_Subset, FS_CardinalityType
<1>6. IsFiniteSet(N) /\ Cardinality(N) <= Cardinality(D) /\ Cardinality(N) \in Nat
  <2> DEFINE f == [u \in D |-> Table(p)[u].fd]
  <2>1. f \in Surjection(D, N)
    BY DEF Named, Surjection
  <2> HIDE DEF f, D, N
  <2>2. QED
    BY <1>5, <2>1, FS_Surjection, FS_CardinalityType
<1>7. IsFiniteSet(all) /\ Cardinality(all) = ReplayLimit
  BY <1>1, FS_Interval
<1>8. IsFiniteSet(ReplayerFds) /\ Cardinality(ReplayerFds) \in Nat
  BY <1>1, <1>7, FS_Subset, FS_CardinalityType
<1> HIDE DEF D, N, all
<1>9. IsFiniteSet(N \cup ReplayerFds) /\ Cardinality(N \cup ReplayerFds) \in Nat
      /\ Cardinality(N \cup ReplayerFds) <= Cardinality(N) + Cardinality(ReplayerFds)
  <2>1. IsFiniteSet(N \cap ReplayerFds) /\ Cardinality(N \cap ReplayerFds) \in Nat
    BY <1>6, FS_Subset, FS_CardinalityType
  <2>2. IsFiniteSet(N \cup ReplayerFds)
        /\ Cardinality(N \cup ReplayerFds)
              = Cardinality(N) + Cardinality(ReplayerFds) - Cardinality(N \cap ReplayerFds)
    BY <1>6, <1>8, FS_Union
  <2>3. Cardinality(N \cup ReplayerFds) \in Nat
    BY <2>2, FS_CardinalityType
  <2>4. QED
    BY <1>6, <1>8, <2>1, <2>2, <2>3
<1>10. ReplayLimit >= TracedLimit + Cardinality(ReplayerFds)
  BY DEF Lossless, Roomy
<1>11. Cardinality(N \cup ReplayerFds) < ReplayLimit
  BY <1>1, <1>5, <1>6, <1>8, <1>9, <1>10
<1>12. ~(all \subseteq N \cup ReplayerFds)
  <2>1. SUFFICES ASSUME all \subseteq N \cup ReplayerFds PROVE FALSE
    OBVIOUS
  <2>2. Cardinality(all) <= Cardinality(N \cup ReplayerFds)
    BY <1>9, <2>1, FS_Subset
  <2>3. QED
    BY <1>1, <1>7, <1>9, <1>11, <2>2
<1>13. DOMAIN open_fds \subseteq N \cup ReplayerFds
  BY DEF FileInv, AllKnown, N
<1>14. QED
  BY <1>12, <1>13 DEF all

(* ... so a call that opens a descriptor works.                             *)
LEMMA NewFdWorks ==
    ASSUME FileInv, Lossless, NEW p \in Alive, NEW t \in TracedFds, t \notin DOMAIN traced[p]
    PROVE  NewFd(open_fds, ReplayLimit) \in FreeFds(open_fds, ReplayLimit)
<1>1. FreeFds(open_fds, ReplayLimit) # {}
  BY HasSpace DEF FreeFds
<1>2. QED
  BY <1>1, NewFdIsFree, ReplayAssumption

(* OpenedExtends: what a new descriptor leaves.                             *)
LEMMA OpenedExtends ==
    ASSUME NEW n, NEW file, n = SYSCALL_FAILURE \/ n \in FreeFds(open_fds, ReplayLimit),
           open_fds' = Opened(open_fds, n, file)
    PROVE  /\ Extends /\ DOMAIN open_fds' \subseteq DOMAIN open_fds \cup {n}
           /\ n # SYSCALL_FAILURE => n \in DOMAIN open_fds' /\ open_fds'[n] = file
BY DEF Opened, Put, Extends, FreeFds

LEMMA DupExtends ==
    ASSUME NEW fd, open_fds' = AfterDup(open_fds, ReplayLimit, fd)
    PROVE  LET n == DupReturns(open_fds, ReplayLimit, fd)
           IN /\ Extends /\ DOMAIN open_fds' \subseteq DOMAIN open_fds \cup {n}
              /\ fd \in DOMAIN open_fds => n = NewFd(open_fds, ReplayLimit)
              /\ n # SYSCALL_FAILURE =>
                    fd \in DOMAIN open_fds /\ n \in DOMAIN open_fds' /\ open_fds'[n] = open_fds[fd]
<1>1. CASE fd \in DOMAIN open_fds
  <2>1. NewFd(open_fds, ReplayLimit) \in FreeFds(open_fds, ReplayLimit) \cup {SYSCALL_FAILURE}
    BY NewFdTyped, ReplayAssumption
  <2>2. QED
    BY <1>1, <2>1, OpenedExtends DEF AfterDup, DupReturns
<1>2. CASE fd \notin DOMAIN open_fds
  BY <1>2 DEF AfterDup, DupReturns, Extends, EBADF
<1>3. QED
  BY <1>1, <1>2
-----------------------------------------------------------------------------
(* What is known of an entry of a live process.                            *)
LEMMA EntryIs ==
    ASSUME FileInv, NEW p \in Alive, NEW t \in DOMAIN traced[p]
    PROVE  LET n == Table(p)[t].fd IN
           /\ t \in DOMAIN Table(p) /\ has_fd(Table(p), t) /\ get_fd(Table(p), t) = n
           /\ n \in FdNumbers /\ DOMAIN open_fds \subseteq 0 .. ReplayLimit - 1
           /\ traced[p][t] \in [file : TracedFiles, cloexec : BOOLEAN]
           /\ Reach(n, traced[p][t].file, open_fds)
<1>1. t \in DOMAIN Table(p) /\ has_fd(Table(p), t) /\ get_fd(Table(p), t) = Table(p)[t].fd
  BY TracedIsKnown DEF FileInv, PeerInv, has_fd, get_fd
<1>2. Table(p)[t].fd \in FdNumbers
  BY <1>1, TableIsGood DEF FileInv, Good
<1>3. DOMAIN open_fds \subseteq 0 .. ReplayLimit - 1
  BY DEF FileInv, OwnInv, TypeInv, TypeOK
<1>4. QED
  BY <1>1, <1>2, <1>3 DEF FileInv, AllFiles, Table

(* Where all share one table, an entry says -2, or -1, or designates.       *)
LEMMA OneTableEntry ==
    ASSUME FileInv, OneTable, NEW p \in Alive, NEW t \in DOMAIN traced[p]
    PROVE  LET n == Table(p)[t].fd IN
           /\ n = SYSCALL_SIMULATED => traced[p][t].file = Socket
           /\ n \in DOMAIN open_fds => open_fds[n] = traced[p][t].file /\ traced[p][t].file # Socket
           /\ n \in DOMAIN open_fds => n \in 0 .. ReplayLimit - 1 /\ Owned(n)
           /\ Lossless => n \in DOMAIN open_fds /\ n # SYSCALL_SIMULATED
<1> DEFINE n == Table(p)[t].fd
           file == traced[p][t].file
<1>1. /\ n \in FdNumbers /\ DOMAIN open_fds \subseteq 0 .. ReplayLimit - 1
      /\ Reach(n, file, open_fds)
  BY EntryIs
<1>2. ReplayLimit \in Nat
  BY ReplayAssumption
<1> HIDE DEF n, file
<1>3. SYSCALL_SIMULATED \notin DOMAIN open_fds /\ SYSCALL_FAILURE \notin DOMAIN open_fds
  BY <1>1, <1>2 DEF SYSCALL_SIMULATED, SYSCALL_FAILURE
<1>4. n = SYSCALL_SIMULATED => file = Socket
  BY <1>1, <1>3 DEF Reach, SYSCALL_SIMULATED, SYSCALL_FAILURE
<1>5. n \in DOMAIN open_fds => open_fds[n] = file /\ file # Socket
  BY <1>1, <1>3 DEF Reach
<1>6. n \in DOMAIN open_fds => n \in 0 .. ReplayLimit - 1 /\ Owned(n)
  BY <1>1, <1>2 DEF Owned
<1>7. Lossless => n # SYSCALL_SIMULATED
  BY <1>1, FdNumbersAre DEF Lossless
<1>8. Lossless => n \in DOMAIN open_fds
  BY <1>1, <1>7 DEF Reach
<1>9. QED
  BY <1>4, <1>5, <1>6, <1>7, <1>8 DEF n, file

LEMMA FileGain ==
    ASSUME FileInv, PeerInv', OwnInv', NEW p, CallOf(p), NEW T, T # {}, NEW e, NEW d, Gains(p, T, e, d),
           d \in [file : TracedFiles, cloexec : BOOLEAN], Reach(e.fd, d.file, open_fds'),
           \A q \in Alive : \A u \in DOMAIN traced[q] :
               fds.of[q] # fds.of[p] \/ u \notin T => Stays(View(fds, q)[u].fd),
           Lossless => DOMAIN open_fds' \subseteq DOMAIN open_fds \cup {e.fd},
           Lossless => \A u \in DOMAIN traced[p] \cap T :
                           Table(p)[u].fd = e.fd \/ Table(p)[u].fd \notin DOMAIN open_fds'
    PROVE  FileInv'
BY FilesGain, KnownGain DEF FileInv

LEMMA FileLose ==
    ASSUME FileInv, PeerInv', OwnInv', NEW p, CallOf(p), NEW T, Loses(p, T),
           \A q \in Alive : \A u \in DOMAIN traced[q] :
               fds.of[q] # fds.of[p] \/ u \notin T => Stays(View(fds, q)[u].fd),
           Lossless => DOMAIN open_fds' \subseteq DOMAIN open_fds,
           Lossless => \A u \in DOMAIN traced[p] \cap T : Table(p)[u].fd \notin DOMAIN open_fds'
    PROVE  FileInv'
BY FilesLose, KnownLose DEF FileInv

-----------------------------------------------------------------------------
LEMMA FileOpen ==
    ASSUME FileInv, OwnInv', NEW p, NEW file, NEW cloexec \in BOOLEAN, NEW opens \in {TRUE, ~ReplayMayFail},
           Open(p, file, cloexec, opens)
    PROVE  FileInv'
<1> DEFINE n == IF opens THEN NewFd(open_fds, ReplayLimit) ELSE SYSCALL_FAILURE
           e == Entry(n, FlagsOf(cloexec))
           d == Descriptor(file, cloexec)
<1>1. CallOf(p) /\ p \in Alive /\ HasRoom(p, 1) /\ file \in Files /\ open_fds' = Opened(open_fds, n, file)
  BY OpenIsCall DEF CallOf, Open, FreshFiles
<1>2. PeerInv' /\ NextFd(p) \notin DOMAIN traced[p] /\ Gains(p, {NextFd(p)}, e, d)
  BY OpenMoves DEF FileInv
<1>3. NextFd(p) \in TracedFds
  BY <1>1, NextFdIsNew DEF FileInv, PeerInv
<1>4. n = SYSCALL_FAILURE \/ n \in FreeFds(open_fds, ReplayLimit)
  BY NewFdTyped, ReplayAssumption
<1>5. Lossless => n # SYSCALL_FAILURE
  <2>1. Lossless => opens = TRUE
    BY ReplayAssumption DEF Lossless
  <2>2. Lossless => NewFd(open_fds, ReplayLimit) \in FreeFds(open_fds, ReplayLimit)
    BY <1>1, <1>2, <1>3, NewFdWorks
  <2>3. FreeFds(open_fds, ReplayLimit) \subseteq Nat
    BY ReplayAssumption DEF FreeFds
  <2>4. QED
    BY <2>1, <2>2, <2>3 DEF SYSCALL_FAILURE
<1>6. d \in [file : TracedFiles, cloexec : BOOLEAN] /\ d.file = file /\ e.fd = n /\ file # Socket
  BY <1>1, TracedAssumption DEF Descriptor, TracedFiles, Entry
<1> HIDE DEF n
<1>7. /\ Extends /\ DOMAIN open_fds' \subseteq DOMAIN open_fds \cup {n}
      /\ n # SYSCALL_FAILURE => n \in DOMAIN open_fds' /\ open_fds'[n] = file
  BY <1>1, <1>4, OpenedExtends
<1>8. Reach(n, file, open_fds')
  BY <1>5, <1>6, <1>7 DEF Reach
<1> HIDE DEF e, d
<1>9. \A m : Stays(m)
  BY <1>7, ExtendsStays
<1>10. QED
  BY <1>1, <1>2, <1>6, <1>7, <1>8, <1>9, FileGain

LEMMA FileOpenFails ==
    ASSUME FileInv, OwnInv', NEW p, NEW opens, OpenFails(p, opens)
    PROVE  FileInv'
<1>1. CallOf(p) /\ PeerInv' /\ Loses(p, {}) /\ UNCHANGED open_fds
  BY OpenFailsIsCall, OpenFailsMoves DEF FileInv, OpenFails
<1>2. \A m : Stays(m)
  BY <1>1 DEF Stays
<1>3. QED
  BY <1>1, <1>2, FileLose

LEMMA FilePipeFails ==
    ASSUME FileInv, OwnInv', NEW p, PipeFails(p)
    PROVE  FileInv'
<1>1. CallOf(p) /\ PeerInv' /\ Loses(p, {}) /\ UNCHANGED open_fds
  BY PipeFailsIsCall, PipeFailsMoves DEF FileInv, PipeFails, Aborts
<1>2. \A m : Stays(m)
  BY <1>1 DEF Stays
<1>3. QED
  BY <1>1, <1>2, FileLose

LEMMA FileDupFails ==
    ASSUME FileInv, OwnInv', NEW p, NEW t, DupFails(p, t)
    PROVE  FileInv'
<1>1. CallOf(p) /\ PeerInv' /\ Loses(p, {}) /\ ~Lossless
  BY DupFailsIsCall, DupFailsMoves DEF FileInv, DupFails, Row, Lossless
<1>2. UNCHANGED open_fds \/ \E fd : open_fds' = AfterDup(open_fds, ReplayLimit, fd)
  BY DEF DupFails, Aborts
<1>3. \A m : Stays(m)
  BY <1>2, DupExtends, ExtendsStays DEF Stays
<1>4. QED
  BY <1>1, <1>3, FileLose

(* An entry that is still there is still open.                              *)
LEMMA HeldStays ==
    ASSUME OwnInv', NEW q \in Alive', NEW u \in DOMAIN View(fds', q),
           \A n \in DOMAIN open_fds' : open_fds'[n] = open_fds[n]
    PROVE  Stays(View(fds', q)[u].fd)
<1>1. fds'.of[q] \in DOMAIN fds'.val
  BY DEF OwnInv, TypeInv, IInv, Known, SafeHeap, NoDangling
<1>2. Held(fds'.val, open_fds', fds'.of[q], u)
  BY <1>1 DEF OwnInv, Holdings, Held, View
<1>3. QED
  BY <1>2 DEF Held, Stays, View

LEMMA FileClose ==
    ASSUME FileInv, OwnInv', NEW p, NEW t \in TracedFds \cup {SYSCALL_FAILURE}, Close(p, t)
    PROVE  FileInv'
<1> DEFINE fd == get_fd(Table(p), t)
<1>1. CallOf(p) /\ p \in Alive /\ Alive' = Alive
  BY CloseIsCall DEF CallOf
<1>2. PeerInv' /\ Loses(p, {t})
  BY CloseMoves DEF FileInv
<1>3. open_fds' = IF fd = SYSCALL_SIMULATED THEN open_fds ELSE Closed(open_fds, fd)
  BY DEF Close
<1> HIDE DEF fd
<1>4. /\ DOMAIN open_fds' \subseteq DOMAIN open_fds
      /\ \A n \in DOMAIN open_fds' : open_fds'[n] = open_fds[n]
      /\ fd # SYSCALL_SIMULATED => fd \notin DOMAIN open_fds'
  BY <1>3 DEF Closed, Without
<1>5. ASSUME NEW q \in Alive, NEW u \in DOMAIN traced[q], fds.of[q] # fds.of[p] \/ u \notin {t}
      PROVE  Stays(View(fds, q)[u].fd)
  <2>1. u \in DOMAIN traced'[q] /\ View(fds', q)[u] = View(fds, q)[u]
    BY <1>2, <1>5 DEF Loses, Kept
  <2>2. u \in DOMAIN View(fds', q)
    <3>1. TableInv' /\ q \in Alive'
      BY <1>1, <1>2 DEF PeerInv
    <3>2. DOMAIN traced'[q] \subseteq DOMAIN View(fds', q)
      BY <3>1 DEF TableInv, SameDescriptors, Table
    <3>3. QED
      BY <2>1, <3>2
  <2>3. QED
    BY <1>1, <1>4, <2>1, <2>2, HeldStays
<1>6. ASSUME Lossless, NEW u \in DOMAIN traced[p] \cap {t}
      PROVE  Table(p)[u].fd \notin DOMAIN open_fds'
  <2>1. fd = Table(p)[t].fd /\ u = t
    BY <1>1, <1>6, EntryIs DEF fd
  <2>2. fd # SYSCALL_SIMULATED
    BY <1>1, <1>6, <2>1, OneTableEntry DEF Lossless
  <2>3. QED
    BY <1>4, <2>1, <2>2
<1>7. QED
  BY <1>1, <1>2, <1>4, <1>5, <1>6, FileLose
-----------------------------------------------------------------------------
(* The kernel's dup of what an entry reaches reaches the same.              *)
LEMMA FileKernelDup ==
    ASSUME FileInv, OwnInv', OneTable, NEW p, CallOf(p), NEW t \in DOMAIN traced[p],
           NEW new \in TracedFds, new \notin DOMAIN traced[p], PeerInv', NEW flags, NEW cloexec \in BOOLEAN,
           Gains(p, {new}, Entry(DupReturns(open_fds, ReplayLimit, Table(p)[t].fd), flags),
                 Descriptor(traced[p][t].file, cloexec)),
           open_fds' = AfterDup(open_fds, ReplayLimit, Table(p)[t].fd)
    PROVE  FileInv'
<1> DEFINE fd == Table(p)[t].fd
           file == traced[p][t].file
           n == DupReturns(open_fds, ReplayLimit, fd)
           e == Entry(n, flags)
           d == Descriptor(file, cloexec)
<1>1. p \in Alive
  BY DEF CallOf
<1>2. /\ Extends /\ DOMAIN open_fds' \subseteq DOMAIN open_fds \cup {n}
      /\ fd \in DOMAIN open_fds => n = NewFd(open_fds, ReplayLimit)
      /\ n # SYSCALL_FAILURE =>
            fd \in DOMAIN open_fds /\ n \in DOMAIN open_fds' /\ open_fds'[n] = open_fds[fd]
  BY DupExtends
<1>3. Lossless => n # SYSCALL_FAILURE
  <2>1. Lossless => fd \in DOMAIN open_fds
    BY <1>1, OneTableEntry
  <2>2. Lossless => NewFd(open_fds, ReplayLimit) \in FreeFds(open_fds, ReplayLimit)
    BY <1>1, NewFdWorks
  <2>3. FreeFds(open_fds, ReplayLimit) \subseteq Nat
    BY ReplayAssumption DEF FreeFds
  <2>4. QED
    BY <1>2, <2>1, <2>2, <2>3 DEF SYSCALL_FAILURE
<1>4. traced[p][t] \in [file : TracedFiles, cloexec : BOOLEAN]
  BY <1>1, EntryIs
<1>5. d \in [file : TracedFiles, cloexec : BOOLEAN] /\ d.file = file /\ e.fd = n
  BY <1>4 DEF Descriptor, Entry
<1>6. fd \in DOMAIN open_fds => open_fds[fd] = file /\ file # Socket
  BY <1>1, OneTableEntry
<1>7. Gains(p, {new}, e, d)
  OBVIOUS
<1> HIDE DEF n, e, d, fd, file
<1>8. Reach(n, file, open_fds')
  BY <1>2, <1>3, <1>6 DEF Reach
<1>9. \A m : Stays(m)
  BY <1>2, ExtendsStays
<1>10. QED
  BY <1>2, <1>5, <1>7, <1>8, <1>9, FileGain

LEMMA FileDup ==
    ASSUME FileInv, OwnInv', FileCalls, NEW p, NEW t \in TracedFds, Dup(p, t)
    PROVE  FileInv'
<1>1. CallOf(p) /\ p \in Alive /\ HasRoom(p, 1) /\ t \in DOMAIN traced[p]
  BY DupIsCall DEF CallOf, Dup
<1>2. OneTable /\ NothingSimulated
  BY DEF Dup, Row, FileCalls, NoDups, NoSimulatedDup
<1>3. has_fd(Table(p), t) /\ get_fd(Table(p), t) = Table(p)[t].fd /\ Table(p)[t].fd # SYSCALL_SIMULATED
  BY <1>1, <1>2, EntryIs, FdNumbersAre
<1>4. /\ PeerInv' /\ NextFd(p) \notin DOMAIN traced[p]
      /\ Gains(p, {NextFd(p)}, Entry(DupReturns(open_fds, ReplayLimit, Table(p)[t].fd),
                                     Table(p)[t].flags \ {O_CLOEXEC}),
               Descriptor(traced[p][t].file, FALSE))
  BY <1>3, DupMoves DEF FileInv
<1>5. NextFd(p) \in TracedFds
  BY <1>1, NextFdIsNew DEF FileInv, PeerInv
<1>6. open_fds' = AfterDup(open_fds, ReplayLimit, Table(p)[t].fd)
  BY <1>3 DEF Dup
<1>7. QED
  BY <1>1, <1>2, <1>4, <1>5, <1>6, FileKernelDup

LEMMA FileFcntlDup ==
    ASSUME FileInv, OwnInv', FileCalls, NEW p, NEW t \in TracedFds, NEW cloexec \in BOOLEAN,
           FcntlDup(p, t, cloexec)
    PROVE  FileInv'
<1>1. CallOf(p) /\ p \in Alive /\ HasRoom(p, 1) /\ t \in DOMAIN traced[p]
  BY FcntlDupIsCall DEF CallOf, FcntlDup
<1>2. OneTable
  BY DEF FcntlDup, RowWith, FileCalls, NoDups
<1>3. has_fd(Table(p), t) /\ get_fd(Table(p), t) = Table(p)[t].fd
  BY <1>1, EntryIs
<1>4. /\ PeerInv' /\ NextFd(p) \notin DOMAIN traced[p]
      /\ Gains(p, {NextFd(p)}, Entry(DupReturns(open_fds, ReplayLimit, Table(p)[t].fd),
                                     (Table(p)[t].flags \ {O_CLOEXEC}) \cup FlagsOf(cloexec)),
               Descriptor(traced[p][t].file, cloexec))
  BY FcntlDupMoves DEF FileInv
<1>5. NextFd(p) \in TracedFds
  BY <1>1, NextFdIsNew DEF FileInv, PeerInv
<1>6. open_fds' = AfterDup(open_fds, ReplayLimit, Table(p)[t].fd)
  BY <1>3 DEF FcntlDup
<1>7. QED
  BY <1>1, <1>2, <1>4, <1>5, <1>6, FileKernelDup

-----------------------------------------------------------------------------
(* The number dup2 is given is below the limit, if there is room.           *)
LEMMA TargetInRange ==
    ASSUME FileInv, Lossless, NEW p \in Alive, NEW new \in TracedFds
    PROVE  Target(p, new) \in 0 .. ReplayLimit - 1
<1>1. CASE new \in DOMAIN traced[p]
  <2>1. has_fd(Table(p), new) /\ get_fd(Table(p), new) = Table(p)[new].fd
    BY <1>1, EntryIs
  <2>2. Table(p)[new].fd \in 0 .. ReplayLimit - 1 /\ Table(p)[new].fd # SYSCALL_SIMULATED
    BY <1>1, OneTableEntry DEF Lossless
  <2>3. QED
    BY <2>1, <2>2 DEF Target
<1>2. CASE new \notin DOMAIN traced[p]
  <2> DEFINE base == remove_fd_entry(Table(p), new)
             S == Updated(fds, p, base)
             unused == (0 .. ReplayLimit) \ KnownFds(S)
  <2>1. new \notin {SYSCALL_FAILURE, AT_FDCWD}
    BY TracedAssumption DEF TracedFds, SYSCALL_FAILURE, AT_FDCWD
  <2>2. ~has_fd(Table(p), new)
    BY <1>2, <2>1 DEF FileInv, PeerInv, TableInv, SameDescriptors, has_fd
  <2>3. Target(p, new) = generate_unused_fd(S)
    BY <2>2 DEF Target
  <2>4. PICK n \in 0 .. ReplayLimit - 1 : n \notin DOMAIN open_fds \cup ReplayerFds
    BY <1>2, HasSpace
  <2>5. n \notin KnownFds(S)
    <3>1. SUFFICES ASSUME n \in KnownFds(S) PROVE FALSE
      OBVIOUS
    <3>2. PICK q \in DOMAIN S.of : n \in all_replayed_fds(View(S, q))
      BY <2>4, <3>1 DEF KnownFds
    <3>3. PICK u \in DOMAIN View(S, q) : View(S, q)[u].fd = n
      BY <3>2 DEF all_replayed_fds
    <3>4. p \in DOMAIN fds.of /\ fds.of[p] \in DOMAIN fds.val
      BY DEF FileInv, OwnInv, TypeInv, IInv, Known, SafeHeap, NoDangling
    <3>5. q \in DOMAIN fds.of /\ View(S, q) = IF fds.of[q] = fds.of[p] THEN base ELSE View(fds, q)
      <4>1. SafeHeap(fds) /\ p \in DOMAIN fds.of
        BY <3>4 DEF FileInv, OwnInv, TypeInv, IInv
      <4>2. q \in DOMAIN fds.of
        BY DEF Updated
      <4>3. QED
        BY <4>1, <4>2, UpdatedViews
    <3>6. fds.of[q] \in DOMAIN fds.val
      BY <3>5 DEF FileInv, OwnInv, TypeInv, IInv, SafeHeap, NoDangling
    <3>7. u \in DOMAIN fds.val[fds.of[q]] /\ fds.val[fds.of[q]][u].fd = n
      BY <3>3, <3>5 DEF remove_fd_entry, Without, Table, View
    <3>8. Held(fds.val, open_fds, fds.of[q], u)
      BY <3>6, <3>7 DEF FileInv, OwnInv, Holdings
    <3>9. n >= 0 /\ OneTable
      BY ReplayAssumption DEF Lossless
    <3>10. Owned(n)
      BY <3>9, ReplayAssumption DEF Owned
    <3>11. QED
      BY <2>4, <3>7, <3>8, <3>10 DEF Held
  <2>6. ReplayLimit \in Nat
    BY ReplayAssumption
  <2>7. n \in unused /\ unused \subseteq Nat
    BY <2>4, <2>5, <2>6
  <2> HIDE DEF S
  <2>8. generate_unused_fd(S) = CHOOSE m \in unused : IsLowest(m, unused)
    BY DEF generate_unused_fd
  <2> HIDE DEF unused
  <2>9. \E m \in unused : IsLowest(m, unused)
    BY <2>7, LowestExists
  <2>10. IsLowest(generate_unused_fd(S), unused)
    BY <2>8, <2>9
  <2>11. generate_unused_fd(S) \in Nat /\ generate_unused_fd(S) <= n
    BY <2>7, <2>10 DEF IsLowest
  <2>12. QED
    BY <2>3, <2>6, <2>11
<1>3. QED
  BY <1>1, <1>2
-----------------------------------------------------------------------------
LEMMA OneGroup ==
    ASSUME FileInv, OneTable, NEW p \in Alive, NEW q \in Alive
    PROVE  fds.of[q] = fds.of[p] /\ View(fds, q) = Table(p)
<1>1. fds.of[q] \in DOMAIN fds.val /\ fds.of[p] \in DOMAIN fds.val
  BY DEF FileInv, OwnInv, TypeInv, IInv, Known, SafeHeap, NoDangling
<1>2. fds.of[q] = fds.of[p]
  BY <1>1 DEF FileInv, OwnInv, OneAddress
<1>3. QED
  BY <1>2 DEF View, Table

(* dup2 and dup3 make the number they are given designate what old's does,  *)
(* and no entry but new's holds that number.                               *)
LEMMA FileOnto ==
    ASSUME FileInv, OwnInv', OneTable, NEW p, CallOf(p), NEW old \in DOMAIN traced[p],
           NEW new \in TracedFds, PeerInv', NEW replayed, NEW flags, NEW d,
           \/ replayed = OntoBy2(p, old, new)
           \/ replayed = OntoBy3(p, old, new) /\ old # new,
           d \in [file : TracedFiles, cloexec : BOOLEAN], d.file = traced[p][old].file,
           Gains(p, {new}, Entry(Onto(p, old, replayed), flags), d),
           open_fds' = IF Table(p)[old].fd = SYSCALL_SIMULATED THEN open_fds
                       ELSE AfterDup2(open_fds, Table(p)[old].fd, replayed)
    PROVE  FileInv'
<1> DEFINE fd == Table(p)[old].fd
           n == Onto(p, old, replayed)
           e == Entry(n, flags)
<1>1. p \in Alive /\ get_fd(Table(p), old) = fd
  BY EntryIs DEF CallOf
<1>2. /\ fd = SYSCALL_SIMULATED => d.file = Socket
      /\ fd \in DOMAIN open_fds => open_fds[fd] = d.file /\ d.file # Socket
      /\ Lossless => fd \in DOMAIN open_fds /\ fd # SYSCALL_SIMULATED
  BY <1>1, OneTableEntry
<1>3. n = IF fd = SYSCALL_SIMULATED THEN SYSCALL_SIMULATED ELSE replayed
  BY <1>1 DEF Onto
<1>4. ReplayLimit \in Nat /\ SYSCALL_FAILURE = -1 /\ SYSCALL_SIMULATED = -2
  BY ReplayAssumption DEF SYSCALL_FAILURE, SYSCALL_SIMULATED
<1>5. Target(p, new) \in 0 .. ReplayLimit - 1
      => \A u \in DOMAIN Table(p) \ {new} : Table(p)[u].fd # Target(p, new)
  <2>1. Target(p, new) \in 0 .. ReplayLimit - 1 => Owned(Target(p, new))
    BY <1>4 DEF Owned
  <2>2. QED
    BY <1>1, <2>1, TargetIsFree DEF FileInv
<1>6. Target(p, new) \in 0 .. ReplayLimit - 1 /\ old # new => fd # Target(p, new)
  BY <1>1, <1>5, EntryIs
<1>7. /\ \/ replayed = SYSCALL_FAILURE
         \/ replayed = Target(p, new) /\ replayed \in 0 .. ReplayLimit - 1 /\ fd \in DOMAIN open_fds
      /\ Target(p, new) \in 0 .. ReplayLimit - 1 /\ fd \in DOMAIN open_fds => replayed = Target(p, new)
  BY <1>1, <1>6 DEF OntoBy2, OntoBy3, Dup2Returns, Dup3Returns, EBADF
<1>8. Lossless => replayed = Target(p, new)
  BY <1>1, <1>2, <1>7, TargetInRange
<1>9. Lossless => Target(p, new) \in 0 .. ReplayLimit - 1
  BY <1>1, TargetInRange
<1>10. Gains(p, {new}, e, d) /\ e.fd = n
  BY DEF Entry
<1>11. \A u \in DOMAIN traced[p] \ {new} : u \in DOMAIN Table(p)
  BY <1>1, EntryIs
<1>12. Lossless => \A u \in DOMAIN traced[p] \cap {new} : Table(p)[u].fd = n
  <2>1. SUFFICES ASSUME Lossless, new \in DOMAIN traced[p] PROVE Table(p)[new].fd = n
    OBVIOUS
  <2>2. has_fd(Table(p), new) /\ get_fd(Table(p), new) = Table(p)[new].fd
        /\ Table(p)[new].fd # SYSCALL_SIMULATED
    BY <1>1, <2>1, EntryIs, OneTableEntry DEF Lossless
  <2>3. Target(p, new) = Table(p)[new].fd
    BY <2>2 DEF Target
  <2>4. QED
    BY <1>2, <1>3, <1>8, <2>1, <2>3
<1> HIDE DEF n, e, fd
<1>13. /\ fd # SYSCALL_SIMULATED /\ replayed # SYSCALL_FAILURE
           => /\ DOMAIN open_fds' = DOMAIN open_fds \cup {replayed} /\ open_fds'[replayed] = open_fds[fd]
              /\ \A m \in DOMAIN open_fds \ {replayed} : open_fds'[m] = open_fds[m]
       /\ fd = SYSCALL_SIMULATED \/ replayed = SYSCALL_FAILURE => open_fds' = open_fds
  BY DEF AfterDup2, EBADF, Put, fd
<1>14. Reach(n, d.file, open_fds')
  <2>1. CASE fd = SYSCALL_SIMULATED
    BY <1>2, <1>3, <2>1 DEF Reach
  <2>2. CASE fd # SYSCALL_SIMULATED /\ replayed = SYSCALL_FAILURE
    BY <1>3, <1>8, <1>4, <1>9, <2>2 DEF Reach
  <2>3. CASE fd # SYSCALL_SIMULATED /\ replayed # SYSCALL_FAILURE
    BY <1>2, <1>3, <1>7, <1>13, <2>3 DEF Reach
  <2>4. QED
    BY <2>1, <2>2, <2>3
<1>15. ASSUME NEW q \in Alive, NEW u \in DOMAIN traced[q], fds.of[q] # fds.of[p] \/ u \notin {new}
       PROVE  Stays(View(fds, q)[u].fd)
  <2>1. u # new /\ View(fds, q) = Table(p) /\ u \in DOMAIN Table(p)
    <3>1. u # new /\ View(fds, q) = Table(p)
      BY <1>1, <1>15, OneGroup
    <3>2. u \in DOMAIN Table(q)
      BY <1>15, EntryIs
    <3>3. QED
      BY <3>1, <3>2 DEF Table
  <2>2. CASE fd = SYSCALL_SIMULATED \/ replayed = SYSCALL_FAILURE
    BY <1>13, <2>2 DEF Stays
  <2>3. CASE fd # SYSCALL_SIMULATED /\ replayed # SYSCALL_FAILURE
    BY <1>7, <1>5, <1>13, <2>1, <2>3 DEF Stays
  <2>4. QED
    BY <2>2, <2>3
<1>16. Lossless => DOMAIN open_fds' \subseteq DOMAIN open_fds \cup {e.fd}
  BY <1>3, <1>10, <1>13
<1>17. QED
  BY <1>10, <1>12, <1>14, <1>15, <1>16, FileGain

LEMMA FileDup2 ==
    ASSUME FileInv, OwnInv', FileCalls, NEW p, NEW old \in TracedFds, NEW new \in TracedFds,
           Dup2(p, old, new)
    PROVE  FileInv'
<1> DEFINE d == IF old = new THEN traced[p][old] ELSE Descriptor(traced[p][old].file, FALSE)
           flags == Table(p)[old].flags \ {O_CLOEXEC}
           replayed == OntoBy2(p, old, new)
<1>1. CallOf(p) /\ p \in Alive
  BY Dup2IsCall DEF CallOf
<1>2. OneTable
  BY DEF Dup2, Dup2Kind, Row, FileCalls, NoDups
<1>3. /\ PeerInv' /\ has_fd(Table(p), old) /\ old \in DOMAIN traced[p]
      /\ Gains(p, {new}, Entry(Onto(p, old, replayed), flags), d)
  BY Dup2Moves DEF FileInv
<1>4. get_fd(Table(p), old) = Table(p)[old].fd
      /\ traced[p][old] \in [file : TracedFiles, cloexec : BOOLEAN]
  BY <1>1, <1>3, EntryIs
<1>5. d \in [file : TracedFiles, cloexec : BOOLEAN] /\ d.file = traced[p][old].file
  BY <1>4 DEF Descriptor
<1>6. open_fds' = IF Table(p)[old].fd = SYSCALL_SIMULATED THEN open_fds
                  ELSE AfterDup2(open_fds, Table(p)[old].fd, replayed)
  BY <1>3, <1>4 DEF Dup2, DupOnto
<1> HIDE DEF d, flags
<1>7. QED
  BY <1>1, <1>2, <1>3, <1>5, <1>6, FileOnto

LEMMA FileDup3 ==
    ASSUME FileInv, OwnInv', FileCalls, NEW p, NEW old \in TracedFds, NEW new \in TracedFds,
           NEW cloexec \in BOOLEAN, Dup3(p, old, new, cloexec)
    PROVE  FileInv'
<1> DEFINE d == Descriptor(traced[p][old].file, cloexec)
           flags == Table(p)[old].flags
           replayed == OntoBy3(p, old, new)
<1>1. CallOf(p) /\ p \in Alive /\ old # new
  BY Dup3IsCall DEF CallOf, Dup3
<1>2. OneTable
  BY DEF Dup3, RowWith, FileCalls, NoDups
<1>3. /\ PeerInv' /\ has_fd(Table(p), old) /\ old \in DOMAIN traced[p]
      /\ Gains(p, {new}, Entry(Onto(p, old, replayed), flags), d)
  BY Dup3Moves DEF FileInv
<1>4. get_fd(Table(p), old) = Table(p)[old].fd
      /\ traced[p][old] \in [file : TracedFiles, cloexec : BOOLEAN]
  BY <1>1, <1>3, EntryIs
<1>5. d \in [file : TracedFiles, cloexec : BOOLEAN] /\ d.file = traced[p][old].file
  BY <1>4 DEF Descriptor
<1>6. open_fds' = IF Table(p)[old].fd = SYSCALL_SIMULATED THEN open_fds
                  ELSE AfterDup2(open_fds, Table(p)[old].fd, replayed)
  BY <1>3, <1>4 DEF Dup3, DupOnto
<1> HIDE DEF d, flags
<1>7. QED
  BY <1>1, <1>2, <1>3, <1>5, <1>6, FileOnto
-----------------------------------------------------------------------------
(* F_SETFD leaves what an entry reaches.                                    *)
LEMMA FileMark ==
    ASSUME FileInv, OwnInv', NEW p, CallOf(p), NEW t \in DOMAIN traced[p], PeerInv', NEW e, NEW d,
           Gains(p, {t}, e, d), e.fd = Table(p)[t].fd, d \in [file : TracedFiles, cloexec : BOOLEAN],
           d.file = traced[p][t].file, UNCHANGED open_fds
    PROVE  FileInv'
<1>1. p \in Alive
  BY DEF CallOf
<1>2. Reach(e.fd, d.file, open_fds')
  BY <1>1, EntryIs
<1>3. \A m : Stays(m)
  BY DEF Stays
<1>4. QED
  BY <1>2, <1>3, FileGain

LEMMA FileSetFd ==
    ASSUME FileInv, OwnInv', NEW p, NEW t \in TracedFds, NEW cloexec \in BOOLEAN, FcntlSetFd(p, t, cloexec)
    PROVE  FileInv'
<1> DEFINE e == [Table(p)[t] EXCEPT !.flags = Table(p)[t].flags \cup {O_CLOEXEC}]
           d == [traced[p][t] EXCEPT !.cloexec = cloexec]
<1>1. CallOf(p) /\ p \in Alive /\ t \in DOMAIN traced[p] /\ UNCHANGED open_fds
  BY FcntlSetFdIsCall DEF CallOf, FcntlSetFd
<1>2. t \in DOMAIN Table(p) /\ traced[p][t] \in [file : TracedFiles, cloexec : BOOLEAN]
  BY <1>1, EntryIs
<1>3. d \in [file : TracedFiles, cloexec : BOOLEAN] /\ d.file = traced[p][t].file
  BY <1>2
<1>4. TypeInv
  BY DEF FileInv, OwnInv
<1>5. Table(p)[t] \in [fd : Int, flags : SUBSET {O_CLOEXEC}]
  BY <1>1, <1>2, <1>4, AliveTables DEF TableTyped
<1>6. e.fd = Table(p)[t].fd
  BY <1>5
<1>7. CASE cloexec = TRUE
  <2>1. PeerInv' /\ Gains(p, {t}, e, d)
    BY <1>7, SetCloexecMoves DEF FileInv
  <2> HIDE DEF e, d
  <2>2. QED
    BY <1>1, <1>3, <1>6, <2>1, FileMark
<1>8. CASE cloexec = FALSE
  <2>1. PeerInv' /\ Gains(p, {t}, Table(p)[t], d)
    BY <1>8, ClearCloexecMoves DEF FileInv
  <2> HIDE DEF d
  <2>2. QED
    BY <1>1, <1>3, <2>1, FileMark
<1>9. QED
  BY <1>7, <1>8

(* An entry that says simulated is right for a socket.                      *)
LEMMA FileSimulates ==
    ASSUME FileInv, OwnInv', NEW p, CallOf(p), NEW T, T # {}, PeerInv', NEW flags,
           NEW cloexec \in BOOLEAN, ~NothingSimulated, Extends,
           Gains(p, T, Entry(SYSCALL_SIMULATED, flags), Descriptor(Socket, cloexec))
    PROVE  FileInv'
<1> DEFINE e == Entry(SYSCALL_SIMULATED, flags)
           d == Descriptor(Socket, cloexec)
<1>1. e.fd = SYSCALL_SIMULATED /\ d.file = Socket /\ d \in [file : TracedFiles, cloexec : BOOLEAN]
  BY DEF Entry, Descriptor, TracedFiles
<1>2. Gains(p, T, e, d)
  OBVIOUS
<1> HIDE DEF e, d
<1>3. ~Lossless
  BY DEF Lossless
<1>4. Reach(e.fd, d.file, open_fds')
  BY <1>1 DEF Reach
<1>5. \A m : Stays(m)
  BY ExtendsStays
<1>6. QED
  BY <1>1, <1>2, <1>3, <1>4, <1>5, FileGain

LEMMA FileSimulated ==
    ASSUME FileInv, OwnInv', NEW p, NEW kind \in {"socket", "accept", "accept4"},
           NEW cloexec \in BOOLEAN, Simulated(p, kind, cloexec), kind # "accept4" \/ NextFd(p) # 0
    PROVE  FileInv'
<1>1. CallOf(p) /\ ~NothingSimulated /\ UNCHANGED open_fds
  BY SimulatedIsCall DEF Simulated, RowWith, NothingSimulated
<1>2. PeerInv' /\ Gains(p, {NextFd(p)}, Entry(SYSCALL_SIMULATED, FlagsKept(kind, cloexec)),
                        Descriptor(Socket, cloexec))
  BY SimulatedMoves DEF FileInv
<1>3. Extends
  BY <1>1 DEF Extends
<1>4. QED
  BY <1>1, <1>2, <1>3, FileSimulates

LEMMA FileSocketPair ==
    ASSUME FileInv, OwnInv', NEW p, NEW cloexec \in BOOLEAN, SocketPair(p, cloexec)
    PROVE  FileInv'
<1>1. CallOf(p) /\ ~NothingSimulated /\ UNCHANGED open_fds
  BY SocketPairIsCall DEF SocketPair, RowWith, NothingSimulated
<1>2. HasRoom(p, 2) /\ TracedPair(p, cloexec) /\ AddPair(p)
  BY DEF SocketPair
<1>3. PeerInv' /\ Gains(p, {NextFd(p), SecondFd(p)}, Entry(SYSCALL_SIMULATED, {}), Descriptor(Socket, cloexec))
  BY <1>1, <1>2, PairMoves DEF FileInv
<1>4. Extends
  BY <1>1 DEF Extends
<1>5. QED
  BY <1>1, <1>3, <1>4, FileSimulates

LEMMA FilePipe ==
    ASSUME FileInv, OwnInv', NEW p, Pipe(p)
    PROVE  FileInv'
<1> DEFINE one == NewFd(open_fds, ReplayLimit)
           open == Put(open_fds, one, Socket)
           two == NewFd(open, ReplayLimit)
<1>1. CallOf(p) /\ ~NothingSimulated
  BY PipeIsCall DEF Pipe, Row, NothingSimulated
<1>2. HasRoom(p, 2) /\ TracedPair(p, FALSE) /\ AddPair(p)
  BY DEF Pipe
<1>3. PeerInv' /\ Gains(p, {NextFd(p), SecondFd(p)}, Entry(SYSCALL_SIMULATED, {}), Descriptor(Socket, FALSE))
  BY <1>1, <1>2, PairMoves DEF FileInv
<1>4. open_fds' = IF SYSCALL_FAILURE \in {one, two} THEN open_fds ELSE Put(open, two, Socket)
  BY DEF Pipe
<1>5. /\ one # SYSCALL_FAILURE => one \notin DOMAIN open_fds
      /\ two # SYSCALL_FAILURE => two \notin DOMAIN open
  BY NewFdTyped, ReplayAssumption DEF FreeFds
<1>6. DOMAIN open = DOMAIN open_fds \cup {one} /\ \A n \in DOMAIN open_fds \ {one} : open[n] = open_fds[n]
  BY DEF Put
<1> HIDE DEF one, open, two
<1>7. Extends
  BY <1>4, <1>5, <1>6 DEF Extends, Put
<1>8. QED
  BY <1>1, <1>3, <1>7, FileSimulates

LEMMA FileExecve ==
    ASSUME FileInv, OwnInv', MarkInv, MarksKept, NEW p, NEW returned, Execve(p, returned)
    PROVE  FileInv'
<1>1. CallOf(p) /\ UNCHANGED open_fds /\ ~Lossless
  BY ExecveIsCall DEF Execve, Row, MarksKept, Lossless
<1>2. MarkInv' /\ \E T : Loses(p, T)
  BY MarkExecve
<1>3. PICK T : Loses(p, T)
  BY <1>2
<1>4. PeerInv' /\ \A m : Stays(m)
  BY <1>1, <1>2 DEF MarkInv, Stays
<1>5. QED
  BY <1>1, <1>3, <1>4, FileLose
-----------------------------------------------------------------------------
(* What q's entries reach, in the next state.                               *)
Reached(q) ==
    \A u \in DOMAIN traced'[q] :
        /\ traced'[q][u] \in [file : TracedFiles, cloexec : BOOLEAN]
        /\ Reach(View(fds', q)[u].fd, traced'[q][u].file, open_fds')

LEMMA StillReached ==
    ASSUME FileInv, NEW q \in Alive, traced'[q] = traced[q], View(fds', q) = View(fds, q),
           \A u \in DOMAIN traced[q] : Stays(View(fds, q)[u].fd)
    PROVE  Reached(q)
<1>1. ASSUME NEW u \in DOMAIN traced[q]
      PROVE  /\ traced[q][u] \in [file : TracedFiles, cloexec : BOOLEAN]
             /\ Reach(View(fds, q)[u].fd, traced[q][u].file, open_fds')
  <2>1. /\ traced[q][u] \in [file : TracedFiles, cloexec : BOOLEAN]
        /\ Reach(View(fds, q)[u].fd, traced[q][u].file, open_fds)
    BY <1>1 DEF FileInv, AllFiles
  <2>2. QED
    BY <1>1, <2>1, StillReach DEF FileInv
<1>2. QED
  BY <1>1 DEF Reached

LEMMA ReachedAre ==
    ASSUME \A q \in Alive' : Reached(q)
    PROVE  AllFiles'
BY DEF Reached, AllFiles, Reach, TracedFiles

(* The entry of a copy reaches what the entry it was copied from does, or   *)
(* its dup() failed.                                                       *)
LEMMA CopyReaches ==
    ASSUME FileInv, ~OneTable, NEW p \in Alive, NEW u \in DOMAIN traced[p],
           open_fds' = OpenAfterCopy(Table(p))
    PROVE  Reach(CopiedTable(Table(p))[u].fd, traced[p][u].file, open_fds')
<1> DEFINE table == Table(p)
           n == table[u].fd
           copied == CopiedFd(table, u)
           file == traced[p][u].file
<1>1. TableTyped(table)
  BY AliveTables DEF FileInv, OwnInv
<1>2. u \in DOMAIN table /\ Reach(n, file, open_fds)
  BY EntryIs
<1>3. CopiedTable(table)[u].fd = copied
  BY <1>2 DEF CopiedTable, Entry
<1>4. n \in Int
  BY <1>1, <1>2 DEF TableTyped
<1>5. Extends
  BY <1>1, CopyOpens DEF Extends
<1>6. Reach(SYSCALL_FAILURE, file, open_fds')
  BY DEF Reach, Lossless
<1>7. CASE n <= 0
  <2>1. copied = n
    BY <1>1, <1>2, <1>7, CopiedFdIs
  <2>2. OwnInv /\ Stays(n)
    BY <1>5, ExtendsStays DEF FileInv
  <2> HIDE DEF n, file, copied
  <2>3. Reach(n, file, open_fds')
    BY <1>2, <2>2, StillReach
  <2>4. QED
    BY <1>3, <2>1, <2>3 DEF table, copied, file
<1>8. CASE n > 0 /\ ~Duplicated(table, u)
  BY <1>1, <1>2, <1>3, <1>6, <1>8, CopiedFdIs
<1>9. CASE Duplicated(table, u)
  <2>1. CASE copied = SYSCALL_FAILURE
    BY <1>3, <1>6, <2>1
  <2>2. CASE copied # SYSCALL_FAILURE
    <3>1. n > 0 /\ n \in DOMAIN open_fds
      BY <1>9 DEF Duplicated
    <3>2. file # Socket /\ open_fds[n] = file
      BY <1>2, <1>4, <3>1 DEF Reach, SYSCALL_SIMULATED, SYSCALL_FAILURE
    <3>3. copied \in DOMAIN open_fds' /\ open_fds'[copied] = open_fds[n]
      BY <1>1, <1>2, <1>9, <2>2, CopyOpens
    <3>4. QED
      BY <1>3, <3>2, <3>3 DEF Reach
  <2>3. QED
    BY <2>1, <2>2
<1>10. QED
  BY <1>4, <1>7, <1>8, <1>9 DEF Duplicated

LEMMA FileClone ==
    ASSUME FileInv, OwnInv', NEW parent \in Alive, NEW child \in Pids \ Alive, NEW files \in BOOLEAN,
           NEW fs, NEW share_umask, OneTable => files,
           TracedClones(parent, child, files, fs),
           CloneResources(parent, child, share_umask, files)
    PROVE  FileInv'
<1>1. /\ PeerInv' /\ Alive' = Alive \cup {child} /\ traced'[child] = traced[parent]
      /\ \A q \in Alive : traced'[q] = traced[q] /\ View(fds', q) = View(fds, q)
      /\ View(fds', child) = IF files THEN Table(parent) ELSE CopiedTable(Table(parent))
  BY PeersClone DEF FileInv
<1>2. open_fds' = IF files THEN open_fds ELSE OpenAfterCopy(Table(parent))
  BY DEF CloneResources
<1>3. TableTyped(Table(parent))
  BY AliveTables DEF FileInv, OwnInv
<1>4. Extends
  BY <1>2, <1>3, CopyOpens DEF Extends
<1>5. \A m : Stays(m)
  BY <1>4, ExtendsStays
<1>6. \A q \in Alive : Reached(q)
  BY <1>1, <1>5, StillReached
<1>7. Reached(child)
  <2>1. ASSUME NEW u \in DOMAIN traced[parent]
        PROVE  /\ traced[parent][u] \in [file : TracedFiles, cloexec : BOOLEAN]
               /\ Reach(View(fds', child)[u].fd, traced[parent][u].file, open_fds')
    <3>1. /\ traced[parent][u] \in [file : TracedFiles, cloexec : BOOLEAN]
          /\ Reach(Table(parent)[u].fd, traced[parent][u].file, open_fds)
      BY <2>1, EntryIs
    <3>2. CASE files
      BY <1>1, <1>2, <3>1, <3>2
    <3>3. CASE ~files
      BY <1>1, <1>2, <2>1, <3>1, <3>3, CopyReaches
    <3>4. QED
      BY <3>2, <3>3
  <2>2. QED
    BY <1>1, <2>1 DEF Reached
<1>8. AllFiles'
  BY <1>1, <1>6, <1>7, ReachedAre
<1>9. AllKnown'
  <2>1. CASE ~Lossless
    BY <2>1 DEF AllKnown, Lossless, Roomy
  <2>2. CASE Lossless
    <3>1. files /\ OneTable
      BY <2>2 DEF Lossless
    <3>2. DOMAIN open_fds \subseteq Named(parent) \cup ReplayerFds
      BY <2>2 DEF FileInv, AllKnown
    <3>3. parent \in Alive' /\ traced'[parent] = traced[parent] /\ View(fds', parent) = Table(parent)
      BY <1>1 DEF Table
    <3>4. DOMAIN open_fds' \subseteq {View(fds', parent)[t].fd : t \in DOMAIN traced'[parent]} \cup ReplayerFds
      BY <1>2, <3>1, <3>2, <3>3 DEF Named
    <3>5. QED
      BY <1>1, <3>1, <3>3, <3>4, KnownFromOne
  <2>3. QED
    BY <2>1, <2>2
<1>10. QED
  BY <1>1, <1>8, <1>9 DEF FileInv

LEMMA FileCloneFails ==
    ASSUME FileInv, OwnInv', NEW p, NEW flags \in CloneFlags, CloneFails(p, flags)
    PROVE  FileInv'
<1>1. /\ PeerInv' /\ Alive' = Alive /\ traced' = traced
      /\ \A q \in Alive : View(fds', q) = View(fds, q)
  BY PeersCloneFails DEF FileInv
<1>2. p \in Alive /\ open_fds' = IF SharesFiles(flags) THEN open_fds ELSE OpenAfterCopy(Table(p))
  BY DEF CloneFails, CloneResources
<1>3. TableTyped(Table(p))
  BY <1>2, AliveTables DEF FileInv, OwnInv
<1>4. Extends
  BY <1>2, <1>3, CopyOpens DEF Extends
<1>5. \A m : Stays(m)
  BY <1>4, ExtendsStays
<1>6. AllFiles'
  BY <1>1, <1>5, StillReached, ReachedAre
<1>7. AllKnown'
  <2>1. CASE ~Lossless
    BY <2>1 DEF AllKnown, Lossless, Roomy
  <2>2. CASE Lossless
    <3>1. SharesFiles(flags) /\ OneTable
      BY <2>2 DEF Lossless, OneTable, CloneFails, Row
    <3>2. DOMAIN open_fds \subseteq Named(p) \cup ReplayerFds
      BY <1>2, <2>2 DEF FileInv, AllKnown
    <3>3. p \in Alive' /\ traced'[p] = traced[p] /\ View(fds', p) = Table(p)
      BY <1>1, <1>2 DEF Table
    <3>4. DOMAIN open_fds' \subseteq {View(fds', p)[t].fd : t \in DOMAIN traced'[p]} \cup ReplayerFds
      BY <1>2, <3>1, <3>2, <3>3 DEF Named
    <3>5. QED
      BY <1>1, <3>1, <3>3, <3>4, KnownFromOne
  <2>3. QED
    BY <2>1, <2>2
<1>8. QED
  BY <1>1, <1>6, <1>7 DEF FileInv
-----------------------------------------------------------------------------
(* With one table, the exit of the last process closes what it names: the   *)
(* count is exact, unless a failed clone left a reference that is still     *)
(* there to name it.                                                       *)
LEMMA LastOneCloses ==
    ASSUME FileInv, OwnInv', OneTable, NEW p, Exit(p), Alive' = {},
           DOMAIN open_fds \subseteq Named(p) \cup ReplayerFds
    PROVE  EveryOpenFdKnown'
<1>1. /\ p \in Alive /\ Alive = {p} /\ fds' = Dropped(fds, p)
      /\ open_fds' = IF LastReference(fds, p) THEN ClosedAll(open_fds, all_replayed_fds(Table(p)))
                     ELSE open_fds
  BY DEF Exit, TracedExits, Alive, Without
<1>2. Named(p) \subseteq all_replayed_fds(Table(p))
  BY <1>1, EntryIs DEF Named, all_replayed_fds
<1>3. p \in DOMAIN fds.of /\ p # FailedPid /\ fds.of[p] \in DOMAIN fds.val
      /\ DOMAIN fds.of \ {FailedPid} = {p}
  BY <1>1, ReplayAssumption DEF FileInv, OwnInv, TypeInv, TypeOK, IInv, Known, SafeHeap, NoDangling
<1>4. /\ DOMAIN fds'.val \subseteq DOMAIN fds.val /\ DOMAIN fds'.of = DOMAIN fds.of \ {p}
      /\ \A a \in DOMAIN fds'.val : fds'.val[a] = fds.val[a]
  BY <1>1, <1>3, DroppedValues
<1>5. CASE FailedPid \in DOMAIN fds.of
  <2>1. FailedPid \in DOMAIN fds'.of
    BY <1>3, <1>4, <1>5
  <2>2. fds'.of[FailedPid] \in DOMAIN fds'.val
    BY <2>1 DEF OwnInv, TypeInv, IInv, SafeHeap, NoDangling
  <2>3. fds'.of[FailedPid] = fds.of[p]
    BY <1>3, <1>4, <2>2 DEF FileInv, OwnInv, OneAddress
  <2>4. View(fds', FailedPid) = Table(p)
    BY <1>4, <2>2, <2>3 DEF View, Table
  <2>5. all_replayed_fds(Table(p)) \cup ReplayerFds \subseteq KnownFds(fds')
    BY <2>1, <2>4 DEF KnownFds
  <2>6. DOMAIN open_fds' \subseteq DOMAIN open_fds
    BY <1>1 DEF ClosedAll
  <2>7. QED
    BY <1>2, <2>5, <2>6 DEF EveryOpenFdKnown, KnownFds
<1>6. CASE FailedPid \notin DOMAIN fds.of
  <2>1. Exact(fds) /\ DOMAIN fds.of = {p}
    BY <1>3, <1>6 DEF FileInv, OwnInv, CountsExact
  <2>2. PICK V : GoodHeap(fds, Addresses, V)
    BY <2>1 DEF Exact
  <2>3. Holders(fds, fds.of[p]) = {p} /\ fds.of[p] \in DOMAIN fds.rc
    BY <2>1, <2>2 DEF Holders, GoodHeap, Consistent, NoDangling
  <2>4. fds.rc[fds.of[p]] = 1
    BY <2>2, <2>3, FS_Singleton DEF GoodHeap, Consistent, Counted
  <2>5. LastReference(fds, p)
    BY <2>4 DEF LastReference
  <2>6. DOMAIN open_fds' \subseteq ReplayerFds
    BY <1>1, <1>2, <2>5 DEF ClosedAll
  <2>7. QED
    BY <2>6 DEF EveryOpenFdKnown, KnownFds
<1>7. QED
  BY <1>5, <1>6

LEMMA FileExit ==
    ASSUME FileInv, OwnInv', NEW p, Exit(p)
    PROVE  FileInv'
<1>1. /\ PeerInv' /\ p \in Alive /\ Alive' = Alive \ {p}
      /\ \A q \in Alive' : traced'[q] = traced[q] /\ View(fds', q) = View(fds, q)
  BY PeersExit DEF FileInv
<1>2. /\ DOMAIN open_fds' \subseteq DOMAIN open_fds
      /\ \A n \in DOMAIN open_fds' : open_fds'[n] = open_fds[n]
  BY DEF Exit, ClosedAll
<1>3. ASSUME NEW q \in Alive'
      PROVE  Reached(q)
  <2>1. q \in Alive /\ DOMAIN traced[q] \subseteq DOMAIN View(fds', q)
    BY <1>1, <1>3, EntryIs DEF Table
  <2>2. \A u \in DOMAIN traced[q] : Stays(View(fds', q)[u].fd)
    BY <1>2, <1>3, <2>1, HeldStays
  <2>3. QED
    BY <1>1, <1>3, <2>1, <2>2, StillReached
<1>4. AllFiles'
  BY <1>3, ReachedAre
<1>5. AllKnown'
  <2>1. CASE ~Lossless
    BY <2>1 DEF AllKnown, Lossless, Roomy
  <2>2. CASE Lossless /\ Alive' = {}
    <3>1. DOMAIN open_fds \subseteq Named(p) \cup ReplayerFds /\ OneTable
      BY <1>1, <2>2 DEF FileInv, AllKnown, Lossless
    <3>2. EveryOpenFdKnown'
      BY <2>2, <3>1, LastOneCloses
    <3>3. QED
      BY <2>2, <3>2 DEF AllKnown
  <2>3. CASE Lossless /\ Alive' # {}
    <3>1. PICK q \in Alive' : TRUE
      BY <2>3
    <3>2. DOMAIN open_fds \subseteq Named(q) \cup ReplayerFds /\ OneTable
      BY <1>1, <2>3, <3>1 DEF FileInv, AllKnown, Lossless
    <3>3. DOMAIN open_fds' \subseteq {View(fds', q)[t].fd : t \in DOMAIN traced'[q]} \cup ReplayerFds
      BY <1>1, <1>2, <3>1, <3>2 DEF Named, Table
    <3>4. QED
      BY <1>1, <3>1, <3>2, <3>3, KnownFromOne
  <2>4. QED
    BY <2>1, <2>2, <2>3
<1>6. QED
  BY <1>1, <1>4, <1>5 DEF FileInv

LEMMA FileStutters ==
    ASSUME FileInv, OwnInv', UNCHANGED <<traced, file_peers, fds, open_fds>>
    PROVE  FileInv'
<1>1. IInv'
  BY DEF OwnInv, TypeInv
<1>2. PeerInv' /\ Alive' = Alive
  BY <1>1, PeersStutter DEF FileInv, Alive
<1>3. AllFiles'
  BY <1>2 DEF FileInv, AllFiles, Reach, TracedFiles
<1>4. AllKnown'
  BY <1>2 DEF FileInv, AllKnown, EveryOpenFdKnown, KnownFds, Named, Table, View, Lossless, Roomy
<1>5. QED
  BY <1>2, <1>3, <1>4 DEF FileInv

LEMMA FileInit == Init => FileInv
<1> SUFFICES ASSUME Init PROVE FileInv
  OBVIOUS
<1>1. PeerInv /\ OwnInv
  BY PeersInit, OwnInit
<1>2. Alive = {Root} /\ traced[Root] = [t \in StdFds |-> Descriptor(Terminal, FALSE)]
  BY DEF Init, TracedInit, Alive
<1>3. View(fds, Root) = [t \in StdFds \cup {AT_FDCWD} |-> Entry(t, {})]
  BY SingleViews DEF Init
<1>4. DOMAIN open_fds = StdFds \cup ReplayerFds /\ \A n \in StdFds : open_fds[n] = Terminal
  BY DEF Init
<1>5. Descriptor(Terminal, FALSE) \in [file : TracedFiles, cloexec : BOOLEAN]
      /\ Descriptor(Terminal, FALSE).file = Terminal /\ Terminal # Socket
  BY TracedAssumption DEF Descriptor, TracedFiles
<1>6. AllFiles
  <2>1. ASSUME NEW u \in StdFds
        PROVE  /\ traced[Root][u] \in [file : TracedFiles, cloexec : BOOLEAN]
               /\ Reach(View(fds, Root)[u].fd, traced[Root][u].file, open_fds)
    <3>1. traced[Root][u] = Descriptor(Terminal, FALSE) /\ View(fds, Root)[u].fd = u
      BY <1>2, <1>3 DEF Entry
    <3>2. QED
      BY <1>4, <1>5, <3>1 DEF Reach
  <2>2. QED
    BY <1>2, <2>1 DEF AllFiles
<1>7. DOMAIN traced[Root] = StdFds /\ \A u \in StdFds : Table(Root)[u].fd = u /\ u \in DOMAIN Table(Root)
  BY <1>2, <1>3 DEF Entry, Table
<1>8. DOMAIN open_fds \subseteq Named(Root) \cup ReplayerFds
  BY <1>4, <1>7 DEF Named
<1>9. EveryOpenFdKnown
  <2>1. Root \in DOMAIN fds.of
    BY <1>1, <1>2 DEF OwnInv, TypeInv, IInv, Known
  <2>2. StdFds \subseteq all_replayed_fds(Table(Root))
    BY <1>7 DEF all_replayed_fds
  <2>3. all_replayed_fds(Table(Root)) \subseteq KnownFds(fds)
    BY <2>1 DEF KnownFds, Table
  <2>4. QED
    BY <1>4, <2>2, <2>3 DEF EveryOpenFdKnown, KnownFds
<1>10. QED
  BY <1>1, <1>2, <1>6, <1>8, <1>9 DEF FileInv, AllKnown
-----------------------------------------------------------------------------
LEMMA FileNext ==
    ASSUME ThreadsShare, FileCalls, OrdinaryCalls \/ (MarksKept /\ MarkInv), FileInv, [Next]_vars
    PROVE  FileInv'
<1>0. OwnInv'
  <2>1. NoSimulatedDup /\ NoStrayTables
    BY DEF FileCalls, NoDups, NoSimulatedDup, NoStrayTables
  <2>2. QED
    BY <2>1, OwnNext DEF FileInv
<1>1. CASE \E p \in Pids, f \in Files, cloexec \in BOOLEAN, opens \in {TRUE, ~ReplayMayFail} :
              Open(p, f, cloexec, opens)
  BY <1>0, <1>1, FileOpen
<1>2. CASE \E p \in Pids, opens \in BOOLEAN : OpenFails(p, opens)
  BY <1>0, <1>2, FileOpenFails
<1>3. CASE \E p \in Pids, t \in TracedFds \cup {SYSCALL_FAILURE} : Close(p, t)
  BY <1>0, <1>3, FileClose
<1>4. CASE \E p \in Pids, t \in TracedFds : Dup(p, t)
  BY <1>0, <1>4, FileDup
<1>5. CASE \E p \in Pids, t \in TracedFds \cup {SYSCALL_FAILURE} : DupFails(p, t)
  BY <1>0, <1>5, FileDupFails
<1>6. CASE \E p \in Pids, old, new \in TracedFds : Dup2(p, old, new)
  BY <1>0, <1>6, FileDup2
<1>7. CASE \E p \in Pids, old, new \in TracedFds, cloexec \in BOOLEAN :
              Dup3(p, old, new, cloexec)
  BY <1>0, <1>7, FileDup3
<1>8. CASE \E p \in Pids, t \in TracedFds : Dup3Fails(p, t)
  BY <1>8 DEF Dup3Fails, Row, OrdinaryCalls, MarksKept
<1>9. CASE \E p \in Pids, t \in TracedFds, cloexec \in BOOLEAN : FcntlDup(p, t, cloexec)
  BY <1>0, <1>9, FileFcntlDup
<1>10. CASE \E p \in Pids, t \in TracedFds, cloexec \in BOOLEAN : FcntlSetFd(p, t, cloexec)
  BY <1>0, <1>10, FileSetFd
<1>11. CASE \E p \in Pids, kind \in {"socket", "accept", "accept4"}, cloexec \in BOOLEAN :
               Simulated(p, kind, cloexec)
  <2>1. PICK p \in Pids, kind \in {"socket", "accept", "accept4"}, cloexec \in BOOLEAN :
               Simulated(p, kind, cloexec)
    BY <1>11
  <2>2. kind # "accept4" \/ NextFd(p) # 0
    <3>1. CASE OrdinaryCalls
      BY <2>1, <3>1 DEF Simulated, RowWith, OrdinaryCalls
    <3>2. CASE MarksKept /\ MarkInv
      BY <2>1, <3>2, MarkSimulated
    <3>3. QED
      BY <3>1, <3>2
  <2>3. QED
    BY <1>0, <2>1, <2>2, FileSimulated
<1>12. CASE \E p \in Pids, cloexec \in BOOLEAN : SocketPair(p, cloexec)
  BY <1>0, <1>12, FileSocketPair
<1>13. CASE \E p \in Pids : Pipe(p)
  BY <1>0, <1>13, FilePipe
<1>14. CASE \E p \in Pids : PipeFails(p)
  BY <1>0, <1>14, FilePipeFails
<1>15. CASE \E p, child \in Pids, flags \in CloneFlags : Clone(p, child, flags)
  <2>1. PICK p, child \in Pids, flags \in CloneFlags : Clone(p, child, flags)
    BY <1>15
  <2>2. SharesFiles(flags) = ("CLONE_FILES" \in flags) /\ ("CLONE_FILES" \in flags) \in BOOLEAN
    BY DEF ThreadsShare, SharesFiles
  <2>3. OneTable => SharesFiles(flags)
    BY <2>1 DEF OneTable, Clone, Row
  <2>4. QED
    BY <1>0, <2>1, <2>2, <2>3, FileClone DEF Clone
<1>16. CASE \E p, child \in Pids : VFork(p, child)
  <2>1. PICK p, child \in Pids : VFork(p, child)
    BY <1>16
  <2>2. ~OneTable
    BY <2>1 DEF OneTable, VFork, Row
  <2>3. QED
    BY <1>0, <2>1, <2>2, FileClone DEF VFork
<1>17. CASE \E p \in Pids, flags \in CloneFlags : CloneFails(p, flags)
  BY <1>0, <1>17, FileCloneFails
<1>18. CASE \E p \in Pids : Exit(p)
  BY <1>0, <1>18, FileExit
<1>19. CASE \E p \in Pids, returned \in {0, SYSCALL_FAILURE} : Execve(p, returned)
  <2>1. PICK p \in Pids, returned \in {0, SYSCALL_FAILURE} : Execve(p, returned)
    BY <1>19
  <2>2. ~OrdinaryCalls
    BY <2>1 DEF Execve, Row, OrdinaryCalls
  <2>3. QED
    BY <1>0, <2>1, <2>2, FileExecve
<1>20. CASE \E p \in Pids, mode \in Modes : Umask(p, mode)
  <2>1. UNCHANGED <<traced, file_peers, fds, open_fds>>
    BY <1>20 DEF Umask, TracedUmask
  <2>2. QED
    BY <1>0, <2>1, FileStutters
<1>21. CASE UNCHANGED vars
  <2>1. UNCHANGED <<traced, file_peers, fds, open_fds>>
    BY <1>21 DEF vars, replayVars, tracedVars
  <2>2. QED
    BY <1>0, <2>1, FileStutters
<1>22. QED
  BY <1>1, <1>2, <1>3, <1>4, <1>5, <1>6, <1>7, <1>8, <1>9, <1>10, <1>11, <1>12, <1>13,
     <1>14, <1>15, <1>16, <1>17, <1>18, <1>19, <1>20, <1>21 DEF Next

LEMMA FileIsInvariant ==
    ASSUME ThreadsShare, FileCalls, OrdinaryCalls \/ MarksKept
    PROVE  Spec => []FileInv
<1>1. CASE OrdinaryCalls
  <2>1. FileInv /\ [Next]_vars => FileInv'
    BY <1>1, FileNext
  <2>2. QED
    BY <2>1, FileInit, PTL DEF Spec
<1>2. CASE MarksKept
  <2>1. Spec => [](MarkInv /\ TypeInv)
    BY <1>2, MarkIsInvariant
  <2>2. FileInv /\ MarkInv /\ [Next]_vars => FileInv'
    BY <1>2, FileNext
  <2>3. QED
    BY <2>1, <2>2, FileInit, PTL DEF Spec
<1>3. QED
  BY <1>1, <1>2

(* What a module passes to a call on a traced descriptor designates the     *)
(* traced file, or is -1 where a call failed here: no replayed read, write  *)
(* or close reaches another file, but where copies of a table share 0.      *)
(* (Run Processes satisfies the hypotheses with forks and execve, run       *)
(* Threads with one table and every dup.)                                  *)
THEOREM FilesFollow ==
    ThreadsShare /\ FileCalls /\ (OrdinaryCalls \/ MarksKept) => (Spec => []SameFilesButStdin)
<1> SUFFICES ASSUME ThreadsShare, FileCalls, OrdinaryCalls \/ MarksKept
             PROVE  Spec => []SameFilesButStdin
  OBVIOUS
<1>1. FileInv => SameFilesButStdin
  <2>1. ASSUME FileInv, NEW p \in Alive, NEW t \in DOMAIN traced[p]
        PROVE  Designates(p, t) \/ get_fd(Table(p), t) \in {0, SYSCALL_FAILURE}
    <3>1. get_fd(Table(p), t) = Table(p)[t].fd /\ Reach(Table(p)[t].fd, traced[p][t].file, open_fds)
      BY <2>1, EntryIs
    <3>2. QED
      BY <3>1 DEF Reach, Designates
  <2>2. QED
    BY <2>1 DEF SameFilesButStdin
<1>2. QED
  BY <1>1, FileIsInvariant, PTL

LEMMA LosslessCalls ==
    ASSUME Lossless
    PROVE  FileCalls
BY DEF Lossless, FileCalls, NoSimulatedDup

(* Where all share one table and nothing is simulated or fails for lack of  *)
(* descriptors, it designates the traced file: the calls of run Threads.    *)
THEOREM FilesAreSame ==
    ThreadsShare /\ Lossless /\ (OrdinaryCalls \/ MarksKept) => (Spec => []SameFiles)
<1> SUFFICES ASSUME ThreadsShare, Lossless, OrdinaryCalls \/ MarksKept
             PROVE  Spec => []SameFiles
  OBVIOUS
<1>1. FileInv => SameFiles
  <2>1. ASSUME FileInv, NEW p \in Alive, NEW t \in DOMAIN traced[p]
        PROVE  Designates(p, t)
    <3>1. get_fd(Table(p), t) = Table(p)[t].fd
      BY <2>1, EntryIs
    <3>2. /\ Table(p)[t].fd \in DOMAIN open_fds /\ traced[p][t].file # Socket
          /\ open_fds[Table(p)[t].fd] = traced[p][t].file
      BY <2>1, OneTableEntry DEF Lossless
    <3>3. QED
      BY <3>1, <3>2 DEF Designates
  <2>2. QED
    BY <2>1 DEF SameFiles
<1>2. Spec => []FileInv
  BY LosslessCalls, FileIsInvariant
<1>3. QED
  BY <1>1, <1>2, PTL

(* ... and the manager knows every descriptor the replayer has open, to the *)
(* exit of the last process: none is left by a dup2, close or failed open.  *)
THEOREM NoDescriptorLost ==
    ThreadsShare /\ Lossless /\ (OrdinaryCalls \/ MarksKept) => (Spec => []EveryOpenFdKnown)
<1> SUFFICES ASSUME ThreadsShare, Lossless, OrdinaryCalls \/ MarksKept
             PROVE  Spec => []EveryOpenFdKnown
  OBVIOUS
<1>1. FileInv => EveryOpenFdKnown
  BY DEF FileInv, AllKnown
<1>2. Spec => []FileInv
  BY LosslessCalls, FileIsInvariant
<1>3. QED
  BY <1>1, <1>2, PTL
=============================================================================
