---------------------- MODULE ResourcesManager_proofs ----------------------
(***************************************************************************)
(* For any sets of processes, addresses, descriptors and modes: the two    *)
(* maps keep their types, their reference counts are exact, and the class  *)
(* keeps the promise of SharedResources.                                   *)
(***************************************************************************)
EXTENDS ResourcesManager, RefCounting_proofs

-----------------------------------------------------------------------------
(* A table is a function from traced descriptors to entries, and each        *)
(* operation of FileDescriptorTableEntry makes another one.                *)
LEMMA FdTableIsFunction ==
    \A f : f \in FdTable <=> DOMAIN f \subseteq TracedFds /\ f \in [DOMAIN f -> FdEntry]
<1>1. ASSUME NEW f, f \in FdTable
      PROVE  DOMAIN f \subseteq TracedFds /\ f \in [DOMAIN f -> FdEntry]
    BY <1>1 DEF FdTable
<1>2. ASSUME NEW f, DOMAIN f \subseteq TracedFds, f \in [DOMAIN f -> FdEntry]
      PROVE  f \in FdTable
    BY <1>2 DEF FdTable
<1>3. QED
    BY <1>1, <1>2

LEMMA AddKeepsTable ==
    ASSUME NEW f \in FdTable, NEW t \in TracedFds, NEW r \in ReplayedFds, NEW g \in FdFlags
    PROVE  add_fd_entry(f, t, r, g) \in FdTable
<1>1. Entry(r, g) \in FdEntry
    BY DEF Entry, FdEntry
<1>2. Put(f, t, Entry(r, g)) \in FdTable
  <2>1. DOMAIN f \subseteq TracedFds /\ f \in [DOMAIN f -> FdEntry]
    BY FdTableIsFunction
  <2>2. Put(f, t, Entry(r, g)) \in [DOMAIN f \cup {t} -> FdEntry]
    BY <1>1, <2>1 DEF Put
  <2>3. QED
    BY <2>1, <2>2, FdTableIsFunction
<1>3. QED
    BY <1>2 DEF add_fd_entry

LEMMA RemoveKeepsTable ==
    ASSUME NEW f \in FdTable, NEW t
    PROVE  remove_fd_entry(f, t) \in FdTable
<1>1. DOMAIN f \subseteq TracedFds /\ f \in [DOMAIN f -> FdEntry]
    BY FdTableIsFunction
<1>2. Without(f, t) \in [DOMAIN f \ {t} -> FdEntry]
    BY <1>1 DEF Without
<1>3. QED
    BY <1>1, <1>2, FdTableIsFunction DEF remove_fd_entry

LEMMA UpdateKeepsTable ==
    ASSUME NEW f \in FdTable, NEW t \in DOMAIN f, NEW r \in ReplayedFds
    PROVE  update_fd_entry(f, t, r) \in FdTable
<1>1. DOMAIN f \subseteq TracedFds /\ f \in [DOMAIN f -> FdEntry]
    BY FdTableIsFunction
<1>2. [f[t] EXCEPT !.fd = r] \in FdEntry
    BY <1>1 DEF FdEntry
<1>3. update_fd_entry(f, t, r) \in [DOMAIN f -> FdEntry]
    BY <1>1, <1>2 DEF update_fd_entry
<1>4. QED
    BY <1>1, <1>3, FdTableIsFunction

LEMMA FlagsKeepTable ==
    ASSUME NEW f \in FdTable, NEW t \in DOMAIN f, NEW g \in FdFlags
    PROVE  set_entry_flags(f, t, g) \in FdTable
<1>1. DOMAIN f \subseteq TracedFds /\ f \in [DOMAIN f -> FdEntry]
    BY FdTableIsFunction
<1>2. [f[t] EXCEPT !.flags = g] \in FdEntry
    BY <1>1 DEF FdEntry
<1>3. set_entry_flags(f, t, g) \in [DOMAIN f -> FdEntry]
    BY <1>1, <1>2 DEF set_entry_flags
<1>4. QED
    BY <1>1, <1>3, FdTableIsFunction

LEMMA CopyIsTable ==
    ASSUME NEW f \in FdTable, NEW c \in CopiesOf(f)
    PROVE  c \in FdTable
<1>1. c \in [DOMAIN f -> FdEntry] /\ DOMAIN f \subseteq TracedFds
    BY FdTableIsFunction DEF CopiesOf
<1>2. QED
    BY <1>1, FdTableIsFunction

LEMMA ReplayedFdsOfTable ==
    ASSUME NEW f \in FdTable
    PROVE  all_replayed_fds(f) \subseteq ReplayedFds
<1>1. f \in [DOMAIN f -> FdEntry]
    BY FdTableIsFunction
<1>2. QED
    BY <1>1 DEF all_replayed_fds, FdEntry

-----------------------------------------------------------------------------
(***************************************************************************)
(* The inductive invariant. TypeOK alone is not one: that a count never    *)
(* drops below the number of processes at an entry, and that no process    *)
(* points at an address that may be allocated again, take exact counts;    *)
(* and exact counts take the types.                                        *)
(***************************************************************************)
IInv ==
    /\ GoodHeap(fds, Addresses, FdTable)
    /\ GoodHeap(umasks, Addresses, Modes)
    /\ DOMAIN umasks.of = DOMAIN fds.of
    /\ DOMAIN fds.of \subseteq Pids
    /\ to_close \subseteq ReplayedFds

LEMMA InitIsGood == Init => IInv
<1> SUFFICES ASSUME Init PROVE IInv
    OBVIOUS
<1>1. PICK a \in Addresses, t \in FdTable : fds = Single(Root, a, t)
    BY DEF Init
<1>2. PICK m \in Addresses : umasks = Single(Root, m, 0)
    BY DEF Init
<1>3. GoodHeap(fds, Addresses, FdTable) /\ DOMAIN fds.of = {Root}
    BY <1>1, SingleIsGood
<1>4. GoodHeap(umasks, Addresses, Modes) /\ DOMAIN umasks.of = {Root}
  <2>1. PICK z \in Modes : z = 0
    BY InitialAssumption
  <2>2. GoodHeap(Single(Root, m, z), Addresses, Modes)
    BY SingleIsGood, Zenon
  <2>3. DOMAIN Single(Root, m, z).of = {Root}
    BY DEF Single, Created, Put
  <2>4. QED
    BY <1>2, <2>1, <2>2, <2>3
<1>5. QED
    BY <1>3, <1>4, PidsAssumption DEF Init, IInv

\* The four operations on one descriptor replace a table by another.
LEMMA TableChangeIsGood ==
    ASSUME IInv, NEW p \in Live, NEW f \in FdTable,
           fds' = Updated(fds, p, f), UNCHANGED <<umasks, to_close>>
    PROVE  IInv'
<1>1. GoodHeap(fds', Addresses, FdTable) /\ fds.of' = fds.of
    BY UpdatedIsGood DEF IInv, Live
<1>2. QED
    BY <1>1 DEF IInv

LEMMA CloneIsGood ==
    ASSUME IInv, NEW p \in Pids, NEW c \in Pids,
           NEW share_files \in BOOLEAN, NEW share_umask \in BOOLEAN,
           clone(p, c, share_files, share_umask)
    PROVE  IInv'
<1>0. p \in DOMAIN fds.of /\ c \notin DOMAIN fds.of /\ DOMAIN umasks.of = DOMAIN fds.of
      /\ GoodHeap(fds, Addresses, FdTable) /\ GoodHeap(umasks, Addresses, Modes)
    BY DEF clone, IInv, Live
<1>1. GoodHeap(umasks', Addresses, Modes) /\ DOMAIN umasks.of' = DOMAIN umasks.of \cup {c}
  <2>1. CASE share_umask
    <3>1. umasks' = Shared(umasks, p, c)
      BY <2>1 DEF clone, clone_umask_shared
    <3>2. QED
      BY <1>0, <3>1, SharedIsGood
  <2>2. CASE ~share_umask
    <3>1. PICK m \in Unallocated(umasks) : umasks' = Created(umasks, c, m, View(umasks, p))
      BY <2>2 DEF clone, clone_umask_copied
    <3>2. View(umasks, p) \in Modes
      BY <1>0, ViewIsTyped
    <3>3. m \in Addresses \ DOMAIN umasks.rc
      BY DEF Unallocated
    <3>4. QED
      BY <1>0, <3>1, <3>2, <3>3, CreatedIsGood
  <2>3. QED
    BY <2>1, <2>2
<1>2. GoodHeap(fds', Addresses, FdTable) /\ DOMAIN fds.of' = DOMAIN fds.of \cup {c}
  <2>1. CASE share_files
    <3>1. fds' = Shared(fds, p, c)
      BY <2>1 DEF clone, clone_fd_table_shared
    <3>2. QED
      BY <1>0, <3>1, SharedIsGood
  <2>2. CASE ~share_files
    <3>1. PICK a \in Unallocated(fds), copy \in CopiesOf(Table(p)) :
              fds' = Created(fds, c, a, copy)
      BY <2>2 DEF clone, clone_fd_table_copied
    <3>2. copy \in FdTable
      BY <1>0, ViewIsTyped, CopyIsTable DEF Table
    <3>3. a \in Addresses \ DOMAIN fds.rc
      BY DEF Unallocated
    <3>4. QED
      BY <1>0, <3>1, <3>2, <3>3, CreatedIsGood
  <2>3. QED
    BY <2>1, <2>2
<1>3. QED
    BY <1>0, <1>1, <1>2 DEF IInv, clone

LEMMA ExitIsGood ==
    ASSUME IInv, NEW p \in Pids, exit(p)
    PROVE  IInv'
<1>0. p \in DOMAIN fds.of /\ p \in DOMAIN umasks.of
    BY DEF exit, IInv, Live
<1>1. GoodHeap(umasks', Addresses, Modes) /\ DOMAIN umasks.of' = DOMAIN umasks.of \ {p}
    BY <1>0, DroppedIsGood DEF IInv, exit
<1>2. GoodHeap(fds', Addresses, FdTable) /\ DOMAIN fds.of' = DOMAIN fds.of \ {p}
    BY <1>0, DroppedIsGood DEF IInv, exit
<1>3. to_close' \subseteq ReplayedFds
  <2>1. Table(p) \in FdTable
    BY <1>0, ViewIsTyped DEF IInv, Table
  <2>2. all_replayed_fds(Table(p)) \subseteq ReplayedFds
    BY <2>1, ReplayedFdsOfTable
  <2>3. QED
    BY <2>2 DEF exit
<1>4. QED
    BY <1>1, <1>2, <1>3 DEF IInv

LEMMA NextIsGood == IInv /\ [Next]_vars => IInv'
<1> SUFFICES ASSUME IInv, [Next]_vars PROVE IInv'
    OBVIOUS
<1>0. \A p \in Live : Table(p) \in FdTable
    BY ViewIsTyped DEF IInv, Live, Table
<1>1. CASE \E p \in Pids, t \in TracedFds, r \in ReplayedFds, f \in FdFlags :
               add_fd(p, t, r, f)
    BY <1>0, <1>1, AddKeepsTable, TableChangeIsGood DEF add_fd
<1>2. CASE \E p \in Pids, t \in TracedFds : remove_fd(p, t)
    BY <1>0, <1>2, RemoveKeepsTable, TableChangeIsGood DEF remove_fd
<1>3. CASE \E p \in Pids, t \in TracedFds, r \in ReplayedFds : update_fd(p, t, r)
    BY <1>0, <1>3, UpdateKeepsTable, TableChangeIsGood DEF update_fd, has_fd
<1>4. CASE \E p \in Pids, t \in TracedFds, f \in FdFlags : set_flags(p, t, f)
    BY <1>0, <1>4, FlagsKeepTable, TableChangeIsGood DEF set_flags, has_fd
<1>5. CASE \E p, q \in Pids, share_files, share_umask \in BOOLEAN :
               clone(p, q, share_files, share_umask)
    BY <1>5, CloneIsGood
<1>6. CASE \E p \in Pids, mode \in Modes : set_umask(p, mode)
  <2>1. PICK p \in Pids, mode \in Modes : set_umask(p, mode)
    BY <1>6
  <2>2. p \in DOMAIN umasks.of /\ umasks' = Updated(umasks, p, mode)
        /\ UNCHANGED <<fds, to_close>>
    BY <2>1 DEF set_umask
  <2>3. GoodHeap(umasks', Addresses, Modes) /\ umasks.of' = umasks.of
    BY <2>2, UpdatedIsGood DEF IInv
  <2>4. QED
    BY <2>2, <2>3 DEF IInv
<1>7. CASE \E p \in Pids : exit(p)
    BY <1>7, ExitIsGood
<1>8. CASE UNCHANGED vars
    BY <1>8 DEF vars, IInv
<1>9. QED
    BY <1>1, <1>2, <1>3, <1>4, <1>5, <1>6, <1>7, <1>8 DEF Next

(* In every reachable state the heaps are well formed and their counts      *)
(* exact, for any number of processes, tables and descriptors.              *)
THEOREM Invariance == Spec => []IInv
    BY InitIsGood, NextIsGood, PTL DEF Spec

(* The manager's maps and entries keep their types, and both maps know the  *)
(* same processes.                                                         *)
THEOREM TypeCorrect == Spec => []TypeOK
<1>1. IInv => TypeOK
    BY DEF IInv, GoodHeap, IsHeap, TypeOK, Consistent, NoDangling
<1>2. QED
    BY <1>1, Invariance, PTL

(* rc_ is the number of processes that point at an entry: an entry is       *)
(* deleted with its last process, neither earlier nor never.                *)
THEOREM CountsExact == Spec => []RefCountsExact
<1>1. IInv => RefCountsExact
    BY DEF IInv, GoodHeap, RefCountsExact
<1>2. QED
    BY <1>1, Invariance, PTL

-----------------------------------------------------------------------------
(***************************************************************************)
(* ResourcesManager implements SharedResources: every call is a step of    *)
(* the groups of peers, or changes nothing they know of.                   *)
(***************************************************************************)
Group(p) == Holders(fds, fds.of[p])

-----------------------------------------------------------------------------
(* The group of a live process is the set of holders of its entry.          *)
LEMMA GroupIsHolders ==
    ASSUME IInv, NEW p \in Live
    PROVE  /\ fds.of[p] \in DOMAIN fds.rc
           /\ p \in Group(p) /\ Group(p) \subseteq Live
           /\ Group(p) \in Peers
           /\ Promise!GroupOf(p) = Group(p)
<1>1. fds.of[p] \in DOMAIN fds.rc
    BY DEF IInv, GoodHeap, Consistent, NoDangling, Live
<1>2. p \in Group(p) /\ Group(p) \subseteq Live /\ Group(p) \in Peers
    BY <1>1 DEF Group, Holders, Peers, Live
<1>3. \A g \in Peers : p \in g => g = Group(p)
    BY DEF Peers, Group, Holders
<1>4. Promise!GroupOf(p) = Group(p)
    BY <1>2, <1>3 DEF Promise!GroupOf
<1>5. QED
    BY <1>1, <1>2, <1>4

(* Two entries have no process in common, and each has one.                 *)
LEMMA GroupsDiffer ==
    ASSUME IInv, NEW a \in DOMAIN fds.rc, NEW b \in DOMAIN fds.rc, a # b
    PROVE  Holders(fds, a) # Holders(fds, b)
<1>1. PICK p \in Holders(fds, a) : TRUE
    BY DEF IInv, GoodHeap, Consistent, NoOrphan
<1>2. p \notin Holders(fds, b)
    BY <1>1 DEF Holders
<1>3. QED
    BY <1>2

LEMMA OtherGroups ==
    ASSUME IInv, NEW p \in Live
    PROVE  Peers \ {Group(p)} = {Holders(fds, b) : b \in DOMAIN fds.rc \ {fds.of[p]}}
    BY GroupIsHolders, GroupsDiffer DEF Peers, Group

-----------------------------------------------------------------------------
\* add_fd, remove_fd, update_fd and set_flags.
LEMMA TableChangeIsUpdate ==
    ASSUME IInv, NEW p \in Live, NEW f \in FdTable,
           fds' = Updated(fds, p, f), UNCHANGED to_close
    PROVE  Promise!Update(p)
<1>1. fds' = [of |-> fds.of, rc |-> fds.rc, val |-> [fds.val EXCEPT ![fds.of[p]] = f]]
    BY DEF Updated
<1>2. Peers' = Peers
    BY <1>1 DEF Peers, Holders
<1>3. /\ \A q \in Live : fds.of[q] \in DOMAIN fds.val
      /\ fds.val \in [DOMAIN fds.rc -> FdTable]
    BY DEF IInv, GoodHeap, IsHeap, Consistent, NoDangling, Live
<1>4. \A q \in Live : View(fds', q) = IF q \in Group(p) THEN f ELSE View(fds, q)
    BY <1>1, <1>3 DEF View, Group, Holders, Live
<1>5. Seen' = [q \in Live |-> IF q \in Group(p) THEN f ELSE Seen[q]]
    BY <1>1, <1>4 DEF Seen, Live, Table
<1>6. DOMAIN Seen = Live
    BY DEF Seen
<1>7. QED
    BY <1>2, <1>5, <1>6, GroupIsHolders DEF Promise!Update, Promise!Live

LEMMA SharedIsJoin ==
    ASSUME IInv, NEW p \in Live, NEW c, c \notin Live,
           fds' = Shared(fds, p, c), UNCHANGED to_close
    PROVE  Promise!Join(p, c)
<1> DEFINE a == fds.of[p]
<1>1. fds' = [of |-> Put(fds.of, c, a), rc |-> [fds.rc EXCEPT ![a] = @ + 1],
              val |-> fds.val]
    BY DEF Shared
<1>2. /\ DOMAIN fds.of' = Live \cup {c} /\ fds.of'[c] = a
      /\ \A q \in Live : fds.of'[q] = fds.of[q]
      /\ DOMAIN fds.rc' = DOMAIN fds.rc
    BY <1>1 DEF Put, Live, IInv, GoodHeap, IsHeap
<1>3. Holders(fds', a) = Group(p) \cup {c}
    BY <1>2 DEF Holders, Group, Live
<1>4. \A b \in DOMAIN fds.rc \ {a} : Holders(fds', b) = Holders(fds, b)
    BY <1>2 DEF Holders, Live
<1>5. Peers' = (Peers \ {Group(p)}) \cup {Group(p) \cup {c}}
  <2>1. Peers' = {Holders(fds', b) : b \in DOMAIN fds.rc \ {a}} \cup {Holders(fds', a)}
    BY <1>2, GroupIsHolders DEF Peers
  <2>2. {Holders(fds', b) : b \in DOMAIN fds.rc \ {a}}
          = {Holders(fds, b) : b \in DOMAIN fds.rc \ {a}}
    BY <1>4
  <2>3. QED
    BY <1>3, <2>1, <2>2, OtherGroups
<1>6. Seen' = [q \in Live \cup {c} |-> IF q = c THEN Seen[p] ELSE Seen[q]]
  <2>1. \A q \in Live \cup {c} :
            View(fds', q) = IF q = c THEN View(fds, p) ELSE View(fds, q)
    BY <1>1, <1>2 DEF View
  <2>2. QED
    BY <1>2, <2>1 DEF Seen, Live, Table
<1>7. DOMAIN Seen = Live
    BY DEF Seen
<1>8. QED
    BY <1>5, <1>6, <1>7, GroupIsHolders DEF Promise!Join, Promise!Extend, Promise!Live

LEMMA CopiedIsFork ==
    ASSUME IInv, NEW p \in Live, NEW c, c \notin Live,
           NEW a \in Unallocated(fds), NEW copy \in CopiesOf(Table(p)),
           fds' = Created(fds, c, a, copy), UNCHANGED to_close
    PROVE  Promise!Fork(p, c)
<1>1. fds' = [of |-> Put(fds.of, c, a), rc |-> Put(fds.rc, a, 1),
              val |-> Put(fds.val, a, copy)]
    BY DEF Created
<1>2. a \notin DOMAIN fds.rc
    BY DEF Unallocated
<1>3. /\ DOMAIN fds.of' = Live \cup {c} /\ fds.of'[c] = a
      /\ \A q \in Live : fds.of'[q] = fds.of[q]
      /\ DOMAIN fds.rc' = DOMAIN fds.rc \cup {a}
    BY <1>1 DEF Put, Live
<1>4. \A q \in Live : fds.of[q] \in DOMAIN fds.rc /\ DOMAIN fds.val = DOMAIN fds.rc
    BY DEF IInv, GoodHeap, IsHeap, Consistent, NoDangling, Live
<1>5. Holders(fds', a) = {c}
    BY <1>2, <1>3, <1>4 DEF Holders, Live
<1>6. \A b \in DOMAIN fds.rc : Holders(fds', b) = Holders(fds, b)
    BY <1>2, <1>3 DEF Holders, Live
<1>7. Peers' = Peers \cup {{c}}
  <2>1. Peers' = {Holders(fds', b) : b \in DOMAIN fds.rc} \cup {Holders(fds', a)}
    BY <1>3 DEF Peers
  <2>2. {Holders(fds', b) : b \in DOMAIN fds.rc} = Peers
    BY <1>6 DEF Peers
  <2>3. QED
    BY <1>5, <2>1, <2>2
<1>8. Seen' = [q \in Live \cup {c} |-> IF q = c THEN copy ELSE Seen[q]]
  <2>1. View(fds', c) = copy
    BY <1>1, <1>3 DEF View, Put
  <2>2. \A q \in Live : View(fds', q) = View(fds, q)
    BY <1>1, <1>2, <1>3, <1>4 DEF View, Put
  <2>3. QED
    BY <1>3, <2>1, <2>2 DEF Seen, Live, Table
<1>9. DOMAIN Seen = Live /\ Seen[p] = Table(p)
    BY DEF Seen
<1>10. QED
    BY <1>7, <1>8, <1>9 DEF Promise!Fork, Promise!Extend, Promise!Live

LEMMA ExitIsExit ==
    ASSUME IInv, NEW p \in Live, exit(p)
    PROVE  Promise!Exit(p)
<1> DEFINE a == fds.of[p]
<1>1. fds' = Dropped(fds, p)
    BY DEF exit
<1>2. GoodHeap(fds, Addresses, FdTable) /\ (LastReference(fds, p) <=> Group(p) = {p})
    BY DroppedIsGood DEF IInv, Live, Group
<1>3. p \in Group(p) /\ Promise!GroupOf(p) = Group(p)
    BY GroupIsHolders
<1>4. /\ DOMAIN fds.of' = Live \ {p}
      /\ \A q \in Live \ {p} : fds.of'[q] = fds.of[q]
    BY <1>1 DEF Dropped, Without, Live
<1>5. Holders(fds', a) = Group(p) \ {p}
    BY <1>4 DEF Holders, Group, Live
<1>6. \A b \in DOMAIN fds.rc \ {a} : Holders(fds', b) = Holders(fds, b)
    BY <1>4 DEF Holders, Live
<1>7. {Holders(fds', b) : b \in DOMAIN fds.rc \ {a}} = Peers \ {Group(p)}
    BY <1>6, OtherGroups
<1>8. Peers' = (Peers \ {Group(p)}) \cup ({Group(p) \ {p}} \ {{}})
  <2>1. CASE LastReference(fds, p)
    <3>1. DOMAIN fds.rc' = DOMAIN fds.rc \ {a}
      BY <1>1, <2>1 DEF Dropped, Without
    <3>2. Peers' = {Holders(fds', b) : b \in DOMAIN fds.rc \ {a}}
      BY <3>1 DEF Peers
    <3>3. QED
      BY <1>2, <1>7, <2>1, <3>2
  <2>2. CASE ~LastReference(fds, p)
    <3>1. DOMAIN fds.rc' = DOMAIN fds.rc
      BY <1>1, <1>2, <2>2 DEF Dropped, GoodHeap, IsHeap
    <3>2. Peers' = {Holders(fds', b) : b \in DOMAIN fds.rc \ {a}} \cup {Holders(fds', a)}
      BY <3>1, GroupIsHolders DEF Peers
    <3>3. Group(p) \ {p} # {}
      BY <1>2, <1>3, <2>2
    <3>4. QED
      BY <1>5, <1>7, <3>2, <3>3
  <2>3. QED
    BY <2>1, <2>2
<1>9. Seen' = [q \in Live \ {p} |-> Seen[q]]
  <2>1. ASSUME NEW q \in Live \ {p}
        PROVE  View(fds', q) = View(fds, q)
    <3>1. LastReference(fds, p) => fds.of[q] # a
      BY <1>2 DEF Group, Holders, Live
    <3>2. fds.of[q] \in DOMAIN fds.val
      BY DEF IInv, GoodHeap, IsHeap, Consistent, NoDangling, Live
    <3>3. QED
      BY <1>1, <1>4, <3>1, <3>2 DEF View, Dropped, Without
  <2>2. QED
    BY <1>4, <2>1 DEF Seen, Live, Table
<1>10. to_close' = IF Group(p) \ {p} = {} THEN all_replayed_fds(Seen[p]) ELSE {}
    BY <1>2, <1>3 DEF exit, Seen
<1>11. DOMAIN Seen = Live
    BY DEF Seen
<1>12. QED
    BY <1>3, <1>8, <1>9, <1>10, <1>11 DEF Promise!Exit, Promise!Live

-----------------------------------------------------------------------------
LEMMA InitRefines == Init => Promise!Init
<1> SUFFICES ASSUME Init PROVE Promise!Init
    OBVIOUS
<1>1. PICK a \in Addresses, t \in FdTable : fds = Single(Root, a, t)
    BY DEF Init
<1>2. /\ DOMAIN fds.of = {Root} /\ fds.of[Root] = a
      /\ DOMAIN fds.rc = {a} /\ fds.val[a] = t
    BY <1>1 DEF Single, Created, Put
<1>3. Peers = {{Root}}
  <2>1. Holders(fds, a) = {Root}
    BY <1>2 DEF Holders
  <2>2. QED
    BY <1>2, <2>1 DEF Peers
<1>4. Seen \in [{Root} -> FdTable]
    BY <1>2 DEF Seen, Live, Table, View
<1>5. QED
    BY <1>3, <1>4 DEF Promise!Init, Init

LEMMA NextRefines == IInv /\ [Next]_vars => [Promise!Next]_(Promise!vars)
<1> SUFFICES ASSUME IInv, [Next]_vars PROVE [Promise!Next]_(Promise!vars)
    OBVIOUS
<1>0. /\ DOMAIN Seen = Live
      /\ \A p \in Live : Table(p) \in FdTable
    BY ViewIsTyped DEF Seen, IInv, Live, Table
<1>1. ASSUME NEW p \in Live, NEW f \in FdTable,
             fds' = Updated(fds, p, f), UNCHANGED to_close
      PROVE  Promise!Next
    BY <1>0, <1>1, TableChangeIsUpdate DEF Promise!Next, Promise!Live
<1>2. CASE \E p \in Pids, t \in TracedFds, r \in ReplayedFds, f \in FdFlags :
               add_fd(p, t, r, f)
    BY <1>0, <1>1, <1>2, AddKeepsTable DEF add_fd
<1>3. CASE \E p \in Pids, t \in TracedFds : remove_fd(p, t)
    BY <1>0, <1>1, <1>3, RemoveKeepsTable DEF remove_fd
<1>4. CASE \E p \in Pids, t \in TracedFds, r \in ReplayedFds : update_fd(p, t, r)
    BY <1>0, <1>1, <1>4, UpdateKeepsTable DEF update_fd, has_fd
<1>5. CASE \E p \in Pids, t \in TracedFds, f \in FdFlags : set_flags(p, t, f)
    BY <1>0, <1>1, <1>5, FlagsKeepTable DEF set_flags, has_fd
<1>6. CASE \E p, q \in Pids, share_files, share_umask \in BOOLEAN :
               clone(p, q, share_files, share_umask)
  <2>1. PICK p \in Pids, q \in Pids, share_files \in BOOLEAN, share_umask \in BOOLEAN :
            clone(p, q, share_files, share_umask)
    BY <1>6
  <2>2. p \in Live /\ q \in Pids \ Live /\ UNCHANGED to_close
    BY <2>1 DEF clone
  <2>3. CASE share_files
    <3>1. Promise!Join(p, q)
      BY <2>1, <2>2, <2>3, SharedIsJoin DEF clone, clone_fd_table_shared
    <3>2. QED
      BY <1>0, <2>2, <3>1 DEF Promise!Next, Promise!Live
  <2>4. CASE ~share_files
    <3>1. Promise!Fork(p, q)
      BY <2>1, <2>2, <2>4, CopiedIsFork DEF clone, clone_fd_table_copied
    <3>2. QED
      BY <1>0, <2>2, <3>1 DEF Promise!Next, Promise!Live
  <2>5. QED
    BY <2>3, <2>4
<1>7. CASE \E p \in Pids, mode \in Modes : set_umask(p, mode)
    BY <1>7 DEF set_umask, Promise!vars, Peers, Seen, Live, Table
<1>8. CASE \E p \in Pids : exit(p)
  <2>1. PICK p \in Pids : exit(p)
    BY <1>8
  <2>2. p \in Live
    BY <2>1 DEF exit
  <2>3. QED
    BY <1>0, <2>1, <2>2, ExitIsExit DEF Promise!Next, Promise!Live
<1>9. CASE UNCHANGED vars
    BY <1>9 DEF vars, Promise!vars, Peers, Seen, Live, Table
<1>10. QED
    BY <1>2, <1>3, <1>4, <1>5, <1>6, <1>7, <1>8, <1>9 DEF Next

(* The manager keeps what SharedResources promises: a change reaches the    *)
(* processes that share a table and nobody else, and a table's descriptors  *)
(* are handed back for closing by the last process that leaves it.          *)
THEOREM Refinement == Spec => PromiseSpec
<1>1. Spec => Promise!Init /\ [][Promise!Next]_(Promise!vars)
    BY InitRefines, NextRefines, Invariance, PTL DEF Spec
<1>2. QED
    BY <1>1 DEF PromiseSpec, Promise!Spec
=============================================================================
