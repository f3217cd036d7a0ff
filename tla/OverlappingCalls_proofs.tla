----------------------- MODULE OverlappingCalls_proofs -----------------------
(***************************************************************************)
(* However many processes there are and however their calls overlap, no    *)
(* replayed descriptor is ever held in two places.                         *)
(***************************************************************************)
EXTENDS OverlappingCalls, WellFoundedInduction, TLAPS

(* A set of natural numbers has a lowest one.                              *)
LEMMA LowestExists ==
    ASSUME NEW S, S \subseteq Nat, S # {}
    PROVE  \E n \in S : IsLowest(n, S)
<1>1. PICK n \in S : \A m \in S : ~(<<m, n>> \in OpToRel(<, Nat))
  BY NatLessThanWellFounded, WFMin
<1>2. OpToRel(<, Nat) = {ss \in Nat \X Nat : ss[1] < ss[2]}
  BY DEF OpToRel
<1>3. \A m \in S : ~(m < n)
  BY <1>1, <1>2
<1>4. QED
  BY <1>3 DEF IsLowest

(* The kernel hands out a number that is not open, or none.                *)
LEMMA NewFdIsFree ==
    ASSUME NEW open, NEW limit \in Nat
    PROVE  \/ NewFd(open, limit) = SYSCALL_FAILURE
           \/ NewFd(open, limit) \in Nat \ DOMAIN open
<1> DEFINE free == FreeFds(open, limit)
<1>1. CASE free = {}
  BY <1>1 DEF NewFd
<1>2. CASE free # {}
  <2>1. free \subseteq Nat \ DOMAIN open
    BY DEF FreeFds
  <2>2. \E n \in free : IsLowest(n, free)
    BY <1>2, <2>1, LowestExists
  <2>3. (CHOOSE n \in free : IsLowest(n, free)) \in free
    BY <2>2
  <2>4. QED
    BY <1>2, <2>1, <2>3 DEF NewFd
<1>3. QED
  BY <1>1, <1>2

-----------------------------------------------------------------------------
(***************************************************************************)
(* The three kinds of places, one by one: an entry of a table, an entry of *)
(* a copy, and a call.                                                     *)
(***************************************************************************)
Entered(p, t, n) == p \in DOMAIN tables /\ t \in DOMAIN tables[p] /\ tables[p][t].fd = n
Copied(p, t, n) == p \in DOMAIN copy /\ t \in DOMAIN copy[p] /\ copy[p][t].fd = n
InHand(p, n) == p \in Pids /\ n \in hand[p]

InEntry(n) == \E p, t : Entered(p, t, n)
InCopy(n) == \E p, t : Copied(p, t, n)
InCall(n) == \E p : InHand(p, n)

\* A descriptor of the application, open, in one place if in any.
InOne(n) ==
    /\ \A p, q, t, u : Entered(p, t, n) /\ Entered(q, u, n) => p = q /\ t = u
    /\ \A p, q, t, u : Copied(p, t, n) /\ Copied(q, u, n) => p = q /\ t = u
    /\ \A p, q : InHand(p, n) /\ InHand(q, n) => p = q
    /\ ~(InEntry(n) /\ InCopy(n)) /\ ~(InEntry(n) /\ InCall(n)) /\ ~(InCopy(n) /\ InCall(n))
    /\ InEntry(n) \/ InCopy(n) \/ InCall(n) => n \in DOMAIN open_fds /\ n \notin ReplayerFds

AllInOne == \A n \in Nat : InOne(n)

(***************************************************************************)
(* What a call is about to use it holds; and a process that copies its     *)
(* table keeps it, for a child that is not there yet.                      *)
(***************************************************************************)
HoldsIts(p) ==
    /\ row[p].at = "add" /\ row[p].fd \in Nat => row[p].fd \in hand[p]
    /\ row[p].at = "onto" /\ row[p].target \in Nat => row[p].target \in hand[p]

Copies(p) ==
    row[p].at = "copy" =>
        /\ p \in Live /\ row[p].todo \subseteq DOMAIN tables[p]
        /\ row[p].child \in Pids \ Live
        /\ \A q \in Pids \ {p} : row[q].at = "copy" => row[q].child # row[p].child

IInv ==
    /\ DOMAIN row = Pids /\ DOMAIN hand = Pids /\ DOMAIN copy = Pids
    /\ ReplayerFds \subseteq DOMAIN open_fds
    /\ \A p \in Pids : HoldsIts(p) /\ Copies(p)
    /\ AllInOne

-----------------------------------------------------------------------------
(***************************************************************************)
(* How a descriptor may move in a step. It stays, or leaves for good:      *)
(***************************************************************************)
EntriesKept(n) == \A p, t : Entered(p, t, n)' => Entered(p, t, n)
CopiesKept(n) == \A p, t : Copied(p, t, n)' => Copied(p, t, n)
HandsKept(n) == \A p : InHand(p, n)' => InHand(p, n)

LEMMA Stays ==
    ASSUME NEW n, InOne(n), EntriesKept(n), CopiesKept(n), HandsKept(n),
           n \in DOMAIN open_fds => n \in DOMAIN open_fds'
    PROVE  InOne(n)'
BY DEF InOne, InEntry, InCopy, InCall, EntriesKept, CopiesKept, HandsKept

LEMMA Leaves ==
    ASSUME NEW n, InOne(n), NEW p, InHand(p, n), ~InHand(p, n)',
           EntriesKept(n), CopiesKept(n), HandsKept(n)
    PROVE  InOne(n)'
BY DEF InOne, InEntry, InCopy, InCall, EntriesKept, CopiesKept, HandsKept

(* it is new, in the hand of a call or in a copy:                          *)
LEMMA IsNew ==
    ASSUME NEW n, InOne(n), ReplayerFds \subseteq DOMAIN open_fds,
           n \notin DOMAIN open_fds, n \in DOMAIN open_fds', NEW p,
           EntriesKept(n), CopiesKept(n), \A q : InHand(q, n)' => InHand(q, n) \/ q = p
    PROVE  InOne(n)'
BY DEF InOne, InEntry, InCopy, InCall, EntriesKept, CopiesKept

LEMMA IsNewInCopy ==
    ASSUME NEW n, InOne(n), ReplayerFds \subseteq DOMAIN open_fds,
           n \notin DOMAIN open_fds, n \in DOMAIN open_fds', NEW p, NEW t,
           EntriesKept(n), HandsKept(n),
           \A q, u : Copied(q, u, n)' => Copied(q, u, n) \/ (q = p /\ u = t)
    PROVE  InOne(n)'
BY DEF InOne, InEntry, InCopy, InCall, EntriesKept, HandsKept

(* or it goes from an entry to a call, from a call to an entry, or with a  *)
(* copy to the child.                                                      *)
LEMMA EntryToCall ==
    ASSUME NEW n, InOne(n), NEW p, InEntry(n), ~InEntry(n)',
           CopiesKept(n), \A q : InHand(q, n)' => InHand(q, n) \/ q = p,
           n \in DOMAIN open_fds'
    PROVE  InOne(n)'
BY DEF InOne, InEntry, InCopy, InCall, CopiesKept

LEMMA CallToEntry ==
    ASSUME NEW n, InOne(n), NEW p, NEW t, InHand(p, n), ~InHand(p, n)',
           CopiesKept(n), HandsKept(n),
           \A q, u : Entered(q, u, n)' => Entered(q, u, n) \/ (q = p /\ u = t),
           n \in DOMAIN open_fds'
    PROVE  InOne(n)'
BY DEF InOne, InEntry, InCopy, InCall, CopiesKept, HandsKept

LEMMA CopyToEntry ==
    ASSUME NEW n, InOne(n), NEW p, NEW child, HandsKept(n),
           \A q, u : Copied(q, u, n)' => Copied(q, u, n) /\ q # p,
           \A q, u : Entered(q, u, n)' => Entered(q, u, n) \/ (q = child /\ Copied(p, u, n)),
           n \in DOMAIN open_fds => n \in DOMAIN open_fds'
    PROVE  InOne(n)'
BY DEF InOne, InEntry, InCopy, InCall, HandsKept

-----------------------------------------------------------------------------
(* A step of process p rewrites its own row and hand.                      *)
LEMMA GoesOn ==
    ASSUME IInv, NEW p \in Pids, NEW r, NEW numbers, Goes(p, r, numbers)
    PROVE  /\ DOMAIN row' = Pids /\ DOMAIN hand' = Pids
           /\ row'[p] = r /\ hand'[p] = numbers
           /\ \A q \in Pids \ {p} : row'[q] = row[q] /\ hand'[q] = hand[q]
           /\ \A q, n : InHand(q, n)' <=> IF q = p THEN n \in numbers ELSE InHand(q, n)
<1>1. /\ DOMAIN row' = Pids /\ DOMAIN hand' = Pids
      /\ row'[p] = r /\ hand'[p] = numbers
      /\ \A q \in Pids \ {p} : row'[q] = row[q] /\ hand'[q] = hand[q]
  BY DEF IInv, Goes
<1>2. QED
  BY <1>1 DEF InHand

\* It leaves the copies of the others alone when it changes no other table.
LEMMA OthersCopy ==
    ASSUME IInv, NEW p \in Pids, NEW r, NEW numbers, Goes(p, r, numbers),
           r.at # "copy", HoldsIts(p)', DOMAIN tables' \subseteq DOMAIN tables,
           \A q \in Live \ {p} : q \in Live' /\ tables'[q] = tables[q]
    PROVE  \A q \in Pids : HoldsIts(q)' /\ Copies(q)'
<1> SUFFICES ASSUME NEW q \in Pids PROVE HoldsIts(q)' /\ Copies(q)'
  OBVIOUS
<1>1. row'[p] = r /\ \A o \in Pids \ {p} : row'[o] = row[o] /\ hand'[o] = hand[o]
  BY GoesOn
<1>2. CASE q = p
  BY <1>1, <1>2 DEF Copies
<1>3. CASE q # p
  <2>1. HoldsIts(q)'
    BY <1>1, <1>3 DEF IInv, HoldsIts
  <2>2. Copies(q)'
    BY <1>1, <1>3 DEF IInv, Copies, Live
  <2>3. QED
    BY <2>1, <2>2
<1>4. QED
  BY <1>2, <1>3

(***************************************************************************)
(* The kernel may have opened a new descriptor, which is in the hand of p. *)
(***************************************************************************)
LEMMA TakesIsGood ==
    ASSUME IInv, NEW p \in Pids, NEW r, NEW new, Goes(p, r, Numbers({new})),
           new \in Nat => new \notin DOMAIN open_fds,
           DOMAIN open_fds' = DOMAIN open_fds \cup Numbers({new}),
           UNCHANGED <<tables, copy>>, r.at # "copy", HoldsIts(p)'
    PROVE  IInv'
<1>1. /\ DOMAIN row' = Pids /\ DOMAIN hand' = Pids
      /\ \A q, n : InHand(q, n)' <=> IF q = p THEN n \in Numbers({new}) ELSE InHand(q, n)
  BY GoesOn
<1>2. \A q \in Pids : HoldsIts(q)' /\ Copies(q)'
  BY OthersCopy DEF Live
<1>3. ASSUME NEW n \in Nat PROVE InOne(n)'
  <2>1. InOne(n) /\ ReplayerFds \subseteq DOMAIN open_fds
    BY DEF IInv, AllInOne
  <2>2. EntriesKept(n) /\ CopiesKept(n)
    BY DEF EntriesKept, CopiesKept, Entered, Copied
  <2>3. CASE n = new
    <3>1. n \notin DOMAIN open_fds /\ n \in DOMAIN open_fds'
      BY <2>3 DEF Numbers
    <3>2. \A q : InHand(q, n)' => InHand(q, n) \/ q = p
      BY <1>1
    <3>3. QED
      BY <2>1, <2>2, <3>1, <3>2, IsNew
  <2>4. CASE n # new
    <3>1. HandsKept(n)
      BY <1>1, <2>4 DEF HandsKept, Numbers
    <3>2. QED
      BY <2>1, <2>2, <3>1, Stays
  <2>5. QED
    BY <2>3, <2>4
<1>4. QED
  BY <1>1, <1>2, <1>3 DEF IInv, AllInOne

LEMMA OpenIsGood ==
    ASSUME IInv, NEW p, NEW file, Open(p, file) PROVE IInv'
<1> DEFINE new == NewFd(open_fds, ReplayLimit)
           r == Adding(NextFd(p), new)
<1>1. new = SYSCALL_FAILURE \/ new \in Nat \ DOMAIN open_fds
  BY NewFdIsFree, OverlapAssumption
<1>2. p \in Pids /\ Goes(p, r, Numbers({new})) /\ UNCHANGED <<tables, copy>>
  BY DEF Open, Begins, At
<1>3. DOMAIN open_fds' = DOMAIN open_fds \cup Numbers({new})
  BY <1>1 DEF Open, Opened, Put, Numbers, SYSCALL_FAILURE
<1> HIDE DEF new
<1>4. r.at = "add" /\ r.fd = new
  BY DEF Adding
<1> HIDE DEF r
<1>5. HoldsIts(p)'
  <2>1. row'[p] = r /\ hand'[p] = Numbers({new})
    BY <1>2, GoesOn
  <2>2. QED
    BY <2>1, <1>4 DEF HoldsIts, Numbers
<1>6. QED
  BY <1>1, <1>2, <1>3, <1>4, <1>5, TakesIsGood DEF SYSCALL_FAILURE

LEMMA OpenFailsIsGood ==
    ASSUME IInv, NEW p, NEW file, OpenFails(p, file) PROVE IInv'
<1> DEFINE new == NewFd(open_fds, ReplayLimit)
           r == IF new = SYSCALL_FAILURE THEN Adding(SYSCALL_FAILURE, new) ELSE Closing
<1>1. new = SYSCALL_FAILURE \/ new \in Nat \ DOMAIN open_fds
  BY NewFdIsFree, OverlapAssumption
<1>2. p \in Pids /\ Goes(p, r, Numbers({new})) /\ UNCHANGED <<tables, copy>>
  <2>1. Numbers({new}) = IF new = SYSCALL_FAILURE THEN {} ELSE {new}
    BY <1>1 DEF Numbers, SYSCALL_FAILURE
  <2>2. QED
    BY <2>1 DEF OpenFails, Begins, At
<1>3. DOMAIN open_fds' = DOMAIN open_fds \cup Numbers({new})
  BY <1>1 DEF OpenFails, Opened, Put, Numbers, SYSCALL_FAILURE
<1>4. /\ r.at \in {"add", "close"}
      /\ r.at = "add" => new = SYSCALL_FAILURE /\ r.fd = new
  BY DEF Adding, Closing
<1> HIDE DEF new, r
<1>5. HoldsIts(p)'
  <2>1. row'[p] = r
    BY <1>2, GoesOn
  <2>2. QED
    BY <2>1, <1>4 DEF HoldsIts, SYSCALL_FAILURE
<1>6. QED
  BY <1>1, <1>2, <1>3, <1>4, <1>5, TakesIsGood DEF SYSCALL_FAILURE

LEMMA DupIsGood ==
    ASSUME IInv, NEW p, NEW t, Dup(p, t) PROVE IInv'
<1> DEFINE fd == get_fd(tables[p], t)
           new == DupReturns(open_fds, ReplayLimit, fd)
           r == Adding(NextFd(p), new)
<1>1. new = SYSCALL_FAILURE \/ new \in Nat \ DOMAIN open_fds
  BY NewFdIsFree, OverlapAssumption DEF DupReturns, EBADF
<1>2. p \in Pids /\ Goes(p, r, Numbers({new})) /\ UNCHANGED <<tables, copy>>
  BY DEF Dup, Begins, At
<1>3. DOMAIN open_fds' = DOMAIN open_fds \cup Numbers({new})
  <2>1. open_fds' = AfterDup(open_fds, ReplayLimit, fd)
    BY DEF Dup
  <2>2. CASE fd \in DOMAIN open_fds
    <3>1. new = NewFd(open_fds, ReplayLimit) /\ open_fds' = Opened(open_fds, new, open_fds[fd])
      BY <2>1, <2>2 DEF AfterDup, DupReturns
    <3>2. QED
      BY <1>1, <3>1 DEF Opened, Put, Numbers, SYSCALL_FAILURE
  <2>3. CASE fd \notin DOMAIN open_fds
    BY <2>1, <2>3 DEF AfterDup, DupReturns, EBADF, Numbers, SYSCALL_FAILURE
  <2>4. QED
    BY <2>2, <2>3
<1> HIDE DEF new
<1>4. r.at = "add" /\ r.fd = new
  BY DEF Adding
<1> HIDE DEF r
<1>5. HoldsIts(p)'
  <2>1. row'[p] = r /\ hand'[p] = Numbers({new})
    BY <1>2, GoesOn
  <2>2. QED
    BY <2>1, <1>4 DEF HoldsIts, Numbers
<1>6. QED
  BY <1>1, <1>2, <1>3, <1>4, <1>5, TakesIsGood DEF SYSCALL_FAILURE

(***************************************************************************)
(* An entry is removed, and what it held is in the hand of p.              *)
(***************************************************************************)
LEMMA RemovesIsGood ==
    ASSUME IInv, NEW p \in Pids, p \in Live, NEW t, NEW r,
           tables' = [tables EXCEPT ![p] = remove_fd_entry(@, t)],
           Goes(p, r, Numbers({get_fd(tables[p], t)})),
           UNCHANGED <<open_fds, copy>>, r.at # "copy", HoldsIts(p)'
    PROVE  IInv'
<1> DEFINE fd == get_fd(tables[p], t)
<1>1. /\ DOMAIN row' = Pids /\ DOMAIN hand' = Pids
      /\ \A q, n : InHand(q, n)' <=> IF q = p THEN n \in Numbers({fd}) ELSE InHand(q, n)
  BY GoesOn
<1>2. /\ DOMAIN tables' = DOMAIN tables
      /\ \A q \in DOMAIN tables \ {p} : tables'[q] = tables[q]
      /\ tables'[p] = Without(tables[p], t)
  BY DEF Live, remove_fd_entry
<1>3. \A q \in Pids : HoldsIts(q)' /\ Copies(q)'
  BY <1>2, OthersCopy DEF Live
<1>4. ASSUME NEW n \in Nat PROVE InOne(n)'
  <2>1. InOne(n) /\ CopiesKept(n)
    BY DEF IInv, AllInOne, CopiesKept, Copied
  <2>2. \A q, u : Entered(q, u, n)' => Entered(q, u, n) /\ ~(q = p /\ u = t)
    BY <1>2 DEF Entered, Without
  <2>3. CASE n = fd
    <3>1. Entered(p, t, n)
      BY <2>3 DEF get_fd, has_fd, Entered, Live, SYSCALL_FAILURE
    <3>2. InEntry(n) /\ ~InEntry(n)' /\ n \in DOMAIN open_fds'
      BY <2>1, <2>2, <3>1 DEF InEntry, InOne
    <3>3. \A q : InHand(q, n)' => InHand(q, n) \/ q = p
      BY <1>1
    <3>4. QED
      BY <2>1, <3>2, <3>3, EntryToCall
  <2>4. CASE n # fd
    <3>1. HandsKept(n) /\ EntriesKept(n)
      BY <1>1, <2>2, <2>4 DEF HandsKept, EntriesKept, Numbers
    <3>2. QED
      BY <2>1, <3>1, Stays
  <2>5. QED
    BY <2>3, <2>4
<1>5. QED
  BY <1>1, <1>3, <1>4 DEF IInv, AllInOne

LEMMA CloseIsGood ==
    ASSUME IInv, NEW p, NEW t, Close(p, t) PROVE IInv'
<1>1. p \in Pids /\ p \in Live /\ Closing.at = "close"
  BY DEF Close, Begins, At, Closing
<1>2. Goes(p, Closing, Numbers({get_fd(tables[p], t)}))
  BY DEF Close
<1>3. HoldsIts(p)'
  BY <1>1, <1>2, GoesOn DEF HoldsIts
<1>4. QED
  BY <1>1, <1>2, <1>3, RemovesIsGood DEF Close

LEMMA Dup2OverIsGood ==
    ASSUME IInv, NEW p, NEW old, NEW new, Dup2Over(p, old, new) PROVE IInv'
<1> DEFINE target == get_fd(tables[p], new)
           r == Onto(get_fd(tables[p], old), new, target)
<1>1. p \in Pids /\ p \in Live /\ Goes(p, r, Numbers({target}))
  BY DEF Dup2Over, Begins, At
<1>2. r.at = "onto" /\ r.target = target
  BY DEF Onto
<1>3. HoldsIts(p)'
  <2> HIDE DEF r
  <2>1. row'[p] = r /\ hand'[p] = Numbers({target})
    BY <1>1, GoesOn
  <2>2. QED
    BY <2>1, <1>2 DEF HoldsIts, Numbers
<1>4. r.at # "copy"
  BY <1>2
<1>5. /\ tables' = [tables EXCEPT ![p] = remove_fd_entry(@, new)]
      /\ UNCHANGED <<open_fds, copy>>
  BY DEF Dup2Over
<1> HIDE DEF r
<1>6. QED
  BY <1>1, <1>3, <1>4, <1>5, RemovesIsGood

\* dup2 takes the number that p holds.
LEMMA Dup2CallIsGood ==
    ASSUME IInv, NEW p, Dup2Call(p) PROVE IInv'
<1> DEFINE target == row[p].target
           new == Dup2Returns(open_fds, ReplayLimit, row[p].old_fd, target)
           r == Adding(row[p].new, new)
<1>1. /\ p \in Pids /\ row[p].at = "onto" /\ Goes(p, r, Numbers({new}))
      /\ UNCHANGED <<tables, copy>>
  BY DEF Dup2Call, At
<1>2. new \in Nat => new = target /\ new \in hand[p]
  BY <1>1, OverlapAssumption DEF Dup2Returns, EBADF, SYSCALL_FAILURE, IInv, HoldsIts
<1>3. DOMAIN open_fds \subseteq DOMAIN open_fds'
  BY DEF Dup2Call, AfterDup2, Put
<1> HIDE DEF new
<1>4. r.at = "add" /\ r.fd = new
  BY DEF Adding
<1> HIDE DEF r
<1>5. /\ DOMAIN row' = Pids /\ DOMAIN hand' = Pids
      /\ row'[p] = r /\ hand'[p] = Numbers({new})
      /\ \A q, n : InHand(q, n)' <=> IF q = p THEN n \in Numbers({new}) ELSE InHand(q, n)
  BY <1>1, GoesOn
<1>6. HoldsIts(p)'
  BY <1>4, <1>5 DEF HoldsIts, Numbers
<1>7. \A q \in Pids : HoldsIts(q)' /\ Copies(q)'
  BY <1>1, <1>4, <1>6, OthersCopy DEF Live
<1>8. ASSUME NEW n \in Nat PROVE InOne(n)'
  <2>1. InOne(n) /\ EntriesKept(n) /\ CopiesKept(n)
    BY <1>1 DEF IInv, AllInOne, EntriesKept, CopiesKept, Entered, Copied
  <2>2. HandsKept(n)
    BY <1>1, <1>2, <1>5 DEF HandsKept, InHand, Numbers
  <2>3. QED
    BY <2>1, <2>2, <1>3, Stays
<1>9. QED
  BY <1>3, <1>5, <1>7, <1>8, <1>1 DEF IInv, AllInOne

\* What a call holds it enters into its own table.
LEMMA AddIsGood ==
    ASSUME IInv, NEW p, Add(p) PROVE IInv'
<1> DEFINE t == row[p].traced_fd
           fd == row[p].fd
<1>1. /\ p \in Pids /\ row[p].at = "add" /\ Goes(p, Idle, {}) /\ Idle.at = "idle"
      /\ UNCHANGED <<open_fds, copy>>
  BY DEF Add, At, Idle
<1>2. /\ DOMAIN row' = Pids /\ DOMAIN hand' = Pids /\ row'[p] = Idle
      /\ \A q, n : InHand(q, n)' <=> IF q = p THEN n \in {} ELSE InHand(q, n)
  BY <1>1, GoesOn
<1>3. /\ DOMAIN tables' = DOMAIN tables
      /\ \A q \in DOMAIN tables \ {p} : tables'[q] = tables[q]
      /\ p \in DOMAIN tables => tables'[p] = add_fd_entry(tables[p], t, fd, {})
  BY DEF Add
<1>4. HoldsIts(p)'
  BY <1>1, <1>2 DEF HoldsIts
<1>5. \A q \in Pids : HoldsIts(q)' /\ Copies(q)'
  BY <1>1, <1>3, <1>4, OthersCopy DEF Live
<1>6. ASSUME NEW n \in Nat PROVE InOne(n)'
  <2>1. InOne(n) /\ CopiesKept(n) /\ HandsKept(n)
    BY <1>1, <1>2 DEF IInv, AllInOne, CopiesKept, Copied, HandsKept
  <2>2. \A q, u : Entered(q, u, n)' => Entered(q, u, n) \/ (q = p /\ u = t /\ n = fd)
    BY <1>3 DEF Entered, add_fd_entry, Put, Entry
  <2>3. CASE n = fd
    <3>1. InHand(p, n) /\ ~InHand(p, n)'
      BY <1>1, <1>2, <2>3 DEF IInv, HoldsIts, InHand
    <3>2. n \in DOMAIN open_fds'
      BY <1>1, <2>1, <3>1 DEF InOne, InCall
    <3>3. QED
      BY <2>1, <2>2, <3>1, <3>2, CallToEntry
  <2>4. CASE n # fd
    BY <1>1, <2>1, <2>2, <2>4, Stays DEF EntriesKept
  <2>5. QED
    BY <2>3, <2>4
<1>7. QED
  BY <1>1, <1>2, <1>5, <1>6 DEF IInv, AllInOne

\* The table of a process that ends, in the hand of its last call.
LEMMA ExitIsGood ==
    ASSUME IInv, NEW p, Exit(p) PROVE IInv'
<1> DEFINE fds == all_replayed_fds(tables[p])
<1>1. /\ p \in Pids /\ p \in Live /\ Goes(p, Closing, Numbers(fds)) /\ Closing.at = "close"
      /\ UNCHANGED <<open_fds, copy>>
  BY DEF Exit, Begins, At, Closing
<1>2. /\ DOMAIN row' = Pids /\ DOMAIN hand' = Pids /\ row'[p] = Closing
      /\ \A q, n : InHand(q, n)' <=> IF q = p THEN n \in Numbers(fds) ELSE InHand(q, n)
  BY <1>1, GoesOn
<1>3. /\ DOMAIN tables' = DOMAIN tables \ {p}
      /\ \A q \in DOMAIN tables \ {p} : tables'[q] = tables[q]
  BY DEF Exit, Without
<1>4. HoldsIts(p)'
  BY <1>1, <1>2 DEF HoldsIts
<1>5. \A q \in Pids : HoldsIts(q)' /\ Copies(q)'
  BY <1>1, <1>3, <1>4, OthersCopy DEF Live
<1>6. ASSUME NEW n \in Nat PROVE InOne(n)'
  <2>1. InOne(n) /\ CopiesKept(n)
    BY <1>1 DEF IInv, AllInOne, CopiesKept, Copied
  <2>2. \A q, u : Entered(q, u, n)' => Entered(q, u, n) /\ q # p
    BY <1>3 DEF Entered
  <2>3. CASE n \in fds
    <3>1. PICK t : Entered(p, t, n)
      BY <1>1, <2>3 DEF all_replayed_fds, Entered, Live
    <3>2. InEntry(n) /\ ~InEntry(n)' /\ n \in DOMAIN open_fds'
      BY <1>1, <2>1, <2>2, <3>1 DEF InEntry, InOne
    <3>3. \A q : InHand(q, n)' => InHand(q, n) \/ q = p
      BY <1>2
    <3>4. QED
      BY <2>1, <3>2, <3>3, EntryToCall
  <2>4. CASE n \notin fds
    <3>1. HandsKept(n) /\ EntriesKept(n)
      BY <1>2, <2>2, <2>4 DEF HandsKept, EntriesKept, Numbers
    <3>2. QED
      BY <1>1, <2>1, <3>1, Stays
  <2>5. QED
    BY <2>3, <2>4
<1>7. QED
  BY <1>1, <1>2, <1>5, <1>6 DEF IInv, AllInOne

\* A descriptor is closed by the one call that holds it, and is not the replayer's.
LEMMA CloseOneIsGood ==
    ASSUME IInv, NEW p, CloseOne(p) PROVE IInv'
<1>1. p \in Pids /\ UNCHANGED <<tables, copy>>
  BY DEF CloseOne, At
<1>2. PICK r, rest : /\ Goes(p, r, rest) /\ r.at \in {"idle", "close"}
                     /\ \/ rest \subseteq hand[p] /\ open_fds' = open_fds
                        \/ \E m \in hand[p] : /\ rest = hand[p] \ {m}
                                              /\ open_fds' = Closed(open_fds, m)
  BY DEF CloseOne, Idle, Closing
<1>3. /\ DOMAIN row' = Pids /\ DOMAIN hand' = Pids /\ row'[p] = r
      /\ \A q, n : InHand(q, n)' <=> IF q = p THEN n \in rest ELSE InHand(q, n)
  BY <1>1, <1>2, GoesOn
<1>4. HoldsIts(p)'
  BY <1>2, <1>3 DEF HoldsIts
<1>5. \A q \in Pids : HoldsIts(q)' /\ Copies(q)'
  BY <1>1, <1>2, <1>4, OthersCopy DEF Live
<1>6. \A n \in Nat : InOne(n) /\ EntriesKept(n) /\ CopiesKept(n)
  BY <1>1 DEF IInv, AllInOne, EntriesKept, CopiesKept, Entered, Copied
<1>7. \A n : HandsKept(n)
  BY <1>1, <1>2, <1>3 DEF HandsKept, InHand
<1>8. CASE open_fds' = open_fds
  <2>1. AllInOne'
    BY <1>6, <1>7, <1>8, Stays DEF AllInOne
  <2>2. QED
    BY <1>1, <1>3, <1>5, <1>8, <2>1 DEF IInv
<1>9. ASSUME NEW m \in hand[p], rest = hand[p] \ {m}, open_fds' = Closed(open_fds, m)
      PROVE  IInv'
  <2>1. InHand(p, m) /\ ~InHand(p, m)'
    BY <1>1, <1>3, <1>9 DEF InHand
  <2>2. DOMAIN open_fds \ {m} \subseteq DOMAIN open_fds'
    BY <1>9 DEF Closed, Without
  <2>3. ASSUME NEW n \in Nat PROVE InOne(n)'
    <3>1. CASE n = m
      BY <1>6, <1>7, <2>1, <3>1, Leaves
    <3>2. CASE n # m
      BY <1>6, <1>7, <2>2, <3>2, Stays
    <3>3. QED
      BY <3>1, <3>2
  <2>4. ReplayerFds \subseteq DOMAIN open_fds'
    <3>1. m \in ReplayerFds => m \in Nat
      BY OverlapAssumption
    <3>2. m \notin ReplayerFds
      BY <1>6, <2>1, <3>1 DEF InOne, InCall
    <3>3. QED
      BY <2>2, <3>2 DEF IInv
  <2>5. QED
    BY <1>1, <1>3, <1>5, <2>3, <2>4 DEF IInv, AllInOne
<1>10. QED
  BY <1>2, <1>8, <1>9

(***************************************************************************)
(* clone.                                                                  *)
(***************************************************************************)
LEMMA CloneIsGood ==
    ASSUME IInv, NEW p, NEW child, Clone(p, child) PROVE IInv'
<1> DEFINE r == Copying(child, DOMAIN tables[p])
<1>1. /\ p \in Pids /\ p \in Live /\ Goes(p, r, {}) /\ UNCHANGED <<tables, open_fds, copy>>
      /\ child \in Pids \ Live
      /\ \A q \in Pids : row[q].at = "copy" => row[q].child # child
  BY DEF Clone, Begins, At
<1>2. r.at = "copy" /\ r.child = child /\ r.todo = DOMAIN tables[p]
  BY DEF Copying
<1> HIDE DEF r
<1>3. /\ DOMAIN row' = Pids /\ DOMAIN hand' = Pids /\ row'[p] = r
      /\ \A q \in Pids \ {p} : row'[q] = row[q] /\ hand'[q] = hand[q]
      /\ \A q, n : InHand(q, n)' <=> IF q = p THEN n \in {} ELSE InHand(q, n)
  BY <1>1, GoesOn
<1>4. ASSUME NEW q \in Pids PROVE HoldsIts(q)' /\ Copies(q)'
  <2>1. CASE q = p
    BY <1>1, <1>2, <1>3, <2>1 DEF HoldsIts, Copies, Live
  <2>2. CASE q # p
    <3>1. HoldsIts(q) /\ Copies(q)
      BY DEF IInv
    <3>2. HoldsIts(q)'
      BY <1>3, <2>2, <3>1 DEF HoldsIts
    <3>3. Copies(q)'
      BY <1>1, <1>2, <1>3, <2>2, <3>1 DEF Copies, Live
    <3>4. QED
      BY <3>2, <3>3
  <2>3. QED
    BY <2>1, <2>2
<1>5. ASSUME NEW n \in Nat PROVE InOne(n)'
  <2>1. InOne(n) /\ EntriesKept(n) /\ CopiesKept(n) /\ HandsKept(n)
    BY <1>1, <1>3 DEF IInv, AllInOne, EntriesKept, CopiesKept, HandsKept, Entered, Copied
  <2>2. QED
    BY <1>1, <2>1, Stays
<1>6. QED
  BY <1>1, <1>3, <1>4, <1>5 DEF IInv, AllInOne

\* 0 is the replayer's, so that what is copied without a dup is no descriptor.
LEMMA CopyOneIsGood ==
    ASSUME IInv, NEW p, NEW t, CopyOne(p, t) PROVE IInv'
<1> DEFINE old_fd == tables[p][t].fd
           new == IF old_fd > 0 THEN DupReturns(open_fds, ReplayLimit, old_fd) ELSE old_fd
           r == Copying(row[p].child, row[p].todo \ {t})
<1>1. /\ p \in Pids /\ row[p].at = "copy" /\ t \in row[p].todo /\ Goes(p, r, {})
      /\ UNCHANGED tables
  BY DEF CopyOne, At, IsLowest
<1>2. r.at = "copy" /\ r.child = row[p].child /\ r.todo = row[p].todo \ {t}
  BY DEF Copying
<1> HIDE DEF r
<1>3. p \in Live /\ t \in DOMAIN tables[p]
  BY <1>1 DEF IInv, Copies
<1>5. /\ new \in Nat => new \notin DOMAIN open_fds
      /\ DOMAIN open_fds' = DOMAIN open_fds \cup Numbers({new})
  <2>1. CASE old_fd > 0
    <3> DEFINE free == NewFd(open_fds, ReplayLimit)
    <3>1. free = SYSCALL_FAILURE \/ free \in Nat \ DOMAIN open_fds
      BY NewFdIsFree, OverlapAssumption
    <3>2. /\ new = DupReturns(open_fds, ReplayLimit, old_fd)
          /\ open_fds' = AfterDup(open_fds, ReplayLimit, old_fd)
      BY <2>1 DEF CopyOne
    <3>3. CASE old_fd \in DOMAIN open_fds
      <4>1. new = free /\ open_fds' = Opened(open_fds, free, open_fds[old_fd])
        BY <3>2, <3>3 DEF AfterDup, DupReturns
      <4> HIDE DEF free, new
      <4>2. QED
        BY <3>1, <4>1 DEF Opened, Put, Numbers, SYSCALL_FAILURE
    <3>4. CASE old_fd \notin DOMAIN open_fds
      <4>1. new = SYSCALL_FAILURE /\ open_fds' = open_fds
        BY <3>2, <3>4 DEF AfterDup, DupReturns, EBADF
      <4> HIDE DEF new
      <4>2. QED
        BY <4>1 DEF Numbers, SYSCALL_FAILURE
    <3>5. QED
      BY <3>3, <3>4
  <2>2. CASE ~(old_fd > 0)
    <3>1. new = old_fd /\ open_fds' = open_fds
      BY <2>2 DEF CopyOne
    <3>2. ASSUME old_fd \in Nat PROVE FALSE
      <4>1. old_fd = 0
        BY <2>2, <3>2
      <4>2. Entered(p, t, 0)
        BY <1>3, <4>1 DEF Entered, Live
      <4>3. InOne(0)
        BY DEF IInv, AllInOne
      <4>4. QED
        BY <4>2, <4>3, OverlapAssumption DEF InOne, InEntry
    <3>3. QED
      BY <3>1, <3>2 DEF Numbers
  <2>3. QED
    BY <2>1, <2>2
<1>6. copy' = [copy EXCEPT ![p] = add_fd_entry(@, t, new, tables[p][t].flags)]
  BY DEF CopyOne
<1> HIDE DEF new
<1>7. /\ DOMAIN row' = Pids /\ DOMAIN hand' = Pids /\ row'[p] = r /\ DOMAIN copy' = Pids
      /\ \A q \in Pids \ {p} : row'[q] = row[q] /\ hand'[q] = hand[q]
      /\ \A q, n : InHand(q, n)' <=> IF q = p THEN n \in {} ELSE InHand(q, n)
  BY <1>1, <1>6, GoesOn DEF IInv
<1>8. ASSUME NEW q \in Pids PROVE HoldsIts(q)' /\ Copies(q)'
  <2>1. HoldsIts(q) /\ Copies(q)
    BY DEF IInv
  <2>2. HoldsIts(q)'
    BY <1>2, <1>7, <2>1 DEF HoldsIts
  <2>3. Copies(q)'
    BY <1>1, <1>2, <1>7, <2>1 DEF Copies, Live
  <2>4. QED
    BY <2>2, <2>3
<1>9. ASSUME NEW n \in Nat PROVE InOne(n)'
  <2>1. InOne(n) /\ EntriesKept(n) /\ HandsKept(n)
    BY <1>1, <1>7 DEF IInv, AllInOne, EntriesKept, HandsKept, Entered
  <2>2. \A q, u : Copied(q, u, n)' => Copied(q, u, n) \/ (q = p /\ u = t /\ n = new)
    BY <1>1, <1>6 DEF Copied, add_fd_entry, Put, Entry
  <2>3. CASE n = new
    <3>1. n \notin DOMAIN open_fds /\ n \in DOMAIN open_fds'
      BY <1>5, <2>3 DEF Numbers
    <3>2. ReplayerFds \subseteq DOMAIN open_fds
      BY DEF IInv
    <3>3. QED
      BY <2>1, <2>2, <3>1, <3>2, IsNewInCopy
  <2>4. CASE n # new
    BY <1>5, <2>1, <2>2, <2>4, Stays DEF CopiesKept
  <2>5. QED
    BY <2>3, <2>4
<1>10. QED
  BY <1>1, <1>5, <1>7, <1>8, <1>9 DEF IInv, AllInOne

LEMMA PublishIsGood ==
    ASSUME IInv, NEW p, Publish(p) PROVE IInv'
<1> DEFINE child == row[p].child
<1>1. /\ p \in Pids /\ row[p].at = "copy" /\ Goes(p, Idle, {}) /\ Idle.at = "idle"
      /\ tables' = Put(tables, child, copy[p]) /\ copy' = [copy EXCEPT ![p] = <<>>]
      /\ UNCHANGED open_fds
  BY DEF Publish, At, Idle
<1>2. /\ DOMAIN row' = Pids /\ DOMAIN hand' = Pids /\ row'[p] = Idle
      /\ \A q \in Pids \ {p} : row'[q] = row[q] /\ hand'[q] = hand[q]
      /\ \A q, n : InHand(q, n)' <=> IF q = p THEN n \in {} ELSE InHand(q, n)
  BY <1>1, GoesOn
<1>3. /\ DOMAIN tables' = DOMAIN tables \cup {child} /\ tables'[child] = copy[p]
      /\ \A q \in DOMAIN tables \ {child} : tables'[q] = tables[q]
  BY <1>1 DEF Put
<1>4. /\ DOMAIN copy' = Pids /\ copy'[p] = <<>>
      /\ \A q \in Pids \ {p} : copy'[q] = copy[q]
  BY <1>1 DEF IInv
<1>5. child \notin Live /\ \A q \in Pids \ {p} : row[q].at = "copy" => row[q].child # child
  BY <1>1 DEF IInv, Copies
<1>6. ASSUME NEW q \in Pids PROVE HoldsIts(q)' /\ Copies(q)'
  <2>1. HoldsIts(q) /\ Copies(q)
    BY DEF IInv
  <2>2. CASE q = p
    BY <1>1, <1>2, <2>2 DEF HoldsIts, Copies
  <2>3. CASE q # p
    <3>1. HoldsIts(q)'
      BY <1>2, <2>1, <2>3 DEF HoldsIts
    <3>2. Copies(q)'
      BY <1>1, <1>2, <1>3, <1>5, <2>1, <2>3 DEF Copies, Live
    <3>3. QED
      BY <3>1, <3>2
  <2>4. QED
    BY <2>2, <2>3
<1>7. ASSUME NEW n \in Nat PROVE InOne(n)'
  <2>1. InOne(n) /\ HandsKept(n)
    BY <1>2 DEF IInv, AllInOne, HandsKept
  <2>2. DOMAIN <<>> = {}
    OBVIOUS
  <2>3. \A q, u : Copied(q, u, n)' => Copied(q, u, n) /\ q # p
    BY <1>4, <2>2 DEF Copied, IInv
  <2>4. \A q, u : Entered(q, u, n)' => Entered(q, u, n) \/ (q = child /\ Copied(p, u, n))
    BY <1>1, <1>3 DEF Copied, Entered, IInv
  <2>5. n \in DOMAIN open_fds => n \in DOMAIN open_fds'
    BY <1>1
  <2> HIDE DEF child
  <2>6. QED
    BY <2>1, <2>3, <2>4, <2>5, CopyToEntry
<1>8. QED
  BY <1>1, <1>2, <1>4, <1>6, <1>7 DEF IInv, AllInOne

-----------------------------------------------------------------------------
LEMMA InitIsGood == Init => IInv
<1> SUFFICES ASSUME Init PROVE IInv
  OBVIOUS
<1>1. /\ DOMAIN row = Pids /\ DOMAIN hand = Pids /\ DOMAIN copy = Pids
      /\ \A p \in Pids : row[p].at = "idle" /\ hand[p] = {} /\ copy[p] = <<>>
      /\ DOMAIN open_fds = ReplayerFds
  BY DEF Init, Idle
<1>2. /\ DOMAIN tables = {Root} /\ DOMAIN tables[Root] = {AT_FDCWD}
      /\ tables[Root][AT_FDCWD].fd = AT_FDCWD
  BY DEF Init, Entry
<1>3. \A p \in Pids : HoldsIts(p) /\ Copies(p)
  BY <1>1 DEF HoldsIts, Copies
<1>4. ASSUME NEW n \in Nat PROVE InOne(n)
  <2>1. n # AT_FDCWD /\ DOMAIN <<>> = {}
    BY DEF AT_FDCWD
  <2>2. ~InEntry(n) /\ ~InCopy(n) /\ ~InCall(n)
    BY <1>1, <1>2, <2>1 DEF InEntry, InCopy, InCall, Entered, Copied, InHand
  <2>3. QED
    BY <2>2 DEF InOne, InEntry, InCopy, InCall
<1>5. QED
  BY <1>1, <1>3, <1>4 DEF IInv, AllInOne

LEMMA NextIsGood ==
    ASSUME "dup2_new" \notin Kinds, IInv, [Next]_vars
    PROVE  IInv'
<1>1. ASSUME NEW p \in Pids, NEW file \in Files, Open(p, file) \/ OpenFails(p, file)
      PROVE  IInv'
  BY <1>1, OpenIsGood, OpenFailsIsGood
<1>2. ASSUME NEW p \in Pids, NEW t \in TracedFds, Close(p, t) \/ Dup(p, t) PROVE IInv'
  BY <1>2, CloseIsGood, DupIsGood
<1>3. ASSUME NEW p \in Pids, NEW old \in TracedFds, NEW new \in TracedFds,
             Dup2Over(p, old, new) \/ Dup2New(p, old, new)
      PROVE  IInv'
  <2>1. ~Dup2New(p, old, new)
    BY DEF Dup2New, Begins
  <2>2. QED
    BY <1>3, <2>1, Dup2OverIsGood
<1>4. ASSUME NEW p \in Pids, Exit(p) \/ CloseOne(p) \/ Dup2Call(p) \/ Add(p) PROVE IInv'
  BY <1>4, ExitIsGood, CloseOneIsGood, Dup2CallIsGood, AddIsGood
<1>5. ASSUME NEW p \in Pids, NEW child \in Pids, Clone(p, child) PROVE IInv'
  BY <1>5, CloneIsGood
<1>6. ASSUME NEW p \in Pids, NEW t \in EntryFds, CopyOne(p, t) PROVE IInv'
  BY <1>6, CopyOneIsGood
<1>7. ASSUME NEW p \in Pids, Publish(p) PROVE IInv'
  BY <1>7, PublishIsGood
<1>8. CASE UNCHANGED vars
  BY <1>8 DEF vars, IInv, HoldsIts, Copies, Live, AllInOne, InOne, InEntry, InCopy, InCall,
     Entered, Copied, InHand
<1>9. QED
  BY <1>1, <1>2, <1>3, <1>4, <1>5, <1>6, <1>7, <1>8 DEF Next

(* Places(n) in the terms above.                                           *)
LEMMA InOnePlace ==
    ASSUME NEW n, InOne(n), NEW place \in Places(n)
    PROVE  Places(n) = {place} /\ n \in DOMAIN open_fds /\ n \notin ReplayerFds
<1>1. \A h : h \in EntriesWith(tables, n) <=> \E p, t : h = <<p, t>> /\ Entered(p, t, n)
  BY DEF EntriesWith, Entered
<1>2. \A h : h \in EntriesWith(copy, n) <=> \E p, t : h = <<p, t>> /\ Copied(p, t, n)
  BY DEF EntriesWith, Copied
<1>3. \A h : h \in Places(n) <=>
          \/ \E p, t : h = <<"entry", <<p, t>>>> /\ Entered(p, t, n)
          \/ \E p, t : h = <<"copy", <<p, t>>>> /\ Copied(p, t, n)
          \/ \E p : h = <<"call", p>> /\ InHand(p, n)
  BY <1>1, <1>2 DEF Places, InHand
<1>4. InEntry(n) \/ InCopy(n) \/ InCall(n)
  BY <1>3 DEF InEntry, InCopy, InCall
<1>5. \A h \in Places(n) : h = place
  BY <1>3 DEF InOne, InEntry, InCopy, InCall
<1>6. QED
  BY <1>4, <1>5 DEF InOne

(* Unless dup2 needs a number that generate_unused_fd guesses, no two       *)
(* threads ever have a replayed descriptor between them, for any number of *)
(* processes, descriptors and files and any overlap of their calls.        *)
THEOREM NeverTwoHolders == "dup2_new" \notin Kinds => (Spec => []OneHolder)
<1> SUFFICES ASSUME "dup2_new" \notin Kinds PROVE Spec => []OneHolder
  OBVIOUS
<1>1. IInv /\ [Next]_vars => IInv'
  BY NextIsGood
<1>2. IInv => OneHolder
  <2> SUFFICES ASSUME IInv, NEW n \in 0 .. ReplayLimit - 1, NEW place \in Places(n)
               PROVE  Places(n) = {place} /\ n \in DOMAIN open_fds /\ n \notin ReplayerFds
    BY DEF OneHolder
  <2>1. n \in Nat
    BY OverlapAssumption
  <2>2. InOne(n)
    BY <2>1 DEF IInv, AllInOne
  <2>3. QED
    BY <2>2, InOnePlace
<1>3. QED
  BY InitIsGood, <1>1, <1>2, PTL DEF Spec
-----------------------------------------------------------------------------
(***************************************************************************)
(* As long as the replayer has a free number for each call that wants one, *)
(* nothing is lost, and an entry stands for its traced file. Between its   *)
(* steps a call owes its table the traced descriptor it will enter last.   *)
(***************************************************************************)
HasRoom == FreeFds(open_fds, ReplayLimit) # {}
Designates(n, file) == n \in DOMAIN open_fds /\ open_fds[n] = file
Held(n) == InEntry(n) \/ InCopy(n) \/ InCall(n)

Owed(p) ==
    IF row[p].at = "add" THEN {row[p].traced_fd}
    ELSE IF row[p].at = "onto" THEN {row[p].new} ELSE {}

Follows(p) ==
    /\ p \in Pids /\ Owed(p) \subseteq DOMAIN traced[p] /\ DOMAIN traced[p] \subseteq TracedFds
    /\ DOMAIN tables[p] = {AT_FDCWD} \cup (DOMAIN traced[p] \ Owed(p))
    /\ tables[p][AT_FDCWD].fd = AT_FDCWD
    /\ \A t \in DOMAIN traced[p] \ Owed(p) : Designates(tables[p][t].fd, traced[p][t])

\* What a call holds, and what that is when it ends.
InMiddle(p) ==
    /\ row[p].at \in {"idle", "add", "close", "onto", "copy"}
    /\ row[p].at \in {"add", "onto", "copy"} => p \in Live
    /\ row[p].at \in {"idle", "copy"} => hand[p] = {}
    /\ row[p].at = "add" =>
          /\ hand[p] \subseteq {row[p].fd}
          /\ Designates(row[p].fd, traced[p][row[p].traced_fd])
    /\ row[p].at = "onto" =>
          /\ hand[p] \subseteq {row[p].target} /\ row[p].target \in 0 .. ReplayLimit - 1
          /\ Designates(row[p].old_fd, traced[p][row[p].new])
          /\ row[p].old_fd = row[p].target \/ \E t : Entered(p, t, row[p].old_fd)
    /\ row[p].at = "copy" =>
          /\ DOMAIN copy[p] = DOMAIN tables[p] \ row[p].todo
          /\ \A t \in DOMAIN copy[p] :
                IF t = AT_FDCWD THEN copy[p][t].fd = AT_FDCWD
                ELSE Designates(copy[p][t].fd, traced[p][t])
    /\ row[p].at # "copy" => copy[p] = <<>>

FInv ==
    /\ DOMAIN traced = Live /\ DOMAIN open_fds \subseteq 0 .. ReplayLimit - 1
    /\ \A p \in Live : Follows(p)
    /\ \A p \in Pids : InMiddle(p)
    /\ \A n \in DOMAIN open_fds \ ReplayerFds : Held(n)

(* With room, the kernel's answer is a free number below the limit.        *)
LEMMA NewFdWithRoom ==
    ASSUME NEW open, NEW limit \in Nat, FreeFds(open, limit) # {}
    PROVE  /\ NewFd(open, limit) \in (0 .. limit - 1) \ DOMAIN open
           /\ NewFd(open, limit) \in Nat /\ NewFd(open, limit) # SYSCALL_FAILURE
<1> DEFINE free == FreeFds(open, limit)
<1>1. free = (0 .. limit - 1) \ DOMAIN open /\ free # {} /\ free \subseteq Nat
  BY DEF FreeFds
<1>2. \E n \in free : IsLowest(n, free)
  BY <1>1, LowestExists
<1>3. NewFd(open, limit) = CHOOSE n \in free : IsLowest(n, free)
  BY <1>1 DEF NewFd
<1> HIDE DEF free
<1>4. NewFd(open, limit) \in free
  BY <1>2, <1>3
<1>5. QED
  BY <1>1, <1>4 DEF SYSCALL_FAILURE

(***************************************************************************)
(* A step of p touches no open descriptor but those in the hand of p, so   *)
(* what the other places hold still designates what it did.                *)
(***************************************************************************)
Kept(p) ==
    \A n \in DOMAIN open_fds \ hand[p] : n \in DOMAIN open_fds' /\ open_fds'[n] = open_fds[n]
Still(n, file) == n \in DOMAIN open_fds' /\ open_fds'[n] = file

LEMMA StillThere ==
    ASSUME IInv, FInv, NEW p \in Pids, Kept(p), NEW n, NEW file, Designates(n, file),
           InEntry(n) \/ InCopy(n) \/ \E q \in Pids \ {p} : n \in hand[q]
    PROVE  Still(n, file)
<1>1. n \in Nat /\ InOne(n)
  BY OverlapAssumption DEF FInv, Designates, IInv, AllInOne
<1>2. n \notin hand[p]
  BY <1>1 DEF InOne, InCall, InHand
<1>3. QED
  BY <1>2 DEF Kept, Still, Designates

\* The entries of any process, and what another has copied or is about to enter.
LEMMA EntriesStill ==
    ASSUME IInv, FInv, NEW p \in Pids, Kept(p), NEW q \in Live, NEW t \in DOMAIN traced[q] \ Owed(q)
    PROVE  Still(tables[q][t].fd, traced[q][t])
<1>1. Follows(q)
  BY DEF FInv
<1>2. Designates(tables[q][t].fd, traced[q][t]) /\ t \in DOMAIN tables[q]
  BY <1>1 DEF Follows
<1>3. InEntry(tables[q][t].fd)
  BY <1>2 DEF InEntry, Entered, Live
<1>4. QED
  BY <1>2, <1>3, StillThere

LEMMA CopiesStill ==
    ASSUME IInv, FInv, NEW p \in Pids, Kept(p), NEW q \in Pids, row[q].at = "copy",
           NEW t \in DOMAIN copy[q], t # AT_FDCWD
    PROVE  Still(copy[q][t].fd, traced[q][t])
<1>1. Designates(copy[q][t].fd, traced[q][t])
  BY DEF FInv, InMiddle
<1>2. InCopy(copy[q][t].fd)
  BY DEF InCopy, Copied, IInv
<1>3. QED
  BY <1>1, <1>2, StillThere

LEMMA OthersFollow ==
    ASSUME IInv, FInv, NEW p \in Pids, Kept(p),
           \A q \in Pids \ {p} : row'[q] = row[q] /\ hand'[q] = hand[q] /\ copy'[q] = copy[q],
           \A q \in Live \ {p} : q \in Live' /\ tables'[q] = tables[q] /\ traced'[q] = traced[q]
    PROVE  /\ \A q \in Live \ {p} : Follows(q)'
           /\ \A q \in Pids \ {p} : InMiddle(q)'
<1>1. ASSUME NEW q \in Live \ {p} PROVE Follows(q)'
  <2>1. Follows(q)
    BY DEF FInv
  <2>2. \A t \in DOMAIN traced[q] \ Owed(q) : Still(tables[q][t].fd, traced[q][t])
    BY EntriesStill
  <2>3. Owed(q)' = Owed(q) /\ tables'[q] = tables[q] /\ traced'[q] = traced[q]
    BY <2>1 DEF Owed, Follows
  <2>4. QED
    BY <2>1, <2>2, <2>3 DEF Follows, Still, Designates
<1>2. ASSUME NEW q \in Pids \ {p} PROVE InMiddle(q)'
  <2>1. InMiddle(q) /\ HoldsIts(q) /\ Copies(q)
    BY DEF FInv, IInv
  <2>2. row'[q] = row[q] /\ hand'[q] = hand[q] /\ copy'[q] = copy[q]
    OBVIOUS
  <2>3. row[q].at \in {"add", "onto", "copy"} =>
            q \in Live /\ q \in Live' /\ tables'[q] = tables[q] /\ traced'[q] = traced[q]
    BY <2>1 DEF InMiddle
  <2>4. CASE row[q].at \in {"idle", "close"}
    BY <2>1, <2>2, <2>4 DEF InMiddle
  <2>5. CASE row[q].at = "add"
    <3>1. Designates(row[q].fd, traced[q][row[q].traced_fd]) /\ row[q].fd \in Nat
      BY <2>1, <2>5, OverlapAssumption DEF InMiddle, Designates, FInv
    <3>2. row[q].fd \in hand[q]
      BY <2>1, <2>5, <3>1 DEF HoldsIts
    <3>3. Still(row[q].fd, traced[q][row[q].traced_fd])
      BY <3>1, <3>2, StillThere
    <3>4. QED
      BY <2>1, <2>2, <2>3, <2>5, <3>3 DEF InMiddle, Still, Designates
  <2>6. CASE row[q].at = "onto"
    <3>1. /\ Designates(row[q].old_fd, traced[q][row[q].new])
          /\ row[q].target \in Nat
          /\ row[q].old_fd = row[q].target \/ \E t : Entered(q, t, row[q].old_fd)
      BY <2>1, <2>6, OverlapAssumption DEF InMiddle
    <3>2. row[q].target \in hand[q]
      BY <2>1, <2>6, <3>1 DEF HoldsIts
    <3>3. Still(row[q].old_fd, traced[q][row[q].new])
      BY <3>1, <3>2, StillThere DEF InEntry
    <3>4. \A t : Entered(q, t, row[q].old_fd) => Entered(q, t, row[q].old_fd)'
      BY <2>2, <2>3, <2>6 DEF Entered, Live
    <3>5. QED
      BY <2>1, <2>2, <2>3, <2>6, <3>3, <3>4 DEF InMiddle, Still, Designates
  <2>7. CASE row[q].at = "copy"
    <3>1. \A t \in DOMAIN copy[q] : t # AT_FDCWD => Still(copy[q][t].fd, traced[q][t])
      BY <2>7, CopiesStill
    <3>2. QED
      BY <2>1, <2>2, <2>3, <2>7, <3>1 DEF InMiddle, Still, Designates
  <2>8. QED
    BY <2>1, <2>4, <2>5, <2>6, <2>7 DEF InMiddle
<1>3. QED
  BY <1>1, <1>2

\* So a step that concerns p alone need only show what p does.
LEMMA StepFollows ==
    ASSUME IInv, FInv, NEW p \in Pids, NEW r, NEW numbers, Goes(p, r, numbers), Kept(p),
           \A q \in Pids \ {p} : copy'[q] = copy[q],
           Live \ {p} \subseteq Live', Live' \subseteq Live,
           DOMAIN traced' = Live',
           \A q \in Live \ {p} : tables'[q] = tables[q] /\ traced'[q] = traced[q],
           DOMAIN open_fds' \subseteq 0 .. ReplayLimit - 1,
           p \in Live' => Follows(p)', InMiddle(p)',
           \A n \in DOMAIN open_fds' \ ReplayerFds : Held(n)'
    PROVE  FInv'
<1>1. \A q \in Pids \ {p} : row'[q] = row[q] /\ hand'[q] = hand[q]
  BY GoesOn
<1>2. /\ \A q \in Live \ {p} : Follows(q)'
      /\ \A q \in Pids \ {p} : InMiddle(q)'
  BY <1>1, OthersFollow
<1>3. QED
  BY <1>2 DEF FInv

\* The kernel has opened a new descriptor, which is in the hand of p.
LEMMA TakesFollows ==
    ASSUME IInv, FInv, NEW p \in Pids, p \in Live, row[p].at = "idle", NEW r, NEW new, NEW file,
           Goes(p, r, Numbers({new})), r.at \in {"add", "close"},
           new \in (0 .. ReplayLimit - 1) \ DOMAIN open_fds, open_fds' = Put(open_fds, new, file),
           UNCHANGED <<tables, copy>>, DOMAIN traced' = Live,
           \A q \in Live \ {p} : traced'[q] = traced[q], Follows(p)',
           r.at = "add" => r.fd = new /\ traced'[p][r.traced_fd] = file
    PROVE  FInv'
<1>1. InMiddle(p) /\ hand[p] = {} /\ copy[p] = <<>>
  BY DEF FInv, InMiddle
<1>2. new \in Nat /\ Numbers({new}) = {new} /\ Goes(p, r, {new})
  <2>1. new \in Nat /\ Numbers({new}) = {new}
    BY OverlapAssumption DEF Numbers
  <2>2. QED
    BY <2>1
<1>3. /\ row'[p] = r /\ hand'[p] = {new}
      /\ \A q, n : InHand(q, n)' <=> IF q = p THEN n \in {new} ELSE InHand(q, n)
  BY <1>2, GoesOn
<1>4. DOMAIN open_fds' = DOMAIN open_fds \cup {new} /\ open_fds'[new] = file /\ Kept(p)
  BY DEF Put, Kept
<1>5. InMiddle(p)'
  BY <1>1, <1>3, <1>4 DEF InMiddle, Designates, Live
<1>6. ASSUME NEW n \in DOMAIN open_fds' \ ReplayerFds PROVE Held(n)'
  <2>1. CASE n = new
    BY <1>3, <2>1 DEF Held, InCall
  <2>2. CASE n # new
    <3>1. Held(n)
      BY <1>4, <2>2 DEF FInv
    <3>2. ~InHand(p, n)
      BY <1>1 DEF InHand
    <3>3. QED
      BY <1>3, <3>1, <3>2 DEF Held, InEntry, InCopy, InCall, Entered, Copied
  <2>3. QED
    BY <2>1, <2>2
<1>7. DOMAIN open_fds' \subseteq 0 .. ReplayLimit - 1
  BY <1>4 DEF FInv
<1>8. QED
  BY <1>2, <1>4, <1>5, <1>6, <1>7, StepFollows DEF Live

LEMMA OpenFollows ==
    ASSUME IInv, FInv, HasRoom, NEW p, NEW file, Open(p, file) PROVE FInv'
<1> DEFINE new == NewFd(open_fds, ReplayLimit)
           t == NextFd(p)
           r == Adding(t, new)
<1>1. /\ p \in Pids /\ p \in Live /\ row[p].at = "idle"
      /\ Goes(p, r, Numbers({new})) /\ UNCHANGED <<tables, copy>> /\ Room(p)
      /\ traced' = [traced EXCEPT ![p] = Put(@, t, file)]
      /\ open_fds' = Opened(open_fds, new, file)
  BY DEF Open, Begins, At
<1>2. new \in (0 .. ReplayLimit - 1) \ DOMAIN open_fds /\ new # SYSCALL_FAILURE
  BY NewFdWithRoom, OverlapAssumption DEF HasRoom
<1>3. t \in TracedFds \ DOMAIN traced[p]
  BY <1>1, NewFdWithRoom, OverlapAssumption DEF Room, NextFd, TracedFds
<1> HIDE DEF t, new
<1>4. r.at = "add" /\ r.fd = new /\ r.traced_fd = t
  BY DEF Adding
<1> HIDE DEF r
<1>5. row'[p] = r
  BY <1>1, GoesOn
<1>6. /\ DOMAIN traced' = Live /\ \A q \in Live \ {p} : traced'[q] = traced[q]
      /\ traced'[p] = Put(traced[p], t, file)
  BY <1>1 DEF FInv
<1>7. /\ DOMAIN traced'[p] = DOMAIN traced[p] \cup {t} /\ traced'[p][t] = file
      /\ \A u \in DOMAIN traced[p] : traced'[p][u] = traced[p][u]
  BY <1>3, <1>6 DEF Put
<1>8. open_fds' = Put(open_fds, new, file) /\ Kept(p)
  BY <1>1, <1>2 DEF Opened, Kept, Put
<1>9. Follows(p)'
  <2>1. Follows(p) /\ Owed(p) = {} /\ Owed(p)' = {t}
    BY <1>1, <1>4, <1>5 DEF FInv, Owed
  <2>2. \A u \in DOMAIN traced[p] : Still(tables[p][u].fd, traced[p][u])
    BY <1>1, <1>8, <2>1, EntriesStill
  <2>3. QED
    BY <1>1, <1>3, <1>7, <2>1, <2>2 DEF Follows, Still, Designates
<1>10. QED
  BY <1>1, <1>2, <1>4, <1>6, <1>7, <1>8, <1>9, TakesFollows

LEMMA OpenFailsFollows ==
    ASSUME IInv, FInv, HasRoom, NEW p, NEW file, OpenFails(p, file) PROVE FInv'
<1> DEFINE new == NewFd(open_fds, ReplayLimit)
<1>1. new \in (0 .. ReplayLimit - 1) \ DOMAIN open_fds /\ new # SYSCALL_FAILURE /\ new \in Nat
  BY NewFdWithRoom, OverlapAssumption DEF HasRoom
<1>2. /\ p \in Pids /\ p \in Live /\ row[p].at = "idle"
      /\ Goes(p, Closing, {new}) /\ UNCHANGED <<tables, copy, traced>>
      /\ open_fds' = Put(open_fds, new, file)
  BY <1>1 DEF OpenFails, Begins, At, Opened
<1> HIDE DEF new
<1>3. Closing.at = "close" /\ row'[p] = Closing /\ Numbers({new}) = {new}
  BY <1>1, <1>2, GoesOn DEF Closing, Numbers
<1>4. Kept(p)
  BY <1>1, <1>2 DEF Kept, Put
<1>5. Follows(p)'
  <2>1. Follows(p) /\ Owed(p) = {} /\ Owed(p)' = {}
    BY <1>2, <1>3 DEF FInv, Owed
  <2>2. \A u \in DOMAIN traced[p] : Still(tables[p][u].fd, traced[p][u])
    BY <1>2, <1>4, <2>1, EntriesStill
  <2>3. QED
    BY <1>2, <2>1, <2>2 DEF Follows, Still, Designates
<1>6. DOMAIN traced' = Live
  BY <1>2 DEF FInv
<1>7. QED
  BY <1>1, <1>2, <1>3, <1>5, <1>6, TakesFollows

LEMMA DupFollows ==
    ASSUME IInv, FInv, HasRoom, NEW p, NEW u, Dup(p, u) PROVE FInv'
<1> DEFINE fd == get_fd(tables[p], u)
           new == DupReturns(open_fds, ReplayLimit, fd)
           t == NextFd(p)
           r == Adding(t, new)
           file == traced[p][u]
<1>1. /\ p \in Pids /\ p \in Live /\ row[p].at = "idle"
      /\ Goes(p, r, Numbers({new})) /\ UNCHANGED <<tables, copy>> /\ Room(p)
      /\ u \in DOMAIN traced[p]
      /\ traced' = [traced EXCEPT ![p] = Put(@, t, file)]
      /\ open_fds' = AfterDup(open_fds, ReplayLimit, fd)
  BY DEF Dup, Begins, At
<1>2. Follows(p) /\ Owed(p) = {}
  BY <1>1 DEF FInv, Owed
<1>3. fd \in DOMAIN open_fds /\ open_fds[fd] = file
  BY <1>1, <1>2 DEF Follows, get_fd, has_fd, Designates
<1>4. new = NewFd(open_fds, ReplayLimit) /\ open_fds' = Opened(open_fds, new, file)
  BY <1>1, <1>3 DEF DupReturns, AfterDup
<1>5. new \in (0 .. ReplayLimit - 1) \ DOMAIN open_fds /\ new # SYSCALL_FAILURE
  BY <1>4, NewFdWithRoom, OverlapAssumption DEF HasRoom
<1>6. t \in TracedFds \ DOMAIN traced[p]
  BY <1>1, NewFdWithRoom, OverlapAssumption DEF Room, NextFd, TracedFds
<1> HIDE DEF t, new, file
<1>7. r.at = "add" /\ r.fd = new /\ r.traced_fd = t
  BY DEF Adding
<1> HIDE DEF r
<1>8. row'[p] = r
  BY <1>1, GoesOn
<1>9. /\ DOMAIN traced' = Live /\ \A q \in Live \ {p} : traced'[q] = traced[q]
      /\ traced'[p] = Put(traced[p], t, file)
  BY <1>1 DEF FInv
<1>10. /\ DOMAIN traced'[p] = DOMAIN traced[p] \cup {t} /\ traced'[p][t] = file
      /\ \A o \in DOMAIN traced[p] : traced'[p][o] = traced[p][o]
  BY <1>6, <1>9 DEF Put
<1>11. open_fds' = Put(open_fds, new, file) /\ Kept(p)
  BY <1>4, <1>5 DEF Opened, Kept, Put
<1>12. Follows(p)'
  <2>1. Owed(p)' = {t}
    BY <1>7, <1>8 DEF Owed
  <2>2. \A o \in DOMAIN traced[p] : Still(tables[p][o].fd, traced[p][o])
    BY <1>1, <1>2, <1>11, EntriesStill
  <2>3. QED
    BY <1>1, <1>2, <1>6, <1>10, <2>1, <2>2 DEF Follows, Still, Designates
<1>13. QED
  BY <1>1, <1>5, <1>7, <1>9, <1>10, <1>11, <1>12, TakesFollows

\* The entry of t is removed, and what it held is in the hand of p.
LEMMA RemovesFollows ==
    ASSUME IInv, FInv, NEW p \in Pids, p \in Live, row[p].at = "idle", NEW t \in DOMAIN traced[p],
           NEW r, Goes(p, r, Numbers({get_fd(tables[p], t)})),
           tables' = [tables EXCEPT ![p] = remove_fd_entry(@, t)], UNCHANGED <<open_fds, copy>>,
           DOMAIN traced' = Live, \A q \in Live \ {p} : traced'[q] = traced[q],
           Owed(p)' \subseteq DOMAIN traced'[p], DOMAIN traced'[p] \ Owed(p)' = DOMAIN traced[p] \ {t},
           DOMAIN traced'[p] \subseteq TracedFds,
           \A u \in DOMAIN traced[p] \ {t} : traced'[p][u] = traced[p][u], InMiddle(p)'
    PROVE  FInv'
<1> DEFINE fd == get_fd(tables[p], t)
<1>1. Follows(p) /\ Owed(p) = {} /\ InMiddle(p) /\ hand[p] = {}
  BY DEF FInv, Owed, InMiddle
<1>2. /\ DOMAIN tables' = Live /\ \A q \in Live \ {p} : tables'[q] = tables[q]
      /\ tables'[p] = Without(tables[p], t)
  BY DEF Live, remove_fd_entry
<1>3. /\ t # AT_FDCWD /\ DOMAIN tables'[p] = DOMAIN tables[p] \ {t}
      /\ \A u \in DOMAIN tables[p] \ {t} : tables'[p][u] = tables[p][u]
  BY <1>1, <1>2 DEF Without, Follows, TracedFds, AT_FDCWD
<1>4. Follows(p)'
  BY <1>1, <1>3 DEF Follows, Designates
<1>5. fd \in Nat /\ Numbers({fd}) = {fd} /\ Goes(p, r, {fd})
  <2>1. fd \in DOMAIN open_fds
    BY <1>1 DEF Follows, get_fd, has_fd, Designates
  <2>2. fd \in Nat
    BY <2>1, OverlapAssumption DEF FInv
  <2>3. Numbers({fd}) = {fd}
    BY <2>2 DEF Numbers
  <2>4. QED
    BY <2>2, <2>3
<1>6. \A q, n : InHand(q, n)' <=> IF q = p THEN n \in {fd} ELSE InHand(q, n)
  BY <1>5, GoesOn
<1>7. ASSUME NEW n \in DOMAIN open_fds' \ ReplayerFds PROVE Held(n)'
  <2>1. Held(n)
    BY DEF FInv
  <2>2. ASSUME NEW q, NEW u, Entered(q, u, n) PROVE Held(n)'
    <3>1. CASE q = p /\ u = t
      <4>1. n = fd
        BY <2>2, <3>1 DEF Entered, get_fd, has_fd
      <4>2. QED
        BY <1>6, <4>1 DEF Held, InCall
    <3>2. CASE ~(q = p /\ u = t)
      <4>1. Entered(q, u, n)'
        BY <1>2, <1>3, <2>2, <3>2 DEF Entered, Live
      <4>2. QED
        BY <4>1 DEF Held, InEntry
    <3>3. QED
      BY <3>1, <3>2
  <2>3. ~InHand(p, n)
    BY <1>1 DEF InHand
  <2>4. QED
    BY <1>6, <2>1, <2>2, <2>3 DEF Held, InEntry, InCopy, InCall, Copied
<1>8. Kept(p)
  BY DEF Kept
<1>9. QED
  BY <1>2, <1>4, <1>7, <1>8, StepFollows DEF Live, FInv

LEMMA CloseFollows ==
    ASSUME IInv, FInv, NEW p, NEW t, Close(p, t) PROVE FInv'
<1>1. /\ p \in Pids /\ p \in Live /\ row[p].at = "idle" /\ t \in DOMAIN traced[p]
      /\ Goes(p, Closing, Numbers({get_fd(tables[p], t)}))
      /\ tables' = [tables EXCEPT ![p] = remove_fd_entry(@, t)] /\ UNCHANGED <<open_fds, copy>>
      /\ traced' = [traced EXCEPT ![p] = Without(@, t)]
  BY DEF Close, Begins, At
<1>2. Closing.at = "close" /\ row'[p] = Closing
  BY <1>1, GoesOn DEF Closing
<1>3. /\ DOMAIN traced' = Live /\ \A q \in Live \ {p} : traced'[q] = traced[q]
      /\ traced'[p] = Without(traced[p], t)
  BY <1>1 DEF FInv
<1>4. /\ DOMAIN traced'[p] = DOMAIN traced[p] \ {t}
      /\ \A u \in DOMAIN traced[p] \ {t} : traced'[p][u] = traced[p][u]
  BY <1>3 DEF Without
<1>5. Owed(p)' = {}
  BY <1>2 DEF Owed
<1>6. InMiddle(p)'
  BY <1>1, <1>2 DEF InMiddle, FInv
<1>7. DOMAIN traced[p] \subseteq TracedFds
  BY <1>1 DEF FInv, Follows
<1>8. QED
  BY <1>1, <1>3, <1>4, <1>5, <1>6, <1>7, RemovesFollows

LEMMA Dup2OverFollows ==
    ASSUME IInv, FInv, NEW p, NEW old, NEW new, Dup2Over(p, old, new) PROVE FInv'
<1> DEFINE target == get_fd(tables[p], new)
           old_fd == get_fd(tables[p], old)
           r == Onto(old_fd, new, target)
<1>1. /\ p \in Pids /\ p \in Live /\ row[p].at = "idle"
      /\ old \in DOMAIN traced[p] /\ new \in DOMAIN traced[p]
      /\ Goes(p, r, Numbers({target})) /\ UNCHANGED <<open_fds, copy>>
      /\ tables' = [tables EXCEPT ![p] = remove_fd_entry(@, new)]
      /\ traced' = [traced EXCEPT ![p] = Put(@, new, @[old])]
  BY DEF Dup2Over, Begins, At
<1>2. Follows(p) /\ Owed(p) = {} /\ copy[p] = <<>>
  BY <1>1 DEF FInv, Owed, InMiddle
<1>3. /\ target \in 0 .. ReplayLimit - 1 /\ Designates(old_fd, traced[p][old])
      /\ Entered(p, old, old_fd) /\ Entered(p, new, target)
  <2>1. \A t \in DOMAIN traced[p] : /\ Designates(get_fd(tables[p], t), traced[p][t])
                                    /\ Entered(p, t, get_fd(tables[p], t))
    BY <1>1, <1>2 DEF Follows, get_fd, has_fd, Entered, Live
  <2>2. QED
    BY <1>1, <2>1 DEF Designates, FInv
<1>4. /\ DOMAIN traced' = Live /\ \A q \in Live \ {p} : traced'[q] = traced[q]
      /\ traced'[p] = Put(traced[p], new, traced[p][old])
  BY <1>1 DEF FInv
<1>5. /\ DOMAIN traced'[p] = DOMAIN traced[p] /\ traced'[p][new] = traced[p][old]
      /\ \A u \in DOMAIN traced[p] \ {new} : traced'[p][u] = traced[p][u]
  BY <1>1, <1>4 DEF Put
<1>6. ASSUME NEW n, Entered(p, old, n), old # new PROVE Entered(p, old, n)'
  <2>1. tables'[p] = Without(tables[p], new) /\ p \in DOMAIN tables'
    BY <1>1 DEF Live, remove_fd_entry
  <2>2. QED
    BY <1>6, <2>1 DEF Entered, Without
<1>7. Numbers({target}) \subseteq {target}
  BY DEF Numbers
<1>8. Live' = Live
  BY <1>1 DEF Live
<1> HIDE DEF target, old_fd
<1>9. r.at = "onto" /\ r.new = new /\ r.target = target /\ r.old_fd = old_fd
  BY DEF Onto
<1> HIDE DEF r
<1>10. row'[p] = r /\ hand'[p] = Numbers({target})
  BY <1>1, GoesOn
<1>11. Owed(p)' = {new}
  BY <1>9, <1>10 DEF Owed
<1>12. InMiddle(p)'
  <2>1. row'[p].old_fd = old_fd /\ row'[p].target = target /\ row'[p].new = new
    BY <1>9, <1>10
  <2>2. old_fd = target \/ \E t : Entered(p, t, row[p].old_fd)'
    <3>1. CASE old = new
      BY <3>1 DEF old_fd, target
    <3>2. CASE old # new
      BY <1>3, <1>6, <2>1, <3>2 DEF Entered
    <3>3. QED
      BY <3>1, <3>2
  <2>3. QED
    BY <1>1, <1>2, <1>3, <1>5, <1>7, <1>8, <1>9, <1>10, <2>1, <2>2 DEF InMiddle, Designates
<1>13. DOMAIN traced[p] \subseteq TracedFds
  BY <1>2 DEF Follows
<1>14. QED
  BY <1>1, <1>4, <1>5, <1>11, <1>12, <1>13, RemovesFollows DEF target

LEMMA Dup2CallFollows ==
    ASSUME IInv, FInv, NEW p, Dup2Call(p) PROVE FInv'
<1> DEFINE target == row[p].target
           old_fd == row[p].old_fd
           t == row[p].new
           r == Adding(t, target)
<1>1. p \in Pids /\ row[p].at = "onto" /\ UNCHANGED <<traced, tables, copy>>
  BY DEF Dup2Call, At
<1>2. InMiddle(p) /\ HoldsIts(p) /\ p \in Live /\ Follows(p) /\ Owed(p) = {t}
  BY <1>1 DEF FInv, InMiddle, IInv, Owed
<1>3. /\ target \in 0 .. ReplayLimit - 1 /\ target \in Nat /\ target \in hand[p]
      /\ hand[p] \subseteq {target} /\ Designates(old_fd, traced[p][t])
  BY <1>1, <1>2, OverlapAssumption DEF InMiddle, HoldsIts
<1>4. Goes(p, r, {target}) /\ open_fds' = Put(open_fds, target, traced[p][t])
  <2>1. Dup2Returns(open_fds, ReplayLimit, old_fd, target) = target
    BY <1>3 DEF Dup2Returns, Designates
  <2>2. Numbers({target}) = {target} /\ target # EBADF
    BY <1>3 DEF Numbers, EBADF, SYSCALL_FAILURE
  <2>3. QED
    BY <1>3, <2>1, <2>2 DEF Dup2Call, AfterDup2, Designates
<1> HIDE DEF target, old_fd, t
<1>5. r.at = "add" /\ r.fd = target /\ r.traced_fd = t
  BY DEF Adding
<1> HIDE DEF r
<1>6. /\ row'[p] = r /\ hand'[p] = {target}
      /\ \A q, n : InHand(q, n)' <=> IF q = p THEN n \in {target} ELSE InHand(q, n)
  BY <1>1, <1>4, GoesOn
<1>7. /\ Kept(p) /\ DOMAIN open_fds' = DOMAIN open_fds \cup {target}
      /\ open_fds'[target] = traced[p][t]
  BY <1>3, <1>4 DEF Kept, Put
<1>8. Follows(p)'
  <2>1. Owed(p)' = {t}
    BY <1>5, <1>6 DEF Owed
  <2>2. \A u \in DOMAIN traced[p] \ {t} : Still(tables[p][u].fd, traced[p][u])
    BY <1>1, <1>2, <1>7, EntriesStill
  <2>3. QED
    BY <1>1, <1>2, <2>1, <2>2 DEF Follows, Still, Designates
<1>9. InMiddle(p)'
  BY <1>1, <1>2, <1>5, <1>6, <1>7 DEF InMiddle, Designates, Live
<1>10. ASSUME NEW n \in DOMAIN open_fds' \ ReplayerFds PROVE Held(n)'
  <2>1. CASE n = target
    BY <1>6, <2>1 DEF Held, InCall
  <2>2. CASE n # target
    <3>1. Held(n)
      BY <1>7, <2>2 DEF FInv
    <3>2. ~InHand(p, n)
      BY <1>3, <2>2 DEF InHand
    <3>3. QED
      BY <1>1, <1>6, <3>1, <3>2 DEF Held, InEntry, InCopy, InCall, Entered, Copied
  <2>3. QED
    BY <2>1, <2>2
<1>11. DOMAIN open_fds' \subseteq 0 .. ReplayLimit - 1
  BY <1>3, <1>7 DEF FInv
<1>12. QED
  BY <1>1, <1>2, <1>4, <1>7, <1>8, <1>9, <1>10, <1>11, StepFollows DEF Live, FInv

\* What the call owes its table is entered.
LEMMA AddFollows ==
    ASSUME IInv, FInv, NEW p, Add(p) PROVE FInv'
<1>. PICK t, fd : t = row[p].traced_fd /\ fd = row[p].fd
  OBVIOUS
<1>1. /\ p \in Pids /\ row[p].at = "add" /\ Goes(p, Idle, {}) /\ Idle.at = "idle"
      /\ UNCHANGED <<traced, open_fds, copy>>
  BY DEF Add, At, Idle
<1>2. InMiddle(p) /\ p \in Live /\ Follows(p) /\ Owed(p) = {t} /\ copy[p] = <<>>
  BY <1>1 DEF FInv, InMiddle, Owed
<1>3. hand[p] \subseteq {fd} /\ Designates(fd, traced[p][t]) /\ t \in DOMAIN traced[p] /\ t \in TracedFds
  BY <1>1, <1>2 DEF InMiddle, Follows
<1>4. t # SYSCALL_FAILURE /\ t # AT_FDCWD
  BY <1>3, OverlapAssumption DEF TracedFds, SYSCALL_FAILURE, AT_FDCWD
<1>5. /\ DOMAIN tables' = Live /\ \A q \in Live \ {p} : tables'[q] = tables[q]
      /\ tables'[p] = Put(tables[p], t, Entry(fd, {}))
  BY <1>2, <1>4 DEF Add, Live, add_fd_entry
<1>6. /\ DOMAIN tables'[p] = DOMAIN tables[p] \cup {t} /\ tables'[p][t].fd = fd
      /\ \A u \in DOMAIN tables[p] \ {t} : tables'[p][u] = tables[p][u]
  BY <1>5 DEF Put, Entry
<1>7. /\ row'[p] = Idle /\ hand'[p] = {}
      /\ \A q, n : InHand(q, n)' <=> IF q = p THEN n \in {} ELSE InHand(q, n)
  BY <1>1, GoesOn
<1>8. Follows(p)'
  <2>1. Owed(p)' = {}
    BY <1>1, <1>7 DEF Owed
  <2>2. QED
    BY <1>1, <1>2, <1>3, <1>4, <1>6, <2>1 DEF Follows, Designates
<1>9. InMiddle(p)'
  BY <1>1, <1>2, <1>7 DEF InMiddle
<1>10. ASSUME NEW n \in DOMAIN open_fds' \ ReplayerFds PROVE Held(n)'
  <2>1. Held(n)
    BY <1>1 DEF FInv
  <2>2. ASSUME NEW q, NEW u, Entered(q, u, n) PROVE Entered(q, u, n)'
    <3>1. q = p => u # t
      BY <1>2, <1>4, <2>2 DEF Entered, Follows
    <3>2. QED
      BY <1>5, <1>6, <2>2, <3>1 DEF Entered, Live
  <2>3. InHand(p, n) => Entered(p, t, n)'
    BY <1>2, <1>3, <1>5, <1>6 DEF InHand, Entered
  <2>4. QED
    BY <1>1, <1>7, <2>1, <2>2, <2>3 DEF Held, InEntry, InCopy, InCall, Copied
<1>11. Kept(p)
  BY <1>1 DEF Kept
<1>12. QED
  BY <1>1, <1>2, <1>5, <1>8, <1>9, <1>10, <1>11, StepFollows DEF Live, FInv

LEMMA ExitFollows ==
    ASSUME IInv, FInv, NEW p, Exit(p) PROVE FInv'
<1> DEFINE fds == all_replayed_fds(tables[p])
<1>1. /\ p \in Pids /\ p \in Live /\ row[p].at = "idle"
      /\ Goes(p, Closing, Numbers(fds)) /\ Closing.at = "close"
      /\ UNCHANGED <<open_fds, copy>>
  BY DEF Exit, Begins, At, Closing
<1>2. hand[p] = {} /\ copy[p] = <<>>
  BY <1>1 DEF FInv, InMiddle
<1>3. /\ DOMAIN tables' = Live \ {p} /\ DOMAIN traced' = Live \ {p}
      /\ \A q \in Live \ {p} : tables'[q] = tables[q] /\ traced'[q] = traced[q]
  BY DEF Exit, Without, Live, FInv
<1>4. /\ row'[p] = Closing
      /\ \A q, n : InHand(q, n)' <=> IF q = p THEN n \in Numbers(fds) ELSE InHand(q, n)
  BY <1>1, GoesOn
<1>5. InMiddle(p)'
  BY <1>1, <1>2, <1>4 DEF InMiddle
<1>6. ASSUME NEW n \in DOMAIN open_fds' \ ReplayerFds PROVE Held(n)'
  <2>1. Held(n) /\ n \in Nat
    BY <1>1, OverlapAssumption DEF FInv
  <2>2. ASSUME NEW q, NEW u, Entered(q, u, n) PROVE Held(n)'
    <3>1. CASE q = p
      <4>1. n \in Numbers(fds)
        BY <2>1, <2>2, <3>1 DEF Entered, all_replayed_fds, Numbers
      <4>2. QED
        BY <1>4, <4>1 DEF Held, InCall
    <3>2. CASE q # p
      <4>1. Entered(q, u, n)'
        BY <1>3, <2>2, <3>2 DEF Entered, Live
      <4>2. QED
        BY <4>1 DEF Held, InEntry
    <3>3. QED
      BY <3>1, <3>2
  <2>3. ~InHand(p, n)
    BY <1>2 DEF InHand
  <2>4. QED
    BY <1>1, <1>4, <2>1, <2>2, <2>3 DEF Held, InEntry, InCopy, InCall, Copied
<1>7. Kept(p)
  BY <1>1 DEF Kept
<1>8. QED
  BY <1>1, <1>3, <1>5, <1>6, <1>7, StepFollows DEF Live, FInv

LEMMA CloseOneFollows ==
    ASSUME IInv, FInv, NEW p, CloseOne(p) PROVE FInv'
<1>1. p \in Pids /\ UNCHANGED <<traced, tables, copy>> /\ row[p].at = "close"
  BY DEF CloseOne, At
<1>2. PICK r, rest : /\ Goes(p, r, rest) /\ r.at \in {"idle", "close"}
                     /\ r.at = "idle" => rest = {}
                     /\ \/ hand[p] = {} /\ rest = {} /\ open_fds' = open_fds
                        \/ \E m \in hand[p] : /\ rest = hand[p] \ {m}
                                              /\ open_fds' = Closed(open_fds, m)
  BY DEF CloseOne, Idle, Closing
<1>3. /\ row'[p] = r /\ hand'[p] = rest
      /\ \A q, n : InHand(q, n)' <=> IF q = p THEN n \in rest ELSE InHand(q, n)
  BY <1>1, <1>2, GoesOn
<1>4. /\ Kept(p) /\ DOMAIN open_fds' \subseteq DOMAIN open_fds
      /\ \A n \in DOMAIN open_fds' : n \in hand[p] => n \in rest
  BY <1>2 DEF Kept, Closed, Without
<1>5. InMiddle(p)'
  BY <1>1, <1>2, <1>3 DEF InMiddle, FInv
<1>6. ASSUME p \in Live' PROVE Follows(p)'
  <2>1. p \in Live /\ Follows(p) /\ Owed(p) = {} /\ Owed(p)' = {}
    BY <1>1, <1>2, <1>3, <1>6 DEF Live, FInv, Owed
  <2>2. \A u \in DOMAIN traced[p] : Still(tables[p][u].fd, traced[p][u])
    BY <1>1, <1>4, <2>1, EntriesStill
  <2>3. QED
    BY <1>1, <2>1, <2>2 DEF Follows, Still, Designates
<1>7. ASSUME NEW n \in DOMAIN open_fds' \ ReplayerFds PROVE Held(n)'
  <2>1. Held(n)
    BY <1>4 DEF FInv
  <2>2. InHand(p, n) => InHand(p, n)'
    BY <1>1, <1>3, <1>4 DEF InHand
  <2>3. QED
    BY <1>1, <1>3, <2>1, <2>2 DEF Held, InEntry, InCopy, InCall, Entered, Copied
<1>8. QED
  BY <1>1, <1>2, <1>4, <1>5, <1>6, <1>7, StepFollows DEF Live, FInv

LEMMA CloneFollows ==
    ASSUME IInv, FInv, NEW p, NEW child, Clone(p, child) PROVE FInv'
<1> DEFINE r == Copying(child, DOMAIN tables[p])
<1>1. /\ p \in Pids /\ p \in Live /\ row[p].at = "idle" /\ Goes(p, r, {})
      /\ UNCHANGED <<traced, tables, open_fds, copy>>
  BY DEF Clone, Begins, At
<1>2. r.at = "copy" /\ r.todo = DOMAIN tables[p]
  BY DEF Copying
<1> HIDE DEF r
<1>3. /\ row'[p] = r /\ hand'[p] = {}
      /\ \A q, n : InHand(q, n)' <=> IF q = p THEN n \in {} ELSE InHand(q, n)
  BY <1>1, GoesOn
<1>4. InMiddle(p) /\ hand[p] = {} /\ copy[p] = <<>> /\ DOMAIN <<>> = {}
  BY <1>1 DEF FInv, InMiddle
<1>5. InMiddle(p)'
  BY <1>1, <1>2, <1>3, <1>4 DEF InMiddle, Live
<1>6. Follows(p)'
  BY <1>1, <1>2, <1>3 DEF Follows, FInv, Owed, Designates
<1>7. ASSUME NEW n \in DOMAIN open_fds' \ ReplayerFds PROVE Held(n)'
  <2>1. Held(n) /\ ~InHand(p, n)
    BY <1>1, <1>4 DEF FInv, InHand
  <2>2. QED
    BY <1>1, <1>3, <2>1 DEF Held, InEntry, InCopy, InCall, Entered, Copied
<1>8. Kept(p)
  BY <1>1 DEF Kept
<1>9. QED
  BY <1>1, <1>5, <1>6, <1>7, <1>8, StepFollows DEF Live, FInv

\* The copy of an entry designates what the entry does.
LEMMA CopyOneFollows ==
    ASSUME IInv, FInv, HasRoom, NEW p, NEW t, CopyOne(p, t) PROVE FInv'
<1> DEFINE old_fd == tables[p][t].fd
           new == IF old_fd > 0 THEN DupReturns(open_fds, ReplayLimit, old_fd) ELSE old_fd
           r == Copying(row[p].child, row[p].todo \ {t})
<1>1. /\ p \in Pids /\ row[p].at = "copy" /\ t \in row[p].todo /\ Goes(p, r, {})
      /\ UNCHANGED <<traced, tables>>
      /\ open_fds' = IF old_fd > 0 THEN AfterDup(open_fds, ReplayLimit, old_fd) ELSE open_fds
      /\ copy' = [copy EXCEPT ![p] = add_fd_entry(@, t, new, tables[p][t].flags)]
  BY DEF CopyOne, At, IsLowest
<1>2. /\ InMiddle(p) /\ p \in Live /\ Follows(p) /\ Owed(p) = {} /\ hand[p] = {}
      /\ t \in DOMAIN tables[p] /\ DOMAIN copy[p] = DOMAIN tables[p] \ row[p].todo
  BY <1>1 DEF FInv, InMiddle, IInv, Copies, Owed
<1>3. t # SYSCALL_FAILURE
  BY <1>2, OverlapAssumption DEF Follows, TracedFds, SYSCALL_FAILURE, AT_FDCWD
<1>4. /\ Kept(p) /\ DOMAIN open_fds' \subseteq DOMAIN open_fds \cup {new}
      /\ DOMAIN open_fds' \subseteq 0 .. ReplayLimit - 1
      /\ IF t = AT_FDCWD THEN new = AT_FDCWD ELSE Still(new, traced[p][t])
  <2>1. CASE t = AT_FDCWD
    BY <1>1, <1>2, <2>1 DEF Follows, AT_FDCWD, Kept, FInv
  <2>2. CASE t # AT_FDCWD
    <3>1. Designates(old_fd, traced[p][t]) /\ Entered(p, t, old_fd) /\ old_fd \in Nat
      BY <1>2, <2>2, OverlapAssumption DEF Follows, Entered, Live, Designates, FInv
    <3>2. old_fd > 0
      <4>1. InOne(old_fd)
        BY <3>1 DEF IInv, AllInOne
      <4>2. old_fd # 0
        BY <3>1, <4>1, OverlapAssumption DEF InOne, InEntry
      <4>3. QED
        BY <3>1, <4>2
    <3>3. new = NewFd(open_fds, ReplayLimit) /\ open_fds' = Opened(open_fds, new, traced[p][t])
      BY <1>1, <3>1, <3>2 DEF DupReturns, AfterDup, Designates
    <3>4. new \in (0 .. ReplayLimit - 1) \ DOMAIN open_fds /\ new # SYSCALL_FAILURE
      BY <3>3, NewFdWithRoom, OverlapAssumption DEF HasRoom
    <3> HIDE DEF new, old_fd
    <3>5. open_fds' = Put(open_fds, new, traced[p][t])
      BY <3>3, <3>4 DEF Opened
    <3>6. QED
      BY <2>2, <3>4, <3>5 DEF Put, Kept, Still, FInv
  <2>3. QED
    BY <2>1, <2>2
<1> HIDE DEF new, old_fd
<1>5. copy' = [copy EXCEPT ![p] = Put(copy[p], t, Entry(new, tables[p][t].flags))]
  BY <1>1, <1>3 DEF add_fd_entry
<1>6. /\ DOMAIN copy' = Pids /\ \A q \in Pids \ {p} : copy'[q] = copy[q]
      /\ DOMAIN copy'[p] = DOMAIN copy[p] \cup {t} /\ copy'[p][t].fd = new
      /\ \A u \in DOMAIN copy[p] \ {t} : copy'[p][u] = copy[p][u]
  BY <1>1, <1>5 DEF Put, Entry, IInv
<1>7. r.at = "copy" /\ r.todo = row[p].todo \ {t}
  BY DEF Copying
<1> HIDE DEF r
<1>8. /\ row'[p] = r /\ hand'[p] = {}
      /\ \A q, n : InHand(q, n)' <=> IF q = p THEN n \in {} ELSE InHand(q, n)
  BY <1>1, GoesOn
<1>9. Follows(p)'
  <2>1. Owed(p)' = {}
    BY <1>7, <1>8 DEF Owed
  <2>2. \A u \in DOMAIN traced[p] : Still(tables[p][u].fd, traced[p][u])
    BY <1>1, <1>2, <1>4, EntriesStill
  <2>3. QED
    BY <1>1, <1>2, <2>1, <2>2 DEF Follows, Still, Designates
<1>10. InMiddle(p)'
  <2>1. ASSUME NEW u \in DOMAIN copy'[p]
        PROVE  IF u = AT_FDCWD THEN copy'[p][u].fd = AT_FDCWD
               ELSE Still(copy'[p][u].fd, traced[p][u])
    <3>1. CASE u = t
      BY <1>4, <1>6, <3>1
    <3>2. CASE u # t
      <4>1. u \in DOMAIN copy[p] /\ copy'[p][u] = copy[p][u]
        BY <1>6, <3>2
      <4>2. u = AT_FDCWD => copy[p][u].fd = AT_FDCWD
        BY <1>1, <1>2, <4>1 DEF InMiddle
      <4>3. u # AT_FDCWD => Still(copy[p][u].fd, traced[p][u])
        BY <1>1, <1>4, <4>1, CopiesStill
      <4>4. QED
        BY <4>1, <4>2, <4>3
    <3>3. QED
      BY <3>1, <3>2
  <2>2. DOMAIN copy'[p] = DOMAIN tables'[p] \ row'[p].todo
    BY <1>1, <1>2, <1>6, <1>7, <1>8
  <2>3. p \in Live'
    BY <1>1, <1>2 DEF Live
  <2>4. QED
    BY <1>1, <1>7, <1>8, <2>1, <2>2, <2>3 DEF InMiddle, Still, Designates
<1>11. ASSUME NEW n \in DOMAIN open_fds' \ ReplayerFds PROVE Held(n)'
  <2>1. CASE n = new
    BY <1>1, <1>6, <2>1 DEF Held, InCopy, Copied
  <2>2. CASE n # new
    <3>1. Held(n) /\ ~InHand(p, n)
      BY <1>2, <1>4, <2>2 DEF FInv, InHand
    <3>2. ASSUME NEW q, NEW u, Copied(q, u, n) PROVE Copied(q, u, n)'
      <4>1. q = p => u # t
        BY <1>1, <1>2, <3>2 DEF Copied
      <4>2. QED
        BY <1>6, <3>2, <4>1 DEF Copied, IInv
    <3>3. QED
      BY <1>1, <1>8, <3>1, <3>2 DEF Held, InEntry, InCopy, InCall, Entered
  <2>3. QED
    BY <2>1, <2>2
<1>12. QED
  BY <1>1, <1>2, <1>4, <1>6, <1>9, <1>10, <1>11, StepFollows DEF Live, FInv

\* The child has its parent's descriptors, in the trace and in the copy.
LEMMA PublishFollows ==
    ASSUME IInv, FInv, NEW p, Publish(p) PROVE FInv'
<1>. PICK child : child = row[p].child
  OBVIOUS
<1>1. /\ p \in Pids /\ row[p].at = "copy" /\ row[p].todo = {}
      /\ Goes(p, Idle, {}) /\ Idle.at = "idle"
      /\ traced' = Put(traced, child, traced[p])
      /\ tables' = Put(tables, child, copy[p]) /\ copy' = [copy EXCEPT ![p] = <<>>]
      /\ UNCHANGED open_fds
  BY DEF Publish, At, Idle
<1>2. /\ InMiddle(p) /\ p \in Live /\ Follows(p) /\ Owed(p) = {} /\ hand[p] = {}
      /\ DOMAIN copy[p] = DOMAIN tables[p] /\ child \in Pids \ Live
  BY <1>1 DEF FInv, InMiddle, IInv, Copies, Owed
<1>3. /\ row'[p] = Idle /\ hand'[p] = {}
      /\ \A q \in Pids \ {p} : row'[q] = row[q] /\ hand'[q] = hand[q]
      /\ \A q, n : InHand(q, n)' <=> IF q = p THEN n \in {} ELSE InHand(q, n)
  BY <1>1, GoesOn
<1>4. /\ DOMAIN copy' = Pids /\ copy'[p] = <<>> /\ \A q \in Pids \ {p} : copy'[q] = copy[q]
  BY <1>1 DEF IInv
<1>5. /\ Live' = Live \cup {child} /\ DOMAIN traced' = Live'
      /\ tables'[child] = copy[p] /\ traced'[child] = traced[p]
      /\ \A q \in Live : tables'[q] = tables[q] /\ traced'[q] = traced[q]
  BY <1>1, <1>2 DEF Put, Live, FInv
<1>6. Kept(p)
  BY <1>1 DEF Kept
<1>7. /\ \A q \in Live \ {p} : Follows(q)'
      /\ \A q \in Pids \ {p} : InMiddle(q)'
  BY <1>1, <1>3, <1>4, <1>5, <1>6, OthersFollow
<1>8. Follows(p)' /\ InMiddle(p)'
  BY <1>1, <1>2, <1>3, <1>4, <1>5 DEF Follows, InMiddle, Owed, Designates
<1>9. Follows(child)'
  <2>1. InMiddle(child) /\ child # p /\ row'[child] = row[child]
    BY <1>2, <1>3 DEF FInv
  <2>2. Owed(child)' = {}
    BY <1>2, <2>1 DEF InMiddle, Owed
  <2>3. /\ DOMAIN copy[p] = {AT_FDCWD} \cup DOMAIN traced[p] /\ copy[p][AT_FDCWD].fd = AT_FDCWD
        /\ AT_FDCWD \notin DOMAIN traced[p]
    BY <1>1, <1>2, OverlapAssumption DEF Follows, InMiddle, TracedFds, AT_FDCWD
  <2>4. \A t \in DOMAIN traced[p] : Designates(copy[p][t].fd, traced[p][t])
    BY <1>1, <1>2, <2>3 DEF InMiddle
  <2>5. QED
    BY <1>1, <1>2, <1>5, <2>2, <2>3, <2>4 DEF Follows, Designates
<1>10. ASSUME NEW n \in DOMAIN open_fds' \ ReplayerFds PROVE Held(n)'
  <2>1. Held(n) /\ ~InHand(p, n)
    BY <1>1, <1>2 DEF FInv, InHand
  <2>2. ASSUME NEW q, NEW u, Copied(q, u, n) PROVE Held(n)'
    <3>1. CASE q = p
      <4>1. Entered(child, u, n)'
        BY <1>5, <2>2, <3>1 DEF Copied, Entered, Live
      <4>2. QED
        BY <4>1 DEF Held, InEntry
    <3>2. CASE q # p
      <4>1. Copied(q, u, n)'
        BY <1>4, <2>2, <3>2 DEF Copied, IInv
      <4>2. QED
        BY <4>1 DEF Held, InCopy
    <3>3. QED
      BY <3>1, <3>2
  <2>3. ASSUME NEW q, NEW u, Entered(q, u, n) PROVE Entered(q, u, n)'
    BY <1>5, <2>3 DEF Entered, Live
  <2>4. QED
    BY <1>3, <2>1, <2>2, <2>3 DEF Held, InEntry, InCopy, InCall
<1>11. QED
  BY <1>1, <1>5, <1>7, <1>8, <1>9, <1>10 DEF FInv

-----------------------------------------------------------------------------
LEMMA InitFollows == Init => FInv
<1> SUFFICES ASSUME Init PROVE FInv
  OBVIOUS
<1>1. /\ \A p \in Pids : row[p].at = "idle" /\ hand[p] = {} /\ copy[p] = <<>>
      /\ DOMAIN open_fds = ReplayerFds /\ Live = {Root}
  BY DEF Init, Idle, Live
<1>2. /\ DOMAIN tables[Root] = {AT_FDCWD} /\ tables[Root][AT_FDCWD].fd = AT_FDCWD
      /\ DOMAIN traced = {Root} /\ DOMAIN traced[Root] = {}
  BY DEF Init, Entry
<1>3. Follows(Root)
  BY <1>1, <1>2, OverlapAssumption DEF Follows, Owed
<1>4. \A p \in Pids : InMiddle(p)
  BY <1>1 DEF InMiddle
<1>5. QED
  BY <1>1, <1>2, <1>3, <1>4, OverlapAssumption DEF FInv

LEMMA NextFollows ==
    ASSUME "dup2_new" \notin Kinds, IInv, FInv, HasRoom, [Next]_vars
    PROVE  FInv'
<1>1. ASSUME NEW p \in Pids, NEW file \in Files, Open(p, file) \/ OpenFails(p, file)
      PROVE  FInv'
  BY <1>1, OpenFollows, OpenFailsFollows
<1>2. ASSUME NEW p \in Pids, NEW t \in TracedFds, Close(p, t) \/ Dup(p, t) PROVE FInv'
  BY <1>2, CloseFollows, DupFollows
<1>3. ASSUME NEW p \in Pids, NEW old \in TracedFds, NEW new \in TracedFds,
             Dup2Over(p, old, new) \/ Dup2New(p, old, new)
      PROVE  FInv'
  <2>1. ~Dup2New(p, old, new)
    BY DEF Dup2New, Begins
  <2>2. QED
    BY <1>3, <2>1, Dup2OverFollows
<1>4. ASSUME NEW p \in Pids, Exit(p) \/ CloseOne(p) \/ Dup2Call(p) \/ Add(p) PROVE FInv'
  BY <1>4, ExitFollows, CloseOneFollows, Dup2CallFollows, AddFollows
<1>5. ASSUME NEW p \in Pids, NEW child \in Pids, Clone(p, child) PROVE FInv'
  BY <1>5, CloneFollows
<1>6. ASSUME NEW p \in Pids, NEW t \in EntryFds, CopyOne(p, t) PROVE FInv'
  BY <1>6, CopyOneFollows
<1>7. ASSUME NEW p \in Pids, Publish(p) PROVE FInv'
  BY <1>7, PublishFollows
<1>8. CASE UNCHANGED vars
  <2>1. /\ \A p : Follows(p)' <=> Follows(p)
        /\ \A p : InMiddle(p)' <=> InMiddle(p)
        /\ \A n : Held(n)' <=> Held(n)
    BY <1>8 DEF vars, Follows, InMiddle, Held, Owed, Designates, Live, InEntry, InCopy, InCall,
       Entered, Copied, InHand
  <2>2. QED
    BY <1>8, <2>1 DEF vars, FInv, Live
<1>9. QED
  BY <1>1, <1>2, <1>3, <1>4, <1>5, <1>6, <1>7, <1>8 DEF Next

LEMMA Following ==
    ASSUME "dup2_new" \notin Kinds
    PROVE  Spec /\ []HasRoom => [](IInv /\ FInv)
<1>1. Init => IInv /\ FInv
  BY InitIsGood, InitFollows
<1>2. IInv /\ FInv /\ HasRoom /\ [Next]_vars => IInv' /\ FInv'
  BY NextIsGood, NextFollows
<1>3. QED
  BY <1>1, <1>2, PTL DEF Spec

(* With the same calls, and as long as the replayer has a free number:      *)
(* whatever is open is held by an entry, a copy or a call, at every moment  *)
(* of any number of overlapping calls.                                     *)
THEOREM NothingIsLost == "dup2_new" \notin Kinds => (Spec /\ []HasRoom => []NothingLost)
<1> SUFFICES ASSUME "dup2_new" \notin Kinds PROVE Spec /\ []HasRoom => []NothingLost
  OBVIOUS
<1>1. ASSUME IInv, FInv PROVE NothingLost
  <2> SUFFICES ASSUME NEW n \in DOMAIN open_fds \ ReplayerFds PROVE Places(n) # {}
    BY DEF NothingLost
  <2>1. Held(n)
    BY <1>1 DEF FInv
  <2>2. CASE InEntry(n)
    <3>1. PICK p, t : Entered(p, t, n)
      BY <2>2 DEF InEntry
    <3>2. <<p, t>> \in EntriesWith(tables, n)
      BY <3>1 DEF Entered, EntriesWith
    <3>3. <<"entry", <<p, t>>>> \in Places(n)
      BY <3>2 DEF Places
    <3>4. QED
      BY <3>3
  <2>3. CASE InCopy(n)
    <3>1. PICK p, t : Copied(p, t, n)
      BY <2>3 DEF InCopy
    <3>2. <<p, t>> \in EntriesWith(copy, n)
      BY <3>1 DEF Copied, EntriesWith
    <3>3. <<"copy", <<p, t>>>> \in Places(n)
      BY <3>2 DEF Places
    <3>4. QED
      BY <3>3
  <2>4. CASE InCall(n)
    <3>1. PICK p \in Pids : n \in hand[p]
      BY <2>4 DEF InCall, InHand
    <3>2. <<"call", p>> \in Places(n)
      BY <3>1 DEF Places
    <3>3. QED
      BY <3>2
  <2>5. QED
    BY <2>1, <2>2, <2>3, <2>4 DEF Held
<1>2. QED
  BY <1>1, Following, PTL

(* And an entry designates the file of its traced descriptor whatever the   *)
(* other threads are in the middle of; a process between two calls has an   *)
(* entry for each of its traced descriptors.                               *)
THEOREM FilesFollow == "dup2_new" \notin Kinds => (Spec /\ []HasRoom => []SameFiles)
<1> SUFFICES ASSUME "dup2_new" \notin Kinds PROVE Spec /\ []HasRoom => []SameFiles
  OBVIOUS
<1>1. ASSUME IInv, FInv PROVE SameFiles
  <2> SUFFICES ASSUME NEW p \in Live
               PROVE  /\ \A t \in DOMAIN tables[p] \ {AT_FDCWD} :
                            /\ t \in DOMAIN traced[p]
                            /\ tables[p][t].fd \in DOMAIN open_fds
                            /\ open_fds[tables[p][t].fd] = traced[p][t]
                      /\ At(p, "idle") => DOMAIN traced[p] \subseteq DOMAIN tables[p]
    BY DEF SameFiles
  <2>1. Follows(p)
    BY <1>1 DEF FInv
  <2>2. QED
    BY <2>1 DEF Follows, Designates, Owed, At
<1>2. QED
  BY <1>1, Following, PTL
=============================================================================
