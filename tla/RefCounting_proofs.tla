------------------------- MODULE RefCounting_proofs -------------------------
(***************************************************************************)
(* Each operator of RefCounting keeps the counts exact, for any number of  *)
(* processes and whatever the entries hold.                                *)
(***************************************************************************)
EXTENDS RefCounting, FiniteSetTheorems, TLAPS

\* A map of at most finitely many processes into a heap whose entries hold
\* members of V at addresses of A.
IsHeap(S, A, V) ==
    /\ S = [of |-> S.of, rc |-> S.rc, val |-> S.val]
    /\ IsFiniteSet(DOMAIN S.of)
    /\ S.of \in [DOMAIN S.of -> A]
    /\ S.rc \in [DOMAIN S.rc -> Nat]
    /\ S.val \in [DOMAIN S.rc -> V]

GoodHeap(S, A, V) == IsHeap(S, A, V) /\ Consistent(S)

-----------------------------------------------------------------------------
(* The processes that point at an entry are finitely many, at least one, and *)
(* rc_ says how many.                                                      *)
LEMMA HoldersCounted ==
    ASSUME NEW S, NEW A, NEW V, GoodHeap(S, A, V), NEW a \in DOMAIN S.rc
    PROVE  /\ IsFiniteSet(Holders(S, a))
           /\ Cardinality(Holders(S, a)) = S.rc[a]
           /\ S.rc[a] \in Nat \ {0}
<1>1. Holders(S, a) \in SUBSET DOMAIN S.of
    BY DEF Holders
<1>2. IsFiniteSet(Holders(S, a))
    BY <1>1, FS_Subset DEF GoodHeap, IsHeap
<1>3. Cardinality(Holders(S, a)) = S.rc[a]
    BY DEF GoodHeap, Consistent, Counted
<1>4. Holders(S, a) # {} /\ S.rc[a] \in Nat
    BY DEF GoodHeap, IsHeap, Consistent, NoOrphan
<1>5. QED
    BY <1>2, <1>3, <1>4, FS_EmptySet

-----------------------------------------------------------------------------
(* A new entry for a new process: clone_* without sharing.                  *)
LEMMA CreatedIsGood ==
    ASSUME NEW S, NEW A, NEW V, GoodHeap(S, A, V),
           NEW p, p \notin DOMAIN S.of, NEW a \in A \ DOMAIN S.rc, NEW v \in V
    PROVE  /\ GoodHeap(Created(S, p, a, v), A, V)
           /\ DOMAIN Created(S, p, a, v).of = DOMAIN S.of \cup {p}
<1> DEFINE T == Created(S, p, a, v)
<1>1. /\ T = [of |-> T.of, rc |-> T.rc, val |-> T.val]
      /\ T.of = Put(S.of, p, a) /\ T.rc = Put(S.rc, a, 1) /\ T.val = Put(S.val, a, v)
    BY DEF Created
<1>2. /\ T.of \in [DOMAIN S.of \cup {p} -> A]
      /\ T.of[p] = a /\ \A q \in DOMAIN S.of : T.of[q] = S.of[q]
    BY <1>1 DEF Put, GoodHeap, IsHeap
<1>3. /\ T.rc \in [DOMAIN S.rc \cup {a} -> Nat]
      /\ T.rc[a] = 1 /\ \A b \in DOMAIN S.rc : T.rc[b] = S.rc[b]
    BY <1>1 DEF Put, GoodHeap, IsHeap
<1>4. T.val \in [DOMAIN S.rc \cup {a} -> V]
    BY <1>1 DEF Put, GoodHeap, IsHeap
<1>5. IsHeap(T, A, V)
    BY <1>1, <1>2, <1>3, <1>4, FS_AddElement DEF GoodHeap, IsHeap
<1>6. \A q \in DOMAIN S.of : S.of[q] \in DOMAIN S.rc
    BY DEF GoodHeap, Consistent, NoDangling
<1>7. Holders(T, a) = {p}
    BY <1>2, <1>6 DEF Holders
<1>8. \A b \in DOMAIN S.rc : Holders(T, b) = Holders(S, b)
    BY <1>2 DEF Holders
<1>9. Consistent(T)
  <2>1. NoDangling(T)
    BY <1>2, <1>3, <1>6 DEF NoDangling
  <2>2. NoOrphan(T)
    BY <1>3, <1>7, <1>8 DEF NoOrphan, GoodHeap, Consistent
  <2>3. Counted(T)
    <3>1. Cardinality({p}) = 1
      BY FS_Singleton
    <3>2. QED
      BY <1>3, <1>7, <1>8, <3>1 DEF Counted, GoodHeap, Consistent
  <2>4. QED
    BY <2>1, <2>2, <2>3 DEF Consistent
<1>10. QED
    BY <1>2, <1>5, <1>9 DEF GoodHeap

(* One more process at an entry: clone_* with sharing.                      *)
LEMMA SharedIsGood ==
    ASSUME NEW S, NEW A, NEW V, GoodHeap(S, A, V),
           NEW p \in DOMAIN S.of, NEW c, c \notin DOMAIN S.of
    PROVE  /\ GoodHeap(Shared(S, p, c), A, V)
           /\ DOMAIN Shared(S, p, c).of = DOMAIN S.of \cup {c}
<1> DEFINE T == Shared(S, p, c)
           a == S.of[p]
<1>0. a \in DOMAIN S.rc /\ a \in A
    BY DEF GoodHeap, IsHeap, Consistent, NoDangling
<1>1. /\ T = [of |-> T.of, rc |-> T.rc, val |-> T.val]
      /\ T.of = Put(S.of, c, a) /\ T.rc = [S.rc EXCEPT ![a] = @ + 1] /\ T.val = S.val
    BY <1>0 DEF Shared, GoodHeap, IsHeap
<1>2. /\ T.of \in [DOMAIN S.of \cup {c} -> A]
      /\ T.of[c] = a /\ \A q \in DOMAIN S.of : T.of[q] = S.of[q]
    BY <1>0, <1>1 DEF Put, GoodHeap, IsHeap
<1>3. /\ T.rc \in [DOMAIN S.rc -> Nat]
      /\ T.rc[a] = S.rc[a] + 1 /\ \A b \in DOMAIN S.rc \ {a} : T.rc[b] = S.rc[b]
    BY <1>0, <1>1 DEF GoodHeap, IsHeap
<1>4. IsHeap(T, A, V)
    BY <1>1, <1>2, <1>3, FS_AddElement DEF GoodHeap, IsHeap
<1>5. Holders(T, a) = Holders(S, a) \cup {c} /\ c \notin Holders(S, a)
    BY <1>2 DEF Holders
<1>6. \A b \in DOMAIN S.rc \ {a} : Holders(T, b) = Holders(S, b)
    BY <1>2 DEF Holders
<1>7. Cardinality(Holders(T, a)) = S.rc[a] + 1
  <2>1. IsFiniteSet(Holders(S, a)) /\ Cardinality(Holders(S, a)) = S.rc[a]
    BY <1>0, HoldersCounted
  <2>2. Cardinality(Holders(S, a) \cup {c}) =
            IF c \in Holders(S, a) THEN Cardinality(Holders(S, a))
            ELSE Cardinality(Holders(S, a)) + 1
    BY <2>1, FS_AddElement
  <2>3. QED
    BY <1>5, <2>1, <2>2
<1>8. Consistent(T)
  <2>1. NoDangling(T)
    BY <1>0, <1>2, <1>3 DEF NoDangling, GoodHeap, Consistent
  <2>2. NoOrphan(T)
    BY <1>3, <1>5, <1>6 DEF NoOrphan, GoodHeap, Consistent
  <2>3. Counted(T)
    BY <1>3, <1>6, <1>7 DEF Counted, GoodHeap, Consistent
  <2>4. QED
    BY <2>1, <2>2, <2>3 DEF Consistent
<1>9. QED
    BY <1>2, <1>4, <1>8 DEF GoodHeap

(* A process leaves: remove_*. The entry goes with the last one.             *)
LEMMA DroppedIsGood ==
    ASSUME NEW S, NEW A, NEW V, GoodHeap(S, A, V), NEW p \in DOMAIN S.of
    PROVE  /\ GoodHeap(Dropped(S, p), A, V)
           /\ DOMAIN Dropped(S, p).of = DOMAIN S.of \ {p}
           /\ LastReference(S, p) <=> Holders(S, S.of[p]) = {p}
<1> DEFINE T == Dropped(S, p)
           a == S.of[p]
<1>0. a \in DOMAIN S.rc /\ a \in A /\ p \in Holders(S, a)
    BY DEF GoodHeap, IsHeap, Consistent, NoDangling, Holders
<1>1. /\ IsFiniteSet(Holders(S, a)) /\ Cardinality(Holders(S, a)) = S.rc[a]
      /\ S.rc[a] \in Nat \ {0}
    BY <1>0, HoldersCounted
<1>2. LastReference(S, p) <=> Holders(S, a) = {p}
  <2>1. LastReference(S, p) <=> S.rc[a] = 1
    BY <1>1 DEF LastReference
  <2>2. S.rc[a] = 1 <=> \E x : Holders(S, a) = {x}
    BY <1>1, FS_Singleton
  <2>3. QED
    BY <1>0, <2>1, <2>2
<1>3. IsFiniteSet(DOMAIN S.of \ {p})
    BY FS_RemoveElement DEF GoodHeap, IsHeap
<1>4. CASE LastReference(S, p)
  <2>1. /\ T = [of |-> T.of, rc |-> T.rc, val |-> T.val]
        /\ T.of = Without(S.of, p) /\ T.rc = Without(S.rc, a) /\ T.val = Without(S.val, a)
    BY <1>4 DEF Dropped
  <2>2. /\ T.of \in [DOMAIN S.of \ {p} -> A]
        /\ \A q \in DOMAIN S.of \ {p} : T.of[q] = S.of[q]
    BY <2>1 DEF Without, GoodHeap, IsHeap
  <2>3. /\ T.rc \in [DOMAIN S.rc \ {a} -> Nat]
        /\ \A b \in DOMAIN S.rc \ {a} : T.rc[b] = S.rc[b]
    BY <2>1 DEF Without, GoodHeap, IsHeap
  <2>4. T.val \in [DOMAIN S.rc \ {a} -> V]
    BY <2>1 DEF Without, GoodHeap, IsHeap
  <2>5. IsHeap(T, A, V)
    BY <1>3, <2>1, <2>2, <2>3, <2>4 DEF IsHeap
  <2>6. \A b \in DOMAIN S.rc \ {a} : Holders(T, b) = Holders(S, b)
    BY <2>2 DEF Holders
  <2>7. \A q \in DOMAIN S.of \ {p} : S.of[q] # a
    BY <1>2, <1>4 DEF Holders
  <2>8. NoDangling(T)
    BY <2>2, <2>3, <2>7 DEF NoDangling, GoodHeap, Consistent
  <2>9. NoOrphan(T) /\ Counted(T)
    BY <2>3, <2>6 DEF NoOrphan, Counted, GoodHeap, Consistent
  <2>10. QED
    BY <1>2, <2>2, <2>5, <2>8, <2>9 DEF GoodHeap, Consistent
<1>5. CASE ~LastReference(S, p)
  <2>1. /\ T = [of |-> T.of, rc |-> T.rc, val |-> T.val]
        /\ T.of = Without(S.of, p) /\ T.rc = [S.rc EXCEPT ![a] = @ - 1] /\ T.val = S.val
    BY <1>0, <1>5 DEF Dropped, GoodHeap, IsHeap
  <2>2. /\ T.of \in [DOMAIN S.of \ {p} -> A]
        /\ \A q \in DOMAIN S.of \ {p} : T.of[q] = S.of[q]
    BY <2>1 DEF Without, GoodHeap, IsHeap
  <2>3. /\ T.rc \in [DOMAIN S.rc -> Nat]
        /\ T.rc[a] = S.rc[a] - 1 /\ \A b \in DOMAIN S.rc \ {a} : T.rc[b] = S.rc[b]
    BY <1>0, <1>1, <2>1 DEF GoodHeap, IsHeap
  <2>4. IsHeap(T, A, V)
    BY <1>3, <2>1, <2>2, <2>3 DEF GoodHeap, IsHeap
  <2>5. Holders(T, a) = Holders(S, a) \ {p}
    BY <2>2 DEF Holders
  <2>6. \A b \in DOMAIN S.rc \ {a} : Holders(T, b) = Holders(S, b)
    BY <2>2 DEF Holders
  <2>7. Cardinality(Holders(T, a)) = S.rc[a] - 1
    <3>1. Cardinality(Holders(S, a) \ {p}) =
              IF p \in Holders(S, a) THEN Cardinality(Holders(S, a)) - 1
              ELSE Cardinality(Holders(S, a))
      BY <1>1, FS_RemoveElement
    <3>2. QED
      BY <1>0, <1>1, <2>5, <3>1
  <2>8. Holders(T, a) # {}
    BY <1>0, <1>2, <1>5, <2>5
  <2>9. NoDangling(T)
    BY <2>2, <2>3 DEF NoDangling, GoodHeap, Consistent
  <2>10. NoOrphan(T) /\ Counted(T)
    BY <2>3, <2>6, <2>7, <2>8 DEF NoOrphan, Counted, GoodHeap, Consistent
  <2>11. QED
    BY <1>2, <2>2, <2>4, <2>9, <2>10 DEF GoodHeap, Consistent
<1>6. QED
    BY <1>4, <1>5

(* A change of what an entry holds leaves the pointers and counts alone.    *)
LEMMA UpdatedIsGood ==
    ASSUME NEW S, NEW A, NEW V, GoodHeap(S, A, V),
           NEW p \in DOMAIN S.of, NEW v \in V
    PROVE  /\ GoodHeap(Updated(S, p, v), A, V)
           /\ Updated(S, p, v).of = S.of
<1> DEFINE T == Updated(S, p, v)
<1>1. /\ T = [of |-> T.of, rc |-> T.rc, val |-> T.val]
      /\ T.of = S.of /\ T.rc = S.rc /\ T.val = [S.val EXCEPT ![S.of[p]] = v]
    BY DEF Updated
<1>2. IsHeap(T, A, V)
  <2>1. T.val \in [DOMAIN S.rc -> V]
    BY <1>1 DEF GoodHeap, IsHeap
  <2>2. QED
    BY <1>1, <2>1 DEF GoodHeap, IsHeap
<1>3. Consistent(T)
    BY <1>1 DEF GoodHeap, Consistent, NoDangling, NoOrphan, Counted, Holders
<1>4. QED
    BY <1>1, <1>2, <1>3 DEF GoodHeap

(* The heap a manager starts with.                                         *)
LEMMA SingleIsGood ==
    ASSUME NEW A, NEW V, NEW p, NEW a \in A, NEW v \in V
    PROVE  /\ GoodHeap(Single(p, a, v), A, V)
           /\ DOMAIN Single(p, a, v).of = {p}
<1> DEFINE T == Single(p, a, v)
<1>1. DOMAIN (<<>>) = {}
    OBVIOUS
<1>2. Put(<<>>, p, a) = [x \in {p} |-> a] /\ Put(<<>>, a, 1) = [x \in {a} |-> 1]
      /\ Put(<<>>, a, v) = [x \in {a} |-> v]
    BY <1>1 DEF Put
<1>3. T = [of |-> [x \in {p} |-> a], rc |-> [x \in {a} |-> 1], val |-> [x \in {a} |-> v]]
    BY <1>2 DEF Single, Created
<1>4. IsHeap(T, A, V)
  <2>1. IsFiniteSet({p})
    BY FS_Singleton
  <2>2. QED
    BY <1>3, <2>1 DEF IsHeap
<1>5. Holders(T, a) = {p}
    BY <1>3 DEF Holders
<1>6. Consistent(T)
  <2>1. Cardinality({p}) = 1
    BY FS_Singleton
  <2>2. /\ DOMAIN T.of = {p} /\ T.of[p] = a
        /\ DOMAIN T.rc = {a} /\ T.rc[a] = 1
    BY <1>3
  <2>3. NoDangling(T) /\ NoOrphan(T)
    BY <1>5, <2>2 DEF NoDangling, NoOrphan
  <2>4. Counted(T)
    BY <1>5, <2>1, <2>2 DEF Counted
  <2>5. QED
    BY <2>3, <2>4 DEF Consistent
<1>7. QED
    BY <1>3, <1>4, <1>6 DEF GoodHeap

(* What a process sees is what entries may hold.                            *)
LEMMA ViewIsTyped ==
    ASSUME NEW S, NEW A, NEW V, GoodHeap(S, A, V), NEW p \in DOMAIN S.of
    PROVE  View(S, p) \in V
    BY DEF View, GoodHeap, IsHeap, Consistent, NoDangling
=============================================================================
