--------------------- MODULE VirtualAddressSpace_proofs ---------------------
(***************************************************************************)
(* A page fault finds the mapping it should, for address spaces of any     *)
(* size, any number of mappings and any sequence of mmap and munmap.       *)
(***************************************************************************)
EXTENDS VirtualAddressSpace, TLAPS

\* A node as a mapping that worked makes it: inside both address spaces.
IsMapping(n) ==
    /\ n = VM_node(n.start, n.replayed, n.size)
    /\ n.start \in 1 .. Top /\ n.size \in 1 .. Top /\ n.start + n.size - 1 <= Top
    /\ n.replayed \in Nat /\ n.replayed + n.size <= Width

Covers(n, a) == n.start <= a /\ a < n.start + n.size
Where(n, a) == n.replayed + (a - n.start)

(***************************************************************************)
(* Every byte that was replayed has its node; and in ordinary use every    *)
(* node is of bytes that were, and no byte has two.                        *)
(***************************************************************************)
MappedInside == DOMAIN mapped \subseteq 1 .. Top

EachByteHasNode ==
    \A a \in 1 .. Top : IsReplayed(a) =>
        \E n \in vma : IsMapping(n) /\ Covers(n, a) /\ Where(n, a) = mapped[a]

NodesAreMappings ==
    \A n \in vma :
        /\ IsMapping(n)
        /\ \A a \in 1 .. Top : Covers(n, a) => IsReplayed(a) /\ Where(n, a) = mapped[a]

NodesDisjoint ==
    \A n, m \in vma : \A a \in 1 .. Top : Covers(n, a) /\ Covers(m, a) => n = m

IInv ==
    /\ usual \in BOOLEAN
    /\ MappedInside
    /\ EachByteHasNode
    /\ usual => NodesAreMappings /\ NodesDisjoint

-----------------------------------------------------------------------------
(* Inside the address space the sums do not wrap.                          *)
LEMMA NoWrap ==
    ASSUME NEW x \in Nat, x < Width
    PROVE  x % Width = x
BY AddressAssumption

LEMMA EndOf ==
    ASSUME NEW n, IsMapping(n)
    PROVE  End(n) = n.start + n.size
<1>1. n.start + n.size \in Nat /\ n.start + n.size < Width
  BY AddressAssumption DEF IsMapping
<1>2. QED
  BY <1>1, NoWrap DEF End, Plus

LEMMA EndOfRange ==
    ASSUME NEW addr \in 1 .. Top, NEW size \in Sizes
    PROVE  Plus(addr, size) = addr + size
<1>1. addr + size \in Nat /\ addr + size < Width
  BY AddressAssumption DEF Sizes
<1>2. QED
  BY <1>1, NoWrap DEF Plus

(* The four tests together are the overlap of the range and the node.      *)
LEMMA OverlapOf ==
    ASSUME NEW n, IsMapping(n), NEW addr \in 1 .. Top, NEW size \in Sizes
    PROVE  Overlaps(addr, size, n) <=> addr < n.start + n.size /\ n.start < addr + size
<1>1. End(n) = n.start + n.size /\ Plus(addr, size) = addr + size
  BY EndOf, EndOfRange
<1>2. n.start \in Int /\ n.size \in Int /\ n.size > 0 /\ size > 0 /\ size \in Int /\ addr \in Int
  BY AddressAssumption DEF IsMapping, Sizes
<1>3. QED
  BY <1>1, <1>2 DEF Overlaps, check_left_overlapping, check_right_overlapping,
     check_enclosed_overlapping, check_enclosing_overlapping

LEMMA OverlapIsCommonByte ==
    ASSUME NEW n, IsMapping(n), NEW addr \in 1 .. Top, NEW size \in Sizes
    PROVE  Overlaps(addr, size, n) <=>
               Range(n.start, n.size) \cap Range(addr, size) # {}
<1>1. n.start \in Int /\ n.size \in Int /\ n.size > 0 /\ size > 0 /\ size \in Int /\ addr \in Int
  BY AddressAssumption DEF IsMapping, Sizes
<1>2. ASSUME addr < n.start + n.size, n.start < addr + size
      PROVE  Range(n.start, n.size) \cap Range(addr, size) # {}
  <2>1. CASE addr <= n.start
    <3>1. n.start \in Range(n.start, n.size) \cap Range(addr, size)
      BY <1>1, <1>2, <2>1 DEF Range
    <3>2. QED
      BY <3>1
  <2>2. CASE n.start < addr
    <3>1. addr \in Range(n.start, n.size) \cap Range(addr, size)
      BY <1>1, <1>2, <2>2 DEF Range
    <3>2. QED
      BY <3>1
  <2>3. QED
    BY <1>1, <2>1, <2>2
<1>3. ASSUME NEW a \in Range(n.start, n.size) \cap Range(addr, size)
      PROVE  addr < n.start + n.size /\ n.start < addr + size
  BY <1>1 DEF Range
<1>4. QED
  BY <1>2, <1>3, OverlapOf

(* A single byte finds the nodes that cover it.                            *)
LEMMA ByteFinds ==
    ASSUME NEW n, IsMapping(n), NEW a \in 1 .. Top
    PROVE  Overlaps(a, 1, n) <=> Covers(n, a)
<1>1. 1 \in Sizes
  BY AddressAssumption DEF Sizes
<1>2. n.start \in Int /\ n.size \in Int /\ a \in Int
  BY AddressAssumption DEF IsMapping
<1>3. QED
  BY <1>1, <1>2, OverlapOf DEF Covers

-----------------------------------------------------------------------------
(* What munmap leaves of a node.                                           *)
Part(n, start, size) == VM_node(start, n.replayed + (start - n.start), size)

LEMMA BeforeOf ==
    ASSUME NEW n, IsMapping(n), NEW addr \in 1 .. Top, addr > n.start, addr < n.start + n.size
    PROVE  Before(addr, n) = Part(n, n.start, addr - n.start)
<1>1. n.start \in Nat /\ addr \in Nat /\ n.replayed \in Nat /\ addr - n.start \in Nat
  BY AddressAssumption DEF IsMapping
<1>2. addr - n.start < Width
  BY <1>1, AddressAssumption
<1>3. Minus(addr, n.start) = addr - n.start
  BY <1>1, <1>2, NoWrap DEF Minus
<1>4. n = [start |-> n.start, replayed |-> n.replayed, size |-> n.size]
  BY DEF IsMapping, VM_node
<1>5. Before(addr, n) = VM_node(n.start, n.replayed, addr - n.start)
  BY <1>3, <1>4 DEF Before, VM_node
<1>6. n.replayed + (n.start - n.start) = n.replayed
  BY <1>1
<1>7. QED
  BY <1>5, <1>6 DEF Part

LEMMA BehindOf ==
    ASSUME NEW n, IsMapping(n), NEW addr \in 1 .. Top, NEW size \in Sizes,
           addr + size > n.start, addr + size < n.start + n.size
    PROVE  Behind(addr, size, n) =
               Part(n, addr + size, (n.start + n.size) - (addr + size))
<1>1. /\ n.start \in Nat /\ n.size \in Nat /\ addr \in Nat /\ size \in Nat
      /\ n.replayed \in Nat /\ n.start + n.size < Width /\ n.replayed + n.size <= Width
  BY AddressAssumption DEF IsMapping, Sizes
<1>2. End(n) = n.start + n.size /\ Plus(addr, size) = addr + size
  BY EndOf, EndOfRange
<1>3. Minus(addr + size, n.start) = (addr + size) - n.start
  <2>1. (addr + size) - n.start \in Nat /\ (addr + size) - n.start < Width
    BY <1>1, AddressAssumption
  <2>2. QED
    BY <2>1, NoWrap DEF Minus
<1>4. Minus(n.start + n.size, addr + size) = (n.start + n.size) - (addr + size)
  <2>1. /\ (n.start + n.size) - (addr + size) \in Nat
        /\ (n.start + n.size) - (addr + size) < Width
    BY <1>1, AddressAssumption
  <2>2. QED
    BY <2>1, NoWrap DEF Minus
<1>5. Plus(n.replayed, (addr + size) - n.start) = n.replayed + ((addr + size) - n.start)
  <2>1. /\ n.replayed + ((addr + size) - n.start) \in Nat
        /\ n.replayed + ((addr + size) - n.start) < Width
    BY <1>1, AddressAssumption
  <2>2. QED
    BY <2>1, NoWrap DEF Plus
<1>6. QED
  BY <1>2, <1>3, <1>4, <1>5 DEF Behind, Part

\* A part of a node is a mapping of its bytes to where they were.
LEMMA PartIsMapping ==
    ASSUME NEW n, IsMapping(n), NEW start \in Nat, NEW size \in Nat, size > 0,
           n.start <= start, start + size <= n.start + n.size
    PROVE  /\ IsMapping(Part(n, start, size))
           /\ \A a \in 1 .. Top :
                /\ Covers(Part(n, start, size), a) <=> start <= a /\ a < start + size
                /\ Where(Part(n, start, size), a) = Where(n, a)
<1> DEFINE p == Part(n, start, size)
<1>1. /\ p.start = start /\ p.size = size /\ p.replayed = n.replayed + (start - n.start)
      /\ p = VM_node(p.start, p.replayed, p.size)
  BY DEF Part, VM_node
<1>2. /\ n.start \in 1 .. Top /\ n.size \in 1 .. Top /\ n.start + n.size - 1 <= Top
      /\ n.replayed \in Nat /\ n.replayed + n.size <= Width
  BY DEF IsMapping
<1> HIDE DEF p
<1>3. IsMapping(p)
  BY <1>1, <1>2, AddressAssumption DEF IsMapping
<1>4. \A a \in 1 .. Top : Covers(p, a) <=> start <= a /\ a < start + size
  BY <1>1 DEF Covers
<1>5. \A a \in 1 .. Top : Where(p, a) = Where(n, a)
  BY <1>1, <1>2, AddressAssumption DEF Where
<1>6. QED
  BY <1>3, <1>4, <1>5 DEF p

(***************************************************************************)
(* munmap takes the range out of each node and leaves the rest where it is. *)
(***************************************************************************)
LEMMA RemainsOf ==
    ASSUME NEW n, IsMapping(n), NEW addr \in 1 .. Top, NEW size \in Sizes
    PROVE  /\ \A m \in Remains(addr, size, n) :
                 /\ IsMapping(m)
                 /\ \A a \in 1 .. Top : Covers(m, a) =>
                       Covers(n, a) /\ a \notin Range(addr, size) /\ Where(m, a) = Where(n, a)
           /\ \A a \in 1 .. Top : Covers(n, a) /\ a \notin Range(addr, size) =>
                 \E m \in Remains(addr, size, n) : Covers(m, a)
           /\ \A m1, m2 \in Remains(addr, size, n) : \A a \in 1 .. Top :
                 Covers(m1, a) /\ Covers(m2, a) => m1 = m2
<1> DEFINE last == addr + size
           stop == n.start + n.size
           before == Part(n, n.start, addr - n.start)
           behind == Part(n, last, stop - last)
<1>1. /\ n.start \in Nat /\ n.size \in Nat /\ n.size > 0 /\ Top \in Nat
      /\ addr \in Nat /\ size \in Nat /\ size > 0
  BY AddressAssumption DEF IsMapping, Sizes
<1>2. End(n) = stop /\ Plus(addr, size) = last
  BY EndOf, EndOfRange
<1>3. \A a \in 1 .. Top : a \in Range(addr, size) <=> addr <= a /\ a < last
  BY <1>1 DEF Range
<1>4. ASSUME addr > n.start, addr < stop
      PROVE  /\ Before(addr, n) = before /\ IsMapping(before)
             /\ \A a \in 1 .. Top : /\ Covers(before, a) <=> n.start <= a /\ a < addr
                                    /\ Where(before, a) = Where(n, a)
  <2>1. Before(addr, n) = before
    BY <1>4, BeforeOf
  <2>2. addr - n.start \in Nat /\ addr - n.start > 0 /\ n.start + (addr - n.start) = addr
    BY <1>1, <1>4
  <2>3. QED
    BY <1>1, <1>4, <2>1, <2>2, PartIsMapping
<1>5. ASSUME last > n.start, last < stop
      PROVE  /\ Behind(addr, size, n) = behind /\ IsMapping(behind)
             /\ \A a \in 1 .. Top : /\ Covers(behind, a) <=> last <= a /\ a < stop
                                    /\ Where(behind, a) = Where(n, a)
  <2>1. Behind(addr, size, n) = behind
    BY <1>5, BehindOf
  <2>2. /\ last \in Nat /\ stop - last \in Nat /\ stop - last > 0
        /\ last + (stop - last) = stop
    BY <1>1, <1>5
  <2>3. QED
    BY <1>1, <1>5, <2>1, <2>2, PartIsMapping
<1> HIDE DEF before, behind
<1>6. CASE check_enclosed_overlapping(addr, size, n)
  <2>1. addr <= n.start /\ last >= stop
    BY <1>2, <1>6 DEF check_enclosed_overlapping
  <2>2. /\ ~check_left_overlapping(addr, size, n)
        /\ ~check_right_overlapping(addr, size, n)
        /\ ~check_enclosing_overlapping(addr, size, n)
    BY <1>1, <1>2, <2>1 DEF check_left_overlapping, check_right_overlapping,
       check_enclosing_overlapping
  <2>3. Remains(addr, size, n) = {}
    BY <1>6, <2>2 DEF Remains
  <2>4. QED
    BY <1>1, <1>3, <2>1, <2>3 DEF Covers
<1>7. CASE check_left_overlapping(addr, size, n)
  <2>1. last >= stop /\ addr > n.start /\ addr < stop
    BY <1>2, <1>7 DEF check_left_overlapping
  <2>2. /\ ~check_enclosed_overlapping(addr, size, n)
        /\ ~check_right_overlapping(addr, size, n)
        /\ ~check_enclosing_overlapping(addr, size, n)
    BY <1>1, <1>2, <2>1 DEF check_enclosed_overlapping, check_right_overlapping,
       check_enclosing_overlapping
  <2>3. Remains(addr, size, n) = {before}
    BY <1>4, <1>7, <2>1, <2>2 DEF Remains
  <2>4. QED
    BY <1>1, <1>3, <1>4, <2>1, <2>3 DEF Covers
<1>8. CASE check_right_overlapping(addr, size, n)
  <2>1. last > n.start /\ last < stop /\ addr <= n.start
    BY <1>2, <1>8 DEF check_right_overlapping
  <2>2. /\ ~check_enclosed_overlapping(addr, size, n)
        /\ ~check_left_overlapping(addr, size, n)
        /\ ~check_enclosing_overlapping(addr, size, n)
    BY <1>1, <1>2, <2>1 DEF check_enclosed_overlapping, check_left_overlapping,
       check_enclosing_overlapping
  <2>3. Remains(addr, size, n) = {behind}
    BY <1>5, <1>8, <2>1, <2>2 DEF Remains
  <2>4. QED
    BY <1>1, <1>3, <1>5, <2>1, <2>3 DEF Covers
<1>9. CASE check_enclosing_overlapping(addr, size, n)
  <2>1. addr > n.start /\ last < stop /\ last > n.start /\ addr < stop
    BY <1>1, <1>2, <1>9 DEF check_enclosing_overlapping
  <2>2. /\ ~check_enclosed_overlapping(addr, size, n)
        /\ ~check_left_overlapping(addr, size, n)
        /\ ~check_right_overlapping(addr, size, n)
    BY <1>1, <1>2, <2>1 DEF check_enclosed_overlapping, check_left_overlapping,
       check_right_overlapping
  <2>3. Remains(addr, size, n) = {before, behind}
    BY <1>4, <1>5, <1>9, <2>1, <2>2 DEF Remains
  <2>4. QED
    BY <1>1, <1>3, <1>4, <1>5, <2>1, <2>3 DEF Covers
<1>10. CASE ~Overlaps(addr, size, n)
  <2>1. Remains(addr, size, n) = {n}
    BY <1>10 DEF Remains, Overlaps
  <2>2. addr >= stop \/ n.start >= last
    BY <1>1, <1>10, OverlapOf
  <2>3. QED
    BY <1>1, <1>3, <2>1, <2>2 DEF Covers
<1>11. QED
  BY <1>6, <1>7, <1>8, <1>9, <1>10 DEF Overlaps

-----------------------------------------------------------------------------
LEMMA InitIsGood == Init => IInv
<1> SUFFICES ASSUME Init PROVE IInv
  OBVIOUS
<1>1. vma = {} /\ DOMAIN mapped = {} /\ usual = TRUE
  BY DEF Init
<1>2. QED
  BY <1>1 DEF IInv, MappedInside, EachByteHasNode, IsReplayed, NodesAreMappings, NodesDisjoint

(***************************************************************************)
(* A new mapping, wherever the traced one lies, over others or not.        *)
(***************************************************************************)
LEMMA RangeInside ==
    ASSUME NEW addr \in 1 .. Top, NEW size \in Sizes, addr + size - 1 <= Top
    PROVE  /\ Range(addr, size) \subseteq 1 .. Top
           /\ \A a \in 1 .. Top : a \in Range(addr, size) <=> addr <= a /\ a < addr + size
BY AddressAssumption DEF Range, Sizes

LEMMA NewNode ==
    ASSUME NEW addr \in 1 .. Top, NEW size \in Sizes, addr + size - 1 <= Top,
           NEW replayed \in Nat, replayed + size <= Width
    PROVE  /\ IsMapping(VM_node(addr, replayed, size))
           /\ \A a \in 1 .. Top :
                 /\ Covers(VM_node(addr, replayed, size), a) <=> a \in Range(addr, size)
                 /\ Where(VM_node(addr, replayed, size), a) = replayed + (a - addr)
<1>1. size \in 1 .. Top
  BY DEF Sizes
<1>2. QED
  BY <1>1, RangeInside DEF IsMapping, VM_node, Covers, Where

LEMMA MapIsGood ==
    ASSUME IInv, NEW addr \in 1 .. Top, NEW size \in Sizes, addr + size - 1 <= Top,
           NEW replayed \in Nat, replayed + size <= Width,
           TracedMaps(addr, size, replayed),
           vma' = vma \cup {VM_node(addr, replayed, size)},
           usual' \in BOOLEAN,
           usual' => usual /\ Range(addr, size) \cap DOMAIN mapped = {}
    PROVE  IInv'
<1> DEFINE node == VM_node(addr, replayed, size)
           range == Range(addr, size)
<1>1. /\ IsMapping(node) /\ range \subseteq 1 .. Top
      /\ \A a \in 1 .. Top : /\ Covers(node, a) <=> a \in range
                             /\ Where(node, a) = replayed + (a - addr)
  BY NewNode, RangeInside
<1>2. replayed # NotReplayed
  BY DEF NotReplayed
<1>3. /\ DOMAIN mapped' = DOMAIN mapped \cup range
      /\ \A a \in range : mapped'[a] = replayed + (a - addr)
      /\ \A a \in DOMAIN mapped \ range : mapped'[a] = mapped[a]
  BY <1>2 DEF TracedMaps
<1>4. \A a \in range : a \in Int /\ replayed + (a - addr) # NotReplayed
  BY AddressAssumption DEF Range, NotReplayed, Sizes
<1> HIDE DEF node, range
<1>5. vma' = vma \cup {node}
  BY DEF node
<1>6. MappedInside'
  BY <1>1, <1>3 DEF IInv, MappedInside
<1>7. EachByteHasNode'
  <2> SUFFICES ASSUME NEW a \in 1 .. Top, IsReplayed(a)'
               PROVE  \E n \in vma' : IsMapping(n) /\ Covers(n, a) /\ Where(n, a) = mapped'[a]
    BY DEF EachByteHasNode
  <2>1. CASE a \in range
    BY <2>1, <1>1, <1>3, <1>5
  <2>2. CASE a \notin range
    <3>1. IsReplayed(a) /\ mapped'[a] = mapped[a]
      BY <2>2, <1>3 DEF IsReplayed
    <3>2. QED
      BY <3>1, <1>5 DEF IInv, EachByteHasNode
  <2>3. QED
    BY <2>1, <2>2
<1>8. ASSUME usual' PROVE NodesAreMappings' /\ NodesDisjoint'
  <2>1. NodesAreMappings /\ NodesDisjoint /\ range \cap DOMAIN mapped = {}
    BY <1>8 DEF IInv, range
  <2>2. \A n \in vma : \A a \in 1 .. Top : Covers(n, a) => a \in DOMAIN mapped /\ a \notin range
    BY <2>1 DEF NodesAreMappings, IsReplayed
  <2>3. NodesAreMappings'
    <3> SUFFICES ASSUME NEW n \in vma'
                 PROVE  /\ IsMapping(n)
                        /\ \A a \in 1 .. Top :
                             Covers(n, a) => IsReplayed(a)' /\ Where(n, a) = mapped'[a]
      BY DEF NodesAreMappings
    <3>1. CASE n = node
      BY <3>1, <1>1, <1>3, <1>4 DEF IsReplayed
    <3>2. CASE n \in vma
      BY <3>2, <2>1, <2>2, <1>3 DEF NodesAreMappings, IsReplayed
    <3>3. QED
      BY <3>1, <3>2, <1>5
  <2>4. NodesDisjoint'
    BY <2>1, <2>2, <1>1, <1>5 DEF NodesDisjoint
  <2>5. QED
    BY <2>3, <2>4
<1>9. QED
  BY <1>6, <1>7, <1>8 DEF IInv

LEMMA MmapIsGood ==
    ASSUME IInv, NEW addr \in 1 .. Top, NEW size \in Sizes, addr + size - 1 <= Top,
           NEW replayed \in ReplayedStarts, Mmap(addr, size, replayed)
    PROVE  IInv'
<1>1. replayed \in Nat /\ replayed + size <= Width
  BY AddressAssumption DEF Sizes
<1>2. QED
  BY <1>1, MapIsGood DEF Mmap, IInv

LEMMA MmapFixedIsGood ==
    ASSUME IInv, NEW addr \in 1 .. Top, NEW size \in Sizes, addr + size - 1 <= Top,
           MmapFixed(addr, size)
    PROVE  IInv'
<1>1. addr \in Nat /\ addr + size <= Width
  BY AddressAssumption DEF Sizes
<1>2. usual' \in BOOLEAN /\ (usual' => usual /\ Range(addr, size) \cap DOMAIN mapped = {})
  BY DEF MmapFixed, IInv
<1>3. QED
  BY <1>1, <1>2, MapIsGood DEF MmapFixed

LEMMA MmapElsewhereIsGood ==
    ASSUME IInv, NEW addr \in 1 .. Top, NEW size \in Sizes, addr + size - 1 <= Top,
           MmapElsewhere(addr, size)
    PROVE  IInv'
<1> DEFINE range == Range(addr, size)
<1>1. /\ DOMAIN mapped' = DOMAIN mapped \cup range
      /\ \A a \in range : mapped'[a] = NotReplayed
      /\ \A a \in DOMAIN mapped : mapped'[a] = mapped[a]
      /\ vma' = vma /\ usual' = usual
  BY DEF MmapElsewhere, TracedMaps
<1>2. range \subseteq 1 .. Top
  BY RangeInside
<1> HIDE DEF range
<1>3. \A a : IsReplayed(a)' <=> IsReplayed(a)
  BY <1>1 DEF IsReplayed
<1>4. \A a : IsReplayed(a) => mapped'[a] = mapped[a]
  BY <1>1 DEF IsReplayed
<1>5. MappedInside' /\ EachByteHasNode'
  BY <1>1, <1>2, <1>3, <1>4 DEF IInv, MappedInside, EachByteHasNode
<1>6. NodesAreMappings /\ NodesDisjoint => NodesAreMappings' /\ NodesDisjoint'
  BY <1>1, <1>3, <1>4 DEF NodesAreMappings, NodesDisjoint
<1>7. QED
  BY <1>1, <1>5, <1>6 DEF IInv

LEMMA MmapFailsIsGood ==
    ASSUME IInv, NEW size, NEW replayed, MmapFails(size, replayed)
    PROVE  IInv'
<1>1. mapped' = mapped /\ vma \subseteq vma' /\ usual' = FALSE
  BY DEF MmapFails
<1>2. QED
  BY <1>1 DEF IInv, MappedInside, EachByteHasNode, IsReplayed

(* munmap of any range.                                                    *)
LEMMA MunmapIsGood ==
    ASSUME IInv, NEW addr \in 1 .. Top, NEW size \in Sizes, Munmap(addr, size)
    PROVE  IInv'
<1> DEFINE range == Range(addr, size)
<1>1. /\ DOMAIN mapped' = DOMAIN mapped \ range
      /\ \A a \in DOMAIN mapped \ range : mapped'[a] = mapped[a]
      /\ usual' = usual
  BY DEF Munmap
<1>2. /\ \A n \in vma : \A m \in Remains(addr, size, n) : m \in vma'
      /\ \A m \in vma' : \E n \in vma : m \in Remains(addr, size, n)
  BY DEF Munmap, delete_VM_node
<1>3. \A a : IsReplayed(a)' => IsReplayed(a) /\ a \notin range /\ mapped'[a] = mapped[a]
  BY <1>1 DEF IsReplayed
<1>4. \A a : IsReplayed(a) /\ a \notin range => IsReplayed(a)' /\ mapped'[a] = mapped[a]
  BY <1>1 DEF IsReplayed
<1>5. MappedInside'
  BY <1>1 DEF IInv, MappedInside
<1>6. EachByteHasNode'
  <2> SUFFICES ASSUME NEW a \in 1 .. Top, IsReplayed(a)'
               PROVE  \E m \in vma' : IsMapping(m) /\ Covers(m, a) /\ Where(m, a) = mapped'[a]
    BY DEF EachByteHasNode
  <2>1. PICK n \in vma : IsMapping(n) /\ Covers(n, a) /\ Where(n, a) = mapped[a]
    BY <1>3 DEF IInv, EachByteHasNode
  <2>2. PICK m \in Remains(addr, size, n) : Covers(m, a)
    BY <2>1, <1>3, RemainsOf
  <2>3. IsMapping(m) /\ Where(m, a) = Where(n, a)
    BY <2>1, <2>2, RemainsOf
  <2>4. QED
    BY <2>1, <2>2, <2>3, <1>2, <1>3
<1>7. ASSUME usual' PROVE NodesAreMappings' /\ NodesDisjoint'
  <2>1. NodesAreMappings /\ NodesDisjoint
    BY <1>1, <1>7 DEF IInv
  <2>2. NodesAreMappings'
    <3> SUFFICES ASSUME NEW m \in vma'
                 PROVE  /\ IsMapping(m)
                        /\ \A a \in 1 .. Top :
                             Covers(m, a) => IsReplayed(a)' /\ Where(m, a) = mapped'[a]
      BY DEF NodesAreMappings
    <3>1. PICK n \in vma : m \in Remains(addr, size, n)
      BY <1>2
    <3>2. IsMapping(n)
      BY <2>1 DEF NodesAreMappings
    <3>3. /\ IsMapping(m)
          /\ \A a \in 1 .. Top : Covers(m, a) =>
                Covers(n, a) /\ a \notin range /\ Where(m, a) = Where(n, a)
      BY <3>1, <3>2, RemainsOf
    <3>4. QED
      BY <3>3, <2>1, <1>4 DEF NodesAreMappings
  <2>3. NodesDisjoint'
    <3> SUFFICES ASSUME NEW m1 \in vma', NEW m2 \in vma', NEW a \in 1 .. Top,
                        Covers(m1, a), Covers(m2, a)
                 PROVE  m1 = m2
      BY DEF NodesDisjoint
    <3>1. PICK n1 \in vma : m1 \in Remains(addr, size, n1)
      BY <1>2
    <3>2. PICK n2 \in vma : m2 \in Remains(addr, size, n2)
      BY <1>2
    <3>3. IsMapping(n1) /\ IsMapping(n2)
      BY <2>1 DEF NodesAreMappings
    <3>4. Covers(n1, a)
      BY <3>1, <3>3, RemainsOf
    <3>5. Covers(n2, a)
      BY <3>2, <3>3, RemainsOf
    <3>6. n1 = n2
      BY <3>4, <3>5, <2>1 DEF NodesDisjoint
    <3>7. QED
      BY <3>1, <3>2, <3>3, <3>6, RemainsOf
  <2>4. QED
    BY <2>2, <2>3
<1>8. usual' \in BOOLEAN
  BY <1>1 DEF IInv
<1>9. QED
  BY <1>5, <1>6, <1>7, <1>8 DEF IInv

LEMMA NextIsGood == IInv /\ [Next]_vars => IInv'
<1> SUFFICES ASSUME IInv, [Next]_vars PROVE IInv'
  OBVIOUS
<1>1. ASSUME NEW addr \in 1 .. Top, NEW size \in Sizes, NEW replayed \in ReplayedStarts,
             addr + size - 1 <= Top, Mmap(addr, size, replayed)
      PROVE  IInv'
  BY <1>1, MmapIsGood
<1>2. ASSUME NEW addr \in 1 .. Top, NEW size \in Sizes, addr + size - 1 <= Top,
             MmapElsewhere(addr, size) \/ MmapFixed(addr, size)
      PROVE  IInv'
  BY <1>2, MmapElsewhereIsGood, MmapFixedIsGood
<1>3. ASSUME NEW size \in Sizes, NEW replayed \in ReplayedStarts, MmapFails(size, replayed)
      PROVE  IInv'
  BY <1>3, MmapFailsIsGood
<1>4. ASSUME NEW addr \in 1 .. Top, NEW size \in Sizes, Munmap(addr, size)
      PROVE  IInv'
  BY <1>4, MunmapIsGood
<1>5. CASE UNCHANGED vars
  BY <1>5 DEF vars, IInv, MappedInside, EachByteHasNode, NodesAreMappings, NodesDisjoint,
     IsReplayed
<1>6. QED
  BY <1>1, <1>2, <1>3, <1>4, <1>5 DEF Next

(* The invariant of the address space, of any size and with any number of nodes. *)
THEOREM Invariance == Spec => []IInv
BY InitIsGood, NextIsGood, PTL DEF Spec

-----------------------------------------------------------------------------
(* The four overlap tests of VirtualAddressSpace.cpp find for every range of *)
(* addresses the nodes that have a byte in common with it.                 *)
THEOREM OverlapsExactly == Spec => []OverlapIsExact
<1>1. IInv => OverlapIsExact
  <2> SUFFICES ASSUME IInv, usual
               PROVE  /\ \A node \in vma : node.size > 0
                      /\ \A a \in 1 .. Top, size \in Sizes :
                            find_VM_node(vma, a, size) =
                               {node \in vma :
                                   Range(node.start, node.size) \cap Range(a, size) # {}}
    BY DEF OverlapIsExact
  <2>1. \A node \in vma : IsMapping(node)
    BY DEF IInv, NodesAreMappings
  <2>2. \A node \in vma : node.size > 0
    BY <2>1, AddressAssumption DEF IsMapping
  <2>3. ASSUME NEW a \in 1 .. Top, NEW size \in Sizes, NEW node \in vma
        PROVE  Overlaps(a, size, node) <=>
                   Range(node.start, node.size) \cap Range(a, size) # {}
    BY <2>1, OverlapIsCommonByte
  <2>4. QED
    BY <2>2, <2>3 DEF find_VM_node
<1>2. QED
  BY Invariance, <1>1, PTL

(* No munmap, of whatever range, moves or loses a byte it does not cover:  *)
(* the mapping of each replayed byte is found, failed and fixed mmaps or not. *)
THEOREM NeverLoses == Spec => []FindsAtLeast
<1>1. IInv => FindsAtLeast
  <2> SUFFICES ASSUME IInv, NEW a \in 1 .. Top, IsReplayed(a)
               PROVE  \E node \in find_VM_node(vma, a, 1) : Shows(node, a)
    BY DEF FindsAtLeast
  <2>1. PICK n \in vma : IsMapping(n) /\ Covers(n, a) /\ Where(n, a) = mapped[a]
    BY DEF IInv, EachByteHasNode
  <2>2. Overlaps(a, 1, n)
    BY <2>1, ByteFinds
  <2>3. n \in find_VM_node(vma, a, 1) /\ Shows(n, a)
    BY <2>1, <2>2 DEF find_VM_node, Shows, Where
  <2>4. QED
    BY <2>3
<1>2. QED
  BY Invariance, <1>1, PTL

(* While no mmap failed or mapped over another, a page fault finds the one *)
(* mapping of its byte, and none for a byte that was not replayed.         *)
THEOREM FindsExactly == Spec => []FindsItsMapping
<1>1. IInv => FindsItsMapping
  <2> SUFFICES ASSUME IInv, usual, NEW a \in 1 .. Top
               PROVE  LET found == find_VM_node(vma, a, 1) IN
                      IF IsReplayed(a) THEN \E node \in vma : found = {node} /\ Shows(node, a)
                      ELSE found = {}
    BY DEF FindsItsMapping
  <2>1. NodesAreMappings /\ NodesDisjoint
    BY DEF IInv
  <2>2. \A n \in vma : Overlaps(a, 1, n) <=> Covers(n, a)
    BY <2>1, ByteFinds DEF NodesAreMappings
  <2>3. CASE IsReplayed(a)
    <3>1. PICK n \in vma : Covers(n, a) /\ Where(n, a) = mapped[a]
      BY <2>3 DEF IInv, EachByteHasNode
    <3>2. find_VM_node(vma, a, 1) = {n}
      BY <3>1, <2>1, <2>2 DEF find_VM_node, NodesDisjoint
    <3>3. QED
      BY <2>3, <3>1, <3>2 DEF Shows, Where
  <2>4. CASE ~IsReplayed(a)
    <3>1. find_VM_node(vma, a, 1) = {}
      BY <2>1, <2>2, <2>4 DEF find_VM_node, NodesAreMappings
    <3>2. QED
      BY <2>4, <3>1
  <2>5. QED
    BY <2>3, <2>4
<1>2. QED
  BY Invariance, <1>1, PTL
=============================================================================
