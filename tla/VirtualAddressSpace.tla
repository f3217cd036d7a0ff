------------------------ MODULE VirtualAddressSpace ------------------------
(***************************************************************************)
(* VM_area: for one traced process, the mappings mmap made, from traced to *)
(* replayed addresses; mmappread looks its address up there. The traced    *)
(* process's own address space (external) is the ground truth. Addresses   *)
(* are uint64_t, so sums are modulo 2^64: Width here, the address -1 that   *)
(* a failed mmap returns being Width - 1.                                  *)
(***************************************************************************)
EXTENDS Integers, FiniteSets

CONSTANTS
    Top,             \* traced mappings lie in 1 .. Top
    Width,           \* number of addresses
    MaxNodes,        \* bound on the nodes there are when mmap is called
    ReplayedStarts   \* addresses mmap may return in the replayer

\* A mapping of the replayer ends inside its address space, too.
ASSUME AddressAssumption ==
    /\ {Top, Width, MaxNodes} \subseteq Nat /\ 2 * Top + 1 < Width
    /\ ReplayedStarts \subseteq Nat /\ \A r \in ReplayedStarts : r + Top <= Width

MAP_FAILED == Width - 1
Plus(a, b) == (a + b) % Width
Minus(a, b) == (a - b) % Width

VARIABLES
    vma,             \* the VM_nodes
    mapped,          \* traced address -> where its byte is replayed
    usual            \* no mmap failed or mapped over another so far

vars == <<vma, mapped, usual>>

NotReplayed == -1    \* mapped in the trace, and not in the replayer

Sizes == 1 .. Top
Range(addr, size) == addr .. addr + size - 1

VM_node(start, replayed, size) == [start |-> start, replayed |-> replayed, size |-> size]
End(node) == Plus(node.start, node.size)

-----------------------------------------------------------------------------
(***************************************************************************)
(* How a range lies over a node: it covers its end, its beginning, all of  *)
(* it, or a part inside it.                                                *)
(***************************************************************************)
\* A faulty check_left_overlapping: a range that begins where the node ends.
check_left_touching(addr, size, node) ==
    Plus(addr, size) >= End(node) /\ addr > node.start /\ addr <= End(node)

check_left_overlapping(addr, size, node) ==
    Plus(addr, size) >= End(node) /\ addr > node.start /\ addr < End(node)

check_right_overlapping(addr, size, node) ==
    Plus(addr, size) > node.start /\ Plus(addr, size) < End(node) /\ addr <= node.start

check_enclosed_overlapping(addr, size, node) ==
    addr <= node.start /\ Plus(addr, size) >= End(node)

check_enclosing_overlapping(addr, size, node) ==
    addr > node.start /\ Plus(addr, size) < End(node)

Overlaps(addr, size, node) ==
    \/ check_left_overlapping(addr, size, node)
    \/ check_right_overlapping(addr, size, node)
    \/ check_enclosed_overlapping(addr, size, node)
    \/ check_enclosing_overlapping(addr, size, node)

find_VM_node(area, addr, size) == {node \in area : Overlaps(addr, size, node)}

\* What delete_VM_node leaves of a node: the part before the range and the
\* part behind it.
Before(addr, node) == [node EXCEPT !.size = Minus(addr, node.start)]

\* A faulty Behind: the replayed address stays that of the whole node.
Behind_unshifted(addr, size, node) ==
    VM_node(Plus(addr, size), node.replayed, Minus(End(node), Plus(addr, size)))

Behind(addr, size, node) ==
    LET new_start == Plus(addr, size) IN
    VM_node(new_start, Plus(node.replayed, Minus(new_start, node.start)),
            Minus(End(node), new_start))

\* A faulty Remains: the part behind a range inside the node is lost.
Remains_before(addr, size, node) ==
    CASE check_enclosed_overlapping(addr, size, node)  -> {}
      [] check_right_overlapping(addr, size, node)     -> {Behind(addr, size, node)}
      [] check_left_overlapping(addr, size, node)
         \/ check_enclosing_overlapping(addr, size, node) -> {Before(addr, node)}
      [] OTHER -> {node}

Remains(addr, size, node) ==
    CASE check_enclosed_overlapping(addr, size, node)  -> {}
      [] check_left_overlapping(addr, size, node)      -> {Before(addr, node)}
      [] check_right_overlapping(addr, size, node)     -> {Behind(addr, size, node)}
      [] check_enclosing_overlapping(addr, size, node) ->
            {Before(addr, node), Behind(addr, size, node)}
      [] OTHER -> {node}

delete_VM_node(area, addr, size) == UNION {Remains(addr, size, node) : node \in area}

-----------------------------------------------------------------------------
Init == vma = {} /\ mapped = <<>> /\ usual = TRUE

HasRoom == Cardinality(vma) < MaxNodes

\* The traced process has mapped size bytes at addr; replayed byte by byte
\* from replayed on.
TracedMaps(addr, size, replayed) ==
    mapped' = [a \in DOMAIN mapped \cup Range(addr, size) |->
                  IF a \notin Range(addr, size) THEN mapped[a]
                  ELSE IF replayed = NotReplayed THEN NotReplayed
                  ELSE replayed + (a - addr)]

\* mmap where the kernel likes: recorded at the address the trace returned.
Mmap(addr, size, replayed) ==
    /\ HasRoom /\ Range(addr, size) \cap DOMAIN mapped = {}
    /\ TracedMaps(addr, size, replayed)
    /\ vma' = vma \cup {VM_node(addr, replayed, size)}
    /\ UNCHANGED usual

\* mmap with an address, which the replayer's kernel did not honour.
MmapElsewhere(addr, size) ==
    /\ Range(addr, size) \cap DOMAIN mapped = {}
    /\ TracedMaps(addr, size, NotReplayed)
    /\ UNCHANGED <<vma, usual>>

\* mmap with an address both kernels honour, over whatever was there.
MmapFixed(addr, size) ==
    /\ HasRoom
    /\ TracedMaps(addr, size, addr)
    /\ vma' = vma \cup {VM_node(addr, addr, size)}
    /\ usual' = (usual /\ Range(addr, size) \cap DOMAIN mapped = {})

\* A failed mmap is recorded too, at -1.
MmapFails(size, replayed) ==
    /\ HasRoom
    /\ vma' = vma \cup {VM_node(MAP_FAILED, replayed, size)}
    /\ usual' = FALSE
    /\ UNCHANGED mapped

\* munmap of any range, mapped or not; nothing is unmapped in the replayer.
Munmap(addr, size) ==
    /\ mapped' = [a \in DOMAIN mapped \ Range(addr, size) |-> mapped[a]]
    /\ vma' = delete_VM_node(vma, addr, size)
    /\ UNCHANGED usual

Next ==
    \/ \E addr \in 1 .. Top, size \in Sizes, replayed \in ReplayedStarts :
          addr + size - 1 <= Top /\ Mmap(addr, size, replayed)
    \/ \E addr \in 1 .. Top, size \in Sizes :
          addr + size - 1 <= Top /\ (MmapElsewhere(addr, size) \/ MmapFixed(addr, size))
    \/ \E size \in Sizes, replayed \in ReplayedStarts : MmapFails(size, replayed)
    \/ \E addr \in 1 .. Top, size \in Sizes : Munmap(addr, size)

Spec == Init /\ [][Next]_vars
-----------------------------------------------------------------------------
(* A read of one byte (mmappread) finds exactly one node when the byte was  *)
(* mapped and replayed, and that node's replayed address plus the offset   *)
(* is where the byte is; else it finds none. A failed mmap, or one over     *)
(* another mapping, leaves nodes that are found beside the right one.       *)
Shows(node, a) == node.replayed + (a - node.start) = mapped[a]
IsReplayed(a) == a \in DOMAIN mapped /\ mapped[a] # NotReplayed

FindsItsMapping ==
    usual => \A a \in 1 .. Top :
                LET found == find_VM_node(vma, a, 1) IN
                IF IsReplayed(a) THEN \E node \in vma : found = {node} /\ Shows(node, a)
                ELSE found = {}

(* Even then the right one is among them: no munmap, of whatever range,     *)
(* moves or removes a part of a mapping it does not cover.                  *)
FindsAtLeast ==
    \A a \in 1 .. Top :
        IsReplayed(a) => \E node \in find_VM_node(vma, a, 1) : Shows(node, a)

(* The four tests for an overlap together are one: a range finds the nodes *)
(* it has a byte in common with, and no node is left without a byte.        *)
OverlapIsExact ==
    usual =>
    /\ \A node \in vma : node.size > 0
    /\ \A a \in 1 .. Top, size \in Sizes :
          find_VM_node(vma, a, size) =
             {node \in vma : Range(node.start, node.size) \cap Range(a, size) # {}}
=============================================================================
