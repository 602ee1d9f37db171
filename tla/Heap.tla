-------------------------------- MODULE Heap --------------------------------
(***************************************************************************)
(* heap_4.c: the heap every task, queue, socket and network buffer comes   *)
(* from.  Addresses and sizes count units of portBYTE_ALIGNMENT (8) bytes; *)
(* a block is its header, one unit, and what the caller asked for.  A heap *)
(* is the set of its free blocks, which the code links in address order,   *)
(* the set of the blocks handed out, and the count the code keeps.  Both   *)
(* calls run with the scheduler suspended, so one step each.               *)
(***************************************************************************)
EXTENDS Naturals, FiniteSets

CONSTANTS HeapUnits,   \* configTOTAL_HEAP_SIZE, in units
          NULL         \* no address, no buffer

\* The end marker and at least one block.
ASSUME HeapUnitsAssumption == HeapUnits \in Nat \ {0, 1}
ASSUME NULLAssumption == NULL \notin Nat

Header == 1                    \* xHeapStructSize
heapMINIMUM_BLOCK_SIZE == 2 * Header
Block(at, size) == [at |-> at, size |-> size]

\* One free block, up to the end marker, which takes a header itself.
prvHeapInit == [free |-> {Block(0, HeapUnits - Header)}, used |-> {},
                xFreeBytesRemaining |-> HeapUnits - Header]

\* The block joins the free block that ends where it begins, and the one that
\* begins where it ends.
prvInsertBlockIntoFreeList(free, block) ==
    LET before == {b \in free : b.at + b.size = block.at}
        after == {b \in free : b.at = block.at + block.size}
        at == IF before = {} THEN block.at ELSE (CHOOSE b \in before : TRUE).at
        size == IF after = {} THEN block.size ELSE block.size + (CHOOSE b \in after : TRUE).size
    IN  (free \ (before \cup after)) \cup {Block(at, block.at - at + size)}

\* The first free block, in address order, that is large enough.
FirstFit(h, wanted) ==
    LET fits == {b \in h.free : b.size >= wanted}
    IN  CHOOSE b \in fits : \A other \in fits : b.at <= other.at

CanFit(h, wanted) == /\ wanted > 0
                     /\ wanted <= h.xFreeBytesRemaining
                     /\ \E b \in h.free : b.size >= wanted

\* What is over is split off when it is larger than heapMINIMUM_BLOCK_SIZE,
\* and handed out with the rest otherwise.
pvPortMalloc(h, size) ==
    LET wanted == IF size > 0 THEN size + Header ELSE 0
        found == FirstFit(h, wanted)
        splits == found.size - wanted > heapMINIMUM_BLOCK_SIZE
        taken == IF splits THEN Block(found.at, wanted) ELSE found
        rest == Block(found.at + wanted, found.size - wanted)
        others == h.free \ {found}
    IN  IF ~CanFit(h, wanted) THEN [heap |-> h, at |-> NULL]
        ELSE [heap |-> [free |-> IF splits THEN prvInsertBlockIntoFreeList(others, rest) ELSE others,
                        used |-> h.used \cup {taken},
                        xFreeBytesRemaining |-> h.xFreeBytesRemaining - taken.size],
              at |-> found.at + Header]

\* NULL may be freed.  What was freed before is not in used any more: the code
\* finds its allocated bit clear and, its assertion aside, does nothing.
vPortFree(h, at) ==
    LET block == CHOOSE b \in h.used : b.at + Header = at
    IN  IF ~ \E b \in h.used : b.at + Header = at THEN h
        ELSE [free |-> prvInsertBlockIntoFreeList(h.free, block),
              used |-> h.used \ {block},
              xFreeBytesRemaining |-> h.xFreeBytesRemaining + block.size]

(***************************************************************************)
(* The heap is cut into blocks without holes or overlaps, no two free      *)
(* blocks touch, and the count is what is free: pvPortMalloc, vPortFree    *)
(* and prvInsertBlockIntoFreeList keep it so.                              *)
(***************************************************************************)
Units(b) == b.at .. (b.at + b.size - 1)

HeapIsWhole(h) ==
    /\ \A b, c \in h.free \cup h.used : b # c => Units(b) \cap Units(c) = {}
    /\ UNION {Units(b) : b \in h.free \cup h.used} = 0 .. (HeapUnits - Header - 1)
    /\ \A b, c \in h.free : b.at + b.size # c.at
    /\ h.xFreeBytesRemaining = Cardinality(UNION {Units(b) : b \in h.free})

=============================================================================
