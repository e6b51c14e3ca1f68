------------------------------ MODULE MemPool ------------------------------
(***************************************************************************)
(* The memory pool of ms_mem.c.  Small requests are served one after the   *)
(* other from a chain of blocks, large ones by the heap, with a node in a  *)
(* small block for each.  Nothing is given back before a reset, which      *)
(* keeps the blocks for later use, or the end of the pool.                 *)
(* Addresses are offsets in a block, in bytes; blocks start aligned.       *)
(***************************************************************************)
EXTENDS Integers, Sequences

CONSTANTS
    Limit,      \* pool->max, the size the pool was created with
    Sizes,      \* the sizes that are asked for
    Chunks,     \* places of the heap for large requests
    MaxBlocks,  \* bound: blocks in the chain
    MaxGrants   \* bound: requests served since the last reset

ASSUME SizeAssumption == Limit \in Nat /\ Sizes \subseteq Nat
ASSUME BoundAssumption == MaxBlocks \in Nat /\ MaxGrants \in Nat

\* sizeof(ms_mem_pool_large_t) and, of the first and of the other blocks, the
\* headers sizeof(ms_mem_pool_t) and sizeof(ms_mem_pool_small_t)
NodeSize == 16
Header(b) == IF b = 1 THEN 64 ELSE 32
End(b) == Header(b) + Limit

VARIABLES
    blocks,   \* the chain; empty if there is no pool
    current,  \* where pool->current is in it; 1 if there is no pool
    large,    \* the list of large memory, newest first
    heap,     \* the places of the heap in use for large requests
    grants    \* what has been handed out since the last reset

vars == <<blocks, current, large, heap, grants>>

\* A block nothing has been taken from
Block(b) == [last |-> Header(b), failed |-> 0]

Init == blocks = <<>> /\ current = 1 /\ large = <<>> /\ heap = {} /\ grants = <<>>
-----------------------------------------------------------------------------
\* align_ptr(p, MS_MEM_POOL_ALIGNMENT)
AlignPtr(p) == ((p + 15) \div 16) * 16

\* (size_t)(end - p) >= size: a negative difference is a huge unsigned number.
Enough(p, end, size) == p > end \/ end - p >= size

\* Seeded fault: the padding before the aligned address is not counted.
FitsUnaligned(b, size) == Enough(blocks[b].last, End(b), size)

Fits(b, size) == Enough(AlignPtr(blocks[b].last), End(b), size)

\* Seeded fault: the block goes on from its old end, padding or not.
TakenUnpadded(block, p, size) == [block EXCEPT !.last = @ + size]

\* A block after size bytes at p have been taken from it.
Taken(block, p, size) == [block EXCEPT !.last = p + size]

\* The first block from the current one on that has enough left.
FromChain(size) ==
    \E b \in current .. Len(blocks) :
        /\ Fits(b, size)
        /\ \A c \in current .. b - 1 : ~Fits(c, size)
        /\ LET p == AlignPtr(blocks[b].last) IN
           /\ blocks' = [blocks EXCEPT ![b] = Taken(@, p, size)]
           /\ grants' = Append(grants, [block |-> b, from |-> p, size |-> size])
        /\ UNCHANGED current

NoneFits(size) == \A b \in current .. Len(blocks) : ~Fits(b, size)

\* Seeded fault: one refusal earlier.
TiredEarly == {b \in current .. Len(blocks) - 1 : blocks[b].failed >= 4}

\* Blocks that have had to refuse too often; d->failed++ compares before it counts.
Tired == {b \in current .. Len(blocks) - 1 : blocks[b].failed > 4}

\* A new block at the end of the chain.  The last one before it is not counted as
\* refusing.
FromNewBlock(size) ==
    LET n == Len(blocks) + 1
        p == AlignPtr(Header(n))
        enough == Enough(p, End(n), size)
    IN
    /\ NoneFits(size)
    /\ n <= MaxBlocks
    /\ blocks' = [b \in 1 .. n |->
                    IF b = n THEN IF enough THEN Taken(Block(n), p, size) ELSE Block(n)
                    ELSE [blocks[b] EXCEPT !.failed = IF b \in current .. n - 2 THEN @ + 1 ELSE @]]
    /\ grants' = IF enough
                   THEN Append(grants, [block |-> n, from |-> p, size |-> size])
                   ELSE grants
    /\ \/ Tired = {} /\ UNCHANGED current
       \/ \E last \in Tired : (\A b \in Tired : b <= last) /\ current' = last + 1

\* posix_memalign() has failed, for a new block.
Refused(size) == NoneFits(size) /\ UNCHANGED <<blocks, current, grants>>

\* ms_mem_pool_pcalloc_small()
PcallocSmall(size) == FromChain(size) \/ FromNewBlock(size) \/ Refused(size)
-----------------------------------------------------------------------------
Exists == blocks # <<>>

\* ms_mem_pool_create()
Create ==
    /\ ~Exists
    /\ blocks' = <<Block(1)>>
    /\ current' = 1
    /\ UNCHANGED <<large, heap, grants>>

\* The two sides of ms_mem_pool_pcalloc()
Small(size) ==
    /\ Exists /\ Len(grants) < MaxGrants
    /\ size <= Limit
    /\ PcallocSmall(size)
    /\ UNCHANGED <<large, heap>>

\* Seeded fault: no free(t) when there is no node.
LargeLeaks(size) ==
    /\ Exists /\ Len(grants) < MaxGrants
    /\ size > Limit
    /\ PcallocSmall(NodeSize)
    /\ \E chunk \in Chunks \ heap :
        /\ heap' = heap \cup {chunk}
        /\ large' = IF Len(grants') > Len(grants) THEN
                        LET node == grants'[Len(grants')]
                        IN <<[block |-> node.block, from |-> node.from, alloc |-> chunk]>> \o large
                    ELSE large

\* ms_mem_pool_pcalloc_large(): memory of the heap, and a node for it; without
\* the node the memory is freed again.
Large(size) ==
    /\ Exists /\ Len(grants) < MaxGrants
    /\ size > Limit
    /\ PcallocSmall(NodeSize)
    /\ \E chunk \in Chunks \ heap :
        IF Len(grants') > Len(grants) THEN
            LET node == grants'[Len(grants')] IN
            /\ large' = <<[block |-> node.block, from |-> node.from, alloc |-> chunk]>> \o large
            /\ heap' = heap \cup {chunk}
        ELSE UNCHANGED <<large, heap>>

Listed == {large[i].alloc : i \in 1 .. Len(large)}

\* Seeded fault: every block starts over behind the header of the first kind.
ResetShort ==
    /\ Exists
    /\ blocks' = [b \in 1 .. Len(blocks) |-> Block(2)]
    /\ current' = 1
    /\ heap' = heap \ Listed
    /\ large' = <<>>
    /\ grants' = <<>>

\* ms_mem_pool_reset()
Reset ==
    /\ Exists
    /\ blocks' = [b \in 1 .. Len(blocks) |-> Block(b)]
    /\ current' = 1
    /\ heap' = heap \ Listed
    /\ large' = <<>>
    /\ grants' = <<>>

\* ms_mem_pool_destory()
Destory ==
    /\ Exists
    /\ blocks' = <<>> /\ current' = 1
    /\ heap' = heap \ Listed
    /\ large' = <<>>
    /\ grants' = <<>>

Next ==
    \/ Create \/ Reset \/ Destory
    \/ \E size \in Sizes : Small(size) \/ Large(size)

Spec == Init /\ [][Next]_vars
-----------------------------------------------------------------------------
(* Properties.                                                             *)

Lent(g) == grants[g].from + grants[g].size

TypeOK ==
    /\ blocks \in Seq([last : Nat, failed : Nat])
    /\ grants \in Seq([block : Nat, from : Nat, size : Nat])
    /\ large \in Seq([block : Nat, from : Nat, alloc : Chunks])
    /\ heap \subseteq Chunks
    /\ current \in Nat \ {0} /\ (Exists => current <= Len(blocks))

\* Of two that were handed out of one block the later lies behind the earlier, and
\* all lie before the block's next free address.
Stacked ==
    /\ \A b \in 1 .. Len(blocks) :
        Header(b) <= blocks[b].last /\ blocks[b].last <= End(b)
    /\ \A g \in 1 .. Len(grants) :
        /\ grants[g].block \in 1 .. Len(blocks)
        /\ Header(grants[g].block) <= grants[g].from
        /\ Lent(g) <= blocks[grants[g].block].last
    /\ \A g, h \in 1 .. Len(grants) :
        g < h /\ grants[g].block = grants[h].block => Lent(g) <= grants[h].from

\* From the current block on, an older block has refused at least as often.
Aged ==
    \A b, c \in current .. Len(blocks) : b <= c => blocks[c].failed <= blocks[b].failed

\* A block is given up only when it has refused six requests since the last reset
\* (the comment at ms_mem.c:268).
GivenUp == \A b \in 1 .. current - 1 : blocks[b].failed >= 6

\* Every node of the list of large memory is in memory lent to it alone, and what
\* the list names is exactly what is in use of the heap, each part once: a reset
\* or the end of the pool frees every part, and none twice.
LargeKept ==
    /\ \A i \in 1 .. Len(large) : \E g \in 1 .. Len(grants) :
        /\ grants[g].block = large[i].block
        /\ grants[g].from = large[i].from
        /\ grants[g].size = NodeSize
    /\ heap = Listed
    /\ \A i, j \in 1 .. Len(large) : i # j =>
        /\ large[i].alloc # large[j].alloc
        /\ <<large[i].block, large[i].from>> # <<large[j].block, large[j].from>>

\* The inductive invariant of the proofs, for pools of an aligned size.
PoolInv == Limit % 16 = 0 => TypeOK /\ Stacked /\ Aged /\ GivenUp

\* Nothing that a caller gets reaches out of its block, or into the header.
Inside ==
    \A g \in 1 .. Len(grants) :
        /\ Header(grants[g].block) <= grants[g].from
        /\ Lent(g) <= End(grants[g].block)

\* No two that hold memory share a byte, across resets, from old and new blocks,
\* whether they are callers or nodes of the list of large memory.
Apart ==
    \A g, h \in 1 .. Len(grants) :
        g # h /\ grants[g].block = grants[h].block
            => Lent(g) <= grants[h].from \/ Lent(h) <= grants[g].from
=============================================================================
