--------------------------- MODULE MemPoolProofs ---------------------------
(***************************************************************************)
(* Proofs about module MemPool, for pools of every aligned size, requests  *)
(* of every size and chains of any length.                                 *)
(***************************************************************************)
EXTENDS MemPool, SequenceTheorems, TLAPS

BlockType == [last : Nat, failed : Nat]
GrantType == [block : Nat, from : Nat, size : Nat]
NodeType == [block : Nat, from : Nat, alloc : Chunks]

\* The macro align_ptr() goes up, and not past an aligned address.
LEMMA AlignUp ==
    ASSUME NEW p \in Nat
    PROVE  /\ AlignPtr(p) \in Nat /\ p <= AlignPtr(p)
           /\ \A e \in Nat : e % 16 = 0 /\ p <= e => AlignPtr(p) <= e
  BY DEF AlignPtr

\* Where a block ends, in a pool of an aligned size
LEMMA Ends ==
    ASSUME Limit % 16 = 0, NEW b \in Nat
    PROVE  /\ Header(b) \in Nat /\ End(b) \in Nat
           /\ Header(b) <= End(b) /\ End(b) % 16 = 0 /\ Header(b) % 16 = 0
  BY SizeAssumption DEF Header, End

\* In such a pool the test for enough room is right: the address does not lie past
\* the end.
LEMMA Room ==
    ASSUME Limit % 16 = 0, NEW b \in Nat, NEW last \in Nat, NEW size \in Nat,
           Header(b) <= last, last <= End(b), Enough(AlignPtr(last), End(b), size)
    PROVE  /\ AlignPtr(last) \in Nat /\ last <= AlignPtr(last)
           /\ AlignPtr(last) + size <= End(b)
<1>1. AlignPtr(last) \in Nat /\ last <= AlignPtr(last) /\ AlignPtr(last) <= End(b) /\ End(b) \in Nat
  BY AlignUp, Ends
<1> QED
  BY <1>1 DEF Enough

\* The part of the invariant that is about the blocks and what is taken from them.
Core ==
    /\ blocks \in Seq(BlockType)
    /\ grants \in Seq(GrantType)
    /\ current \in Nat \ {0} /\ (Exists => current <= Len(blocks))
    /\ Stacked /\ Aged /\ GivenUp

\* What Core says of the blocks, of what is lent, and of any two parts of it.
BlockAt(b) == Header(b) <= blocks[b].last /\ blocks[b].last <= End(b)
LentAt(g) ==
    /\ grants[g].block \in 1 .. Len(blocks)
    /\ Header(grants[g].block) <= grants[g].from
    /\ Lent(g) <= blocks[grants[g].block].last
LentBefore(g, h) ==
    g < h /\ grants[g].block = grants[h].block => Lent(g) <= grants[h].from

\* size bytes at the first free address of block b are added to what is lent.
LEMMA Lending ==
    ASSUME Core, NEW b \in Nat, NEW p \in Nat, NEW size \in Nat,
           blocks' \in Seq(BlockType), Len(blocks) <= Len(blocks'),
           b \in 1 .. Len(blocks'), blocks'[b].last = p + size, Header(b) <= p,
           \A c \in 1 .. Len(blocks) \ {b} : blocks'[c].last = blocks[c].last,
           b \in 1 .. Len(blocks) => blocks[b].last <= p,
           grants' = Append(grants, [block |-> b, from |-> p, size |-> size])
    PROVE  /\ grants' \in Seq(GrantType)
           /\ \A g \in 1 .. Len(grants') : LentAt(g)'
           /\ \A g, h \in 1 .. Len(grants') : LentBefore(g, h)'
<1> DEFINE new == [block |-> b, from |-> p, size |-> size]
<1>1. new \in GrantType
  BY DEF GrantType
<1>2. /\ grants' \in Seq(GrantType) /\ Len(grants') = Len(grants) + 1 /\ Len(grants) \in Nat
      /\ grants'[Len(grants) + 1] = new
      /\ \A g \in 1 .. Len(grants) : grants'[g] = grants[g]
  BY <1>1, AppendProperties DEF Core
<1>3. \A g \in 1 .. Len(grants) : /\ LentAt(g) /\ grants[g] \in GrantType
                                  /\ blocks[grants[g].block].last \in Nat
  <2> SUFFICES ASSUME NEW g \in 1 .. Len(grants)
               PROVE  /\ LentAt(g) /\ grants[g] \in GrantType
                      /\ blocks[grants[g].block].last \in Nat
    OBVIOUS
  <2>1. LentAt(g) /\ grants[g] \in GrantType
    BY ElementOfSeq DEF Core, Stacked, LentAt
  <2>2. blocks[grants[g].block] \in BlockType
    BY <2>1, ElementOfSeq DEF Core, LentAt
  <2> QED
    BY <2>1, <2>2 DEF BlockType
<1>4. \A g \in 1 .. Len(grants) : LentAt(g)'
  <2> SUFFICES ASSUME NEW g \in 1 .. Len(grants) PROVE LentAt(g)'
    OBVIOUS
  <2>1. grants'[g] = grants[g] /\ LentAt(g) /\ Len(blocks) \in Nat /\ Len(blocks') \in Nat
    BY <1>2, <1>3, LenProperties DEF Core
  <2>2. grants[g].from \in Nat /\ grants[g].size \in Nat /\ blocks[grants[g].block].last \in Nat
    BY <1>3 DEF GrantType
  <2>3. blocks[grants[g].block].last <= blocks'[grants[g].block].last
    BY <2>1, <2>2 DEF LentAt
  <2>4. blocks'[grants[g].block].last \in Nat
    BY <2>1, <2>2 DEF LentAt
  <2>5. grants[g].block \in 1 .. Len(blocks')
    BY <2>1 DEF LentAt
  <2>6. grants[g].from + grants[g].size <= blocks'[grants[g].block].last
    <3>1. grants[g].from + grants[g].size <= blocks[grants[g].block].last
      BY <2>1 DEF LentAt, Lent
    <3>2. grants[g].from + grants[g].size \in Nat
      BY <2>2
    <3> QED
      BY <2>2, <2>3, <2>4, <3>1, <3>2
  <2> QED
    BY <2>1, <2>5, <2>6 DEF LentAt, Lent
<1>5. \A g \in 1 .. Len(grants') \ 1 .. Len(grants) : LentAt(g)'
  <2> SUFFICES ASSUME NEW g \in 1 .. Len(grants') \ 1 .. Len(grants) PROVE LentAt(g)'
    OBVIOUS
  <2>1. grants'[g] = new
    BY <1>2
  <2>2. new.block = b /\ new.from = p /\ new.size = size
    OBVIOUS
  <2> QED
    BY <2>1, <2>2 DEF LentAt, Lent
<1>6. ASSUME NEW g \in 1 .. Len(grants'), NEW h \in 1 .. Len(grants') PROVE LentBefore(g, h)'
  <2>1. CASE h \in 1 .. Len(grants) /\ g \in 1 .. Len(grants)
    <3>1. LentBefore(g, h)
      BY <2>1 DEF Core, Stacked, LentBefore
    <3> QED
      BY <1>2, <2>1, <3>1 DEF LentBefore, Lent
  <2>2. CASE h = Len(grants) + 1 /\ g \in 1 .. Len(grants)
    <3>1. grants'[g] = grants[g] /\ LentAt(g) /\ grants[g].from \in Nat /\ grants[g].size \in Nat
      BY <1>2, <1>3, <2>2 DEF GrantType
    <3>2. CASE grants[g].block = b
      <4>1. Lent(g) <= blocks[b].last /\ blocks[b].last <= p /\ blocks[b].last \in Nat
        BY <1>3, <2>2, <3>1, <3>2 DEF LentAt
      <4> QED
        BY <1>2, <2>2, <3>1, <4>1 DEF LentBefore, Lent
    <3>3. CASE grants[g].block # b
      BY <1>2, <2>2, <3>1, <3>3 DEF LentBefore
    <3> QED
      BY <3>2, <3>3
  <2>3. CASE g = Len(grants) + 1
    BY <1>2, <2>3 DEF LentBefore
  <2> QED
    BY <1>2, <2>1, <2>2, <2>3
<1> QED
  BY <1>2, <1>4, <1>5, <1>6

\* A small request that a block of the chain serves.
LEMMA ChainStep ==
    ASSUME Core, Limit % 16 = 0, NEW size \in Nat, FromChain(size)
    PROVE  Core' /\ Len(blocks') = Len(blocks) /\ Len(grants') = Len(grants) + 1
<1>1. PICK b \in current .. Len(blocks) :
        /\ Fits(b, size)
        /\ LET p == AlignPtr(blocks[b].last) IN
           /\ blocks' = [blocks EXCEPT ![b] = Taken(@, p, size)]
           /\ grants' = Append(grants, [block |-> b, from |-> p, size |-> size])
  BY DEF FromChain
<1>2. b \in 1 .. Len(blocks) /\ b \in Nat /\ blocks[b] \in BlockType /\ Len(blocks) \in Nat
  BY ElementOfSeq, LenProperties DEF Core
<1> DEFINE p == AlignPtr(blocks[b].last)
<1>3. /\ p \in Nat /\ blocks[b].last <= p /\ p + size <= End(b)
      /\ Header(b) <= blocks[b].last /\ blocks[b].last \in Nat /\ Header(b) \in Nat
  BY <1>1, <1>2, Room, Ends DEF Core, Stacked, Fits, BlockType
<1>4. Taken(blocks[b], p, size) = [last |-> p + size, failed |-> blocks[b].failed]
  BY <1>2 DEF Taken, BlockType
<1>5. Taken(blocks[b], p, size) \in BlockType
  BY <1>2, <1>3, <1>4 DEF BlockType
<1>6. /\ blocks' \in Seq(BlockType) /\ Len(blocks') = Len(blocks)
      /\ \A c \in 1 .. Len(blocks) : blocks'[c] = IF c = b THEN Taken(blocks[b], p, size) ELSE blocks[c]
  BY <1>1, <1>2, <1>5, ExceptSeq DEF Core
<1>7. /\ blocks'[b].last = p + size
      /\ \A c \in 1 .. Len(blocks) \ {b} : blocks'[c].last = blocks[c].last
      /\ \A c \in 1 .. Len(blocks) : blocks'[c].failed = blocks[c].failed
  BY <1>2, <1>4, <1>6
<1>8. /\ grants' \in Seq(GrantType)
      /\ \A g \in 1 .. Len(grants') : LentAt(g)'
      /\ \A g, h \in 1 .. Len(grants') : LentBefore(g, h)'
  <2>1. Header(b) <= p /\ Len(blocks) <= Len(blocks') /\ b \in 1 .. Len(blocks')
    BY <1>2, <1>3, <1>6
  <2>2. grants' = Append(grants, [block |-> b, from |-> p, size |-> size])
    BY <1>1
  <2> HIDE DEF p
  <2> QED
    BY <1>2, <1>3, <1>6, <1>7, <2>1, <2>2, Lending
<1>9. \A c \in 1 .. Len(blocks') : BlockAt(c)'
  BY <1>2, <1>3, <1>6, <1>7 DEF BlockAt, Core, Stacked
<1>10. Stacked'
  BY <1>8, <1>9 DEF Stacked, LentAt, LentBefore, BlockAt
<1>11. current' = current /\ current \in Nat \ {0}
  BY DEF FromChain, Core
<1>12. Aged'
  <2> SUFFICES ASSUME NEW c \in current .. Len(blocks), NEW d \in current .. Len(blocks), c <= d
               PROVE  blocks'[d].failed <= blocks'[c].failed
    BY <1>6, <1>11 DEF Aged
  <2>1. c \in 1 .. Len(blocks) /\ d \in 1 .. Len(blocks)
    BY <1>11
  <2>2. blocks[d].failed <= blocks[c].failed
    BY DEF Core, Aged
  <2> QED
    BY <1>7, <2>1, <2>2
<1>13. GivenUp'
  <2> SUFFICES ASSUME NEW c \in 1 .. current - 1 PROVE blocks'[c].failed >= 6
    BY <1>11 DEF GivenUp
  <2>1. c \in 1 .. Len(blocks)
    BY <1>1, <1>2, <1>11
  <2> QED
    BY <1>7, <2>1 DEF Core, GivenUp
<1>14. Len(grants') = Len(grants) + 1
  <2>1. [block |-> b, from |-> p, size |-> size] \in GrantType
    BY <1>2, <1>3 DEF GrantType
  <2> QED
    BY <1>1, <2>1, AppendProperties DEF Core
<1>15. current' <= Len(blocks')
  BY <1>1, <1>2, <1>6, <1>11
<1> QED
  BY <1>6, <1>8, <1>10, <1>11, <1>12, <1>13, <1>14, <1>15 DEF Core

LEMMA Between ==
    ASSUME NEW n \in Nat, NEW m \in 1 .. n, NEW b \in 1 .. m - 1
    PROVE  b \in 1 .. n /\ b \in Nat /\ b < m
  OBVIOUS

\* A small request that a new block serves: its first 16 bytes or more, if they are
\* enough.
LEMMA NewBlockStep ==
    ASSUME Core, Limit % 16 = 0, Exists, NEW size \in Nat, FromNewBlock(size)
    PROVE  /\ Core' /\ Len(blocks') = Len(blocks) + 1
           /\ grants' = grants \/ Len(grants') = Len(grants) + 1
<1> DEFINE n == Len(blocks) + 1
           p == AlignPtr(Header(n))
           enough == Enough(p, End(n), size)
<1>1. /\ Len(blocks) \in Nat /\ n \in Nat /\ current \in 1 .. Len(blocks)
      /\ \A b \in 1 .. Len(blocks) : blocks[b] \in BlockType
  BY LenProperties, ElementOfSeq DEF Core
<1>2. /\ blocks' = [b \in 1 .. n |->
                      IF b = n THEN IF enough THEN Taken(Block(n), p, size) ELSE Block(n)
                      ELSE [blocks[b] EXCEPT !.failed = IF b \in current .. n - 2 THEN @ + 1 ELSE @]]
      /\ grants' = IF enough
                     THEN Append(grants, [block |-> n, from |-> p, size |-> size])
                     ELSE grants
      /\ \/ Tired = {} /\ UNCHANGED current
         \/ \E last \in Tired : (\A b \in Tired : b <= last) /\ current' = last + 1
  BY DEF FromNewBlock
<1>3. Header(n) \in Nat /\ End(n) \in Nat /\ Header(n) <= End(n) /\ p \in Nat /\ Header(n) <= p
  BY <1>1, Ends, AlignUp
<1>4. ASSUME enough PROVE p + size <= End(n)
  BY <1>1, <1>3, <1>4, Room
<1>5. /\ Block(n) = [last |-> Header(n), failed |-> 0]
      /\ Taken(Block(n), p, size) = [last |-> p + size, failed |-> 0]
  BY DEF Block, Taken
<1>6. /\ blocks'[n] = IF enough THEN [last |-> p + size, failed |-> 0]
                      ELSE [last |-> Header(n), failed |-> 0]
      /\ \A b \in 1 .. Len(blocks) :
           blocks'[b] = [blocks[b] EXCEPT !.failed = IF b \in current .. n - 2 THEN @ + 1 ELSE @]
  <2>1. n \in 1 .. n /\ \A b \in 1 .. Len(blocks) : b \in 1 .. n /\ b # n
    BY <1>1
  <2> HIDE DEF n, p, enough
  <2> QED
    BY <1>2, <1>5, <2>1
<1> DEFINE count(b) == IF b \in current .. Len(blocks) - 1 THEN blocks[b].failed + 1 ELSE blocks[b].failed
<1>7. \A b \in 1 .. Len(blocks) :
        /\ blocks'[b] \in BlockType
        /\ blocks'[b].last = blocks[b].last /\ blocks'[b].failed = count(b)
        /\ blocks[b].last \in Nat /\ blocks[b].failed \in Nat /\ count(b) \in Nat
  <2> SUFFICES ASSUME NEW b \in 1 .. Len(blocks)
               PROVE  /\ blocks'[b] \in BlockType
                      /\ blocks'[b].last = blocks[b].last /\ blocks'[b].failed = count(b)
                      /\ blocks[b].last \in Nat /\ blocks[b].failed \in Nat /\ count(b) \in Nat
    OBVIOUS
  <2>1. n - 2 = Len(blocks) - 1
    BY <1>1
  <2>2. blocks[b] \in BlockType
    BY <1>1
  <2>3. blocks[b] = [last |-> blocks[b].last, failed |-> blocks[b].failed]
        /\ blocks[b].last \in Nat /\ blocks[b].failed \in Nat
    BY <2>2 DEF BlockType
  <2>4. blocks'[b] = [blocks[b] EXCEPT !.failed = count(b)]
    BY <1>6, <2>1
  <2>5. count(b) \in Nat
    BY <2>3
  <2> HIDE DEF count
  <2>6. blocks'[b] = [last |-> blocks[b].last, failed |-> count(b)]
    BY <2>3, <2>4
  <2> QED
    BY <2>3, <2>5, <2>6 DEF BlockType
<1>8. /\ blocks' \in Seq(BlockType) /\ Len(blocks') = n
      /\ \A b \in 1 .. n : blocks'[b] \in BlockType
  <2>1. blocks'[n] \in BlockType
    BY <1>3, <1>6 DEF BlockType
  <2>2. \A b \in 1 .. Len(blocks) : blocks'[b] \in BlockType
    BY <1>7
  <2>3. \A b \in 1 .. n : blocks'[b] \in BlockType
    BY <1>1, <2>1, <2>2
  <2>4. blocks' = [b \in 1 .. n |-> blocks'[b]]
    BY <1>2
  <2>5. blocks' \in [1 .. n -> BlockType]
    BY <2>3, <2>4
  <2> QED
    BY <1>1, <2>3, <2>5
<1>9. \A b \in 1 .. Len(blocks) : blocks'[b].last = blocks[b].last /\ blocks'[b].failed = count(b)
  BY <1>7
<1>10. /\ grants' \in Seq(GrantType)
       /\ \A g \in 1 .. Len(grants') : LentAt(g)'
       /\ \A g, h \in 1 .. Len(grants') : LentBefore(g, h)'
       /\ grants' = grants \/ Len(grants') = Len(grants) + 1
  <2>1. CASE enough
    <3>1. /\ grants' = Append(grants, [block |-> n, from |-> p, size |-> size])
          /\ blocks'[n].last = p + size
          /\ n \notin 1 .. Len(blocks) /\ n \in 1 .. Len(blocks') /\ Len(blocks) <= Len(blocks')
          /\ \A c \in 1 .. Len(blocks) \ {n} : blocks'[c].last = blocks[c].last
      BY <1>1, <1>2, <1>6, <1>8, <1>9, <2>1
    <3>2. [block |-> n, from |-> p, size |-> size] \in GrantType
      BY <1>1, <1>3 DEF GrantType
    <3>3. Len(grants') = Len(grants) + 1
      BY <3>1, <3>2, AppendProperties DEF Core
    <3> HIDE DEF n, p, enough
    <3> QED
      BY <1>1, <1>3, <1>8, <3>1, <3>3, Lending
  <2>2. CASE ~enough
    <3>1. grants' = grants
      BY <1>2, <2>2
    <3>2. ASSUME NEW g \in 1 .. Len(grants) PROVE LentAt(g)'
      <4>1. LentAt(g)
        BY DEF Core, Stacked, LentAt
      <4>2. blocks'[grants[g].block].last = blocks[grants[g].block].last
        BY <1>9, <4>1 DEF LentAt
      <4>3. grants[g].block \in 1 .. Len(blocks')
        BY <1>1, <1>8, <4>1 DEF LentAt
      <4> QED
        BY <3>1, <4>1, <4>2, <4>3 DEF LentAt, Lent
    <3> QED
      BY <3>1, <3>2 DEF Core, Stacked, LentBefore, Lent
  <2> QED
    BY <2>1, <2>2
<1>11. \A b \in 1 .. Len(blocks') : BlockAt(b)'
  <2> SUFFICES ASSUME NEW b \in 1 .. n PROVE Header(b) <= blocks'[b].last /\ blocks'[b].last <= End(b)
    BY <1>8 DEF BlockAt
  <2>1. CASE b = n
    <3>1. CASE enough
      BY <1>3, <1>4, <1>6, <2>1, <3>1
    <3>2. CASE ~enough
      BY <1>3, <1>6, <2>1, <3>2
    <3> QED
      BY <3>1, <3>2
  <2>2. CASE b # n
    BY <1>1, <1>9, <2>2 DEF Core, Stacked
  <2> QED
    BY <2>1, <2>2
<1>12. Stacked'
  BY <1>10, <1>11 DEF Stacked, LentAt, LentBefore, BlockAt
<1>13. /\ current' \in 1 .. Len(blocks) /\ current <= current'
       /\ current' = current \/ \E last \in current .. Len(blocks) - 1 :
            current' = last + 1 /\ blocks[last].failed >= 5
  <2>1. CASE Tired = {} /\ UNCHANGED current
    BY <1>1, <2>1
  <2>2. CASE \E last \in Tired : (\A b \in Tired : b <= last) /\ current' = last + 1
    <3>1. PICK last \in current .. Len(blocks) - 1 : blocks[last].failed > 4 /\ current' = last + 1
      BY <2>2 DEF Tired
    <3>2. last \in 1 .. Len(blocks) /\ blocks[last].failed \in Nat
      <4>1. last \in 1 .. Len(blocks)
        BY <1>1, <3>1
      <4> QED
        BY <1>7, <4>1
    <3>3. blocks[last].failed >= 5
      BY <3>1, <3>2
    <3> QED
      BY <1>1, <3>1, <3>3
  <2> QED
    BY <1>2, <2>1, <2>2
<1>14. blocks'[n].failed = 0
  BY <1>6
<1>15. Aged'
  <2> SUFFICES ASSUME NEW c \in current' .. n, NEW d \in current' .. n, c <= d
               PROVE  blocks'[d].failed <= blocks'[c].failed
    BY <1>8 DEF Aged
  <2>1. blocks'[c] \in BlockType /\ blocks'[c].failed \in Nat
    BY <1>1, <1>8, <1>13 DEF BlockType
  <2>2. CASE d = n
    BY <1>14, <2>1, <2>2
  <2>3. CASE d # n
    <3>1. c \in current .. Len(blocks) /\ d \in current .. Len(blocks) /\ c \in 1 .. Len(blocks)
          /\ d \in 1 .. Len(blocks)
      BY <1>1, <1>13, <2>3
    <3>2. blocks[d].failed <= blocks[c].failed
      BY <3>1 DEF Core, Aged
    <3>3. d \in current .. Len(blocks) - 1 => c \in current .. Len(blocks) - 1
      BY <1>1, <3>1
    <3>4. blocks'[c].failed = count(c) /\ blocks'[d].failed = count(d)
          /\ blocks[c].failed \in Nat /\ blocks[d].failed \in Nat
      BY <1>7, <1>9, <3>1
    <3> QED
      BY <3>2, <3>3, <3>4
  <2> QED
    BY <2>2, <2>3
<1>16. GivenUp'
  <2> SUFFICES ASSUME NEW m \in 1 .. Len(blocks), m = current', NEW b \in 1 .. m - 1
               PROVE  blocks'[b].failed >= 6
    BY <1>13 DEF GivenUp
  <2>0. b \in 1 .. Len(blocks) /\ b \in Nat /\ b < m
    BY <1>1, Between
  <2>1. blocks'[b].failed = count(b) /\ blocks[b].failed \in Nat
    BY <1>7, <2>0
  <2>2. CASE b < current
    <3>1. blocks[b].failed >= 6
      BY <1>1, <2>1, <2>2 DEF Core, GivenUp
    <3> QED
      BY <2>1, <3>1
  <2>3. CASE ~(b < current)
    <3>1. PICK last \in current .. Len(blocks) - 1 : current' = last + 1 /\ blocks[last].failed >= 5
      BY <1>1, <1>13, <2>0, <2>3
    <3>2. b \in current .. Len(blocks) - 1 /\ b \in current .. Len(blocks)
          /\ last \in current .. Len(blocks) /\ b <= last /\ last \in 1 .. Len(blocks)
      BY <1>1, <2>0, <2>3, <3>1
    <3>3. blocks[last].failed <= blocks[b].failed
      BY <3>2 DEF Core, Aged
    <3>4. blocks[last].failed \in Nat
      BY <1>7, <3>2
    <3> QED
      BY <2>1, <3>1, <3>2, <3>3, <3>4
  <2> QED
    BY <2>2, <2>3
<1>17. current' \in Nat \ {0} /\ current' <= Len(blocks')
  BY <1>1, <1>8, <1>13
<1> QED
  BY <1>8, <1>10, <1>12, <1>15, <1>16, <1>17 DEF Core
-----------------------------------------------------------------------------
\* The part of the invariant that is about the list of large memory.
Listing == large \in Seq(NodeType) /\ heap \subseteq Chunks

\* A call of ms_mem_pool_pcalloc_small() that the pool may make.
LEMMA PcallocStep ==
    ASSUME Core, Limit % 16 = 0, Exists, NEW size \in Nat, PcallocSmall(size)
    PROVE  /\ Core' /\ Exists' /\ Len(grants) \in Nat
           /\ grants' = grants \/ Len(grants') = Len(grants) + 1
<1>1. Len(blocks) \in Nat \ {0} /\ Len(grants) \in Nat
  BY EmptySeq, LenProperties DEF Core, Exists
<1>2. CASE FromChain(size)
  <2>1. Core' /\ Len(blocks') = Len(blocks) /\ Len(grants') = Len(grants) + 1
    BY <1>2, ChainStep
  <2> QED
    BY <1>1, <2>1, EmptySeq DEF Exists
<1>3. CASE FromNewBlock(size)
  <2>1. /\ Core' /\ Len(blocks') = Len(blocks) + 1
        /\ grants' = grants \/ Len(grants') = Len(grants) + 1
    BY <1>3, NewBlockStep
  <2> QED
    BY <1>1, <2>1, EmptySeq DEF Exists
<1>4. CASE Refused(size)
  <2>1. UNCHANGED <<blocks, current, grants>>
    BY <1>4 DEF Refused
  <2>2. Core' /\ Exists'
    BY <2>1 DEF Core, Stacked, Aged, GivenUp, Exists, Lent
  <2> QED
    BY <1>1, <2>1, <2>2
<1> QED
  BY <1>2, <1>3, <1>4 DEF PcallocSmall

\* A pool with all blocks empty.
LEMMA FreshBlocks ==
    ASSUME Limit % 16 = 0, NEW n \in Nat, n > 0 \/ blocks' = <<>>,
           blocks' \in Seq(BlockType), Len(blocks') = n,
           \A b \in 1 .. n : blocks'[b] = Block(b),
           current' = 1, grants' = <<>>
    PROVE  Core'
<1>1. grants' \in Seq(GrantType) /\ Len(grants') = 0
  BY EmptySeq
<1>2. \A b \in 1 .. n : /\ Header(b) <= blocks'[b].last /\ blocks'[b].last <= End(b)
                        /\ blocks'[b].failed = 0
  <2> SUFFICES ASSUME NEW b \in 1 .. n
               PROVE  /\ Header(b) <= blocks'[b].last /\ blocks'[b].last <= End(b)
                      /\ blocks'[b].failed = 0
    OBVIOUS
  <2>1. b \in Nat /\ blocks'[b].last = Header(b) /\ blocks'[b].failed = 0
    BY DEF Block
  <2>2. Header(b) \in Nat /\ Header(b) <= End(b)
    BY <2>1, Ends
  <2> QED
    BY <2>1, <2>2
<1>3. Stacked'
  BY <1>1, <1>2 DEF Stacked
<1>4. Aged'
  BY <1>2 DEF Aged
<1>5. GivenUp'
  BY DEF GivenUp
<1>6. blocks' # <<>> => current' <= Len(blocks')
  OBVIOUS
<1> QED
  BY <1>1, <1>3, <1>4, <1>5, <1>6 DEF Core, Exists

LEMMA BlockTyped ==
    ASSUME Limit % 16 = 0, NEW b \in Nat
    PROVE  Block(b) \in BlockType
  BY Ends DEF Block, BlockType

LEMMA ResetStep ==
    ASSUME Core, Limit % 16 = 0, Reset
    PROVE  Core'
<1>1. /\ Len(blocks) \in Nat /\ Len(blocks) > 0
      /\ \A b \in 1 .. Len(blocks) : blocks[b] \in BlockType
  <2>1. Len(blocks) \in Nat \ {0}
    BY EmptySeq, LenProperties DEF Core, Reset, Exists
  <2> QED
    BY <2>1, ElementOfSeq DEF Core
<1>2. blocks' = [b \in 1 .. Len(blocks) |-> Block(b)]
  BY DEF Reset
<1>3. \A b \in 1 .. Len(blocks) : blocks'[b] = Block(b) /\ blocks'[b] \in BlockType
  BY <1>2, BlockTyped
<1>4. blocks' \in [1 .. Len(blocks) -> BlockType]
  <2>1. blocks' = [b \in 1 .. Len(blocks) |-> blocks'[b]]
    BY <1>2
  <2> QED
    BY <1>3, <2>1
<1>5. blocks' \in Seq(BlockType) /\ Len(blocks') = Len(blocks)
  BY <1>1, <1>3, <1>4
<1> QED
  BY <1>1, <1>3, <1>5, FreshBlocks DEF Reset

\* The pool is empty at first and after its end.
LEMMA EmptyPool ==
    ASSUME Limit % 16 = 0, blocks' = <<>>, current' = 1, grants' = <<>>
    PROVE  Core'
<1>1. blocks' \in Seq(BlockType) /\ Len(blocks') = 0
  BY EmptySeq
<1> QED
  BY <1>1, FreshBlocks

LEMMA CreateStep ==
    ASSUME Core, Limit % 16 = 0, Create, grants = <<>>
    PROVE  Core'
<1>1. blocks' \in Seq(BlockType) /\ Len(blocks') = 1 /\ \A b \in 1 .. 1 : blocks'[b] = Block(b)
  BY BlockTyped DEF Create
<1>2. current' = 1 /\ grants' = <<>>
  BY DEF Create
<1> QED
  BY <1>1, <1>2, FreshBlocks

\* Nothing is lent where there is no block.
LEMMA NothingLent == Core /\ ~Exists => grants = <<>>
<1> SUFFICES ASSUME Core, ~Exists, grants # <<>> PROVE FALSE
  OBVIOUS
<1>1. Len(grants) \in Nat \ {0} /\ Len(blocks) = 0
  BY EmptySeq DEF Core, Exists
<1>2. grants[1].block \in 1 .. Len(blocks)
  BY <1>1 DEF Core, Stacked
<1> QED
  BY <1>1, <1>2

\* The node that a large request puts before the list is what was lent last.
LEMMA LargeStep ==
    ASSUME Core, Listing, Limit % 16 = 0, NEW size \in Sizes, Large(size)
    PROVE  Core' /\ Listing'
<1>1. /\ Core' /\ Len(grants) \in Nat
      /\ grants' = grants \/ Len(grants') = Len(grants) + 1
  <2>1. NodeSize \in Nat /\ Exists /\ PcallocSmall(NodeSize)
    BY DEF NodeSize, Large
  <2> QED
    BY <2>1, PcallocStep
<1>2. PICK chunk \in Chunks \ heap :
        IF Len(grants') > Len(grants) THEN
            LET node == grants'[Len(grants')] IN
            /\ large' = <<[block |-> node.block, from |-> node.from, alloc |-> chunk]>> \o large
            /\ heap' = heap \cup {chunk}
        ELSE UNCHANGED <<large, heap>>
  BY DEF Large
<1>3. CASE Len(grants') > Len(grants)
  <2> DEFINE node == grants'[Len(grants')]
             entry == [block |-> node.block, from |-> node.from, alloc |-> chunk]
  <2>1. large' = <<entry>> \o large /\ heap' = heap \cup {chunk}
    BY <1>2, <1>3
  <2>2. Len(grants') \in 1 .. Len(grants')
    BY <1>1, <1>3
  <2>3. node \in GrantType
    BY <1>1, <2>2, ElementOfSeq DEF Core
  <2>4. entry \in NodeType
    BY <2>3 DEF GrantType, NodeType
  <2> HIDE DEF entry, node
  <2>5. <<entry>> \in Seq(NodeType)
    BY <2>4
  <2>6. large' \in Seq(NodeType)
    BY <2>1, <2>5, ConcatProperties DEF Listing
  <2> QED
    BY <1>1, <2>1, <2>6 DEF Listing
<1>4. CASE ~(Len(grants') > Len(grants))
  BY <1>1, <1>2, <1>4 DEF Listing
<1> QED
  BY <1>3, <1>4

\* The invariant in the form in which its steps are proved.
LEMMA Parts == PoolInv <=> (Limit % 16 = 0 => Core /\ Listing)
  BY DEF PoolInv, TypeOK, Core, Listing, BlockType, GrantType, NodeType

LEMMA PoolInit == Init => PoolInv
<1> SUFFICES ASSUME Init, Limit % 16 = 0 PROVE Core /\ Listing
  BY Parts
<1>1. blocks = <<>> /\ current = 1 /\ grants = <<>> /\ large = <<>> /\ heap = {}
  BY DEF Init
<1>2. blocks \in Seq(BlockType) /\ grants \in Seq(GrantType) /\ large \in Seq(NodeType)
      /\ Len(blocks) = 0 /\ Len(grants) = 0
  BY <1>1, EmptySeq
<1>3. Stacked /\ Aged /\ GivenUp
  BY <1>1, <1>2 DEF Stacked, Aged, GivenUp
<1> QED
  BY <1>1, <1>2, <1>3 DEF Core, Exists, Listing

LEMMA PoolStep == PoolInv /\ [Next]_vars => PoolInv'
<1> SUFFICES ASSUME Core, Listing, [Next]_vars, Limit % 16 = 0 PROVE (Core /\ Listing)'
  <2>1. PoolInv' <=> (Limit % 16 = 0 => Core' /\ Listing')
    BY DEF PoolInv, TypeOK, Core, Listing, BlockType, GrantType, NodeType
  <2> QED
    BY <2>1, Parts
<1>1. CASE UNCHANGED vars
  BY <1>1 DEF vars, Core, Listing, Exists, Stacked, Aged, GivenUp, Lent
<1>2. CASE Create
  <2>1. Core'
    BY <1>2, CreateStep, NothingLent DEF Create
  <2> QED
    BY <1>2, <2>1 DEF Create, Listing
<1>3. ASSUME large' = <<>>, heap' = heap \ Listed PROVE Listing'
  BY <1>3, EmptySeq DEF Listing
<1>4. CASE Reset
  BY <1>3, <1>4, ResetStep DEF Reset
<1>5. CASE Destory
  BY <1>3, <1>5, EmptyPool DEF Destory
<1>6. ASSUME NEW size \in Sizes, Small(size) PROVE (Core /\ Listing)'
  <2>1. Core'
    BY <1>6, PcallocStep, SizeAssumption DEF Small
  <2> QED
    BY <1>6, <2>1 DEF Small, Listing
<1>7. ASSUME NEW size \in Sizes, Large(size) PROVE (Core /\ Listing)'
  BY <1>7, LargeStep
<1> QED
  BY <1>1, <1>2, <1>4, <1>5, <1>6, <1>7 DEF Next

\* In a pool of an aligned size the variables keep their types, what is lent is
\* stacked up in the blocks, and blocks are given up in their order.
THEOREM PoolInvariant == Spec => []PoolInv
  BY PoolInit, PoolStep, PTL DEF Spec

\* In such a pool nothing that a caller of ms_mem_pool_pcalloc() gets reaches out of
\* its block or into the header.
THEOREM PoolInside == Limit % 16 = 0 => (Spec => []Inside)
<1>1. ASSUME Limit % 16 = 0 PROVE Spec => []Inside
  <2>1. PoolInv => Inside
    <3> SUFFICES ASSUME Core, NEW g \in 1 .. Len(grants)
                 PROVE  Header(grants[g].block) <= grants[g].from /\ Lent(g) <= End(grants[g].block)
      BY <1>1, Parts DEF Inside
    <3>1. LentAt(g) /\ grants[g] \in GrantType
      BY ElementOfSeq DEF Core, Stacked, LentAt
    <3> DEFINE b == grants[g].block
    <3>2. b \in 1 .. Len(blocks) /\ blocks[b] \in BlockType /\ b \in Nat
      BY <3>1, ElementOfSeq DEF Core, LentAt, GrantType
    <3>3. blocks[b].last <= End(b) /\ blocks[b].last \in Nat /\ End(b) \in Nat
      BY <1>1, <3>2, Ends DEF Core, Stacked, BlockType
    <3>4. Lent(g) \in Nat /\ Lent(g) <= blocks[b].last
      BY <3>1 DEF Lent, GrantType, LentAt
    <3>5. Lent(g) <= End(b)
      <4> HIDE DEF b
      <4> QED
        BY <3>3, <3>4
    <3> QED
      BY <3>1, <3>5 DEF LentAt
  <2> QED
    BY <2>1, PoolInvariant, PTL
<1> QED
  BY <1>1

\* In such a pool no two that hold memory share a byte.
THEOREM PoolApart == Limit % 16 = 0 => (Spec => []Apart)
<1>1. ASSUME Limit % 16 = 0 PROVE Spec => []Apart
  <2>1. PoolInv => Apart
    <3> SUFFICES ASSUME Core, NEW g \in 1 .. Len(grants), NEW h \in 1 .. Len(grants), g # h,
                        grants[g].block = grants[h].block
                 PROVE  Lent(g) <= grants[h].from \/ Lent(h) <= grants[g].from
      BY <1>1, Parts DEF Apart
    <3>1. g < h \/ h < g
      OBVIOUS
    <3> QED
      BY <3>1 DEF Core, Stacked
  <2> QED
    BY <2>1, PoolInvariant, PTL
<1> QED
  BY <1>1

\* In such a pool a block is given up only after six refusals (ms_mem.c:268).
THEOREM PoolGivesUp == Limit % 16 = 0 => (Spec => []GivenUp)
<1>1. ASSUME Limit % 16 = 0 PROVE Spec => []GivenUp
  <2>1. PoolInv => GivenUp
    BY <1>1 DEF PoolInv
  <2> QED
    BY <2>1, PoolInvariant, PTL
<1> QED
  BY <1>1
-----------------------------------------------------------------------------
\* What was lent stays lent, and something of the size asked for is added, if
\* anything.
LEMMA PcallocLends ==
    ASSUME Core, Limit % 16 = 0, Exists, NEW size \in Nat, PcallocSmall(size)
    PROVE  \/ grants' = grants
           \/ /\ Len(grants') = Len(grants) + 1
              /\ grants'[Len(grants) + 1].size = size
              /\ \A g \in 1 .. Len(grants) : grants'[g] = grants[g]
<1>1. Len(grants) \in Nat
  BY LenProperties DEF Core
<1>2. \A b, p : grants' = Append(grants, [block |-> b, from |-> p, size |-> size]) =>
                  /\ Len(grants') = Len(grants) + 1
                  /\ grants'[Len(grants) + 1].size = size
                  /\ \A g \in 1 .. Len(grants) : grants'[g] = grants[g]
  BY <1>1 DEF Core
<1>3. CASE FromChain(size)
  BY <1>2, <1>3 DEF FromChain
<1>4. CASE FromNewBlock(size)
  BY <1>2, <1>4 DEF FromNewBlock
<1>5. CASE Refused(size)
  BY <1>5 DEF Refused
<1> QED
  BY <1>3, <1>4, <1>5 DEF PcallocSmall

\* What LargeKept says of one entry of the list, and of two.
KeptAt(i) == \E g \in 1 .. Len(grants) :
                /\ grants[g].block = large[i].block
                /\ grants[g].from = large[i].from
                /\ grants[g].size = NodeSize
KeptApart(i, j) == i # j =>
                    /\ large[i].alloc # large[j].alloc
                    /\ <<large[i].block, large[i].from>> # <<large[j].block, large[j].from>>

LEMMA KeptParts ==
    LargeKept <=> /\ \A i \in 1 .. Len(large) : KeptAt(i)
                  /\ heap = Listed
                  /\ \A i, j \in 1 .. Len(large) : KeptApart(i, j)
  BY DEF LargeKept, KeptAt, KeptApart

\* An empty list, and nothing in use.
LEMMA KeptEmpty ==
    ASSUME LargeKept, large' = <<>>, heap' = heap \ Listed
    PROVE  LargeKept'
<1>1. heap' = {} /\ Len(large') = 0
  BY EmptySeq DEF LargeKept
<1>2. Listed' = {}
  BY <1>1 DEF Listed
<1> QED
  BY <1>1, <1>2 DEF LargeKept

\* A list that stays as it is while more is lent.
LEMMA KeptSame ==
    ASSUME LargeKept, UNCHANGED <<large, heap>>, Len(grants) \in Nat, Len(grants') \in Nat,
           Len(grants) <= Len(grants'),
           \A g \in 1 .. Len(grants) : grants'[g] = grants[g]
    PROVE  LargeKept'
<1>1. Listed' = Listed
  BY DEF Listed
<1>2. ASSUME NEW i \in 1 .. Len(large) PROVE KeptAt(i)'
  <2>1. PICK g \in 1 .. Len(grants) :
          /\ grants[g].block = large[i].block
          /\ grants[g].from = large[i].from
          /\ grants[g].size = NodeSize
    BY DEF LargeKept
  <2>2. g \in 1 .. Len(grants') /\ grants'[g] = grants[g]
    OBVIOUS
  <2> QED
    BY <2>1, <2>2 DEF KeptAt, NodeSize
<1>3. /\ \A i \in 1 .. Len(large') : KeptAt(i)'
      /\ heap' = Listed'
      /\ \A i, j \in 1 .. Len(large') : KeptApart(i, j)'
  BY <1>1, <1>2, KeptParts DEF KeptApart
<1> QED
  BY <1>3 DEF LargeKept, KeptAt, KeptApart

\* A large request gets memory and a node of its own.
LEMMA KeptLarge ==
    ASSUME Core, Listing, LargeKept, Limit % 16 = 0, NEW size \in Sizes, Large(size)
    PROVE  LargeKept'
<1>1. NodeSize \in Nat /\ Exists /\ PcallocSmall(NodeSize) /\ Len(grants) \in Nat
  BY LenProperties DEF NodeSize, Large, Core
<1>2. Core'
  BY <1>1, PcallocStep
<1>3. PICK chunk \in Chunks \ heap :
        IF Len(grants') > Len(grants) THEN
            LET node == grants'[Len(grants')] IN
            /\ large' = <<[block |-> node.block, from |-> node.from, alloc |-> chunk]>> \o large
            /\ heap' = heap \cup {chunk}
        ELSE UNCHANGED <<large, heap>>
  BY DEF Large
<1>4. CASE grants' = grants
  BY <1>1, <1>3, <1>4, KeptSame
<1>5. CASE /\ Len(grants') = Len(grants) + 1
           /\ grants'[Len(grants) + 1].size = NodeSize
           /\ \A g \in 1 .. Len(grants) : grants'[g] = grants[g]
  <2> DEFINE k == Len(grants) + 1
             node == grants'[k]
             entry == [block |-> node.block, from |-> node.from, alloc |-> chunk]
  <2>1. large' = <<entry>> \o large /\ heap' = heap \cup {chunk}
    BY <1>1, <1>3, <1>5
  <2>2. k \in 1 .. Len(grants') /\ node \in GrantType
    <3>1. k \in 1 .. Len(grants')
      BY <1>1, <1>5
    <3> QED
      BY <1>2, <3>1, ElementOfSeq DEF Core
  <2>3. entry \in NodeType
    BY <2>2 DEF GrantType, NodeType
  <2>4. /\ Len(large) \in Nat /\ Len(large') = Len(large) + 1
        /\ large'[1] = entry
        /\ \A i \in 1 .. Len(large) : large'[i + 1] = large[i]
    <3>1. <<entry>> \in Seq(NodeType) /\ Len(<<entry>>) = 1 /\ <<entry>>[1] = entry
      BY <2>3
    <3> HIDE DEF entry
    <3> QED
      BY <2>1, <3>1, ConcatProperties, LenProperties DEF Listing
  <2>5. entry.block = node.block /\ entry.from = node.from /\ entry.alloc = chunk
    OBVIOUS
  <2> HIDE DEF entry
  <2>6. \A i \in 1 .. Len(large') : i = 1 \/ \E j \in 1 .. Len(large) : i = j + 1 /\ large'[i] = large[j]
    <3> SUFFICES ASSUME NEW i \in 1 .. Len(large'), i # 1
                 PROVE  \E j \in 1 .. Len(large) : i = j + 1 /\ large'[i] = large[j]
      OBVIOUS
    <3>1. i - 1 \in 1 .. Len(large) /\ i = (i - 1) + 1
      BY <2>4
    <3> QED
      BY <2>4, <3>1
  <2>7. \A i \in 1 .. Len(large') : KeptAt(i)'
    <3> SUFFICES ASSUME NEW i \in 1 .. Len(large')
                 PROVE  \E g \in 1 .. Len(grants') : /\ grants'[g].block = large'[i].block
                                                     /\ grants'[g].from = large'[i].from
                                                     /\ grants'[g].size = NodeSize
      BY DEF KeptAt, NodeSize
    <3>1. CASE i = 1
      BY <1>5, <2>2, <2>4, <2>5, <3>1
    <3>2. CASE i # 1
      <4>1. PICK j \in 1 .. Len(large) : large'[i] = large[j]
        BY <2>6, <3>2
      <4>2. PICK g \in 1 .. Len(grants) : /\ grants[g].block = large[j].block
                                          /\ grants[g].from = large[j].from
                                          /\ grants[g].size = NodeSize
        BY DEF LargeKept
      <4>3. g \in 1 .. Len(grants') /\ grants'[g] = grants[g]
        BY <1>1, <1>5
      <4> QED
        BY <4>1, <4>2, <4>3
    <3> QED
      BY <3>1, <3>2
  <2>8. heap' = Listed'
    <3>1. Listed' = Listed \cup {chunk}
      <4>1. 1 \in 1 .. Len(large') /\ \A j \in 1 .. Len(large) : j + 1 \in 1 .. Len(large')
        BY <2>4
      <4>2. \A c : c \in Listed' <=> \E i \in 1 .. Len(large') : c = large'[i].alloc
        BY DEF Listed
      <4>3. \A c : c \in Listed <=> \E i \in 1 .. Len(large) : c = large[i].alloc
        BY DEF Listed
      <4>4. ASSUME NEW c PROVE c \in Listed' <=> c \in Listed \cup {chunk}
        <5>1. ASSUME c \in Listed' PROVE c \in Listed \cup {chunk}
          BY <2>4, <2>5, <2>6, <4>2, <4>3, <5>1
        <5>2. ASSUME c \in Listed PROVE c \in Listed'
          BY <2>4, <4>1, <4>2, <4>3, <5>2
        <5>3. chunk \in Listed'
          BY <2>4, <2>5, <4>1, <4>2
        <5> QED
          BY <5>1, <5>2, <5>3
      <4> QED
        BY <4>4
    <3> QED
      BY <2>1, <3>1 DEF LargeKept
  <2>9. ASSUME NEW j \in 1 .. Len(large)
        PROVE  /\ entry.alloc # large[j].alloc
               /\ ~(entry.block = large[j].block /\ entry.from = large[j].from)
    <3>1. chunk \notin Listed /\ large[j].alloc \in Listed
      BY <1>3 DEF LargeKept, Listed
    <3>2. PICK g \in 1 .. Len(grants) : /\ grants[g].block = large[j].block
                                        /\ grants[g].from = large[j].from
                                        /\ grants[g].size = NodeSize
      BY DEF LargeKept
    <3>3. grants'[g] = grants[g] /\ g \in 1 .. Len(grants') /\ g < k
      BY <1>1, <1>5
    <3>4. grants'[g] \in GrantType
      BY <1>2, <3>3, ElementOfSeq DEF Core
    <3>5. grants'[g].block = node.block => grants'[g].from + NodeSize <= node.from
      <4>1. \A e, f \in 1 .. Len(grants') :
              e < f /\ grants'[e].block = grants'[f].block
                => grants'[e].from + grants'[e].size <= grants'[f].from
        BY <1>2 DEF Core, Stacked, Lent
      <4> HIDE DEF k
      <4> QED
        BY <2>2, <3>2, <3>3, <4>1
    <3>6. node.from \in Nat /\ grants'[g].from \in Nat
      BY <2>2, <3>4 DEF GrantType
    <3> QED
      BY <2>5, <3>1, <3>2, <3>3, <3>5, <3>6 DEF NodeSize
  <2>10. \A i, j \in 1 .. Len(large') : KeptApart(i, j)'
    <3> SUFFICES ASSUME NEW i \in 1 .. Len(large'), NEW j \in 1 .. Len(large'), i # j
                 PROVE  /\ large'[i].alloc # large'[j].alloc
                        /\ ~(large'[i].block = large'[j].block /\ large'[i].from = large'[j].from)
      BY DEF KeptApart
    <3>1. CASE i = 1
      BY <2>4, <2>6, <2>9, <3>1
    <3>2. CASE j = 1
      BY <2>4, <2>6, <2>9, <3>2
    <3>3. CASE i # 1 /\ j # 1
      <4>1. PICK e \in 1 .. Len(large) : i = e + 1 /\ large'[i] = large[e]
        BY <2>6, <3>3
      <4>2. PICK f \in 1 .. Len(large) : j = f + 1 /\ large'[j] = large[f]
        BY <2>6, <3>3
      <4>3. e # f
        BY <4>1, <4>2
      <4> QED
        BY <4>1, <4>2, <4>3 DEF LargeKept
    <3> QED
      BY <3>1, <3>2, <3>3
  <2> QED
    BY <2>7, <2>8, <2>10 DEF LargeKept, KeptAt, KeptApart
<1> QED
  BY <1>1, <1>4, <1>5, PcallocLends

LEMMA KeptStep == Limit % 16 = 0 /\ PoolInv /\ LargeKept /\ [Next]_vars => LargeKept'
<1> SUFFICES ASSUME Limit % 16 = 0, Core, Listing, LargeKept, [Next]_vars PROVE LargeKept'
  BY Parts
<1>0. Len(grants) \in Nat
  BY LenProperties DEF Core
<1>1. CASE UNCHANGED vars
  BY <1>0, <1>1, KeptSame DEF vars
<1>2. CASE Create
  BY <1>0, <1>2, KeptSame DEF Create
<1>3. CASE Reset \/ Destory
  BY <1>3, KeptEmpty DEF Reset, Destory
<1>4. ASSUME NEW size \in Sizes, Small(size) PROVE LargeKept'
  <2>1. size \in Nat /\ Exists /\ PcallocSmall(size) /\ UNCHANGED <<large, heap>>
    BY <1>4, SizeAssumption DEF Small
  <2>2. \/ grants' = grants
        \/ /\ Len(grants') = Len(grants) + 1
           /\ \A g \in 1 .. Len(grants) : grants'[g] = grants[g]
    BY <2>1, PcallocLends
  <2> QED
    BY <1>0, <2>1, <2>2, KeptSame
<1>5. ASSUME NEW size \in Sizes, Large(size) PROVE LargeKept'
  BY <1>5, KeptLarge
<1> QED
  BY <1>1, <1>2, <1>3, <1>4, <1>5 DEF Next

\* In such a pool every large request has a node to itself, and a reset or the end
\* of the pool frees all that is in use of the heap, each part once.
THEOREM PoolKeepsLarge == Limit % 16 = 0 => (Spec => []LargeKept)
<1>1. ASSUME Limit % 16 = 0 PROVE Spec => []LargeKept
  <2>1. Init => LargeKept
    <3> SUFFICES ASSUME Init PROVE LargeKept
      OBVIOUS
    <3>1. Len(large) = 0 /\ Listed = {} /\ heap = {}
      BY EmptySeq DEF Init, Listed
    <3> QED
      BY <3>1 DEF LargeKept
  <2>2. PoolInv /\ LargeKept /\ [Next]_vars => LargeKept'
    BY <1>1, KeptStep
  <2> QED
    BY <2>1, <2>2, PoolInvariant, PTL DEF Spec
<1> QED
  BY <1>1
=============================================================================
