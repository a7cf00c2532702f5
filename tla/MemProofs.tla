----------------------------- MODULE MemProofs -----------------------------
(***************************************************************************)
(* The safety of the allocator in Mem.tla, for every heap, every set of    *)
(* sizes and every set of alignments. IInv is the inductive invariant: the *)
(* properties of Mem, together with what the list cursors prev and curr    *)
(* point at while a call walks the list.                                   *)
(***************************************************************************)
EXTENDS Mem, TLAPS

\* A free block is never smaller than the struct free_block it holds.
BlocksHoldStruct == \A a \in DOMAIN fb : fb[a].size >= FreeSize

\* A call in progress has arguments of its own kind, its cursors are at
\* neighbours in the list, and a search has passed only blocks too small for it.
CursorsInList ==
  /\ pc = "idle" => Idle
  /\ pc # "idle" => /\ prev = NULL \/ prev \in DOMAIN fb
                    /\ Follows(DOMAIN fb, prev, curr)
  /\ pc = "memalloc" =>
       /\ size \in Sizes /\ align \in Aligns
       /\ ValidRequest =>
            \A b \in DOMAIN fb : b <= prev => aligned_size(b, align) < size
  /\ pc = "memfree" => /\ ptr \in DOMAIN live \cup {NULL}
                       /\ prev # NULL => prev < ptr

IInv ==
  /\ TypeOK
  /\ BlocksHoldStruct
  /\ BlocksDisjoint
  /\ HeapCovered
  /\ FreeListSorted
  /\ Coalesced
  /\ LiveObjectsOwned
  /\ CursorsInList

-----------------------------------------------------------------------------
(* Alignment *)

\* Remainders.
LEMMA ModAtMost ==
  ASSUME NEW x \in Nat, NEW a \in Nat \ {0}
  PROVE  x % a \in 0 .. x
OBVIOUS

LEMMA DivMod ==
  ASSUME NEW x \in Nat, NEW a \in Nat \ {0}, x % a = 0
  PROVE  \E i \in Int : x = a * i
<1>1. x = a * (x \div a) + (x % a) /\ x \div a \in Int
  OBVIOUS
<1>2. x = a * (x \div a)
  BY <1>1
<1> QED BY <1>1, <1>2

LEMMA ModNegative ==
  ASSUME NEW w \in Nat \ {0}, NEW x \in -w .. -1
  PROVE  x % w = x + w
OBVIOUS

\* Without a wrap, align_ptr rounds up to a multiple of a.
LEMMA AlignPtr ==
  ASSUME NEW p \in Nat, NEW a \in Nat \ {0}, p + (a - 1) < Word
  PROVE  /\ align_ptr(p, a) \in p .. p + a - 1
         /\ align_ptr(p, a) % a = 0
<1>1. align_ptr(p, a) \in p .. p + a - 1
  BY HeapAssumption DEF align_ptr
<1>2. align_ptr(p, a) % a = 0
  BY HeapAssumption DEF align_ptr
<1> QED BY <1>1, <1>2

\* When the search stops at a block, the address it computed has not wrapped
\* around: header, object and padding all lie inside the block.
LEMMA FoundFits ==
  ASSUME IInv, pc = "memalloc", ValidRequest, Found
  PROVE  /\ curr \in DOMAIN fb
         /\ aligned_mem_start(curr, align) \in Nat
         /\ curr + HeaderSize <= aligned_mem_start(curr, align)
         /\ aligned_mem_start(curr, align) + size <= free_end(curr)
         /\ aligned_mem_start(curr, align) % align = 0
<1> DEFINE m == aligned_mem_start(curr, align)
<1>1. /\ curr \in DOMAIN fb /\ curr \in Nat \ {0} /\ free_end(curr) <= heap_end
      /\ fb[curr].size \in Nat /\ size \in Nat \ {0} /\ align \in Nat \ {0}
      /\ 2 * align <= Word
  BY HeapAssumption, RequestAssumption
  DEF IInv, CursorsInList, Follows, Found, ValidRequest, TypeOK, BlocksDisjoint, NULL
<1>2. m = align_ptr(curr + 8, align)
  BY DEF aligned_mem_start, HeaderSize
<1>3. CASE curr + 8 + (align - 1) < Word
  <2>1. m \in curr + 8 .. curr + 8 + align - 1 /\ m % align = 0
    BY <1>1, <1>2, <1>3, AlignPtr
  <2>2. (m - curr) % Word = m - curr
    BY <1>1, <1>3, <2>1, HeapAssumption
  <2> QED BY <1>1, <2>1, <2>2 DEF Found, aligned_size, free_end, HeaderSize
<1>4. CASE curr + 8 + (align - 1) >= Word
  <2>1. m \in 0 .. curr + 8 + (align - 1) - Word
    <3> DEFINE x == curr + 8 + (align - 1)
    <3>1. x \in Word .. Word + Word - 1
      BY <1>1, <1>4, HeapAssumption DEF free_end
    <3>2. m = (x % Word) - ((x % Word) % align)
      BY <1>2 DEF align_ptr
    <3> HIDE DEF x
    <3>3. Word \in Nat \ {0} /\ x \in Nat /\ x - Word \in Nat
      BY <3>1, HeapAssumption
    <3>4. x % Word = x - Word
      BY <3>1, <3>3
    <3>5. (x - Word) % align \in 0 .. x - Word
      BY <1>1, <3>3, ModAtMost
    <3>6. m \in 0 .. x - Word
      <4>1. m = (x - Word) - ((x - Word) % align)
        BY <3>2, <3>4
      <4> HIDE DEF m
      <4> QED BY <1>1, <3>3, <3>5, <4>1
    <3> QED BY <1>1, <3>6, HeapAssumption DEF x
  <2>2. (m - curr) % Word = m - curr + Word
    <3>1. m - curr \in -Word .. -1
      BY <1>1, <1>4, <2>1, HeapAssumption DEF free_end
    <3> QED BY <3>1, ModNegative, HeapAssumption
  <2>3. aligned_size(curr, align) = 0
    BY <1>1, <2>1, <2>2, HeapAssumption DEF aligned_size, free_end
  <2> QED BY <1>1, <2>3 DEF Found
<1> QED BY <1>1, <1>3, <1>4, HeapAssumption

-----------------------------------------------------------------------------
(* Writes to the list *)

LEMMA PutFacts ==
  ASSUME NEW f, NEW a, NEW v
  PROVE  /\ DOMAIN Put(f, a, v) = DOMAIN f \cup {a}
         /\ Put(f, a, v)[a] = v
         /\ \A x \in DOMAIN f \ {a} : Put(f, a, v)[x] = f[x]
BY DEF Put

LEMMA DropFacts ==
  ASSUME NEW f, NEW a
  PROVE  /\ DOMAIN Drop(f, a) = DOMAIN f \ {a}
         /\ \A x \in DOMAIN f \ {a} : Drop(f, a)[x] = f[x]
BY DEF Drop

LEMMA PointFacts ==
  ASSUME NEW f, NEW p, NEW t, p = NULL \/ p \in DOMAIN f,
         NEW s, NEW n, p # NULL => f[p] = [size |-> s, next |-> n]
  PROVE  /\ DOMAIN Point(f, p, t) = DOMAIN f
         /\ p # NULL => Point(f, p, t)[p] = [size |-> s, next |-> t]
         /\ \A x \in DOMAIN f : x = NULL \/ x # p => Point(f, p, t)[x] = f[x]
<1>1. CASE p = NULL
  BY <1>1 DEF Point
<1>2. CASE p # NULL
  BY <1>2 DEF Point
<1> QED BY <1>1, <1>2

\* The result of a write is a function.
IsFcn(f) == f = [x \in DOMAIN f |-> f[x]]

LEMMA PutIsFcn == ASSUME NEW f, NEW a, NEW v PROVE IsFcn(Put(f, a, v))
BY DEF IsFcn, Put

LEMMA DropIsFcn == ASSUME NEW f, NEW a PROVE IsFcn(Drop(f, a))
BY DEF IsFcn, Drop

LEMMA PointIsFcn ==
  ASSUME NEW f, IsFcn(f), NEW p, NEW t PROVE IsFcn(Point(f, p, t))
<1>1. CASE p = NULL
  BY <1>1 DEF Point
<1>2. CASE p # NULL
  BY <1>2 DEF IsFcn, Point
<1> QED BY <1>1, <1>2

\* The successor of a free block is unique.
LEMMA FollowsUnique ==
  ASSUME TypeOK, NEW p, NEW t \in Nat, NEW u \in Nat,
         Follows(DOMAIN fb, p, t), Follows(DOMAIN fb, p, u), p \in Nat
  PROVE  t = u
BY DEF TypeOK, Follows, NULL

-----------------------------------------------------------------------------
(* Blocks *)

LEMMA FreeBlockFacts ==
  ASSUME IInv, NEW a \in DOMAIN fb
  PROVE  /\ a \in Nat \ {0} /\ fb[a].size \in Nat /\ fb[a].size >= 8
         /\ free_end(a) = a + fb[a].size /\ free_end(a) \in Nat /\ a < free_end(a)
         /\ heap_start <= a /\ free_end(a) <= heap_end
         /\ fb[a].next \in Nat
<1>1. a \in Nat /\ heap_start <= a /\ free_end(a) <= heap_end
  BY HeapAssumption DEF IInv, TypeOK, BlocksDisjoint
<1>2. fb[a].size \in Nat /\ fb[a].size >= 8 /\ fb[a].next \in Nat
  BY DEF IInv, TypeOK, BlocksHoldStruct, FreeSize
<1> QED BY <1>1, <1>2, HeapAssumption DEF free_end

LEMMA UsedBlockFacts ==
  ASSUME IInv, NEW g \in DOMAIN hd
  PROVE  /\ g \in Nat \ {0} /\ g + 8 \in DOMAIN live
         /\ hd[g] \in [size : Nat, start_off : Nat]
         /\ used_start(g) \in Nat /\ used_end(g) \in Nat
         /\ used_start(g) <= g /\ g + 8 < used_end(g)
         /\ heap_start <= used_start(g) /\ used_end(g) <= heap_end
<1>1. PICK p \in DOMAIN live : g = p - 8
  BY DEF IInv, LiveObjectsOwned, HeaderSize
<1>2. p \in Nat /\ g \in Nat \ {0} /\ live[p] \in Nat /\ hd[g] \in [size : Nat, start_off : Nat]
  BY HeapAssumption DEF IInv, TypeOK
<1>3. live[p] > 0 /\ p + live[p] <= used_end(g)
  BY <1>1 DEF IInv, LiveObjectsOwned, HeaderSize
<1>4. heap_start <= used_start(g) /\ used_end(g) <= heap_end
  BY DEF IInv, BlocksDisjoint
<1>5. used_start(g) = g - hd[g].start_off /\ used_end(g) = g + hd[g].size
  BY DEF used_start, used_end
<1> QED BY <1>1, <1>2, <1>3, <1>4, <1>5, HeapAssumption

-----------------------------------------------------------------------------
(* Taking a block *)

\* What the predecessor of the block taken is linked to.
taken_link == IF splits_before THEN curr ELSE replacement

\* Where the search stopped.
LEMMA TakenBlock ==
  ASSUME IInv, pc = "memalloc", ValidRequest, Found
  PROVE  /\ size \in Nat \ {0} /\ curr \in Nat \ {0} /\ DOMAIN fb \subseteq Nat \ {0}
         /\ prev # NULL => /\ prev \in DOMAIN fb /\ prev \in Nat /\ prev < curr
                           /\ fb[prev].next = curr /\ free_end(prev) < curr
         /\ prev = NULL => free_block_head = curr
         /\ new_free_blk \in Nat /\ new_free_blk > aligned_mem_start(curr, align)
         /\ new_free_blk <= free_end(curr)
         /\ free_after = free_end(curr) - new_free_blk
         /\ new_free_blk \notin DOMAIN fb
         /\ free_before \in Nat
         /\ aligned_mem_start(curr, align) = curr + free_before + HeaderSize
<1> DEFINE m == aligned_mem_start(curr, align)
<1>1. /\ curr \in DOMAIN fb /\ m \in Nat /\ curr + HeaderSize <= m
      /\ m + size <= free_end(curr)
  BY FoundFits
<1>2. size \in Nat \ {0} /\ DOMAIN fb \subseteq Nat \ {0} /\ curr \in Nat \ {0}
  BY <1>1, HeapAssumption, RequestAssumption
  DEF IInv, CursorsInList, ValidRequest, TypeOK
<1>3. prev # NULL => prev \in DOMAIN fb /\ prev \in Nat /\ prev < curr
  BY <1>1, <1>2 DEF IInv, CursorsInList, Follows, NULL
<1>4. prev # NULL => fb[prev].next = curr
  <2> SUFFICES ASSUME prev # NULL PROVE fb[prev].next = curr
    OBVIOUS
  <2>1. Follows(DOMAIN fb, prev, curr) /\ Follows(DOMAIN fb, prev, fb[prev].next)
    BY <1>3 DEF IInv, FreeListSorted, CursorsInList
  <2>2. fb[prev].next \in Nat
    BY <1>3 DEF IInv, TypeOK
  <2> QED BY <1>2, <1>3, <2>1, <2>2 DEF Follows, NULL
<1>5. prev # NULL => free_end(prev) < curr
  <2> SUFFICES ASSUME prev # NULL PROVE free_end(prev) < curr
    OBVIOUS
  <2>1. free_end(prev) <= curr /\ free_end(prev) # curr
    BY <1>1, <1>3 DEF IInv, BlocksDisjoint, Coalesced
  <2>2. free_end(prev) \in Nat
    BY <1>3 DEF IInv, TypeOK, free_end
  <2> QED BY <1>2, <2>1, <2>2
<1>6. prev = NULL => free_block_head = curr
  BY <1>2, FollowsUnique DEF IInv, TypeOK, FreeListSorted, CursorsInList, NULL
<1>7. /\ new_free_blk = m + size
      /\ fb[curr].size \in Nat
      /\ free_before = m - curr - 8
  BY <1>1 DEF new_free_blk, free_before, HeaderSize, IInv, TypeOK
<1>8. free_after = free_end(curr) - new_free_blk
  BY <1>1, <1>2, <1>7 DEF free_after, free_end
<1>9. new_free_blk \notin DOMAIN fb
  <2> SUFFICES ASSUME new_free_blk \in DOMAIN fb PROVE FALSE
    OBVIOUS
  <2>1. curr < new_free_blk
    BY <1>1, <1>2, <1>7 DEF HeaderSize
  <2>2. free_end(curr) <= new_free_blk /\ free_end(curr) # new_free_blk
    BY <1>1, <2>1 DEF IInv, BlocksDisjoint, Coalesced
  <2> QED BY <1>1, <1>2, <1>7, <2>2 DEF free_end
<1> QED BY <1>1, <1>2, <1>3, <1>4, <1>5, <1>6, <1>7, <1>8, <1>9 DEF HeaderSize

\* The list without the block found, and with its front put back.
LEMMA SplitEffect ==
  ASSUME IInv, pc = "memalloc", ValidRequest, Found
  PROVE  /\ DOMAIN WithoutCurr = (DOMAIN fb \ {curr})
                                  \cup (IF splits_after THEN {new_free_blk} ELSE {})
         /\ \A x \in DOMAIN fb \ {curr} :
              WithoutCurr[x] = [size |-> fb[x].size,
                                next |-> IF x = prev THEN replacement ELSE fb[x].next]
         /\ splits_after =>
              WithoutCurr[new_free_blk] = [size |-> free_after, next |-> fb[curr].next]
         /\ DOMAIN WithFront = DOMAIN WithoutCurr \cup {curr}
         /\ \A x \in DOMAIN fb \ {curr} :
              WithFront[x] = [size |-> fb[x].size,
                              next |-> IF x = prev THEN curr ELSE fb[x].next]
         /\ WithFront[curr] = [size |-> free_before, next |-> replacement]
         /\ splits_after =>
              WithFront[new_free_blk] = [size |-> free_after, next |-> fb[curr].next]
         /\ IsFcn(WithFront) /\ IsFcn(WithoutCurr)
<1>1. /\ curr \in Nat \ {0} /\ DOMAIN fb \subseteq Nat \ {0}
      /\ prev # NULL => prev \in DOMAIN fb /\ prev # curr
      /\ new_free_blk \notin DOMAIN fb /\ new_free_blk # NULL
      /\ curr \in DOMAIN fb
  BY TakenBlock, FoundFits DEF NULL
<1>2. ASSUME NEW x \in DOMAIN fb
      PROVE  fb[x] = [size |-> fb[x].size, next |-> fb[x].next]
  BY DEF IInv, TypeOK
<1> DEFINE end == [size |-> free_after, next |-> fb[curr].next]
           cut == IF splits_after
                  THEN Put(Drop(fb, curr), new_free_blk, end) ELSE Drop(fb, curr)
           put == Put(WithoutCurr, curr, [size |-> free_before, next |-> replacement])
<1> HIDE DEF end
<1>3. /\ DOMAIN cut = (DOMAIN fb \ {curr})
                       \cup (IF splits_after THEN {new_free_blk} ELSE {})
      /\ \A x \in DOMAIN fb \ {curr} : cut[x] = fb[x]
      /\ splits_after => cut[new_free_blk] = end
  <2>1. CASE splits_after
    BY <1>1, <2>1 DEF Put, Drop
  <2>2. CASE ~splits_after
    BY <1>1, <2>2 DEF Drop
  <2> QED BY <2>1, <2>2
<1> HIDE DEF cut
<1>4. WithoutCurr = Point(cut, prev, replacement)
  BY DEF WithoutCurr, cut, end
<1>5. prev # NULL => cut[prev] = [size |-> fb[prev].size, next |-> fb[prev].next]
  BY <1>1, <1>2, <1>3
<1>6. /\ DOMAIN WithoutCurr = DOMAIN cut
      /\ prev # NULL => WithoutCurr[prev] = [size |-> fb[prev].size, next |-> replacement]
      /\ \A x \in DOMAIN cut : x = NULL \/ x # prev => WithoutCurr[x] = cut[x]
  BY <1>1, <1>3, <1>4, <1>5, PointFacts
<1>7. \A x \in DOMAIN fb \ {curr} :
        WithoutCurr[x] = [size |-> fb[x].size,
                          next |-> IF x = prev THEN replacement ELSE fb[x].next]
  BY <1>1, <1>2, <1>3, <1>6 DEF NULL
<1>8. splits_after => WithoutCurr[new_free_blk] = end
  BY <1>1, <1>3, <1>6
<1>9. /\ DOMAIN put = DOMAIN WithoutCurr \cup {curr}
      /\ put[curr] = [size |-> free_before, next |-> replacement]
      /\ \A x \in DOMAIN WithoutCurr \ {curr} : put[x] = WithoutCurr[x]
  BY DEF Put
<1> HIDE DEF put
<1>10. WithFront = Point(put, prev, curr)
  BY DEF WithFront, put
<1>11. prev # NULL => /\ prev \in DOMAIN put
                      /\ put[prev] = [size |-> fb[prev].size, next |-> replacement]
  BY <1>1, <1>3, <1>6, <1>9
<1>12. /\ DOMAIN WithFront = DOMAIN put
       /\ prev # NULL => WithFront[prev] = [size |-> fb[prev].size, next |-> curr]
       /\ \A x \in DOMAIN put : x = NULL \/ x # prev => WithFront[x] = put[x]
  BY <1>10, <1>11, PointFacts
<1>13. \A x \in DOMAIN fb \ {curr} :
         WithFront[x] = [size |-> fb[x].size,
                         next |-> IF x = prev THEN curr ELSE fb[x].next]
  BY <1>1, <1>3, <1>6, <1>7, <1>9, <1>12 DEF NULL
<1>14. WithFront[curr] = [size |-> free_before, next |-> replacement]
  BY <1>1, <1>9, <1>12
<1>15. splits_after => WithFront[new_free_blk] = end
  BY <1>1, <1>3, <1>6, <1>8, <1>9, <1>12
<1>16. IsFcn(WithoutCurr)
  <2>1. IsFcn(cut)
    BY DEF cut, Put, Drop, IsFcn
  <2> QED BY <1>4, <2>1, PointIsFcn
<1>17. IsFcn(WithFront)
  <2>1. IsFcn(put)
    BY DEF put, Put, IsFcn
  <2> QED BY <1>10, <2>1, PointIsFcn
<1> QED BY <1>3, <1>6, <1>7, <1>8, <1>9, <1>12, <1>13, <1>14, <1>15, <1>16, <1>17 DEF end

\* The front split off a block merges with neither of its neighbours.
LEMMA FrontNotMerged ==
  ASSUME IInv, pc = "memalloc", ValidRequest, Found, splits_before
  PROVE  coalesce_front(WithFront, prev, curr) = WithFront
<1>1. /\ curr \in Nat \ {0} /\ DOMAIN fb \subseteq Nat \ {0}
      /\ prev # NULL => /\ prev \in DOMAIN fb \ {curr}
                        /\ prev + fb[prev].size < curr
      /\ new_free_blk \in Nat /\ new_free_blk > curr + free_before
      /\ new_free_blk <= free_end(curr)
      /\ free_before \in Nat
  BY TakenBlock DEF free_end, HeaderSize
<1>2. WithFront[curr] = [size |-> free_before, next |-> replacement]
  BY SplitEffect
<1>3. prev # NULL => WithFront[prev].size = fb[prev].size
  <2>1. prev # NULL => WithFront[prev] = [size |-> fb[prev].size, next |-> curr]
    BY <1>1, SplitEffect
  <2> QED BY <2>1
<1>4. replacement # NULL => /\ replacement \in DOMAIN WithFront
                            /\ curr + free_before < replacement
  <2>1. CASE splits_after
    BY <1>1, <2>1, SplitEffect DEF replacement
  <2>2. CASE ~splits_after
    <3>1. curr \in DOMAIN fb /\ free_end(curr) \in Nat
      BY FoundFits DEF IInv, TypeOK, free_end
    <3>2. fb[curr].next # NULL => /\ fb[curr].next \in DOMAIN fb \ {curr}
                                  /\ free_end(curr) <= fb[curr].next
      BY <1>1, <3>1 DEF IInv, FreeListSorted, Follows, BlocksDisjoint
    <3> QED BY <1>1, <2>2, <3>1, <3>2, SplitEffect DEF replacement
  <2> QED BY <2>1, <2>2
<1>5. prev # NULL => ~can_merge(WithFront, prev, curr)
  BY <1>1, <1>3 DEF can_merge
<1>6. replacement # NULL => ~can_merge(WithFront, curr, replacement)
  BY <1>1, <1>2, <1>4 DEF can_merge
<1>7. coalesce_blocks(WithFront, prev, curr, replacement) = WithFront
  BY <1>5, <1>6 DEF coalesce_blocks
<1> QED BY <1>2, <1>4, <1>7 DEF coalesce_front

\* memalloc_aligned, block by block: curr gives way to a free block at its
\* front, at its end, at both or at neither.
LEMMA TakeEffect ==
  ASSUME IInv, MemallocTake
  PROVE  /\ DOMAIN fb' = (DOMAIN fb \ {curr})
                           \cup (IF splits_before THEN {curr} ELSE {})
                           \cup (IF splits_after THEN {new_free_blk} ELSE {})
         /\ \A x \in DOMAIN fb \ {curr} :
              fb'[x] = [size |-> fb[x].size,
                        next |-> IF x = prev THEN taken_link ELSE fb[x].next]
         /\ splits_before =>
              fb'[curr] = [size |-> free_before, next |-> replacement]
         /\ splits_after =>
              fb'[new_free_blk] = [size |-> free_after, next |-> fb[curr].next]
         /\ free_block_head' = IF prev = NULL THEN taken_link ELSE free_block_head
         /\ IsFcn(fb')
<1>1. pc = "memalloc" /\ ValidRequest /\ Found
  BY DEF MemallocTake
<1>2. free_block_head' = IF prev = NULL THEN taken_link ELSE free_block_head
  BY DEF MemallocTake, HeadAfter, taken_link
<1>3. CASE splits_before
  <2>1. fb' = WithFront
    BY <1>1, <1>3, FrontNotMerged DEF MemallocTake
  <2> QED BY <1>1, <1>2, <1>3, <2>1, SplitEffect, FoundFits DEF taken_link
<1>4. CASE ~splits_before
  <2>1. fb' = WithoutCurr
    BY <1>4 DEF MemallocTake
  <2> QED BY <1>1, <1>2, <1>4, <2>1, SplitEffect DEF taken_link
<1> QED BY <1>3, <1>4

LEMMA TakeFields ==
  ASSUME IInv, MemallocTake, NEW x \in DOMAIN fb \ {curr}
  PROVE  /\ fb'[x].size = fb[x].size
         /\ fb'[x].next = IF x = prev THEN taken_link ELSE fb[x].next
<1>1. fb'[x] = [size |-> fb[x].size,
                next |-> IF x = prev THEN taken_link ELSE fb[x].next]
  BY TakeEffect
<1> QED BY <1>1

-----------------------------------------------------------------------------
(* Freeing a block *)

\* Whether the freed block touches its neighbours in the list, and the extent
\* of the block it ends up in.
merges_prev == prev # NULL /\ free_end(prev) = freed_start
merges_next == curr # NULL /\ used_end(ptr - HeaderSize) = curr
merged_start == IF merges_prev THEN prev ELSE freed_start
merged_end == IF merges_next THEN free_end(curr) ELSE used_end(ptr - HeaderSize)
merged_next == IF merges_next THEN fb[curr].next ELSE curr

\* Where the search stopped: the block freed lies between prev and curr.
LEMMA FreedBlock ==
  ASSUME IInv, pc = "memfree", ptr # NULL, curr # NULL => curr >= ptr
  PROVE  /\ ptr \in DOMAIN live /\ ptr - HeaderSize \in DOMAIN hd
         /\ freed_start = used_start(ptr - HeaderSize)
         /\ freed_start + freed_size = used_end(ptr - HeaderSize)
         /\ freed_start \in Nat \ {0} /\ freed_size \in Nat /\ freed_size >= FreeSize
         /\ heap_start <= freed_start /\ used_end(ptr - HeaderSize) <= heap_end
         /\ DOMAIN fb \subseteq Nat \ {0}
         /\ freed_start \notin DOMAIN fb
         /\ prev # NULL => /\ prev \in DOMAIN fb /\ fb[prev].next = curr
                           /\ free_end(prev) <= freed_start /\ prev < freed_start
         /\ prev = NULL => free_block_head = curr
         /\ curr # NULL => curr \in DOMAIN fb /\ used_end(ptr - HeaderSize) <= curr
<1> DEFINE h == ptr - HeaderSize
<1>1. /\ ptr \in DOMAIN live /\ ptr \in Nat /\ h \in DOMAIN hd /\ h \in Nat
      /\ hd[h] \in [size : Nat, start_off : Nat] /\ live[ptr] \in Nat
      /\ live[ptr] > 0 /\ ptr + live[ptr] <= used_end(h)
      /\ h = ptr - 8
  <2>1. ptr \in DOMAIN live
    BY DEF IInv, CursorsInList
  <2>2. h \in DOMAIN hd
    BY <2>1 DEF IInv, LiveObjectsOwned
  <2>3. ptr \in Nat /\ h \in Nat /\ live[ptr] \in Nat
    BY <2>1, <2>2, HeapAssumption DEF IInv, TypeOK
  <2>4. hd[h] \in [size : Nat, start_off : Nat]
    BY <2>2 DEF IInv, TypeOK
  <2>5. live[ptr] > 0 /\ ptr + live[ptr] <= used_end(h)
    BY <2>1 DEF IInv, LiveObjectsOwned
  <2> QED BY <2>1, <2>2, <2>3, <2>4, <2>5 DEF HeaderSize
<1>2. /\ freed_start = h - hd[h].start_off /\ freed_start = used_start(h)
      /\ freed_size = hd[h].size + hd[h].start_off
      /\ used_end(h) = h + hd[h].size
  BY <1>1 DEF freed_start, freed_size, freed_header, used_start, used_end
<1>3. heap_start <= freed_start /\ used_end(h) <= heap_end
  BY <1>1, <1>2 DEF IInv, BlocksDisjoint
<1>4. /\ freed_start \in Nat \ {0} /\ freed_size \in Nat /\ freed_size >= 8
      /\ freed_start + freed_size = used_end(h) /\ freed_start <= h
      /\ used_end(h) \in Nat /\ ptr < used_end(h)
  BY <1>1, <1>2, <1>3, HeapAssumption
<1>5. DOMAIN fb \subseteq Nat \ {0} /\ curr \in Nat /\ prev \in Nat
  BY HeapAssumption DEF IInv, TypeOK
<1>6. ASSUME NEW a \in DOMAIN fb
      PROVE  /\ free_end(a) <= freed_start \/ used_end(h) <= a
             /\ free_end(a) \in Nat /\ a < free_end(a) /\ a \in Nat
  <2>1. free_end(a) <= freed_start \/ used_end(h) <= a
    BY <1>1, <1>2 DEF IInv, BlocksDisjoint
  <2>2. fb[a].size \in Nat /\ fb[a].size >= 8
    BY DEF IInv, TypeOK, BlocksHoldStruct, FreeSize
  <2> QED BY <1>5, <2>1, <2>2 DEF free_end
<1>7. freed_start \notin DOMAIN fb
  BY <1>4, <1>6
<1>8. /\ prev = NULL \/ prev \in DOMAIN fb
      /\ Follows(DOMAIN fb, prev, curr)
      /\ prev # NULL => prev < ptr
  BY DEF IInv, CursorsInList
<1>9. prev # NULL => free_end(prev) <= freed_start /\ prev < freed_start
  BY <1>1, <1>4, <1>6, <1>8
<1>10. curr # NULL => curr \in DOMAIN fb /\ used_end(h) <= curr
  <2> SUFFICES ASSUME curr # NULL PROVE curr \in DOMAIN fb /\ used_end(h) <= curr
    OBVIOUS
  <2>1. curr \in DOMAIN fb
    BY <1>8 DEF Follows
  <2> QED BY <1>1, <1>4, <1>5, <1>6, <2>1
<1>11. prev # NULL => fb[prev].next = curr
  <2> SUFFICES ASSUME prev # NULL PROVE fb[prev].next = curr
    OBVIOUS
  <2>1. Follows(DOMAIN fb, prev, fb[prev].next) /\ fb[prev].next \in Nat
    BY <1>8 DEF IInv, FreeListSorted, TypeOK
  <2> QED BY <1>5, <1>8, <2>1 DEF Follows, NULL
<1>12. prev = NULL => free_block_head = curr
  <2>1. Follows(DOMAIN fb, 0, free_block_head) /\ free_block_head \in Nat
    BY DEF IInv, FreeListSorted, TypeOK
  <2> QED BY <1>5, <1>8, <2>1 DEF Follows, NULL
<1> QED
  BY <1>1, <1>2, <1>3, <1>4, <1>5, <1>7, <1>8, <1>9, <1>10, <1>11, <1>12 DEF FreeSize

\* memfree, block by block: the freed block joins the list between prev and
\* curr, or becomes part of the neighbours it touches.
LEMMA FreeEffect ==
  ASSUME IInv, MemfreeInsert
  PROVE  /\ DOMAIN fb' = (DOMAIN fb \ (IF merges_next THEN {curr} ELSE {}))
                           \cup {merged_start}
         /\ \A x \in DOMAIN fb \ {prev, curr} : fb'[x] = fb[x]
         /\ curr # NULL /\ ~merges_next => fb'[curr] = fb[curr]
         /\ prev # NULL /\ ~merges_prev =>
              fb'[prev] = [size |-> fb[prev].size, next |-> freed_start]
         /\ fb'[merged_start] =
              [size |-> merged_end - merged_start, next |-> merged_next]
         /\ free_block_head' = IF prev = NULL THEN freed_start ELSE free_block_head
         /\ IsFcn(fb')
<1> DEFINE h == ptr - HeaderSize
           q == freed_start
           blk == [size |-> freed_size, next |-> curr]
           added == Put(fb, q, blk)
<1>1. /\ q + freed_size = used_end(h)
      /\ q \in Nat \ {0} /\ freed_size \in Nat /\ DOMAIN fb \subseteq Nat \ {0}
      /\ q \notin DOMAIN fb
      /\ prev # NULL => /\ prev \in DOMAIN fb /\ fb[prev].next = curr
                        /\ free_end(prev) <= q /\ prev < q
      /\ curr # NULL => curr \in DOMAIN fb /\ used_end(h) <= curr
      /\ freed_size >= 8
  BY FreedBlock DEF MemfreeInsert, FreeSize
<1>2. ASSUME NEW x \in DOMAIN fb
      PROVE  fb[x] = [size |-> fb[x].size, next |-> fb[x].next] /\ fb[x].size \in Nat
  BY DEF IInv, TypeOK
<1>3. prev # curr \/ prev = NULL
  BY <1>1
<1> HIDE DEF blk
<1>4. /\ DOMAIN added = DOMAIN fb \cup {q}
      /\ added[q] = blk
      /\ \A x \in DOMAIN fb : added[x] = fb[x]
  BY <1>1 DEF Put
<1> HIDE DEF added
<1>5. WithFreed = Point(added, prev, q)
  BY DEF WithFreed, added, blk
<1>6. prev # NULL => /\ prev \in DOMAIN added
                     /\ added[prev] = [size |-> fb[prev].size, next |-> fb[prev].next]
  BY <1>1, <1>2, <1>4
<1>7. /\ DOMAIN WithFreed = DOMAIN fb \cup {q}
      /\ prev # NULL => WithFreed[prev] = [size |-> fb[prev].size, next |-> q]
      /\ \A x \in DOMAIN added : x = NULL \/ x # prev => WithFreed[x] = added[x]
  BY <1>1, <1>4, <1>5, <1>6, PointFacts
<1>8. /\ WithFreed[q] = [size |-> freed_size, next |-> curr]
      /\ \A x \in DOMAIN fb \ {prev} : WithFreed[x] = fb[x]
  BY <1>1, <1>4, <1>7 DEF blk
<1>9. curr # NULL => WithFreed[curr] = fb[curr]
  BY <1>1, <1>3, <1>8 DEF NULL
<1>10. /\ prev # NULL => (can_merge(WithFreed, prev, q) <=> merges_prev)
       /\ curr # NULL => (can_merge(WithFreed, q, curr) <=> merges_next)
  <2>1. prev # NULL => WithFreed[prev].size = fb[prev].size
    BY <1>7
  <2>2. WithFreed[q].size = freed_size
    BY <1>8
  <2> QED BY <1>1, <2>1, <2>2 DEF can_merge, merges_prev, merges_next, free_end
<1>11. fb' = coalesce_blocks(WithFreed, prev, q, curr)
  BY DEF MemfreeInsert
<1>12. free_block_head' = IF prev = NULL THEN freed_start ELSE free_block_head
  BY DEF MemfreeInsert, HeadAfter
<1>13. merges_prev => prev # NULL
  BY DEF merges_prev
<1>14. merges_next => curr # NULL
  BY DEF merges_next
<1>19. IsFcn(WithFreed)
  <2>1. IsFcn(added)
    BY DEF added, Put, IsFcn
  <2> QED BY <1>5, <2>1, PointIsFcn
<1>15. CASE merges_prev /\ merges_next
  <2> DEFINE rec == [size |-> WithFreed[prev].size + WithFreed[q].size + WithFreed[curr].size,
                     next |-> WithFreed[curr].next]
  <2>1. fb' = Put(Drop(Drop(WithFreed, q), curr), prev, rec)
    BY <1>10, <1>11, <1>13, <1>14, <1>15 DEF coalesce_blocks
  <2>2. rec = [size |-> merged_end - merged_start, next |-> merged_next]
    BY <1>1, <1>2, <1>7, <1>8, <1>9, <1>13, <1>14, <1>15
    DEF merged_end, merged_start, merged_next, merges_prev, merges_next, free_end
  <2> HIDE DEF rec
  <2>3. /\ DOMAIN fb' = ((DOMAIN WithFreed \ {q}) \ {curr}) \cup {prev}
        /\ fb'[prev] = rec
        /\ \A x \in DOMAIN WithFreed \ {q, curr, prev} : fb'[x] = WithFreed[x]
    BY <2>1 DEF Put, Drop
  <2>5. IsFcn(fb')
    BY <2>1, PutIsFcn
  <2> QED BY <1>1, <1>7, <1>8, <1>12, <1>13, <1>14, <1>15, <2>2, <2>3, <2>5 DEF merged_start
<1>16. CASE merges_prev /\ ~merges_next
  <2> DEFINE rec == [size |-> WithFreed[prev].size + WithFreed[q].size, next |-> curr]
  <2>1. fb' = Put(Drop(WithFreed, q), prev, rec)
    BY <1>10, <1>11, <1>13, <1>16 DEF coalesce_blocks
  <2>2. rec = [size |-> merged_end - merged_start, next |-> merged_next]
    BY <1>1, <1>2, <1>7, <1>8, <1>13, <1>16
    DEF merged_end, merged_start, merged_next, merges_prev, free_end
  <2> HIDE DEF rec
  <2>3. /\ DOMAIN fb' = (DOMAIN WithFreed \ {q}) \cup {prev}
        /\ fb'[prev] = rec
        /\ \A x \in DOMAIN WithFreed \ {q, prev} : fb'[x] = WithFreed[x]
    BY <2>1 DEF Put, Drop
  <2>5. IsFcn(fb')
    BY <2>1, PutIsFcn
  <2>4. curr # NULL => fb'[curr] = fb[curr]
    BY <1>1, <1>3, <1>7, <1>9, <2>3
  <2> QED BY <1>1, <1>7, <1>8, <1>12, <1>13, <1>16, <2>2, <2>3, <2>4, <2>5 DEF merged_start
<1>17. CASE ~merges_prev /\ merges_next
  <2> DEFINE rec == [size |-> WithFreed[q].size + WithFreed[curr].size,
                     next |-> WithFreed[curr].next]
  <2>1. fb' = Put(Drop(WithFreed, curr), q, rec)
    BY <1>10, <1>11, <1>14, <1>17 DEF coalesce_blocks
  <2>2. rec = [size |-> merged_end - merged_start, next |-> merged_next]
    BY <1>1, <1>2, <1>8, <1>9, <1>14, <1>17
    DEF merged_end, merged_start, merged_next, merges_next, free_end
  <2> HIDE DEF rec
  <2>3. /\ DOMAIN fb' = (DOMAIN WithFreed \ {curr}) \cup {q}
        /\ fb'[q] = rec
        /\ \A x \in DOMAIN WithFreed \ {q, curr} : fb'[x] = WithFreed[x]
    BY <2>1 DEF Put, Drop
  <2>5. IsFcn(fb')
    BY <2>1, PutIsFcn
  <2>4. prev # NULL => fb'[prev] = [size |-> fb[prev].size, next |-> freed_start]
    BY <1>1, <1>3, <1>7, <2>3
  <2> QED BY <1>1, <1>7, <1>8, <1>12, <1>14, <1>17, <2>2, <2>3, <2>4, <2>5 DEF merged_start
<1>18. CASE ~merges_prev /\ ~merges_next
  <2>1. fb' = WithFreed
    BY <1>10, <1>11, <1>18 DEF coalesce_blocks
  <2>2. freed_size = merged_end - merged_start /\ curr = merged_next
    BY <1>1, <1>18 DEF merged_end, merged_start, merged_next
  <2> QED BY <1>1, <1>7, <1>8, <1>9, <1>12, <1>18, <1>19, <2>1, <2>2 DEF merged_start
<1> QED BY <1>15, <1>16, <1>17, <1>18

-----------------------------------------------------------------------------
(* Order: what splitting or joining blocks does to successors *)

\* c gives way to itself (fore), to e (aft), to both or to neither.
LEMMA FollowsSplit ==
  ASSUME NEW D \in SUBSET Nat, NEW S \in SUBSET Nat, 0 \notin D,
         NEW c \in D, NEW e \in Nat \ D, NEW n \in Nat, NEW p \in D \cup {0},
         c < e, \A b \in D : b > c => b > e,
         Follows(D, p, c), Follows(D, c, n),
         \A b \in D : b # c => b \in S,
         \A b \in S : b \in D \/ b = e,
         NEW r, r = IF e \in S THEN e ELSE n
  PROVE  /\ Follows(S, c, r)
         /\ e \in S => Follows(S, e, n)
         /\ Follows(S, p, IF c \in S THEN c ELSE r)
         /\ \A x \in D \cup {0}, t \in Nat :
              x # c /\ x # p /\ Follows(D, x, t) => Follows(S, x, t)
<1>1. p < c /\ r \in Nat /\ p \in Nat /\ c \in Nat \ {0} /\ e # 0
  BY DEF Follows, NULL
<1>2. \A b \in D : b <= c \/ (n # 0 /\ n <= b)
  BY <1>1 DEF Follows, NULL
<1>3. n # 0 => n \in D /\ n > c /\ n > e
  BY DEF Follows, NULL
<1>4. \A b \in D : b <= p \/ c <= b
  BY <1>1 DEF Follows, NULL
<1>5. Follows(S, c, r)
  <2>1. CASE e \in S
    BY <1>1, <2>1 DEF Follows, NULL
  <2>2. CASE e \notin S
    BY <1>1, <1>2, <1>3, <2>2 DEF Follows, NULL
  <2> QED BY <2>1, <2>2
<1>6. e \in S => Follows(S, e, n)
  BY <1>1, <1>2, <1>3 DEF Follows, NULL
<1>7. Follows(S, p, IF c \in S THEN c ELSE r)
  <2>1. CASE c \in S
    BY <1>1, <1>4, <2>1 DEF Follows, NULL
  <2>2. CASE c \notin S /\ e \in S
    BY <1>1, <1>4, <2>2 DEF Follows, NULL
  <2>3. CASE c \notin S /\ e \notin S
    BY <1>1, <1>2, <1>3, <1>4, <2>3 DEF Follows, NULL
  <2> QED BY <2>1, <2>2, <2>3
<1>8. ASSUME NEW x \in D \cup {0}, NEW t \in Nat, x # c, x # p, Follows(D, x, t)
      PROVE  Follows(S, x, t)
  <2>1. x \in Nat /\ (t = 0 \/ (t \in D /\ x < t)) /\ \A b \in D : b <= x \/ (t # 0 /\ t <= b)
    BY <1>8 DEF Follows, NULL
  <2>2. x \in D \/ x = 0
    BY <1>8
  <2>3. t # c
    BY <1>1, <1>4, <1>8, <2>1, <2>2
  <2>4. x > c => x > e
    BY <1>1, <2>1, <2>2
  <2>5. x < c => t # 0 /\ t < c
    BY <1>1, <2>1, <2>3
  <2> QED BY <1>1, <1>8, <2>1, <2>2, <2>3, <2>4, <2>5 DEF Follows, NULL
<1> QED BY <1>5, <1>6, <1>7, <1>8

\* c is absorbed by s, the element right below it.
LEMMA FollowsAbsorb ==
  ASSUME NEW D \in SUBSET Nat, NEW S \in SUBSET Nat, 0 \notin D,
         NEW c \in D, c \notin S, NEW s \in Nat, NEW n \in Nat, s < c,
         \A b \in D : b # c => b \in S,
         \A b \in S : b <= s \/ (b \in D /\ c < b),
         Follows(D, c, n)
  PROVE  Follows(S, s, n)
<1>1. /\ n # 0 => n \in D /\ c < n
      /\ \A b \in D : b <= c \/ (n # 0 /\ n <= b)
  BY DEF Follows, NULL
<1>2. n # 0 => n \in S /\ s < n
  BY <1>1
<1>3. \A b \in S : b <= s \/ (n # 0 /\ n <= b)
  BY <1>1
<1> QED BY <1>2, <1>3 DEF Follows, NULL

\* q joins the set between p and c, or is absorbed by p; c may be absorbed.
LEMMA FollowsJoin ==
  ASSUME NEW D \in SUBSET Nat, NEW S \in SUBSET Nat, 0 \notin D,
         NEW p \in D \cup {0}, NEW q \in Nat \ D, NEW c \in Nat,
         Follows(D, p, c), p < q, c # 0 => q < c,
         NEW s \in {p, q}, s # 0, q \in S <=> s = q,
         \A b \in D : b # c => b \in S,
         \A b \in S : b \in D \/ b = q
  PROVE  /\ c = 0 \/ c \in S => Follows(S, s, c)
         /\ s = q => Follows(S, p, q)
         /\ \A x \in D \cup {0}, t \in Nat :
              x # p /\ (x = c => c = 0 \/ c \in S) /\ Follows(D, x, t) => Follows(S, x, t)
<1>1. /\ \A b \in D : b <= p \/ (c # 0 /\ c <= b)
      /\ c # 0 => c \in D
      /\ p \in Nat /\ q # 0 /\ s \in Nat /\ p <= s /\ s <= q
      /\ \A b \in S : b <= p \/ b = q \/ (c # 0 /\ c <= b)
  BY DEF Follows, NULL
<1>2. c = 0 \/ c \in S => Follows(S, s, c)
  <2>1. CASE c = 0
    BY <1>1, <2>1 DEF Follows, NULL
  <2>2. CASE c # 0 /\ c \in S
    BY <1>1, <2>2 DEF Follows, NULL
  <2> QED BY <2>1, <2>2
<1>3. s = q => Follows(S, p, q)
  BY <1>1 DEF Follows, NULL
<1>4. ASSUME NEW x \in D \cup {0}, NEW t \in Nat,
             x # p, x = c => c = 0 \/ c \in S, Follows(D, x, t)
      PROVE  Follows(S, x, t)
  <2>1. /\ x \in Nat /\ (x \in D \/ x = 0)
        /\ t # 0 => t \in D /\ x < t
        /\ \A b \in D : b <= x \/ (t # 0 /\ t <= b)
    BY <1>4 DEF Follows, NULL
  <2>2. x < p \/ (c # 0 /\ c <= x)
    BY <1>1, <1>4, <2>1
  <2>3. x < p => t # 0 /\ t <= p /\ p \in D
    BY <1>1, <2>1
  <2>4. t # 0 => t # c \/ c \in S
    BY <1>1, <1>4, <2>1, <2>2, <2>3
  <2>5. t # 0 => t \in S
    BY <2>1, <2>4
  <2>6. \A b \in S : b <= x \/ (t # 0 /\ t <= b)
    BY <1>1, <2>1, <2>2, <2>3
  <2> QED BY <2>1, <2>5, <2>6 DEF Follows, NULL
<1> QED BY <1>2, <1>3, <1>4

-----------------------------------------------------------------------------
(* MemallocTake preserves the invariant *)

\* The blocks after the step: the old ones, the front and the end of curr, and
\* the used block between them.
LEMMA TakeBlocks ==
  ASSUME IInv, MemallocTake
  PROVE  /\ \A a \in DOMAIN fb' :
              \/ a \in DOMAIN fb \ {curr} /\ free_end(a)' = free_end(a)
              \/ a = curr /\ splits_before /\ free_end(a)' = curr + free_before
              \/ a = new_free_blk /\ splits_after /\ free_end(a)' = free_end(curr)
         /\ DOMAIN hd' = DOMAIN hd \cup {curr + free_before}
         /\ curr + free_before \notin DOMAIN hd
         /\ \A g \in DOMAIN hd :
              used_start(g)' = used_start(g) /\ used_end(g)' = used_end(g)
         /\ \A g \in {curr + free_before} :
              /\ used_start(g)' = IF splits_before THEN g ELSE curr
              /\ used_end(g)' = IF splits_after THEN new_free_blk ELSE free_end(curr)
<1> DEFINE h == aligned_mem_start(curr, align) - HeaderSize
<1>1. /\ size \in Nat \ {0} /\ curr \in Nat \ {0} /\ curr \in DOMAIN fb
      /\ new_free_blk \in Nat
      /\ free_end(curr) \in Nat /\ fb[curr].size \in Nat
      /\ new_free_blk > curr + free_before + 8
      /\ new_free_blk <= free_end(curr)
      /\ free_after = free_end(curr) - new_free_blk
      /\ free_before \in Nat /\ h = curr + free_before
      /\ new_free_blk = curr + free_before + 8 + size
  <2>1. /\ size \in Nat \ {0} /\ curr \in Nat \ {0} /\ curr \in DOMAIN fb
        /\ new_free_blk \in Nat /\ new_free_blk > aligned_mem_start(curr, align)
        /\ new_free_blk <= free_end(curr)
        /\ free_after = free_end(curr) - new_free_blk
        /\ free_before \in Nat
        /\ aligned_mem_start(curr, align) = curr + free_before + HeaderSize
    BY TakenBlock, FoundFits DEF MemallocTake
  <2>2. fb[curr].size \in Nat
    BY <2>1 DEF IInv, TypeOK
  <2> QED BY <2>1, <2>2 DEF HeaderSize, free_end, new_free_blk
<1>2. \A a \in DOMAIN fb' :
        \/ a \in DOMAIN fb \ {curr} /\ free_end(a)' = free_end(a)
        \/ a = curr /\ splits_before /\ free_end(a)' = curr + free_before
        \/ a = new_free_blk /\ splits_after /\ free_end(a)' = free_end(curr)
  <2> TAKE a \in DOMAIN fb'
  <2>1. CASE a \in DOMAIN fb \ {curr}
    <3>1. fb'[a].size = fb[a].size
      BY <2>1, TakeFields
    <3> QED BY <2>1, <3>1 DEF free_end
  <2>2. CASE a = curr /\ splits_before
    <3>1. fb'[a].size = free_before
      BY <2>2, TakeEffect
    <3> QED BY <2>2, <3>1 DEF free_end
  <2>3. CASE a = new_free_blk /\ splits_after
    <3>1. fb'[a].size = free_after
      BY <2>3, TakeEffect
    <3> QED BY <1>1, <2>3, <3>1 DEF free_end
  <2> QED BY <2>1, <2>2, <2>3, TakeEffect
<1>3. curr + free_before \notin DOMAIN hd
  <2> SUFFICES ASSUME h \in DOMAIN hd PROVE FALSE
    BY <1>1
  <2>1. free_end(curr) <= used_start(h) \/ used_end(h) <= curr
    BY <1>1 DEF IInv, BlocksDisjoint
  <2> QED BY <1>1, <2>1, UsedBlockFacts
<1>4. hd' = Put(hd, curr + free_before, new_header)
  BY <1>1 DEF MemallocTake
<1>5. /\ DOMAIN hd' = DOMAIN hd \cup {curr + free_before}
      /\ hd'[curr + free_before] = new_header
      /\ \A g \in DOMAIN hd : hd'[g] = hd[g]
  BY <1>3, <1>4 DEF Put
<1>6. \A g \in DOMAIN hd :
        used_start(g)' = used_start(g) /\ used_end(g)' = used_end(g)
  BY <1>5 DEF used_start, used_end
<1>7. ASSUME NEW g \in {curr + free_before}
      PROVE  /\ used_start(g)' = IF splits_before THEN g ELSE curr
             /\ used_end(g)' = IF splits_after THEN new_free_blk ELSE free_end(curr)
  <2>1. hd'[g] = new_header
    BY <1>5
  <2>2. /\ new_header.size = size + 8 + (IF splits_after THEN 0 ELSE free_after)
        /\ new_header.start_off = IF splits_before THEN 0 ELSE free_before
    BY DEF new_header, HeaderSize
  <2> QED BY <1>1, <2>1, <2>2 DEF used_start, used_end
<1> QED BY <1>2, <1>3, <1>5, <1>6, <1>7

LEMMA TakePreserves ==
  ASSUME IInv, MemallocTake
  PROVE  IInv'
<1> DEFINE h == curr + free_before
           m == aligned_mem_start(curr, align)
<1>1. /\ size \in Nat \ {0} /\ curr \in Nat \ {0} /\ curr \in DOMAIN fb
      /\ DOMAIN fb \subseteq Nat \ {0}
      /\ new_free_blk \in Nat /\ new_free_blk \notin DOMAIN fb
      /\ free_end(curr) \in Nat
      /\ free_before \in Nat /\ m = h + 8 /\ new_free_blk = m + size
      /\ new_free_blk <= free_end(curr)
      /\ free_after = free_end(curr) - new_free_blk
      /\ heap_start <= curr /\ free_end(curr) <= heap_end
  <2>1. curr \in DOMAIN fb /\ new_free_blk = m + size
    BY FoundFits DEF MemallocTake, new_free_blk
  <2>2. fb[curr].size \in Nat /\ heap_start <= curr /\ free_end(curr) <= heap_end
    BY <2>1 DEF IInv, TypeOK, BlocksDisjoint
  <2> QED BY <2>1, <2>2, TakenBlock DEF MemallocTake, HeaderSize, free_end
<1>2. \A a \in DOMAIN fb' :
        \/ a \in DOMAIN fb \ {curr} /\ free_end(a)' = free_end(a)
        \/ a = curr /\ splits_before /\ free_end(a)' = h
        \/ a = new_free_blk /\ splits_after /\ free_end(a)' = free_end(curr)
  BY TakeBlocks
<1>3. /\ DOMAIN hd' = DOMAIN hd \cup {h} /\ h \notin DOMAIN hd
      /\ \A g \in DOMAIN hd : used_start(g)' = used_start(g) /\ used_end(g)' = used_end(g)
      /\ \A g \in {h} :
           /\ used_start(g)' = IF splits_before THEN g ELSE curr
           /\ used_end(g)' = IF splits_after THEN new_free_blk ELSE free_end(curr)
  BY TakeBlocks
<1>4. /\ splits_before <=> free_before >= 8
      /\ splits_after <=> free_after >= 8
  BY DEF splits_before, splits_after, FreeSize
<1>5. /\ DOMAIN fb' = (DOMAIN fb \ {curr})
                        \cup (IF splits_before THEN {curr} ELSE {})
                        \cup (IF splits_after THEN {new_free_blk} ELSE {})
      /\ \A x \in DOMAIN fb \ {curr} :
           fb'[x] = [size |-> fb[x].size,
                     next |-> IF x = prev THEN taken_link ELSE fb[x].next]
      /\ splits_before =>
           fb'[curr] = [size |-> free_before, next |-> replacement]
      /\ splits_after =>
           fb'[new_free_blk] = [size |-> free_after, next |-> fb[curr].next]
      /\ free_block_head' = IF prev = NULL THEN taken_link ELSE free_block_head
  BY TakeEffect
<1>6. \A a \in DOMAIN fb \ {curr} :
        /\ free_end(a) <= curr \/ free_end(curr) <= a
        /\ a \in Nat \ {0} /\ free_end(a) \in Nat /\ a < free_end(a)
        /\ heap_start <= a /\ free_end(a) <= heap_end
  <2> TAKE a \in DOMAIN fb \ {curr}
  <2>1. free_end(a) <= curr \/ free_end(curr) <= a
    BY <1>1 DEF IInv, BlocksDisjoint
  <2> QED BY <2>1, FreeBlockFacts
<1>7. \A g \in DOMAIN hd :
        /\ free_end(curr) <= used_start(g) \/ used_end(g) <= curr
        /\ used_start(g) \in Nat /\ used_end(g) \in Nat /\ g \in Nat
        /\ used_start(g) <= g /\ g + 8 < used_end(g)
        /\ heap_start <= used_start(g) /\ used_end(g) <= heap_end
  <2> TAKE g \in DOMAIN hd
  <2>1. free_end(curr) <= used_start(g) \/ used_end(g) <= curr
    BY <1>1 DEF IInv, BlocksDisjoint
  <2> QED BY <2>1, UsedBlockFacts
<1>8. BlocksDisjoint'
  <2>1. ASSUME NEW a \in DOMAIN fb'
        PROVE  heap_start <= a /\ free_end(a)' <= heap_end
    BY <1>1, <1>2, <1>4, <1>6, HeapAssumption
  <2>2. ASSUME NEW a \in DOMAIN fb', NEW b \in DOMAIN fb', a < b
        PROVE  free_end(a)' <= b
    BY <1>1, <1>2, <1>4, <1>6, <2>2 DEF IInv, BlocksDisjoint
  <2>3. ASSUME NEW a \in DOMAIN fb', NEW g \in DOMAIN hd'
        PROVE  free_end(a)' <= used_start(g)' \/ used_end(g)' <= a
    BY <1>1, <1>2, <1>3, <1>4, <1>6, <1>7 DEF IInv, BlocksDisjoint
  <2>4. ASSUME NEW g \in DOMAIN hd'
        PROVE  heap_start <= used_start(g)' /\ used_end(g)' <= heap_end
    BY <1>1, <1>3, <1>4, <1>7, HeapAssumption
  <2>5. ASSUME NEW f \in DOMAIN hd', NEW g \in DOMAIN hd', f < g
        PROVE  used_end(f)' <= used_start(g)'
    BY <1>1, <1>3, <1>4, <1>7, <2>5 DEF IInv, BlocksDisjoint
  <2> QED BY <2>1, <2>2, <2>3, <2>4, <2>5 DEF BlocksDisjoint
<1>9. HeapCovered'
  <2> SUFFICES ASSUME NEW x \in heap_start .. heap_end - 1
               PROVE  \/ \E a \in DOMAIN fb' : a <= x /\ x < free_end(a)'
                      \/ \E g \in DOMAIN hd' : used_start(g)' <= x /\ x < used_end(g)'
    BY DEF HeapCovered
  <2>1. CASE \E g \in DOMAIN hd : used_start(g) <= x /\ x < used_end(g)
    <3>1. PICK g \in DOMAIN hd : used_start(g) <= x /\ x < used_end(g)
      BY <2>1
    <3>2. g \in DOMAIN hd' /\ used_start(g)' = used_start(g) /\ used_end(g)' = used_end(g)
      BY <1>3
    <3> QED BY <3>1, <3>2
  <2>2. CASE \E a \in DOMAIN fb \ {curr} : a <= x /\ x < free_end(a)
    <3>1. PICK a \in DOMAIN fb \ {curr} : a <= x /\ x < free_end(a)
      BY <2>2
    <3>2. a \in DOMAIN fb' /\ free_end(a)' = free_end(a)
      BY <1>5, TakeFields DEF free_end
    <3> QED BY <3>1, <3>2
  <2>3. CASE curr <= x /\ x < free_end(curr)
    <3>1. CASE splits_before /\ x < h
      <4>1. curr \in DOMAIN fb' /\ fb'[curr].size = free_before
        BY <1>5, <3>1
      <4> QED BY <1>1, <2>3, <3>1, <4>1 DEF free_end
    <3>2. CASE splits_after /\ new_free_blk <= x
      <4>1. new_free_blk \in DOMAIN fb' /\ fb'[new_free_blk].size = free_after
        BY <1>5, <3>2
      <4> QED BY <1>1, <2>3, <3>2, <4>1 DEF free_end
    <3>3. CASE (splits_before => h <= x) /\ (splits_after => x < new_free_blk)
      BY <1>1, <1>3, <2>3, <3>3
    <3> QED BY <1>1, <3>1, <3>2, <3>3, HeapAssumption
  <2> QED BY <2>1, <2>2, <2>3 DEF IInv, HeapCovered
<1>10. BlocksHoldStruct'
  <2> SUFFICES ASSUME NEW a \in DOMAIN fb' PROVE fb'[a].size >= 8
    BY DEF BlocksHoldStruct, FreeSize
  <2>1. CASE a \in DOMAIN fb \ {curr}
    <3>1. fb'[a].size = fb[a].size
      BY <2>1, TakeFields
    <3> QED BY <2>1, <3>1 DEF IInv, BlocksHoldStruct, FreeSize
  <2>2. CASE a = curr /\ splits_before
    BY <1>4, <1>5, <2>2
  <2>3. CASE a = new_free_blk /\ splits_after
    BY <1>4, <1>5, <2>3
  <2> QED BY <1>2, <2>1, <2>2, <2>3
<1>11. Coalesced'
  <2> SUFFICES ASSUME NEW a \in DOMAIN fb', NEW b \in DOMAIN fb'
               PROVE  free_end(a)' # b
    BY DEF Coalesced
  <2> QED BY <1>1, <1>2, <1>4, <1>6 DEF IInv, Coalesced
<1>12. DOMAIN live' = DOMAIN live \cup {m} /\ live'[m] = size
      /\ \A p \in DOMAIN live \ {m} : live'[p] = live[p]
  BY DEF MemallocTake, Put
<1>13. m \notin DOMAIN live
  BY <1>1, <1>3 DEF IInv, LiveObjectsOwned, HeaderSize
<1>14. /\ pc' = "idle" /\ size' = 0 /\ align' = 0 /\ ptr' = 0 /\ prev' = 0 /\ curr' = 0
  BY DEF MemallocTake, Done, NULL
<1>15. hd'[h] = new_header /\ \A g \in DOMAIN hd : hd'[g] = hd[g]
  <2>1. hd' = Put(hd, h, new_header)
    BY <1>1 DEF MemallocTake, HeaderSize
  <2> QED BY <1>3, <2>1 DEF Put
<1>16. LiveObjectsOwned'
  <2>1. DOMAIN hd' = {p - HeaderSize : p \in DOMAIN live'}
    BY <1>1, <1>3, <1>12 DEF IInv, LiveObjectsOwned, HeaderSize
  <2>2. ASSUME NEW p \in DOMAIN live'
        PROVE  /\ live'[p] > 0 /\ p + live'[p] <= used_end(p - 8)'
               /\ used_end(p - 8)' < p + live'[p] + 8
               /\ hd'[p - 8].start_off < 8
    <3>1. CASE p = m
      <4>1. p - 8 = h
        BY <1>1, <3>1
      <4>2. used_end(p - 8)' = IF splits_after THEN new_free_blk ELSE free_end(curr)
        BY <1>3, <4>1
      <4>3. hd'[p - 8].start_off = IF splits_before THEN 0 ELSE free_before
        BY <1>15, <4>1 DEF new_header
      <4> QED BY <1>1, <1>4, <1>12, <3>1, <4>2, <4>3
    <3>2. CASE p # m
      <4>1. p \in DOMAIN live /\ live'[p] = live[p] /\ p - 8 \in DOMAIN hd
        BY <1>12, <3>2 DEF IInv, LiveObjectsOwned, HeaderSize
      <4>2. used_end(p - 8)' = used_end(p - 8) /\ hd'[p - 8] = hd[p - 8]
        BY <1>3, <1>15, <4>1
      <4> QED BY <4>1, <4>2 DEF IInv, LiveObjectsOwned, HeaderSize, FreeSize
    <3> QED BY <3>1, <3>2
  <2> QED BY <2>1, <2>2 DEF LiveObjectsOwned, HeaderSize, FreeSize
<1>17. CursorsInList'
  BY <1>14 DEF CursorsInList, Idle, NULL
<1>18. fb[curr].next \in Nat /\ replacement \in Nat /\ taken_link \in Nat
  BY <1>1, FreeBlockFacts DEF replacement, taken_link
<1>19. TypeOK'
  <2>1. DOMAIN fb' \subseteq heap_start .. heap_end
    BY <1>1, <1>5, HeapAssumption DEF IInv, TypeOK
  <2>2. fb' \in [DOMAIN fb' -> [size : Nat, next : Nat]]
    <3>1. ASSUME NEW a \in DOMAIN fb' PROVE fb'[a] \in [size : Nat, next : Nat]
      <4>1. CASE a \in DOMAIN fb \ {curr}
        <5>1. fb[a].size \in Nat /\ fb[a].next \in Nat
          BY <4>1, FreeBlockFacts
        <5>2. fb'[a] = [size |-> fb[a].size,
                        next |-> IF a = prev THEN taken_link ELSE fb[a].next]
          BY <1>5, <4>1
        <5> QED BY <1>18, <5>1, <5>2
      <4>2. CASE a = curr /\ splits_before
        BY <1>1, <1>5, <1>18, <4>2
      <4>3. CASE a = new_free_blk /\ splits_after
        BY <1>1, <1>5, <1>18, <4>3
      <4> QED BY <1>5, <4>1, <4>2, <4>3
    <3>2. fb' = [x \in DOMAIN fb' |-> fb'[x]]
      BY TakeEffect DEF IsFcn
    <3> QED BY <3>1, <3>2
  <2>3. DOMAIN hd' \subseteq heap_start .. heap_end
    BY <1>1, <1>3, HeapAssumption DEF IInv, TypeOK
  <2>4. hd' \in [DOMAIN hd' -> [size : Nat, start_off : Nat]]
    <3>1. new_header \in [size : Nat, start_off : Nat]
      BY <1>1 DEF new_header, HeaderSize
    <3>2. ASSUME NEW g \in DOMAIN hd' PROVE hd'[g] \in [size : Nat, start_off : Nat]
      BY <1>3, <1>15, <3>1, UsedBlockFacts
    <3>3. hd' = [x \in DOMAIN hd' |-> hd'[x]]
      BY DEF MemallocTake, Put
    <3> QED BY <3>2, <3>3
  <2>5. DOMAIN live' \subseteq heap_start .. heap_end
    BY <1>1, <1>12, HeapAssumption DEF IInv, TypeOK
  <2>6. live' \in [DOMAIN live' -> Nat]
    <3>1. ASSUME NEW p \in DOMAIN live' PROVE live'[p] \in Nat
      BY <1>1, <1>12 DEF IInv, TypeOK
    <3>2. live' = [x \in DOMAIN live' |-> live'[x]]
      BY DEF MemallocTake, Put
    <3> QED BY <3>1, <3>2
  <2>7. free_block_head' \in Nat
    BY <1>5, <1>18 DEF IInv, TypeOK
  <2> QED BY <1>14, <2>1, <2>2, <2>3, <2>4, <2>5, <2>6, <2>7 DEF TypeOK
<1>20. FreeListSorted'
  <2> DEFINE D == DOMAIN fb
             n == fb[curr].next
             e == new_free_blk
  <2>1. Follows(D, curr, n) /\ n \in Nat
    BY <1>1, <1>18 DEF IInv, FreeListSorted
  <2>2. Follows(D, prev, curr) /\ prev \in Nat /\ (prev = NULL \/ prev \in D)
    BY DEF IInv, CursorsInList, TypeOK, MemallocTake
  <2>3. prev < curr
    BY <1>1, <2>2 DEF Follows, NULL
  <2>4. \A b \in D : b > curr => b >= free_end(curr) /\ b > e
    BY <1>1, <1>6
  <2>5. curr < e /\ h + 8 < e
    BY <1>1
  <2>6. DOMAIN fb' = (D \ {curr}) \cup (IF splits_before THEN {curr} ELSE {})
                                  \cup (IF splits_after THEN {e} ELSE {})
    BY <1>5
  <2>7. replacement = IF splits_after THEN e ELSE n
    BY DEF replacement
  <2>8. /\ D \in SUBSET Nat /\ 0 \notin D /\ e \in Nat \ D /\ curr \in D
        /\ prev \in D \cup {0} /\ DOMAIN fb' \in SUBSET Nat
    BY <1>1, <1>5, <2>2 DEF NULL
  <2>9. /\ \A b \in D : b # curr => b \in DOMAIN fb'
        /\ \A b \in DOMAIN fb' : b \in D \/ b = e
        /\ curr \in DOMAIN fb' <=> splits_before
        /\ e \in DOMAIN fb' <=> splits_after
    BY <2>6, <2>8, <2>5
  <2> HIDE DEF D, n, e
  <2>10. replacement = IF e \in DOMAIN fb' THEN e ELSE n
    BY <2>7, <2>9
  <2>11. /\ Follows(DOMAIN fb', curr, replacement)
         /\ e \in DOMAIN fb' => Follows(DOMAIN fb', e, n)
         /\ Follows(DOMAIN fb', prev, IF curr \in DOMAIN fb' THEN curr ELSE replacement)
         /\ \A x \in D \cup {0}, t \in Nat :
              x # curr /\ x # prev /\ Follows(D, x, t) => Follows(DOMAIN fb', x, t)
    BY <2>1, <2>2, <2>4, <2>5, <2>8, <2>9, <2>10, FollowsSplit
  <2>12. Follows(DOMAIN fb', prev, taken_link)
    BY <2>9, <2>11 DEF taken_link
  <2>13. Follows(DOMAIN fb', 0, free_block_head')
    <3>1. CASE prev = NULL
      BY <1>5, <2>12, <3>1 DEF NULL
    <3>2. CASE prev # NULL
      <4>1. free_block_head' = free_block_head /\ free_block_head \in Nat
        BY <1>5, <3>2 DEF IInv, TypeOK
      <4>2. Follows(D, 0, free_block_head)
        BY DEF IInv, FreeListSorted, D
      <4> QED BY <1>1, <2>8, <2>11, <3>2, <4>1, <4>2 DEF NULL
    <3> QED BY <3>1, <3>2
  <2>14. ASSUME NEW a \in DOMAIN fb'
         PROVE  Follows(DOMAIN fb', a, fb'[a].next)
    <3>1. CASE a \in D \ {curr, prev}
      <4>1. fb'[a].next = fb[a].next /\ fb[a].next \in Nat /\ Follows(D, a, fb[a].next)
        BY <3>1, TakeFields, FreeBlockFacts DEF IInv, FreeListSorted, D
      <4> QED BY <2>8, <2>11, <3>1, <4>1
    <3>2. CASE a = prev
      <4>1. fb'[a].next = taken_link
        <5>1. a \in DOMAIN fb \ {curr}
          BY <2>3, <2>8, <2>9, <3>2, <1>1, <2>2 DEF D, e, NULL
        <5> QED BY <3>2, <5>1, TakeFields
      <4> QED BY <2>12, <3>2, <4>1
    <3>3. CASE a = curr /\ splits_before
      <4>1. fb'[a].next = replacement
        BY <1>5, <3>3
      <4> QED BY <2>11, <3>3, <4>1
    <3>4. CASE a = e /\ splits_after
      <4>1. fb'[a].next = n
        BY <1>5, <3>4 DEF e, n
      <4> QED BY <2>9, <2>11, <3>4, <4>1
    <3> QED BY <2>6, <3>1, <3>2, <3>3, <3>4
  <2> QED BY <2>13, <2>14 DEF FreeListSorted
<1> QED
  BY <1>8, <1>9, <1>10, <1>11, <1>16, <1>17, <1>19, <1>20 DEF IInv

-----------------------------------------------------------------------------
(* MemfreeInsert preserves the invariant *)

\* The merged block, and its distance from every block it is not made of.
LEMMA MergedBlock ==
  ASSUME IInv, MemfreeInsert
  PROVE  /\ merged_start \in Nat \ {0} /\ merged_end \in Nat
         /\ heap_start <= merged_start /\ merged_end <= heap_end
         /\ merged_start <= freed_start
         /\ freed_start + FreeSize <= used_end(ptr - HeaderSize)
         /\ used_end(ptr - HeaderSize) <= merged_end
         /\ \A a \in DOMAIN fb :
              \/ a = merged_start
              \/ a = curr /\ merges_next
              \/ free_end(a) < merged_start
              \/ merged_end < a
         /\ \A g \in DOMAIN hd \ {ptr - HeaderSize} :
              used_end(g) <= merged_start \/ merged_end <= used_start(g)
<1> DEFINE h == ptr - HeaderSize
           q == freed_start
           ue == used_end(h)
<1>1. /\ h \in DOMAIN hd /\ q = used_start(h) /\ q \in Nat \ {0}
      /\ freed_size \in Nat /\ freed_size >= 8 /\ q + freed_size = ue
      /\ heap_start <= q /\ ue <= heap_end
      /\ prev # NULL => /\ prev \in DOMAIN fb /\ prev < q /\ free_end(prev) <= q
      /\ curr # NULL => curr \in DOMAIN fb /\ ue <= curr
  BY FreedBlock DEF MemfreeInsert, FreeSize
<1>2. ue \in Nat /\ q + 8 <= ue
  BY <1>1
<1>3. /\ prev # NULL => prev \in Nat /\ heap_start <= prev /\ free_end(prev) \in Nat
      /\ curr # NULL => /\ curr \in Nat /\ free_end(curr) \in Nat
                        /\ free_end(curr) <= heap_end /\ curr < free_end(curr)
  BY <1>1, FreeBlockFacts
<1>4. /\ merges_prev => prev # NULL /\ free_end(prev) = q /\ merged_start = prev
      /\ ~merges_prev => merged_start = q /\ (prev # NULL => free_end(prev) # q)
      /\ merges_next => curr # NULL /\ ue = curr /\ merged_end = free_end(curr)
      /\ ~merges_next => merged_end = ue /\ (curr # NULL => ue # curr)
  BY DEF merges_prev, merges_next, merged_start, merged_end
<1>5. /\ merged_start \in Nat \ {0} /\ merged_end \in Nat
      /\ heap_start <= merged_start /\ merged_end <= heap_end
      /\ merged_start <= q /\ ue <= merged_end
  BY <1>1, <1>2, <1>3, <1>4, HeapAssumption DEF NULL
<1>6. /\ Follows(DOMAIN fb, prev, curr)
  BY DEF MemfreeInsert, IInv, CursorsInList
<1>9. prev \in Nat /\ curr \in Nat
  BY DEF IInv, TypeOK
<1>7. ASSUME NEW a \in DOMAIN fb
      PROVE  \/ a = merged_start
             \/ a = curr /\ merges_next
             \/ free_end(a) < merged_start
             \/ merged_end < a
  <2>1. a \in Nat \ {0} /\ free_end(a) \in Nat /\ a < free_end(a)
    BY FreeBlockFacts
  <2>2. free_end(a) <= q \/ ue <= a
    BY <1>1 DEF IInv, BlocksDisjoint
  <2>3. a <= prev \/ (curr # NULL /\ curr <= a)
    BY <1>6 DEF Follows
  <2>4. CASE free_end(a) <= q
    <3>0. ~(curr # NULL /\ curr <= a)
      <4> SUFFICES ASSUME curr # NULL, curr <= a PROVE FALSE
        OBVIOUS
      <4> HIDE DEF q, ue
      <4> QED BY <1>1, <1>2, <1>9, <2>1, <2>4
    <3>1. a <= prev /\ prev # NULL
      BY <1>9, <2>1, <2>3, <3>0 DEF NULL
    <3>2. CASE a = prev
      BY <1>1, <1>4, <1>5, <2>1, <2>4, <3>1, <3>2
    <3>3. CASE a < prev
      <4>1. free_end(a) <= prev /\ free_end(a) # prev
        BY <1>1, <3>1, <3>3 DEF IInv, BlocksDisjoint, Coalesced
      <4> QED BY <1>1, <1>3, <1>4, <2>1, <3>1, <4>1
    <3> QED BY <1>3, <2>1, <3>1, <3>2, <3>3
  <2>5. CASE ue <= a
    <3>1. curr # NULL /\ curr <= a
      BY <1>1, <1>2, <1>3, <2>1, <2>3, <2>5 DEF NULL
    <3>2. CASE a = curr
      BY <1>2, <1>4, <2>1, <2>5, <3>1, <3>2
    <3>3. CASE curr < a
      <4>1. free_end(curr) <= a /\ free_end(curr) # a
        BY <1>1, <3>1, <3>3 DEF IInv, BlocksDisjoint, Coalesced
      <4> QED BY <1>1, <1>2, <1>3, <1>4, <2>1, <3>1, <4>1
    <3> QED BY <1>3, <2>1, <3>1, <3>2, <3>3
  <2> QED BY <2>2, <2>4, <2>5
<1>8. ASSUME NEW g \in DOMAIN hd \ {h}
      PROVE  used_end(g) <= merged_start \/ merged_end <= used_start(g)
  <2>1. /\ g \in Nat /\ used_start(g) \in Nat /\ used_end(g) \in Nat
        /\ used_start(g) <= g /\ g + 8 < used_end(g)
        /\ h \in Nat /\ used_start(h) <= h /\ h + 8 < ue
    BY <1>1, UsedBlockFacts
  <2>2. merges_prev => free_end(prev) <= used_start(g) \/ used_end(g) <= prev
    BY <1>1, <1>4 DEF IInv, BlocksDisjoint
  <2>3. merges_next => free_end(curr) <= used_start(g) \/ used_end(g) <= curr
    BY <1>1, <1>4 DEF IInv, BlocksDisjoint
  <2>4. CASE g < h
    <3>1. used_end(g) <= q
      BY <1>1, <2>4 DEF IInv, BlocksDisjoint
    <3> QED BY <1>1, <1>3, <1>4, <2>1, <2>2, <3>1
  <2>5. CASE h < g
    <3>1. ue <= used_start(g)
      BY <1>1, <2>5 DEF IInv, BlocksDisjoint
    <3> QED BY <1>1, <1>2, <1>3, <1>4, <2>1, <2>3, <3>1
  <2> QED BY <2>1, <2>4, <2>5
<1> QED BY <1>2, <1>5, <1>7, <1>8 DEF FreeSize

LEMMA FreePreserves ==
  ASSUME IInv, MemfreeInsert
  PROVE  IInv'
<1> DEFINE h == ptr - HeaderSize
           s == merged_start
           t == merged_end
<1>1. /\ s \in Nat \ {0} /\ t \in Nat /\ heap_start <= s /\ t <= heap_end
      /\ s <= freed_start /\ freed_start + 8 <= used_end(h) /\ used_end(h) <= t
      /\ \A a \in DOMAIN fb :
           a = s \/ (a = curr /\ merges_next) \/ free_end(a) < s \/ t < a
      /\ \A g \in DOMAIN hd \ {h} : used_end(g) <= s \/ t <= used_start(g)
  BY MergedBlock DEF FreeSize
<1>2. /\ ptr \in DOMAIN live /\ h \in DOMAIN hd /\ freed_start = used_start(h)
      /\ freed_start \in Nat \ {0} /\ used_end(h) \in Nat
      /\ freed_start \notin DOMAIN fb
      /\ prev # NULL => prev \in DOMAIN fb /\ prev < freed_start
      /\ curr # NULL => curr \in DOMAIN fb /\ used_end(h) <= curr
      /\ prev # NULL => fb[prev].next = curr
      /\ prev = NULL => free_block_head = curr
  BY FreedBlock, UsedBlockFacts DEF MemfreeInsert
<1>3. /\ DOMAIN fb' = (DOMAIN fb \ (IF merges_next THEN {curr} ELSE {})) \cup {s}
      /\ \A x \in DOMAIN fb \ {prev, curr} : fb'[x] = fb[x]
      /\ curr # NULL /\ ~merges_next => fb'[curr] = fb[curr]
      /\ prev # NULL /\ ~merges_prev =>
           fb'[prev] = [size |-> fb[prev].size, next |-> freed_start]
      /\ fb'[s] = [size |-> t - s, next |-> merged_next]
      /\ free_block_head' = IF prev = NULL THEN freed_start ELSE free_block_head
      /\ IsFcn(fb')
  BY FreeEffect
<1>4. /\ merges_prev => s = prev /\ prev # NULL
      /\ ~merges_prev => s = freed_start
      /\ merges_next => curr # NULL
  BY DEF merged_start, merges_prev, merges_next
<1>5. ASSUME NEW a \in DOMAIN fb \ {s}, ~(a = curr /\ merges_next)
      PROVE  /\ a \in DOMAIN fb'
             /\ fb'[a].size = fb[a].size
             /\ fb'[a].next = IF a = prev THEN freed_start ELSE fb[a].next
  <2>1. CASE a = prev /\ prev # NULL
    <3>1. fb'[a] = [size |-> fb[a].size, next |-> freed_start]
      BY <1>3, <1>4, <1>5, <2>1
    <3> QED BY <1>3, <1>5, <2>1, <3>1
  <2>2. CASE a = curr /\ curr # NULL /\ a # prev
    BY <1>2, <1>3, <1>4, <1>5, <2>2
  <2>3. CASE a # prev /\ a # curr
    BY <1>3, <2>3
  <2>4. a # NULL
    BY FreeBlockFacts DEF NULL
  <2> QED BY <1>3, <2>1, <2>2, <2>3, <2>4
<1>6. /\ s \in DOMAIN fb' /\ fb'[s].size = t - s /\ fb'[s].next = merged_next
  BY <1>3
<1>7. \A a \in DOMAIN fb' :
        \/ a = s /\ free_end(a)' = t
        \/ /\ a \in DOMAIN fb \ {s} /\ ~(a = curr /\ merges_next)
           /\ free_end(a)' = free_end(a)
           /\ a \in Nat \ {0} /\ free_end(a) \in Nat /\ a < free_end(a)
           /\ heap_start <= a /\ free_end(a) <= heap_end
           /\ free_end(a) < s \/ t < a
  <2> TAKE a \in DOMAIN fb'
  <2>1. CASE a = s
    <3>1. fb'[a].size = t - s
      BY <1>6, <2>1
    <3> QED BY <1>1, <2>1, <3>1 DEF free_end
  <2>2. CASE a # s
    <3>1. a \in DOMAIN fb \ {s} /\ ~(a = curr /\ merges_next)
      BY <1>3, <2>2
    <3>2. fb'[a].size = fb[a].size
      BY <1>5, <3>1
    <3> QED BY <1>1, <3>1, <3>2, FreeBlockFacts DEF free_end
  <2> QED BY <2>1, <2>2
<1>8. /\ DOMAIN hd' = DOMAIN hd \ {h} /\ \A g \in DOMAIN hd' : hd'[g] = hd[g]
      /\ DOMAIN live' = DOMAIN live \ {ptr} /\ \A p \in DOMAIN live' : live'[p] = live[p]
  BY DEF MemfreeInsert, Drop
<1>9. \A g \in DOMAIN hd' :
        /\ g \in DOMAIN hd \ {h}
        /\ used_start(g)' = used_start(g) /\ used_end(g)' = used_end(g)
        /\ used_start(g) \in Nat /\ used_end(g) \in Nat /\ g \in Nat \ {0}
        /\ used_start(g) <= g /\ g + 8 < used_end(g)
        /\ heap_start <= used_start(g) /\ used_end(g) <= heap_end
        /\ used_end(g) <= s \/ t <= used_start(g)
  BY <1>1, <1>8, UsedBlockFacts DEF used_start, used_end
<1>10. BlocksDisjoint'
  <2>1. ASSUME NEW a \in DOMAIN fb'
        PROVE  heap_start <= a /\ free_end(a)' <= heap_end
    BY <1>1, <1>7
  <2>2. ASSUME NEW a \in DOMAIN fb', NEW b \in DOMAIN fb', a < b
        PROVE  free_end(a)' <= b
    <3>0. s < t
      BY <1>1, <1>2
    <3>1. CASE a = s
      BY <1>1, <1>7, <2>2, <3>0, <3>1
    <3>2. CASE b = s /\ a # s
      BY <1>1, <1>7, <2>2, <3>0, <3>2
    <3>3. CASE a # s /\ b # s
      <4>1. a \in DOMAIN fb /\ b \in DOMAIN fb /\ free_end(a)' = free_end(a)
        BY <1>7, <3>3
      <4> QED BY <2>2, <4>1 DEF IInv, BlocksDisjoint
    <3> QED BY <3>1, <3>2, <3>3
  <2>3. ASSUME NEW a \in DOMAIN fb', NEW g \in DOMAIN hd'
        PROVE  free_end(a)' <= used_start(g)' \/ used_end(g)' <= a
    BY <1>1, <1>7, <1>9 DEF IInv, BlocksDisjoint
  <2>4. ASSUME NEW g \in DOMAIN hd'
        PROVE  heap_start <= used_start(g)' /\ used_end(g)' <= heap_end
    BY <1>9
  <2>5. ASSUME NEW f \in DOMAIN hd', NEW g \in DOMAIN hd', f < g
        PROVE  used_end(f)' <= used_start(g)'
    BY <1>9, <2>5 DEF IInv, BlocksDisjoint
  <2> QED BY <2>1, <2>2, <2>3, <2>4, <2>5 DEF BlocksDisjoint
<1>11. HeapCovered'
  <2> SUFFICES ASSUME NEW x \in heap_start .. heap_end - 1
               PROVE  \/ \E a \in DOMAIN fb' : a <= x /\ x < free_end(a)'
                      \/ \E g \in DOMAIN hd' : used_start(g)' <= x /\ x < used_end(g)'
    BY DEF HeapCovered
  <2>1. CASE s <= x /\ x < t
    <3>1. s \in DOMAIN fb' /\ s + fb'[s].size = t
      BY <1>1, <1>6
    <3> QED BY <2>1, <3>1 DEF free_end
  <2>2. CASE \E g \in DOMAIN hd : used_start(g) <= x /\ x < used_end(g)
    <3>1. PICK g \in DOMAIN hd : used_start(g) <= x /\ x < used_end(g)
      BY <2>2
    <3>2. CASE g = h
      BY <1>1, <1>2, <2>1, <3>1, <3>2, HeapAssumption
    <3>3. CASE g # h
      <4>1. g \in DOMAIN hd' /\ used_start(g)' = used_start(g) /\ used_end(g)' = used_end(g)
        BY <1>8, <1>9, <3>3
      <4> QED BY <3>1, <4>1
    <3> QED BY <3>2, <3>3
  <2>3. CASE \E a \in DOMAIN fb : a <= x /\ x < free_end(a)
    <3>1. PICK a \in DOMAIN fb : a <= x /\ x < free_end(a)
      BY <2>3
    <3>2. CASE a \in DOMAIN fb \ {s} /\ ~(a = curr /\ merges_next)
      <4>1. a \in DOMAIN fb' /\ free_end(a)' = free_end(a)
        BY <1>5, <3>2 DEF free_end
      <4> QED BY <3>1, <4>1
    <3>3. CASE a = s
      <4>1. merges_prev /\ free_end(a) = freed_start
        BY <1>2, <1>4, <3>3 DEF merges_prev
      <4> QED BY <1>1, <1>2, <2>1, <3>1, <3>3, <4>1, HeapAssumption
    <3>4. CASE a = curr /\ merges_next
      <4>1. used_end(h) = a /\ t = free_end(a)
        BY <3>4 DEF merges_next, merged_end
      <4> QED BY <1>1, <1>2, <2>1, <3>1, <4>1, HeapAssumption
    <3> QED BY <3>2, <3>3, <3>4
  <2> QED BY <2>2, <2>3 DEF IInv, HeapCovered
<1>12. BlocksHoldStruct'
  <2> SUFFICES ASSUME NEW a \in DOMAIN fb' PROVE fb'[a].size >= 8
    BY DEF BlocksHoldStruct, FreeSize
  <2>1. CASE a = s
    BY <1>1, <1>2, <1>6, <2>1
  <2>2. CASE a # s
    <3>1. a \in DOMAIN fb /\ fb'[a].size = fb[a].size
      BY <1>5, <1>7, <2>2
    <3> QED BY <3>1, FreeBlockFacts
  <2> QED BY <2>1, <2>2
<1>13. Coalesced'
  <2> SUFFICES ASSUME NEW a \in DOMAIN fb', NEW b \in DOMAIN fb'
               PROVE  free_end(a)' # b
    BY DEF Coalesced
  <2> QED BY <1>1, <1>2, <1>7 DEF IInv, Coalesced
<1>14. LiveObjectsOwned'
  <2>1. DOMAIN hd' = {p - HeaderSize : p \in DOMAIN live'}
    <3>1. ptr \in Nat /\ \A p \in DOMAIN live : p \in Nat
      BY <1>2, HeapAssumption DEF IInv, TypeOK
    <3> QED BY <1>8, <3>1 DEF IInv, LiveObjectsOwned, HeaderSize
  <2>2. ASSUME NEW p \in DOMAIN live'
        PROVE  /\ live'[p] > 0 /\ p + live'[p] <= used_end(p - 8)'
               /\ used_end(p - 8)' < p + live'[p] + 8
               /\ hd'[p - 8].start_off < 8
    <3>1. p \in DOMAIN live /\ live'[p] = live[p] /\ p - 8 \in DOMAIN hd'
      BY <1>8, <2>1 DEF HeaderSize
    <3>2. used_end(p - 8)' = used_end(p - 8) /\ hd'[p - 8] = hd[p - 8]
      BY <1>8, <1>9, <3>1
    <3> QED BY <3>1, <3>2 DEF IInv, LiveObjectsOwned, HeaderSize, FreeSize
  <2> QED BY <2>1, <2>2 DEF LiveObjectsOwned, HeaderSize, FreeSize
<1>15. /\ pc' = "idle" /\ size' = 0 /\ align' = 0 /\ ptr' = 0 /\ prev' = 0 /\ curr' = 0
  BY DEF MemfreeInsert, Done, NULL
<1>16. CursorsInList'
  BY <1>15 DEF CursorsInList, Idle, NULL
<1>17. merged_next \in Nat /\ prev \in Nat /\ curr \in Nat
  <2>1. curr \in Nat /\ prev \in Nat
    BY DEF IInv, TypeOK
  <2>2. merges_next => fb[curr].next \in Nat
    BY <1>2, <1>4, FreeBlockFacts
  <2> QED BY <2>1, <2>2 DEF merged_next
<1>18. TypeOK'
  <2>1. DOMAIN fb' \subseteq heap_start .. heap_end
    <3>1. s \in heap_start .. heap_end
      BY <1>1, <1>2, HeapAssumption
    <3> QED BY <1>3, <3>1 DEF IInv, TypeOK
  <2>2. fb' \in [DOMAIN fb' -> [size : Nat, next : Nat]]
    <3>1. ASSUME NEW a \in DOMAIN fb' PROVE fb'[a] \in [size : Nat, next : Nat]
      <4>1. CASE a = s
        BY <1>1, <1>2, <1>3, <1>17, <4>1
      <4>2. CASE a # s /\ a # prev
        <5>1. a \in DOMAIN fb /\ fb'[a] = fb[a]
          BY <1>3, <1>7, <4>2, FreeBlockFacts DEF NULL
        <5> QED BY <5>1 DEF IInv, TypeOK
      <4>3. CASE a # s /\ a = prev
        <5>1. a \in DOMAIN fb /\ prev # NULL /\ ~merges_prev
          BY <1>4, <1>7, <4>3, FreeBlockFacts DEF NULL
        <5>2. fb'[a] = [size |-> fb[a].size, next |-> freed_start]
          BY <1>3, <4>3, <5>1
        <5> QED BY <1>2, <5>1, <5>2, FreeBlockFacts
      <4> QED BY <4>1, <4>2, <4>3
    <3> QED BY <1>3, <3>1 DEF IsFcn
  <2>3. DOMAIN hd' \subseteq heap_start .. heap_end
    BY <1>8 DEF IInv, TypeOK
  <2>4. hd' \in [DOMAIN hd' -> [size : Nat, start_off : Nat]]
    BY DEF MemfreeInsert, Drop, IInv, TypeOK
  <2>5. DOMAIN live' \subseteq heap_start .. heap_end
    BY <1>8 DEF IInv, TypeOK
  <2>6. live' \in [DOMAIN live' -> Nat]
    BY DEF MemfreeInsert, Drop, IInv, TypeOK
  <2>7. free_block_head' \in Nat
    BY <1>2, <1>3 DEF IInv, TypeOK
  <2> QED BY <1>15, <2>1, <2>2, <2>3, <2>4, <2>5, <2>6, <2>7 DEF TypeOK
<1>19. FreeListSorted'
  <2> DEFINE D == DOMAIN fb
             S == DOMAIN fb'
  <2>1. /\ D \in SUBSET Nat /\ 0 \notin D /\ S \in SUBSET Nat
        /\ prev \in D \cup {0} /\ freed_start \in Nat \ D
        /\ curr \in Nat
    BY <1>2, <1>7, <1>1, <1>17, FreeBlockFacts DEF NULL
  <2>2. curr # 0 => fb[curr].next \in Nat /\ Follows(D, curr, fb[curr].next)
    BY <1>2, FreeBlockFacts DEF NULL, IInv, FreeListSorted
  <2>3. Follows(D, prev, curr)
    BY DEF MemfreeInsert, IInv, CursorsInList
  <2>4. /\ prev < freed_start /\ (curr # 0 => freed_start < curr)
        /\ s \in {prev, freed_start} /\ s # 0
    BY <1>1, <1>2, <1>4, <1>17 DEF NULL
  <2>5. /\ freed_start \in S <=> s = freed_start
        /\ \A b \in D : b # curr => b \in S
        /\ \A b \in S : b \in D \/ b = freed_start
    BY <1>2, <1>3, <1>4, <2>4 DEF NULL
  <2>6. curr # 0 => (curr \in S <=> ~merges_next)
    BY <1>1, <1>2, <1>3, <1>17, <2>4 DEF NULL
  <2>7. merged_next = IF curr = 0 \/ curr \in S THEN curr ELSE fb[curr].next
    BY <1>4, <2>6 DEF merged_next, NULL
  <2> HIDE DEF D, S
  <2>8. /\ Follows(S, s, merged_next)
        /\ s = freed_start => Follows(S, prev, freed_start)
        /\ \A x \in D \cup {0}, u \in Nat :
             x # prev /\ (x = curr => curr = 0 \/ curr \in S) /\ Follows(D, x, u)
               => Follows(S, x, u)
    <3>1. Follows(S, s, merged_next)
      <4>1. CASE curr = 0 \/ curr \in S
        BY <2>1, <2>3, <2>4, <2>5, <2>7, <4>1, FollowsJoin
      <4>2. CASE curr # 0 /\ curr \notin S
        <5>1. curr \in D /\ s < curr /\ s \in Nat
          BY <1>1, <1>2, <2>1, <2>4, <4>2 DEF D, NULL
        <5>2. \A b \in D : b <= prev \/ curr <= b
          BY <2>3, <4>2 DEF Follows, NULL
        <5>3. \A b \in S : b <= s \/ (b \in D /\ curr < b)
          BY <2>1, <2>4, <2>5, <4>2, <5>1, <5>2
        <5>4. Follows(S, s, fb[curr].next)
          BY <2>1, <2>2, <2>5, <4>2, <5>1, <5>3, FollowsAbsorb
        <5> QED BY <2>7, <4>2, <5>4
      <4> QED BY <4>1, <4>2
    <3>2. s = freed_start => Follows(S, prev, freed_start)
      BY <2>1, <2>3, <2>4, <2>5, FollowsJoin
    <3>3. \A x \in D \cup {0}, u \in Nat :
            x # prev /\ (x = curr => curr = 0 \/ curr \in S) /\ Follows(D, x, u)
              => Follows(S, x, u)
      BY <2>1, <2>3, <2>4, <2>5, FollowsJoin
    <3> QED BY <2>7, <3>1, <3>2, <3>3
  <2>9. Follows(S, 0, free_block_head')
    <3>1. CASE prev = 0
      BY <1>3, <1>4, <2>8, <3>1 DEF NULL
    <3>2. CASE prev # 0
      <4>1. free_block_head' = free_block_head /\ free_block_head \in Nat
        BY <1>3, <3>2 DEF NULL, IInv, TypeOK
      <4>2. Follows(D, 0, free_block_head)
        BY DEF IInv, FreeListSorted, D
      <4> QED BY <2>8, <3>2, <4>1, <4>2
    <3> QED BY <3>1, <3>2
  <2>10. ASSUME NEW a \in S PROVE Follows(S, a, fb'[a].next)
    <3>1. CASE a = s
      BY <1>6, <2>8, <3>1
    <3>2. CASE a # s /\ a = prev
      <4>1. fb'[a].next = freed_start /\ s = freed_start
        BY <1>3, <1>4, <1>7, <2>1, <3>2 DEF NULL, S, D
      <4> QED BY <2>8, <3>2, <4>1
    <3>3. CASE a # s /\ a # prev
      <4>1. a \in D /\ fb'[a].next = fb[a].next
        BY <1>5, <1>7, <3>3 DEF S, D
      <4>2. Follows(D, a, fb[a].next) /\ fb[a].next \in Nat
        BY <4>1, FreeBlockFacts DEF IInv, FreeListSorted, D
      <4> QED BY <2>8, <3>3, <4>1, <4>2
    <3> QED BY <3>1, <3>2, <3>3
  <2> QED BY <2>9, <2>10 DEF FreeListSorted, S
<1> QED
  BY <1>10, <1>11, <1>12, <1>13, <1>14, <1>16, <1>18, <1>19 DEF IInv

-----------------------------------------------------------------------------
(* The other steps write nothing but pc, the arguments and the cursors *)

LEMMA InitIInv == Init => IInv
<1> SUFFICES ASSUME Init PROVE IInv
  OBVIOUS
<1>1. /\ free_block_head = heap_start /\ DOMAIN fb = {heap_start}
      /\ fb[heap_start] = [size |-> heap_end - heap_start, next |-> 0]
      /\ fb \in [DOMAIN fb -> [size : Nat, next : Nat]]
      /\ DOMAIN hd = {} /\ DOMAIN live = {}
      /\ hd \in [DOMAIN hd -> [size : Nat, start_off : Nat]] /\ live \in [DOMAIN live -> Nat]
      /\ heap_start \in Nat \ {0} /\ heap_end \in Nat /\ heap_start + 8 <= heap_end
  BY HeapAssumption DEF Init, NULL, FreeSize
<1>2. free_end(heap_start) = heap_end
  BY <1>1 DEF free_end
<1>3. TypeOK
  BY <1>1 DEF Init, Idle, NULL, TypeOK
<1>4. BlocksHoldStruct /\ BlocksDisjoint /\ HeapCovered /\ Coalesced /\ LiveObjectsOwned
  BY <1>1, <1>2
  DEF BlocksHoldStruct, BlocksDisjoint, HeapCovered, Coalesced, LiveObjectsOwned, FreeSize
<1>5. FreeListSorted
  BY <1>1 DEF FreeListSorted, Follows, NULL
<1>6. CursorsInList
  BY DEF Init, CursorsInList, Idle
<1> QED BY <1>3, <1>4, <1>5, <1>6 DEF IInv

LEMMA ListUnchanged ==
  ASSUME IInv, UNCHANGED <<free_block_head, fb, hd, live>>,
         pc' \in {"idle", "memalloc", "memfree"},
         size' \in Sizes \cup {0}, align' \in Aligns \cup {0},
         ptr' \in Nat, prev' \in Nat, curr' \in Nat,
         CursorsInList'
  PROVE  IInv'
<1>1. \A a : free_end(a)' = free_end(a) /\ used_start(a)' = used_start(a)
                                        /\ used_end(a)' = used_end(a)
  BY DEF free_end, used_start, used_end
<1>2. TypeOK'
  BY DEF IInv, TypeOK
<1>3. BlocksHoldStruct' /\ FreeListSorted'
  BY DEF IInv, BlocksHoldStruct, FreeListSorted
<1>4. BlocksDisjoint'
  BY <1>1 DEF IInv, BlocksDisjoint, free_end, used_start, used_end
<1>5. HeapCovered' /\ Coalesced'
  BY DEF IInv, HeapCovered, Coalesced, free_end, used_start, used_end
<1>6. LiveObjectsOwned'
  BY DEF IInv, LiveObjectsOwned, used_end
<1> QED BY <1>2, <1>3, <1>4, <1>5, <1>6 DEF IInv

LEMMA DonePreserves ==
  ASSUME IInv, UNCHANGED <<free_block_head, fb, hd, live>>, Done
  PROVE  IInv'
<1>1. CursorsInList'
  BY DEF Done, CursorsInList, Idle
<1> QED BY <1>1, ListUnchanged DEF Done, NULL

LEMMA AdvancePreserves ==
  ASSUME IInv, Advance, curr # NULL, pc # "idle",
         pc = "memalloc" => ~Found,
         pc = "memfree" => curr < ptr
  PROVE  IInv'
<1>1. /\ prev = NULL \/ prev \in DOMAIN fb
      /\ Follows(DOMAIN fb, prev, curr) /\ curr \in DOMAIN fb
      /\ prev \in Nat /\ curr \in Nat \ {0}
  <2>1. Follows(DOMAIN fb, prev, curr) /\ (prev = NULL \/ prev \in DOMAIN fb)
    BY DEF IInv, CursorsInList
  <2> QED BY <2>1 DEF Follows, IInv, TypeOK, NULL
<1>2. /\ Follows(DOMAIN fb, curr, fb[curr].next) /\ fb[curr].next \in Nat
  BY <1>1, FreeBlockFacts DEF IInv, FreeListSorted
<1>3. /\ prev' = curr /\ curr' = fb[curr].next /\ DOMAIN fb' = DOMAIN fb
      /\ UNCHANGED <<free_block_head, fb, hd, live, pc, size, align, ptr>>
  BY DEF Advance
<1>4. \A b \in DOMAIN fb : b <= curr => b <= prev \/ b = curr
  <2>1. \A b \in DOMAIN fb : b <= prev \/ curr <= b
    BY <1>1 DEF Follows, NULL
  <2> QED BY <1>1, <2>1, FreeBlockFacts
<1>6. ValidRequest' <=> ValidRequest
  BY <1>3 DEF ValidRequest
<1>7. CursorsInList'
  <2>1. (pc # "idle" => /\ prev = NULL \/ prev \in DOMAIN fb
                        /\ Follows(DOMAIN fb, prev, curr))'
    BY <1>1, <1>2, <1>3
  <2>2. pc = "memalloc" /\ ValidRequest =>
          \A b \in DOMAIN fb : b <= curr => aligned_size(b, align) < size
    <3> SUFFICES ASSUME pc = "memalloc", ValidRequest, NEW b \in DOMAIN fb, b <= curr
                 PROVE  aligned_size(b, align) < size
      OBVIOUS
    <3>1. CASE b <= prev
      BY <3>1 DEF IInv, CursorsInList
    <3>2. CASE b = curr
      <4>1. aligned_size(curr, align) \in Int /\ size \in Int
        <5>1. align \in Nat \ {0} /\ size \in Nat
          BY RequestAssumption DEF ValidRequest, IInv, CursorsInList
        <5>2. fb[curr].size \in Int
          BY <1>1, FreeBlockFacts
        <5>3. aligned_mem_start(curr, align) \in Int
          BY <1>1, <5>1, HeapAssumption DEF aligned_mem_start, align_ptr, HeaderSize
        <5>4. Word \in Nat \ {0}
          BY HeapAssumption
        <5> QED BY <1>1, <5>1, <5>2, <5>3, <5>4 DEF aligned_size
      <4> QED BY <3>2, <4>1 DEF Found
    <3> QED BY <1>4, <3>1, <3>2
  <2>3. (pc = "memalloc" =>
           /\ size \in Sizes /\ align \in Aligns
           /\ ValidRequest =>
                \A b \in DOMAIN fb : b <= prev => aligned_size(b, align) < size)'
    BY <1>3, <1>6, <2>2 DEF IInv, CursorsInList, aligned_size
  <2>4. (pc = "memfree" => /\ ptr \in DOMAIN live \cup {NULL}
                           /\ prev # NULL => prev < ptr)'
    BY <1>3 DEF IInv, CursorsInList
  <2> QED BY <1>3, <2>1, <2>3, <2>4 DEF CursorsInList
<1> QED BY <1>1, <1>2, <1>3, <1>7, ListUnchanged DEF IInv, TypeOK

LEMMA CallPreserves ==
  ASSUME IInv,
         \/ \E s \in Sizes, a \in Aligns : CallMemalloc(s, a)
         \/ \E p \in DOMAIN live \cup {NULL} : CallMemfree(p)
  PROVE  IInv'
<1>1. /\ Idle /\ prev = 0 /\ Follows(DOMAIN fb, 0, free_block_head)
      /\ free_block_head \in Nat /\ 0 \notin DOMAIN fb /\ DOMAIN fb \subseteq Nat
  <2>1. pc = "idle"
    BY DEF CallMemalloc, CallMemfree
  <2> QED BY <2>1, HeapAssumption
      DEF IInv, CursorsInList, FreeListSorted, TypeOK, Idle, NULL
<1>2. ASSUME NEW s \in Sizes, NEW a \in Aligns, CallMemalloc(s, a)
      PROVE  IInv'
  <2>1. /\ pc' = "memalloc" /\ size' = s /\ align' = a /\ curr' = free_block_head
        /\ prev' = 0 /\ ptr' = 0
        /\ UNCHANGED <<free_block_head, fb, hd, live>>
    BY <1>1, <1>2 DEF CallMemalloc, Idle, NULL
  <2>2. \A b \in DOMAIN fb : ~(b <= 0)
    BY <1>1
  <2>3. CursorsInList'
    BY <1>1, <2>1, <2>2 DEF CursorsInList, NULL
  <2> QED BY <1>1, <2>1, <2>3, ListUnchanged
<1>3. ASSUME NEW p \in DOMAIN live \cup {NULL}, CallMemfree(p)
      PROVE  IInv'
  <2>1. /\ pc' = "memfree" /\ ptr' = p /\ curr' = free_block_head
        /\ prev' = 0 /\ size' = 0 /\ align' = 0
        /\ UNCHANGED <<free_block_head, fb, hd, live>>
    BY <1>1, <1>3 DEF CallMemfree, Idle
  <2>2. p \in Nat
    BY HeapAssumption DEF IInv, TypeOK, NULL
  <2>3. CursorsInList'
    BY <1>1, <1>3, <2>1 DEF CursorsInList, NULL
  <2> QED BY <1>1, <2>1, <2>2, <2>3, ListUnchanged
<1> QED BY <1>2, <1>3

LEMMA NextIInv == IInv /\ [Next]_vars => IInv'
<1> SUFFICES ASSUME IInv, [Next]_vars PROVE IInv'
  OBVIOUS
<1>1. CASE UNCHANGED vars
  <2>1. CursorsInList'
    BY <1>1 DEF vars, IInv, CursorsInList, Idle, ValidRequest, aligned_size
  <2> QED BY <1>1, <2>1, ListUnchanged DEF vars, IInv, TypeOK
<1>2. CASE \/ \E s \in Sizes, a \in Aligns : CallMemalloc(s, a)
           \/ \E p \in DOMAIN live \cup {NULL} : CallMemfree(p)
  BY <1>2, CallPreserves
<1>3. CASE MemallocInvalid \/ MemallocFail \/ MemfreeNull
  BY <1>3, DonePreserves DEF MemallocInvalid, MemallocFail, MemfreeNull
<1>4. CASE MemallocLoop
  BY <1>4, AdvancePreserves DEF MemallocLoop
<1>5. CASE MemfreeLoop
  BY <1>5, AdvancePreserves DEF MemfreeLoop
<1>6. CASE MemallocTake
  BY <1>6, TakePreserves
<1>7. CASE MemfreeInsert
  BY <1>7, FreePreserves
<1> QED BY <1>1, <1>2, <1>3, <1>4, <1>5, <1>6, <1>7 DEF Next, Step, Return

\* The invariant holds in every state of every run.
THEOREM Invariance == Spec => []IInv
<1>1. Init => IInv
  BY InitIInv
<1>2. IInv /\ [Next]_vars => IInv'
  BY NextIInv
<1> QED BY <1>1, <1>2, PTL DEF Spec

\* Type correctness: memalloc_aligned and memfree keep every field in range.
THEOREM TypeCorrect == Spec => []TypeOK
<1>1. IInv => TypeOK
  BY DEF IInv
<1> QED BY <1>1, Invariance, PTL

\* Blocks never overlap, no byte of the heap is lost and every object lies in a
\* block of its own, for heaps, sizes and
\* alignments of any extent.
THEOREM HeapPartitioned == Spec => []HeapPartition
<1>1. IInv => HeapPartition
  BY DEF IInv, HeapPartition
<1> QED BY <1>1, Invariance, PTL

\* The free list is complete, in ascending order and has no adjacent blocks.
THEOREM ListSound == Spec => []FreeListSound
<1>1. IInv => FreeListSound
  BY DEF IInv, FreeListSound
<1> QED BY <1>1, Invariance, PTL

-----------------------------------------------------------------------------
(* An empty heap is one block *)

LEMMA EmptyHeap == IInv => RestoredWhenEmpty
<1> SUFFICES ASSUME IInv, DOMAIN live = {}
             PROVE  /\ free_block_head = heap_start
                    /\ fb = [a \in {heap_start} |->
                               [size |-> heap_end - heap_start, next |-> NULL]]
  BY DEF RestoredWhenEmpty
<1>1. DOMAIN hd = {}
  BY DEF IInv, LiveObjectsOwned
<1>2. \A x \in heap_start .. heap_end - 1 :
        \E a \in DOMAIN fb : a <= x /\ x < free_end(a)
  BY <1>1 DEF IInv, HeapCovered
<1>3. heap_start \in DOMAIN fb
  <2>1. heap_start \in heap_start .. heap_end - 1
    BY HeapAssumption DEF FreeSize
  <2>2. PICK a \in DOMAIN fb : a <= heap_start /\ heap_start < free_end(a)
    BY <1>2, <2>1
  <2> QED BY <2>2, FreeBlockFacts, HeapAssumption
<1>4. free_end(heap_start) = heap_end
  <2> SUFFICES ASSUME free_end(heap_start) # heap_end PROVE FALSE
    OBVIOUS
  <2> DEFINE x == free_end(heap_start)
  <2>1. x \in heap_start .. heap_end - 1
    BY <1>3, FreeBlockFacts, HeapAssumption
  <2>2. PICK b \in DOMAIN fb : b <= x /\ x < free_end(b)
    BY <1>2, <2>1
  <2>3. b \in Nat /\ heap_start <= b
    BY FreeBlockFacts
  <2>4. heap_start < b
    BY <2>1, <2>2, <2>3, HeapAssumption
  <2>5. x <= b /\ x # b
    BY <1>3, <2>4 DEF IInv, BlocksDisjoint, Coalesced
  <2> QED BY <2>1, <2>2, <2>3, <2>5
<1>5. DOMAIN fb = {heap_start}
  <2> SUFFICES ASSUME NEW b \in DOMAIN fb, b # heap_start PROVE FALSE
    BY <1>3
  <2>1. b \in Nat /\ heap_start < b /\ b < free_end(b) /\ free_end(b) <= heap_end
        /\ free_end(b) \in Nat
    BY FreeBlockFacts, HeapAssumption
  <2>2. free_end(heap_start) <= b
    BY <1>3, <2>1 DEF IInv, BlocksDisjoint
  <2> QED BY <1>4, <2>1, <2>2, HeapAssumption
<1>6. fb[heap_start].next = 0
  <2>1. Follows(DOMAIN fb, heap_start, fb[heap_start].next)
    BY <1>3 DEF IInv, FreeListSorted
  <2> QED BY <1>5, <2>1, HeapAssumption DEF Follows, NULL
<1>7. free_block_head = heap_start
  <2>1. Follows(DOMAIN fb, 0, free_block_head)
    BY DEF IInv, FreeListSorted
  <2> QED BY <1>5, <2>1, HeapAssumption DEF Follows, NULL
<1>8. fb[heap_start] = [size |-> heap_end - heap_start, next |-> 0]
  <2>1. fb[heap_start].size = heap_end - heap_start
    BY <1>3, <1>4, FreeBlockFacts, HeapAssumption
  <2>2. fb[heap_start] \in [size : Nat, next : Nat]
    BY <1>3 DEF IInv, TypeOK
  <2> QED BY <1>6, <2>1, <2>2
<1>9. fb = [a \in DOMAIN fb |-> fb[a]]
  BY DEF IInv, TypeOK
<1> QED BY <1>5, <1>7, <1>8, <1>9 DEF NULL

\* Whatever calls were made, once everything is freed the heap is whole again.
THEOREM NoFragmentsLeft == Spec => []RestoredWhenEmpty
BY Invariance, EmptyHeap, PTL

\* The comment at mem.c:240: the front split off a block merges with neither
\* neighbour, and so never clears its own link.
THEOREM SplitAlone == Spec => SplitNeverMerges
<1>1. IInv /\ [Next]_vars =>
        [pc = "memalloc" /\ ValidRequest /\ Found /\ splits_before =>
           curr \in DOMAIN fb' /\ fb'[curr] = [size |-> free_before, next |-> replacement]]_vars
  <2> SUFFICES ASSUME IInv, [Next]_vars, ~UNCHANGED vars,
                      pc = "memalloc", ValidRequest, Found, splits_before
               PROVE  /\ curr \in DOMAIN fb'
                      /\ fb'[curr] = [size |-> free_before, next |-> replacement]
    OBVIOUS
  <2>1. aligned_mem_start(curr, align) # NULL /\ curr # NULL
    BY FoundFits, TakenBlock DEF NULL, HeaderSize
  <2>2. MemallocTake
    BY <2>1 DEF Next, Step, Return, CallMemalloc, CallMemfree, MemallocInvalid, MemallocLoop,
         MemallocFail, MemfreeNull, MemfreeLoop, MemfreeInsert, vars
  <2> QED BY <2>2, TakeEffect
<1> QED BY <1>1, Invariance, PTL DEF Spec, SplitNeverMerges

-----------------------------------------------------------------------------
(* A call comes to its end                                                 *)

\* What CallsReturn rests on: bytes of the heap the walk has ahead of it, and
\* FreeSize for the last step of the call.
WalkLeft ==
  IF pc = "idle" THEN 0
  ELSE FreeSize + (IF curr = NULL THEN 0 ELSE heap_end - curr)

\* Every turn of the loop leaves a whole struct free_block behind.
LEMMA TurnShortens ==
  ASSUME IInv, Advance, pc # "idle", curr # NULL
  PROVE  WalkLeft \in Nat /\ WalkLeft' \in Nat /\ WalkLeft' + FreeSize <= WalkLeft
<1>1. curr \in DOMAIN fb /\ Follows(DOMAIN fb, curr, fb[curr].next)
  BY DEF IInv, CursorsInList, FreeListSorted, Follows
<1>2. /\ curr \in Nat \ {0} /\ fb[curr].size \in Nat /\ fb[curr].size >= FreeSize
      /\ curr + fb[curr].size <= heap_end /\ heap_end \in Nat
  BY <1>1, FreeBlockFacts, HeapAssumption DEF IInv, BlocksHoldStruct, BlocksDisjoint, free_end
<1>3. pc' = pc /\ curr' = fb[curr].next
  BY DEF Advance
<1>4. CASE curr' = NULL
  BY <1>2, <1>3, <1>4 DEF WalkLeft, FreeSize
<1>5. CASE curr' # NULL
  <2>1. curr' \in DOMAIN fb /\ curr < curr'
    BY <1>1, <1>3, <1>5 DEF Follows
  <2>2. curr' \in Nat /\ curr + fb[curr].size <= curr' /\ curr' <= heap_end
    BY <1>1, <2>1, FreeBlockFacts, HeapAssumption DEF IInv, TypeOK, BlocksDisjoint, free_end
  <2> QED BY <1>2, <1>3, <1>5, <2>2 DEF WalkLeft, FreeSize
<1> QED BY <1>4, <1>5

\* Every step of a call but its last takes the walk at least the size of a
\* struct free_block nearer to the end of the heap, the last one ends the call:
\* no call takes more turns than the heap has room for such structs.
THEOREM CallsWindDown ==
  Spec => [][pc # "idle" => /\ WalkLeft \in Nat /\ WalkLeft' \in Nat
                            /\ WalkLeft' + FreeSize <= WalkLeft]_vars
<1>1. ASSUME IInv, [Next]_vars, ~UNCHANGED vars, pc # "idle"
      PROVE  WalkLeft \in Nat /\ WalkLeft' \in Nat /\ WalkLeft' + FreeSize <= WalkLeft
  <2>1. CASE MemallocLoop \/ MemfreeLoop
    BY <1>1, <2>1, TurnShortens DEF MemallocLoop, MemfreeLoop
  <2>2. CASE Return
    <3>1. WalkLeft' = 0
      BY <2>2 DEF Return, MemallocInvalid, MemallocFail, MemallocTake, MemfreeNull, MemfreeInsert,
                  Done, WalkLeft
    <3>2. curr \in Nat /\ heap_end \in Nat /\ (curr # NULL => curr <= heap_end)
      BY <1>1, HeapAssumption DEF IInv, TypeOK, CursorsInList, Follows
    <3> QED BY <1>1, <3>1, <3>2 DEF WalkLeft, FreeSize
  <2> QED BY <1>1, <2>1, <2>2 DEF Next, Step, CallMemalloc, CallMemfree
<1> QED BY <1>1, Invariance, PTL DEF Spec

-----------------------------------------------------------------------------
(* The allocator implements MemSpec *)

\* align_ptr picks the first multiple: no multiple of a at or above p is below.
LEMMA AlignPtrLeast ==
  ASSUME NEW a \in Nat \ {0}, NEW p \in Nat, NEW x \in Nat,
         Word % a = 0, p <= x, x < Word, x % a = 0
  PROVE  p + (a - 1) < Word /\ align_ptr(p, a) <= x
<1>1. Word \in Nat \ {0}
  BY HeapAssumption
<1>2. PICK i \in Int : Word = a * i
  BY <1>1, DivMod
<1>3. PICK j \in Int : x = a * j
  BY DivMod
<1>4. j + 1 <= i
  BY <1>1, <1>2, <1>3
<1>5. a * (j + 1) <= a * i
  BY <1>4
<1>6. x + a <= Word
  BY <1>2, <1>3, <1>5
<1>7. p + (a - 1) < Word
  BY <1>1, <1>6
<1> DEFINE m == align_ptr(p, a)
<1>8. m \in p .. p + a - 1 /\ m % a = 0
  BY <1>7, AlignPtr
<1>9. PICK k \in Int : m = a * k
  <2>1. m \in Nat
    BY <1>8
  <2> QED BY <1>8, <2>1, DivMod
<1>10. m <= x
  <2> SUFFICES ASSUME m > x PROVE FALSE
    BY <1>8
  <2>1. m < x + a
    BY <1>8
  <2> HIDE DEF m
  <2>2. k >= j + 1
    BY <1>3, <1>8, <1>9
  <2>3. a * k >= a * (j + 1)
    BY <2>2
  <2> QED BY <1>3, <1>9, <2>1, <2>3, <1>8
<1> QED BY <1>7, <1>10

\* A search that reaches the end of the list has no roomy place left.
LEMMA RefusalJustified ==
  ASSUME IInv, pc = "memalloc", ValidRequest, curr = NULL,
         NEW p \in heap_start .. heap_end - 1, p % align = 0
  PROVE  ~Promise!Fits(p, size, Promise!Margin)
<1> SUFFICES ASSUME heap_start <= p - 8, p + size <= heap_end,
                    \A q \in DOMAIN live : q + live[q] + 15 <= p \/ p + size + 15 <= q
             PROVE  FALSE
  BY DEF Promise!Fits, Promise!Margin
<1>1. /\ size \in Nat \ {0} /\ align \in Nat \ {0} /\ Word % align = 0
      /\ \A b \in DOMAIN fb : b <= prev => aligned_size(b, align) < size
      /\ Follows(DOMAIN fb, prev, curr)
  BY RequestAssumption DEF IInv, CursorsInList, ValidRequest
<1>2. \A b \in DOMAIN fb : aligned_size(b, align) < size
  BY <1>1 DEF Follows
<1>3. p \in Nat
  BY HeapAssumption
<1>4. ASSUME NEW g \in DOMAIN hd
      PROVE  used_end(g) <= p - 8 \/ p + size <= used_start(g)
  <2>1. /\ g \in Nat /\ g + 8 \in DOMAIN live /\ used_end(g) \in Nat
        /\ used_start(g) = g - hd[g].start_off /\ hd[g].start_off \in Nat
    BY UsedBlockFacts DEF used_start
  <2> DEFINE o == g + 8
  <2>2. o - 8 = g /\ live[o] \in Nat
    BY <2>1 DEF IInv, TypeOK
  <2>3. used_end(g) < o + live[o] + 8 /\ hd[g].start_off < 8
    BY <2>1, <2>2 DEF IInv, LiveObjectsOwned, HeaderSize, FreeSize
  <2>4. o + live[o] + 15 <= p \/ p + size + 15 <= o
    BY <2>1
  <2> QED BY <1>1, <1>3, <2>1, <2>2, <2>3, <2>4
<1>5. \A x \in p - 8 .. p + size - 1 : \E b \in DOMAIN fb : b <= x /\ x < free_end(b)
  <2> TAKE x \in p - 8 .. p + size - 1
  <2>1. x \in heap_start .. heap_end - 1
    BY <1>1, <1>3, HeapAssumption
  <2>2. ASSUME NEW g \in DOMAIN hd PROVE ~(used_start(g) <= x /\ x < used_end(g))
    BY <1>1, <1>3, <1>4, UsedBlockFacts
  <2> QED BY <2>1, <2>2 DEF IInv, HeapCovered
<1>6. PICK b \in DOMAIN fb : b <= p - 8 /\ p - 8 < free_end(b)
  BY <1>1, <1>3, <1>5
<1>7. b \in Nat /\ fb[b].size \in Nat /\ free_end(b) \in Nat /\ free_end(b) = b + fb[b].size
      /\ free_end(b) <= heap_end
  BY FreeBlockFacts
<1>8. p + size <= free_end(b)
  <2> SUFFICES ASSUME free_end(b) < p + size PROVE FALSE
    BY <1>1, <1>3, <1>7
  <2>1. free_end(b) \in p - 8 .. p + size - 1
    BY <1>1, <1>3, <1>6, <1>7
  <2>2. PICK c \in DOMAIN fb : c <= free_end(b) /\ free_end(b) < free_end(c)
    BY <1>5, <2>1
  <2>3. c \in Nat /\ free_end(c) \in Nat /\ c # free_end(b)
    BY FreeBlockFacts DEF IInv, Coalesced
  <2>4. CASE c < b
    BY <2>4, <2>2, <1>7, <2>3, FreeBlockFacts DEF IInv, BlocksDisjoint
  <2>5. CASE b < c
    BY <2>5, <2>2, <1>7, <2>3 DEF IInv, BlocksDisjoint
  <2> QED BY <1>7, <2>2, <2>3, <2>4, <2>5
<1> DEFINE m == aligned_mem_start(b, align)
<1>9. m \in b + 8 .. p
  <2>1. b + 8 + (align - 1) < Word /\ align_ptr(b + 8, align) <= p
    BY <1>1, <1>3, <1>6, <1>7, AlignPtrLeast, HeapAssumption
  <2>2. align_ptr(b + 8, align) \in b + 8 .. b + 8 + align - 1
    BY <1>1, <1>7, <2>1, AlignPtr
  <2> QED BY <1>1, <1>3, <1>7, <2>1, <2>2 DEF aligned_mem_start, HeaderSize
<1>10. (m - b) % Word = m - b
  BY <1>3, <1>7, <1>9, HeapAssumption
<1>11. aligned_size(b, align) = fb[b].size - (m - b)
  BY <1>1, <1>3, <1>7, <1>8, <1>9, <1>10 DEF aligned_size
<1> QED BY <1>1, <1>2, <1>3, <1>7, <1>8, <1>9, <1>11

\* The object taken is aligned, inside the heap and clear of every other one.
LEMMA AllocationCorrect ==
  ASSUME IInv, MemallocTake
  PROVE  \E p \in heap_start .. heap_end - 1 : Promise!Allocate(p)
<1> DEFINE m == aligned_mem_start(curr, align)
<1>1. /\ pc = "memalloc" /\ ValidRequest
      /\ curr \in DOMAIN fb /\ m \in Nat /\ curr + 8 <= m /\ m + size <= free_end(curr)
      /\ m % align = 0 /\ size \in Nat \ {0}
  BY FoundFits, TakenBlock DEF MemallocTake, HeaderSize
<1>2. curr \in Nat /\ heap_start <= curr /\ free_end(curr) <= heap_end /\ free_end(curr) \in Nat
  BY <1>1, FreeBlockFacts
<1>3. m \in heap_start .. heap_end - 1
  BY <1>1, <1>2, HeapAssumption
<1>4. ASSUME NEW q \in DOMAIN live
      PROVE  q + live[q] <= m \/ m + size <= q
  <2>1. q \in Nat /\ live[q] \in Nat /\ q - 8 \in DOMAIN hd
    BY HeapAssumption DEF IInv, TypeOK, LiveObjectsOwned, HeaderSize
  <2>2. q + live[q] <= used_end(q - 8)
    BY DEF IInv, LiveObjectsOwned, HeaderSize
  <2>3. free_end(curr) <= used_start(q - 8) \/ used_end(q - 8) <= curr
    BY <1>1, <2>1 DEF IInv, BlocksDisjoint
  <2>4. used_start(q - 8) <= q - 8 /\ used_start(q - 8) \in Nat /\ used_end(q - 8) \in Nat
    BY <2>1, UsedBlockFacts
  <2> QED BY <1>1, <1>2, <2>1, <2>2, <2>3, <2>4
<1>5. Promise!Fits(m, size, 0)
  BY <1>1, <1>2, <1>4, HeapAssumption DEF Promise!Fits, IInv, TypeOK
<1>6. live' = [q \in DOMAIN live \cup {m} |-> IF q = m THEN size ELSE live[q]]
  BY DEF MemallocTake, Put
<1>7. Promise!Done
  BY DEF MemallocTake, Done, Promise!Done, NULL, Promise!NULL
<1>8. Promise!Allocate(m)
  BY <1>1, <1>5, <1>6, <1>7 DEF Promise!Allocate, ValidRequest
<1> QED BY <1>3, <1>8

\* The free list implements the promise of MemSpec: objects never overlap, and
\* NULL is answered only when no place with 15 bytes to spare exists.
THEOREM Implementation == Spec => ImplementsMemSpec
<1>1. Init => Promise!Init
  BY DEF Init, Idle, Promise!Init, Promise!Idle, NULL, Promise!NULL
<1>2. IInv /\ [Next]_vars => [Promise!Next]_Promise!vars
  <2> SUFFICES ASSUME IInv, [Next]_vars
               PROVE  Promise!Next \/ UNCHANGED Promise!vars
    OBVIOUS
  <2>1. CASE UNCHANGED vars
    BY <2>1 DEF vars, Promise!vars
  <2>2. ASSUME NEW s \in Sizes, NEW a \in Aligns, CallMemalloc(s, a)
        PROVE  Promise!Next
    BY <2>2 DEF CallMemalloc, Promise!CallMemalloc, Promise!Next
  <2>3. ASSUME NEW p \in DOMAIN live \cup {NULL}, CallMemfree(p)
        PROVE  Promise!Next
    BY <2>3 DEF CallMemfree, Promise!CallMemfree, Promise!Next, NULL, Promise!NULL
  <2>4. CASE MemallocInvalid
    BY <2>4 DEF MemallocInvalid, ValidRequest, Done, Promise!Refuse, Promise!Done, Promise!Next,
         NULL, Promise!NULL
  <2>5. CASE MemallocLoop
    BY <2>5 DEF MemallocLoop, Advance, Promise!vars
  <2>6. CASE MemallocFail
    <3>1. curr = NULL
      BY <2>6, FoundFits, FreeBlockFacts DEF MemallocFail, HeaderSize, NULL
    <3>2. \A p \in heap_start .. heap_end - 1 :
            p % align = 0 => ~Promise!Fits(p, size, Promise!Margin)
      BY <2>6, <3>1, RefusalJustified DEF MemallocFail
    <3> QED BY <2>6, <3>2 DEF MemallocFail, Done, Promise!Refuse, Promise!Done, Promise!Next,
             NULL, Promise!NULL
  <2>7. CASE MemallocTake
    BY <2>7, AllocationCorrect DEF Promise!Next
  <2>8. CASE MemfreeNull
    <3>1. live' = live /\ ptr = 0 /\ pc = "memfree" /\ Promise!Done
      BY <2>8 DEF MemfreeNull, Done, Promise!Done, NULL, Promise!NULL
    <3>2. 0 \notin DOMAIN live /\ live = [q \in DOMAIN live |-> live[q]]
      BY HeapAssumption DEF IInv, TypeOK
    <3>3. live' = [q \in DOMAIN live \ {ptr} |-> live[q]]
      BY <3>1, <3>2
    <3> QED BY <3>1, <3>3 DEF Promise!Release, Promise!Next
  <2>9. CASE MemfreeLoop
    BY <2>9 DEF MemfreeLoop, Advance, Promise!vars
  <2>10. CASE MemfreeInsert
    BY <2>10 DEF MemfreeInsert, Drop, Done, Promise!Release, Promise!Done, Promise!Next, NULL,
         Promise!NULL
  <2> QED
    BY <2>1, <2>2, <2>3, <2>4, <2>5, <2>6, <2>7, <2>8, <2>9, <2>10 DEF Next, Step, Return
<1> QED BY <1>1, <1>2, Invariance, PTL DEF Spec, ImplementsMemSpec, Promise!Spec
=============================================================================
