-------------------------------- MODULE Mem --------------------------------
(***************************************************************************)
(* The heap of mem/mem.c: a first fit allocator over an address ordered,   *)
(* singly linked list of free blocks that lives inside the heap itself.    *)
(* Addresses and sizes are bytes. A block is free (it starts with a struct *)
(* free_block) or used (a struct block_header sits right below the pointer *)
(* the caller holds, possibly start_off bytes above the block's start).    *)
(* Loop iterations are steps; the straight-line rest of each function is   *)
(* one step: no interrupt handler of the program calls the allocator.      *)
(***************************************************************************)
EXTENDS Integers

CONSTANTS
  heap_start, heap_end,  \* linker.ld: the heap is [heap_start, heap_end)
  Word,                  \* 2^32 on the machine: uint32_t and pointers wrap here
  Sizes, Aligns          \* the sizes and alignments callers ask for

NULL == 0
FreeSize == 8            \* sizeof(struct free_block)
HeaderSize == 8          \* sizeof(struct block_header)

ASSUME HeapAssumption ==
  /\ heap_start \in Nat \ {0} /\ heap_end \in Nat /\ Word \in Nat
  /\ heap_start + FreeSize <= heap_end /\ heap_end < Word /\ 16 <= Word

\* Alignments are powers of two, at most half of the address space.
ASSUME RequestAssumption ==
  /\ Sizes \subseteq Nat
  /\ \A a \in Aligns : a \in Nat /\ 2 * a <= Word
  /\ \A a \in Aligns \ {0} : Word % a = 0 /\ \E k \in 0 .. 30 : a = 2^k

VARIABLES
  free_block_head,  \* head of the free list
  fb,               \* the struct free_block at each free block's address
  hd,               \* the struct block_header at each header's address
  live,             \* the callers' objects: live[p] bytes at p
  pc,               \* "idle", or the function in progress
  size, align, ptr, \* its arguments
  prev, curr        \* its list cursors

vars == <<free_block_head, fb, hd, live, pc, size, align, ptr, prev, curr>>

\* Writes to the list: Put stores a struct at a, Drop forgets one that no
\* longer exists, Point is "prev->next = t", which is "free_block_head = t"
\* (HeadAfter) when there is no predecessor.
Put(f, a, v) == [x \in DOMAIN f \cup {a} |-> IF x = a THEN v ELSE f[x]]
Drop(f, a) == [x \in DOMAIN f \ {a} |-> f[x]]
Point(f, p, t) == IF p = NULL THEN f ELSE [f EXCEPT ![p].next = t]
HeadAfter(h, p, t) == IF p = NULL THEN t ELSE h

\* For a power of two, clearing the low bits is rounding down to a multiple.
align_ptr(p, a) ==
  LET x == (p + (a - 1)) % Word IN x - (x % a)

aligned_mem_start(b, a) == align_ptr(b + HeaderSize, a)

\* A slip: the subtraction without the test that guards it.
aligned_size_unguarded(b, a) ==
  (fb[b].size - (aligned_mem_start(b, a) - b)) % Word

\* Bytes left of the free block b behind its aligned start; the pointer
\* difference is an unsigned one.
aligned_size(b, a) ==
  LET gap == (aligned_mem_start(b, a) - b) % Word
  IN IF gap > fb[b].size THEN 0 ELSE fb[b].size - gap

can_merge(f, a, b) == a + f[a].size = b

\* A slip: a merge that only looks backwards.
coalesce_backwards(f, p, m, n) ==
  IF p # NULL /\ can_merge(f, p, m)
  THEN Put(Drop(f, m), p, [size |-> f[p].size + f[m].size, next |-> n])
  ELSE f

coalesce_blocks(f, p, m, n) ==
  LET merge_prev == p # NULL /\ can_merge(f, p, m)
      merge_next == n # NULL /\ can_merge(f, m, n)
  IN CASE merge_prev /\ merge_next ->
            Put(Drop(Drop(f, m), n), p,
                [size |-> f[p].size + f[m].size + f[n].size,
                 next |-> f[n].next])
       [] merge_prev /\ ~merge_next ->
            Put(Drop(f, m), p, [size |-> f[p].size + f[m].size, next |-> n])
       [] ~merge_prev /\ merge_next ->
            Put(Drop(f, n), m,
                [size |-> f[m].size + f[n].size, next |-> f[n].next])
       [] OTHER -> f

\* memalloc_aligned passes &curr->next as the third block, so a merge with it
\* would also clear the link it had just set.
coalesce_front(f, p, m) ==
  LET n == f[m].next
      c == coalesce_blocks(f, p, m, n)
  IN IF m \in DOMAIN c /\ n # NULL /\ n \notin DOMAIN c
     THEN [c EXCEPT ![m].next = NULL] ELSE c

-----------------------------------------------------------------------------
Idle ==
  pc = "idle" /\ size = 0 /\ align = 0 /\ ptr = NULL /\ prev = NULL /\ curr = NULL

\* The call returns.
Done ==
  /\ pc' = "idle" /\ size' = 0 /\ align' = 0
  /\ ptr' = NULL /\ prev' = NULL /\ curr' = NULL

\* init_memory
Init ==
  /\ free_block_head = heap_start
  /\ fb = [a \in {heap_start} |->
             [size |-> heap_end - heap_start, next |-> NULL]]
  /\ hd = [a \in {} |-> [size |-> 0, start_off |-> 0]]
  /\ live = [a \in {} |-> 0]
  /\ Idle

CallMemalloc(s, a) ==
  /\ pc = "idle"
  /\ pc' = "memalloc" /\ size' = s /\ align' = a
  /\ curr' = free_block_head
  /\ UNCHANGED <<free_block_head, fb, hd, live, ptr, prev>>

ValidRequest == size # 0 /\ align # 0

\* A slip: the header is paid for twice.
found_too_big == curr # NULL /\ aligned_size(curr, align) >= size + HeaderSize

\* The loop's test: curr is a block that takes the request.
Found == curr # NULL /\ aligned_size(curr, align) >= size

MemallocInvalid ==
  /\ pc = "memalloc" /\ ~ValidRequest
  /\ UNCHANGED <<free_block_head, fb, hd, live>>
  /\ Done

\* A slip: blocks with no room for data are skipped before the cursor moves.
AdvanceUnlessTiny ==
  /\ prev' = curr
  /\ curr' = IF fb[curr].size = FreeSize THEN curr ELSE fb[curr].next
  /\ UNCHANGED <<free_block_head, fb, hd, live, pc, size, align, ptr>>

Advance ==
  /\ prev' = curr /\ curr' = fb[curr].next
  /\ UNCHANGED <<free_block_head, fb, hd, live, pc, size, align, ptr>>

MemallocLoop ==
  /\ pc = "memalloc" /\ ValidRequest
  /\ curr # NULL /\ ~Found
  /\ Advance

MemallocFail ==
  /\ pc = "memalloc" /\ ValidRequest
  /\ curr # NULL => Found /\ aligned_mem_start(curr, align) = NULL
  /\ UNCHANGED <<free_block_head, fb, hd, live>>
  /\ Done

\* A slip: the bytes before the object, its header among them.
free_before_header == aligned_mem_start(curr, align) - curr

\* Bytes of the block found behind the object, and before its header.
free_after == fb[curr].size - (aligned_mem_start(curr, align) + size - curr)
free_before == aligned_mem_start(curr, align) - curr - HeaderSize

splits_after == free_after >= FreeSize
splits_before == free_before >= FreeSize

\* What takes curr's place in the list: the free block made of its end, or
\* its successor when that end is too short and is lost to the object.
new_free_blk == aligned_mem_start(curr, align) + size
replacement == IF splits_after THEN new_free_blk ELSE fb[curr].next

WithoutCurr ==
  Point(IF splits_after
        THEN Put(Drop(fb, curr), new_free_blk,
                 [size |-> free_after, next |-> fb[curr].next])
        ELSE Drop(fb, curr),
        prev, replacement)

\* curr stays in the list, cut down to the bytes before the header.
WithFront ==
  Point(Put(WithoutCurr, curr, [size |-> free_before, next |-> replacement]),
        prev, curr)

new_header ==
  [size |-> size + HeaderSize + (IF splits_after THEN 0 ELSE free_after),
   start_off |-> IF splits_before THEN 0 ELSE free_before]

MemallocTake ==
  /\ pc = "memalloc" /\ ValidRequest
  /\ Found /\ aligned_mem_start(curr, align) # NULL
  /\ fb' = IF splits_before
           THEN coalesce_front(WithFront, prev, curr) ELSE WithoutCurr
  /\ free_block_head' =
       HeadAfter(free_block_head, prev,
                 IF splits_before THEN curr ELSE replacement)
  /\ hd' = Put(hd, aligned_mem_start(curr, align) - HeaderSize, new_header)
  /\ live' = Put(live, aligned_mem_start(curr, align), size)
  /\ Done

\* mem.h: the pointer must be one that memalloc or memalloc_aligned returned.
CallMemfree(p) ==
  /\ pc = "idle"
  /\ pc' = "memfree" /\ ptr' = p
  /\ curr' = free_block_head
  /\ UNCHANGED <<free_block_head, fb, hd, live, size, align, prev>>

MemfreeNull ==
  /\ pc = "memfree" /\ ptr = NULL
  /\ UNCHANGED <<free_block_head, fb, hd, live>>
  /\ Done

MemfreeLoop ==
  /\ pc = "memfree" /\ ptr # NULL
  /\ curr # NULL /\ curr < ptr
  /\ Advance

\* A slip: the padding before the header is forgotten.
freed_at_header == ptr - HeaderSize

\* The freed block: it starts start_off bytes below its header.
freed_header == hd[ptr - HeaderSize]
freed_start == ptr - HeaderSize - freed_header.start_off
freed_size == freed_header.size + freed_header.start_off

WithFreed ==
  Point(Put(fb, freed_start, [size |-> freed_size, next |-> curr]),
        prev, freed_start)

MemfreeInsert ==
  /\ pc = "memfree" /\ ptr # NULL
  /\ curr # NULL => curr >= ptr
  /\ fb' = coalesce_blocks(WithFreed, prev, freed_start, curr)
  /\ free_block_head' = HeadAfter(free_block_head, prev, freed_start)
  /\ hd' = Drop(hd, ptr - HeaderSize)
  /\ live' = Drop(live, ptr)
  /\ Done

Return == MemallocInvalid \/ MemallocFail \/ MemallocTake \/ MemfreeNull \/ MemfreeInsert
Step == MemallocLoop \/ MemfreeLoop \/ Return

Next ==
  \/ \E s \in Sizes, a \in Aligns : CallMemalloc(s, a)
  \/ \E p \in DOMAIN live \cup {NULL} : CallMemfree(p)
  \/ Step

Spec == Init /\ [][Next]_vars

\* A call that has begun runs on: nothing blocks inside the allocator.
FairSpec == Spec /\ WF_vars(Step)

-----------------------------------------------------------------------------
(* Properties *)

\* The extent of a free block and of a used one (padding, header, payload).
free_end(a) == a + fb[a].size
used_start(h) == h - hd[h].start_off
used_end(h) == h + hd[h].size

\* Every variable has its type, and every struct lies inside the heap.
TypeOK ==
  /\ free_block_head \in Nat
  /\ DOMAIN fb \subseteq heap_start .. heap_end
  /\ fb \in [DOMAIN fb -> [size : Nat, next : Nat]]
  /\ DOMAIN hd \subseteq heap_start .. heap_end
  /\ hd \in [DOMAIN hd -> [size : Nat, start_off : Nat]]
  /\ DOMAIN live \subseteq heap_start .. heap_end
  /\ live \in [DOMAIN live -> Nat]
  /\ pc \in {"idle", "memalloc", "memfree"}
  /\ size \in Sizes \cup {0} /\ align \in Aligns \cup {0}
  /\ ptr \in Nat /\ prev \in Nat /\ curr \in Nat

\* Two blocks, free or used, never share a byte, and none leaves the heap:
\* whatever memalloc_aligned cuts off and memfree glues back together.
BlocksDisjoint ==
  /\ \A a \in DOMAIN fb :
       /\ heap_start <= a /\ free_end(a) <= heap_end
       /\ \A b \in DOMAIN fb : a < b => free_end(a) <= b
       /\ \A h \in DOMAIN hd : free_end(a) <= used_start(h) \/ used_end(h) <= a
  /\ \A g \in DOMAIN hd :
       /\ heap_start <= used_start(g) /\ used_end(g) <= heap_end
       /\ \A h \in DOMAIN hd : g < h => used_end(g) <= used_start(h)

\* No byte of the heap is ever lost (mem.c:192 "when it is free'd it will be
\* available again"): each belongs to a free block or to a used one.
HeapCovered ==
  \A m \in heap_start .. heap_end - 1 :
    \/ \E a \in DOMAIN fb : a <= m /\ m < free_end(a)
    \/ \E h \in DOMAIN hd : used_start(h) <= m /\ m < used_end(h)

\* t is the lowest address of S above p, or NULL if there is none.
Follows(S, p, t) ==
  /\ t = NULL => \A b \in S : b <= p
  /\ t # NULL => t \in S /\ p < t /\ \A b \in S : b <= p \/ t <= b

\* The list reaches every free block once, in ascending order: memfree looks
\* for the neighbours of a block by address and relies on it.
FreeListSorted ==
  /\ Follows(DOMAIN fb, 0, free_block_head)
  /\ \A a \in DOMAIN fb : Follows(DOMAIN fb, a, fb[a].next)

\* Two free blocks are never adjacent: memfree merged them, and a split never
\* makes such a pair.
Coalesced ==
  \A a, b \in DOMAIN fb : free_end(a) # b

\* Each object a caller holds lies behind its header within a used block of
\* its own, of which at most 7 bytes on either side are padding.
LiveObjectsOwned ==
  /\ DOMAIN hd = {p - HeaderSize : p \in DOMAIN live}
  /\ \A p \in DOMAIN live :
       LET h == p - HeaderSize
       IN /\ live[p] > 0 /\ p + live[p] <= used_end(h)
          /\ used_end(h) < p + live[p] + FreeSize
          /\ hd[h].start_off < FreeSize

\* Blocks and objects together: the heap is divided among free blocks, headers
\* and objects, with nothing shared and nothing lost.
HeapPartition == BlocksDisjoint /\ HeapCovered /\ LiveObjectsOwned

\* The free list is what memfree relies on when it looks for neighbours.
FreeListSound == FreeListSorted /\ Coalesced

\* When every object has been freed the heap is the one free block it was
\* after init_memory: no sequence of calls fragments it for good.
RestoredWhenEmpty ==
  pc = "idle" /\ DOMAIN live = {} =>
    /\ free_block_head = heap_start
    /\ fb = [a \in {heap_start} |-> [size |-> heap_end - heap_start, next |-> NULL]]

\* The comment at mem.c:240, "impossible to merge curr with curr->next": the
\* front split off a block merges with neither neighbour. (A merge would also
\* clear the link through the aliased third argument.)
SplitNeverMerges ==
  [][pc = "memalloc" /\ ValidRequest /\ Found /\ splits_before =>
       curr \in DOMAIN fb' /\ fb'[curr] = [size |-> free_before, next |-> replacement]]_vars

\* The allocator does what MemSpec promises. In particular it answers NULL
\* only when no place in the heap would leave 15 bytes around the object.
Promise == INSTANCE MemSpec
ImplementsMemSpec == Promise!Spec

\* Every call returns: no walk of the free list goes round in circles.
CallsReturn == pc # "idle" ~> pc = "idle"
=============================================================================
