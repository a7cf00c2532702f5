------------------------------ MODULE MemSpec ------------------------------
(***************************************************************************)
(* What the allocator of mem/mem.c promises to its callers (mem/mem.h),    *)
(* with no free list and no headers: objects are handed out and taken      *)
(* back, objects never overlap and honour their alignment, and a request   *)
(* is refused only when the heap has no sufficiently roomy gap for it.     *)
(* Mem.tla is the allocator itself; MCMem checks that it implements this.  *)
(***************************************************************************)
EXTENDS Integers

CONSTANTS
  heap_start, heap_end,  \* linker.ld: the heap is [heap_start, heap_end)
  Sizes, Aligns          \* the sizes and alignments callers may ask for

VARIABLES
  live,                  \* live[p]: size of the object handed out at p
  pc, size, align, ptr   \* the call in progress and its arguments

vars == <<live, pc, size, align, ptr>>

NULL == 0

\* The most bytes the allocator may keep between two objects: padding too
\* short for a free block (at most 7 bytes) and the next object's header (8).
Margin == 15

\* An object of s bytes at p fits in the heap, behind its 8 byte header, and
\* keeps m bytes away from every other object.
Fits(p, s, m) ==
  /\ heap_start <= p - 8
  /\ p + s <= heap_end
  /\ \A q \in DOMAIN live : q + live[q] + m <= p \/ p + s + m <= q

Idle == pc = "idle" /\ size = 0 /\ align = 0 /\ ptr = NULL

Done == pc' = "idle" /\ size' = 0 /\ align' = 0 /\ ptr' = NULL

Init == live = [p \in {} |-> 0] /\ Idle

CallMemalloc(s, a) ==
  /\ pc = "idle"
  /\ pc' = "memalloc" /\ size' = s /\ align' = a
  /\ UNCHANGED <<live, ptr>>

CallMemfree(p) ==
  /\ pc = "idle"
  /\ pc' = "memfree" /\ ptr' = p
  /\ UNCHANGED <<live, size, align>>

Allocate(p) ==
  /\ pc = "memalloc" /\ size # 0 /\ align # 0
  /\ p % align = 0
  /\ Fits(p, size, 0)
  /\ live' = [q \in DOMAIN live \cup {p} |-> IF q = p THEN size ELSE live[q]]
  /\ Done

\* A request is refused when it is malformed or there is no roomy place.
Refuse ==
  /\ pc = "memalloc"
  /\ \/ size = 0
     \/ align = 0
     \/ \A p \in heap_start .. heap_end - 1 :
          p % align = 0 => ~Fits(p, size, Margin)
  /\ UNCHANGED live
  /\ Done

Release ==
  /\ pc = "memfree"
  /\ live' = [q \in DOMAIN live \ {ptr} |-> live[q]]
  /\ Done

Next ==
  \/ \E s \in Sizes, a \in Aligns : CallMemalloc(s, a)
  \/ \E p \in DOMAIN live \cup {NULL} : CallMemfree(p)
  \/ \E p \in heap_start .. heap_end - 1 : Allocate(p)
  \/ Refuse
  \/ Release

Spec == Init /\ [][Next]_vars
=============================================================================
