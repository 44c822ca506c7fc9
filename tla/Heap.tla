-------------------------------- MODULE Heap --------------------------------
(***************************************************************************)
(* The kernel heap of kernel/mem.c: a doubly linked list of headers laid   *)
(* out in the memory it manages, first fit, split on allocation, coalesced *)
(* on free.  kmalloc and kfree run with interrupts masked, so each is one  *)
(* step whatever task or interrupt calls it.                               *)
(*                                                                         *)
(* hdr maps the address of each header in the list to the header.  When    *)
(* coalesce absorbs a block its header becomes payload, so it leaves the   *)
(* domain.  A pointer is the address behind a header.                      *)
(***************************************************************************)
EXTENDS Integers, FiniteSets, FiniteSetsExt

CONSTANTS
    HeapSize,   \* heap_size, what usable_heap_size found at HEAP_BASE
    Hdr,        \* sizeof(block_t)
    MinRest,    \* the 16 bytes a split must leave at least
    Align,      \* 8
    Requests,   \* the sizes that are asked for
    NULL

ASSUME HeapAssumption ==
    /\ HeapSize \in Nat /\ Hdr \in Nat \ {0} /\ HeapSize > Hdr
    /\ MinRest \in Nat \ {0}
    /\ Align \in Nat \ {0}
    /\ Requests \subseteq Nat \ {0}
    /\ NULL \notin Int

VARIABLES
    hdr,        \* hdr[a]: the block_t at address a (relative to HEAP_BASE)
    heap_used,
    asked       \* history: the size asked for, for each pointer handed out

vars == <<hdr, heap_used, asked>>

heap_head == 0

\* kmalloc rounds a size up to the alignment.
Rounded(n) == ((n + Align - 1) \div Align) * Align
-----------------------------------------------------------------------------
Fits(a, size) == hdr[a].free /\ hdr[a].size >= size

\* split_block(a, size) gives the headers it makes of h.  This one leaves
\* the following block's prev as it was (ListOK).
split_block_NoBack(h, a, size) ==
    IF h[a].size < size + Hdr + MinRest THEN h
    ELSE LET rest == a + Hdr + size
             new == [size |-> h[a].size - size - Hdr, free |-> TRUE,
                     next |-> h[a].next, prev |-> a]
         IN  [x \in DOMAIN h \union {rest} |->
                IF x = rest THEN new
                ELSE IF x = a THEN [h[a] EXCEPT !.next = rest, !.size = size]
                ELSE h[x]]

\* Gives the block the size of the split, header included (Implements).
split_block_Overlap(h, a, size) ==
    IF h[a].size < size + Hdr + MinRest THEN h
    ELSE LET rest == a + size
             new == [size |-> h[a].size - size, free |-> TRUE,
                     next |-> h[a].next, prev |-> a]
         IN  [x \in DOMAIN h \union {rest} |->
                IF x = rest THEN new
                ELSE IF x = a THEN [h[a] EXCEPT !.next = rest, !.size = size]
                ELSE IF x = h[a].next THEN [h[x] EXCEPT !.prev = rest]
                ELSE h[x]]

split_block(h, a, size) ==
    IF h[a].size < size + Hdr + MinRest THEN h
    ELSE LET rest == a + Hdr + size
             new == [size |-> h[a].size - size - Hdr, free |-> TRUE,
                     next |-> h[a].next, prev |-> a]
         IN  [x \in DOMAIN h \union {rest} |->
                IF x = rest THEN new
                ELSE IF x = a THEN [h[a] EXCEPT !.next = rest, !.size = size]
                ELSE IF x = h[a].next THEN [h[x] EXCEPT !.prev = rest]
                ELSE h[x]]

\* The first fit.  The list is in address order, so it is the lowest.
kmalloc(n) ==
    LET size == Rounded(n)
        fit == {a \in DOMAIN hdr : Fits(a, size)}
    IN  /\ fit # {}
        /\ LET a == Min(fit)
               h == split_block(hdr, a, size)
           IN  /\ hdr' = [h EXCEPT ![a].free = FALSE]
               /\ heap_used' = heap_used + h[a].size + Hdr
               /\ asked' = [p \in DOMAIN asked \union {a + Hdr} |->
                              IF p = a + Hdr THEN n ELSE asked[p]]

\* Out of heap: NULL is returned.
kmalloc_fails(n) ==
    /\ \A a \in DOMAIN hdr : ~ Fits(a, Rounded(n))
    /\ UNCHANGED vars

\* The block behind a is absorbed by a.
Absorb(h, a) ==
    LET b == h[a].next
    IN  [x \in DOMAIN h \ {b} |->
           IF x = a THEN [h[a] EXCEPT !.size = h[a].size + h[b].size + Hdr,
                                      !.next = h[b].next]
           ELSE IF x = h[b].next THEN [h[x] EXCEPT !.prev = a]
           ELSE h[x]]

FreeAt(h, a) == a # NULL /\ h[a].free

\* Looks forward only (FullyCoalesced).
coalesce_Forward(h, a) == IF FreeAt(h, h[a].next) THEN Absorb(h, a) ELSE h

coalesce(h, a) ==
    LET h1 == IF FreeAt(h, h[a].next) THEN Absorb(h, a) ELSE h
    IN  IF FreeAt(h1, h1[a].prev) THEN Absorb(h1, h1[a].prev) ELSE h1

\* Counts only the payload (TypeOK).
kfree_Payload(p) ==
    LET a == p - Hdr IN
    /\ hdr' = coalesce([hdr EXCEPT ![a].free = TRUE], a)
    /\ heap_used' = heap_used - hdr[a].size
    /\ asked' = [q \in DOMAIN asked \ {p} |-> asked[q]]

\* kfree of a pointer that kmalloc returned and that has not been freed since:
\* the callers keep no other.
kfree(p) ==
    LET a == p - Hdr IN
    /\ hdr' = coalesce([hdr EXCEPT ![a].free = TRUE], a)
    /\ heap_used' = heap_used - (hdr[a].size + Hdr)
    /\ asked' = [q \in DOMAIN asked \ {p} |-> asked[q]]

\* mem_init.
Init ==
    /\ hdr = [a \in {heap_head} |-> [size |-> HeapSize - Hdr, free |-> TRUE,
                                     next |-> NULL, prev |-> NULL]]
    /\ heap_used = 0
    /\ asked = <<>>

Next ==
    \/ \E n \in Requests : kmalloc(n) \/ kmalloc_fails(n)
    \/ \E p \in DOMAIN asked : kfree(p)

Spec == Init /\ [][Next]_vars
-----------------------------------------------------------------------------
(* Properties.                                                             *)

End(a) == a + Hdr + hdr[a].size

TypeOK ==
    /\ DOMAIN hdr \subseteq 0 .. HeapSize
    /\ \A a \in DOMAIN hdr :
        hdr[a] \in [size : 0 .. HeapSize, free : BOOLEAN,
                    next : DOMAIN hdr \union {NULL}, prev : DOMAIN hdr \union {NULL}]
    /\ heap_used \in 0 .. HeapSize
    /\ DOMAIN asked \subseteq 0 .. HeapSize /\ \A p \in DOMAIN asked : asked[p] \in Requests

\* The headers tile the heap: each block ends where the next header begins,
\* the last one at the end of the heap, and prev undoes next.  kmalloc's walk
\* therefore sees every block and coalesce merges neighbours only
\* (mem.c:100-117, 154-168).  The counter behind `free` is the sum of the
\* blocks in use with their headers (mem.c:136, 183).
ListOK ==
    /\ heap_head \in DOMAIN hdr /\ hdr[heap_head].prev = NULL
    /\ \A a \in DOMAIN hdr :
        /\ hdr[a].next = NULL => End(a) = HeapSize
        /\ hdr[a].next # NULL => hdr[a].next = End(a) /\ hdr[End(a)].prev = a
        /\ a # heap_head => hdr[a].prev # NULL /\ hdr[hdr[a].prev].next = a
    /\ heap_used = MapThenSumSet(LAMBDA a : hdr[a].size + Hdr,
                                 {a \in DOMAIN hdr : ~ hdr[a].free})

\* After everything is freed the heap is one block again: the boot-time
\* allocations and any number of spawns, saves and edits leave no
\* fragmentation behind, whatever order they are freed in (mem.c:154-168).
FullyCoalesced == DOMAIN asked = {} => DOMAIN hdr = {heap_head}

\* The blocks in use, as their owners see them.
Live == {[at |-> a + Hdr, size |-> hdr[a].size, asked |-> asked[a + Hdr]] :
            a \in {x \in DOMAIN hdr : ~ hdr[x].free}}

Promise == INSTANCE Allocator WITH live <- Live

\* The list keeps what kmalloc and kfree promise: every block returned is
\* inside the heap, as long as asked for and overlaps no block still in use,
\* and a free gives back that block only.
Implements == Promise!Spec
=============================================================================
