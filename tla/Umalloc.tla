------------------------------- MODULE Umalloc --------------------------------
(* The heap of a user program: malloc and free of umalloc.c, without morecore's *)
(* call of sbrk. Blocks, free or not, begin with a header; the free ones are a  *)
(* ring in the order of their addresses, from base, which is below them all.    *)
EXTENDS Integers, FiniteSets

CONSTANTS
  HeapEnd,   \* addresses are below it
  HEADER,    \* sizeof(Header)
  MORECORE   \* headers that morecore asks for at least

Addresses == 0 .. HeapEnd - 1
Base      == 0

\* freep, base and the headers in memory; used and arena are the program's own
\* books: the blocks it has been given, and the bytes sbrk has.
NoHeap == [up |-> FALSE, freep |-> Base, ptr |-> [a \in Addresses |-> Base],
           size |-> [a \in Addresses |-> 0], used |-> {}, arena |-> 0]

TypeOK(h) ==
  /\ h.up \in BOOLEAN /\ h.freep \in Addresses /\ h.arena \in 0 .. HeapEnd
  /\ h.ptr \in [Addresses -> Addresses] /\ h.size \in [Addresses -> 0 .. HeapEnd]
  /\ h.used \subseteq Addresses

End(h, p) == p + h.size[p] * HEADER

\* The free block after which bp belongs, from p on.
RECURSIVE Spot(_, _, _)
Spot(h, p, bp) ==
  LET n == h.ptr[p] IN
  IF (bp > p /\ bp < n) \/ (p >= n /\ (bp > p \/ bp < n)) THEN p ELSE Spot(h, n, bp)

\* mutant: no block is joined with the one below
Free_JoinsUp(h, bp) ==
  LET p == Spot(h, h.freep, bp)
      n == h.ptr[p]
      g == IF End(h, bp) = n THEN [h EXCEPT !.size[bp] = @ + h.size[n], !.ptr[bp] = h.ptr[n]]
                             ELSE [h EXCEPT !.ptr[bp] = n]
  IN [g EXCEPT !.ptr[p] = bp, !.freep = p, !.used = @ \ {bp}]

\* free: bp goes into the ring, joined with the block above and the one below.
Free(h, bp) ==
  LET p == Spot(h, h.freep, bp)
      n == h.ptr[p]
      g == IF End(h, bp) = n THEN [h EXCEPT !.size[bp] = @ + h.size[n], !.ptr[bp] = h.ptr[n]]
                             ELSE [h EXCEPT !.ptr[bp] = n]
      k == IF End(g, p) = bp THEN [g EXCEPT !.size[p] = @ + g.size[bp], !.ptr[p] = g.ptr[bp]]
                             ELSE [g EXCEPT !.ptr[p] = bp]
  IN [k EXCEPT !.freep = p, !.used = @ \ {bp}]

\* What malloc asks for, in headers, and what morecore then asks sbrk for.
Units(nbytes) == (nbytes + HEADER - 1) \div HEADER + 1
More(nunits)  == IF nunits < MORECORE THEN MORECORE ELSE nunits

\* The first call makes the ring of base alone.
Started(h) == [h EXCEPT !.up = TRUE]

\* The free block before the first that is large enough, from the one after freep
\* on; there is none when the search is back at freep.
RECURSIVE Fit(_, _, _)
Fit(h, prev, nunits) ==
  LET p == h.ptr[prev] IN
  IF h.size[p] >= nunits THEN {prev} ELSE IF p = h.freep THEN {} ELSE Fit(h, p, nunits)

Fits(h, nunits) == Fit(h, h.freep, nunits) # {}

\* A block is taken whole, or its tail is.
Take(h, nunits) ==
  LET prev == CHOOSE q \in Fit(h, h.freep, nunits) : TRUE
      p == h.ptr[prev]
      tail == End(h, p) - nunits * HEADER
  IN IF h.size[p] = nunits
     THEN [h EXCEPT !.ptr[prev] = h.ptr[p], !.freep = prev, !.used = @ \cup {p}]
     ELSE [h EXCEPT !.size = [@ EXCEPT ![p] = @ - nunits, ![tail] = nunits],
                    !.freep = prev, !.used = @ \cup {tail}]

\* morecore, given memory at address p.
Morecore(h, p, nunits) ==
  Free([h EXCEPT !.size[p] = nunits, !.arena = @ + nunits * HEADER], p)

-----------------------------------------------------------------------------

RECURSIVE RingFrom(_, _, _)
RingFrom(h, p, seen) == IF p \in seen THEN seen ELSE RingFrom(h, h.ptr[p], seen \cup {p})
Ring(h) == RingFrom(h, Base, {})

\* The free list is one ring through base in the order of the addresses; the blocks
\* in it and those the program has are apart, within the size of the process, and
\* together all that sbrk has given; no two free ones touch.
Sound(h, size) ==
  LET free == Ring(h) \ {Base}
      blocks == free \cup h.used
      bytes == UNION {b .. End(h, b) - 1 : b \in blocks}
  IN /\ h.freep \in Ring(h)
     /\ \A p \in Ring(h) : {q \in Ring(h) : p < q} # {} =>
          h.ptr[p] = CHOOSE q \in Ring(h) : p < q /\ \A r \in Ring(h) : p < r => q <= r
     /\ free \cap h.used = {}
     /\ \A b \in blocks : h.size[b] > 0 /\ End(h, b) <= size
     /\ \A b, c \in blocks : b < c => End(h, b) <= c
     /\ \A b, c \in free : End(h, b) # c
     /\ Cardinality(bytes) = h.arena
=============================================================================
