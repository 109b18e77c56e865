-------------------------------- MODULE MCVm ---------------------------------
(* Instances of Vm and MemTests for TLC: files to exec, and sizes. *)
EXTENDS MemTests

Seg(vaddr, memsz, filesz, text) == [vaddr |-> vaddr, memsz |-> memsz, filesz |-> filesz, text |-> text, read |-> "all"]
File(segs) == [elf |-> TRUE, segs |-> segs, argsFit |-> TRUE]

\* A program of text and bss; one that is larger than the user's addresses, one
\* whose end wraps, one with a segment off a page boundary and one shorter in
\* memory than in the file; two that are cut off, in a segment and in the program
\* headers; a file that is no program; arguments that do not fit.
Program   == File(<<Seg(0, 6, 2, "text")>>)
TooLarge  == File(<<Seg(0, 4, 4, "text"), Seg(4, KERNBASE, 1, "data")>>)
Wraps     == File(<<Seg(0, 4, 4, "text"), Seg(4, UintRange - 2, 1, "data")>>)
Unaligned == File(<<Seg(0, 4, 4, "text"), Seg(6, 1, 1, "data")>>)
Short     == File(<<Seg(0, 1, 2, "text")>>)
CutOff    == File(<<Seg(0, 4, 4, "text"), [Seg(4, 4, 4, "data") EXCEPT !.read = "header"]>>)
NoHeader  == File(<<Seg(0, 4, 4, "text"), [Seg(4, 4, 4, "data") EXCEPT !.read = "none"]>>)
NoElf     == [Program EXCEPT !.elf = FALSE]
Crowded   == [Program EXCEPT !.argsFit = FALSE]

AllImages == {Program, TooLarge, Wraps, Unaligned, Short, CutOff, NoHeader, NoElf, Crowded}

\* Growth and shrinking off page boundaries; the largest size less itself, which
\* from any smaller size goes below 0.
AllSbrks == {13, -13, -30}

\* Which frame is in which place makes no difference to any step, so that states
\* that differ in that alone need not be told apart: a state is looked at as
\* what is in each place, and whether a frame is in other than one place and all is of its type. Of a
\* heap, headers that are no block's are left out.
Shape ==
  LET in(f) == IF f = None THEN "none" ELSE content[f]
      blocks(h) == (U!Ring(h) \cup h.used) IN
  <<mode, prog, failed, state, parent, sz, stale, lost, Cardinality({f \in Frames : free[f] > 0}),
    [p \in Procs |-> <<heap[p].up, heap[p].freep, heap[p].used, heap[p].arena,
                       {<<b, heap[p].size[b], heap[p].ptr[b]>> : b \in blocks(heap[p])}>>],
    [p \in Procs |-> <<kstack[p] # None, pgdir[p].dir # None, Len(pgdir[p].ktabs), pgdir[p].user,
                       [t \in Tables |-> pgdir[p].tab[t] # None],
                       [a \in UPages |-> in(pgdir[p].pte[a])]>>],
    FramesOwnedOnce, TypeOK, \A p \in Procs : U!TypeOK(heap[p])>>
=============================================================================
