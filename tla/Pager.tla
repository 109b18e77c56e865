------------------------------- MODULE Pager --------------------------------
(***************************************************************************)
(* Demand paging of one user process in Lab3: vm.c (allocuvm, deallocuvm   *)
(* and the pages they move to and from the process's swap file), the page  *)
(* fault of trap.c and the accounting of the timer (proc.c).               *)
(*                                                                         *)
(* An address is a page number.  The contents of a page are told apart by  *)
(* the page they belong to: a frame or a slot of the swap file holds "the  *)
(* data of page v".  The process's paging fields are one record, and every *)
(* C function that works on them is an operator from record to record.     *)
(***************************************************************************)
EXTENDS Integers, FiniteSets

CONSTANTS
  MaxPhys,     \* MAX_PSYC_PAGES: pages of a process in physical memory
  MaxTotal,    \* MAX_TOTAL_PAGES: entries of paging_meta_data
  Top,         \* BOUND: pages of the address space a process asks for
  MaxTime      \* BOUND: value of time_counter at which the timer stops counting

ASSUME PagerAssumption ==
  /\ MaxPhys \in Nat /\ MaxPhys > 1 /\ MaxTotal \in Nat /\ MaxTotal > MaxPhys
  /\ Top \in Nat \ {0} /\ MaxTime \in Nat

Pages   == 0 .. Top - 1
Entries == 1 .. MaxTotal        \* in the order every search takes
Nil     == 0                    \* the null page_in_mem pointer
Slots   == 0 .. MaxTotal - MaxPhys - 1      \* pages of the swap file
NoPage  == -1                   \* virtualAddr 0xFFFFFFFF, and an unwritten slot
NoSlot  == -1                   \* offset_in_file -1

VARIABLES
  m,         \* page table, frames, swap file and the paging fields of struct proc
  sz,        \* pages of the process
  op,        \* [name, cur, end, size]: the growproc under way, or name = "user"
  time,      \* time_counter
  panic      \* the panic that has stopped the machine, or "none"

vars == <<m, sz, op, time, panic>>

-----------------------------------------------------------------------------
(* The list of pages in physical memory: head, next and prev.              *)

\* w[k]: the entry k links after the head.
Walk(x) ==
  LET w[k \in 0 .. MaxTotal] ==
        IF k = 0 THEN x.head ELSE IF w[k - 1] = Nil THEN Nil ELSE x.ent[w[k - 1]].next
  IN w

Listed(x) == {Walk(x)[k] : k \in 0 .. MaxTotal} \ {Nil}

Tail(x) == CHOOSE e \in Listed(x) : x.ent[e].next = Nil

Unlink_OneWay(x, e) ==               \* mutant: the next entry keeps its prev
  LET p == x.ent[e].prev
      n == x.ent[e].next
  IN IF p # Nil
       THEN [x EXCEPT !.ent[p].next = n, !.ent[e].prev = Nil, !.ent[e].next = Nil]
       ELSE [x EXCEPT !.head = n, !.ent[e].prev = Nil, !.ent[e].next = Nil]

\* updateListPointers: take entry e out of the list.
Unlink(x, e) ==
  LET p == x.ent[e].prev
      n == x.ent[e].next
      ent1 == IF p # Nil THEN [x.ent EXCEPT ![p].next = n] ELSE x.ent
      ent2 == IF n # Nil THEN [ent1 EXCEPT ![n].prev = p] ELSE ent1
  IN [x EXCEPT !.head = IF p = Nil THEN n ELSE @,
               !.ent = [ent2 EXCEPT ![e].prev = Nil, ![e].next = Nil]]

\* Link e behind the tail.
Append(x, e) ==
  [x EXCEPT !.ent = [@ EXCEPT ![Tail(x)].next = e, ![e].prev = Tail(x)]]

\* choosePageFromPhysMem: the first listed entry of least counter.
Victim(x) ==
  LET w == Walk(x)
      Live == {k \in 0 .. MaxTotal : w[k] # Nil}
      cnt(k) == x.ent[w[k]].cnt
  IN w[CHOOSE k \in Live : \A j \in Live : cnt(k) < cnt(j) \/ (cnt(k) = cnt(j) /\ k <= j)]

\* The entries for a virtual address, and the first of a set of entries.
EntriesOf(x, v) == {e \in Entries : x.ent[e].va = v}
First(S) == CHOOSE e \in S : \A f \in S : e <= f

-----------------------------------------------------------------------------
(* Moving pages.                                                           *)

\* The swap file: a page is read or written at the slot of its offset.
CreateSwapFile == [s \in Slots |-> NoPage]
ReadFromSwapFile(x, slot) == x.disk[slot]
WriteToSwapFile(x, page, slot) == [x EXCEPT !.disk[slot] = page]

\* writePageToFile.  offset_in_file is unsigned, so that "offset_in_file > -1" is
\* never true: the page always goes to the end, slot num_pages_in_file.
WritePageToFile(x, e) ==
  LET slot == x.file
  IN [WriteToSwapFile(x, x.frame[x.ent[e].va], slot) EXCEPT
        !.ent[e].off = slot,
        !.ent[e].st = 2,
        !.file = @ + 1]

\* mem2File: write the page, unlist it, mark it paged out, free the frame.
Mem2File(x, e) ==
  LET y == Unlink(WritePageToFile(x, e), e)
      v == y.ent[e].va
  IN [y EXCEPT !.pte[v] = "paged", !.frame[v] = NoPage, !.mem = @ - 1]

\* file2mem: map a frame, read the slot into it, list the page at the tail.
File2Mem(x, e) ==
  LET v == x.ent[e].va
      y == Append([x EXCEPT !.pte[v] = "present",
                            !.frame[v] = ReadFromSwapFile(x, x.ent[e].off),
                            !.mem = @ + 1,
                            !.file = @ - 1,
                            !.ent[e].off = NoSlot,
                            !.ent[e].st = 1], e)
  IN [y EXCEPT !.ent[e].next = Nil]

\* swapPages: the victim is chosen first, and given the offset of the page it makes
\* room for; then one page in, one page out.
SwapPages(x, e) ==
  LET out == Victim(x)
  IN Mem2File(File2Mem([x EXCEPT !.ent[out].off = x.ent[e].off], e), out)

\* addNewPageToPhysMem: an entry of that address, else the first free one; the
\* first entry of all when the list is empty.
NewEntry(x, v) ==
  IF x.head = Nil THEN 1
  ELSE IF EntriesOf(x, v) # {} THEN First(EntriesOf(x, v))
  ELSE First({e \in Entries : x.ent[e].st = 0})

AddNewPage(x, v) ==
  LET e == NewEntry(x, v)
      y == IF x.head = Nil THEN [x EXCEPT !.head = e] ELSE Append(x, e)
  IN [y EXCEPT !.ent[e] = [va |-> v, st |-> 1, off |-> NoSlot, cnt |-> 0,
                           next |-> Nil, prev |-> @.prev],
               !.mem = @ + 1]

DeletePage_Leaves(x, e) ==           \* mutant: no page of the file takes its place
  Unlink([x EXCEPT !.mem = @ - 1,
                   !.ent[e].va = NoPage, !.ent[e].st = 0, !.ent[e].off = NoSlot], e)

\* deletePage: the entry is reset, a page of the file takes its place, and only
\* then the entry leaves the list.
DeletePage(x, e) ==
  LET y == [x EXCEPT !.mem = IF @ > 0 THEN @ - 1 ELSE @,
                     !.ent[e].va = NoPage, !.ent[e].st = 0, !.ent[e].off = NoSlot]
      InFile == {f \in Entries : y.ent[f].st = 2}
      z == IF y.file > 0 /\ InFile # {} THEN File2Mem(y, First(InFile)) ELSE y
  IN Unlink(z, e)

-----------------------------------------------------------------------------
(* The process at its start.                                               *)

EmptyEntry == [va |-> NoPage, st |-> 0, off |-> NoSlot, cnt |-> 0, next |-> Nil, prev |-> Nil]

\* resetProcessPagesData, and n pages mapped.
Reset(n) ==
  [pte |-> [v \in Pages |-> IF v < n THEN "present" ELSE "none"],
   frame |-> [v \in Pages |-> IF v < n THEN v ELSE NoPage],
   disk |-> CreateSwapFile,
   ent |-> [e \in Entries |-> EmptyEntry],
   head |-> Nil, mem |-> 0, file |-> 0]

\* The same after exec has listed the pages one by one.
Listing(n) ==
  [Reset(n) EXCEPT
     !.ent = [e \in Entries |->
                IF e > n THEN EmptyEntry
                ELSE [va |-> e - 1, st |-> 1, off |-> NoSlot, cnt |-> 0,
                      next |-> IF e < n THEN e + 1 ELSE Nil, prev |-> e - 1]],
     !.head = 1, !.mem = n]

Idle == [name |-> "user", cur |-> 0, end |-> 0, size |-> 0]

\* A fork child, whose inherited pages, as many as its parent has, are on no list; or a
\* program just loaded by the first exec of such a child, small enough to need no
\* paging meanwhile.
Init ==
  /\ \E n \in 1 .. Top : /\ sz = n
                         /\ m = Reset(n) \/ (n <= MaxPhys /\ m = Listing(n))
  /\ op = Idle
  /\ time = 0
  /\ panic = "none"

-----------------------------------------------------------------------------
(* sbrk: growproc with allocuvm, page by page.                             *)

Up == panic = "none"

GrowCall ==
  /\ Up /\ op.name = "user"
  /\ \E n \in 1 .. Top - sz :
       op' = [name |-> "alloc", cur |-> sz, end |-> sz + n, size |-> sz + n]
  /\ UNCHANGED <<m, sz, time, panic>>

Allocating == Up /\ op.name = "alloc" /\ op.cur < op.end
Full == m.mem = MaxPhys
AtLimit == Full /\ m.file = MaxTotal - MaxPhys

\* "Maximum limit of pages per process reached": growproc fails, and the pages that
\* this call has already added stay.
AllocLimit ==
  /\ Allocating /\ AtLimit
  /\ op' = Idle
  /\ UNCHANGED <<m, sz, time, panic>>

MakeRoom == IF Full THEN Mem2File(m, Victim(m)) ELSE m

\* Room is made, a frame is mapped and its page listed.
AllocPage ==
  /\ Allocating /\ ~AtLimit
  /\ LET v == op.cur
     IN m' = AddNewPage([MakeRoom EXCEPT !.pte[v] = "present", !.frame[v] = v], v)
  /\ op' = [op EXCEPT !.cur = @ + 1]
  /\ UNCHANGED <<sz, time, panic>>

\* kalloc or mappages fails: deallocuvm undoes the pages of this call.
AllocNoMem ==
  /\ Allocating /\ ~AtLimit
  /\ m' = MakeRoom
  /\ op' = [name |-> "dealloc", cur |-> sz, end |-> op.end, size |-> sz]
  /\ UNCHANGED <<sz, time, panic>>

(* deallocuvm, page by page. *)

\* Not below one page: a process that frees the page it executes does not return.
ShrinkCall ==
  /\ Up /\ op.name = "user"
  /\ \E n \in 1 .. sz - 1 :
       op' = [name |-> "dealloc", cur |-> sz - n, end |-> sz, size |-> sz - n]
  /\ UNCHANGED <<m, sz, time, panic>>

Deallocating(v) == Up /\ op.name = "dealloc" /\ op.cur < op.end /\ v = op.cur
NextPage == op' = [op EXCEPT !.cur = @ + 1]

DeallocNone(v) ==
  /\ Deallocating(v) /\ m.pte[v] = "none"
  /\ NextPage
  /\ UNCHANGED <<m, sz, time, panic>>

DeallocPresent(v) ==
  /\ Deallocating(v) /\ m.pte[v] = "present"
  /\ LET x == [m EXCEPT !.pte[v] = "none", !.frame[v] = NoPage]
     IN m' = IF EntriesOf(x, v) = {} THEN x ELSE DeletePage(x, First(EntriesOf(x, v)))
  /\ NextPage
  /\ UNCHANGED <<sz, time, panic>>

DeallocPaged(v) ==
  /\ Deallocating(v) /\ m.pte[v] = "paged"
  /\ LET e == First(EntriesOf(m, v))
     IN m' = IF EntriesOf(m, v) = {} THEN [m EXCEPT !.pte[v] = "none"]
             ELSE [m EXCEPT !.pte[v] = "none", !.file = @ - 1,
                            !.ent[e] = [EmptyEntry EXCEPT !.next = m.ent[e].next,
                                                          !.prev = m.ent[e].prev]]
  /\ NextPage
  /\ UNCHANGED <<sz, time, panic>>

\* growproc sets sz and returns to the program.
Done ==
  /\ Up /\ op.name \in {"alloc", "dealloc"} /\ op.cur = op.end
  /\ sz' = op.size
  /\ op' = Idle
  /\ UNCHANGED <<m, time, panic>>

-----------------------------------------------------------------------------
(* Page faults, the timer, fork.                                           *)

\* T_PGFLT on a page marked PTE_PG.
Fault(v) ==
  /\ Up /\ op.name = "user"
  /\ m.pte[v] = "paged"
  /\ EntriesOf(m, v) # {}
  /\ m' = SwapPages(m, First(EntriesOf(m, v)))
  /\ UNCHANGED <<sz, op, time, panic>>

\* kalloc fails in file2mem, called by swapPages or by deletePage.
File2MemNoMem ==
  /\ Up
  /\ \/ op.name = "user" /\ \E v \in Pages : m.pte[v] = "paged"
     \/ op.name = "dealloc" /\ op.cur < op.end
          /\ m.pte[op.cur] = "present" /\ EntriesOf(m, op.cur) # {}
          /\ \E f \in Entries : m.ent[f].st = 2
  /\ panic' = "file2mem"
  /\ UNCHANGED <<m, sz, op, time>>

\* update_recently_accessed: every listed page gets the next value of time_counter,
\* in list order, whether it has been accessed or not.
Tick ==
  /\ Up
  /\ LET w == Walk(m)
         Counted == {k \in 0 .. MaxTotal :
                       w[k] # Nil /\ m.ent[w[k]].st = 1 /\ m.pte[m.ent[w[k]].va] # "none"}
         rank(k) == Cardinality({j \in Counted : j < k})
     IN /\ Counted # {}
        /\ time + Cardinality(Counted) <= MaxTime
        /\ m' = [m EXCEPT !.ent = [e \in Entries |->
                   IF \E k \in Counted : w[k] = e
                     THEN [@[e] EXCEPT !.cnt = time + rank(CHOOSE k \in Counted : w[k] = e)]
                     ELSE @[e]]]
        /\ time' = time + Cardinality(Counted)
  /\ UNCHANGED <<sz, op, panic>>

\* copyuvm copies the parent's pages below sz; the parent itself does not change.
Fork ==
  /\ Up /\ op.name = "user"
  /\ \E v \in Pages : v < sz /\ m.pte[v] # "present"
  /\ panic' = "copyuvm"
  /\ UNCHANGED <<m, sz, op, time>>

Next ==
  \/ GrowCall \/ AllocLimit \/ AllocPage \/ AllocNoMem
  \/ ShrinkCall \/ Done \/ File2MemNoMem \/ Tick \/ Fork
  \/ \E v \in Pages : DeallocNone(v) \/ DeallocPresent(v) \/ DeallocPaged(v) \/ Fault(v)

Spec == Init /\ [][Next]_vars

-----------------------------------------------------------------------------
(* Properties.                                                             *)

InState(k) == {e \in Entries : m.ent[e].st = k}

TypeOK ==
  /\ m.pte \in [Pages -> {"none", "present", "paged"}]
  /\ m.frame \in [Pages -> Pages \cup {NoPage}]
  /\ m.disk \in [Slots -> Pages \cup {NoPage}]
  /\ m.ent \in [Entries -> [va : Pages \cup {NoPage}, st : 0 .. 2, off : Slots \cup {NoSlot},
                            cnt : 0 .. MaxTime, next : Entries \cup {Nil}, prev : Entries \cup {Nil}]]
  /\ m.head \in Entries \cup {Nil} /\ m.mem \in Nat /\ m.file \in 0 .. Cardinality(Slots)
  /\ sz \in 1 .. Top /\ time \in 0 .. MaxTime
  /\ op \in [name : {"user", "alloc", "dealloc"}, cur : 0 .. Top, end : 0 .. Top, size : 0 .. Top]
  /\ panic \in {"none", "copyuvm", "file2mem"}

\* The doubly linked list of proc.h, threaded through the entries by every move of a
\* page, links exactly the entries in state 1: each link has its back link, entries
\* off the list are linked to nothing, and num_pages_in_main_mem is its length.
ListMatchesEntries ==
  /\ Listed(m) = InState(1)
  /\ m.mem = Cardinality(InState(1))
  /\ m.head # Nil => m.ent[m.head].prev = Nil
  /\ \A e, f \in Entries : m.ent[e].next = f <=> m.ent[f].prev = e
  /\ \A e \in Entries \ InState(1) : m.ent[e].next = Nil

\* The entries agree with the page table: an entry in state 1 is a mapped page, one
\* in state 2 is a page marked PTE_PG with an offset, every such page has an entry,
\* no two are for one page.  So the page chosen as victim is always mapped (the two
\* panics of writePageToFile), and a fault on PTE_PG finds its entry (swapPages).
EntriesMatchPages ==
  /\ \A e \in InState(1) : m.pte[m.ent[e].va] = "present"
  /\ \A e \in InState(2) : m.pte[m.ent[e].va] = "paged" /\ m.ent[e].off # NoSlot
  /\ \A v \in Pages : m.pte[v] = "paged" => \E e \in InState(2) : m.ent[e].va = v
  /\ \A e, f \in InState(1) \cup InState(2) : m.ent[e].va = m.ent[f].va => e = f

\* The three books of a process's pages, the list, the entries and the page table, say
\* the same after every move of a page between memory and file.
PagesAccounted == TypeOK /\ ListMatchesEntries /\ EntriesMatchPages

\* num_pages_in_main_mem never passes MAX_PSYC_PAGES and num_pages_in_file counts the
\* entries in the file, so that the two limits of allocuvm leave a free entry for every
\* page it adds (the unchecked search of addNewPageToPhysMem).  allocuvm that fails at
\* the limit leaves its pages mapped beyond sz; a later growth never comes to them
\* (the panic "remap" of mappages): it is at the limit again before.
WithinLimits ==
  /\ m.mem <= MaxPhys
  /\ m.file = Cardinality(InState(2))
  /\ Allocating /\ ~AtLimit => InState(0) # {} /\ m.pte[op.cur] = "none"

\* A process has pages in its file only while its memory is full, but for one page
\* that a failed allocation has made room for.  So the list is not empty when a page
\* comes back from the file, which file2mem and swapPages take for granted; and fork,
\* whose copyuvm takes every page below sz to be in memory (vm.c:412), stops the kernel
\* only for a process that has pages in its file.
FileOnlyWhenFull ==
  /\ InState(2) # {} => m.mem >= MaxPhys - 1
  /\ panic = "copyuvm" => InState(2) # {}

\* What the code takes for granted of the limits, and does not check where it uses it:
\* free entries where pages are added, a list that is not empty where a page leaves memory.
LimitsHold == WithinLimits /\ FileOnlyWhenFull

\* A page in memory holds its own data, however often it has been swapped: "if offset
\* is not 0, swap into the page's offset, else swap into the end of file" (vm.c:674).
\* Violated: a page swapped out may overwrite the slot of another.
PagesKeepData == \A v \in Pages : m.pte[v] = "present" => m.frame[v] = v
=============================================================================
