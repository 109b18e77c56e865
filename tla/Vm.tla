--------------------------------- MODULE Vm ----------------------------------
(* Physical memory and address spaces of Lab1+Lab2: the list of free frames    *)
(* (kalloc.c), page tables and what is done with them (vm.c), and the calls    *)
(* that use them: fork, exec, sbrk, exit and wait, with kalloc failing         *)
(* wherever memory may run out.                                                *)
(*                                                                             *)
(* A call is one step. Page tables are their process's own; what two calls     *)
(* share is the list of frames, and all one call can see of another's kalloc   *)
(* and kfree is how many frames are left.                                      *)
EXTENDS Integers, Sequences, FiniteSets, SequencesExt

CONSTANTS
  NPROC,       \* process slots; the first is init's
  NFRAMES,     \* frames of physical memory
  PGSIZE,      \* bytes of a page
  NPTENTRIES,  \* pages under one page table
  KERNBASE,    \* first address that is not the user's
  KTABLES,     \* page tables for the kernel's own mappings
  UintRange,   \* 2^32
  Images,      \* files to exec
  Sbrks,       \* arguments of sbrk
  Texts,       \* what the files hold
  Stores       \* page addresses programs write to

Procs  == 1 .. NPROC
Frames == 1 .. NFRAMES
None   == 0
UPages == 0 .. KERNBASE \div PGSIZE - 1
PDX(a) == a \div NPTENTRIES
Tables == {PDX(a) : a \in UPages}
Up(n)  == (n + PGSIZE - 1) \div PGSIZE     \* PGROUNDUP, in pages
Uint(n) == n % UintRange

ASSUME SizesAssumption ==
  /\ {NPROC, NFRAMES, PGSIZE, NPTENTRIES, KERNBASE} \subseteq Nat \ {0}
  /\ KTABLES \in Nat /\ UintRange \in Nat
  /\ KERNBASE % PGSIZE = 0 /\ KERNBASE < UintRange

ASSUME InputsAssumption ==
  /\ Images \subseteq [elf : BOOLEAN, argsFit : BOOLEAN,
                       segs : Seq([vaddr : Nat, memsz : Nat, filesz : Nat, text : Texts,
                                   read : {"all", "header", "none"}])]
  /\ Sbrks \subseteq Int /\ Stores \subseteq UPages
  /\ "absent" \notin Texts

VARIABLES
  free,      \* kmem.freelist: frame -> how often it is on the list
  content,   \* frame -> what is in it
  state,     \* process -> "UNUSED", "RUNNABLE" or "ZOMBIE"
  parent,    \* process -> its parent
  kstack,    \* process -> the frame of its kernel stack
  pgdir,     \* process -> its page directory and what it leads to
  sz,        \* process -> its size in bytes
  stale,     \* process -> its processor may have translations its page table has not
  lost       \* a process has run on such; nothing after that is described

vars == <<free, content, state, parent, kstack, pgdir, sz, stale, lost>>

\* What a frame holds, as far as it is told apart.
Words == {"junk", "zero", "stack", "initcode", "stored", "args"} \cup Texts

\* A page directory: the frames of the directory and the page tables, and the
\* user's page table entries, with their PTE_U.
NoPgdir == [dir |-> None, ktabs |-> << >>, tab |-> [t \in Tables |-> None],
            pte |-> [a \in UPages |-> None], user |-> [a \in UPages |-> FALSE]]

-----------------------------------------------------------------------------
(* kalloc.c and vm.c work on the free list, the frames' contents and one page *)
(* directory; ok says that no kalloc has failed.                              *)

Memory(pd) == [free |-> free, content |-> content, pd |-> pd, ok |-> TRUE]
Failed(m) == [m EXCEPT !.ok = FALSE]

\* The order of the list is left out: kalloc takes the free frame of least number.
NoneFree(list) == \A f \in Frames : list[f] = 0
Top(list) == CHOOSE f \in Frames : list[f] > 0 /\ \A g \in 1 .. f - 1 : list[g] = 0

Kfree(m, f) == [m EXCEPT !.free[f] = @ + 1, !.content[f] = "junk"]

\* kfree of every frame that a table holds, as often as it holds it
Holding(table, f) == {i \in DOMAIN table : table[i] = f}
KfreeAll(m, table) ==
  [m EXCEPT !.free = [f \in Frames |-> m.free[f] + Cardinality(Holding(table, f))],
            !.content = [f \in Frames |-> IF Holding(table, f) = {} THEN m.content[f] ELSE "junk"]]

\* kalloc, and memset or memmove of the page
Kalloc(m, what) == [m EXCEPT !.free[Top(m.free)] = @ - 1, !.content[Top(m.free)] = what]

\* mappages of one page, with the page table walkpgdir may have to allocate
Walkpgdir(m, a) ==
  IF m.pd.tab[PDX(a)] # None THEN m
  ELSE IF NoneFree(m.free) THEN Failed(m)
  ELSE [Kalloc(m, "zero") EXCEPT !.pd.tab[PDX(a)] = Top(m.free)]
SetPte(m, a, f, user) == IF m.ok THEN [m EXCEPT !.pd.pte[a] = f, !.pd.user[a] = user] ELSE m
Mappages(m, a, f, user) == SetPte(Walkpgdir(m, a), a, f, user)

\* mutant: the page is not given back when there is no page table for it
AddPage_Leaks(m, a, what, user) ==
  IF ~m.ok THEN m
  ELSE IF NoneFree(m.free) THEN Failed(m)
  ELSE Mappages(Kalloc(m, what), a, Top(m.free), user)

GiveBack(m, f) == IF m.ok THEN m ELSE Kfree(m, f)

\* A page of memory at page address a: the loop bodies of allocuvm and copyuvm.
AddPage(m, a, what, user) ==
  IF ~m.ok THEN m
  ELSE IF NoneFree(m.free) THEN Failed(m)
  ELSE GiveBack(Mappages(Kalloc(m, what), a, Top(m.free), user), Top(m.free))

\* The pages from address a up to b: added, what is in each and its PTE_U given,
AddPages(m, a, b, what, user) ==
  LET upto[i \in a .. b] == IF i = a THEN m ELSE AddPage(upto[i - 1], i - 1, what[i - 1], user[i - 1])
  IN IF a < b THEN upto[b] ELSE m

\* and freed, those that are there.
FreePages(m, a, b) ==
  LET gone == a .. b - 1
      n == KfreeAll(m, [i \in gone |-> m.pd.pte[i]])
  IN [n EXCEPT !.pd.pte = [i \in UPages |-> IF i \in gone THEN None ELSE m.pd.pte[i]],
               !.pd.user = [i \in UPages |-> i \notin gone /\ m.pd.user[i]]]

\* mutant: the page the new size ends in goes too
Deallocuvm_RoundsDown(m, oldsz, newsz) == FreePages(m, newsz \div PGSIZE, Up(oldsz))

\* deallocuvm: the pages from newsz up to oldsz
Deallocuvm(m, oldsz, newsz) == FreePages(m, Up(newsz), Up(oldsz))

\* allocuvm; its result is the new size, and 0 when it fails
Grown(m, oldsz, newsz) ==
  IF m.ok THEN [m |-> m, size |-> newsz] ELSE [m |-> Deallocuvm(m, newsz, oldsz), size |-> 0]
Allocuvm(m, oldsz, newsz) ==
  IF newsz >= KERNBASE THEN [m |-> Failed(m), size |-> 0]
  ELSE IF newsz < oldsz THEN [m |-> m, size |-> oldsz]
  ELSE Grown(AddPages(m, Up(oldsz), Up(newsz), [a \in UPages |-> "zero"], [a \in UPages |-> TRUE]),
             oldsz, newsz)

\* freevm: the user's pages, the page tables and the directory
Freevm(m) ==
  LET n == KfreeAll(KfreeAll(Deallocuvm(m, KERNBASE, 0), m.pd.tab), m.pd.ktabs)
  IN [Kfree(n, m.pd.dir) EXCEPT !.pd = NoPgdir]
OrFreed(m) == IF m.ok THEN m ELSE Freevm(m)

\* setupkvm: the directory, and n page tables for the kernel's mappings
AddKtable(m) ==
  IF ~m.ok THEN m
  ELSE IF NoneFree(m.free) THEN Failed(m)
  ELSE [Kalloc(m, "zero") EXCEPT !.pd.ktabs = Append(@, Top(m.free))]
AddKtables(m, n) ==
  LET upto[k \in 0 .. n] == IF k = 0 THEN m ELSE AddKtable(upto[k - 1])
  IN upto[n]
Setupkvm(m) ==
  IF NoneFree(m.free) THEN Failed(m)
  ELSE OrFreed(AddKtables([Kalloc(m, "zero") EXCEPT !.pd = [NoPgdir EXCEPT !.dir = Top(m.free)]], KTABLES))

\* copyuvm: a new page directory, and a copy of every page below the size
CopyPages(m, old, b) == AddPages(m, 0, b, [a \in 0 .. b - 1 |-> m.content[old.pte[a]]], old.user)
CopyTo(m, old, size) == IF ~m.ok THEN m ELSE OrFreed(CopyPages(m, old, Up(size)))
Copyuvm(m, old, size) == CopyTo(Setupkvm(m), old, size)

-----------------------------------------------------------------------------
(* exec.c *)

\* loaduvm: the pages of a segment get the file's words.
Loaduvm(m, seg) ==
  LET loaded == {m.pd.pte[a] : a \in seg.vaddr \div PGSIZE .. Up(seg.vaddr + seg.filesz) - 1}
  IN [m EXCEPT !.content = [f \in Frames |-> IF f \in loaded THEN seg.text ELSE @[f]]]

\* One turn of exec's loop over the program headers, each of which may be missing or
\* its words be cut off; g is what allocuvm has given, and once x.m.ok fails it fails
\* for good.
Filled(x, seg, g) ==
  IF g.size = 0 \/ seg.vaddr % PGSIZE # 0 \/ seg.read = "header" THEN [x EXCEPT !.m = Failed(g.m)]
  ELSE [m |-> Loaduvm(g.m, seg), size |-> g.size]
LoadSegment(x, seg) ==
  IF ~x.m.ok THEN x
  ELSE IF \/ seg.read = "none" \/ seg.memsz < seg.filesz
          \/ Uint(seg.vaddr + seg.memsz) < seg.vaddr THEN [x EXCEPT !.m = Failed(@)]
  ELSE Filled(x, seg, Allocuvm(x.m, x.size, seg.vaddr + seg.memsz))
LoadSegments(x, segs) ==
  LET upto[k \in 0 .. Len(segs)] == IF k = 0 THEN x ELSE LoadSegment(upto[k - 1], segs[k])
  IN upto[Len(segs)]

\* copyout to a page of an address space
Copyout(m, a, what) == [m EXCEPT !.content[m.pd.pte[a]] = what]

\* The two pages above the program: the first inaccessible, the second the
\* stack, where the arguments go.
Stacked(x, argsFit, g) ==
  IF g.size = 0 \/ ~argsFit THEN [x EXCEPT !.m = Failed(g.m)]
  ELSE [m |-> Copyout([g.m EXCEPT !.pd.user[Up(x.size)] = FALSE], Up(x.size) + 1, "args"), size |-> g.size]
AddStack(x, argsFit) ==
  IF ~x.m.ok THEN x
  ELSE Stacked(x, argsFit, Allocuvm(x.m, Up(x.size) * PGSIZE, (Up(x.size) + 2) * PGSIZE))

\* The new image of exec, complete or freed again.
Complete(x) == IF x.m.ok THEN x ELSE [m |-> Freevm(x.m), size |-> 0]
BuildImage(m, image) ==
  IF ~m.ok THEN [m |-> m, size |-> 0]
  ELSE Complete(AddStack(LoadSegments([m |-> m, size |-> 0], image.segs), image.argsFit))
NewImage(m, image) ==
  IF ~image.elf THEN [m |-> Failed(m), size |-> 0] ELSE BuildImage(Setupkvm(m), image)

-----------------------------------------------------------------------------
(* The processes *)

\* kinit1 and kinit2 free every frame, once.
Freerange == [free |-> [f \in Frames |-> 1], content |-> [f \in Frames |-> "junk"],
              pd |-> NoPgdir, ok |-> TRUE]

\* userinit gives the first process a kernel stack, a page directory and one page of
\* initcode; without the memory for these there is no first process.
Init ==
  \E m \in {AddPage(Setupkvm(Kalloc(Freerange, "stack")), 0, "initcode", TRUE)} :
     /\ m.ok
     /\ free = m.free /\ content = m.content
     /\ state = [p \in Procs |-> IF p = 1 THEN "RUNNABLE" ELSE "UNUSED"]
     /\ parent = [p \in Procs |-> None]
     /\ kstack = [p \in Procs |-> IF p = 1 THEN Top(Freerange.free) ELSE None]
     /\ pgdir = [p \in Procs |-> IF p = 1 THEN m.pd ELSE NoPgdir]
     /\ sz = [p \in Procs |-> IF p = 1 THEN PGSIZE ELSE 0]
     /\ stale = [p \in Procs |-> FALSE] /\ lost = FALSE

\* A process is back in user mode, in memory of its own (without any: RunsOn).
Runs(p) == state[p] = "RUNNABLE" /\ {a \in UPages : pgdir[p].user[a]} # {}

\* switchuvm loads p's page directory, which drops the processor's translations.
Switchuvm(p) == stale' = [stale EXCEPT ![p] = FALSE]

Becomes(m) == free' = m.free /\ content' = m.content

\* The program writes to a page it may touch.
Store(p, a) ==
  /\ Runs(p) /\ pgdir[p].user[a]
  /\ content' = [content EXCEPT ![pgdir[p].pte[a]] = "stored"]
  /\ UNCHANGED <<free, state, parent, kstack, pgdir, sz, stale, lost>>

\* fork, as far as memory goes: allocproc's slot and kernel stack, the copy of
\* the parent's memory, and the stack given back if there is no room for it.
Fork(p) ==
  /\ Runs(p)
  /\ \E c \in Procs :
       /\ state[c] = "UNUSED" /\ \A q \in 1 .. c - 1 : state[q] # "UNUSED"
       /\ ~NoneFree(free)
       /\ \E m \in {Copyuvm(Kalloc(Memory(NoPgdir), "stack"), pgdir[p], sz[p])} :
            IF m.ok
            THEN /\ Becomes(m)
                 /\ pgdir' = [pgdir EXCEPT ![c] = m.pd]
                 /\ kstack' = [kstack EXCEPT ![c] = Top(free)]
                 /\ state' = [state EXCEPT ![c] = "RUNNABLE"]
                 /\ parent' = [parent EXCEPT ![c] = p]
                 /\ sz' = [sz EXCEPT ![c] = sz[p]]
            ELSE /\ Becomes(Kfree(m, Top(free)))
                 /\ UNCHANGED <<state, parent, kstack, pgdir, sz>>
  /\ UNCHANGED <<stale, lost>>

\* exec builds the new image beside the old one, and frees one of the two.
Exec(p, image) ==
  /\ Runs(p)
  /\ \E x \in {NewImage(Memory(NoPgdir), image)} :
        IF x.m.ok
        THEN /\ Becomes(Freevm([x.m EXCEPT !.pd = pgdir[p]]))
             /\ pgdir' = [pgdir EXCEPT ![p] = x.m.pd]
             /\ sz' = [sz EXCEPT ![p] = x.size]
             /\ Switchuvm(p)
        ELSE Becomes(x.m) /\ UNCHANGED <<pgdir, sz, stale>>
  /\ UNCHANGED <<state, parent, kstack, lost>>

\* sbrk (growproc), upwards and
SbrkGrows(p, n) ==
  /\ Runs(p) /\ n > 0
  /\ \E g \in {Allocuvm(Memory(pgdir[p]), sz[p], Uint(sz[p] + n))} :
        /\ Becomes(g.m)
        /\ pgdir' = [pgdir EXCEPT ![p] = g.m.pd]
        /\ IF g.size = 0 THEN UNCHANGED <<sz, stale>>
           ELSE sz' = [sz EXCEPT ![p] = g.size] /\ Switchuvm(p)
  /\ UNCHANGED <<state, parent, kstack, lost>>

\* mutant: growproc does not switch
SbrkShrinks_NoSwitch(p, n) ==
  /\ Runs(p) /\ n < 0
  /\ \E newsz \in {Uint(sz[p] + n)} :
     \E m \in {IF newsz >= sz[p] THEN Memory(pgdir[p]) ELSE Deallocuvm(Memory(pgdir[p]), sz[p], newsz)} :
        /\ Becomes(m)
        /\ pgdir' = [pgdir EXCEPT ![p] = m.pd]
        /\ sz' = IF newsz = 0 \/ newsz >= sz[p] THEN sz ELSE [sz EXCEPT ![p] = newsz]
        /\ stale' = [stale EXCEPT ![p] = @ \/ newsz < sz[p]]
  /\ UNCHANGED <<state, parent, kstack, lost>>

\* downwards: a new size of 0 is taken for a failure, the pages gone but not the
\* processor's translations for them.
SbrkShrinks(p, n) ==
  /\ Runs(p) /\ n < 0
  /\ \E newsz \in {Uint(sz[p] + n)} :
     \E m \in {IF newsz >= sz[p] THEN Memory(pgdir[p]) ELSE Deallocuvm(Memory(pgdir[p]), sz[p], newsz)} :
        /\ Becomes(m)
        /\ pgdir' = [pgdir EXCEPT ![p] = m.pd]
        /\ sz' = IF newsz = 0 \/ newsz >= sz[p] THEN sz ELSE [sz EXCEPT ![p] = newsz]
        /\ IF newsz = 0 THEN stale' = [stale EXCEPT ![p] = TRUE] ELSE Switchuvm(p)
  /\ UNCHANGED <<state, parent, kstack, lost>>

\* A process whose pages sbrk has taken goes on through the old translations, in
\* frames that are free or another's by now,
RunsOn(p) ==
  /\ state[p] = "RUNNABLE" /\ stale[p]
  /\ lost' = TRUE
  /\ UNCHANGED <<free, content, state, parent, kstack, pgdir, sz, stale>>

\* unless the timer's yield and the scheduler come first: then it will fault.
Yield(p) ==
  /\ state[p] = "RUNNABLE" /\ stale[p]
  /\ Switchuvm(p)
  /\ UNCHANGED <<free, content, state, parent, kstack, pgdir, sz, lost>>

\* exit, called, or by a process that touches what it may not (trap, default:
\* killed). The children pass to init, which never exits.
Exit(p) ==
  /\ p # 1 /\ state[p] = "RUNNABLE"
  /\ state' = [state EXCEPT ![p] = "ZOMBIE"]
  /\ parent' = [q \in Procs |-> IF parent[q] = p THEN 1 ELSE parent[q]]
  /\ Switchuvm(p)
  /\ UNCHANGED <<free, content, kstack, pgdir, sz, lost>>

\* wait frees the first zombie child: its kernel stack and its memory.
Wait(p) ==
  /\ Runs(p)
  /\ \E c \in Procs :
       /\ parent[c] = p /\ state[c] = "ZOMBIE"
       /\ \A q \in 1 .. c - 1 : ~(parent[q] = p /\ state[q] = "ZOMBIE")
       /\ Becomes(Freevm(Kfree(Memory(pgdir[c]), kstack[c])))
       /\ kstack' = [kstack EXCEPT ![c] = None]
       /\ pgdir' = [pgdir EXCEPT ![c] = NoPgdir]
       /\ state' = [state EXCEPT ![c] = "UNUSED"]
       /\ parent' = [parent EXCEPT ![c] = None]
       /\ sz' = [sz EXCEPT ![c] = 0]
  /\ UNCHANGED <<stale, lost>>

\* init, the first process, is one program that starts others and waits for them.
Next == ~lost /\ \E p \in Procs :
  \/ Fork(p) \/ Exit(p) \/ Wait(p) \/ RunsOn(p) \/ Yield(p)
  \/ \E image \in Images : Exec(p, image)
  \/ p # 1 /\ \E a \in Stores : Store(p, a)
  \/ p # 1 /\ \E n \in Sbrks : SbrkGrows(p, n) \/ SbrkShrinks(p, n)

Spec == Init /\ [][Next]_vars

-----------------------------------------------------------------------------
(* Properties *)

TypeOK ==
  /\ free \in [Frames -> Nat]
  /\ content \in [Frames -> Words]
  /\ state \in [Procs -> {"UNUSED", "RUNNABLE", "ZOMBIE"}]
  /\ parent \in [Procs -> Procs \cup {None}]
  /\ kstack \in [Procs -> Frames \cup {None}]
  /\ pgdir \in [Procs -> [dir : Frames \cup {None}, ktabs : Seq(Frames), tab : [Tables -> Frames \cup {None}],
                          pte : [UPages -> Frames \cup {None}], user : [UPages -> BOOLEAN]]]
  /\ sz \in [Procs -> 0 .. KERNBASE]
  /\ stale \in [Procs -> BOOLEAN] /\ lost \in BOOLEAN

\* The places that hold frames: the free list, and what each process has.
Places ==
  {<<"free", 0, 0, f>> : f \in {g \in Frames : free[g] > 0}} \cup
  UNION {{<<"kstack", p, 0, kstack[p]>>, <<"dir", p, 0, pgdir[p].dir>>} \cup
         {<<"ktab", p, i, pgdir[p].ktabs[i]>> : i \in 1 .. Len(pgdir[p].ktabs)} \cup
         {<<"tab", p, t, pgdir[p].tab[t]>> : t \in Tables} \cup
         {<<"page", p, a, pgdir[p].pte[a]>> : a \in UPages} : p \in Procs}

\* Every frame is free once or in one use of one process: none is lost, freed
\* twice or shared, whichever kalloc of fork, exec and sbrk fails and whatever
\* had been allocated by then (vm.c, the error paths).
FramesOwnedOnce ==
  LET full == {x \in Places : x[4] # None} IN
  /\ \A f \in Frames : free[f] \in 0 .. 1
  /\ {x[4] : x \in full} = Frames /\ Cardinality(full) = NFRAMES

\* A process has the pages below its size and no other, so that copyuvm finds them,
\* and runs through no translation that its page table does not have: growproc
\* switches after each change. It is otherwise only with a process that has lost
\* every page, since growproc takes deallocuvm's 0 for a failure: RunsOn.
Emptied(p) == \A a \in UPages : pgdir[p].pte[a] = None
SizeIsMapped ==
  \A p \in Procs : state[p] = "RUNNABLE" =>
    \/ ~stale[p] /\ \A a \in UPages : (pgdir[p].pte[a] # None) = (a < Up(sz[p]))
    \/ Emptied(p)

\* What an image holds, laid out: the segments' text, zeroes, the inaccessible
\* page and the stack.
Layout(image) ==
  LET ends == {s.vaddr + s.memsz : s \in ToSet(image.segs)} \cup {0}
      top == Up(CHOOSE e \in ends : \A d \in ends : d <= e)
      Text(a) == {i \in 1 .. Len(image.segs) : a \in image.segs[i].vaddr \div PGSIZE .. Up(image.segs[i].vaddr + image.segs[i].filesz) - 1}
  IN [size |-> top + 2,
      memory |-> [a \in UPages |-> IF a >= top + 2 THEN "absent"
                                   ELSE IF a = top + 1 THEN "args"
                                   ELSE IF Text(a) # {} THEN image.segs[CHOOSE i \in Text(a) : \A j \in Text(a) : j <= i].text
                                   ELSE "zero"]]
InitCode == [size |-> 1, memory |-> [a \in UPages |-> IF a = 0 THEN "initcode" ELSE "absent"]]

Private == INSTANCE PrivateMemory WITH
  Addresses <- UPages,
  Contents <- {"stored"},
  Programs <- {Layout(image) : image \in Images} \cup {InitCode},
  Zero <- "zero",
  Absent <- "absent",
  size <- [p \in Procs |-> Up(sz[p])],
  memory <- [p \in Procs |-> [a \in UPages |-> IF pgdir[p].pte[a] = None THEN "absent" ELSE content[pgdir[p].pte[a]]]]

\* Page tables, the frames under them and the calls that share frames out give
\* each process a memory of its own; a call that fails, whether for want of
\* memory or of a good image, changes nothing (vm.c, exec.c, proc.c).
ImplementsPrivateMemory == Private!Spec
=============================================================================
