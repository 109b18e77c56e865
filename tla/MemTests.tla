------------------------------- MODULE MemTests -------------------------------
(* Programs in the memory that Vm gives them: the tests of usertests.c that are  *)
(* about memory, as sequences of calls and accesses with the results they go on  *)
(* with; any order of mallocs and frees by one program; and any order of calls   *)
(* by every process, which is Vm alone. Loops are cut down to the turns that     *)
(* differ, and sizes are scaled with the page.                                   *)
EXTENDS Vm

CONSTANTS
  WORD,           \* sizeof(int)
  HEADER,         \* sizeof(Header) of umalloc.c
  MORECORE,       \* headers that morecore asks for at least
  MallocSizes,    \* what a program asks malloc for
  Test            \* the file that holds the tests, one of Images

VARIABLES
  mode,    \* "any", "heap" or "test"
  prog,    \* process -> the calls of its program that are left, in mode "test"
  heap,    \* process -> its heap
  failed   \* the calls whose result was not one the program goes on with

tvars == <<vars, mode, prog, heap, failed>>

U == INSTANCE Umalloc WITH HeapEnd <- KERNBASE

-----------------------------------------------------------------------------
(* Arguments of system calls (syscall.c): what passes the checks.              *)

FetchintOk_Start(p, addr) == addr < sz[p]                                  \* mutant
FetchintOk(p, addr) == addr < sz[p] /\ Uint(addr + WORD) <= sz[p]
ArgptrOk(p, addr, size) == size >= 0 /\ addr < sz[p] /\ Uint(addr + size) <= sz[p]
FetchstrOk(p, addr) == addr < sz[p]

\* The kernel reaches bytes from .. to - 1 of p's memory.
Reaches(p, from, to) ==
  \A b \in from .. to - 1 : b < KERNBASE /\ pgdir[p].pte[b \div PGSIZE] # None

-----------------------------------------------------------------------------
(* Calls as programs make them. want: the results the program goes on with.    *)

Whatever == -1 .. KERNBASE
Good     == 0 .. KERNBASE
Bad      == {-1}

sbrk(n, want)      == [op |-> "sbrk", n |-> n, want |-> want]
sbrkTo(size, want) == [op |-> "sbrkTo", size |-> size, want |-> want]   \* sbrk(size - sbrk(0))
store(addr)        == [op |-> "store", addr |-> addr, want |-> {0}]
see(addr, what)    == [op |-> "see", addr |-> addr, what |-> what, want |-> {0}]
touch(addr)        == [op |-> "see", addr |-> addr, what |-> "", want |-> {}]    \* or complains
inout              == [op |-> "inout", want |-> {}]                     \* the instructions in and out
fork(child, want)  == [op |-> "fork", child |-> child, want |-> want]
wait               == [op |-> "wait", want |-> Good]
exec(image, want)  == [op |-> "exec", image |-> image, want |-> want]
sit                == [op |-> "sit", want |-> {}]                       \* sleeps until killed
seated             == [op |-> "seated", want |-> {0}]                   \* hears that children sit
kill               == [op |-> "kill", want |-> {0}]                     \* kills all its children
argint(addr, want) == [op |-> "argint", addr |-> addr, want |-> want]
argptr(addr, size, want) == [op |-> "argptr", addr |-> addr, size |-> size, want |-> want]
argstr(addr, want) == [op |-> "argstr", addr |-> addr, want |-> want]
wolfie(addr, size, want) == [op |-> "wolfie", addr |-> addr, size |-> size, want |-> want]
malloc(n, want)    == [op |-> "malloc", n |-> n, want |-> want]
freeOne            == [op |-> "free", want |-> {0}]                     \* the block given last

\* Where a program just loaded ends, and the 100 megabytes of sbrktest.
S   == Layout(Test).size * PGSIZE
BIG == KERNBASE - 1

sbrktest == <<
  sbrk(0, {S}), sbrk(1, {S}), store(S),
  fork(<<sbrk(1, {S + 1}), sbrk(1, {S + 2})>>, Good), sbrk(1, {S + 1}), sbrk(1, {S + 2}), wait,
  sbrkTo(BIG, {S + 3}), store(BIG - 1),
  sbrk(-PGSIZE, {BIG}), sbrk(0, {BIG - PGSIZE}), sbrk(PGSIZE, {BIG - PGSIZE}), sbrk(0, {BIG}),
  see(BIG - 1, "zero"), sbrkTo(S, {BIG}),
  fork(<<touch(KERNBASE)>>, Good), wait,
  fork(<<sbrkTo(BIG, Whatever), sit>>, Whatever), seated,
  fork(<<sbrkTo(BIG, Whatever), sit>>, Whatever), seated,
  sbrk(PGSIZE, Good), kill, wait, sbrkTo(S, Good)>>

\* mallocs until there is no memory, frees them all, and mallocs more than one of
\* them; arenas of three blocks.
mem ==
  LET one == HEADER
  IN <<fork(<<malloc(one, Good), malloc(one, Good), malloc(one, Good), malloc(one, Bad),
              freeOne, freeOne, freeOne, malloc(3 * one, Good), freeOne>>, Good), wait>>

\* A place that sleep's argument is read from, and a name for link, page after page.
validatetest ==
  LET At(p) == <<fork(<<argint(p, Whatever)>>, Good), kill, wait, argstr(p, Whatever)>>
  IN At(0) \o At(S - 1) \o At(S) \o At(KERNBASE - 1) \o At(UintRange - 1)

bsstest == <<see(PGSIZE, "zero"), see(2 * PGSIZE - 1, "zero")>>

\* exec of a program whose arguments do not fit fails, and its caller goes on.
bigargtest == <<fork(<<exec([Test EXCEPT !.argsFit = FALSE], Bad), see(0, "text")>>, Good), wait>>

argptest == <<argptr(S - 1, -1, Bad), argptr(S - 1, 1, Good), argptr(S - 1, 2, Bad)>>

\* In user mode a process has no way to the ports (trap, default).
uio == <<fork(<<inout>>, Good), wait>>

\* The calls that wolfietest.c has in comments: a buffer of the size of the drawing
\* will do, one that is smaller or that goes past the end of memory will not.
DRAWING == 3
wolfietest == <<
  wolfie(S - DRAWING, DRAWING, {DRAWING}), wolfie(S - DRAWING, DRAWING - 1, Bad),
  wolfie(S - 1, DRAWING, Bad), wolfie(S - DRAWING, -1, Bad)>>

Tests == argptest \o wolfietest \o bigargtest \o bsstest \o sbrktest \o validatetest \o mem \o uio

\* init starts a child, which executes the tests, and waits for it.
InitProgram == <<fork(<<exec(Test, Good)>> \o Tests, Good), wait>>

-----------------------------------------------------------------------------
(* One call of p's program                                                     *)

TestsInit ==
  /\ Init
  /\ mode \in {"any", "heap", "test"}
  /\ prog = [p \in Procs |-> IF mode = "test" /\ p = 1 THEN InitProgram ELSE << >>]
  /\ heap = [p \in Procs |-> U!NoHeap]
  /\ failed = {}

Cur(p) == Head(prog[p])
Calls(p, op) == mode = "test" /\ Runs(p) /\ prog[p] # << >> /\ Cur(p).op = op

\* p goes on if the result is one it wants, and exits otherwise.
Rest(p, result) == IF result \in Cur(p).want THEN Tail(prog[p]) ELSE << >>
Noted(p, result) == IF result \in Cur(p).want THEN failed ELSE failed \cup {Cur(p).op}
Goes(p, result) == prog' = [prog EXCEPT ![p] = Rest(p, result)] /\ failed' = Noted(p, result)
Answers(p, result) == Goes(p, result) /\ UNCHANGED <<vars, mode, heap>>

\* sys_sbrk returns the size there was, unless what allocuvm or deallocuvm gives
\* growproc is 0; a size below 0 is one above, which deallocuvm leaves alone.
Sbrk(p, n) == IF n > 0 THEN SbrkGrows(p, n) ELSE IF n < 0 THEN SbrkShrinks(p, n) ELSE UNCHANGED vars
Fails(p, n) ==
  \/ n > 0 /\ Allocuvm(Memory(pgdir[p]), sz[p], Uint(sz[p] + n)).size = 0
  \/ n < 0 /\ Uint(sz[p] + n) = 0
SbrkResult(p, n) == IF Fails(p, n) THEN -1 ELSE sz[p]

CallSbrk(p) ==
  /\ \E n \in {IF Cur(p).op = "sbrk" THEN Cur(p).n ELSE Cur(p).size - sz[p]} :
       Sbrk(p, n) /\ Goes(p, SbrkResult(p, n))
  /\ UNCHANGED <<mode, heap>>

\* The block p is given, and the one it gives back; p's memory may have to grow.
Malloc(p, nunits) ==
  LET h == U!Started(heap[p])
      nu == U!More(nunits)
  IN IF U!Fits(h, nunits)
     THEN UNCHANGED vars /\ heap' = [heap EXCEPT ![p] = U!Take(h, nunits)]
     ELSE /\ SbrkGrows(p, nu * HEADER)
          /\ heap' = [heap EXCEPT ![p] = IF sz'[p] = sz[p] THEN h
                                         ELSE U!Take(U!Morecore(h, sz[p], nu), nunits)]

CallMalloc(p) ==
  /\ Malloc(p, U!Units(Cur(p).n))
  /\ Goes(p, IF heap'[p].used = heap[p].used THEN -1 ELSE 0)
  /\ UNCHANGED mode

FreeBlock(p, b) == UNCHANGED vars /\ heap' = [heap EXCEPT ![p] = U!Free(@, b)]

CallFree(p) ==
  /\ FreeBlock(p, CHOOSE b \in heap[p].used : \A c \in heap[p].used : b <= c)
  /\ Goes(p, 0)
  /\ UNCHANGED mode

\* fork, with the parent's heap for the child; -1 without a slot, a kernel stack
\* or the memory.
CallFork(p) ==
  /\ IF NoneFree(free) \/ \A c \in Procs : state[c] # "UNUSED" THEN UNCHANGED vars ELSE Fork(p)
  /\ LET born == {c \in Procs : state'[c] # state[c]}
         result == IF born = {} THEN -1 ELSE 0
     IN /\ prog' = [q \in Procs |-> IF q = p THEN Rest(p, result)
                                    ELSE IF q \in born THEN Cur(p).child ELSE prog[q]]
        /\ heap' = [q \in Procs |-> IF q \in born THEN heap[p] ELSE heap[q]]
        /\ failed' = Noted(p, result)
  /\ UNCHANGED mode

CallExec(p) ==
  /\ Exec(p, Cur(p).image)
  /\ LET result == IF pgdir' = pgdir THEN -1 ELSE 0
     IN Goes(p, result) /\ heap' = [heap EXCEPT ![p] = IF result = 0 THEN U!NoHeap ELSE @]
  /\ UNCHANGED mode

Children(p) == {c \in Procs : parent[c] = p}

\* The memory of a child that was waited for is gone.
CallWait(p) ==
  /\ Wait(p)
  /\ heap' = [q \in Procs |-> IF state'[q] = "UNUSED" THEN U!NoHeap ELSE heap[q]]
  /\ Goes(p, 0)
  /\ UNCHANGED mode

CallStore(p) ==
  /\ Store(p, Cur(p).addr \div PGSIZE) /\ Goes(p, 0)
  /\ UNCHANGED <<mode, heap>>

Touchable(p, addr) == addr \div PGSIZE \in UPages /\ pgdir[p].user[addr \div PGSIZE]
See(p) == IF content[pgdir[p].pte[Cur(p).addr \div PGSIZE]] = Cur(p).what THEN 0 ELSE -1

\* A killed process exits when it next comes to the kernel.
CallKill(p) ==
  /\ prog' = [q \in Procs |-> IF q = p THEN Tail(prog[p])
                              ELSE IF q \in Children(p) THEN << >> ELSE prog[q]]
  /\ UNCHANGED <<vars, mode, heap, failed>>

\* The checks of an argument, and the bytes the kernel then reads or writes: -2,
\* which no program wants, for a page that is not there.
Checked(p, ok, from, to) == IF ~ok THEN -1 ELSE IF Reaches(p, from, to) THEN 0 ELSE -2

\* Arguments of sleep and link, which come to nothing else here.
CallArg(p) ==
  LET c == Cur(p)
      result == CASE c.op = "argint" -> Checked(p, FetchintOk(p, c.addr), c.addr, c.addr + WORD)
                  [] c.op = "argptr" -> Checked(p, ArgptrOk(p, c.addr, c.size), c.addr, c.addr + c.size)
                  [] c.op = "argstr" -> Checked(p, FetchstrOk(p, c.addr), c.addr, sz[p])
  IN Answers(p, result)

\* sys_wolfie writes the drawing to its caller's buffer.
CallWolfie(p) ==
  LET c == Cur(p)
      r == Checked(p, ArgptrOk(p, c.addr, c.size) /\ c.size >= DRAWING, c.addr, c.addr + DRAWING)
  IN Answers(p, IF r = 0 THEN DRAWING ELSE r)

\* The end of a program, or what the hardware does not allow (trap, default).
Ends(p) ==
  /\ mode = "test" /\ Exit(p)
  /\ IF prog[p] = << >> \/ ~Runs(p) THEN TRUE
     ELSE Cur(p).op = "inout" \/ (Cur(p).op = "see" /\ ~Touchable(p, Cur(p).addr))
  /\ prog' = [prog EXCEPT ![p] = << >>]
  /\ UNCHANGED <<mode, heap, failed>>

TestStep(p) ==
  \/ (Calls(p, "sbrk") \/ Calls(p, "sbrkTo")) /\ CallSbrk(p)
  \/ Calls(p, "malloc") /\ CallMalloc(p)
  \/ Calls(p, "free") /\ CallFree(p)
  \/ Calls(p, "fork") /\ CallFork(p)
  \/ Calls(p, "exec") /\ CallExec(p)
  \/ Calls(p, "wait") /\ CallWait(p)
  \/ Calls(p, "store") /\ CallStore(p)
  \/ Calls(p, "see") /\ Touchable(p, Cur(p).addr) /\ Answers(p, See(p))
  \/ Calls(p, "kill") /\ CallKill(p)
  \/ Calls(p, "seated") /\ (\A c \in Children(p) : prog[c] = <<sit>>) /\ Answers(p, 0)
  \/ (Calls(p, "argint") \/ Calls(p, "argptr") \/ Calls(p, "argstr")) /\ CallArg(p)
  \/ Calls(p, "wolfie") /\ CallWolfie(p)
  \/ Ends(p)

\* One program that mallocs, frees and moves the end of its memory as it likes.
HeapStep(p) ==
  /\ mode = "heap" /\ Runs(p)
  /\ \/ \E n \in MallocSizes : Malloc(p, U!Units(n))
     \/ \E b \in heap[p].used : FreeBlock(p, b)
     \/ SbrkGrows(p, HEADER) /\ UNCHANGED heap
  /\ UNCHANGED <<mode, prog, failed>>

AnyStep == mode = "any" /\ Next /\ UNCHANGED <<mode, prog, heap, failed>>

TestsNext == AnyStep \/ HeapStep(1) \/ \E p \in Procs : TestStep(p)

TestsSpec == TestsInit /\ [][TestsNext]_tvars

-----------------------------------------------------------------------------
(* Properties                                                                  *)

\* Every access and call of the tests has the result its author wants, in every
\* order of the processes: memory that was given back is zero when it comes again, a
\* failed sbrk gives back what it had taken, no argument leads the kernel astray
\* (usertests.c).
TestsPass == failed = {}

\* What passes the checks of system call arguments is there for the kernel to read
\* and write, at the ends of memory and of the integers (syscall.c:20, 64).
ArgumentsAreMapped ==
  \A p \in Procs : Runs(p) =>
    \A addr \in {0, UintRange - 1} \cup {Uint(sz[p] + d) : d \in -PGSIZE .. PGSIZE} :
      /\ FetchintOk(p, addr) => Reaches(p, addr, addr + WORD)
      /\ FetchstrOk(p, addr) => Reaches(p, addr, sz[p])
      /\ \A size \in {-1, 0, 1, PGSIZE} : ArgptrOk(p, addr, size) => Reaches(p, addr, addr + size)

\* What user space is told of its size is so, for the calls on memory and for the
\* arguments of all calls.
SizeHolds == SizeIsMapped /\ ArgumentsAreMapped

\* The heap of every process is sound, whatever was given back in whatever order and
\* wherever sbrk fails; a child's is its parent's (umalloc.c).
HeapsSound == \A p \in Procs : heap[p].up => U!Sound(heap[p], sz[p])
=============================================================================
