# TLA+ models of the xv6 laboratory kernels

The repository holds two trees derived from MIT's xv6 for x86:

- `src/xv6_OS_Lab/Lab1+Lab2/xv6-public` (*Lab1+Lab2* below): xv6 with three
  information system calls and a "shortest burst first" scheduler;
- `src/xv6_OS_Lab/Lab3/OS3-main/xv6-public` (*Lab3*): xv6 with its round-robin
  scheduler and demand paging to a per-process swap file.

Most files are identical in the two trees; where they are, the models cite
Lab1+Lab2. The modules here model the kernel, from the process table down to the disk
drive, the code the laboratories added, and the user programs that exercise it:
the shell, the allocator and the tests. TLC checks them on small instances, and
TLAPS proves the safety of the process table, of the log, of pipes, of the buffer
cache, of the console and of the pager for any size.

## 1. Inventory

### 1.1 Components

| component | state it keeps | operations | what makes it correct |
|---|---|---|---|
| process table and scheduler (`proc.c`) | `ptable` (slot: state, pid, parent, chan, killed, burst_time), `nextpid`, `cpu.proc` | fork, exit, wait, kill, sleep, wakeup, yield, sched, scheduler, setBurstTime | one CPU per process; locks handed over through `swtch` without panic; no lost wakeup; no orphan, no missed zombie; ready processes run |
| spinlocks (`spinlock.c`) | locked, cpu; per CPU ncli, intena | acquire, release, pushcli, popcli | released by the holder, never taken twice, none held when switching but `ptable.lock` |
| sleep locks (`sleeplock.c`) | locked, pid, inner spinlock | acquiresleep, releasesleep, holdingsleep | mutual exclusion; owner recorded; sleepers woken |
| traps and timer (`trap.c`) | ticks | system call, timer, device and page-fault dispatch | killed processes exit at the boundary; every tick yields |
| demand paging (Lab3 `vm.c`, `trap.c`, `proc.c`) | page table bits, `paging_meta_data`, list of pages in memory, two counters, swap file, `time_counter` | growproc, allocuvm, deallocuvm, page fault, swapPages, timer accounting, fork | list, entries, page table and counters agree; limits hold; a page keeps its contents |
| log (`log.c`) | outstanding, committing, in-memory header; on disk header and log blocks | begin_op, log_write, end_op, commit, recovery | crash atomicity; an operation never outgrows the log |
| buffer cache (`bio.c`) | buffers: block, refcnt, flags, LRU list | bget, bread, bwrite, brelse | one buffer per block; dirty buffers not evicted |
| IDE driver (`ide.c`) | idequeue, buffer flags | iderw, idestart, ideintr | the interrupt completes the request at the head; every waiter is woken |
| pipes (`pipe.c`) | nread, nwrite, data, readopen, writeopen | pipealloc, pipewrite, piperead, pipeclose | bytes in order, bounded; no reader or writer stuck; freed once |
| file table (`file.c`, `sysfile.c`) | ref, type, off of each file | filealloc, filedup, fileclose, fileread, filewrite | counts match the descriptors |
| inodes, directories, paths (`fs.c`) | inode cache (ref, valid, nlink), bitmap, directories | iget, ilock, iput, ialloc, itrunc, balloc, dirlink, namex | no inode freed while in use; blocks allocated once |
| address spaces (`vm.c`) | page directories, page tables | setupkvm, allocuvm, deallocuvm, copyuvm, freevm, copyout | a frame has one use; nothing lost when kalloc fails; memory private |
| exec (`exec.c`) | new page table | exec | old image intact on failure |
| memory allocator (`kalloc.c`) | free list | kalloc, kfree | a page is given to one owner |
| system call arguments (`syscall.c`) | - | fetchint, fetchstr, argptr | what passes is mapped |
| console (`console.c`) | input ring | consoleread, consoleintr, consolewrite | no lost line, no reader asleep beside one |
| shell (`sh.c`) | the line | getcmd, parsecmd, runcmd | the tree is the one the grammar has |
| user memory allocator (`umalloc.c`) | ring of free blocks | malloc, free, morecore | blocks apart, none lost |
| test programs (`usertests.c`, `stressfs.c`, ...) | - | the calls they make | they pass |
| boot, interrupt controllers, serial port | set once | main, mpinit, lapicinit, ... | - |
| kernel processes of Lab3 | two slots | created asleep on no channel | never run unless killed |

`PROJECT.json` lists them with the modules that model them and, for the ones
that are not modelled, the reason.

### 1.2 Interactions

- System calls enter through `trap()`; the process's kernel thread then runs
  with interrupts on except while it holds a spinlock. The timer interrupt calls
  `yield()` wherever it lands with interrupts on.
- `sched()` and the scheduler hand `ptable.lock` to each other across `swtch`.
- `sleep(chan, lk)` / `wakeup(chan)` connect sleep locks, wait/exit, pipes, the
  log, the disk driver, the console and `sys_sleep` to the process table.
- File system calls are bracketed by begin_op/end_op; the log pins dirty buffers
  in the buffer cache and writes them through the driver.
- Inodes, directories and files sit on the buffer cache and the log; exec reads
  through them into a new address space; fork, exec and exit count references to
  files and to the current directory.
- User programs see the system calls only: the shell forks, redirects and execs;
  malloc gets its memory from sbrk.
- Page faults of Lab3 call the swap file through the same file system. Fork and
  exec touch both address spaces.

### 1.3 Where it is hard

Interleavings of several CPUs and of the timer with every kernel path; state
read before a sleep and used after; the hand-over of a lock between contexts;
zombies whose stack is still in use; fields written without the lock (`fork`
giving a slot back, `setBurstTime`); a linked list threaded through an array and
edited in several places; counters at their limits; failures half way through an
allocation or a system call; reference counts read under one lock and used under
another; inode locks taken along paths that others rename under the walk;
crashes in the middle of a commit; unsigned sums that wrap at the ends of memory. `PROJECT.json` lists each hazard
at the line where it bites, with the property that covers it or a note.

## 2. Modules

| module | contents |
|---|---|
| `Proc` | process table, schedulers, sleep locks |
| `Mutex` | what a sleep lock promises: at most one holder |
| `ProcProofs` | proofs about `Proc`: processes and CPUs, sleep locks, families |
| `Pager` | demand paging of one process in Lab3, its swap file |
| `PagerProofs` | proofs about `Pager` |
| `Log` | the file system log: operations, commit, crash, recovery |
| `AtomicDisk` | what the log promises: whole operations reach the disk, by groups |
| `LogProofs` | proofs about `Log`: its list, its space, its sleepers; its copies of a block, and that it implements `AtomicDisk` |
| `Pipe` | a pipe, its two files, and the processes that share them |
| `PipeProofs` | proofs about `Pipe` |
| `Fifo` | what a pipe promises: bytes in order, a bounded number on their way |
| `Bcache` | the buffer cache and the disk driver under it |
| `BlockStore` | what the cache promises: a block read is the block last written |
| `Fs` | fs.c: blocks, inodes, the inode cache, directories (operators) |
| `SysFile` | sysfile.c, file.c, path walks and iput: the calls of several processes (extends `Fs`) |
| `UserTests` | the programs that use them: usertests, stressfs, init, shell commands (extends `SysFile`) |
| `SysFileProofs` | proofs about `SysFile`: counts, cache entries, locks and pipes, for any programs |
| `DiskProofs` | proofs about `SysFile` and the disk: a file system stays one (extends `SysFileProofs`) |
| `Vm` | frames, page tables, and the calls that use them: fork, exec, sbrk, exit, wait |
| `VmProofs` | proofs about `Vm` |
| `PrivateMemory` | what processes may rely on: a memory of their own |
| `Umalloc` | malloc and free (operators) |
| `MemTests` | system call arguments, and the memory tests of usertests on top of `Vm` and `Umalloc` |
| `Console` | console input: keys, editing, readers |
| `LineQueue` | what the console promises: characters in order, a line at a time |
| `DriverProofs` | proofs about `Bcache` and `Console`, the two drivers |
| `ShellParser` | the shell's parser, and the grammar it is to accept (operators) |
| `Shell` | the shell reading the console and parsing (extends both) |
| `MCProc`, `MCPager`, `MCLog`, `MCPipe`, `MCBcache`, `MCFs`, `MCVm`, `MCShell` | instances for TLC |

Composition: `Proc` gives the sleep lock that `Bcache`, `Fs` and `Log` take as
one step (`ProcProofs` shows that it is a mutex); `Bcache` gives the
contents of a block that `Log` and `Fs` take as one value (`BlockStore`); `Log`
gives the atomic transaction whose inside `SysFile` interleaves (`AtomicDisk`).
`MemTests` runs programs on `Vm` and `Umalloc` in one state machine, `UserTests` on
`SysFile`, `Shell` on `Console`.

### 2.1 Proc

One step is a critical section under `ptable.lock` that does not switch, or a
stretch of kernel code between two moments at which another CPU can see or
change what it touches. Where a section does switch, the lock is explicit:
`owner[PT]` passes from the process (`Yield`, `Exit`, `WaitSleep`, `Sleep` take
it) through `Sched` to the scheduler of that CPU, which continues its scan, and
from `Dispatch` to the process that runs next, which releases it (`Resume`,
`SleepResume`) or keeps it (`WaitResume`, back in wait's loop).

| variables | code |
|---|---|
| `owner` | `locked` and `cpu` of `ptable.lock` and of each sleep lock's `lk` |
| `cpuProc`, `pos` | `cpu.proc`; the scheduler's loop variable |
| `state`, `pid`, `parent`, `chan`, `killed`, `burst`, `nextpid` | struct proc |
| `at`, `phase`, `ret` | the program counter: place in kernel code, place in `sched`, the caller `swtch` returns into |
| `child`, `want` | locals `np` of fork and `lk` of the sleep-lock calls |
| `locked`, `holderPid` | struct sleeplock |

Choices worth knowing:

- `acquire` spins: its guard is that the lock is free. Interrupts are off while
  a CPU holds a lock, so `Yield` needs `NoLocks`.
- A killed process does not enter a system call (`Calls`), and `Exit` is open to
  any process in user code: trap() makes a killed process exit there.
- `ForkFail` is allocproc or copyuvm running out of memory: the slot is given
  back without the lock and keeps its pid, as in the code.
- `Kill` takes any argument but 1: killing the first process makes it exit and
  panic ("init exiting"), which `exit` documents; all other properties would stop
  there. Arguments include 0, the pid of free slots.
- `ShortestFirst` selects the scheduler: Lab1+Lab2's inner loop restarts at the
  first slot and its outer loop goes on from where it was; Lab3 takes the slot
  of the outer loop.
- Closing files in `exit`, copying memory in `fork` and `ncli` are left out.

### 2.2 Pager

One process, its page table, its frames, its swap file and the paging fields of
`struct proc` in one record `m`; every C function that moves a page is an
operator from record to record, named after it (`Mem2File`, `File2Mem`,
`SwapPages`, `AddNewPage`, `DeletePage`, `Unlink` for updateListPointers,
`Victim` for choosePageFromPhysMem). Entries are numbered in the order of every
search of `paging_meta_data`. Actions take growproc page by page, so that the
timer's `Tick` falls between pages; `AllocNoMem` is kalloc or mappages failing
after room was made, `File2MemNoMem` the panic of file2mem, `Fork` the panic of
copyuvm (a fork that succeeds changes nothing of the parent).

The data of a page is its own page number, so that a slot or frame "holds the
data of page v". The process starts as a fork child (any number of pages, as many as its
parent had in memory, mapped and none listed) or as a program freshly loaded by such a
child (at most `MaxPhys` pages, all listed). The swap file is its
slots (`CreateSwapFile`, `ReadFromSwapFile`, `WriteToSwapFile`). Left out: exec of a
process that already has entries, errors of the swap file's reads and writes,
shrinking to size 0 (the process has then freed the code it returns to), and a
timer tick in the middle of one page's move, which could change only counters.

### 2.3 Log

One step is a critical section under `log.lock`, one access to a buffer under
its sleep lock, or one block written to the disk. `home`, `logData` and `header`
are the disk; `cache` and `dirty` the buffers and B_DIRTY; `lh`, `outstanding`
and `committing` are struct log; `pc`, `buf` and `own` say where each operation
stands, which buffer it holds and which blocks it has logged; `stage` and `tail`
are the loops of `commit()` and `recover_from_log()`. The contents of a block are
the number of the write that made them.

- An operation is begin_op (`Begin`, then `BeginEnter` or `BeginSleep` and again
  after a wakeup), any number of `Modify`, `LogCheck`, `LogWrite` (bread and a
  change, the tests log_write makes without the lock, the rest with it), and
  `EndOp` or `EndOpCommit`. `WriteLog`, `WriteHead`, `Install`, `Clear` and
  `EndCommit` are the commit.
- `Recycle` is bget taking a clean unused buffer for another block, whenever it
  likes.
- `Crash` keeps the disk and starts initlog: `ReadHead`, `Replay`, `Recovered`;
  operations begin after it. It may come during the recovery too. A block is
  written whole or not at all, and iderw returns when it is on the disk.
- `LogSlots = LOGSIZE - 1`: mkfs gives the log LOGSIZE blocks, the first is the
  header, and log_write compares with both limits.
- `OpBlocks < MAXOPBLOCKS`: the operations of sysfile.c and the pieces of
  filewrite write seven distinct blocks at most, of the ten reserved. One that
  wrote ten could meet "too big a transaction", as the on-disk log is a block
  shorter than the list.

### 2.4 Pipe

One step is a critical section under the pipe's lock or under ftable.lock, with
the whole loop of a call in it; a call that goes to sleep has a second step
(`WriteSleep`, `ReadSleep`), because kill does not take the pipe's lock and may
come between the test of `p->killed` and sleep. `open` is readopen and writeopen,
`ref` the counts of the two struct file, `fd` what each process has in ofile,
`todo` and `end` the files a close or an exit still has to close and the end in
pipeclose. Counters are uints: `UintRange` stands for 2^32, a multiple of
PIPESIZE as in the code. A byte is its position in the stream of bytes written.
Fork hands descriptors to the first free slot; kill may come from any process,
also one that does not use the pipe. Left out: dup (a second reference like
fork's), calls of no bytes, and the page faults that copying may cause in Lab3
(see the hazards).

### 2.5 Bcache

A step is a section under `bcache.lock` or `idelock`, or one operation on a
buffer's sleep lock. `blockno`, `refcnt`, `flags`, `data` and `lru` are struct buf
and the list of bcache; `queue` is idequeue, `drive` the request the drive has
been given and `disk` what is on it. bread is `BgetHit` or `BgetMiss`, the lock,
and, without B_VALID, iderw's queue, sleep and wakeup; the interrupt may come any
time after the drive has finished. `Values` are what a block may contain.
Callers hold at most `MaxHeld` buffers, in one order of their blocks, and the log
keeps at most `MaxPinned` dirty ones, fewer than `NBUF`: both are how fs.c and
log.c use the cache, and without them bget panics or processes wait in a ring.
An error of the drive is left out (see the hazards), and its second unit.

### 2.6 Fs, SysFile, UserTests

A file system state is a record `fs`: the disk's inodes, free map and blocks, the
inode cache and the message of a panic; each function of fs.c that changes it is
an operator from record to record. A block is `BSIZE` words: directory entries,
block numbers of an indirect block, or pieces of contents.

`SysFile` cuts a call where a sleep lock is waited for and where icache.lock or
ftable.lock is taken: between two such places the inode locks held protect what
the call touches. `kern[p]` is the place of p in the kernel with the pointers its
call owns (`at` of namex, `ip`, `dp`, and `put`, the argument of iput); `user[p]`
its program, descriptors and current directory. iput is four steps
(`IputTest`, `IputFree`, `IputClear`, `IputUnref` in the order of fs.c:333-350), with
its windows between the locks.

A program is a sequence of calls with the results its author goes on with, taken
from usertests.c, stressfs.c, init.c, sh.c and the commands; one that sees
another result is in `failed`. Loops are cut to the turns that differ. Two
tests are one scenario for every choice of their calls (`LinkUnlink`), and eight
commands in the background run in all pairs (`JobPairs`).

Begin_op's wait is left out (Log has it); a write is cut into groups of
`MaxGroup` words as filewrite cuts it. What commands compute of what they read,
and what console and printf print, is not modelled. `lost` is a history variable,
see `LinksCounted`.

### 2.7 Vm, MemTests, Umalloc

kalloc.c and vm.c are operators on a record of free list, frames' contents and one
page directory, with `ok` for "no kalloc has failed". A loop of the C code that may fail
in the middle (`AddPages`, `AddKtables`, `LoadSegments`) is a function of the number of
turns made, one that only frees (`FreePages`, `KfreeAll`) is written as what it leaves,
and every error path is the code's. `Fork`, `Exec`,
`SbrkGrows`, `SbrkShrinks`, `Exit` and `Wait` are each one step: page tables are
their process's own, and of other calls only how many frames are left can be
seen. Sizes and addresses are in bytes and wrap at `UintRange`; `KTABLES` stands
for the page tables of kmap, and which of the free frames kalloc takes is left
out. A header or the words of an exec'd file may be missing (`read` of a segment), as
readi and loaduvm find out. `Init` is userinit up to init's kernel stack and first page;
a kernel without the frames for these does not get to a first process, and is no state
of the model.

`stale` says of a process that its processor may still have translations for pages it
no longer has. growproc and exec end in switchuvm, which drops them (`Switchuvm`); a
shrink to size 0 returns before it (proc.c:174-175). Such a process has no page, and no
system call of its own is described (`Runs`). Either it goes on through the old
translations (`RunsOn`), in frames that are free or already another's: what it does there
is anything at all, and the model stops with `lost`. Or the timer's yield comes first
(`Yield`), and it faults and exits. What the other properties of memory say, they say of
what happens up to `lost`.

`MemTests` has three ways to use it: any call of any process (`AnyStep`); any
mallocs, frees and sbrks of one program (`HeapStep`); and the tests of usertests
that are about memory, with the checks of their arguments in syscall.c and the
bytes the kernel then touches (`TestStep`). sbrk's and malloc's sizes are scaled
with the page. Lab3's vm.c is `Pager`'s.

### 2.8 Console, Shell

A step is what runs under cons.lock, from acquire to release. A read that goes to sleep
has two (`ReadWaits`, `ReadSleeps`), as a pipe's has: it keeps cons.lock, so that no key and
no other reader comes between (`LockFree`), but kill does not take that lock and may. The ring's counters wrap at `UintRange`, a
multiple of INPUT_BUF as in the code; they start just before the wrap. `ConsoleSpec` is
the console with any readers (`Keyboard`, and for each reader `InKernel` and
`Program`); what `Shell` does to the console is made of the same actions. `Shell`
adds main's loop as one of the readers: getcmd, gets character by character,
and a child that parses the line. `ShellParser` has gettoken, peek and the
recursive descent on one side, and on the other the grammar as the set of trees
of a line of tokens. What the trees do when they run is in `UserTests` (`Redir`,
`Pipeline`, `List`, `Back`).

## 3. Runs

All with `tlc -workers 2 -config <cfg> <module>`.

| run | cfg | shows | distinct states |
|---|---|---|---|
| proc_safety | ProcSafety | process table: locks, switches, families, wakeups; refinement of Mutex | 1,710,000 |
| proc_liveness | ProcLiveness | liveness of the round robin | 22,000 |
| pager_safety | PagerSafety | list, entries, page table, counters, limits | 1,970,000 |
| pager_slots | PagerSlots | violation: a swap slot is overwritten | - |
| log_safety | LogSafety | crash atomicity, space, the lone commit, the cache | 1,645,000 |
| pipe_safety | PipeSafety | bytes in order, life of the pipe, sleepers | 1,918,000 |
| pipe_kill | PipeKill | violation: a killed reader sleeps on | - |
| bcache_safety | BcacheSafety | one buffer per block, counts, the drive's queue; refinement of BlockStore; requests are served | 252,000 |
| fs_safety | FsSafety | the file system under its tests and under concurrent commands | 235,000 |
| fs_orphan | FsOrphan | violation: nobody frees a removed inode | - |
| vm_safety | VmSafety | frames, sizes, arguments, memory tests, heaps; refinement of PrivateMemory | 34,000 |
| shell_console | ShellConsole | readers, the line queue, the parser, the shell's loop | 488,000 |

### 3.1 Properties of Proc

- `TypeOK`: types, and the locals of a call set exactly during the call.
- `NoPanic`: the assertions of acquire, release and sched.
- `OneCpuPerProcess`: a kernel stack is used by one CPU, and a slot is not freed
  before its CPU has left it (wait against exit).
- `NoLostWakeup`: a sleeper on a lock has a holder or a wakeup under way. It is
  what sleep's "acquire ptable.lock, then release lk" is for.
- `ForkOwnsSlot`: the slot under construction is its fork's alone.
- `FamilySound`: who sleeps in wait has a live child, no zombie, and has not been
  killed; nobody is an orphan; pids name one process.
- `ImplementsMutex`: refinement of `Mutex`, whose state is who holds each lock.
- `RunnableRuns`, `WaitReturns`, `SleeperWakes`: liveness. `RunnableRuns` is about
  Lab3's round robin; it does not hold of the shortest-burst scheduler of Lab1+Lab2,
  whose starvation is a hazard without a property.

### 3.2 Properties of Pager

- `PagesAccounted`: the doubly linked list links exactly the entries in state 1;
  entries, page-table bits and offsets agree, one entry per page; hence no panic in
  writePageToFile and no fault without entry.
- `LimitsHold`: memory limit; the file counter counts the pages in the file; the
  unchecked search for a free entry succeeds; and although allocuvm at the limit
  leaves its pages mapped beyond sz, no later growth comes to them ("remap"). Pages are
  in the file only while memory is full, less one page after a failed allocation
  (`FileOnlyWhenFull`); so the list is not empty where the code dereferences its head,
  and fork panics only for a process with pages in the file.
- `PagesKeepData`: violated, see below.

### 3.3 Properties of Log

- `LogInBounds`: log_write finds room, although it looks without the lock and the
  on-disk log is a block shorter than what begin_op counts with.
- `CommitsAlone`: outstanding counts the operations inside, and there are none
  from end_op's decision to the end of the commit.
- `SleeperHasWaker`: who sleeps in begin_op has an operation or a commit to wake it.
- `CopiesAgree`: a buffer that may be dropped equals the disk; the blocks of the
  transaction stay in the cache; with nobody inside and no commit running, what the
  cache gives is what the disk has.
- `ImplementsAtomicDisk`: refinement. `durable` is what recovery would make of
  the disk as it is: the home blocks, overlaid with the log when its header
  lists them. Every commit is one step of the abstract disk (at `WriteHead`),
  and a crash takes `current` back to `durable`, also when it interrupts an
  installation or a recovery.

### 3.4 Properties of Pipe

- `PipeSound`: types; counts equal the references, an end that is referred to is
  open, and the page is there for whoever is inside a call.
- `SleepersHaveReason`: a sleeping reader has a writer and an empty pipe, a
  sleeping writer a reader and a full one. The exception, `abandoned`, is in the
  code: a writer that finds itself killed at a full pipe returns without waking
  the readers for the bytes it has stored (pipe.c:86-89); they sleep on until
  another write or close. The property says that there is no other case.
- `ImplementsFifo`: refinement of `Fifo`, with counters that overflow.
- `KilledComesToEnd`: violated, see below.

### 3.5 Properties of Bcache

- `OneBufferPerBlock`: a block is in one buffer at most.
- `RefcntIsUsers`: a buffer's count is the number of processes that count on it.
- `DriveServesHead`: the drive works on the head of the queue, no buffer is queued
  twice, and sleepers in iderw and queued buffers are the same.
- `ImplementsBlockStore`: through hits, recycling and delayed writes a block read
  is the block last written, and one process at a time works on it.
- `RequestServed`: who waits for the disk gets its answer.

### 3.6 Properties of the file system

- `DiskSound`: what the disk holds is a file system (`Laid`): a marked block belongs to one
  inode, which is not free, and every block of an inode is marked; a file has all blocks
  below its size, none of them its indirect block, and what a directory names is in the
  table. An entry that is valid and not locked equals the disk (`CacheCurrent`); types.
  Proved for all programs.
- `LinksCounted`: between transactions a link count is the number of names, and none is
  negative. An inode is out of the count (`lost`) when
  the directory that names it is freed with the name in it: open can put a name
  into a directory that was removed, as create does not look at its nlink.
- `InodesSound`: the count of a cache entry is the number of pointers to it, a
  file's the number of descriptors (`CountsAgree`); an inode is in one entry
  (`CachedOnce`); a lock is held within a call and on a counted entry (`LocksKept`);
  iput only inside a transaction (`IputInTransaction`). Proved for all programs.
- `PanicsAreKnown`: in these scenarios the kernel stops in two cases only, both
  reachable: a full disk (usertests' fsfull), and a walk through the ".." of a removed
  directory whose parent is gone too. Programs that make more files than there are inodes,
  or hold more than the cache has entries, meet two more ("ialloc: no inodes", fs.c:213,
  and "iget: no inodes", fs.c:262); none of the programs here does.
- `ProgramsAgree`: the tests get the results they go on with.
- `CyclesGoThroughIput`: rings of processes waiting for inode locks exist, and each
  has an iput with another inode locked (create and unlink put the parent before
  they unlock the child). The smallest ring is one process: dirlink, which finds the
  name taken, puts the inode with the directory locked, and in `ln README .`
  (`linkdot`) they are the same.
- `LastPutFrees`: violated, see below.

### 3.7 Properties of memory

- `FramesOwnedOnce`: every frame is free once or in one use, whichever allocation
  of fork, exec or sbrk fails.
- `SizeHolds`: a process that has a page has those below its size and no other, and
  runs through no translation that its page table does not have (growproc switches after
  each change); and what passes the checks of system call arguments is mapped. The
  exception (`Emptied`) is in the code: a process that sbrk has left without any page
  may go on through old translations (`RunsOn`). The property says that there is no
  other.
- `TestsPass`: the memory tests go through.
- `HeapsSound`: the ring is one, in order; blocks are apart, below the size, and
  together all that sbrk has given; no two free ones touch.
- `ImplementsPrivateMemory`: calls that fail change nothing, those that succeed
  only their own process; but sbrk to size 0, which fails with every page freed, is a
  `Shrink` of the abstract memory, and what a process does in pages it has given back
  is not described.

### 3.8 Properties of console and shell

- `ConsoleSound`: the ring's counters are in order, and a reader sleeps, or is about to,
  only while there is no ended line: a key is not missed. A kill may be,
  if it comes just before that sleep: a killed reader can sleep on until a line is ended,
  as one of a pipe can (3.11).
- `ImplementsLineQueue`: the characters typed, once and in order.
- `LinesComeToRun`: a line that is ended while nobody else reads, and wherever in it gets
  is, comes to the parser or, empty, ends the shell, though the shell takes it
  character by character and sleeps in between. The excuses are another reader that comes
  and takes of it, and a kill of the shell, after which it exits.
- `ParsesTheGrammar`: the parser accepts exactly the grammar, and builds its tree.

### 3.9 Bounds

`NPROC = 3` is the least with a parent, a child and a third party (init and its
adopted grandchildren). Two CPUs give every pairwise race on the lock. `MaxPid`
bounds the number of forks: 4 reuses a slot. The liveness run has one CPU, see
below. For the pager two pages in memory, two in the file (`MaxTotal = 4`) and
five addresses reach: list of length 0, 1 and 2, both slots, the limit, and
growth beyond it; a fork child inherits up to five. `MaxTime = 2` is one tick over a full list: it reverses the
order of old and new pages for the victim; more ticks repeat it.

The log has three blocks, two processes and `MaxWrites = 4`: groups of one and two
operations, absorption, a log that fills to what the reservation allows, a second
group after the first. Two crashes are one in normal work or in a commit and one
in the recovery from it. For the pipe a ring of two bytes and counters of two
bits overflow with the fifth byte (`MaxBytes = 4` lets a last call begin after
three); three processes are two of one kind and one of the other; `MaxKills = 1`.

Two buffers for three blocks make every miss recycle; with one block pinned the
cache is as full as its callers allow. The file system has files of three blocks,
one of them indirect (`BSIZE = 4`, `NDIRECT = 2`), fourteen inodes and nineteen
blocks, just what the tests need before the one that fills the disk; seven cache
entries and files and five processes, so that the tests of limits reach them.
Memory has 26 frames for three processes of up to eight pages under two page
tables: sbrktest takes all of them, and every kalloc of fork, exec and sbrk comes
to fail. `Shape` is a view: states that differ only in which frame is where
count as one. All lines of up to four characters, and of up to six from smaller
alphabets, go through the parser; the ring of three fills, and its counters wrap.

Deadlock is checked for Proc, Log and Bcache. A pipe may rest with everybody asleep
or dead, a file system or memory scenario ends when its programs have, and keys and
kills at the console are bounded. In Pager a panic stops the machine and the
clock stops at `MaxTime`.

### 3.10 Fairness

`FairSpec` of Proc assumes: every CPU's scheduler and every process inside the
kernel keep executing (weak fairness, a CPU does not stop), and timer interrupts
keep coming (strong fairness on `Yield`: an interrupt that comes while interrupts
are off is taken when they are on again). User programs owe nothing. With two CPUs
spinning on `xchg` no fairness between them is guaranteed by the code or the
hardware, so that liveness is claimed on one CPU only.

`FairSpec` of Pipe: the kernel code of each process goes on, and a killed process
comes to trap(). The behaviour pipe_kill shows has no contention for the lock and
ends with the victim asleep, so that no stronger fairness would exclude it.

Bcache: the drive finishes what it was given and interrupts, and a process that
has been woken goes on. Shell: a process in the kernel goes on, to its sleep
too, and so does the shell; keys and kills are not fair.

### 3.11 Disagreements found

1. `pager_slots`: a comparison of an unsigned offset with -1 is never true, so a
   swap overwrites another page's slot.
2. `pipe_kill`: kill wakes a process "from sleep if necessary", but one that has
   tested `p->killed` in piperead and not yet called sleep sleeps all the same.
   It takes a second CPU: the first has interrupts off there.
3. `fs_orphan`: iput frees an inode "if that was the last reference", but reads the
   count before it gives icache.lock up: two last puts see each other's reference,
   and the inode stays on disk without a name.

Known from the models and kept as hazards in `PROJECT.json`: the shortest-burst
scheduler can keep a longer job waiting for ever; kill marks free slots, so that
a process may be killed at birth; fork panics with a page in the swap file; consoleread
has the gap of 2 between its test of `p->killed` and its sleep; and growproc takes a
shrink to size 0 for a failure, and returns -1 with every page freed, sz as it was, and
before switchuvm: the process goes on in frames that are on the free list, until the next
switch, after which it faults.

## 4. Proofs

The theorems about Proc hold for every `NPROC`, `NCPU`, set of sleep locks, set of bursts
and either scheduler, from `SizesAssumption` (at least one slot and one CPU),
`PolicyAssumption` (1, the burst of a new process, is an allowed burst) and
`AddressAssumption` (locks and slots do not share addresses).

| theorem | states |
|---|---|
| ProcProofs!InvariantHolds | `Spec => []IInv` |
| ProcProofs!TypeCorrect, PanicFree, RunsOnOneCpu, ForkSlotOwned | `TypeOK`, `NoPanic`, `OneCpuPerProcess`, `ForkOwnsSlot` |
| ProcProofs!SleepLockTracksOwner, WakeupNotLost | `SleepLockOwner`, `NoLostWakeup` |
| ProcProofs!SleepLockIsMutex | `Spec => ImplementsMutex` |
| ProcProofs!FamilyIsSound | `FamilySound` |

The inductive invariant `IInv` adds to `TypeOK`: who holds `ptable.lock` in each
phase of the switch (`CpuInv`), a process on one CPU (`OnceInv`), the states a
process can have in each phase (`StateInv`: for instance on no CPU it is not
RUNNING, and between `Sched` and the release only the lock's holder sees it
off its CPU in a state that can be picked), where `swtch` returns (`ReturnInv`)
and what fork's slot looks like (`ForkInv`). None of the published properties is
inductive without the lock's hand-over: `OneCpuPerProcess` survives `Dispatch`
only because a RUNNABLE process still on another CPU implies that CPU holds the
lock that `Dispatch` needs. The second and third part of `ProcProofs` add to `IInv`,
once proved, what relates sleepers, holders and `locked`, and parents, states and
pids; each action is one step of the preservation proof. TLC checked `IInv` on
the instance of `proc_safety` before it was proved.

The theorems about Log hold for every set of blocks, finite set of operations and
sizes with `LogAssumption`.

| theorem | states |
|---|---|
| LogProofs!LogInvariant | `Spec => []IInv` |
| LogProofs!LogStaysInBounds, CommitIsAlone, SleeperIsWoken | `LogInBounds`, `CommitsAlone`, `SleeperHasWaker` |
| LogProofs!CrashInvariant | `Spec => []CrashInv` |
| LogProofs!LogCopiesAgree | `CopiesAgree` |
| LogProofs!LogIsAtomicDisk | `Spec => ImplementsAtomicDisk` |

`LogInBounds` rests on `SpaceInv`: the list and what the operations inside may still
add to it (`MayAdd`, one pair for each block an operation may still log) leave one
block of the on-disk log free. It is kept by begin_op because n reservations of
MAXOPBLOCKS exceed n times OpBlocks by n: by two at least when somebody is inside
already; the first operation finds the list empty and needs
`MAXOPBLOCKS < LOGSIZE`. It is kept by log_write because an appended block is one
its operation had in `MayAdd`, which needs `OwnInv`: a block an operation has
logged is listed. `StageInv` and `TailInv` say who is inside during a commit and
that the list is empty when nobody is. TLC checked `IInv` on the instance of
`log_safety` before it was proved.

Crash atomicity rests on `CrashInv`, added to `IInv` once that is proved.
`HeaderInv`: the header on the disk lists blocks from `WriteHead` until it is erased,
it then equals the list in memory, and no block is listed twice. `DirtyInv`: a listed
block is dirty, and so stays cached, until it is installed. `CopyInv`: which of
log, home and cache agree, up to `tail`, in each stage of the commit and of the
recovery. With these `WriteHead` is the one step that changes what recovery would
leave, and it changes it to what operations see (`WriteHeadMaps`); an installation or
a replay writes home only what recovery would take from the log (`InstallStutters`),
so that it may be cut short by a crash and begun again any number of times.

The theorems about Pipe hold for every number of processes, ring and width of the
counters with `PipeAssumption`: the ring's size divides the range of a uint, as
512 divides 2^32, and is less.

| theorem | states |
|---|---|
| PipeProofs!PipeInvariant | `Spec => []IInv` |
| PipeProofs!PipeIsSound, PipeSleepersHaveReason | `PipeSound`, `SleepersHaveReason` |
| PipeProofs!PipeIsFifo | `Spec => ImplementsFifo` |

`PipeOutlivesUsers` needs more than the counts: between fileclose, which drops the
last reference, and pipeclose the count is zero and the end still open. `OpenInv`
says that exactly then one process is in pipeclose with that end; `PlaceInv` that
who is inside a call has its descriptor. `SleepInv` extends `SleepersHaveReason` to
the processes between their test and their sleep, whose hold on the lock keeps
the reason true. Its arithmetic is that a writer which fills the ring leaves
`Room = 0` whatever the counters have wrapped to.

The refinement of Fifo adds `RingInv`: the counters are the numbers of bytes modulo
the range of a uint, and the bytes on their way are in their places. A byte's
place does not change when a counter overflows only because PIPESIZE divides the
range (`PlaceOfByte`); no byte is overwritten because bytes less than PIPESIZE apart
have different places (`PlacesDiffer`).

The theorems about Bcache hold for every set of blocks, contents and buffers and
every finite set of processes, from the assumptions in `Bcache` (at least one
buffer, one content, blocks that are numbers).

| theorem | states |
|---|---|
| DriverProofs!CacheInvariant | `Spec => []IInv` |
| DriverProofs!CacheTypeCorrect, CacheOneBufferPerBlock | `TypeOK`, `OneBufferPerBlock` |
| DriverProofs!CacheRefcntIsUsers, CacheDriveServesHead | `RefcntIsUsers`, `DriveServesHead` |
| DriverProofs!CacheIsBlockStore | `Spec => ImplementsBlockStore` |

The invariant adds to those four `PlaceInv` (whether a process holds the buffer it
asked for, by its place in the call), `DataInv` (a valid buffer that is not dirty equals the disk,
and one without data is held by the process that reads it) and `DriveInv` (what the
drive has done agrees with disk and buffer). `RefcntIsUsers` is what makes recycling safe: a buffer of count
zero has no user, and so is neither held nor queued nor being read. For the
refinement a lemma computes what a block is mapped to from the one buffer that
has it, and each action is a step of the store or leaves every block as it was.

The theorems about Console hold for every set of readers, ring and width of its counters
with `RingAssumption` (the ring divides the range of a uint and is less) and
`ConsoleAssumption`.

| theorem | states |
|---|---|
| DriverProofs!ConsoleInvariant | `ConsoleSpec => []CInv` |
| DriverProofs!ConsoleIsSound | `ConsoleSound` |
| DriverProofs!ConsoleIsLineQueue | `ConsoleSpec => ImplementsLineQueue` |

`CInv` says that the bytes read, written and being edited fit the ring whatever the
counters have wrapped to (`RingInv`), that the line being edited has no line end
(`EditInv`: without it a backspace could take back what a reader has been promised), and
that a call copies no more than it asked for (`CallInv`). `ConsoleSound` is about readers on
their way to sleep, too: cons.lock, which such a reader holds (`LockFree`), lets no key and
no other reader in before it is asleep. Kills may come at any of these steps; that
none is missed is not claimed. For the refinement a segment
of the ring, from a counter on, is a sequence; segments join (`SegJoin`), a key that is
stored leaves the others alone because places of a ring less than its size apart
differ, and each action of the console moves an end of one segment or the border
between two.

The theorems about Pager hold for every `MaxPhys`, `MaxTotal`, `Top` and `MaxTime` with
`PagerAssumption`: two pages in memory at least, and room for one in the file.

| theorem | states |
|---|---|
| PagerProofs!PagerInvariant | `Spec => []PInv` |
| PagerProofs!PagesAreAccounted, LimitsAreKept | `PagesAccounted`, `LimitsHold` |

The list is reached by following links, and what links say of it is no property of one
entry. So the invariant has the list as a sequence: `Linked(m, S)` is that some sequence
without repetition goes through S from the head, with the links of its neighbours at each
entry and no link anywhere else. Taking an entry out and appending one are then shown to
give such a sequence again (`UnlinkKeeps`, `AppendKeeps`), and following the links to
find exactly S (`ListedIs`, by induction over a set of numbers: its complement would have
a least element, `Least`). `Books` adds the agreement of entries, page table and counters;
it allows for the moment within deletePage in which an entry has been reset and is
still linked. `Leftover` is why a growth never meets the pages an earlier growth left
behind when it failed at the limit: at such a page, the pages in use and the unmapped
ones below it reach MAX_TOTAL_PAGES together, and each page a growth adds moves one
from the second to the first. `LimitsHold` is not inductive without it.

The theorems about Vm hold for every number of processes, frames and kernel page tables,
size of a page, of a page table and of the user's addresses, set of files and arguments of
sbrk, with `SizesAssumption` (KERNBASE is a number of whole pages and less than 2^32) and
`InputsAssumption` (what an ELF file and the calls may hold, no more; "absent", which stands
for no page, is no file's text).

| theorem | states |
|---|---|
| VmProofs!VmInvariant | `Spec => []VmInv` |
| VmProofs!VmTypeCorrect | `TypeOK` |
| VmProofs!FramesAreOwnedOnce | `FramesOwnedOnce` |
| VmProofs!SizesAreMapped | `SizeIsMapped`, the first half of `SizeHolds`: pages and translations |
| VmProofs!VmIsPrivateMemory | `Spec => ImplementsPrivateMemory` |

`FramesOwnedOnce` counts places of the whole machine, and a call works on the free list
and one page directory. So the invariant says it for a process and the rest: the slots of a page
directory (`Cell`: the directory, its page tables, its pages) are a table of frames, and
`OneUse(free, table, U)` is that every frame is free, in one slot of the table or in U,
what others use, and in one of these only. kalloc, kfree and a store into a slot keep it
(`UseTake`, `UseGive`, `UsePut`); each operator of vm.c and exec.c is then shown to lead from
such a memory to such a memory, whether it succeeds or fails (`AddPagesSound`,
`FreevmSound`, `CopyuvmSound`, `NewImageSound`), and to leave contents and free list alone
outside what it has (`Keeps`). A loop is treated by induction over its turns, from a function of
turns that is shown to exist (`TurnsExist`). `SplitFor` and `JoinFor` go from `SpaceInv` to one
process and back: fork and wait work on a slot with no memory or all of it, and exec on two
directories, the new one with the old one among the frames of others until the old one is freed and the
new one is among them instead (`BesideOld`, `LookAt`). `VmInv` is that
(`SpaceInv`) and `StaleFits`. `SizesFit` says "the pages below its size or none": growproc, which takes
deallocuvm's 0 for a failure, leaves a process with its old size and no page. `StaleFits` says that
such a process is the only one whose processor may have translations of pages it has
given back: whichever way a call of its own ends, a process that keeps a page has been switched to
since its page table lost one.

For the refinement the same lemmas carry contents. `Keeps` says that a call leaves the frames
of others as they were, so that the memory of one process at most changes (`OneRow`), and a call
that fails changes what nobody is shown (`ShownSame`). fork's copy has the original's page at
each address (`CopyuvmSound`), and sbrk's pages are zero. exec is by induction over the segments: after k of
them the new directory is as `Laid` says, the pages up to the largest end there, and in each what the last
segment covering it has (`LaidNext`); with the stack pages on top this is the `Layout` of the
image, which PrivateMemory expects (`LayoutIs`).

The theorems about SysFile hold for every disk, inode cache, file table, number of processes,
of descriptors and of words in a pipe, with `DiskAssumption` and `TablesAssumption` (they are
numbers, and the cache has an entry); for every image with an empty cache (`IsImage`), the
contents of the disk being anything at all; and for all programs (`ArePrograms`,
`AreCalls`: what is written is words, what is read a number of them, and a child runs calls).
No other field of a call is restricted: paths, descriptors and results may be anything.

| theorem | states |
|---|---|
| SysFileProofs!FsInvHolds | `Start(image, programs) /\ [][Next]_vars => []FsInv(calls, texts)` |
| SysFileProofs!InodesAreSound | `InodesSound` |
| SysFileProofs!PipesFit | `PipeInv`: what is in a pipe fits, and was written |

The counts are numbers of elements of three sets, over files, directories of processes and
pointers of calls. `RefsKept` turns a step of one process into a balance: what the count of each entry
gains is what the process' own pointers gain (`PtrCount`, at most four), so that each action is
left with a sum of zeros and ones. What makes it balance is `ProcInv`, which says for every place of
every call, the one that iput returns to included, which of `at`, `ip`, `dp` and `put` there are
(`PtrInv`) and which inodes are locked (`Holds`): a path out of a call that forgets an inode,
or a lock, breaks it. It also says where the current directory is missing (within chdir
and exit), and that iput never frees the inode its call has locked below. `LockInv` is then that the locks on the entries are these and no others, until
a panic: `Up` guards it, since a panic stops in the middle of a call. The operators of
Fs that touch blocks and copies of inodes leave counts, i-numbers and locks alone
(`Same`, one lemma each, the loop of writei by induction), which is why the contents of the disk do not
matter. kill, exit and wait change several processes; `AllStayKeeps` treats those in which no
pointer moves.

The two theorems of DiskProofs have the same programs and sizes, and one hypothesis more, that the image
is a file system (`IsFileSystem`: `Laid` and types; the root is an inode).

| theorem | states |
|---|---|
| DiskProofs!WholeInvHolds | `Start(image, programs) /\ [][Next]_vars => []WholeInv(calls, texts)` |
| DiskProofs!DiskStaysSound | `DiskSound` |

`WholeInv` is `FsInv`, `DiskInv` and `OffsetsFit`. `DiskSound` alone is not inductive. `CacheCurrent`
speaks of unlocked entries, and says nothing while iput has an inode whose copy and disk are both
free and which ialloc may give to another: `Mirror` says when a copy is the disk's, locked or not, and
`Clears` that who has a free inode locked is iput between its truncation and its unlock. `NamesStay` says that
the name unlink has found is still in the directory when it writes there, by the lock it keeps in between;
without it unlink would write at any offset. `OffsetsFit` bounds what write starts from by
MAXFILE blocks, which filewrite does not check and writei does.

A call works on copies of inodes that it has locked, and the disk is between two sound states
meanwhile. So the operators of Fs come in two kinds. Of those that leave the disk half
changed (bmap, a store, iupdate) a lemma says what they touch: one inode, its blocks, and
blocks that were free (`Rewrites`, `Extends`: bmap takes a block from the free map, a
zeroed one, and gives it to one place of the file). From `Held`, which is that an inode is locked and its copy is the disk's,
those that end a change come back to `Sound` and leave every other locked inode as it was (`Done`):
writei (`WriteiDone`, and for its loop by induction over the turns), dirlink, the links of `Dots`, iput's truncation (`FreeOfIs`).
`LaidStays` is the heart: an inode that is written, with blocks of its own or from the free map, takes none of another's. Each
action then moves the entries its process has locked and no others (`DiskMoves`). What the lemmas say ends with a
panic: it may come with a block taken and not yet owned, and the log drops the transaction.

TLC evaluates `IsFileSystem`, `ArePrograms` and `AreCalls` for the scenarios of MCFs
(`ScenariosAreLegal`), so that the theorems are about the programs that are run, too.

TLC checked each of these invariants on the instance of the component's run before
it was proved; `PInv` also for three pages in memory and one in the file, and `CInv` for two readers and
a ring of four.

Checked by TLC only: liveness, which is out of the prover's reach; of the file system
`LinksCounted`, which counts the entries of all directories, `PanicsAreKnown`, where the full disk depends on its
size, and what depends on the tests, `ProgramsAgree` and `CyclesGoThroughIput`; the shell; and of memory `MemTests`, the programs on top of `Vm`. `Umalloc`, which `MemTests` uses, and `ShellParser` have recursive
operators, which the prover does not take. The theorems about Console are about
`ConsoleSpec`; that the shell's steps are steps of it is by the definition of
`ConsoleStep` in `Shell`, which calls the recursive parser.

## 5. Not modelled

- Serial port, interrupt controllers, boot and the memory disk: pure I/O or code
  that runs once before there is concurrency. Output of characters.
- Errors of the disk drive; the second drive.
- sys_sleep and uptime (they wait for and read ticks), and Lab1's calls that only
  report; the assignments' own programs print what these return.
- Lab3's kernel processes, which nothing wakes, and its exec of a process that
  already has paging entries, after which the list is broken (see the hazards).
- Pipe copies that fault under the pipe's lock in Lab3: Pager and Pipe in one
  model are out of TLC's reach.
- What a failing printf, a string function or a command computes.
- mkfs on the host: only the image it makes (`Mkfs`).

What could come next: the composition of Pager with Pipe on a smaller pager, and a theorem
that link counts are right (`LinksCounted`) whatever programs run, on top of `WholeInv`: it
needs the number of names as a sum over directories, and the calls that have counted
a name they have not yet written.
