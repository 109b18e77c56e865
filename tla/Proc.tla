-------------------------------- MODULE Proc --------------------------------
(***************************************************************************)
(* Processes, CPUs and sleep locks of the kernel: proc.c (the process      *)
(* table, fork, exit, wait, kill, sleep, wakeup, yield, the per-CPU        *)
(* scheduler), sleeplock.c, and of spinlock.c what they rely on.           *)
(*                                                                         *)
(* Lab1+Lab2 replaces xv6's round-robin scheduler by "shortest burst       *)
(* first"; Lab3 keeps the round robin.  The constant ShortestFirst says    *)
(* which of the two trees is modelled; all the rest is common to both.     *)
(*                                                                         *)
(* One step is either one critical section under ptable.lock that does not *)
(* switch processes, or one stretch of kernel code between two moments at  *)
(* which another CPU can see or change what it touches.  ptable.lock is    *)
(* carried explicitly across swtch: the process that gives up the CPU      *)
(* acquires it, the scheduler inherits it, and the process that is run     *)
(* next releases it.                                                       *)
(***************************************************************************)
EXTENDS Integers, FiniteSets

CONSTANTS
  NPROC,          \* slots of ptable.proc
  NCPU,           \* processors running scheduler()
  SleepLocks,     \* the sleep locks processes contend for
  Bursts,         \* values passed to setBurstTime
  MaxPid,         \* BOUND: no fork once nextpid has passed it
  ShortestFirst   \* TRUE: scheduler of Lab1+Lab2; FALSE: scheduler of Lab3

Procs     == 1 .. NPROC      \* a slot; the order is the order of every table scan
CPUs      == 1 .. NCPU
NoProc    == 0               \* the null struct proc pointer
NoCpu     == 0
NoChan    == 0               \* the null channel
InitProc  == 1               \* slot and pid of the process made by userinit
PT        == "ptable"        \* ptable.lock
Locks     == {PT} \cup SleepLocks   \* a sleep lock names its inner spinlock lk

ASSUME SizesAssumption == NPROC \in Nat \ {0} /\ NCPU \in Nat \ {0} /\ MaxPid \in Nat
ASSUME PolicyAssumption == ShortestFirst \in BOOLEAN /\ Bursts \subseteq Int /\ 1 \in Bursts
\* An address is a channel: locks and process slots do not share addresses.
ASSUME AddressAssumption == PT \notin SleepLocks /\ SleepLocks \cap (0 .. NPROC) = {}

VARIABLES
  owner,     \* [Locks -> CPU holding the spinlock or NoCpu]  (locked and cpu of struct spinlock)
  cpuProc,   \* [CPUs -> cpu.proc]
  pos,       \* [CPUs -> next slot of the scheduler's scan, 0 outside a scan]
  state, pid, parent, chan, killed, burst,    \* fields of struct proc, by slot
  nextpid,
  at,        \* [Procs -> where the process stands in kernel code; "user" outside]
  phase,     \* [Procs -> "run", or where it is in the call of sched()]
  ret,       \* [Procs -> the caller of sched() that swtch will return into]
  child,     \* [Procs -> np of a fork under way]
  want,      \* [Procs -> the sleep lock it acquires, holds or releases]
  locked,    \* [SleepLocks -> sleeplock.locked]
  holderPid  \* [SleepLocks -> sleeplock.pid]

cpuVars   == <<owner, cpuProc, pos>>
tableVars == <<state, pid, parent, chan, killed, burst, nextpid>>
codeVars  == <<at, phase, ret, child, want>>
lockVars  == <<locked, holderPid>>
vars      == <<cpuVars, tableVars, codeVars, lockVars>>

-----------------------------------------------------------------------------
(* userinit has run and every CPU has entered scheduler().                 *)

Init ==
  /\ owner = [l \in Locks |-> NoCpu]
  /\ cpuProc = [c \in CPUs |-> NoProc]
  /\ pos = [c \in CPUs |-> 0]
  /\ state = [p \in Procs |-> IF p = InitProc THEN "RUNNABLE" ELSE "UNUSED"]
  /\ pid = [p \in Procs |-> IF p = InitProc THEN 1 ELSE 0]
  /\ parent = [p \in Procs |-> NoProc]
  /\ chan = [p \in Procs |-> NoChan]
  /\ killed = [p \in Procs |-> FALSE]
  /\ burst = [p \in Procs |-> 1]
  /\ nextpid = 2
  /\ at = [p \in Procs |-> "user"]
  /\ phase = [p \in Procs |-> "off"]
  /\ ret = [p \in Procs |-> "forkret"]
  /\ child = [p \in Procs |-> NoProc]
  /\ want = [p \in Procs |-> NoChan]
  /\ locked = [s \in SleepLocks |-> FALSE]
  /\ holderPid = [s \in SleepLocks |-> 0]

-----------------------------------------------------------------------------
(* Spinlocks.  acquire spins until the lock is free: its guard.  Interrupts *)
(* are off on a CPU while it holds a lock (ncli counts them).              *)

Free(l)    == owner[l] = NoCpu
Holds(c, l) == owner[l] = c
NoLocks(c) == \A l \in Locks : owner[l] # c

\* p executes ordinary code, its own, on CPU c.
Executes(p, c) == cpuProc[c] = p /\ phase[p] = "run"
\* p, on c, is in user code or at the start of a system call.  A killed process
\* does not enter a system call: trap() makes it exit.
InUser(p, c) == Executes(p, c) /\ at[p] = "user"
Calls(p, c)  == InUser(p, c) /\ ~killed[p]

-----------------------------------------------------------------------------
(* The scheduler and swtch.                                                *)

SchedAcquire(c) ==
  /\ cpuProc[c] = NoProc
  /\ pos[c] = 0
  /\ Free(PT)
  /\ owner' = [owner EXCEPT ![PT] = c]
  /\ pos' = [pos EXCEPT ![c] = 1]
  /\ UNCHANGED <<cpuProc, tableVars, codeVars, lockVars>>

NextRunnable_FromTop(c, i) ==       \* mutant: every choice restarts the scan
  state[i] = "RUNNABLE" /\ \A j \in Procs : j < i => state[j] # "RUNNABLE"

\* The first RUNNABLE slot of the table, from the scan's position on.
NextRunnable(c, i) ==
  /\ i >= pos[c]
  /\ state[i] = "RUNNABLE"
  /\ \A j \in Procs : pos[c] <= j /\ j < i => state[j] # "RUNNABLE"

\* The inner loop of Lab1+Lab2: first RUNNABLE slot of least burst_time.
ShortestRunnable(p) ==
  /\ state[p] = "RUNNABLE"
  /\ \A q \in Procs : state[q] = "RUNNABLE" =>
       burst[p] < burst[q] \/ (burst[p] = burst[q] /\ p <= q)

Chosen(i, p) == IF ShortestFirst THEN ShortestRunnable(p) ELSE p = i

\* switchuvm, state = RUNNING, swtch into the process; the lock goes with it.
Dispatch(c) ==
  /\ cpuProc[c] = NoProc
  /\ pos[c] # 0
  /\ \E i, p \in Procs :
       /\ NextRunnable(c, i)
       /\ Chosen(i, p)
       /\ cpuProc' = [cpuProc EXCEPT ![c] = p]
       /\ state' = [state EXCEPT ![p] = "RUNNING"]
       /\ phase' = [phase EXCEPT ![p] = "back"]
       /\ pos' = [pos EXCEPT ![c] = i + 1]
  /\ UNCHANGED <<owner, pid, parent, chan, killed, burst, nextpid, at, ret, child, want, lockVars>>

SchedRelease(c) ==
  /\ cpuProc[c] = NoProc
  /\ pos[c] # 0
  /\ \A i \in Procs : ~NextRunnable(c, i)
  /\ owner' = [owner EXCEPT ![PT] = NoCpu]
  /\ pos' = [pos EXCEPT ![c] = 0]
  /\ UNCHANGED <<cpuProc, tableVars, codeVars, lockVars>>

\* sched(): swtch from the process to the scheduler, which goes on with its scan.
Sched(p, c) ==
  /\ cpuProc[c] = p
  /\ phase[p] = "sched"
  /\ cpuProc' = [cpuProc EXCEPT ![c] = NoProc]
  /\ phase' = [phase EXCEPT ![p] = "off"]
  /\ UNCHANGED <<owner, pos, tableVars, at, ret, child, want, lockVars>>

Resume_KeepsLock(p, c) ==           \* mutant: forkret and yield do not release
  /\ cpuProc[c] = p
  /\ phase[p] = "back"
  /\ ret[p] \in {"forkret", "yield"}
  /\ phase' = [phase EXCEPT ![p] = "run"]
  /\ UNCHANGED <<cpuVars, tableVars, at, ret, child, want, lockVars>>

\* swtch returns into forkret or yield, which release ptable.lock.
Resume(p, c) ==
  /\ cpuProc[c] = p
  /\ phase[p] = "back"
  /\ ret[p] \in {"forkret", "yield"}
  /\ phase' = [phase EXCEPT ![p] = "run"]
  /\ owner' = [owner EXCEPT ![PT] = NoCpu]
  /\ UNCHANGED <<cpuProc, pos, tableVars, at, ret, child, want, lockVars>>

\* The timer interrupt of trap() calls yield() wherever interrupts are enabled.
Yield(p, c) ==
  /\ Executes(p, c)
  /\ NoLocks(c)
  /\ Free(PT)
  /\ owner' = [owner EXCEPT ![PT] = c]
  /\ state' = [state EXCEPT ![p] = "RUNNABLE"]
  /\ phase' = [phase EXCEPT ![p] = "sched"]
  /\ ret' = [ret EXCEPT ![p] = "yield"]
  /\ UNCHANGED <<cpuProc, pos, pid, parent, chan, killed, burst, nextpid, at, child, want, lockVars>>

-----------------------------------------------------------------------------
(* fork.  allocproc takes the first free slot under the lock; the rest of  *)
(* the child is built without it; the child is made RUNNABLE under it.     *)
(* With no free slot fork returns -1 and changes nothing.                  *)

FirstUnused(q) == state[q] = "UNUSED" /\ \A r \in Procs : r < q => state[r] # "UNUSED"

AllocProc(p, c) ==
  /\ Calls(p, c)
  /\ Free(PT)
  /\ nextpid <= MaxPid
  /\ \E q \in Procs :
       /\ FirstUnused(q)
       /\ state' = [state EXCEPT ![q] = "EMBRYO"]
       /\ pid' = [pid EXCEPT ![q] = nextpid]
       /\ burst' = [burst EXCEPT ![q] = 1]
       /\ child' = [child EXCEPT ![p] = q]
  /\ nextpid' = nextpid + 1
  /\ at' = [at EXCEPT ![p] = "fork"]
  /\ UNCHANGED <<cpuVars, parent, chan, killed, phase, ret, want, lockVars>>

\* No memory for the kernel stack or for the copy: the slot is given back,
\* without the lock, and keeps its pid.
ForkFail(p, c) ==
  /\ Executes(p, c)
  /\ at[p] = "fork"
  /\ state' = [state EXCEPT ![child[p]] = "UNUSED"]
  /\ child' = [child EXCEPT ![p] = NoProc]
  /\ at' = [at EXCEPT ![p] = "user"]
  /\ UNCHANGED <<cpuVars, pid, parent, chan, killed, burst, nextpid, phase, ret, want, lockVars>>

\* The stack is set up to start in forkret; np->parent = curproc.
ForkCopy(p, c) ==
  /\ Executes(p, c)
  /\ at[p] = "fork"
  /\ ret' = [ret EXCEPT ![child[p]] = "forkret"]
  /\ parent' = [parent EXCEPT ![child[p]] = p]
  /\ at' = [at EXCEPT ![p] = "forked"]
  /\ UNCHANGED <<cpuVars, state, pid, chan, killed, burst, nextpid, phase, child, want, lockVars>>

ForkRun(p, c) ==
  /\ Executes(p, c)
  /\ at[p] = "forked"
  /\ Free(PT)
  /\ state' = [state EXCEPT ![child[p]] = "RUNNABLE"]
  /\ child' = [child EXCEPT ![p] = NoProc]
  /\ at' = [at EXCEPT ![p] = "user"]
  /\ UNCHANGED <<cpuVars, pid, parent, chan, killed, burst, nextpid, phase, ret, want, lockVars>>

-----------------------------------------------------------------------------
(* wakeup1, exit, wait, kill.                                              *)

Wakeup1_First(st, ch) ==            \* mutant: only the first sleeper is woken
  [q \in Procs |->
     IF /\ st[q] = "SLEEPING" /\ chan[q] = ch
        /\ \A r \in Procs : r < q => ~(st[r] = "SLEEPING" /\ chan[r] = ch)
       THEN "RUNNABLE" ELSE st[q]]

Wakeup1(st, ch) ==
  [q \in Procs |-> IF st[q] = "SLEEPING" /\ chan[q] = ch THEN "RUNNABLE" ELSE st[q]]

Children(p) == {q \in Procs : parent[q] = p}

AfterExit_Silent(p) ==              \* mutant: the parent is not woken
  [IF \E q \in Children(p) : state[q] = "ZOMBIE" THEN Wakeup1(state, InitProc) ELSE state
    EXCEPT ![p] = "ZOMBIE"]

\* The table after exit: the parent woken, init too if it adopts a zombie.
AfterExit(p) ==
  LET woken == Wakeup1(state, parent[p])
      adopting == \E q \in Children(p) : woken[q] = "ZOMBIE"
  IN [IF adopting THEN Wakeup1(woken, InitProc) ELSE woken EXCEPT ![p] = "ZOMBIE"]

Reparented_Live(p) ==               \* mutant: children already dead are skipped
  [q \in Procs |-> IF parent[q] = p /\ state[q] # "ZOMBIE" THEN InitProc ELSE parent[q]]

\* Abandoned children are passed to init.
Reparented(p) == [q \in Procs |-> IF parent[q] = p THEN InitProc ELSE parent[q]]

\* Closing the files is left out; init never exits (that would panic).
Exit(p, c) ==
  /\ InUser(p, c)
  /\ p # InitProc
  /\ Free(PT)
  /\ owner' = [owner EXCEPT ![PT] = c]
  /\ state' = AfterExit(p)
  /\ parent' = Reparented(p)
  /\ phase' = [phase EXCEPT ![p] = "sched"]
  /\ ret' = [ret EXCEPT ![p] = "exit"]
  /\ UNCHANGED <<cpuProc, pos, pid, chan, killed, burst, nextpid, at, child, want, lockVars>>

WaitCall(p, c) ==
  /\ Calls(p, c)
  /\ Free(PT)
  /\ owner' = [owner EXCEPT ![PT] = c]
  /\ at' = [at EXCEPT ![p] = "wait"]
  /\ UNCHANGED <<cpuProc, pos, tableVars, phase, ret, child, want, lockVars>>

WaitScans(p, c) == Executes(p, c) /\ at[p] = "wait"

ZombieChild(p, q) == parent[q] = p /\ state[q] = "ZOMBIE"

WaitReap(p, c) ==
  /\ WaitScans(p, c)
  /\ \E q \in Procs :
       /\ ZombieChild(p, q)
       /\ \A r \in Procs : r < q => ~ZombieChild(p, r)
       /\ state' = [state EXCEPT ![q] = "UNUSED"]
       /\ pid' = [pid EXCEPT ![q] = 0]
       /\ parent' = [parent EXCEPT ![q] = NoProc]
       /\ killed' = [killed EXCEPT ![q] = FALSE]
  /\ owner' = [owner EXCEPT ![PT] = NoCpu]
  /\ at' = [at EXCEPT ![p] = "user"]
  /\ UNCHANGED <<cpuProc, pos, chan, burst, nextpid, phase, ret, child, want, lockVars>>

\* No child, or killed: wait returns -1.
WaitFail(p, c) ==
  /\ WaitScans(p, c)
  /\ \A q \in Procs : ~ZombieChild(p, q)
  /\ Children(p) = {} \/ killed[p]
  /\ owner' = [owner EXCEPT ![PT] = NoCpu]
  /\ at' = [at EXCEPT ![p] = "user"]
  /\ UNCHANGED <<cpuProc, pos, tableVars, phase, ret, child, want, lockVars>>

\* sleep(curproc, &ptable.lock)
WaitSleep(p, c) ==
  /\ WaitScans(p, c)
  /\ \A q \in Procs : ~ZombieChild(p, q)
  /\ Children(p) # {} /\ ~killed[p]
  /\ chan' = [chan EXCEPT ![p] = p]
  /\ state' = [state EXCEPT ![p] = "SLEEPING"]
  /\ phase' = [phase EXCEPT ![p] = "sched"]
  /\ ret' = [ret EXCEPT ![p] = "wait"]
  /\ UNCHANGED <<cpuVars, pid, parent, killed, burst, nextpid, at, child, want, lockVars>>

WaitResume_KeepsChan(p, c) ==       \* mutant: sleep does not tidy up
  /\ cpuProc[c] = p
  /\ phase[p] = "back"
  /\ ret[p] = "wait"
  /\ phase' = [phase EXCEPT ![p] = "run"]
  /\ UNCHANGED <<cpuVars, tableVars, at, ret, child, want, lockVars>>

\* sleep returns into wait still holding ptable.lock; wait scans again.
WaitResume(p, c) ==
  /\ cpuProc[c] = p
  /\ phase[p] = "back"
  /\ ret[p] = "wait"
  /\ chan' = [chan EXCEPT ![p] = NoChan]
  /\ phase' = [phase EXCEPT ![p] = "run"]
  /\ UNCHANGED <<cpuVars, state, pid, parent, killed, burst, nextpid, at, ret, child, want, lockVars>>

AfterKill_Any(st) == IF st # "UNUSED" THEN "RUNNABLE" ELSE st       \* mutant
AfterKill_Idle(st) == IF st # "RUNNING" THEN "RUNNABLE" ELSE st     \* mutant

\* Wake the process from sleep if necessary.
AfterKill(st) == IF st = "SLEEPING" THEN "RUNNABLE" ELSE st

\* Any argument but the pid of init, whose exit would panic.
KillArgs == 0 .. MaxPid \ {1}

Kill(p, c) ==
  /\ Calls(p, c)
  /\ Free(PT)
  /\ \E n \in KillArgs, q \in Procs :
       /\ pid[q] = n
       /\ \A r \in Procs : r < q => pid[r] # n
       /\ killed' = [killed EXCEPT ![q] = TRUE]
       /\ state' = [state EXCEPT ![q] = AfterKill(@)]
  /\ UNCHANGED <<cpuVars, pid, parent, chan, burst, nextpid, codeVars, lockVars>>

\* setBurstTime writes the field of the running process without the lock.
SetBurstTime(p, c) ==
  /\ Calls(p, c)
  /\ \E n \in Bursts : burst' = [burst EXCEPT ![p] = n]
  /\ UNCHANGED <<cpuVars, state, pid, parent, chan, killed, nextpid, codeVars, lockVars>>

-----------------------------------------------------------------------------
(* Sleep locks, with sleep() on the lock's own address.                    *)

AcquireSleepCall(p, c) ==
  /\ Calls(p, c)
  /\ \E s \in SleepLocks : want' = [want EXCEPT ![p] = s]
  /\ at' = [at EXCEPT ![p] = "acquiresleep"]
  /\ UNCHANGED <<cpuVars, tableVars, phase, ret, child, lockVars>>

AcquireSleepTake_Untested(p, c) ==  \* mutant: "if" for "while"
  /\ Executes(p, c)
  /\ at[p] = "acquiresleep"
  /\ Free(want[p])
  /\ locked' = [locked EXCEPT ![want[p]] = TRUE]
  /\ holderPid' = [holderPid EXCEPT ![want[p]] = pid[p]]
  /\ at' = [at EXCEPT ![p] = "critical"]
  /\ UNCHANGED <<cpuVars, tableVars, phase, ret, child, want>>

\* acquire(&lk->lk) with the lock free: take it, release lk->lk.
AcquireSleepTake(p, c) ==
  /\ Executes(p, c)
  /\ at[p] = "acquiresleep"
  /\ Free(want[p])
  /\ ~locked[want[p]]
  /\ locked' = [locked EXCEPT ![want[p]] = TRUE]
  /\ holderPid' = [holderPid EXCEPT ![want[p]] = pid[p]]
  /\ at' = [at EXCEPT ![p] = "critical"]
  /\ UNCHANGED <<cpuVars, tableVars, phase, ret, child, want>>

AcquireSleepBusy_Unlocks(p, c) ==   \* mutant: lk->lk is released before sleep()
  /\ Executes(p, c)
  /\ at[p] = "acquiresleep"
  /\ Free(want[p])
  /\ locked[want[p]]
  /\ at' = [at EXCEPT ![p] = "sleep"]
  /\ UNCHANGED <<cpuVars, tableVars, phase, ret, child, want, lockVars>>

\* ... and with the lock held: call sleep(lk, &lk->lk), holding lk->lk.
AcquireSleepBusy(p, c) ==
  /\ Executes(p, c)
  /\ at[p] = "acquiresleep"
  /\ Free(want[p])
  /\ locked[want[p]]
  /\ owner' = [owner EXCEPT ![want[p]] = c]
  /\ at' = [at EXCEPT ![p] = "sleep"]
  /\ UNCHANGED <<cpuProc, pos, tableVars, phase, ret, child, want, lockVars>>

\* sleep(): acquire ptable.lock, only then release lk; chan, state, sched().
Sleep(p, c) ==
  /\ Executes(p, c)
  /\ at[p] = "sleep"
  /\ Free(PT)
  /\ owner' = [owner EXCEPT ![PT] = c, ![want[p]] = NoCpu]
  /\ chan' = [chan EXCEPT ![p] = want[p]]
  /\ state' = [state EXCEPT ![p] = "SLEEPING"]
  /\ phase' = [phase EXCEPT ![p] = "sched"]
  /\ ret' = [ret EXCEPT ![p] = "sleep"]
  /\ UNCHANGED <<cpuProc, pos, pid, parent, killed, burst, nextpid, at, child, want, lockVars>>

\* Back in sleep(): chan = 0, release ptable.lock; next, reacquire lk and retest.
SleepResume(p, c) ==
  /\ cpuProc[c] = p
  /\ phase[p] = "back"
  /\ ret[p] = "sleep"
  /\ chan' = [chan EXCEPT ![p] = NoChan]
  /\ owner' = [owner EXCEPT ![PT] = NoCpu]
  /\ phase' = [phase EXCEPT ![p] = "run"]
  /\ at' = [at EXCEPT ![p] = "acquiresleep"]
  /\ UNCHANGED <<cpuProc, pos, state, pid, parent, killed, burst, nextpid, ret, child, want, lockVars>>

ReleaseSleep(p, c) ==
  /\ Executes(p, c)
  /\ at[p] = "critical"
  /\ Free(want[p])
  /\ owner' = [owner EXCEPT ![want[p]] = c]
  /\ locked' = [locked EXCEPT ![want[p]] = FALSE]
  /\ holderPid' = [holderPid EXCEPT ![want[p]] = 0]
  /\ at' = [at EXCEPT ![p] = "wakeup"]
  /\ UNCHANGED <<cpuProc, pos, tableVars, phase, ret, child, want>>

\* wakeup(lk) under ptable.lock, then release(&lk->lk).
ReleaseSleepWakeup(p, c) ==
  /\ Executes(p, c)
  /\ at[p] = "wakeup"
  /\ Free(PT)
  /\ state' = Wakeup1(state, want[p])
  /\ owner' = [owner EXCEPT ![want[p]] = NoCpu]
  /\ want' = [want EXCEPT ![p] = NoChan]
  /\ at' = [at EXCEPT ![p] = "user"]
  /\ UNCHANGED <<cpuProc, pos, pid, parent, chan, killed, burst, nextpid, phase, ret, child, lockVars>>

-----------------------------------------------------------------------------
Scheduler(c) == SchedAcquire(c) \/ Dispatch(c) \/ SchedRelease(c)

\* Steps the process takes by itself once inside the kernel.
Kernel(p, c) ==
  \/ Sched(p, c) \/ Resume(p, c) \/ WaitResume(p, c) \/ SleepResume(p, c)
  \/ ForkFail(p, c) \/ ForkCopy(p, c) \/ ForkRun(p, c)
  \/ WaitReap(p, c) \/ WaitFail(p, c) \/ WaitSleep(p, c)
  \/ AcquireSleepTake(p, c) \/ AcquireSleepBusy(p, c) \/ Sleep(p, c)
  \/ ReleaseSleep(p, c) \/ ReleaseSleepWakeup(p, c)

\* What a user program may or may not ask for.
User(p, c) ==
  \/ AllocProc(p, c) \/ Exit(p, c) \/ WaitCall(p, c) \/ Kill(p, c)
  \/ SetBurstTime(p, c) \/ AcquireSleepCall(p, c)

Next ==
  \/ \E c \in CPUs : Scheduler(c)
  \/ \E p \in Procs, c \in CPUs : Kernel(p, c) \/ User(p, c) \/ Yield(p, c)

Spec == Init /\ [][Next]_vars

\* A CPU never stops executing.  The timer keeps interrupting: an interrupt that
\* comes while interrupts are off is taken when they are on again.
Fairness ==
  /\ \A c \in CPUs : WF_vars(Scheduler(c))
  /\ \A p \in Procs, c \in CPUs : WF_vars(Kernel(p, c)) /\ SF_vars(Yield(p, c))

FairSpec == Spec /\ Fairness

-----------------------------------------------------------------------------
(* Properties.                                                             *)

OnCpu(p) == \E c \in CPUs : cpuProc[c] = p

States == {"UNUSED", "EMBRYO", "SLEEPING", "RUNNABLE", "RUNNING", "ZOMBIE"}
Places == {"user", "fork", "forked", "wait", "acquiresleep", "sleep", "critical", "wakeup"}

\* Every variable has its type, and the locals of a call are set exactly while the
\* call is under way: np in fork, lk in the sleep-lock calls, chan inside sleep().
TypeOK ==
  /\ owner \in [Locks -> CPUs \cup {NoCpu}]
  /\ cpuProc \in [CPUs -> Procs \cup {NoProc}]
  /\ pos \in [CPUs -> 0 .. NPROC + 1]
  /\ state \in [Procs -> States]
  /\ pid \in [Procs -> Nat]
  /\ parent \in [Procs -> Procs \cup {NoProc}]
  /\ chan \in [Procs -> Procs \cup SleepLocks \cup {NoChan}]
  /\ killed \in [Procs -> BOOLEAN]
  /\ burst \in [Procs -> Bursts]
  /\ nextpid \in Nat
  /\ at \in [Procs -> Places]
  /\ phase \in [Procs -> {"run", "sched", "off", "back"}]
  /\ ret \in [Procs -> {"forkret", "yield", "wait", "sleep", "exit"}]
  /\ child \in [Procs -> Procs \cup {NoProc}]
  /\ want \in [Procs -> SleepLocks \cup {NoChan}]
  /\ locked \in [SleepLocks -> BOOLEAN]
  /\ holderPid \in [SleepLocks -> Nat]
  /\ \A p \in Procs :
       /\ (child[p] = NoProc) <=> at[p] \notin {"fork", "forked"}
       /\ (want[p] = NoChan) <=> at[p] \notin {"acquiresleep", "sleep", "critical", "wakeup"}
       /\ phase[p] = "run" => chan[p] = NoChan

\* The panics of acquire, release and sched never fire: whoever releases a lock
\* holds it, nobody acquires a lock its CPU holds, sched() is entered with
\* ptable.lock and no other lock held and a state other than RUNNING, and a process
\* that has exited is not resumed ("zombie exit").
NoPanic ==
  /\ \A c \in CPUs : cpuProc[c] = NoProc /\ pos[c] # 0 => Holds(c, PT)
  /\ \A c \in CPUs, p \in Procs : cpuProc[c] = p =>
       /\ phase[p] \in {"sched", "back"} => Holds(c, PT)
       /\ phase[p] = "sched" => /\ \A s \in SleepLocks : ~Holds(c, s)
                                /\ state[p] # "RUNNING"
       /\ phase[p] = "back" => ret[p] # "exit"
       /\ phase[p] = "run" =>
            /\ Holds(c, PT) <=> at[p] = "wait"
            /\ \A s \in SleepLocks :
                 Holds(c, s) <=> want[p] = s /\ at[p] \in {"sleep", "wakeup"}

\* A process's kernel stack is in use by one CPU at most, a RUNNING process has a
\* CPU, and the slot and stack of a process on a CPU are not free: a process is not
\* run elsewhere, nor its stack reclaimed by wait, before its CPU has left it.
OneCpuPerProcess ==
  /\ \A c, d \in CPUs : cpuProc[c] = cpuProc[d] /\ cpuProc[c] # NoProc => c = d
  /\ \A p \in Procs :
       /\ state[p] = "RUNNING" => OnCpu(p)
       /\ OnCpu(p) => state[p] \notin {"UNUSED", "EMBRYO"}
       /\ OnCpu(p) <=> phase[p] # "off"

\* No wakeup is lost between the test in acquiresleep and the sleep in sleep():
\* whoever sleeps on a lock has someone who will wake it.
NoLostWakeup ==
  \A p \in Procs, s \in SleepLocks :
    state[p] = "SLEEPING" /\ chan[p] = s =>
      locked[s] \/ \E q \in Procs : at[q] = "wakeup" /\ want[q] = s

\* A process sleeping in wait has a child to wait for, none of its children has
\* exited, and it has not been killed: exit, its reparenting and kill all woke it.
WaiterHasReason ==
  \A p \in Procs : state[p] = "SLEEPING" /\ chan[p] = p =>
    /\ Children(p) # {}
    /\ \A q \in Children(p) : state[q] # "ZOMBIE"
    /\ ~killed[p]

\* exit leaves no orphan: a process other than init has a parent that is alive,
\* so that somebody can still reap it.
NoOrphans ==
  \A p \in Procs \ {InitProc} : state[p] \notin {"UNUSED", "EMBRYO"} =>
    /\ parent[p] # NoProc
    /\ state[parent[p]] \in {"SLEEPING", "RUNNABLE", "RUNNING"}

\* kill stops at the first slot with the pid: no other slot, free slots that kept
\* the pid of a failed fork included, has the pid of a process.
PidsUnique ==
  \A p, q \in Procs : pid[p] = pid[q] /\ pid[p] # 0 => p = q

\* The family that fork, exit and wait keep is consistent at every moment between
\* their steps: a pid names one process, every process has a living parent to reap
\* it, and a parent that sleeps in wait has a child to wait for.
FamilySound == PidsUnique /\ WaiterHasReason /\ NoOrphans

\* The slot fork builds its child in, partly without the lock, is nobody else's
\* until fork makes it RUNNABLE or gives it back.
ForkOwnsSlot ==
  \A p \in Procs : child[p] # NoProc =>
    /\ state[child[p]] = "EMBRYO"
    /\ \A q \in Procs : child[q] = child[p] => q = p

\* lk->locked and lk->pid (which holdingsleep trusts) agree with who is inside.
Inside(s) == {p \in Procs : at[p] = "critical" /\ want[p] = s}
SleepLockOwner ==
  \A s \in SleepLocks :
    /\ locked[s] <=> Inside(s) # {}
    /\ \A p \in Inside(s) : holderPid[s] = pid[p]

\* acquiresleep and releasesleep, sleeping and waking included, implement a mutex.
M == INSTANCE Mutex WITH Threads <- Procs, LockIds <- SleepLocks,
                         inside <- [s \in SleepLocks |-> Inside(s)]
ImplementsMutex == M!Spec

\* A process that is ready to run gets its turn.
RunnableRuns == \A p \in Procs : state[p] = "RUNNABLE" ~> state[p] = "RUNNING"

\* wait returns once a child has exited.
WaitReturns ==
  \A p \in Procs : (at[p] = "wait" /\ \E q \in Procs : ZombieChild(p, q)) ~> at[p] # "wait"

\* A process asleep on a lock that has been released does not sleep on.
SleeperWakes ==
  \A p \in Procs, s \in SleepLocks :
    (state[p] = "SLEEPING" /\ chan[p] = s /\ ~locked[s]) ~> state[p] # "SLEEPING"
=============================================================================
