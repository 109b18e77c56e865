----------------------------- MODULE ProcProofs -----------------------------
(***************************************************************************)
(* The safety of the lock hand-over through swtch, for any number of       *)
(* processes, CPUs and sleep locks and for either scheduler.               *)
(***************************************************************************)
EXTENDS Proc, TLAPS

Switching(p) == phase[p] \in {"sched", "back"}

\* A CPU in its scheduler holds ptable.lock during a scan and nothing else; a CPU on
\* a process that is inside sched() holds ptable.lock and nothing else; the scheduler
\* of a CPU that runs a process has left it in the middle of a scan.
CpuInv ==
  \A c \in CPUs :
    /\ cpuProc[c] # NoProc => pos[c] # 0
    /\ cpuProc[c] = NoProc =>
         /\ Holds(c, PT) <=> pos[c] # 0
         /\ \A s \in SleepLocks : ~Holds(c, s)
    /\ \A p \in Procs : cpuProc[c] = p =>
         /\ phase[p] # "off"
         /\ Switching(p) => Holds(c, PT) /\ \A s \in SleepLocks : ~Holds(c, s)
         /\ phase[p] = "run" =>
              /\ Holds(c, PT) <=> at[p] = "wait"
              /\ \A s \in SleepLocks :
                   Holds(c, s) <=> want[p] = s /\ at[p] \in {"sleep", "wakeup"}

\* No process is on two CPUs, and the phase of one tells whether it is on one.
OnceInv ==
  /\ \A c, d \in CPUs : cpuProc[c] = cpuProc[d] /\ cpuProc[c] # NoProc => c = d
  /\ \A p \in Procs : phase[p] # "off" => OnCpu(p)

\* The state field a process has in each phase.
StateInv ==
  \A p \in Procs :
    /\ phase[p] \in {"run", "back"} => state[p] = "RUNNING"
    /\ phase[p] = "sched" => state[p] \in {"RUNNABLE", "SLEEPING", "ZOMBIE"}
    /\ phase[p] = "off" => state[p] # "RUNNING"
    /\ state[p] \in {"UNUSED", "EMBRYO"} => phase[p] = "off"
    /\ state[p] \in {"UNUSED", "EMBRYO", "ZOMBIE"} => at[p] = "user" /\ chan[p] = NoChan
    /\ state[p] \in {"RUNNABLE", "SLEEPING"} => ret[p] # "exit"
    /\ phase[p] = "back" => ret[p] # "exit"

\* Where a process that is not running its own code will go on.
ReturnInv ==
  \A p \in Procs : phase[p] # "run" =>
    /\ ret[p] \in {"forkret", "exit"} => at[p] = "user"
    /\ ret[p] = "yield" => at[p] \notin {"wait", "sleep", "wakeup"}
    /\ ret[p] = "wait" => at[p] = "wait"
    /\ ret[p] = "sleep" => at[p] = "sleep"
    /\ ret[p] \in {"forkret", "yield", "exit"} => chan[p] = NoChan

ForkInv ==
  /\ ForkOwnsSlot
  /\ \A p \in Procs : at[p] = "forked" => ret[child[p]] = "forkret"

IInv == TypeOK /\ CpuInv /\ OnceInv /\ StateInv /\ ReturnInv /\ ForkInv

-----------------------------------------------------------------------------
\* Null pointers name no process, CPU or lock; ptable.lock is not a sleep lock.
LEMMA Constants ==
  /\ NoProc \notin Procs /\ NoCpu \notin CPUs
  /\ NoChan \notin Procs /\ NoChan \notin SleepLocks
  /\ \A s \in SleepLocks : s \notin Procs
  /\ PT \notin SleepLocks
  /\ InitProc \in Procs
  /\ 1 \in Bursts
BY SizesAssumption, PolicyAssumption, AddressAssumption
   DEF Procs, CPUs, NoProc, NoCpu, NoChan, InitProc

\* The invariant holds when userinit has run and every CPU enters scheduler().
LEMMA InitInv == Init => IInv
<1> SUFFICES ASSUME Init PROVE IInv
  OBVIOUS
<1> USE Constants DEF Init
<1>1. TypeOK BY SizesAssumption DEF TypeOK, Locks, States, Places
<1>2. CpuInv BY DEF CpuInv, Holds, Locks, Switching
<1>3. OnceInv BY DEF OnceInv
<1>4. StateInv BY DEF StateInv
<1>5. ReturnInv BY DEF ReturnInv
<1>6. ForkInv BY DEF ForkInv, ForkOwnsSlot
<1> QED BY <1>1, <1>2, <1>3, <1>4, <1>5, <1>6 DEF IInv

\* Every step, of the scheduler, of a process in the kernel, of a program or of the
\* timer, preserves it.
LEMMA NextInv == ASSUME IInv, [Next]_vars PROVE IInv'
<1> USE Constants, SizesAssumption DEF IInv
<1>1. ASSUME NEW c \in CPUs, SchedAcquire(c) PROVE IInv'
  <2> USE <1>1 DEF SchedAcquire, cpuVars, tableVars, codeVars, lockVars
  <2>1. TypeOK' BY DEF TypeOK, ReturnInv, Locks, States, Places
  <2>2. CpuInv' BY DEF TypeOK, CpuInv, OnceInv, ReturnInv, Switching, Holds, Free, Locks
  <2>3. OnceInv' BY DEF TypeOK, CpuInv, OnceInv, StateInv, OnCpu, Holds
  <2>4. StateInv' BY DEF TypeOK, CpuInv, OnceInv, StateInv, OnCpu, Switching, Holds, Free
  <2>5. ReturnInv' BY DEF TypeOK, CpuInv, StateInv, ReturnInv, Holds
  <2>6. ForkInv' BY DEF TypeOK, StateInv, ForkInv, ForkOwnsSlot
  <2> QED BY <2>1, <2>2, <2>3, <2>4, <2>5, <2>6 DEF IInv
<1>2. ASSUME NEW c \in CPUs, Dispatch(c) PROVE IInv'
  <2> USE <1>2 DEF Dispatch, NextRunnable, Chosen, ShortestRunnable, cpuVars, tableVars, codeVars, lockVars
  <2>1. TypeOK' BY SMTT(40) DEF TypeOK, ReturnInv, Locks, States, Places, Procs
  <2>2. CpuInv'
    BY DEF TypeOK, CpuInv, OnceInv, ReturnInv, Switching, Holds, Free, Locks, StateInv, OnCpu, Procs
  <2>3. OnceInv'
    <3>1. PICK i \in Procs, p \in Procs :
            /\ state[p] = "RUNNABLE"
            /\ cpuProc' = [cpuProc EXCEPT ![c] = p]
            /\ phase' = [phase EXCEPT ![p] = "back"]
      OBVIOUS
    <3>2. Holds(c, PT)
      BY DEF CpuInv
    <3>3. ASSUME NEW d \in CPUs PROVE cpuProc[d] # p
      BY <3>1, <3>2 DEF TypeOK, CpuInv, StateInv, Switching, Holds
    <3>4. \A d, e \in CPUs : cpuProc'[d] = cpuProc'[e] /\ cpuProc'[d] # NoProc => d = e
      BY <3>1, <3>3 DEF TypeOK, OnceInv
    <3>5. ASSUME NEW q \in Procs, phase'[q] # "off" PROVE OnCpu(q)'
      BY <3>1, <3>5 DEF TypeOK, OnceInv, OnCpu
    <3> QED BY <3>4, <3>5 DEF OnceInv
  <2>4. StateInv' BY DEF TypeOK, CpuInv, OnceInv, StateInv, OnCpu, Switching, Holds, Free
  <2>5. ReturnInv' BY DEF TypeOK, CpuInv, StateInv, ReturnInv, Holds
  <2>6. ForkInv' BY DEF TypeOK, StateInv, ForkInv, ForkOwnsSlot
  <2> QED BY <2>1, <2>2, <2>3, <2>4, <2>5, <2>6 DEF IInv
<1>3. ASSUME NEW c \in CPUs, SchedRelease(c) PROVE IInv'
  <2> USE <1>3 DEF SchedRelease, cpuVars, tableVars, codeVars, lockVars
  <2>1. TypeOK' BY DEF TypeOK, ReturnInv, Locks, States, Places
  <2>2. CpuInv' BY DEF TypeOK, CpuInv, OnceInv, ReturnInv, Switching, Holds, Free, Locks
  <2>3. OnceInv' BY DEF TypeOK, CpuInv, OnceInv, StateInv, OnCpu, Holds
  <2>4. StateInv' BY DEF TypeOK, CpuInv, OnceInv, StateInv, OnCpu, Switching, Holds, Free
  <2>5. ReturnInv' BY DEF TypeOK, CpuInv, StateInv, ReturnInv, Holds
  <2>6. ForkInv' BY DEF TypeOK, StateInv, ForkInv, ForkOwnsSlot
  <2> QED BY <2>1, <2>2, <2>3, <2>4, <2>5, <2>6 DEF IInv
<1>4. ASSUME NEW p \in Procs, NEW c \in CPUs, Sched(p, c) PROVE IInv'
  <2> USE <1>4 DEF Sched, cpuVars, tableVars, codeVars, lockVars
  <2>1. TypeOK' BY DEF TypeOK, ReturnInv, Locks, States, Places
  <2>2. CpuInv' BY DEF TypeOK, CpuInv, OnceInv, ReturnInv, Switching, Holds, Free, Locks
  <2>3. OnceInv' BY DEF TypeOK, CpuInv, OnceInv, StateInv, OnCpu, Holds
  <2>4. StateInv' BY DEF TypeOK, CpuInv, OnceInv, StateInv, OnCpu, Switching, Holds, Free
  <2>5. ReturnInv' BY DEF TypeOK, CpuInv, StateInv, ReturnInv, Holds
  <2>6. ForkInv' BY DEF TypeOK, StateInv, ForkInv, ForkOwnsSlot
  <2> QED BY <2>1, <2>2, <2>3, <2>4, <2>5, <2>6 DEF IInv
<1>5. ASSUME NEW p \in Procs, NEW c \in CPUs, Resume(p, c) PROVE IInv'
  <2> USE <1>5 DEF Resume, cpuVars, tableVars, codeVars, lockVars
  <2>1. TypeOK' BY DEF TypeOK, ReturnInv, Locks, States, Places
  <2>2. CpuInv' BY DEF TypeOK, CpuInv, OnceInv, ReturnInv, Switching, Holds, Free, Locks
  <2>3. OnceInv' BY DEF TypeOK, CpuInv, OnceInv, StateInv, OnCpu, Holds
  <2>4. StateInv' BY DEF TypeOK, CpuInv, OnceInv, StateInv, OnCpu, Switching, Holds, Free
  <2>5. ReturnInv' BY DEF TypeOK, CpuInv, StateInv, ReturnInv, Holds
  <2>6. ForkInv' BY DEF TypeOK, StateInv, ForkInv, ForkOwnsSlot
  <2> QED BY <2>1, <2>2, <2>3, <2>4, <2>5, <2>6 DEF IInv
<1>6. ASSUME NEW p \in Procs, NEW c \in CPUs, WaitResume(p, c) PROVE IInv'
  <2> USE <1>6 DEF WaitResume, cpuVars, tableVars, codeVars, lockVars
  <2>1. TypeOK' BY DEF TypeOK, ReturnInv, Locks, States, Places
  <2>2. CpuInv' BY DEF TypeOK, CpuInv, OnceInv, ReturnInv, Switching, Holds, Free, Locks
  <2>3. OnceInv' BY DEF TypeOK, CpuInv, OnceInv, StateInv, OnCpu, Holds
  <2>4. StateInv' BY DEF TypeOK, CpuInv, OnceInv, StateInv, OnCpu, Switching, Holds, Free
  <2>5. ReturnInv' BY DEF TypeOK, CpuInv, StateInv, ReturnInv, Holds
  <2>6. ForkInv' BY DEF TypeOK, StateInv, ForkInv, ForkOwnsSlot
  <2> QED BY <2>1, <2>2, <2>3, <2>4, <2>5, <2>6 DEF IInv
<1>7. ASSUME NEW p \in Procs, NEW c \in CPUs, SleepResume(p, c) PROVE IInv'
  <2> USE <1>7 DEF SleepResume, cpuVars, tableVars, codeVars, lockVars
  <2>1. TypeOK' BY DEF TypeOK, ReturnInv, Locks, States, Places
  <2>2. CpuInv' BY DEF TypeOK, CpuInv, OnceInv, ReturnInv, Switching, Holds, Free, Locks
  <2>3. OnceInv' BY DEF TypeOK, CpuInv, OnceInv, StateInv, OnCpu, Holds
  <2>4. StateInv' BY DEF TypeOK, CpuInv, OnceInv, StateInv, OnCpu, Switching, Holds, Free
  <2>5. ReturnInv' BY DEF TypeOK, CpuInv, StateInv, ReturnInv, Holds
  <2>6. ForkInv' BY DEF TypeOK, StateInv, ForkInv, ForkOwnsSlot
  <2> QED BY <2>1, <2>2, <2>3, <2>4, <2>5, <2>6 DEF IInv
<1>8. ASSUME NEW p \in Procs, NEW c \in CPUs, ForkFail(p, c) PROVE IInv'
  <2> USE <1>8 DEF ForkFail, Executes, cpuVars, tableVars, codeVars, lockVars
  <2>1. TypeOK' BY DEF TypeOK, ReturnInv, Locks, States, Places
  <2>2. CpuInv' BY DEF TypeOK, CpuInv, OnceInv, ReturnInv, Switching, Holds, Free, Locks
  <2>3. OnceInv' BY DEF TypeOK, CpuInv, OnceInv, StateInv, OnCpu, Holds
  <2>4. StateInv'
    BY DEF TypeOK, CpuInv, OnceInv, StateInv, OnCpu, Switching, Holds, Free, ForkInv, ForkOwnsSlot
  <2>5. ReturnInv' BY DEF TypeOK, CpuInv, StateInv, ReturnInv, Holds
  <2>6. ForkInv' BY DEF TypeOK, StateInv, ForkInv, ForkOwnsSlot
  <2> QED BY <2>1, <2>2, <2>3, <2>4, <2>5, <2>6 DEF IInv
<1>9. ASSUME NEW p \in Procs, NEW c \in CPUs, ForkCopy(p, c) PROVE IInv'
  <2> USE <1>9 DEF ForkCopy, Executes, cpuVars, tableVars, codeVars, lockVars
  <2>1. TypeOK' BY DEF TypeOK, ReturnInv, Locks, States, Places
  <2>2. CpuInv' BY DEF TypeOK, CpuInv, OnceInv, ReturnInv, Switching, Holds, Free, Locks
  <2>3. OnceInv' BY DEF TypeOK, CpuInv, OnceInv, StateInv, OnCpu, Holds
  <2>4. StateInv' BY DEF TypeOK, CpuInv, OnceInv, StateInv, OnCpu, Switching, Holds, Free
  <2>5. ReturnInv' BY DEF TypeOK, CpuInv, StateInv, ReturnInv, Holds, ForkInv, ForkOwnsSlot
  <2>6. ForkInv' BY DEF TypeOK, StateInv, ForkInv, ForkOwnsSlot
  <2> QED BY <2>1, <2>2, <2>3, <2>4, <2>5, <2>6 DEF IInv
<1>10. ASSUME NEW p \in Procs, NEW c \in CPUs, ForkRun(p, c) PROVE IInv'
  <2> USE <1>10 DEF ForkRun, Executes, cpuVars, tableVars, codeVars, lockVars
  <2>1. TypeOK' BY DEF TypeOK, ReturnInv, Locks, States, Places
  <2>2. CpuInv' BY DEF TypeOK, CpuInv, OnceInv, ReturnInv, Switching, Holds, Free, Locks
  <2>3. OnceInv' BY DEF TypeOK, CpuInv, OnceInv, StateInv, OnCpu, Holds
  <2>4. StateInv'
    BY DEF TypeOK, CpuInv, OnceInv, StateInv, OnCpu, Switching, Holds, Free, ForkInv, ForkOwnsSlot
  <2>5. ReturnInv' BY DEF TypeOK, CpuInv, StateInv, ReturnInv, Holds
  <2>6. ForkInv' BY DEF TypeOK, StateInv, ForkInv, ForkOwnsSlot
  <2> QED BY <2>1, <2>2, <2>3, <2>4, <2>5, <2>6 DEF IInv
<1>11. ASSUME NEW p \in Procs, NEW c \in CPUs, WaitReap(p, c) PROVE IInv'
  <2> USE <1>11 DEF WaitReap, WaitScans, ZombieChild, Executes, cpuVars, tableVars, codeVars, lockVars
  <2>1. TypeOK' BY DEF TypeOK, ReturnInv, Locks, States, Places
  <2>2. CpuInv' BY DEF TypeOK, CpuInv, OnceInv, ReturnInv, Switching, Holds, Free, Locks
  <2>3. OnceInv' BY DEF TypeOK, CpuInv, OnceInv, StateInv, OnCpu, Holds
  <2>4. StateInv' BY DEF TypeOK, CpuInv, OnceInv, StateInv, OnCpu, Switching, Holds, Free
  <2>5. ReturnInv' BY DEF TypeOK, CpuInv, StateInv, ReturnInv, Holds
  <2>6. ForkInv' BY DEF TypeOK, StateInv, ForkInv, ForkOwnsSlot
  <2> QED BY <2>1, <2>2, <2>3, <2>4, <2>5, <2>6 DEF IInv
<1>12. ASSUME NEW p \in Procs, NEW c \in CPUs, WaitFail(p, c) PROVE IInv'
  <2> USE <1>12 DEF WaitFail, WaitScans, Executes, cpuVars, tableVars, codeVars, lockVars
  <2>1. TypeOK' BY DEF TypeOK, ReturnInv, Locks, States, Places
  <2>2. CpuInv' BY DEF TypeOK, CpuInv, OnceInv, ReturnInv, Switching, Holds, Free, Locks
  <2>3. OnceInv' BY DEF TypeOK, CpuInv, OnceInv, StateInv, OnCpu, Holds
  <2>4. StateInv' BY DEF TypeOK, CpuInv, OnceInv, StateInv, OnCpu, Switching, Holds, Free
  <2>5. ReturnInv' BY DEF TypeOK, CpuInv, StateInv, ReturnInv, Holds
  <2>6. ForkInv' BY DEF TypeOK, StateInv, ForkInv, ForkOwnsSlot
  <2> QED BY <2>1, <2>2, <2>3, <2>4, <2>5, <2>6 DEF IInv
<1>13. ASSUME NEW p \in Procs, NEW c \in CPUs, WaitSleep(p, c) PROVE IInv'
  <2> USE <1>13 DEF WaitSleep, WaitScans, ZombieChild, Executes, cpuVars, tableVars, codeVars, lockVars
  <2>1. TypeOK' BY DEF TypeOK, ReturnInv, Locks, States, Places
  <2>2. CpuInv' BY DEF TypeOK, CpuInv, OnceInv, ReturnInv, Switching, Holds, Free, Locks
  <2>3. OnceInv' BY DEF TypeOK, CpuInv, OnceInv, StateInv, OnCpu, Holds
  <2>4. StateInv' BY DEF TypeOK, CpuInv, OnceInv, StateInv, OnCpu, Switching, Holds, Free
  <2>5. ReturnInv' BY DEF TypeOK, CpuInv, StateInv, ReturnInv, Holds
  <2>6. ForkInv' BY DEF TypeOK, StateInv, ForkInv, ForkOwnsSlot
  <2> QED BY <2>1, <2>2, <2>3, <2>4, <2>5, <2>6 DEF IInv
<1>14. ASSUME NEW p \in Procs, NEW c \in CPUs, AcquireSleepTake(p, c) PROVE IInv'
  <2> USE <1>14 DEF AcquireSleepTake, Executes, cpuVars, tableVars, codeVars, lockVars
  <2>1. TypeOK' BY DEF TypeOK, ReturnInv, Locks, States, Places
  <2>2. CpuInv' BY DEF TypeOK, CpuInv, OnceInv, ReturnInv, Switching, Holds, Free, Locks
  <2>3. OnceInv' BY DEF TypeOK, CpuInv, OnceInv, StateInv, OnCpu, Holds
  <2>4. StateInv' BY DEF TypeOK, CpuInv, OnceInv, StateInv, OnCpu, Switching, Holds, Free
  <2>5. ReturnInv' BY DEF TypeOK, CpuInv, StateInv, ReturnInv, Holds
  <2>6. ForkInv' BY DEF TypeOK, StateInv, ForkInv, ForkOwnsSlot
  <2> QED BY <2>1, <2>2, <2>3, <2>4, <2>5, <2>6 DEF IInv
<1>15. ASSUME NEW p \in Procs, NEW c \in CPUs, AcquireSleepBusy(p, c) PROVE IInv'
  <2> USE <1>15 DEF AcquireSleepBusy, Executes, cpuVars, tableVars, codeVars, lockVars
  <2>1. TypeOK' BY DEF TypeOK, ReturnInv, Locks, States, Places
  <2>2. CpuInv' BY DEF TypeOK, CpuInv, OnceInv, ReturnInv, Switching, Holds, Free, Locks
  <2>3. OnceInv' BY DEF TypeOK, CpuInv, OnceInv, StateInv, OnCpu, Holds
  <2>4. StateInv' BY DEF TypeOK, CpuInv, OnceInv, StateInv, OnCpu, Switching, Holds, Free
  <2>5. ReturnInv' BY DEF TypeOK, CpuInv, StateInv, ReturnInv, Holds
  <2>6. ForkInv' BY DEF TypeOK, StateInv, ForkInv, ForkOwnsSlot
  <2> QED BY <2>1, <2>2, <2>3, <2>4, <2>5, <2>6 DEF IInv
<1>16. ASSUME NEW p \in Procs, NEW c \in CPUs, Sleep(p, c) PROVE IInv'
  <2> USE <1>16 DEF Sleep, Executes, cpuVars, tableVars, codeVars, lockVars
  <2>1. TypeOK' BY DEF TypeOK, ReturnInv, Locks, States, Places
  <2>2. CpuInv' BY DEF TypeOK, CpuInv, OnceInv, ReturnInv, Switching, Holds, Free, Locks
  <2>3. OnceInv' BY DEF TypeOK, CpuInv, OnceInv, StateInv, OnCpu, Holds
  <2>4. StateInv' BY DEF TypeOK, CpuInv, OnceInv, StateInv, OnCpu, Switching, Holds, Free
  <2>5. ReturnInv' BY DEF TypeOK, CpuInv, StateInv, ReturnInv, Holds
  <2>6. ForkInv' BY DEF TypeOK, StateInv, ForkInv, ForkOwnsSlot
  <2> QED BY <2>1, <2>2, <2>3, <2>4, <2>5, <2>6 DEF IInv
<1>17. ASSUME NEW p \in Procs, NEW c \in CPUs, ReleaseSleep(p, c) PROVE IInv'
  <2> USE <1>17 DEF ReleaseSleep, Executes, cpuVars, tableVars, codeVars, lockVars
  <2>1. TypeOK' BY DEF TypeOK, ReturnInv, Locks, States, Places
  <2>2. CpuInv' BY DEF TypeOK, CpuInv, OnceInv, ReturnInv, Switching, Holds, Free, Locks
  <2>3. OnceInv' BY DEF TypeOK, CpuInv, OnceInv, StateInv, OnCpu, Holds
  <2>4. StateInv' BY DEF TypeOK, CpuInv, OnceInv, StateInv, OnCpu, Switching, Holds, Free
  <2>5. ReturnInv' BY DEF TypeOK, CpuInv, StateInv, ReturnInv, Holds
  <2>6. ForkInv' BY DEF TypeOK, StateInv, ForkInv, ForkOwnsSlot
  <2> QED BY <2>1, <2>2, <2>3, <2>4, <2>5, <2>6 DEF IInv
<1>18. ASSUME NEW p \in Procs, NEW c \in CPUs, ReleaseSleepWakeup(p, c) PROVE IInv'
  <2> USE <1>18 DEF ReleaseSleepWakeup, Executes, Wakeup1, cpuVars, tableVars, codeVars, lockVars
  <2>1. TypeOK' BY DEF TypeOK, ReturnInv, Locks, States, Places
  <2>2. CpuInv' BY DEF TypeOK, CpuInv, OnceInv, ReturnInv, Switching, Holds, Free, Locks
  <2>3. OnceInv' BY DEF TypeOK, CpuInv, OnceInv, StateInv, OnCpu, Holds
  <2>4. StateInv' BY DEF TypeOK, CpuInv, OnceInv, StateInv, OnCpu, Switching, Holds, Free
  <2>5. ReturnInv' BY DEF TypeOK, CpuInv, StateInv, ReturnInv, Holds
  <2>6. ForkInv' BY DEF TypeOK, StateInv, ForkInv, ForkOwnsSlot
  <2> QED BY <2>1, <2>2, <2>3, <2>4, <2>5, <2>6 DEF IInv
<1>19. ASSUME NEW p \in Procs, NEW c \in CPUs, AllocProc(p, c) PROVE IInv'
  <2> USE <1>19 DEF AllocProc, Calls, InUser, Executes, FirstUnused, cpuVars, tableVars, codeVars, lockVars
  <2>1. TypeOK' BY DEF TypeOK, ReturnInv, Locks, States, Places
  <2>2. CpuInv' BY DEF TypeOK, CpuInv, OnceInv, ReturnInv, Switching, Holds, Free, Locks
  <2>3. OnceInv' BY DEF TypeOK, CpuInv, OnceInv, StateInv, OnCpu, Holds
  <2>4. StateInv' BY DEF TypeOK, CpuInv, OnceInv, StateInv, OnCpu, Switching, Holds, Free
  <2>5. ReturnInv' BY DEF TypeOK, CpuInv, StateInv, ReturnInv, Holds
  <2>6. ForkInv' BY DEF TypeOK, StateInv, ForkInv, ForkOwnsSlot
  <2> QED BY <2>1, <2>2, <2>3, <2>4, <2>5, <2>6 DEF IInv
<1>20. ASSUME NEW p \in Procs, NEW c \in CPUs, Exit(p, c) PROVE IInv'
  <2> USE <1>20 DEF Exit, InUser, Executes, AfterExit, Reparented, Wakeup1, cpuVars, tableVars, codeVars, lockVars
  <2>1. TypeOK'
    <3>1. state' \in [Procs -> States] BY DEF TypeOK, States
    <3>2. parent' \in [Procs -> Procs \cup {NoProc}] BY DEF TypeOK, Procs, InitProc
    <3> HIDE DEF AfterExit, Reparented, Wakeup1
    <3> QED BY <3>1, <3>2 DEF TypeOK, ReturnInv, Locks, Places
  <2>2. CpuInv' BY DEF TypeOK, CpuInv, OnceInv, ReturnInv, Switching, Holds, Free, Locks
  <2>3. OnceInv' BY DEF TypeOK, CpuInv, OnceInv, StateInv, OnCpu, Holds
  <2>4. StateInv' BY DEF TypeOK, CpuInv, OnceInv, StateInv, OnCpu, Switching, Holds, Free
  <2>5. ReturnInv' BY DEF TypeOK, CpuInv, StateInv, ReturnInv, Holds
  <2>6. ForkInv' BY DEF TypeOK, StateInv, ForkInv, ForkOwnsSlot
  <2> QED BY <2>1, <2>2, <2>3, <2>4, <2>5, <2>6 DEF IInv
<1>21. ASSUME NEW p \in Procs, NEW c \in CPUs, WaitCall(p, c) PROVE IInv'
  <2> USE <1>21 DEF WaitCall, Calls, InUser, Executes, cpuVars, tableVars, codeVars, lockVars
  <2>1. TypeOK' BY DEF TypeOK, ReturnInv, Locks, States, Places
  <2>2. CpuInv' BY DEF TypeOK, CpuInv, OnceInv, ReturnInv, Switching, Holds, Free, Locks
  <2>3. OnceInv' BY DEF TypeOK, CpuInv, OnceInv, StateInv, OnCpu, Holds
  <2>4. StateInv' BY DEF TypeOK, CpuInv, OnceInv, StateInv, OnCpu, Switching, Holds, Free
  <2>5. ReturnInv' BY DEF TypeOK, CpuInv, StateInv, ReturnInv, Holds
  <2>6. ForkInv' BY DEF TypeOK, StateInv, ForkInv, ForkOwnsSlot
  <2> QED BY <2>1, <2>2, <2>3, <2>4, <2>5, <2>6 DEF IInv
<1>22. ASSUME NEW p \in Procs, NEW c \in CPUs, Kill(p, c) PROVE IInv'
  <2> USE <1>22 DEF Kill, Calls, InUser, Executes, AfterKill, cpuVars, tableVars, codeVars, lockVars
  <2>1. TypeOK' BY DEF TypeOK, ReturnInv, Locks, States, Places
  <2>2. CpuInv' BY DEF TypeOK, CpuInv, OnceInv, ReturnInv, Switching, Holds, Free, Locks
  <2>3. OnceInv' BY DEF TypeOK, CpuInv, OnceInv, StateInv, OnCpu, Holds
  <2>4. StateInv' BY DEF TypeOK, CpuInv, OnceInv, StateInv, OnCpu, Switching, Holds, Free
  <2>5. ReturnInv' BY DEF TypeOK, CpuInv, StateInv, ReturnInv, Holds
  <2>6. ForkInv' BY DEF TypeOK, StateInv, ForkInv, ForkOwnsSlot
  <2> QED BY <2>1, <2>2, <2>3, <2>4, <2>5, <2>6 DEF IInv
<1>23. ASSUME NEW p \in Procs, NEW c \in CPUs, SetBurstTime(p, c) PROVE IInv'
  <2> USE <1>23 DEF SetBurstTime, Calls, InUser, Executes, cpuVars, tableVars, codeVars, lockVars
  <2>1. TypeOK' BY DEF TypeOK, ReturnInv, Locks, States, Places
  <2>2. CpuInv' BY DEF TypeOK, CpuInv, OnceInv, ReturnInv, Switching, Holds, Free, Locks
  <2>3. OnceInv' BY DEF TypeOK, CpuInv, OnceInv, StateInv, OnCpu, Holds
  <2>4. StateInv' BY DEF TypeOK, CpuInv, OnceInv, StateInv, OnCpu, Switching, Holds, Free
  <2>5. ReturnInv' BY DEF TypeOK, CpuInv, StateInv, ReturnInv, Holds
  <2>6. ForkInv' BY DEF TypeOK, StateInv, ForkInv, ForkOwnsSlot
  <2> QED BY <2>1, <2>2, <2>3, <2>4, <2>5, <2>6 DEF IInv
<1>24. ASSUME NEW p \in Procs, NEW c \in CPUs, AcquireSleepCall(p, c) PROVE IInv'
  <2> USE <1>24 DEF AcquireSleepCall, Calls, InUser, Executes, cpuVars, tableVars, codeVars, lockVars
  <2>1. TypeOK' BY DEF TypeOK, ReturnInv, Locks, States, Places
  <2>2. CpuInv' BY DEF TypeOK, CpuInv, OnceInv, ReturnInv, Switching, Holds, Free, Locks
  <2>3. OnceInv' BY DEF TypeOK, CpuInv, OnceInv, StateInv, OnCpu, Holds
  <2>4. StateInv' BY DEF TypeOK, CpuInv, OnceInv, StateInv, OnCpu, Switching, Holds, Free
  <2>5. ReturnInv' BY DEF TypeOK, CpuInv, StateInv, ReturnInv, Holds
  <2>6. ForkInv' BY DEF TypeOK, StateInv, ForkInv, ForkOwnsSlot
  <2> QED BY <2>1, <2>2, <2>3, <2>4, <2>5, <2>6 DEF IInv
<1>25. ASSUME NEW p \in Procs, NEW c \in CPUs, Yield(p, c) PROVE IInv'
  <2> USE <1>25 DEF Yield, Executes, NoLocks, cpuVars, tableVars, codeVars, lockVars
  <2>1. TypeOK' BY DEF TypeOK, ReturnInv, Locks, States, Places
  <2>2. CpuInv' BY DEF TypeOK, CpuInv, OnceInv, ReturnInv, Switching, Holds, Free, Locks
  <2>3. OnceInv' BY DEF TypeOK, CpuInv, OnceInv, StateInv, OnCpu, Holds
  <2>4. StateInv' BY DEF TypeOK, CpuInv, OnceInv, StateInv, OnCpu, Switching, Holds, Free
  <2>5. ReturnInv' BY DEF TypeOK, CpuInv, StateInv, ReturnInv, Holds, Locks
  <2>6. ForkInv' BY DEF TypeOK, StateInv, ForkInv, ForkOwnsSlot
  <2> QED BY <2>1, <2>2, <2>3, <2>4, <2>5, <2>6 DEF IInv
<1>26. CASE UNCHANGED vars
  <2> USE <1>26 DEF vars, cpuVars, tableVars, codeVars, lockVars
  <2>1. TypeOK' BY DEF TypeOK, ReturnInv, Locks, States, Places
  <2>2. CpuInv' BY DEF TypeOK, CpuInv, OnceInv, ReturnInv, Switching, Holds, Free, Locks
  <2>3. OnceInv' BY DEF TypeOK, CpuInv, OnceInv, StateInv, OnCpu, Holds
  <2>4. StateInv' BY DEF TypeOK, CpuInv, OnceInv, StateInv, OnCpu, Switching, Holds, Free
  <2>5. ReturnInv' BY DEF TypeOK, CpuInv, StateInv, ReturnInv, Holds
  <2>6. ForkInv' BY DEF TypeOK, StateInv, ForkInv, ForkOwnsSlot
  <2> QED BY <2>1, <2>2, <2>3, <2>4, <2>5, <2>6 DEF IInv
<1> QED BY <1>1, <1>2, <1>3, <1>4, <1>5, <1>6, <1>7, <1>8, <1>9, <1>10, <1>11, <1>12, <1>13,
    <1>14, <1>15, <1>16, <1>17, <1>18, <1>19, <1>20, <1>21, <1>22, <1>23, <1>24, <1>25, <1>26 DEF Next, Scheduler, Kernel, User

\* In every reachable state the scheduler, the processes and the locks are in step.
THEOREM InvariantHolds == Spec => []IInv
<1>1. Init => IInv
  BY InitInv
<1>2. IInv /\ [Next]_vars => IInv'
  BY NextInv
<1> QED BY <1>1, <1>2, PTL DEF Spec

\* Every variable keeps its type, and the locals of a kernel call are set exactly
\* while the call is under way.
THEOREM TypeCorrect == Spec => []TypeOK
<1>1. IInv => TypeOK
  BY DEF IInv
<1> QED BY <1>1, InvariantHolds, PTL

\* The panics of acquire, release, sched and exit are unreachable.
THEOREM PanicFree == Spec => []NoPanic
<1>1. IInv => NoPanic
  BY Constants DEF IInv, NoPanic, TypeOK, CpuInv, StateInv, Switching, Holds
<1> QED BY <1>1, InvariantHolds, PTL

\* No process is run by two CPUs, and wait frees no stack a CPU still stands on.
THEOREM RunsOnOneCpu == Spec => []OneCpuPerProcess
<1>1. IInv => OneCpuPerProcess
  BY Constants DEF IInv, OneCpuPerProcess, TypeOK, CpuInv, OnceInv, StateInv, OnCpu
<1> QED BY <1>1, InvariantHolds, PTL

\* fork's child slot belongs to one fork until it is RUNNABLE or given back.
THEOREM ForkSlotOwned == Spec => []ForkOwnsSlot
<1>1. IInv => ForkOwnsSlot
  BY DEF IInv, ForkInv
<1> QED BY <1>1, InvariantHolds, PTL

-----------------------------------------------------------------------------
(***************************************************************************)
(* Sleep locks: they exclude, they implement Mutex, and sleep and wakeup   *)
(* lose no wakeup, for any number of processes, CPUs and locks.            *)
(***************************************************************************)

\* One process at most is between acquiresleep and releasesleep of a lock.
InsideOnce == \A s \in SleepLocks : \A p, q \in Inside(s) : p = q

\* From the test of lk->locked to sleep() the lock stays held: lk->lk is.
SleepingOnHeld == \A p \in Procs : at[p] = "sleep" /\ phase[p] = "run" => locked[want[p]]

LockInv == InsideOnce /\ SleepLockOwner /\ SleepingOnHeld /\ NoLostWakeup

\* All locks are free at the start.
LEMMA LockInit == Init => LockInv
BY Constants DEF Init, LockInv, InsideOnce, SleepLockOwner, SleepingOnHeld, NoLostWakeup, Inside


\* Every step preserves it, given the invariant of the lock hand-over.
LEMMA LockNext == ASSUME IInv, LockInv, [Next]_vars PROVE LockInv'
<1> USE Constants DEF IInv, LockInv
<1>1. ASSUME NEW c \in CPUs, SchedAcquire(c) PROVE LockInv'
  <2> USE <1>1 DEF SchedAcquire, cpuVars, tableVars, codeVars, lockVars
  <2>1. InsideOnce' BY DEF TypeOK, InsideOnce, SleepLockOwner, Inside
  <2>2. SleepLockOwner' BY DEF TypeOK, StateInv, InsideOnce, SleepLockOwner, Inside
  <2>3. SleepingOnHeld'
    BY DEF TypeOK, CpuInv, OnceInv, ReturnInv, OnCpu, SleepingOnHeld, Holds, Free, Locks
  <2>4. NoLostWakeup' BY DEF TypeOK, StateInv, SleepingOnHeld, NoLostWakeup
  <2> QED BY <2>1, <2>2, <2>3, <2>4 DEF LockInv
<1>2. ASSUME NEW c \in CPUs, Dispatch(c) PROVE LockInv'
  <2> USE <1>2 DEF Dispatch, NextRunnable, Chosen, ShortestRunnable, cpuVars, tableVars, codeVars, lockVars
  <2>1. InsideOnce' BY DEF TypeOK, InsideOnce, SleepLockOwner, Inside
  <2>2. SleepLockOwner' BY DEF TypeOK, StateInv, InsideOnce, SleepLockOwner, Inside
  <2>3. SleepingOnHeld'
    BY DEF TypeOK, CpuInv, OnceInv, ReturnInv, OnCpu, SleepingOnHeld, Holds, Free, Locks
  <2>4. NoLostWakeup' BY DEF TypeOK, StateInv, SleepingOnHeld, NoLostWakeup
  <2> QED BY <2>1, <2>2, <2>3, <2>4 DEF LockInv
<1>3. ASSUME NEW c \in CPUs, SchedRelease(c) PROVE LockInv'
  <2> USE <1>3 DEF SchedRelease, cpuVars, tableVars, codeVars, lockVars
  <2>1. InsideOnce' BY DEF TypeOK, InsideOnce, SleepLockOwner, Inside
  <2>2. SleepLockOwner' BY DEF TypeOK, StateInv, InsideOnce, SleepLockOwner, Inside
  <2>3. SleepingOnHeld'
    BY DEF TypeOK, CpuInv, OnceInv, ReturnInv, OnCpu, SleepingOnHeld, Holds, Free, Locks
  <2>4. NoLostWakeup' BY DEF TypeOK, StateInv, SleepingOnHeld, NoLostWakeup
  <2> QED BY <2>1, <2>2, <2>3, <2>4 DEF LockInv
<1>4. ASSUME NEW p \in Procs, NEW c \in CPUs, Sched(p, c) PROVE LockInv'
  <2> USE <1>4 DEF Sched, cpuVars, tableVars, codeVars, lockVars
  <2>1. InsideOnce' BY DEF TypeOK, InsideOnce, SleepLockOwner, Inside
  <2>2. SleepLockOwner' BY DEF TypeOK, StateInv, InsideOnce, SleepLockOwner, Inside
  <2>3. SleepingOnHeld'
    BY DEF TypeOK, CpuInv, OnceInv, ReturnInv, OnCpu, SleepingOnHeld, Holds, Free, Locks
  <2>4. NoLostWakeup' BY DEF TypeOK, StateInv, SleepingOnHeld, NoLostWakeup
  <2> QED BY <2>1, <2>2, <2>3, <2>4 DEF LockInv
<1>5. ASSUME NEW p \in Procs, NEW c \in CPUs, Resume(p, c) PROVE LockInv'
  <2> USE <1>5 DEF Resume, cpuVars, tableVars, codeVars, lockVars
  <2>1. InsideOnce' BY DEF TypeOK, InsideOnce, SleepLockOwner, Inside
  <2>2. SleepLockOwner' BY DEF TypeOK, StateInv, InsideOnce, SleepLockOwner, Inside
  <2>3. SleepingOnHeld'
    BY DEF TypeOK, CpuInv, OnceInv, ReturnInv, OnCpu, SleepingOnHeld, Holds, Free, Locks
  <2>4. NoLostWakeup' BY DEF TypeOK, StateInv, SleepingOnHeld, NoLostWakeup
  <2> QED BY <2>1, <2>2, <2>3, <2>4 DEF LockInv
<1>6. ASSUME NEW p \in Procs, NEW c \in CPUs, WaitResume(p, c) PROVE LockInv'
  <2> USE <1>6 DEF WaitResume, cpuVars, tableVars, codeVars, lockVars
  <2>1. InsideOnce' BY DEF TypeOK, InsideOnce, SleepLockOwner, Inside
  <2>2. SleepLockOwner' BY DEF TypeOK, StateInv, InsideOnce, SleepLockOwner, Inside
  <2>3. SleepingOnHeld'
    BY DEF TypeOK, CpuInv, OnceInv, ReturnInv, OnCpu, SleepingOnHeld, Holds, Free, Locks
  <2>4. NoLostWakeup' BY DEF TypeOK, StateInv, SleepingOnHeld, NoLostWakeup
  <2> QED BY <2>1, <2>2, <2>3, <2>4 DEF LockInv
<1>7. ASSUME NEW p \in Procs, NEW c \in CPUs, SleepResume(p, c) PROVE LockInv'
  <2> USE <1>7 DEF SleepResume, cpuVars, tableVars, codeVars, lockVars
  <2>1. InsideOnce' BY DEF TypeOK, InsideOnce, SleepLockOwner, Inside, ReturnInv
  <2>2. SleepLockOwner' BY DEF TypeOK, StateInv, InsideOnce, SleepLockOwner, Inside, ReturnInv
  <2>3. SleepingOnHeld'
    BY DEF TypeOK, CpuInv, OnceInv, ReturnInv, OnCpu, SleepingOnHeld, Holds, Free, Locks
  <2>4. NoLostWakeup' BY DEF TypeOK, StateInv, SleepingOnHeld, NoLostWakeup, ReturnInv
  <2> QED BY <2>1, <2>2, <2>3, <2>4 DEF LockInv
<1>8. ASSUME NEW p \in Procs, NEW c \in CPUs, ForkFail(p, c) PROVE LockInv'
  <2> USE <1>8 DEF ForkFail, Executes, cpuVars, tableVars, codeVars, lockVars
  <2>1. InsideOnce' BY DEF TypeOK, InsideOnce, SleepLockOwner, Inside
  <2>2. SleepLockOwner' BY DEF TypeOK, StateInv, InsideOnce, SleepLockOwner, Inside
  <2>3. SleepingOnHeld'
    BY DEF TypeOK, CpuInv, OnceInv, ReturnInv, OnCpu, SleepingOnHeld, Holds, Free, Locks
  <2>4. NoLostWakeup' BY DEF TypeOK, StateInv, SleepingOnHeld, NoLostWakeup
  <2> QED BY <2>1, <2>2, <2>3, <2>4 DEF LockInv
<1>9. ASSUME NEW p \in Procs, NEW c \in CPUs, ForkCopy(p, c) PROVE LockInv'
  <2> USE <1>9 DEF ForkCopy, Executes, cpuVars, tableVars, codeVars, lockVars
  <2>1. InsideOnce' BY DEF TypeOK, InsideOnce, SleepLockOwner, Inside
  <2>2. SleepLockOwner' BY DEF TypeOK, StateInv, InsideOnce, SleepLockOwner, Inside
  <2>3. SleepingOnHeld'
    BY DEF TypeOK, CpuInv, OnceInv, ReturnInv, OnCpu, SleepingOnHeld, Holds, Free, Locks
  <2>4. NoLostWakeup' BY DEF TypeOK, StateInv, SleepingOnHeld, NoLostWakeup
  <2> QED BY <2>1, <2>2, <2>3, <2>4 DEF LockInv
<1>10. ASSUME NEW p \in Procs, NEW c \in CPUs, ForkRun(p, c) PROVE LockInv'
  <2> USE <1>10 DEF ForkRun, Executes, cpuVars, tableVars, codeVars, lockVars
  <2>1. InsideOnce' BY DEF TypeOK, InsideOnce, SleepLockOwner, Inside
  <2>2. SleepLockOwner' BY DEF TypeOK, StateInv, InsideOnce, SleepLockOwner, Inside
  <2>3. SleepingOnHeld'
    BY DEF TypeOK, CpuInv, OnceInv, ReturnInv, OnCpu, SleepingOnHeld, Holds, Free, Locks
  <2>4. NoLostWakeup' BY DEF TypeOK, StateInv, SleepingOnHeld, NoLostWakeup
  <2> QED BY <2>1, <2>2, <2>3, <2>4 DEF LockInv
<1>11. ASSUME NEW p \in Procs, NEW c \in CPUs, WaitReap(p, c) PROVE LockInv'
  <2> USE <1>11 DEF WaitReap, WaitScans, ZombieChild, Executes, cpuVars, tableVars, codeVars, lockVars
  <2>1. InsideOnce' BY DEF TypeOK, InsideOnce, SleepLockOwner, Inside
  <2>2. SleepLockOwner' BY DEF TypeOK, StateInv, InsideOnce, SleepLockOwner, Inside
  <2>3. SleepingOnHeld'
    BY DEF TypeOK, CpuInv, OnceInv, ReturnInv, OnCpu, SleepingOnHeld, Holds, Free, Locks
  <2>4. NoLostWakeup' BY DEF TypeOK, StateInv, SleepingOnHeld, NoLostWakeup
  <2> QED BY <2>1, <2>2, <2>3, <2>4 DEF LockInv
<1>12. ASSUME NEW p \in Procs, NEW c \in CPUs, WaitFail(p, c) PROVE LockInv'
  <2> USE <1>12 DEF WaitFail, WaitScans, Executes, cpuVars, tableVars, codeVars, lockVars
  <2>1. InsideOnce' BY DEF TypeOK, InsideOnce, SleepLockOwner, Inside
  <2>2. SleepLockOwner' BY DEF TypeOK, StateInv, InsideOnce, SleepLockOwner, Inside
  <2>3. SleepingOnHeld'
    BY DEF TypeOK, CpuInv, OnceInv, ReturnInv, OnCpu, SleepingOnHeld, Holds, Free, Locks
  <2>4. NoLostWakeup' BY DEF TypeOK, StateInv, SleepingOnHeld, NoLostWakeup
  <2> QED BY <2>1, <2>2, <2>3, <2>4 DEF LockInv
<1>13. ASSUME NEW p \in Procs, NEW c \in CPUs, WaitSleep(p, c) PROVE LockInv'
  <2> USE <1>13 DEF WaitSleep, WaitScans, ZombieChild, Executes, cpuVars, tableVars, codeVars, lockVars
  <2>1. InsideOnce' BY DEF TypeOK, InsideOnce, SleepLockOwner, Inside
  <2>2. SleepLockOwner' BY DEF TypeOK, StateInv, InsideOnce, SleepLockOwner, Inside
  <2>3. SleepingOnHeld'
    BY DEF TypeOK, CpuInv, OnceInv, ReturnInv, OnCpu, SleepingOnHeld, Holds, Free, Locks
  <2>4. NoLostWakeup' BY DEF TypeOK, StateInv, SleepingOnHeld, NoLostWakeup
  <2> QED BY <2>1, <2>2, <2>3, <2>4 DEF LockInv
<1>14. ASSUME NEW p \in Procs, NEW c \in CPUs, AcquireSleepTake(p, c) PROVE LockInv'
  <2> USE <1>14 DEF AcquireSleepTake, Executes, cpuVars, tableVars, codeVars, lockVars
  <2>1. InsideOnce' BY DEF TypeOK, InsideOnce, SleepLockOwner, Inside
  <2>2. SleepLockOwner' BY DEF TypeOK, StateInv, InsideOnce, SleepLockOwner, Inside
  <2>3. SleepingOnHeld'
    BY DEF TypeOK, CpuInv, OnceInv, ReturnInv, OnCpu, SleepingOnHeld, Holds, Free, Locks
  <2>4. NoLostWakeup' BY DEF TypeOK, StateInv, SleepingOnHeld, NoLostWakeup
  <2> QED BY <2>1, <2>2, <2>3, <2>4 DEF LockInv
<1>15. ASSUME NEW p \in Procs, NEW c \in CPUs, AcquireSleepBusy(p, c) PROVE LockInv'
  <2> USE <1>15 DEF AcquireSleepBusy, Executes, cpuVars, tableVars, codeVars, lockVars
  <2>1. InsideOnce' BY DEF TypeOK, InsideOnce, SleepLockOwner, Inside
  <2>2. SleepLockOwner' BY DEF TypeOK, StateInv, InsideOnce, SleepLockOwner, Inside
  <2>3. SleepingOnHeld'
    BY DEF TypeOK, CpuInv, OnceInv, ReturnInv, OnCpu, SleepingOnHeld, Holds, Free, Locks
  <2>4. NoLostWakeup' BY DEF TypeOK, StateInv, SleepingOnHeld, NoLostWakeup
  <2> QED BY <2>1, <2>2, <2>3, <2>4 DEF LockInv
<1>16. ASSUME NEW p \in Procs, NEW c \in CPUs, Sleep(p, c) PROVE LockInv'
  <2> USE <1>16 DEF Sleep, Executes, cpuVars, tableVars, codeVars, lockVars
  <2>1. InsideOnce' BY DEF TypeOK, InsideOnce, SleepLockOwner, Inside
  <2>2. SleepLockOwner' BY DEF TypeOK, StateInv, InsideOnce, SleepLockOwner, Inside
  <2>3. SleepingOnHeld'
    BY DEF TypeOK, CpuInv, OnceInv, ReturnInv, OnCpu, SleepingOnHeld, Holds, Free, Locks
  <2>4. NoLostWakeup' BY DEF TypeOK, StateInv, SleepingOnHeld, NoLostWakeup
  <2> QED BY <2>1, <2>2, <2>3, <2>4 DEF LockInv
<1>17. ASSUME NEW p \in Procs, NEW c \in CPUs, ReleaseSleep(p, c) PROVE LockInv'
  <2> USE <1>17 DEF ReleaseSleep, Executes, cpuVars, tableVars, codeVars, lockVars
  <2>1. InsideOnce' BY DEF TypeOK, InsideOnce, SleepLockOwner, Inside
  <2>2. SleepLockOwner' BY DEF TypeOK, StateInv, InsideOnce, SleepLockOwner, Inside
  <2>3. SleepingOnHeld'
    BY DEF TypeOK, CpuInv, OnceInv, ReturnInv, OnCpu, SleepingOnHeld, Holds, Free, Locks
  <2>4. NoLostWakeup' BY DEF TypeOK, StateInv, SleepingOnHeld, NoLostWakeup
  <2> QED BY <2>1, <2>2, <2>3, <2>4 DEF LockInv
<1>18. ASSUME NEW p \in Procs, NEW c \in CPUs, ReleaseSleepWakeup(p, c) PROVE LockInv'
  <2> USE <1>18 DEF ReleaseSleepWakeup, Executes, Wakeup1, cpuVars, tableVars, codeVars, lockVars
  <2>1. InsideOnce' BY DEF TypeOK, InsideOnce, SleepLockOwner, Inside
  <2>2. SleepLockOwner' BY DEF TypeOK, StateInv, InsideOnce, SleepLockOwner, Inside
  <2>3. SleepingOnHeld'
    BY DEF TypeOK, CpuInv, OnceInv, ReturnInv, OnCpu, SleepingOnHeld, Holds, Free, Locks
  <2>4. NoLostWakeup' BY DEF TypeOK, StateInv, SleepingOnHeld, NoLostWakeup
  <2> QED BY <2>1, <2>2, <2>3, <2>4 DEF LockInv
<1>19. ASSUME NEW p \in Procs, NEW c \in CPUs, AllocProc(p, c) PROVE LockInv'
  <2> USE <1>19 DEF AllocProc, Calls, InUser, Executes, FirstUnused, cpuVars, tableVars, codeVars, lockVars
  <2>1. InsideOnce' BY DEF TypeOK, InsideOnce, SleepLockOwner, Inside
  <2>2. SleepLockOwner' BY DEF TypeOK, StateInv, InsideOnce, SleepLockOwner, Inside
  <2>3. SleepingOnHeld'
    BY DEF TypeOK, CpuInv, OnceInv, ReturnInv, OnCpu, SleepingOnHeld, Holds, Free, Locks
  <2>4. NoLostWakeup' BY DEF TypeOK, StateInv, SleepingOnHeld, NoLostWakeup
  <2> QED BY <2>1, <2>2, <2>3, <2>4 DEF LockInv
<1>20. ASSUME NEW p \in Procs, NEW c \in CPUs, Exit(p, c) PROVE LockInv'
  <2> USE <1>20 DEF Exit, InUser, Executes, AfterExit, Reparented, Wakeup1, cpuVars, tableVars, codeVars, lockVars
  <2>1. InsideOnce' BY DEF TypeOK, InsideOnce, SleepLockOwner, Inside
  <2>2. SleepLockOwner' BY DEF TypeOK, StateInv, InsideOnce, SleepLockOwner, Inside
  <2>3. SleepingOnHeld'
    BY DEF TypeOK, CpuInv, OnceInv, ReturnInv, OnCpu, SleepingOnHeld, Holds, Free, Locks
  <2>4. NoLostWakeup' BY DEF TypeOK, StateInv, SleepingOnHeld, NoLostWakeup
  <2> QED BY <2>1, <2>2, <2>3, <2>4 DEF LockInv
<1>21. ASSUME NEW p \in Procs, NEW c \in CPUs, WaitCall(p, c) PROVE LockInv'
  <2> USE <1>21 DEF WaitCall, Calls, InUser, Executes, cpuVars, tableVars, codeVars, lockVars
  <2>1. InsideOnce' BY DEF TypeOK, InsideOnce, SleepLockOwner, Inside
  <2>2. SleepLockOwner' BY DEF TypeOK, StateInv, InsideOnce, SleepLockOwner, Inside
  <2>3. SleepingOnHeld'
    BY DEF TypeOK, CpuInv, OnceInv, ReturnInv, OnCpu, SleepingOnHeld, Holds, Free, Locks
  <2>4. NoLostWakeup' BY DEF TypeOK, StateInv, SleepingOnHeld, NoLostWakeup
  <2> QED BY <2>1, <2>2, <2>3, <2>4 DEF LockInv
<1>22. ASSUME NEW p \in Procs, NEW c \in CPUs, Kill(p, c) PROVE LockInv'
  <2> USE <1>22 DEF Kill, Calls, InUser, Executes, AfterKill, cpuVars, tableVars, codeVars, lockVars
  <2>1. InsideOnce' BY DEF TypeOK, InsideOnce, SleepLockOwner, Inside
  <2>2. SleepLockOwner' BY DEF TypeOK, StateInv, InsideOnce, SleepLockOwner, Inside
  <2>3. SleepingOnHeld'
    BY DEF TypeOK, CpuInv, OnceInv, ReturnInv, OnCpu, SleepingOnHeld, Holds, Free, Locks
  <2>4. NoLostWakeup' BY DEF TypeOK, StateInv, SleepingOnHeld, NoLostWakeup
  <2> QED BY <2>1, <2>2, <2>3, <2>4 DEF LockInv
<1>23. ASSUME NEW p \in Procs, NEW c \in CPUs, SetBurstTime(p, c) PROVE LockInv'
  <2> USE <1>23 DEF SetBurstTime, Calls, InUser, Executes, cpuVars, tableVars, codeVars, lockVars
  <2>1. InsideOnce' BY DEF TypeOK, InsideOnce, SleepLockOwner, Inside
  <2>2. SleepLockOwner' BY DEF TypeOK, StateInv, InsideOnce, SleepLockOwner, Inside
  <2>3. SleepingOnHeld'
    BY DEF TypeOK, CpuInv, OnceInv, ReturnInv, OnCpu, SleepingOnHeld, Holds, Free, Locks
  <2>4. NoLostWakeup' BY DEF TypeOK, StateInv, SleepingOnHeld, NoLostWakeup
  <2> QED BY <2>1, <2>2, <2>3, <2>4 DEF LockInv
<1>24. ASSUME NEW p \in Procs, NEW c \in CPUs, AcquireSleepCall(p, c) PROVE LockInv'
  <2> USE <1>24 DEF AcquireSleepCall, Calls, InUser, Executes, cpuVars, tableVars, codeVars, lockVars
  <2>1. InsideOnce' BY DEF TypeOK, InsideOnce, SleepLockOwner, Inside
  <2>2. SleepLockOwner' BY DEF TypeOK, StateInv, InsideOnce, SleepLockOwner, Inside
  <2>3. SleepingOnHeld'
    BY DEF TypeOK, CpuInv, OnceInv, ReturnInv, OnCpu, SleepingOnHeld, Holds, Free, Locks
  <2>4. NoLostWakeup' BY DEF TypeOK, StateInv, SleepingOnHeld, NoLostWakeup
  <2> QED BY <2>1, <2>2, <2>3, <2>4 DEF LockInv
<1>25. ASSUME NEW p \in Procs, NEW c \in CPUs, Yield(p, c) PROVE LockInv'
  <2> USE <1>25 DEF Yield, Executes, NoLocks, cpuVars, tableVars, codeVars, lockVars
  <2>1. InsideOnce' BY DEF TypeOK, InsideOnce, SleepLockOwner, Inside
  <2>2. SleepLockOwner' BY DEF TypeOK, StateInv, InsideOnce, SleepLockOwner, Inside
  <2>3. SleepingOnHeld'
    BY DEF TypeOK, CpuInv, OnceInv, ReturnInv, OnCpu, SleepingOnHeld, Holds, Free, Locks
  <2>4. NoLostWakeup' BY DEF TypeOK, StateInv, SleepingOnHeld, NoLostWakeup
  <2> QED BY <2>1, <2>2, <2>3, <2>4 DEF LockInv
<1>26. CASE UNCHANGED vars
  <2> USE <1>26 DEF vars, cpuVars, tableVars, codeVars, lockVars
  <2>1. InsideOnce' BY DEF TypeOK, InsideOnce, SleepLockOwner, Inside
  <2>2. SleepLockOwner' BY DEF TypeOK, StateInv, InsideOnce, SleepLockOwner, Inside
  <2>3. SleepingOnHeld'
    BY DEF TypeOK, CpuInv, OnceInv, ReturnInv, OnCpu, SleepingOnHeld, Holds, Free, Locks
  <2>4. NoLostWakeup' BY DEF TypeOK, StateInv, SleepingOnHeld, NoLostWakeup
  <2> QED BY <2>1, <2>2, <2>3, <2>4 DEF LockInv
<1> QED BY <1>1, <1>2, <1>3, <1>4, <1>5, <1>6, <1>7, <1>8, <1>9, <1>10, <1>11, <1>12, <1>13,
    <1>14, <1>15, <1>16, <1>17, <1>18, <1>19, <1>20, <1>21, <1>22, <1>23, <1>24, <1>25, <1>26 DEF Next, Scheduler, Kernel, User

\* In every reachable state sleep locks are consistent with the code positions.
THEOREM LockInvariant == Spec => []LockInv
<1>1. IInv /\ LockInv /\ [Next]_vars => LockInv'
  BY LockNext
<1> QED BY LockInit, <1>1, InvariantHolds, PTL DEF Spec

\* locked and pid of a sleep lock name exactly the process that is inside.
THEOREM SleepLockTracksOwner == Spec => []SleepLockOwner
<1>1. LockInv => SleepLockOwner
  BY DEF LockInv
<1> QED BY <1>1, LockInvariant, PTL

\* Whoever sleeps on a lock will be woken: the lock is held or its release is
\* about to call wakeup.
THEOREM WakeupNotLost == Spec => []NoLostWakeup
<1>1. LockInv => NoLostWakeup
  BY DEF LockInv
<1> QED BY <1>1, LockInvariant, PTL

-----------------------------------------------------------------------------
\* Two views of who is inside: equal as soon as every lock's set is.
LEMMA SameInside ==
  ASSUME \A s \in SleepLocks : Inside(s)' = Inside(s)
  PROVE  UNCHANGED [s \in SleepLocks |-> Inside(s)]
OBVIOUS

\* A step outside acquiresleep and releasesleep leaves the abstract lock alone.
LEMMA OutsideStep ==
  ASSUME TypeOK, at' \in [Procs -> Places], want' \in [Procs -> SleepLocks \cup {NoChan}],
         \A p \in Procs : at[p] = "critical" <=> at'[p] = "critical",
         \A p \in Procs : at[p] = "critical" => want'[p] = want[p]
  PROVE  UNCHANGED [s \in SleepLocks |-> Inside(s)]
<1>1. \A s \in SleepLocks : Inside(s)' = Inside(s)
  BY DEF Inside
<1> QED BY <1>1, SameInside

\* Every step of the kernel is a step of the mutex or leaves it unchanged.
LEMMA MutexStep ==
  ASSUME IInv, IInv', LockInv, [Next]_vars
  PROVE  [M!Next]_([s \in SleepLocks |-> Inside(s)])

<1> DEFINE inside == [s \in SleepLocks |-> Inside(s)]
<1> USE Constants DEF IInv, LockInv
<1>1. ASSUME NEW c \in CPUs, SchedAcquire(c) PROVE UNCHANGED inside
  BY <1>1, OutsideStep DEF SchedAcquire, codeVars, TypeOK
<1>2. ASSUME NEW c \in CPUs, Dispatch(c) PROVE UNCHANGED inside
  BY <1>2, OutsideStep DEF Dispatch, codeVars, TypeOK
<1>3. ASSUME NEW c \in CPUs, SchedRelease(c) PROVE UNCHANGED inside
  BY <1>3, OutsideStep DEF SchedRelease, codeVars, TypeOK
<1>4. ASSUME NEW p \in Procs, NEW c \in CPUs, Sched(p, c) PROVE UNCHANGED inside
  BY <1>4, OutsideStep DEF Sched, codeVars, TypeOK
<1>5. ASSUME NEW p \in Procs, NEW c \in CPUs, Resume(p, c) PROVE UNCHANGED inside
  BY <1>5, OutsideStep DEF Resume, codeVars, TypeOK
<1>6. ASSUME NEW p \in Procs, NEW c \in CPUs, WaitResume(p, c) PROVE UNCHANGED inside
  BY <1>6, OutsideStep DEF WaitResume, codeVars, TypeOK
<1>7. ASSUME NEW p \in Procs, NEW c \in CPUs, SleepResume(p, c) PROVE UNCHANGED inside
  BY <1>7, OutsideStep DEF SleepResume, codeVars, TypeOK, ReturnInv
<1>8. ASSUME NEW p \in Procs, NEW c \in CPUs, ForkFail(p, c) PROVE UNCHANGED inside
  BY <1>8, OutsideStep DEF ForkFail, Executes, codeVars, TypeOK
<1>9. ASSUME NEW p \in Procs, NEW c \in CPUs, ForkCopy(p, c) PROVE UNCHANGED inside
  BY <1>9, OutsideStep DEF ForkCopy, Executes, codeVars, TypeOK
<1>10. ASSUME NEW p \in Procs, NEW c \in CPUs, ForkRun(p, c) PROVE UNCHANGED inside
  BY <1>10, OutsideStep DEF ForkRun, Executes, codeVars, TypeOK
<1>11. ASSUME NEW p \in Procs, NEW c \in CPUs, WaitReap(p, c) PROVE UNCHANGED inside
  BY <1>11, OutsideStep DEF WaitReap, WaitScans, Executes, codeVars, TypeOK
<1>12. ASSUME NEW p \in Procs, NEW c \in CPUs, WaitFail(p, c) PROVE UNCHANGED inside
  BY <1>12, OutsideStep DEF WaitFail, WaitScans, Executes, codeVars, TypeOK
<1>13. ASSUME NEW p \in Procs, NEW c \in CPUs, WaitSleep(p, c) PROVE UNCHANGED inside
  BY <1>13, OutsideStep DEF WaitSleep, WaitScans, Executes, codeVars, TypeOK
<1>14. ASSUME NEW p \in Procs, NEW c \in CPUs, AcquireSleepTake(p, c) PROVE [M!Next]_inside
  <2> DEFINE l == want[p]
  <2> USE <1>14 DEF AcquireSleepTake, Executes
  <2>1. l \in SleepLocks
    BY DEF TypeOK
  <2>2. Inside(l) = {}
    BY <2>1 DEF SleepLockOwner
  <2>3. Inside(l)' = {p}
    BY <2>1, <2>2 DEF TypeOK, Inside
  <2>4. \A s \in SleepLocks \ {l} : Inside(s)' = Inside(s)
    BY <2>1 DEF TypeOK, Inside
  <2>5. inside' = [inside EXCEPT ![l] = {p}]
    BY <2>1, <2>3, <2>4
  <2> QED BY <2>1, <2>2, <2>5 DEF M!Next, M!Acquire
<1>15. ASSUME NEW p \in Procs, NEW c \in CPUs, AcquireSleepBusy(p, c) PROVE UNCHANGED inside
  BY <1>15, OutsideStep DEF AcquireSleepBusy, Executes, codeVars, TypeOK
<1>16. ASSUME NEW p \in Procs, NEW c \in CPUs, Sleep(p, c) PROVE UNCHANGED inside
  BY <1>16, OutsideStep DEF Sleep, Executes, codeVars, TypeOK
<1>17. ASSUME NEW p \in Procs, NEW c \in CPUs, ReleaseSleep(p, c) PROVE [M!Next]_inside
  <2> DEFINE l == want[p]
  <2> USE <1>17 DEF ReleaseSleep, Executes
  <2>1. l \in SleepLocks /\ p \in Inside(l)
    BY DEF TypeOK, Inside
  <2>2. Inside(l) = {p}
    BY <2>1 DEF InsideOnce
  <2>3. Inside(l)' = {}
    BY <2>1, <2>2 DEF TypeOK, Inside
  <2>4. \A s \in SleepLocks \ {l} : Inside(s)' = Inside(s)
    BY <2>1 DEF TypeOK, Inside
  <2>5. inside' = [inside EXCEPT ![l] = {}]
    BY <2>1, <2>3, <2>4
  <2> QED BY <2>1, <2>2, <2>5 DEF M!Next, M!Release
<1>18. ASSUME NEW p \in Procs, NEW c \in CPUs, ReleaseSleepWakeup(p, c) PROVE UNCHANGED inside
  BY <1>18, OutsideStep DEF ReleaseSleepWakeup, Executes, codeVars, TypeOK
<1>19. ASSUME NEW p \in Procs, NEW c \in CPUs, AllocProc(p, c) PROVE UNCHANGED inside
  BY <1>19, OutsideStep DEF AllocProc, Calls, InUser, Executes, codeVars, TypeOK
<1>20. ASSUME NEW p \in Procs, NEW c \in CPUs, Exit(p, c) PROVE UNCHANGED inside
  BY <1>20, OutsideStep DEF Exit, InUser, Executes, codeVars, TypeOK
<1>21. ASSUME NEW p \in Procs, NEW c \in CPUs, WaitCall(p, c) PROVE UNCHANGED inside
  BY <1>21, OutsideStep DEF WaitCall, Calls, InUser, Executes, codeVars, TypeOK
<1>22. ASSUME NEW p \in Procs, NEW c \in CPUs, Kill(p, c) PROVE UNCHANGED inside
  BY <1>22, OutsideStep DEF Kill, Calls, InUser, Executes, codeVars, TypeOK
<1>23. ASSUME NEW p \in Procs, NEW c \in CPUs, SetBurstTime(p, c) PROVE UNCHANGED inside
  BY <1>23, OutsideStep DEF SetBurstTime, Calls, InUser, Executes, codeVars, TypeOK
<1>24. ASSUME NEW p \in Procs, NEW c \in CPUs, AcquireSleepCall(p, c) PROVE UNCHANGED inside
  BY <1>24, OutsideStep DEF AcquireSleepCall, Calls, InUser, Executes, codeVars, TypeOK
<1>25. ASSUME NEW p \in Procs, NEW c \in CPUs, Yield(p, c) PROVE UNCHANGED inside
  BY <1>25, OutsideStep DEF Yield, Executes, codeVars, TypeOK
<1>26. CASE UNCHANGED vars
  BY <1>26, OutsideStep DEF vars, codeVars, TypeOK
<1> QED BY <1>1, <1>2, <1>3, <1>4, <1>5, <1>6, <1>7, <1>8, <1>9, <1>10, <1>11, <1>12, <1>13,
    <1>14, <1>15, <1>16, <1>17, <1>18, <1>19, <1>20, <1>21, <1>22, <1>23, <1>24, <1>25, <1>26 DEF Next, Scheduler, Kernel, User

\* acquiresleep and releasesleep, with all their sleeping and waking, implement Mutex.
THEOREM SleepLockIsMutex == Spec => ImplementsMutex
<1>1. Init => M!Init
  BY DEF Init, M!Init, Inside
<1>2. IInv /\ IInv' /\ LockInv /\ [Next]_vars => [M!Next]_([s \in SleepLocks |-> Inside(s)])
  BY MutexStep
<1> QED BY <1>1, <1>2, InvariantHolds, LockInvariant, PTL DEF Spec, ImplementsMutex, M!Spec

-----------------------------------------------------------------------------
(***************************************************************************)
(* Parents, children and pids: wait sleeps only with a reason, exit leaves *)
(* no orphan, a pid names one process; for any number of processes.        *)
(***************************************************************************)

\* Pids are handed out in increasing order; a slot never has one not handed out yet.
PidInv == PidsUnique /\ nextpid > 0 /\ \A p \in Procs : pid[p] < nextpid

Living == {"SLEEPING", "RUNNABLE", "RUNNING"}

\* init has not exited, and is nobody's child.
InitAlive == state[InitProc] \in Living /\ parent[InitProc] = NoProc

\* A slot gets a parent when fork has copied the process, and loses it with wait.
ParentInv ==
  /\ \A p \in Procs : parent[p] # p
  /\ \A p \in Procs : state[p] = "UNUSED" => parent[p] = NoProc
  /\ \A p \in Procs : at[p] = "fork" => parent[child[p]] = NoProc
  /\ \A p \in Procs : at[p] = "forked" => parent[child[p]] = p

FamilyInv == PidInv /\ InitAlive /\ ParentInv /\ WaiterHasReason /\ NoOrphans

\* At the start there is init alone.
LEMMA FamilyInit == Init => FamilyInv
BY Constants
   DEF Init, FamilyInv, PidInv, PidsUnique, InitAlive, Living, ParentInv, WaiterHasReason, NoOrphans


\* Every step preserves it, given the invariant of the lock hand-over.
LEMMA FamilyNext == ASSUME IInv, FamilyInv, [Next]_vars PROVE FamilyInv'
<1> USE Constants DEF IInv, FamilyInv
<1>1. ASSUME NEW c \in CPUs, SchedAcquire(c) PROVE FamilyInv'
  <2> USE <1>1 DEF SchedAcquire, cpuVars, tableVars, codeVars, lockVars
  <2>1. PidInv' BY DEF TypeOK, PidInv, PidsUnique
  <2>2. InitAlive' BY DEF TypeOK, CpuInv, StateInv, ForkInv, ForkOwnsSlot, InitAlive, Living
  <2>3. ParentInv'
    BY DEF TypeOK, CpuInv, InitAlive, StateInv, ForkInv, ForkOwnsSlot, ParentInv
  <2>4. WaiterHasReason' BY DEF TypeOK, StateInv, ParentInv, WaiterHasReason, Children
  <2>5. NoOrphans' BY DEF TypeOK, StateInv, InitAlive, ParentInv, NoOrphans, Living
  <2> QED BY <2>1, <2>2, <2>3, <2>4, <2>5 DEF FamilyInv
<1>2. ASSUME NEW c \in CPUs, Dispatch(c) PROVE FamilyInv'
  <2> USE <1>2 DEF Dispatch, NextRunnable, Chosen, ShortestRunnable, cpuVars, tableVars, codeVars, lockVars
  <2>1. PidInv' BY DEF TypeOK, PidInv, PidsUnique
  <2>2. InitAlive' BY DEF TypeOK, CpuInv, StateInv, ForkInv, ForkOwnsSlot, InitAlive, Living
  <2>3. ParentInv'
    BY DEF TypeOK, CpuInv, InitAlive, StateInv, ForkInv, ForkOwnsSlot, ParentInv
  <2>4. WaiterHasReason' BY DEF TypeOK, StateInv, ParentInv, WaiterHasReason, Children
  <2>5. NoOrphans' BY DEF TypeOK, StateInv, InitAlive, ParentInv, NoOrphans, Living
  <2> QED BY <2>1, <2>2, <2>3, <2>4, <2>5 DEF FamilyInv
<1>3. ASSUME NEW c \in CPUs, SchedRelease(c) PROVE FamilyInv'
  <2> USE <1>3 DEF SchedRelease, cpuVars, tableVars, codeVars, lockVars
  <2>1. PidInv' BY DEF TypeOK, PidInv, PidsUnique
  <2>2. InitAlive' BY DEF TypeOK, CpuInv, StateInv, ForkInv, ForkOwnsSlot, InitAlive, Living
  <2>3. ParentInv'
    BY DEF TypeOK, CpuInv, InitAlive, StateInv, ForkInv, ForkOwnsSlot, ParentInv
  <2>4. WaiterHasReason' BY DEF TypeOK, StateInv, ParentInv, WaiterHasReason, Children
  <2>5. NoOrphans' BY DEF TypeOK, StateInv, InitAlive, ParentInv, NoOrphans, Living
  <2> QED BY <2>1, <2>2, <2>3, <2>4, <2>5 DEF FamilyInv
<1>4. ASSUME NEW p \in Procs, NEW c \in CPUs, Sched(p, c) PROVE FamilyInv'
  <2> USE <1>4 DEF Sched, cpuVars, tableVars, codeVars, lockVars
  <2>1. PidInv' BY DEF TypeOK, PidInv, PidsUnique
  <2>2. InitAlive' BY DEF TypeOK, CpuInv, StateInv, ForkInv, ForkOwnsSlot, InitAlive, Living
  <2>3. ParentInv'
    BY DEF TypeOK, CpuInv, InitAlive, StateInv, ForkInv, ForkOwnsSlot, ParentInv
  <2>4. WaiterHasReason' BY DEF TypeOK, StateInv, ParentInv, WaiterHasReason, Children
  <2>5. NoOrphans' BY DEF TypeOK, StateInv, InitAlive, ParentInv, NoOrphans, Living
  <2> QED BY <2>1, <2>2, <2>3, <2>4, <2>5 DEF FamilyInv
<1>5. ASSUME NEW p \in Procs, NEW c \in CPUs, Resume(p, c) PROVE FamilyInv'
  <2> USE <1>5 DEF Resume, cpuVars, tableVars, codeVars, lockVars
  <2>1. PidInv' BY DEF TypeOK, PidInv, PidsUnique
  <2>2. InitAlive' BY DEF TypeOK, CpuInv, StateInv, ForkInv, ForkOwnsSlot, InitAlive, Living
  <2>3. ParentInv'
    BY DEF TypeOK, CpuInv, InitAlive, StateInv, ForkInv, ForkOwnsSlot, ParentInv
  <2>4. WaiterHasReason' BY DEF TypeOK, StateInv, ParentInv, WaiterHasReason, Children
  <2>5. NoOrphans' BY DEF TypeOK, StateInv, InitAlive, ParentInv, NoOrphans, Living
  <2> QED BY <2>1, <2>2, <2>3, <2>4, <2>5 DEF FamilyInv
<1>6. ASSUME NEW p \in Procs, NEW c \in CPUs, WaitResume(p, c) PROVE FamilyInv'
  <2> USE <1>6 DEF WaitResume, cpuVars, tableVars, codeVars, lockVars
  <2>1. PidInv' BY DEF TypeOK, PidInv, PidsUnique
  <2>2. InitAlive' BY DEF TypeOK, CpuInv, StateInv, ForkInv, ForkOwnsSlot, InitAlive, Living
  <2>3. ParentInv'
    BY DEF TypeOK, CpuInv, InitAlive, StateInv, ForkInv, ForkOwnsSlot, ParentInv
  <2>4. WaiterHasReason' BY DEF TypeOK, StateInv, ParentInv, WaiterHasReason, Children
  <2>5. NoOrphans' BY DEF TypeOK, StateInv, InitAlive, ParentInv, NoOrphans, Living
  <2> QED BY <2>1, <2>2, <2>3, <2>4, <2>5 DEF FamilyInv
<1>7. ASSUME NEW p \in Procs, NEW c \in CPUs, SleepResume(p, c) PROVE FamilyInv'
  <2> USE <1>7 DEF SleepResume, cpuVars, tableVars, codeVars, lockVars
  <2>1. PidInv' BY DEF TypeOK, PidInv, PidsUnique
  <2>2. InitAlive' BY DEF TypeOK, CpuInv, StateInv, ForkInv, ForkOwnsSlot, InitAlive, Living
  <2>3. ParentInv'
    BY DEF TypeOK, CpuInv, InitAlive, StateInv, ForkInv, ForkOwnsSlot, ParentInv
  <2>4. WaiterHasReason' BY DEF TypeOK, StateInv, ParentInv, WaiterHasReason, Children
  <2>5. NoOrphans' BY DEF TypeOK, StateInv, InitAlive, ParentInv, NoOrphans, Living
  <2> QED BY <2>1, <2>2, <2>3, <2>4, <2>5 DEF FamilyInv
<1>8. ASSUME NEW p \in Procs, NEW c \in CPUs, ForkFail(p, c) PROVE FamilyInv'
  <2> USE <1>8 DEF ForkFail, Executes, cpuVars, tableVars, codeVars, lockVars
  <2>1. PidInv' BY DEF TypeOK, PidInv, PidsUnique
  <2>2. InitAlive' BY DEF TypeOK, CpuInv, StateInv, ForkInv, ForkOwnsSlot, InitAlive, Living
  <2>3. ParentInv'
    BY DEF TypeOK, CpuInv, InitAlive, StateInv, ForkInv, ForkOwnsSlot, ParentInv
  <2>4. WaiterHasReason' BY DEF TypeOK, StateInv, ParentInv, WaiterHasReason, Children
  <2>5. NoOrphans'
    BY DEF TypeOK, StateInv, InitAlive, ParentInv, NoOrphans, Living, ForkInv, ForkOwnsSlot
  <2> QED BY <2>1, <2>2, <2>3, <2>4, <2>5 DEF FamilyInv
<1>9. ASSUME NEW p \in Procs, NEW c \in CPUs, ForkCopy(p, c) PROVE FamilyInv'
  <2> USE <1>9 DEF ForkCopy, Executes, cpuVars, tableVars, codeVars, lockVars
  <2>1. PidInv' BY DEF TypeOK, PidInv, PidsUnique
  <2>2. InitAlive' BY DEF TypeOK, CpuInv, StateInv, ForkInv, ForkOwnsSlot, InitAlive, Living
  <2>3. ParentInv'
    BY DEF TypeOK, CpuInv, InitAlive, StateInv, ForkInv, ForkOwnsSlot, ParentInv
  <2>4. WaiterHasReason' BY DEF TypeOK, StateInv, ParentInv, WaiterHasReason, Children
  <2>5. NoOrphans' BY DEF TypeOK, StateInv, InitAlive, ParentInv, NoOrphans, Living
  <2> QED BY <2>1, <2>2, <2>3, <2>4, <2>5 DEF FamilyInv
<1>10. ASSUME NEW p \in Procs, NEW c \in CPUs, ForkRun(p, c) PROVE FamilyInv'
  <2> USE <1>10 DEF ForkRun, Executes, cpuVars, tableVars, codeVars, lockVars
  <2>1. PidInv' BY DEF TypeOK, PidInv, PidsUnique
  <2>2. InitAlive' BY DEF TypeOK, CpuInv, StateInv, ForkInv, ForkOwnsSlot, InitAlive, Living
  <2>3. ParentInv'
    BY DEF TypeOK, CpuInv, InitAlive, StateInv, ForkInv, ForkOwnsSlot, ParentInv
  <2>4. WaiterHasReason' BY DEF TypeOK, StateInv, ParentInv, WaiterHasReason, Children
  <2>5. NoOrphans' BY DEF TypeOK, StateInv, InitAlive, ParentInv, NoOrphans, Living
  <2> QED BY <2>1, <2>2, <2>3, <2>4, <2>5 DEF FamilyInv
<1>11. ASSUME NEW p \in Procs, NEW c \in CPUs, WaitReap(p, c) PROVE FamilyInv'
  <2> USE <1>11 DEF WaitReap, WaitScans, ZombieChild, Executes, cpuVars, tableVars, codeVars, lockVars
  <2>1. PidInv' BY DEF TypeOK, PidInv, PidsUnique
  <2>2. InitAlive' BY DEF TypeOK, CpuInv, StateInv, ForkInv, ForkOwnsSlot, InitAlive, Living
  <2>3. ParentInv'
    BY DEF TypeOK, CpuInv, InitAlive, StateInv, ForkInv, ForkOwnsSlot, ParentInv
  <2>4. WaiterHasReason' BY DEF TypeOK, StateInv, ParentInv, WaiterHasReason, Children
  <2>5. NoOrphans' BY DEF TypeOK, StateInv, InitAlive, ParentInv, NoOrphans, Living
  <2> QED BY <2>1, <2>2, <2>3, <2>4, <2>5 DEF FamilyInv
<1>12. ASSUME NEW p \in Procs, NEW c \in CPUs, WaitFail(p, c) PROVE FamilyInv'
  <2> USE <1>12 DEF WaitFail, WaitScans, Executes, cpuVars, tableVars, codeVars, lockVars
  <2>1. PidInv' BY DEF TypeOK, PidInv, PidsUnique
  <2>2. InitAlive' BY DEF TypeOK, CpuInv, StateInv, ForkInv, ForkOwnsSlot, InitAlive, Living
  <2>3. ParentInv'
    BY DEF TypeOK, CpuInv, InitAlive, StateInv, ForkInv, ForkOwnsSlot, ParentInv
  <2>4. WaiterHasReason' BY DEF TypeOK, StateInv, ParentInv, WaiterHasReason, Children
  <2>5. NoOrphans' BY DEF TypeOK, StateInv, InitAlive, ParentInv, NoOrphans, Living
  <2> QED BY <2>1, <2>2, <2>3, <2>4, <2>5 DEF FamilyInv
<1>13. ASSUME NEW p \in Procs, NEW c \in CPUs, WaitSleep(p, c) PROVE FamilyInv'
  <2> USE <1>13 DEF WaitSleep, WaitScans, ZombieChild, Executes, cpuVars, tableVars, codeVars, lockVars
  <2>1. PidInv' BY DEF TypeOK, PidInv, PidsUnique
  <2>2. InitAlive' BY DEF TypeOK, CpuInv, StateInv, ForkInv, ForkOwnsSlot, InitAlive, Living
  <2>3. ParentInv'
    BY DEF TypeOK, CpuInv, InitAlive, StateInv, ForkInv, ForkOwnsSlot, ParentInv
  <2>4. WaiterHasReason' BY DEF TypeOK, StateInv, ParentInv, WaiterHasReason, Children
  <2>5. NoOrphans' BY DEF TypeOK, StateInv, InitAlive, ParentInv, NoOrphans, Living
  <2> QED BY <2>1, <2>2, <2>3, <2>4, <2>5 DEF FamilyInv
<1>14. ASSUME NEW p \in Procs, NEW c \in CPUs, AcquireSleepTake(p, c) PROVE FamilyInv'
  <2> USE <1>14 DEF AcquireSleepTake, Executes, cpuVars, tableVars, codeVars, lockVars
  <2>1. PidInv' BY DEF TypeOK, PidInv, PidsUnique
  <2>2. InitAlive' BY DEF TypeOK, CpuInv, StateInv, ForkInv, ForkOwnsSlot, InitAlive, Living
  <2>3. ParentInv'
    BY DEF TypeOK, CpuInv, InitAlive, StateInv, ForkInv, ForkOwnsSlot, ParentInv
  <2>4. WaiterHasReason' BY DEF TypeOK, StateInv, ParentInv, WaiterHasReason, Children
  <2>5. NoOrphans' BY DEF TypeOK, StateInv, InitAlive, ParentInv, NoOrphans, Living
  <2> QED BY <2>1, <2>2, <2>3, <2>4, <2>5 DEF FamilyInv
<1>15. ASSUME NEW p \in Procs, NEW c \in CPUs, AcquireSleepBusy(p, c) PROVE FamilyInv'
  <2> USE <1>15 DEF AcquireSleepBusy, Executes, cpuVars, tableVars, codeVars, lockVars
  <2>1. PidInv' BY DEF TypeOK, PidInv, PidsUnique
  <2>2. InitAlive' BY DEF TypeOK, CpuInv, StateInv, ForkInv, ForkOwnsSlot, InitAlive, Living
  <2>3. ParentInv'
    BY DEF TypeOK, CpuInv, InitAlive, StateInv, ForkInv, ForkOwnsSlot, ParentInv
  <2>4. WaiterHasReason' BY DEF TypeOK, StateInv, ParentInv, WaiterHasReason, Children
  <2>5. NoOrphans' BY DEF TypeOK, StateInv, InitAlive, ParentInv, NoOrphans, Living
  <2> QED BY <2>1, <2>2, <2>3, <2>4, <2>5 DEF FamilyInv
<1>16. ASSUME NEW p \in Procs, NEW c \in CPUs, Sleep(p, c) PROVE FamilyInv'
  <2> USE <1>16 DEF Sleep, Executes, cpuVars, tableVars, codeVars, lockVars
  <2>1. PidInv' BY DEF TypeOK, PidInv, PidsUnique
  <2>2. InitAlive' BY DEF TypeOK, CpuInv, StateInv, ForkInv, ForkOwnsSlot, InitAlive, Living
  <2>3. ParentInv'
    BY DEF TypeOK, CpuInv, InitAlive, StateInv, ForkInv, ForkOwnsSlot, ParentInv
  <2>4. WaiterHasReason' BY DEF TypeOK, StateInv, ParentInv, WaiterHasReason, Children
  <2>5. NoOrphans' BY DEF TypeOK, StateInv, InitAlive, ParentInv, NoOrphans, Living
  <2> QED BY <2>1, <2>2, <2>3, <2>4, <2>5 DEF FamilyInv
<1>17. ASSUME NEW p \in Procs, NEW c \in CPUs, ReleaseSleep(p, c) PROVE FamilyInv'
  <2> USE <1>17 DEF ReleaseSleep, Executes, cpuVars, tableVars, codeVars, lockVars
  <2>1. PidInv' BY DEF TypeOK, PidInv, PidsUnique
  <2>2. InitAlive' BY DEF TypeOK, CpuInv, StateInv, ForkInv, ForkOwnsSlot, InitAlive, Living
  <2>3. ParentInv'
    BY DEF TypeOK, CpuInv, InitAlive, StateInv, ForkInv, ForkOwnsSlot, ParentInv
  <2>4. WaiterHasReason' BY DEF TypeOK, StateInv, ParentInv, WaiterHasReason, Children
  <2>5. NoOrphans' BY DEF TypeOK, StateInv, InitAlive, ParentInv, NoOrphans, Living
  <2> QED BY <2>1, <2>2, <2>3, <2>4, <2>5 DEF FamilyInv
<1>18. ASSUME NEW p \in Procs, NEW c \in CPUs, ReleaseSleepWakeup(p, c) PROVE FamilyInv'
  <2> USE <1>18 DEF ReleaseSleepWakeup, Executes, Wakeup1, cpuVars, tableVars, codeVars, lockVars
  <2>1. PidInv' BY DEF TypeOK, PidInv, PidsUnique
  <2>2. InitAlive' BY DEF TypeOK, CpuInv, StateInv, ForkInv, ForkOwnsSlot, InitAlive, Living
  <2>3. ParentInv'
    BY DEF TypeOK, CpuInv, InitAlive, StateInv, ForkInv, ForkOwnsSlot, ParentInv
  <2>4. WaiterHasReason' BY DEF TypeOK, StateInv, ParentInv, WaiterHasReason, Children
  <2>5. NoOrphans' BY DEF TypeOK, StateInv, InitAlive, ParentInv, NoOrphans, Living
  <2> QED BY <2>1, <2>2, <2>3, <2>4, <2>5 DEF FamilyInv
<1>19. ASSUME NEW p \in Procs, NEW c \in CPUs, AllocProc(p, c) PROVE FamilyInv'
  <2> USE <1>19 DEF AllocProc, Calls, InUser, Executes, FirstUnused, cpuVars, tableVars, codeVars, lockVars
  <2>1. PidInv' BY DEF TypeOK, PidInv, PidsUnique
  <2>2. InitAlive' BY DEF TypeOK, CpuInv, StateInv, ForkInv, ForkOwnsSlot, InitAlive, Living
  <2>3. ParentInv'
    BY DEF TypeOK, CpuInv, InitAlive, StateInv, ForkInv, ForkOwnsSlot, ParentInv
  <2>4. WaiterHasReason' BY DEF TypeOK, StateInv, ParentInv, WaiterHasReason, Children
  <2>5. NoOrphans' BY DEF TypeOK, StateInv, InitAlive, ParentInv, NoOrphans, Living
  <2> QED BY <2>1, <2>2, <2>3, <2>4, <2>5 DEF FamilyInv
<1>20. ASSUME NEW p \in Procs, NEW c \in CPUs, Exit(p, c) PROVE FamilyInv'
  <2> USE <1>20 DEF Exit, InUser, Executes, AfterExit, Reparented, Wakeup1, cpuVars, tableVars, codeVars, lockVars
  <2>1. PidInv' BY DEF TypeOK, PidInv, PidsUnique
  <2>2. InitAlive' BY DEF TypeOK, CpuInv, StateInv, ForkInv, ForkOwnsSlot, InitAlive, Living
  <2>3. ParentInv'
    BY DEF TypeOK, CpuInv, InitAlive, StateInv, ForkInv, ForkOwnsSlot, ParentInv
  <2>4. WaiterHasReason'
    <3>1. state[p] = "RUNNING"
      BY DEF CpuInv, StateInv
    <3>2. SUFFICES ASSUME NEW q \in Procs, state'[q] = "SLEEPING", chan'[q] = q
                   PROVE  /\ Children(q)' # {}
                          /\ \A r \in Children(q)' : state'[r] # "ZOMBIE"
                          /\ ~killed'[q]
      BY DEF WaiterHasReason
    <3>3. state[q] = "SLEEPING" /\ chan[q] = q /\ q # p /\ q # parent[p]
      BY <3>1, <3>2 DEF TypeOK
    <3>4. Children(q) # {} /\ ~killed[q] /\ \A r \in Children(q) : state[r] # "ZOMBIE"
      BY <3>3 DEF WaiterHasReason
    <3>5. Children(q) \subseteq Children(q)'
      BY <3>3 DEF Children, TypeOK
    <3>6. \A r \in Procs \ {p} : state'[r] = "ZOMBIE" => state[r] = "ZOMBIE"
      BY DEF TypeOK
    <3>7. ASSUME NEW r \in Children(q)' PROVE state'[r] # "ZOMBIE"
      <4>1. CASE parent[r] # p
        BY <3>3, <3>4, <3>6, <3>7, <4>1 DEF Children, TypeOK
      <4>2. CASE parent[r] = p
        <5>1. q = InitProc /\ r # p
          BY <3>7, <4>2 DEF Children, TypeOK, ParentInv
        <5>2. \A x \in Children(p) : Wakeup1(state, parent[p])[x] # "ZOMBIE"
          BY <3>2, <3>3, <5>1 DEF TypeOK
        <5>3. state[r] # "ZOMBIE"
          BY <4>2, <5>2, <3>7 DEF Children, TypeOK
        <5> QED BY <3>6, <3>7, <5>1, <5>3 DEF Children
      <4> QED BY <4>1, <4>2
    <3> QED BY <3>4, <3>5, <3>7
  <2>5. NoOrphans'
    <3>1. state[p] = "RUNNING"
      BY DEF CpuInv, StateInv
    <3>2. ASSUME NEW q \in Procs \ {p}, state[q] \in Living PROVE state'[q] \in Living
      BY <3>2 DEF TypeOK, Living
    <3>3. \A q \in Procs : state'[q] \notin {"UNUSED", "EMBRYO"} => state[q] \notin {"UNUSED", "EMBRYO"}
      BY <3>1 DEF TypeOK
    <3>4. state'[InitProc] \in Living
      BY <3>2 DEF InitAlive
    <3>5. ASSUME NEW q \in Procs \ {InitProc}, state'[q] \notin {"UNUSED", "EMBRYO"}
          PROVE  parent'[q] # NoProc /\ state'[parent'[q]] \in Living
      <4>1. parent[q] # NoProc /\ state[parent[q]] \in Living
        BY <3>3, <3>5 DEF NoOrphans, Living
      <4>2. CASE parent[q] = p
        BY <3>4, <4>2 DEF TypeOK
      <4>3. CASE parent[q] # p
        BY ZenonT(60), <3>2, <4>1, <4>3 DEF TypeOK
      <4> QED BY <4>2, <4>3
    <3> QED BY <3>5 DEF NoOrphans, Living
  <2> QED BY <2>1, <2>2, <2>3, <2>4, <2>5 DEF FamilyInv
<1>21. ASSUME NEW p \in Procs, NEW c \in CPUs, WaitCall(p, c) PROVE FamilyInv'
  <2> USE <1>21 DEF WaitCall, Calls, InUser, Executes, cpuVars, tableVars, codeVars, lockVars
  <2>1. PidInv' BY DEF TypeOK, PidInv, PidsUnique
  <2>2. InitAlive' BY DEF TypeOK, CpuInv, StateInv, ForkInv, ForkOwnsSlot, InitAlive, Living
  <2>3. ParentInv'
    BY DEF TypeOK, CpuInv, InitAlive, StateInv, ForkInv, ForkOwnsSlot, ParentInv
  <2>4. WaiterHasReason' BY DEF TypeOK, StateInv, ParentInv, WaiterHasReason, Children
  <2>5. NoOrphans' BY DEF TypeOK, StateInv, InitAlive, ParentInv, NoOrphans, Living
  <2> QED BY <2>1, <2>2, <2>3, <2>4, <2>5 DEF FamilyInv
<1>22. ASSUME NEW p \in Procs, NEW c \in CPUs, Kill(p, c) PROVE FamilyInv'
  <2> USE <1>22 DEF Kill, Calls, InUser, Executes, AfterKill, cpuVars, tableVars, codeVars, lockVars
  <2>1. PidInv' BY DEF TypeOK, PidInv, PidsUnique
  <2>2. InitAlive' BY DEF TypeOK, CpuInv, StateInv, ForkInv, ForkOwnsSlot, InitAlive, Living
  <2>3. ParentInv'
    BY DEF TypeOK, CpuInv, InitAlive, StateInv, ForkInv, ForkOwnsSlot, ParentInv
  <2>4. WaiterHasReason' BY DEF TypeOK, StateInv, ParentInv, WaiterHasReason, Children
  <2>5. NoOrphans' BY DEF TypeOK, StateInv, InitAlive, ParentInv, NoOrphans, Living
  <2> QED BY <2>1, <2>2, <2>3, <2>4, <2>5 DEF FamilyInv
<1>23. ASSUME NEW p \in Procs, NEW c \in CPUs, SetBurstTime(p, c) PROVE FamilyInv'
  <2> USE <1>23 DEF SetBurstTime, Calls, InUser, Executes, cpuVars, tableVars, codeVars, lockVars
  <2>1. PidInv' BY DEF TypeOK, PidInv, PidsUnique
  <2>2. InitAlive' BY DEF TypeOK, CpuInv, StateInv, ForkInv, ForkOwnsSlot, InitAlive, Living
  <2>3. ParentInv'
    BY DEF TypeOK, CpuInv, InitAlive, StateInv, ForkInv, ForkOwnsSlot, ParentInv
  <2>4. WaiterHasReason' BY DEF TypeOK, StateInv, ParentInv, WaiterHasReason, Children
  <2>5. NoOrphans' BY DEF TypeOK, StateInv, InitAlive, ParentInv, NoOrphans, Living
  <2> QED BY <2>1, <2>2, <2>3, <2>4, <2>5 DEF FamilyInv
<1>24. ASSUME NEW p \in Procs, NEW c \in CPUs, AcquireSleepCall(p, c) PROVE FamilyInv'
  <2> USE <1>24 DEF AcquireSleepCall, Calls, InUser, Executes, cpuVars, tableVars, codeVars, lockVars
  <2>1. PidInv' BY DEF TypeOK, PidInv, PidsUnique
  <2>2. InitAlive' BY DEF TypeOK, CpuInv, StateInv, ForkInv, ForkOwnsSlot, InitAlive, Living
  <2>3. ParentInv'
    BY DEF TypeOK, CpuInv, InitAlive, StateInv, ForkInv, ForkOwnsSlot, ParentInv
  <2>4. WaiterHasReason' BY DEF TypeOK, StateInv, ParentInv, WaiterHasReason, Children
  <2>5. NoOrphans' BY DEF TypeOK, StateInv, InitAlive, ParentInv, NoOrphans, Living
  <2> QED BY <2>1, <2>2, <2>3, <2>4, <2>5 DEF FamilyInv
<1>25. ASSUME NEW p \in Procs, NEW c \in CPUs, Yield(p, c) PROVE FamilyInv'
  <2> USE <1>25 DEF Yield, Executes, NoLocks, cpuVars, tableVars, codeVars, lockVars
  <2>1. PidInv' BY DEF TypeOK, PidInv, PidsUnique
  <2>2. InitAlive' BY DEF TypeOK, CpuInv, StateInv, ForkInv, ForkOwnsSlot, InitAlive, Living
  <2>3. ParentInv'
    BY DEF TypeOK, CpuInv, InitAlive, StateInv, ForkInv, ForkOwnsSlot, ParentInv
  <2>4. WaiterHasReason' BY DEF TypeOK, StateInv, ParentInv, WaiterHasReason, Children
  <2>5. NoOrphans' BY DEF TypeOK, StateInv, InitAlive, ParentInv, NoOrphans, Living
  <2> QED BY <2>1, <2>2, <2>3, <2>4, <2>5 DEF FamilyInv
<1>26. CASE UNCHANGED vars
  <2> USE <1>26 DEF vars, cpuVars, tableVars, codeVars, lockVars
  <2>1. PidInv' BY DEF TypeOK, PidInv, PidsUnique
  <2>2. InitAlive' BY DEF TypeOK, CpuInv, StateInv, ForkInv, ForkOwnsSlot, InitAlive, Living
  <2>3. ParentInv'
    BY DEF TypeOK, CpuInv, InitAlive, StateInv, ForkInv, ForkOwnsSlot, ParentInv
  <2>4. WaiterHasReason' BY DEF TypeOK, StateInv, ParentInv, WaiterHasReason, Children
  <2>5. NoOrphans' BY DEF TypeOK, StateInv, InitAlive, ParentInv, NoOrphans, Living
  <2> QED BY <2>1, <2>2, <2>3, <2>4, <2>5 DEF FamilyInv
<1> QED BY <1>1, <1>2, <1>3, <1>4, <1>5, <1>6, <1>7, <1>8, <1>9, <1>10, <1>11, <1>12, <1>13,
    <1>14, <1>15, <1>16, <1>17, <1>18, <1>19, <1>20, <1>21, <1>22, <1>23, <1>24, <1>25, <1>26 DEF Next, Scheduler, Kernel, User

\* In every reachable state the process tree and the pids are in order.
THEOREM FamilyInvariant == Spec => []FamilyInv
<1>1. IInv /\ FamilyInv /\ [Next]_vars => FamilyInv'
  BY FamilyNext
<1> QED BY FamilyInit, <1>1, InvariantHolds, PTL DEF Spec

\* A process asleep in wait has a child, none that has exited, and is not killed.
THEOREM WaitersWaitForSomething == Spec => []WaiterHasReason
<1>1. FamilyInv => WaiterHasReason
  BY DEF FamilyInv
<1> QED BY <1>1, FamilyInvariant, PTL

\* Every process but init has a living parent that can reap it.
THEOREM NobodyIsOrphaned == Spec => []NoOrphans
<1>1. FamilyInv => NoOrphans
  BY DEF FamilyInv
<1> QED BY <1>1, FamilyInvariant, PTL

\* A pid that is not 0 is in one slot only, even after failed forks.
THEOREM PidsNameOneProcess == Spec => []PidsUnique
<1>1. FamilyInv => PidsUnique
  BY DEF FamilyInv, PidInv
<1> QED BY <1>1, FamilyInvariant, PTL

\* The three together, as the run checks them.
THEOREM FamilyIsSound == Spec => []FamilySound
<1>1. FamilyInv => FamilySound
  BY DEF FamilyInv, PidInv, FamilySound
<1> QED BY <1>1, FamilyInvariant, PTL
=============================================================================
