------------------------------- MODULE Pipe ---------------------------------
(***************************************************************************)
(* A pipe (pipe.c), the two entries of the file table that refer to it     *)
(* (file.c), and the processes that share them through fork.               *)
(*                                                                         *)
(* One step is a critical section under the pipe's lock or ftable.lock.  A *)
(* call that goes to sleep has two: kill does not take the pipe's lock,    *)
(* and may come between the test of p->killed and sleep.  That sleep gives *)
(* up the lock without missing a wakeup is a property of module Proc.      *)
(***************************************************************************)
EXTENDS Integers, Sequences, FiniteSetsExt

CONSTANTS
  NPROC,          \* process slots
  PIPESIZE,
  UintRange,      \* values of a uint; 2^32 in the code
  MaxCall,        \* bytes that a call asks for, at most
  MaxBytes,       \* BOUND: no write once so many bytes have been stored
  MaxKills        \* BOUND: processes killed

ASSUME PipeAssumption ==
  /\ NPROC \in Nat \ {0}
  /\ PIPESIZE \in Nat \ {0} /\ UintRange \in Nat
  /\ UintRange % PIPESIZE = 0 /\ UintRange > PIPESIZE
  /\ MaxCall \in Nat \ {0} /\ MaxBytes \in Nat /\ MaxKills \in Nat

Ends == {"read", "write"}        \* f0 and f1 of pipealloc
Procs  == 1 .. NPROC             \* a process, by the order of allocproc
NoProc == 0
NoEnd  == "none"

VARIABLES
  data, nread, nwrite, open,     \* struct pipe; open: readopen and writeopen
  lock,                          \* who holds p->lock across a step
  memory,                        \* the page of the pipe: "none", "used", "freed"
  ref,                           \* ref of the two struct file
  fd,                            \* by process: ends in ofile
  pc, left, todo, end,           \* place; bytes left of a call; ends to close; end in pipeclose
  exiting, killed,
  sent, received, abandoned      \* history: bytes stored, bytes copied out, see AbandonsData

pipe  == <<data, nread, nwrite, open, lock, memory>>
files == <<ref, fd>>
calls == <<left, todo, end, exiting>>
hist  == <<sent, received, abandoned>>
vars  == <<pipe, files, pc, calls, killed, hist>>

Init ==
  /\ data = [i \in 0 .. PIPESIZE - 1 |-> 0] /\ nread = 0 /\ nwrite = 0
  /\ open = {} /\ lock = NoProc /\ memory = "none"
  /\ ref = [e \in Ends |-> 0] /\ fd = [p \in Procs |-> {}]
  /\ pc = [p \in Procs |-> IF p = 1 THEN "user" ELSE "unborn"]
  /\ left = [p \in Procs |-> 0] /\ todo = [p \in Procs |-> {}]
  /\ end = [p \in Procs |-> NoEnd]
  /\ exiting = {} /\ killed = {}
  /\ sent = 0 /\ received = <<>> /\ abandoned = FALSE

\* A killed process does not enter a system call.
Calls(p) == pc[p] = "user" /\ p \notin killed
Return(p) == left' = [left EXCEPT ![p] = 0]
Goto(p, place) == pc' = [pc EXCEPT ![p] = place]

\* wakeup of those who sleep at the place given: they run their loop again.
Woken(place) ==
  [q \in Procs |-> CASE pc[q] = place /\ place = "readSleep" -> "read"
                     [] pc[q] = place /\ place = "writeSleep" -> "write"
                     [] OTHER -> pc[q]]

-----------------------------------------------------------------------------
(* sys_pipe, fork                                                          *)

MakePipe ==
  /\ memory = "none"
  /\ memory' = "used"
  /\ open' = Ends
  /\ ref' = [e \in Ends |-> 1]
  /\ UNCHANGED <<data, nread, nwrite, lock, left, end, exiting, killed, hist>>

SysPipe(p) ==
  /\ Calls(p)
  /\ MakePipe
  /\ fd' = [fd EXCEPT ![p] = Ends]
  /\ UNCHANGED <<pc, todo>>

\* fdalloc finds no descriptor: both files are closed again.
SysPipeNoFd(p) ==
  /\ Calls(p)
  /\ MakePipe
  /\ todo' = [todo EXCEPT ![p] = Ends]
  /\ Goto(p, "closing")
  /\ UNCHANGED fd

\* filedup for each descriptor of the parent.
Fork(p, q) ==
  /\ Calls(p)
  /\ pc[q] = "unborn" /\ \A r \in Procs : r < q => pc[r] # "unborn"
  /\ fd' = [fd EXCEPT ![q] = fd[p]]
  /\ ref' = [e \in Ends |-> IF e \in fd[p] THEN ref[e] + 1 ELSE ref[e]]
  /\ Goto(q, "user")
  /\ UNCHANGED <<pipe, calls, killed, hist>>

-----------------------------------------------------------------------------
(* pipewrite                                                               *)

\* Iterations until nwrite == nread + PIPESIZE, in uint arithmetic.
Room_OneMore == (nread + PIPESIZE + 1 - nwrite) % UintRange         \* mutant
Room == (nread + PIPESIZE - nwrite) % UintRange
Unread == (nwrite - nread) % UintRange       \* iterations until nread == nwrite

CallWrite(p) ==
  /\ Calls(p)
  /\ "write" \in fd[p]
  /\ sent < MaxBytes
  /\ \E n \in 1 .. MaxCall : left' = [left EXCEPT ![p] = n]
  /\ Goto(p, "write")
  /\ UNCHANGED <<pipe, files, todo, end, exiting, killed, hist>>

\* The next n bytes go into the ring; a byte is the number of its predecessors.
Store(n) ==
  /\ data' = [i \in DOMAIN data |->
       LET here == {k \in 0 .. n - 1 : ((nwrite + k) % UintRange) % PIPESIZE = i}
       IN IF here = {} THEN data[i] ELSE sent + Max(here)]
  /\ nwrite' = (nwrite + n) % UintRange
  /\ sent' = sent + n

GivesUp(p) == "read" \notin open \/ p \in killed

\* History: bytes were stored since the last wakeup of readers, and the writer gives
\* up without another.
AbandonsData(n) == abandoned' = (abandoned \/ n > 0)

\* All n bytes are stored, or as many as there is room for and the call gives up or
\* is about to sleep.
Write(p) ==
  /\ pc[p] = "write" /\ lock = NoProc
  /\ LET n == Min({left[p], Room}) IN
       /\ Store(n)
       /\ \/ /\ n = left[p]
             /\ Return(p)
             /\ pc' = [Woken("readSleep") EXCEPT ![p] = "user"]
             /\ abandoned' = FALSE
             /\ UNCHANGED lock
          \/ /\ n < left[p] /\ GivesUp(p)
             /\ Return(p)
             /\ Goto(p, "user")
             /\ AbandonsData(n)
             /\ UNCHANGED lock
          \/ /\ n < left[p] /\ ~GivesUp(p)
             /\ pc' = [Woken("readSleep") EXCEPT ![p] = "writeWait"]
             /\ left' = [left EXCEPT ![p] = @ - n]
             /\ abandoned' = FALSE
             /\ lock' = p
  /\ UNCHANGED <<nread, open, memory, files, todo, end, exiting, killed, received>>

\* sleep(&p->nwrite, &p->lock)
WriteSleep(p) ==
  /\ pc[p] = "writeWait"
  /\ Goto(p, "writeSleep")
  /\ lock' = NoProc
  /\ UNCHANGED <<data, nread, nwrite, open, memory, files, calls, killed, hist>>

-----------------------------------------------------------------------------
(* piperead                                                                *)

CallRead(p) ==
  /\ Calls(p)
  /\ "read" \in fd[p]
  /\ \E n \in 1 .. MaxCall : left' = [left EXCEPT ![p] = n]
  /\ Goto(p, "read")
  /\ UNCHANGED <<pipe, files, todo, end, exiting, killed, hist>>

MustWait == nread = nwrite /\ "write" \in open

ReadKilled(p) ==
  /\ pc[p] = "read" /\ lock = NoProc
  /\ MustWait /\ p \in killed
  /\ Goto(p, "user")
  /\ Return(p)
  /\ UNCHANGED <<pipe, files, todo, end, exiting, killed, hist>>

ReadWait(p) ==
  /\ pc[p] = "read" /\ lock = NoProc
  /\ MustWait /\ p \notin killed
  /\ Goto(p, "readWait")
  /\ lock' = p
  /\ UNCHANGED <<data, nread, nwrite, open, memory, files, calls, killed, hist>>

\* sleep(&p->nread, &p->lock)
ReadSleep(p) ==
  /\ pc[p] = "readWait"
  /\ Goto(p, "readSleep")
  /\ lock' = NoProc
  /\ UNCHANGED <<data, nread, nwrite, open, memory, files, calls, killed, hist>>

\* Copies what there is, up to n bytes; nothing at the end of the file.
Read(p) ==
  /\ pc[p] = "read" /\ lock = NoProc
  /\ ~MustWait
  /\ LET n == Min({left[p], Unread}) IN
       /\ received' = received \o [k \in 1 .. n |-> data[((nread + k - 1) % UintRange) % PIPESIZE]]
       /\ nread' = (nread + n) % UintRange
  /\ pc' = [Woken("writeSleep") EXCEPT ![p] = "user"]
  /\ Return(p)
  /\ UNCHANGED <<data, nwrite, open, lock, memory, files, todo, end, exiting, killed, sent, abandoned>>

-----------------------------------------------------------------------------
(* close, exit, kill                                                       *)

Close(p, e) ==
  /\ Calls(p)
  /\ e \in fd[p]
  /\ fd' = [fd EXCEPT ![p] = @ \ {e}]
  /\ todo' = [todo EXCEPT ![p] = {e}]
  /\ Goto(p, "closing")
  /\ UNCHANGED <<pipe, ref, left, end, exiting, killed, hist>>

\* exit, by a call or in trap() for a killed process.
Exit(p) ==
  /\ pc[p] = "user"
  /\ exiting' = exiting \cup {p}
  /\ todo' = [todo EXCEPT ![p] = fd[p]]
  /\ fd' = [fd EXCEPT ![p] = {}]
  /\ Goto(p, IF fd[p] = {} THEN "dead" ELSE "closing")
  /\ UNCHANGED <<pipe, ref, left, end, killed, hist>>

LastRef_Never(e) == TRUE             \* mutant: the count is not tested
LastRef(e) == ref[e] = 1

\* Where p goes with the ends in rest still to close.
NextClose(p, rest) ==
  IF rest # {} THEN "closing" ELSE IF p \in exiting THEN "dead" ELSE "user"

\* fileclose of the next end.
FileClose(p) ==
  /\ pc[p] = "closing"
  /\ \E e \in todo[p] :
       /\ ref' = [ref EXCEPT ![e] = @ - 1]
       /\ todo' = [todo EXCEPT ![p] = @ \ {e}]
       /\ end' = [end EXCEPT ![p] = IF LastRef(e) THEN e ELSE NoEnd]
       /\ Goto(p, IF LastRef(e) THEN "pipeclose" ELSE NextClose(p, todo[p] \ {e}))
  /\ UNCHANGED <<pipe, fd, left, exiting, killed, hist>>

Waiters_Silent(e) == pc              \* mutant: no wakeup
Waiters(e) == Woken(IF e = "write" THEN "readSleep" ELSE "writeSleep")

\* pipeclose; the last end to be closed frees the page.
PipeClose(p) ==
  /\ pc[p] = "pipeclose" /\ lock = NoProc
  /\ open' = open \ {end[p]}
  /\ memory' = IF open' = {} THEN "freed" ELSE memory
  /\ pc' = [Waiters(end[p]) EXCEPT ![p] = NextClose(p, todo[p])]
  /\ end' = [end EXCEPT ![p] = NoEnd]
  /\ abandoned' = (abandoned /\ end[p] # "write")
  /\ UNCHANGED <<data, nread, nwrite, lock, files, left, todo, exiting, killed, sent, received>>

\* kill of a process; it is woken if it sleeps.
Kill(p) ==
  /\ pc[p] \notin {"unborn", "dead"} /\ p \notin killed
  /\ Cardinality(killed) < MaxKills
  /\ killed' = killed \cup {p}
  /\ Goto(p, CASE pc[p] = "readSleep" -> "read" [] pc[p] = "writeSleep" -> "write" [] OTHER -> pc[p])
  /\ UNCHANGED <<pipe, files, calls, hist>>

InKernel(p) ==
  \/ Write(p) \/ WriteSleep(p)
  \/ ReadKilled(p) \/ ReadWait(p) \/ ReadSleep(p) \/ Read(p)
  \/ FileClose(p) \/ PipeClose(p)

Next ==
  \E p \in Procs :
    \/ SysPipe(p) \/ SysPipeNoFd(p)
    \/ \E q \in Procs : Fork(p, q)
    \/ CallWrite(p) \/ CallRead(p) \/ Exit(p) \/ Kill(p)
    \/ \E e \in Ends : Close(p, e)
    \/ InKernel(p)

Spec == Init /\ [][Next]_vars

\* The kernel code of each process goes on, and a killed process comes to trap().
FairSpec ==
  /\ Spec
  /\ \A p \in Procs : WF_vars(InKernel(p)) /\ WF_vars(p \in killed /\ Exit(p))

-----------------------------------------------------------------------------
(* Properties.                                                             *)

Places == {"unborn", "user", "write", "writeWait", "writeSleep", "read", "readWait",
           "readSleep", "closing", "pipeclose", "dead"}

TypeOK ==
  /\ data \in [0 .. PIPESIZE - 1 -> Nat] /\ nread \in 0 .. UintRange - 1 /\ nwrite \in 0 .. UintRange - 1
  /\ open \subseteq Ends /\ memory \in {"none", "used", "freed"}
  /\ ref \in [Ends -> Nat] /\ fd \in [Procs -> SUBSET Ends]
  /\ pc \in [Procs -> Places] /\ left \in [Procs -> 0 .. MaxCall]
  /\ todo \in [Procs -> SUBSET Ends] /\ end \in [Procs -> Ends \cup {NoEnd}]
  /\ exiting \subseteq Procs /\ killed \subseteq Procs
  /\ sent \in Nat /\ received \in Seq(Nat) /\ abandoned \in BOOLEAN
  /\ \A p \in Procs : /\ pc[p] \in {"writeWait", "readWait"} <=> lock = p
                      /\ pc[p] = "pipeclose" <=> end[p] # NoEnd

\* The pipe is there for whoever uses it, although fileclose and pipeclose act outside
\* each other's locks: its page is freed once, after the last user, and an end counts
\* as open as long as a descriptor may refer to it.
PipeOutlivesUsers ==
  /\ \A e \in Ends :
       /\ ref[e] = Cardinality({p \in Procs : e \in fd[p]}) + Cardinality({p \in Procs : e \in todo[p]})
       /\ ref[e] > 0 => e \in open
  /\ \A p \in Procs :
       pc[p] \in {"write", "writeWait", "writeSleep", "read", "readWait", "readSleep",
                  "pipeclose"} => memory = "used"
  /\ memory = "freed" => open = {}

\* Descriptors, files and the pipe agree about who may still use it, and its lock is
\* held by whoever is between its test and its sleep.
PipeSound == TypeOK /\ PipeOutlivesUsers

\* Nobody sleeps on a pipe that could serve him.  The exception is in the code: a
\* writer that finds itself killed leaves without the wakeup for what it has stored.
SleepersHaveReason ==
  \A p \in Procs :
    /\ pc[p] = "readSleep" => "write" \in open /\ (nread = nwrite \/ abandoned)
    /\ pc[p] = "writeSleep" => "read" \in open /\ Room = 0

\* The ring and its counters, which overflow, carry the bytes in order.
F == INSTANCE Fifo WITH Capacity <- PIPESIZE,
                        accepted <- [i \in 1 .. sent |-> i - 1],
                        delivered <- received
ImplementsFifo == F!Spec

\* "Wake process from sleep if necessary" (kill): a killed process comes to its end.
KilledComesToEnd == \A p \in Procs : p \in killed ~> pc[p] = "dead"
=============================================================================
