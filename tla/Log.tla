-------------------------------- MODULE Log ---------------------------------
(***************************************************************************)
(* The file system log (log.c) with what it needs of the buffer cache      *)
(* (bio.c): concurrent operations, the commit, crashes and recovery.       *)
(*                                                                         *)
(* One step is a critical section under log.lock, one access to a buffer   *)
(* under its sleep lock, or one block written to the disk.  iderw returns  *)
(* when the block is on the disk, and a block is written whole or not at   *)
(* all.                                                                    *)
(***************************************************************************)
EXTENDS Integers, Sequences, FiniteSets

CONSTANTS
  Blocks,       \* home locations, by block number
  Ops,          \* processes making file system calls
  MAXOPBLOCKS,  \* blocks begin_op reserves for an operation
  LOGSIZE,      \* blocks in the in-memory header
  LogSlots,     \* log.size - 1: blocks of the on-disk log after its header
  OpBlocks,     \* blocks that an operation writes at most
  MaxWrites,    \* BOUND: writes to buffers
  MaxCrashes    \* BOUND: crashes

ASSUME LogAssumption ==
  /\ MAXOPBLOCKS \in Nat /\ LOGSIZE \in Nat /\ LogSlots \in Nat /\ OpBlocks \in Nat
  /\ Blocks \subseteq Nat \ {0} /\ MaxWrites \in Nat /\ MaxCrashes \in Nat
  /\ IsFiniteSet(Ops)
  /\ LogSlots = LOGSIZE - 1        \* mkfs gives the log LOGSIZE blocks, one is the header
  /\ OpBlocks < MAXOPBLOCKS
  /\ MAXOPBLOCKS < LOGSIZE

Data     == 0 .. MaxWrites         \* contents: the number of the write that made them
NotCached == -1
NoBlock   == 0

VARIABLES
  home, logData, header,          \* disk: home blocks, log blocks, header (block numbers)
  cache, dirty,                   \* buffers: contents by block, B_DIRTY
  lh, outstanding, committing,    \* struct log
  pc, buf, own,                   \* by process: place, buffer held, blocks it has logged
  stage, tail,                    \* progress of commit() or recover_from_log()
  writes, crashes

disk == <<home, logData, header>>
bufs == <<cache, dirty>>
log  == <<lh, outstanding, committing>>
code == <<pc, buf, own>>
vars == <<disk, bufs, log, code, stage, tail, writes, crashes>>

Init ==
  /\ home = [b \in Blocks |-> 0]
  /\ logData = [i \in 1 .. LogSlots |-> 0]
  /\ header = <<>>
  /\ cache = [b \in Blocks |-> NotCached] /\ dirty = {}
  /\ lh = <<>> /\ outstanding = 0 /\ committing = FALSE
  /\ pc = [o \in Ops |-> "out"]
  /\ buf = [o \in Ops |-> NoBlock]
  /\ own = [o \in Ops |-> {}]
  /\ stage = "none" /\ tail = 1
  /\ writes = 0 /\ crashes = 0

Up == stage # "read"  /\ stage # "replay" /\ stage # "erase"     \* not recovering
Listed(b) == \E i \in 1 .. Len(lh) : lh[i] = b
Woken == [o \in Ops |-> IF pc[o] = "asleep" THEN "begin" ELSE pc[o]]

-----------------------------------------------------------------------------
(* begin_op                                                                *)

Begin(o) ==
  /\ Up
  /\ pc[o] = "out"
  /\ pc' = [pc EXCEPT ![o] = "begin"]
  /\ UNCHANGED <<disk, bufs, log, buf, own, stage, tail, writes, crashes>>

HasSpace_ForOthers == Len(lh) + outstanding * MAXOPBLOCKS <= LOGSIZE   \* mutant
HasSpace == Len(lh) + (outstanding + 1) * MAXOPBLOCKS <= LOGSIZE

MayBegin_Early == HasSpace           \* mutant: does not wait for the commit
MayBegin == ~committing /\ HasSpace

BeginEnter(o) ==
  /\ pc[o] = "begin" /\ MayBegin
  /\ outstanding' = outstanding + 1
  /\ pc' = [pc EXCEPT ![o] = "in"]
  /\ own' = [own EXCEPT ![o] = {}]
  /\ UNCHANGED <<disk, bufs, lh, committing, buf, stage, tail, writes, crashes>>

\* sleep(&log, &log.lock)
BeginSleep(o) ==
  /\ pc[o] = "begin" /\ ~MayBegin
  /\ pc' = [pc EXCEPT ![o] = "asleep"]
  /\ UNCHANGED <<disk, bufs, log, buf, own, stage, tail, writes, crashes>>

-----------------------------------------------------------------------------
(* An operation's access to a block: bread, modify, log_write, brelse.      *)

\* bread, and a change to the data, under the buffer's sleep lock.
Modify(o, b) ==
  /\ pc[o] = "in"
  /\ \A q \in Ops : buf[q] # b
  /\ Cardinality(own[o] \cup {b}) <= OpBlocks
  /\ writes < MaxWrites
  /\ writes' = writes + 1
  /\ cache' = [cache EXCEPT ![b] = writes + 1]
  /\ buf' = [buf EXCEPT ![o] = b]
  /\ pc' = [pc EXCEPT ![o] = "modified"]
  /\ UNCHANGED <<disk, dirty, log, own, stage, tail, crashes>>

\* log_write compares log.lh.n before it takes the lock.
Overflows == Len(lh) >= LOGSIZE \/ Len(lh) >= LogSlots

LogCheck(o) ==
  /\ pc[o] = "modified"
  /\ ~Overflows
  /\ outstanding >= 1
  /\ pc' = [pc EXCEPT ![o] = "logging"]
  /\ UNCHANGED <<disk, bufs, log, buf, own, stage, tail, writes, crashes>>

\* Then, with the lock: absorb or append, pin the buffer; brelse.
LogWrite(o) ==
  /\ pc[o] = "logging"
  /\ lh' = IF Listed(buf[o]) THEN lh ELSE Append(lh, buf[o])
  /\ dirty' = dirty \cup {buf[o]}
  /\ own' = [own EXCEPT ![o] = @ \cup {buf[o]}]
  /\ buf' = [buf EXCEPT ![o] = NoBlock]
  /\ pc' = [pc EXCEPT ![o] = "in"]
  /\ UNCHANGED <<disk, cache, outstanding, committing, stage, tail, writes, crashes>>

Recyclable_Dirty(b) == \A o \in Ops : buf[o] # b      \* mutant: B_DIRTY is not tested
\* bget takes a buffer that nobody uses and that is not dirty.
Recyclable(b) == (\A o \in Ops : buf[o] # b) /\ b \notin dirty

Recycle(b) ==
  /\ Up
  /\ cache[b] # NotCached
  /\ Recyclable(b)
  /\ cache' = [cache EXCEPT ![b] = NotCached]
  /\ UNCHANGED <<disk, dirty, log, code, stage, tail, writes, crashes>>

-----------------------------------------------------------------------------
(* end_op and commit.                                                      *)

EndOp(o) ==
  /\ pc[o] = "in"
  /\ outstanding > 1
  /\ outstanding' = outstanding - 1
  /\ pc' = [Woken EXCEPT ![o] = "out"]
  /\ UNCHANGED <<disk, bufs, lh, committing, buf, own, stage, tail, writes, crashes>>

AfterEnd == IF Len(lh) > 0 THEN "log" ELSE "done"

\* The last operation commits.
EndOpCommit(o) ==
  /\ pc[o] = "in"
  /\ outstanding = 1
  /\ outstanding' = 0
  /\ committing' = TRUE
  /\ pc' = [pc EXCEPT ![o] = "commit"]
  /\ stage' = AfterEnd
  /\ tail' = 1
  /\ UNCHANGED <<disk, bufs, lh, buf, own, writes, crashes>>

\* bread of a block
Contents(b) == IF cache[b] = NotCached THEN home[b] ELSE cache[b]

WriteLog_OffByOne ==                 \* mutant: the last block is not written
  /\ stage = "log"
  /\ IF tail < Len(lh)
       THEN /\ logData' = [logData EXCEPT ![tail] = Contents(lh[tail])]
            /\ cache' = [cache EXCEPT ![lh[tail]] = Contents(lh[tail])]
            /\ tail' = tail + 1
            /\ UNCHANGED stage
       ELSE stage' = "head" /\ UNCHANGED <<logData, cache, tail>>
  /\ UNCHANGED <<home, header, dirty, log, code, writes, crashes>>

\* write_log, one block.
WriteLog ==
  /\ stage = "log"
  /\ logData' = [logData EXCEPT ![tail] = Contents(lh[tail])]
  /\ cache' = [cache EXCEPT ![lh[tail]] = Contents(lh[tail])]
  /\ tail' = tail + 1
  /\ stage' = IF tail = Len(lh) THEN "head" ELSE "log"
  /\ UNCHANGED <<home, header, dirty, log, code, writes, crashes>>

\* write_head: the real commit.
WriteHead ==
  /\ stage = "head"
  /\ header' = lh
  /\ tail' = 1
  /\ stage' = "install"
  /\ UNCHANGED <<home, logData, bufs, log, code, writes, crashes>>

\* install_trans, one block: the buffer is written home and is dirty no longer.
InstallBlock(b) ==
  /\ home' = [home EXCEPT ![b] = logData[tail]]
  /\ cache' = [cache EXCEPT ![b] = logData[tail]]
  /\ dirty' = dirty \ {b}
  /\ tail' = tail + 1

Install ==
  /\ stage = "install"
  /\ InstallBlock(lh[tail])
  /\ stage' = IF tail = Len(lh) THEN "clear" ELSE "install"
  /\ UNCHANGED <<logData, header, log, code, writes, crashes>>

\* log.lh.n = 0; write_head()
Erase ==
  /\ lh' = <<>>
  /\ header' = <<>>
  /\ UNCHANGED <<home, logData, bufs, outstanding, committing, code, tail, writes, crashes>>

Clear == stage = "clear" /\ stage' = "done" /\ Erase

EndCommit_Silent(o) ==               \* mutant: begin_op's sleepers are not woken
  /\ pc[o] = "commit" /\ stage = "done"
  /\ committing' = FALSE
  /\ stage' = "none"
  /\ pc' = [pc EXCEPT ![o] = "out"]
  /\ UNCHANGED <<disk, bufs, lh, outstanding, buf, own, tail, writes, crashes>>

EndCommit(o) ==
  /\ pc[o] = "commit" /\ stage = "done"
  /\ committing' = FALSE
  /\ stage' = "none"
  /\ pc' = [Woken EXCEPT ![o] = "out"]
  /\ UNCHANGED <<disk, bufs, lh, outstanding, buf, own, tail, writes, crashes>>

-----------------------------------------------------------------------------
(* A crash leaves the disk; the machine starts again with initlog.         *)

Crash ==
  /\ crashes < MaxCrashes
  /\ crashes' = crashes + 1
  /\ cache' = [b \in Blocks |-> NotCached] /\ dirty' = {}
  /\ lh' = <<>> /\ outstanding' = 0 /\ committing' = FALSE
  /\ pc' = [o \in Ops |-> "out"]
  /\ buf' = [o \in Ops |-> NoBlock]
  /\ own' = [o \in Ops |-> {}]
  /\ stage' = "read" /\ tail' = 1
  /\ UNCHANGED <<disk, writes>>

\* read_head
ReadHead ==
  /\ stage = "read"
  /\ lh' = header
  /\ stage' = IF header = <<>> THEN "erase" ELSE "replay"
  /\ UNCHANGED <<disk, bufs, outstanding, committing, code, tail, writes, crashes>>

Replay ==
  /\ stage = "replay"
  /\ InstallBlock(lh[tail])
  /\ stage' = IF tail = Len(lh) THEN "erase" ELSE "replay"
  /\ UNCHANGED <<logData, header, log, code, writes, crashes>>

Recovered == stage = "erase" /\ stage' = "none" /\ Erase

Next ==
  \/ \E o \in Ops : \/ Begin(o) \/ BeginEnter(o) \/ BeginSleep(o)
                    \/ LogCheck(o) \/ LogWrite(o)
                    \/ EndOp(o) \/ EndOpCommit(o) \/ EndCommit(o)
                    \/ \E b \in Blocks : Modify(o, b)
  \/ \E b \in Blocks : Recycle(b)
  \/ WriteLog \/ WriteHead \/ Install \/ Clear
  \/ Crash \/ ReadHead \/ Replay \/ Recovered

Spec == Init /\ [][Next]_vars

-----------------------------------------------------------------------------
(* Properties.                                                             *)

InOp == {o \in Ops : pc[o] \in {"in", "modified", "logging"}}

TypeOK ==
  /\ home \in [Blocks -> Data] /\ logData \in [1 .. LogSlots -> Data]
  /\ header \in Seq(Blocks)
  /\ cache \in [Blocks -> Data \cup {NotCached}] /\ dirty \subseteq Blocks
  /\ lh \in Seq(Blocks) /\ outstanding \in Nat /\ committing \in BOOLEAN
  /\ pc \in [Ops -> {"out", "begin", "asleep", "in", "modified", "logging", "commit"}]
  /\ buf \in [Ops -> Blocks \cup {NoBlock}] /\ own \in [Ops -> SUBSET Blocks]
  /\ stage \in {"none", "log", "head", "install", "clear", "done", "read", "replay", "erase"}
  /\ tail \in 1 .. LogSlots + 1 /\ writes \in Nat /\ crashes \in Nat
  /\ \A o \in Ops : buf[o] # NoBlock <=> pc[o] \in {"modified", "logging"}

\* begin_op's reservation is enough: "too big a transaction" and "log_write outside of
\* trans" are never reached, although log_write compares without the lock, and the
\* append after it stays inside the array and the on-disk log.
LogFits ==
  \A o \in Ops : pc[o] \in {"modified", "logging"} => ~Overflows /\ outstanding >= 1

\* The log stays within its bounds, in memory and on the disk, for what is in it and for
\* what may still be written (struct logheader, log.c:218-221).
LogInBounds == TypeOK /\ LogFits

\* "The logging system only commits when there are no FS system calls active":
\* outstanding counts them, and there are none from end_op's decision to the end of
\* the commit.
CommitsAlone ==
  /\ outstanding = Cardinality(InOp)
  /\ committing <=> \E o \in Ops : pc[o] = "commit"
  /\ committing => outstanding = 0

\* Whoever sleeps in begin_op will be woken: an operation or a commit is under way.
SleeperHasWaker == (\E o \in Ops : pc[o] = "asleep") => committing \/ outstanding > 0

\* A buffer that is not dirty and not being changed may be dropped: it equals the
\* disk.  Blocks of the transaction stay in the cache until they are installed.
CacheCoherent ==
  \A b \in Blocks :
    /\ cache[b] # NotCached /\ b \notin dirty /\ (\A o \in Ops : buf[o] # b) => cache[b] = home[b]
    /\ b \in dirty => cache[b] # NotCached /\ Listed(b)

\* When end_op returns with nobody else inside, its blocks are at home.
CommittedIsHome ==
  stage = "none" /\ outstanding = 0 => \A b \in Blocks : Contents(b) = home[b]

\* The copies of a block, in the cache and at home, agree whenever one may take the
\* place of the other: when its buffer is recycled, and when the last operation has
\* returned.
CopiesAgree == CacheCoherent /\ CommittedIsHome

\* What recovery would make of the disk as it is.
Durable ==
  [b \in Blocks |-> IF \E i \in 1 .. Len(header) : header[i] = b
                      THEN logData[CHOOSE i \in 1 .. Len(header) : header[i] = b]
                      ELSE home[b]]

Current == [b \in Blocks |-> IF cache[b] = NotCached THEN Durable[b] ELSE cache[b]]

\* Crashes at any point, recovery included, leave all of a group of operations or none.
D == INSTANCE AtomicDisk WITH Zero <- 0, durable <- Durable, current <- Current, active <- InOp
ImplementsAtomicDisk == D!Spec
=============================================================================
