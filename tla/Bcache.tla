---- MODULE Bcache ----
(* The buffer cache and the IDE driver under it: bio.c (bget, bread, bwrite,   *)
(* brelse and the list of buffers) and ide.c (iderw, idestart, ideintr and the *)
(* queue of requests), for processes that read, modify and write blocks.       *)
(*                                                                             *)
(* A step is what runs under one of the two spinlocks, bcache.lock or idelock, *)
(* or one operation on a buffer's sleep lock. That lock is the mutual          *)
(* exclusion that Proc's acquiresleep and releasesleep are proved to           *)
(* implement: here it is taken and given back in one step.                     *)
EXTENDS Integers, Sequences, FiniteSets

CONSTANTS
  Procs,      \* processes
  Blocks,     \* block numbers in use, of the one device (ROOTDEV)
  Values,     \* what a block may contain
  NBUF,       \* buffers of the cache
  MaxHeld,    \* buffers a process holds at a time (two: bmap, the commit)
  MaxPinned,  \* blocks the log keeps in the cache (LOGSIZE)
  Nobody,     \* no process
  NotRead     \* no contents

ASSUME NBUFAssumption == NBUF \in Nat \ {0}
ASSUME ProcsAssumption == IsFiniteSet(Procs)
ASSUME BlocksAssumption == Blocks \subseteq Nat
ASSUME NobodyAssumption == Nobody \notin Procs
ASSUME ValuesAssumption == Values # {} /\ NotRead \notin Values

VARIABLES
  blockno,  \* buffer -> the block it is for
  refcnt,   \* buffer -> its count of users
  flags,    \* buffer -> B_VALID and B_DIRTY, as a set
  data,     \* buffer -> its data
  lru,      \* the list of buffers, the most recently released first
  holder,   \* buffer -> the process that has its sleep lock
  queue,    \* idequeue
  drive,    \* the disk drive: the request it was given
  disk,     \* block -> what the disk has
  pc,       \* process -> where it is in bread, bwrite or brelse
  cur,      \* process -> the buffer of that call
  panicked  \* the kernel has stopped in panic

vars == <<blockno, refcnt, flags, data, lru, holder, queue, drive, disk, pc, cur, panicked>>
cache == <<blockno, refcnt, lru>>
ide == <<queue, drive, disk>>

Bufs == 1 .. NBUF
NoBuf == 0
NoBlock == -1            \* binit leaves dev and blockno 0: no block of ROOTDEV
Zero == CHOOSE v \in Values : TRUE
Idle == [buf |-> NoBuf, write |-> FALSE, done |-> FALSE, data |-> Zero]

-----------------------------------------------------------------------------
(* Initially: binit has linked the buffers, each at the head of the list *)

Init ==
  /\ blockno = [b \in Bufs |-> NoBlock]
  /\ refcnt = [b \in Bufs |-> 0]
  /\ flags = [b \in Bufs |-> {}]
  /\ data = [b \in Bufs |-> Zero]
  /\ lru = [i \in Bufs |-> NBUF + 1 - i]
  /\ holder = [b \in Bufs |-> Nobody]
  /\ queue = << >>
  /\ drive = Idle
  /\ disk \in [Blocks -> Values]
  /\ pc = [p \in Procs |-> "user"]
  /\ cur = [p \in Procs |-> NoBuf]
  /\ panicked = FALSE

Held(p) == {b \in Bufs : holder[b] = p}

\* Callers nest the buffers they hold in one order of their blocks, so that no
\* two wait for each other (bmap: the indirect block, then the bitmap).
MayAsk(p, blk) ==
  /\ pc[p] = "user" /\ ~panicked
  /\ Cardinality(Held(p)) < MaxHeld
  /\ \A b \in Held(p) : blk < blockno[b]

-----------------------------------------------------------------------------
(* bio.c *)

\* mutant: a buffer the log has pinned may be recycled
Unused_Dirty(b) == refcnt[b] = 0

Unused(b) == refcnt[b] = 0 /\ "DIRTY" \notin flags[b]

\* mutant: a hit does not count its user
BgetHit_NoCount(p, blk) ==
  /\ MayAsk(p, blk)
  /\ \E i \in Bufs :
       /\ blockno[lru[i]] = blk
       /\ cur' = [cur EXCEPT ![p] = lru[i]]
  /\ pc' = [pc EXCEPT ![p] = "bread"]
  /\ UNCHANGED <<blockno, refcnt, flags, data, lru, holder, panicked, ide>>

\* Is the block already cached? The list is searched from its head.
BgetHit(p, blk) ==
  /\ MayAsk(p, blk)
  /\ \E i \in Bufs :
       /\ blockno[lru[i]] = blk
       /\ \A j \in 1 .. i - 1 : blockno[lru[j]] # blk
       /\ refcnt' = [refcnt EXCEPT ![lru[i]] = @ + 1]
       /\ cur' = [cur EXCEPT ![p] = lru[i]]
  /\ pc' = [pc EXCEPT ![p] = "bread"]
  /\ UNCHANGED <<blockno, flags, data, lru, holder, panicked, ide>>

\* mutant: only the buffers in use are searched
BgetMiss_UsedOnly(p, blk) ==
  /\ MayAsk(p, blk)
  /\ \A b \in Bufs : refcnt[b] > 0 => blockno[b] # blk
  /\ \E i \in Bufs :
       /\ Unused(lru[i])
       /\ \A j \in i + 1 .. NBUF : ~Unused(lru[j])
       /\ blockno' = [blockno EXCEPT ![lru[i]] = blk]
       /\ flags' = [flags EXCEPT ![lru[i]] = {}]
       /\ refcnt' = [refcnt EXCEPT ![lru[i]] = 1]
       /\ cur' = [cur EXCEPT ![p] = lru[i]]
  /\ pc' = [pc EXCEPT ![p] = "bread"]
  /\ UNCHANGED <<data, lru, holder, panicked, ide>>

\* Not cached: recycle the last unused buffer of the list.
BgetMiss(p, blk) ==
  /\ MayAsk(p, blk)
  /\ \A b \in Bufs : blockno[b] # blk
  /\ \E i \in Bufs :
       /\ Unused(lru[i])
       /\ \A j \in i + 1 .. NBUF : ~Unused(lru[j])
       /\ blockno' = [blockno EXCEPT ![lru[i]] = blk]
       /\ flags' = [flags EXCEPT ![lru[i]] = {}]
       /\ refcnt' = [refcnt EXCEPT ![lru[i]] = 1]
       /\ cur' = [cur EXCEPT ![p] = lru[i]]
  /\ pc' = [pc EXCEPT ![p] = "bread"]
  /\ UNCHANGED <<data, lru, holder, panicked, ide>>

\* panic("bget: no buffers")
BgetPanic(p, blk) ==
  /\ MayAsk(p, blk)
  /\ \A b \in Bufs : blockno[b] # blk /\ ~Unused(b)
  /\ panicked' = TRUE
  /\ UNCHANGED <<cache, flags, data, holder, ide, pc, cur>>

\* bget gets the buffer's sleep lock; bread returns if the data is there.
BreadLocks(p) ==
  /\ pc[p] = "bread" /\ ~panicked
  /\ holder[cur[p]] = Nobody
  /\ holder' = [holder EXCEPT ![cur[p]] = p]
  /\ IF "VALID" \in flags[cur[p]]
     THEN /\ pc' = [pc EXCEPT ![p] = "user"]
          /\ cur' = [cur EXCEPT ![p] = NoBuf]
     ELSE pc' = [pc EXCEPT ![p] = "iderw"] /\ UNCHANGED cur
  /\ UNCHANGED <<cache, flags, data, ide, panicked>>

\* The caller changes the data it holds and hands the block to the log, which
\* keeps it in the cache (log_write sets B_DIRTY) until it is written.
Modify(p, b, v) ==
  /\ pc[p] = "user" /\ holder[b] = p /\ ~panicked
  /\ "DIRTY" \in flags[b] \/ Cardinality({c \in Bufs : "DIRTY" \in flags[c]}) < MaxPinned
  /\ data' = [data EXCEPT ![b] = v]
  /\ flags' = [flags EXCEPT ![b] = @ \cup {"DIRTY"}]
  /\ UNCHANGED <<cache, holder, ide, pc, cur, panicked>>

\* bwrite, of data the caller may have changed (the log's blocks)
Bwrite(p, b, v) ==
  /\ pc[p] = "user" /\ holder[b] = p /\ ~panicked
  /\ data' = [data EXCEPT ![b] = v]
  /\ flags' = [flags EXCEPT ![b] = @ \cup {"DIRTY"}]
  /\ pc' = [pc EXCEPT ![p] = "iderw"]
  /\ cur' = [cur EXCEPT ![p] = b]
  /\ UNCHANGED <<cache, holder, ide, panicked>>

\* brelse: first the sleep lock,
BrelseUnlocks(p, b) ==
  /\ pc[p] = "user" /\ holder[b] = p /\ ~panicked
  /\ holder' = [holder EXCEPT ![b] = Nobody]
  /\ pc' = [pc EXCEPT ![p] = "brelse"]
  /\ cur' = [cur EXCEPT ![p] = b]
  /\ UNCHANGED <<cache, flags, data, ide, panicked>>

\* The list with the buffer at position i moved to its head.
MoveToHead(i) ==
  [j \in Bufs |-> IF j = 1 THEN lru[i] ELSE IF j <= i THEN lru[j - 1] ELSE lru[j]]

\* then the count and, if no one is waiting for the buffer, the list.
BrelseCounts(p) ==
  /\ pc[p] = "brelse" /\ ~panicked
  /\ refcnt' = [refcnt EXCEPT ![cur[p]] = @ - 1]
  /\ \E i \in Bufs :
       /\ lru[i] = cur[p]
       /\ lru' = IF refcnt'[cur[p]] = 0 THEN MoveToHead(i) ELSE lru
  /\ pc' = [pc EXCEPT ![p] = "user"]
  /\ cur' = [cur EXCEPT ![p] = NoBuf]
  /\ UNCHANGED <<blockno, flags, data, holder, ide, panicked>>

-----------------------------------------------------------------------------
(* ide.c *)

\* The command idestart gives the drive: a write sends the data with it.
Request(b) == [buf |-> b, write |-> "DIRTY" \in flags[b], done |-> FALSE, data |-> data[b]]

\* mutant: the request is put before those that wait
IderwQueues_First(p) ==
  /\ pc[p] = "iderw" /\ ~panicked
  /\ queue' = <<cur[p]>> \o queue
  /\ drive' = IF queue = << >> THEN Request(cur[p]) ELSE drive
  /\ pc' = [pc EXCEPT ![p] = "sleep"]
  /\ UNCHANGED <<cache, flags, data, holder, disk, cur, panicked>>

\* iderw puts the request at the end of the queue, starts the drive if it is
\* the first, and sleeps on the buffer, all under idelock.
IderwQueues(p) ==
  /\ pc[p] = "iderw" /\ ~panicked
  /\ queue' = Append(queue, cur[p])
  /\ drive' = IF queue = << >> THEN Request(cur[p]) ELSE drive
  /\ pc' = [pc EXCEPT ![p] = "sleep"]
  /\ UNCHANGED <<cache, flags, data, holder, disk, cur, panicked>>

\* The drive (external) carries out its command and raises the interrupt.
DriveDone ==
  /\ drive.buf # NoBuf /\ ~drive.done
  /\ IF drive.write
     THEN /\ disk' = [disk EXCEPT ![blockno[drive.buf]] = drive.data]
          /\ drive' = [drive EXCEPT !.done = TRUE]
     ELSE /\ drive' = [drive EXCEPT !.done = TRUE, !.data = disk[blockno[drive.buf]]]
          /\ UNCHANGED disk
  /\ UNCHANGED <<cache, flags, data, holder, queue, pc, cur, panicked>>

\* mutant: the next request is not started
Ideintr_NoNext ==
  /\ drive.done /\ queue # << >> /\ ~panicked
  /\ LET b == Head(queue) IN
       /\ data' = IF "DIRTY" \in flags[b] THEN data ELSE [data EXCEPT ![b] = drive.data]
       /\ flags' = [flags EXCEPT ![b] = {"VALID"}]
       /\ pc' = [p \in Procs |-> IF pc[p] = "sleep" /\ cur[p] = b THEN "woken" ELSE pc[p]]
  /\ queue' = Tail(queue)
  /\ drive' = Idle
  /\ UNCHANGED <<cache, holder, disk, cur, panicked>>

\* ideintr: the head of the queue is the request the interrupt is for.
Ideintr ==
  /\ drive.done /\ queue # << >> /\ ~panicked
  /\ LET b == Head(queue) IN
       /\ data' = IF "DIRTY" \in flags[b] THEN data ELSE [data EXCEPT ![b] = drive.data]
       /\ flags' = [flags EXCEPT ![b] = {"VALID"}]
       /\ pc' = [p \in Procs |-> IF pc[p] = "sleep" /\ cur[p] = b THEN "woken" ELSE pc[p]]
  /\ queue' = Tail(queue)
  /\ drive' = IF Tail(queue) = << >> THEN Idle ELSE Request(Head(Tail(queue)))
  /\ UNCHANGED <<cache, holder, disk, cur, panicked>>

\* A process woken in iderw looks at the flags again.
IderwWakes(p) ==
  /\ pc[p] = "woken" /\ ~panicked
  /\ IF flags[cur[p]] = {"VALID"}
     THEN /\ pc' = [pc EXCEPT ![p] = "user"]
          /\ cur' = [cur EXCEPT ![p] = NoBuf]
     ELSE pc' = [pc EXCEPT ![p] = "sleep"] /\ UNCHANGED cur
  /\ UNCHANGED <<cache, flags, data, holder, ide, panicked>>

Halted == panicked /\ UNCHANGED vars

-----------------------------------------------------------------------------
Continue(p) ==
  BreadLocks(p) \/ BrelseCounts(p) \/ IderwQueues(p) \/ IderwWakes(p)

Use(p) ==
  \/ \E blk \in Blocks : BgetHit(p, blk) \/ BgetMiss(p, blk) \/ BgetPanic(p, blk)
  \/ \E b \in Bufs, v \in Values : Modify(p, b, v) \/ Bwrite(p, b, v)
  \/ \E b \in Bufs : BrelseUnlocks(p, b)

Next ==
  \/ \E p \in Procs : Continue(p) \/ Use(p)
  \/ DriveDone \/ Ideintr \/ Halted

\* Calls go on, the drive answers, and callers give their buffers back.
Fairness ==
  /\ WF_vars(DriveDone) /\ WF_vars(Ideintr)
  /\ \A p \in Procs : WF_vars(Continue(p))

Spec == Init /\ [][Next]_vars /\ Fairness

-----------------------------------------------------------------------------
(* Properties *)

\* The fields of struct buf, of the driver and of its callers keep their types.
TypeOK ==
  /\ blockno \in [Bufs -> Blocks \cup {NoBlock}]
  /\ refcnt \in [Bufs -> Nat]
  /\ flags \in [Bufs -> SUBSET {"VALID", "DIRTY"}]
  /\ data \in [Bufs -> Values]
  /\ lru \in [Bufs -> Bufs]
  /\ holder \in [Bufs -> Procs \cup {Nobody}]
  /\ queue \in Seq(Bufs)
  /\ drive \in [buf : Bufs \cup {NoBuf}, write : BOOLEAN, done : BOOLEAN, data : Values]
  /\ disk \in [Blocks -> Values]
  /\ pc \in [Procs -> {"user", "bread", "iderw", "sleep", "woken", "brelse"}]
  /\ cur \in [Procs -> Bufs \cup {NoBuf}]
  /\ panicked \in BOOLEAN

\* A block is in one buffer at most: the scan of bget and its recycling are one
\* step for every other process that asks for a block (bio.c, bget).
OneBufferPerBlock ==
  \A b, c \in Bufs : blockno[b] = blockno[c] /\ blockno[b] # NoBlock => b = c

\* The processes that count on a buffer keeping its block: those that hold it,
\* wait for its lock, or have not yet counted themselves out of it.
Users(b) == {p \in Procs : holder[b] = p \/ (pc[p] \in {"bread", "brelse"} /\ cur[p] = b)}

\* A buffer's count is the number of its users, so that none is recycled under
\* one, and none is lost to the cache (bio.c, refcnt of bget and brelse).
RefcntIsUsers == \A b \in Bufs : refcnt[b] = Cardinality(Users(b))

\* The drive works on the head of the queue, which is never queued twice, and
\* who sleeps in iderw has its buffer in the queue: the interrupt that completes
\* a request wakes its process and no other (ide.c, idequeue).
DriveServesHead ==
  /\ drive.buf = IF queue = << >> THEN NoBuf ELSE Head(queue)
  /\ drive.buf # NoBuf => drive.write = ("DIRTY" \in flags[drive.buf])
  /\ \A i, j \in 1 .. Len(queue) : queue[i] = queue[j] => i = j
  /\ \A p \in Procs : pc[p] = "sleep" => \E i \in 1 .. Len(queue) : queue[i] = cur[p]
  /\ \A i \in 1 .. Len(queue) : \E p \in Procs : pc[p] = "sleep" /\ cur[p] = queue[i] /\ holder[queue[i]] = p

\* The cache as a store of blocks. What a block contains is in its buffer, once
\* the buffer is valid or has data to write, and on the disk otherwise.
Buffered(blk) == {b \in Bufs : blockno[b] = blk}
InBread(p, b) == pc[p] \in {"iderw", "sleep", "woken"} /\ cur[p] = b
Contents(blk) ==
  IF \E b \in Buffered(blk) : flags[b] # {}
  THEN data[CHOOSE b \in Buffered(blk) : flags[b] # {}] ELSE disk[blk]
Owner(blk) ==
  IF \E b \in Buffered(blk) : holder[b] # Nobody
  THEN holder[CHOOSE b \in Buffered(blk) : holder[b] # Nobody] ELSE Nobody

\* Data that bread has returned: the lock is held, and the holder is not still
\* waiting for the first read of the buffer.
Given(b) == holder[b] # Nobody /\ (flags[b] # {} \/ ~InBread(holder[b], b))
Copy(blk) ==
  IF \E b \in Buffered(blk) : Given(b)
  THEN data[CHOOSE b \in Buffered(blk) : Given(b)] ELSE NotRead

Store == INSTANCE BlockStore WITH
  contents <- [blk \in Blocks |-> Contents(blk)],
  owner <- [blk \in Blocks |-> Owner(blk)],
  copy <- [blk \in Blocks |-> Copy(blk)]

\* Through hits, recycling, reads and delayed writes, and whatever the order in
\* which the drive is used, a block read is the block last written (bio.c:4).
ImplementsBlockStore == Store!Spec

\* A process that waits for the disk gets its answer (ide.c:166).
RequestServed == \A p \in Procs : pc[p] = "sleep" ~> (pc[p] = "user" \/ panicked)
=============================================================================
