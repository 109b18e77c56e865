---------------------------- MODULE DriverProofs -----------------------------
(***************************************************************************)
(* The two drivers whose interrupt serves waiting processes.               *)
(*                                                                         *)
(* The buffer cache and the disk, for any number of buffers, blocks and    *)
(* processes: one buffer per block, counts, the drive's queue, and the     *)
(* refinement of BlockStore.                                               *)
(*                                                                         *)
(* Console input: no line is missed by a sleeping reader, and the ring     *)
(* with its wrapping counters implements the queue of lines of LineQueue,  *)
(* for any readers, any size of the ring that divides the range of the     *)
(* counters and any sizes of the readers' buffers.                         *)
(***************************************************************************)
EXTENDS Bcache, Console, FiniteSetTheorems, SequenceTheorems, WellFoundedInduction, TLAPS

-----------------------------------------------------------------------------
(* The buffer cache and the disk                                           *)

InDisk == {"iderw", "sleep", "woken"}

\* Where a process is in a call, and what that says of its buffer.
PlaceInv ==
  \A p \in Procs :
    /\ pc[p] = "user" <=> cur[p] = NoBuf
    /\ pc[p] \in {"bread", "brelse"} => holder[cur[p]] # p
    /\ pc[p] \in InDisk => holder[cur[p]] = p
    /\ pc[p] = "woken" => flags[cur[p]] = {"VALID"}

\* What has no data is being read by the process that has its lock; who has
\* data, or is counted, is for a block; data that is not dirty is on the disk.
DataInv ==
  \A b \in Bufs :
    /\ flags[b] # {} => "VALID" \in flags[b]
    /\ flags[b] = {} /\ holder[b] # Nobody => pc[holder[b]] \in {"iderw", "sleep"} /\ cur[holder[b]] = b
    /\ flags[b] # {} \/ refcnt[b] > 0 => blockno[b] \in Blocks
    /\ flags[b] = {"VALID"} => data[b] = disk[blockno[b]]

\* The request the drive has, before and after it is carried out.
DriveInv ==
  /\ drive.done => drive.buf # NoBuf
  /\ drive.buf # NoBuf =>
       /\ drive.write /\ ~drive.done => drive.data = data[drive.buf]
       /\ drive.write /\ drive.done => disk[blockno[drive.buf]] = data[drive.buf]
       /\ ~drive.write /\ drive.done => drive.data = disk[blockno[drive.buf]]

\* The parts of DriveServesHead.
HeadServed == drive.buf = IF queue = << >> THEN NoBuf ELSE Head(queue)
WriteIsDirty == drive.buf # NoBuf => drive.write = ("DIRTY" \in flags[drive.buf])
QueuedOnce == \A i, j \in 1 .. Len(queue) : queue[i] = queue[j] => i = j
SleeperQueued == \A p \in Procs : pc[p] = "sleep" => \E i \in 1 .. Len(queue) : queue[i] = cur[p]
QueuedSleeps ==
  \A i \in 1 .. Len(queue) : \E p \in Procs : pc[p] = "sleep" /\ cur[p] = queue[i] /\ holder[queue[i]] = p

IInv ==
  /\ TypeOK /\ PlaceInv /\ OneBufferPerBlock /\ RefcntIsUsers /\ DriveServesHead
  /\ DataInv /\ DriveInv

-----------------------------------------------------------------------------
(* Facts about the constants, and counting.                                *)

\* What the assumptions say of the constants and of the values built from them.
LEMMA Constants ==
  /\ NBUF \in Nat \ {0} /\ IsFiniteSet(Procs) /\ Nobody \notin Procs
  /\ NoBlock \notin Blocks /\ Blocks \subseteq Nat
  /\ NotRead \notin Values /\ Zero \in Values
  /\ NoBuf \notin Bufs /\ Bufs \subseteq Nat
<1>1. Zero \in Values
  BY ValuesAssumption DEF Zero
<1> QED
  BY <1>1, NBUFAssumption, ProcsAssumption, BlocksAssumption, NobodyAssumption, ValuesAssumption
     DEF NoBlock, NoBuf, Bufs

\* One process more, or one process less.
LEMMA Counting ==
  ASSUME NEW S \in SUBSET Procs
  PROVE  /\ Cardinality(S) \in Nat
         /\ Cardinality(S) = 0 <=> S = {}
         /\ \A p \in Procs : p \notin S => Cardinality(S \cup {p}) = Cardinality(S) + 1
         /\ \A p \in Procs : p \in S => Cardinality(S \ {p}) = Cardinality(S) - 1
<1>1. IsFiniteSet(S)
  BY Constants, FS_Subset
<1>2. Cardinality(S) \in Nat /\ (Cardinality(S) = 0 <=> S = {})
  BY <1>1, FS_CardinalityType, FS_EmptySet
<1>3. \A p \in Procs : p \notin S => Cardinality(S \cup {p}) = Cardinality(S) + 1
  BY <1>1, FS_AddElement
<1>4. \A p \in Procs : p \in S => Cardinality(S \ {p}) = Cardinality(S) - 1
  BY <1>1, FS_RemoveElement
<1> QED
  BY <1>2, <1>3, <1>4

\* Users are processes.
LEMMA UsersAreProcs == \A b : Users(b) \in SUBSET Procs
BY DEF Users

\* A buffer that nobody uses: neither held, nor asked for, nor in the queue.
LEMMA UnusedFree ==
  ASSUME IInv, NEW b \in Bufs, refcnt[b] = 0
  PROVE  /\ Users(b) = {} /\ holder[b] = Nobody
         /\ \A p \in Procs : cur[p] # b
         /\ \A i \in 1 .. Len(queue) : queue[i] # b
         /\ drive.buf # b
<1>1. Users(b) = {}
  BY Counting, UsersAreProcs DEF IInv, RefcntIsUsers
<1>2. holder[b] = Nobody
  BY <1>1 DEF IInv, TypeOK, Users
<1>3. \A p \in Procs : cur[p] # b
  BY <1>1, <1>2, Constants DEF IInv, TypeOK, PlaceInv, Users, InDisk
<1>4. \A i \in 1 .. Len(queue) : queue[i] # b
  BY <1>3 DEF IInv, DriveServesHead
<1>5. drive.buf # b
  BY <1>4, Constants DEF IInv, TypeOK, DriveServesHead
<1> QED
  BY <1>1, <1>2, <1>3, <1>4, <1>5

-----------------------------------------------------------------------------
(* The invariant is kept.                                                  *)

\* DriveServesHead is its parts, which the steps below prove one by one.
LEMMA QueueParts ==
  DriveServesHead <=> HeadServed /\ WriteIsDirty /\ QueuedOnce /\ SleeperQueued /\ QueuedSleeps
BY DEF DriveServesHead, HeadServed, WriteIsDirty, QueuedOnce, SleeperQueued, QueuedSleeps

\* A step that leaves the queue, the drive and those who sleep as they are.
LEMMA SameQueue ==
  ASSUME TypeOK, DriveServesHead, queue' = queue, drive' = drive,
         \A q \in Procs : pc[q] = "sleep" \/ pc'[q] = "sleep" => pc'[q] = pc[q] /\ cur'[q] = cur[q],
         \A i \in 1 .. Len(queue) : holder'[queue[i]] = holder[queue[i]],
         drive.buf # NoBuf => ("DIRTY" \in flags'[drive.buf] <=> "DIRTY" \in flags[drive.buf])
  PROVE  DriveServesHead'
<1>1. HeadServed' /\ QueuedOnce'
  BY DEF DriveServesHead, HeadServed, QueuedOnce
<1>2. WriteIsDirty'
  BY DEF TypeOK, DriveServesHead, WriteIsDirty
<1>3. SleeperQueued'
  BY DEF DriveServesHead, SleeperQueued
<1>4. QueuedSleeps'
  BY DEF DriveServesHead, QueuedSleeps
<1> QED
  BY <1>1, <1>2, <1>3, <1>4 DEF DriveServesHead, HeadServed, WriteIsDirty, QueuedOnce, SleeperQueued, QueuedSleeps

\* binit leaves an empty cache and an idle drive.
LEMMA InitInv == Init => IInv
<1> SUFFICES ASSUME Init PROVE IInv
  OBVIOUS
<1> USE Constants DEF Init
<1>1. TypeOK
  <2>1. \A i \in Bufs : NBUF + 1 - i \in Bufs
    BY DEF Bufs
  <2>2. lru \in [Bufs -> Bufs] /\ drive \in [buf : Bufs \cup {NoBuf}, write : BOOLEAN, done : BOOLEAN, data : Values]
    BY <2>1 DEF Idle
  <2>3. queue \in Seq(Bufs) /\ refcnt \in [Bufs -> Nat] /\ pc \in [Procs -> {"user", "bread", "iderw", "sleep", "woken", "brelse"}]
    OBVIOUS
  <2> QED
    BY <2>2, <2>3 DEF TypeOK
<1>2. PlaceInv
  BY DEF PlaceInv, InDisk
<1>3. OneBufferPerBlock
  BY DEF OneBufferPerBlock
<1>4. RefcntIsUsers
  <2>1. \A b \in Bufs : Users(b) = {}
    BY DEF Users
  <2> QED
    BY <2>1, FS_EmptySet DEF RefcntIsUsers
<1>5. DriveServesHead
  <2>1. HeadServed
    BY DEF Idle, HeadServed
  <2>2. WriteIsDirty
    BY DEF Idle, WriteIsDirty
  <2>3. QueuedOnce
    BY DEF QueuedOnce
  <2>4. SleeperQueued
    BY DEF SleeperQueued
  <2>5. QueuedSleeps
    BY DEF QueuedSleeps
  <2> QED
    BY <2>1, <2>2, <2>3, <2>4, <2>5, QueueParts
<1>6. DataInv
  BY DEF DataInv
<1>7. DriveInv
  BY DEF DriveInv, Idle
<1> QED
  BY <1>1, <1>2, <1>3, <1>4, <1>5, <1>6, <1>7 DEF IInv

\* bget of a cached block: one user more, who does not hold the buffer yet.
LEMMA HitKeeps ==
  ASSUME IInv, NEW p \in Procs, NEW blk \in Blocks, BgetHit(p, blk) PROVE IInv'
<1> USE Constants DEF IInv, ide
<1>1. PICK at \in Bufs :
        /\ blockno[lru[at]] = blk
        /\ refcnt' = [refcnt EXCEPT ![lru[at]] = @ + 1]
        /\ cur' = [cur EXCEPT ![p] = lru[at]]
  BY DEF BgetHit
<1> DEFINE b == lru[at]
<1>2. b \in Bufs /\ blockno[b] = blk /\ refcnt' = [refcnt EXCEPT ![b] = @ + 1] /\ cur' = [cur EXCEPT ![p] = b]
  BY <1>1 DEF TypeOK
<1>3. /\ pc[p] = "user" /\ pc' = [pc EXCEPT ![p] = "bread"]
      /\ UNCHANGED <<blockno, flags, data, lru, holder, panicked, ide>>
  BY DEF BgetHit, MayAsk
<1>4. holder[b] # p
  <2>1. \A c \in Held(p) : blk < blockno[c]
    BY DEF BgetHit, MayAsk
  <2>2. holder[b] = p => b \in Held(p)
    BY <1>2 DEF Held
  <2>3. ~(blk < blk)
    BY Constants
  <2> QED
    BY <1>2, <2>1, <2>2, <2>3
<1> HIDE DEF b
<1>5. TypeOK'
  BY <1>2, <1>3 DEF TypeOK
<1>6. PlaceInv'
  BY <1>2, <1>3, <1>4 DEF TypeOK, PlaceInv, InDisk
<1>7. OneBufferPerBlock'
  BY <1>3 DEF OneBufferPerBlock
<1>8. RefcntIsUsers'
  <2>1. ASSUME NEW c \in Bufs PROVE refcnt'[c] = Cardinality(Users(c)')
    <3>1. Users(c)' = IF c = b THEN Users(c) \cup {p} ELSE Users(c)
      BY <1>2, <1>3, <1>4 DEF TypeOK, Users
    <3>2. p \notin Users(b)
      BY <1>3, <1>4 DEF Users
    <3>3. Cardinality(Users(b) \cup {p}) = Cardinality(Users(b)) + 1
      BY <3>2, Counting, UsersAreProcs
    <3>4. refcnt[b] = Cardinality(Users(b)) /\ refcnt[c] = Cardinality(Users(c))
      BY <1>2 DEF RefcntIsUsers
    <3>5. refcnt'[c] = IF c = b THEN refcnt[b] + 1 ELSE refcnt[c]
      BY <1>2 DEF TypeOK
    <3> QED
      BY <3>1, <3>3, <3>4, <3>5
  <2> QED
    BY <2>1 DEF RefcntIsUsers
<1>9. DriveServesHead'
  <2>1. \A q \in Procs : pc[q] = "sleep" \/ pc'[q] = "sleep" => pc'[q] = pc[q] /\ cur'[q] = cur[q]
    BY <1>2, <1>3 DEF TypeOK
  <2>2. \A i \in 1 .. Len(queue) : holder'[queue[i]] = holder[queue[i]]
    BY <1>2, <1>3 DEF TypeOK, DriveServesHead
  <2>3. drive.buf # NoBuf => ("DIRTY" \in flags'[drive.buf] <=> "DIRTY" \in flags[drive.buf])
    BY <1>2, <1>3 DEF TypeOK
  <2> QED
    BY <1>2, <1>3, <2>1, <2>2, <2>3, SameQueue
<1>10. DataInv'
  BY <1>2, <1>3 DEF TypeOK, DataInv
<1>11. DriveInv'
  BY <1>3 DEF DriveInv
<1> QED
  BY <1>5, <1>6, <1>7, <1>8, <1>9, <1>10, <1>11

\* bget of a block that is not cached: the buffer recycled is nobody's.
LEMMA MissKeeps ==
  ASSUME IInv, NEW p \in Procs, NEW blk \in Blocks, BgetMiss(p, blk) PROVE IInv'
<1> USE Constants DEF IInv, ide
<1>1. PICK at \in Bufs :
        /\ Unused(lru[at])
        /\ blockno' = [blockno EXCEPT ![lru[at]] = blk]
        /\ flags' = [flags EXCEPT ![lru[at]] = {}]
        /\ refcnt' = [refcnt EXCEPT ![lru[at]] = 1]
        /\ cur' = [cur EXCEPT ![p] = lru[at]]
  BY DEF BgetMiss
<1> DEFINE b == lru[at]
<1>2. /\ b \in Bufs /\ refcnt[b] = 0
      /\ blockno' = [blockno EXCEPT ![b] = blk] /\ flags' = [flags EXCEPT ![b] = {}]
      /\ refcnt' = [refcnt EXCEPT ![b] = 1] /\ cur' = [cur EXCEPT ![p] = b]
  BY <1>1 DEF TypeOK, Unused
<1>3. /\ pc[p] = "user" /\ pc' = [pc EXCEPT ![p] = "bread"]
      /\ \A c \in Bufs : blockno[c] # blk
      /\ UNCHANGED <<data, lru, holder, panicked, ide>>
  BY DEF BgetMiss, MayAsk
<1>4. /\ Users(b) = {} /\ holder[b] = Nobody /\ drive.buf # b
      /\ \A q \in Procs : cur[q] # b
      /\ \A j \in 1 .. Len(queue) : queue[j] # b
  BY <1>2, UnusedFree
<1> HIDE DEF b
<1>5. TypeOK'
  BY <1>2, <1>3 DEF TypeOK
<1>6. PlaceInv'
  BY <1>2, <1>3, <1>4 DEF TypeOK, PlaceInv, InDisk
<1>7. OneBufferPerBlock'
  BY <1>2, <1>3 DEF TypeOK, OneBufferPerBlock
<1>8. RefcntIsUsers'
  <2>1. ASSUME NEW c \in Bufs PROVE refcnt'[c] = Cardinality(Users(c)')
    <3>1. Users(c)' = IF c = b THEN {p} ELSE Users(c)
      BY <1>2, <1>3, <1>4 DEF TypeOK, Users
    <3> QED
      BY <1>2, <3>1, FS_Singleton DEF TypeOK, RefcntIsUsers
  <2> QED
    BY <2>1 DEF RefcntIsUsers
<1>9. DriveServesHead'
  <2>1. \A q \in Procs : pc[q] = "sleep" \/ pc'[q] = "sleep" => pc'[q] = pc[q] /\ cur'[q] = cur[q]
    BY <1>2, <1>3, <1>4 DEF TypeOK
  <2>2. \A i \in 1 .. Len(queue) : holder'[queue[i]] = holder[queue[i]]
    BY <1>2, <1>3, <1>4 DEF TypeOK, DriveServesHead
  <2>3. drive.buf # NoBuf => ("DIRTY" \in flags'[drive.buf] <=> "DIRTY" \in flags[drive.buf])
    BY <1>2, <1>3, <1>4 DEF TypeOK
  <2> QED
    BY <1>2, <1>3, <1>4, <2>1, <2>2, <2>3, SameQueue
<1>10. DataInv'
  BY <1>2, <1>3, <1>4 DEF TypeOK, DataInv
<1>11. DriveInv'
  BY <1>2, <1>3, <1>4 DEF TypeOK, DriveInv
<1> QED
  BY <1>5, <1>6, <1>7, <1>8, <1>9, <1>10, <1>11

\* bget: no buffers.
LEMMA PanicKeeps ==
  ASSUME IInv, NEW p \in Procs, NEW blk \in Blocks, BgetPanic(p, blk) PROVE IInv'
<1> USE DEF IInv, BgetPanic, ide, cache
<1>1. TypeOK'
  BY DEF TypeOK
<1>2. PlaceInv' /\ OneBufferPerBlock' /\ DataInv' /\ DriveInv'
  BY DEF PlaceInv, OneBufferPerBlock, DataInv, DriveInv
<1>3. RefcntIsUsers' /\ DriveServesHead'
  BY DEF RefcntIsUsers, Users, DriveServesHead
<1> QED
  BY <1>1, <1>2, <1>3

\* acquiresleep in bget: who counted himself in gets the lock.
LEMMA LockKeeps ==
  ASSUME IInv, NEW p \in Procs, BreadLocks(p) PROVE IInv'
<1> USE Constants DEF IInv, ide, cache
<1> DEFINE b == cur[p]
<1>1. /\ b \in Bufs /\ pc[p] = "bread" /\ holder[b] = Nobody
      /\ holder' = [holder EXCEPT ![b] = p]
      /\ UNCHANGED <<cache, flags, data, ide, panicked>>
  BY DEF TypeOK, PlaceInv, BreadLocks
<1>2. \/ /\ "VALID" \in flags[b]
         /\ pc' = [pc EXCEPT ![p] = "user"] /\ cur' = [cur EXCEPT ![p] = NoBuf]
      \/ /\ "VALID" \notin flags[b]
         /\ pc' = [pc EXCEPT ![p] = "iderw"] /\ cur' = cur
  BY DEF BreadLocks
<1>3. cur[p] = b
  OBVIOUS
<1> HIDE DEF b
<1>4. TypeOK'
  BY <1>1, <1>2 DEF TypeOK
<1>5. PlaceInv'
  BY <1>1, <1>2, <1>3 DEF TypeOK, PlaceInv, InDisk
<1>6. OneBufferPerBlock' /\ DriveInv'
  BY <1>1 DEF OneBufferPerBlock, DriveInv
<1>7. RefcntIsUsers'
  <2>1. ASSUME NEW c \in Bufs PROVE Users(c)' = Users(c)
    BY <1>1, <1>2, <1>3 DEF TypeOK, Users
  <2> QED
    BY <1>1, <2>1 DEF RefcntIsUsers
<1>8. DriveServesHead'
  <2>1. \A q \in Procs : pc[q] = "sleep" \/ pc'[q] = "sleep" => pc'[q] = pc[q] /\ cur'[q] = cur[q]
    BY <1>1, <1>2, <1>3 DEF TypeOK
  <2>2. \A i \in 1 .. Len(queue) : holder'[queue[i]] = holder[queue[i]]
    BY <1>1, <1>2, <1>3 DEF TypeOK, DriveServesHead
  <2>3. drive.buf # NoBuf => ("DIRTY" \in flags'[drive.buf] <=> "DIRTY" \in flags[drive.buf])
    BY <1>1, <1>2, <1>3 DEF TypeOK
  <2> QED
    BY <1>1, <1>2, <1>3, <2>1, <2>2, <2>3, SameQueue
<1>9. DataInv'
  BY <1>1, <1>2, <1>3 DEF TypeOK, DataInv
<1> QED
  BY <1>4, <1>5, <1>6, <1>7, <1>8, <1>9

\* What a process holds and is not reading has data; the drive is not on it.
LEMMA HeldHasData ==
  ASSUME IInv, NEW p \in Procs, NEW b \in Bufs, pc[p] = "user", holder[b] = p
  PROVE  /\ "VALID" \in flags[b] /\ flags[b] # {} /\ blockno[b] \in Blocks
         /\ drive.buf # b
         /\ \A i \in 1 .. Len(queue) : queue[i] # b
         /\ \A q \in Procs : pc[q] \in InDisk => cur[q] # b
<1> USE Constants DEF IInv
<1>1. flags[b] # {}
  BY DEF TypeOK, DataInv
<1>2. "VALID" \in flags[b] /\ blockno[b] \in Blocks
  BY <1>1 DEF DataInv
<1>3. \A i \in 1 .. Len(queue) : queue[i] # b
  BY DEF DriveServesHead, TypeOK
<1>4. drive.buf # b
  BY <1>3 DEF TypeOK, DriveServesHead
<1>5. \A q \in Procs : pc[q] \in InDisk => cur[q] # b
  BY DEF PlaceInv, InDisk
<1> QED
  BY <1>1, <1>2, <1>3, <1>4, <1>5

\* log_write: the buffer is dirty, and not in the queue.
LEMMA ModifyKeeps ==
  ASSUME IInv, NEW p \in Procs, NEW b \in Bufs, NEW v \in Values, Modify(p, b, v) PROVE IInv'
<1> USE Constants DEF IInv, ide, cache
<1>1. /\ pc[p] = "user" /\ holder[b] = p
      /\ data' = [data EXCEPT ![b] = v] /\ flags' = [flags EXCEPT ![b] = @ \cup {"DIRTY"}]
      /\ UNCHANGED <<cache, holder, ide, pc, cur, panicked>>
  BY DEF Modify
<1>2. /\ "VALID" \in flags[b] /\ flags[b] # {} /\ blockno[b] \in Blocks
      /\ drive.buf # b
      /\ \A q \in Procs : pc[q] \in InDisk => cur[q] # b
  BY <1>1, HeldHasData
<1>3. TypeOK'
  BY <1>1 DEF TypeOK
<1>4. PlaceInv'
  BY <1>1, <1>2 DEF TypeOK, PlaceInv, InDisk
<1>5. OneBufferPerBlock' /\ RefcntIsUsers'
  BY <1>1 DEF OneBufferPerBlock, RefcntIsUsers, Users
<1>6. DriveServesHead'
  <2>1. \A q \in Procs : pc[q] = "sleep" \/ pc'[q] = "sleep" => pc'[q] = pc[q] /\ cur'[q] = cur[q]
    BY <1>1, <1>2 DEF TypeOK
  <2>2. \A i \in 1 .. Len(queue) : holder'[queue[i]] = holder[queue[i]]
    BY <1>1, <1>2 DEF TypeOK, DriveServesHead
  <2>3. drive.buf # NoBuf => ("DIRTY" \in flags'[drive.buf] <=> "DIRTY" \in flags[drive.buf])
    BY <1>1, <1>2 DEF TypeOK
  <2> QED
    BY <1>1, <1>2, <2>1, <2>2, <2>3, SameQueue
<1>7. DataInv'
  <2>1. /\ \A c \in Bufs \ {b} : flags'[c] = flags[c] /\ data'[c] = data[c]
        /\ flags'[b] = flags[b] \cup {"DIRTY"}
    BY <1>1 DEF TypeOK
  <2>2. "VALID" \in flags'[b] /\ flags'[b] # {} /\ flags'[b] # {"VALID"}
    BY <1>2, <2>1
  <2>3. \A c \in Bufs : flags[c] = {} /\ holder[c] # Nobody =>
          /\ holder[c] \in Procs \ {p}
          /\ pc'[holder[c]] \in {"iderw", "sleep"} /\ cur'[holder[c]] = c
    BY <1>1 DEF TypeOK, DataInv
  <2> QED
    BY <1>1, <1>2, <2>1, <2>2, <2>3 DEF DataInv
<1>8. DriveInv'
  BY <1>1, <1>2 DEF TypeOK, DriveInv
<1> QED
  BY <1>3, <1>4, <1>5, <1>6, <1>7, <1>8

\* bwrite, up to iderw.
LEMMA BwriteKeeps ==
  ASSUME IInv, NEW p \in Procs, NEW b \in Bufs, NEW v \in Values, Bwrite(p, b, v) PROVE IInv'
<1> USE Constants DEF IInv, ide, cache
<1>1. /\ pc[p] = "user" /\ holder[b] = p
      /\ data' = [data EXCEPT ![b] = v] /\ flags' = [flags EXCEPT ![b] = @ \cup {"DIRTY"}]
      /\ pc' = [pc EXCEPT ![p] = "iderw"] /\ cur' = [cur EXCEPT ![p] = b]
      /\ UNCHANGED <<cache, holder, ide, panicked>>
  BY DEF Bwrite
<1>2. /\ "VALID" \in flags[b] /\ flags[b] # {} /\ blockno[b] \in Blocks
      /\ drive.buf # b
      /\ \A q \in Procs : pc[q] \in InDisk => cur[q] # b
  BY <1>1, HeldHasData
<1>3. TypeOK'
  BY <1>1 DEF TypeOK
<1>4. PlaceInv'
  BY <1>1, <1>2 DEF TypeOK, PlaceInv, InDisk
<1>5. OneBufferPerBlock'
  BY <1>1 DEF OneBufferPerBlock
<1>6. RefcntIsUsers'
  <2>1. ASSUME NEW c \in Bufs PROVE Users(c)' = Users(c)
    BY <1>1 DEF TypeOK, Users
  <2> QED
    BY <1>1, <2>1 DEF RefcntIsUsers
<1>7. DriveServesHead'
  <2>1. \A q \in Procs : pc[q] = "sleep" \/ pc'[q] = "sleep" => pc'[q] = pc[q] /\ cur'[q] = cur[q]
    BY <1>1, <1>2 DEF TypeOK
  <2>2. \A i \in 1 .. Len(queue) : holder'[queue[i]] = holder[queue[i]]
    BY <1>1, <1>2 DEF TypeOK, DriveServesHead
  <2>3. drive.buf # NoBuf => ("DIRTY" \in flags'[drive.buf] <=> "DIRTY" \in flags[drive.buf])
    BY <1>1, <1>2 DEF TypeOK
  <2> QED
    BY <1>1, <1>2, <2>1, <2>2, <2>3, SameQueue
<1>8. DataInv'
  <2>1. /\ \A c \in Bufs \ {b} : flags'[c] = flags[c] /\ data'[c] = data[c]
        /\ flags'[b] = flags[b] \cup {"DIRTY"}
    BY <1>1 DEF TypeOK
  <2>2. "VALID" \in flags'[b] /\ flags'[b] # {} /\ flags'[b] # {"VALID"}
    BY <1>2, <2>1
  <2>3. \A c \in Bufs : flags[c] = {} /\ holder[c] # Nobody =>
          /\ holder[c] \in Procs \ {p}
          /\ pc'[holder[c]] \in {"iderw", "sleep"} /\ cur'[holder[c]] = c
    BY <1>1 DEF TypeOK, DataInv
  <2> QED
    BY <1>1, <1>2, <2>1, <2>2, <2>3 DEF DataInv
<1>9. DriveInv'
  BY <1>1, <1>2 DEF TypeOK, DriveInv
<1> QED
  BY <1>3, <1>4, <1>5, <1>6, <1>7, <1>8, <1>9

\* releasesleep in brelse: still counted, no longer the holder.
LEMMA UnlockKeeps ==
  ASSUME IInv, NEW p \in Procs, NEW b \in Bufs, BrelseUnlocks(p, b) PROVE IInv'
<1> USE Constants DEF IInv, ide, cache
<1>1. /\ pc[p] = "user" /\ holder[b] = p
      /\ holder' = [holder EXCEPT ![b] = Nobody]
      /\ pc' = [pc EXCEPT ![p] = "brelse"] /\ cur' = [cur EXCEPT ![p] = b]
      /\ UNCHANGED <<cache, flags, data, ide, panicked>>
  BY DEF BrelseUnlocks
<1>2. /\ flags[b] # {}
      /\ \A i \in 1 .. Len(queue) : queue[i] # b
      /\ \A q \in Procs : pc[q] \in InDisk => cur[q] # b
  BY <1>1, HeldHasData
<1>3. TypeOK'
  BY <1>1 DEF TypeOK
<1>4. PlaceInv'
  BY <1>1, <1>2 DEF TypeOK, PlaceInv, InDisk
<1>5. OneBufferPerBlock' /\ DriveInv'
  BY <1>1 DEF OneBufferPerBlock, DriveInv
<1>6. RefcntIsUsers'
  <2>1. ASSUME NEW c \in Bufs PROVE Users(c)' = Users(c)
    BY <1>1 DEF TypeOK, Users
  <2> QED
    BY <1>1, <2>1 DEF RefcntIsUsers
<1>7. DriveServesHead'
  <2>1. \A q \in Procs : pc[q] = "sleep" \/ pc'[q] = "sleep" => pc'[q] = pc[q] /\ cur'[q] = cur[q]
    BY <1>1, <1>2 DEF TypeOK
  <2>2. \A i \in 1 .. Len(queue) : holder'[queue[i]] = holder[queue[i]]
    BY <1>1, <1>2 DEF TypeOK, DriveServesHead
  <2>3. drive.buf # NoBuf => ("DIRTY" \in flags'[drive.buf] <=> "DIRTY" \in flags[drive.buf])
    BY <1>1, <1>2 DEF TypeOK
  <2> QED
    BY <1>1, <1>2, <2>1, <2>2, <2>3, SameQueue
<1>8. DataInv'
  BY <1>1, <1>2 DEF TypeOK, DataInv
<1> QED
  BY <1>3, <1>4, <1>5, <1>6, <1>7, <1>8

\* brelse: one user less.
LEMMA CountKeeps ==
  ASSUME IInv, NEW p \in Procs, BrelseCounts(p) PROVE IInv'
<1> USE Constants DEF IInv, ide, cache
<1> DEFINE b == cur[p]
<1>1. /\ b \in Bufs /\ pc[p] = "brelse" /\ holder[b] # p
      /\ refcnt' = [refcnt EXCEPT ![b] = @ - 1]
      /\ pc' = [pc EXCEPT ![p] = "user"] /\ cur' = [cur EXCEPT ![p] = NoBuf]
      /\ UNCHANGED <<blockno, flags, data, holder, ide, panicked>>
  BY DEF TypeOK, PlaceInv, BrelseCounts
<1>2. cur[p] = b
  OBVIOUS
<1>3. lru' \in [Bufs -> Bufs]
  <2>1. \A i \in Bufs : MoveToHead(i) \in [Bufs -> Bufs]
    <3> SUFFICES ASSUME NEW i \in Bufs, NEW j \in Bufs
                 PROVE  (IF j = 1 THEN lru[i] ELSE IF j <= i THEN lru[j - 1] ELSE lru[j]) \in Bufs
      BY DEF MoveToHead
    <3>1. j # 1 => j - 1 \in Bufs
      BY DEF Bufs
    <3> QED
      BY <3>1 DEF TypeOK
  <2> QED
    BY <2>1 DEF TypeOK, BrelseCounts
<1> HIDE DEF b
<1>4. RefcntIsUsers' /\ refcnt[b] # 0
  <2>1. p \in Users(b)
    BY <1>1, <1>2 DEF Users
  <2>2. /\ Cardinality(Users(b) \ {p}) = Cardinality(Users(b)) - 1
        /\ Cardinality(Users(b)) # 0
    BY <2>1, Counting, UsersAreProcs
  <2>3. ASSUME NEW c \in Bufs PROVE Users(c)' = IF c = b THEN Users(c) \ {p} ELSE Users(c)
    BY <1>1, <1>2 DEF TypeOK, Users
  <2>4. ASSUME NEW c \in Bufs PROVE refcnt'[c] = IF c = b THEN refcnt[b] - 1 ELSE refcnt[c]
    BY <1>1 DEF TypeOK
  <2>5. ASSUME NEW c \in Bufs PROVE refcnt[c] = Cardinality(Users(c))
    BY DEF RefcntIsUsers
  <2>6. ASSUME NEW c \in Bufs PROVE refcnt'[c] = Cardinality(Users(c)')
    BY <1>1, <2>2, <2>3, <2>4, <2>5
  <2> QED
    BY <1>1, <2>2, <2>5, <2>6 DEF RefcntIsUsers
<1>5. TypeOK'
  <2>1. refcnt' \in [Bufs -> Nat]
    BY <1>1, <1>4 DEF TypeOK
  <2> QED
    BY <1>1, <1>3, <2>1 DEF TypeOK
<1>6. PlaceInv'
  BY <1>1, <1>2 DEF TypeOK, PlaceInv, InDisk
<1>7. OneBufferPerBlock' /\ DriveInv'
  BY <1>1 DEF OneBufferPerBlock, DriveInv
<1>8. DriveServesHead'
  <2>1. \A q \in Procs : pc[q] = "sleep" \/ pc'[q] = "sleep" => pc'[q] = pc[q] /\ cur'[q] = cur[q]
    BY <1>1, <1>2 DEF TypeOK
  <2>2. \A i \in 1 .. Len(queue) : holder'[queue[i]] = holder[queue[i]]
    BY <1>1, <1>2 DEF TypeOK, DriveServesHead
  <2>3. drive.buf # NoBuf => ("DIRTY" \in flags'[drive.buf] <=> "DIRTY" \in flags[drive.buf])
    BY <1>1, <1>2 DEF TypeOK
  <2> QED
    BY <1>1, <1>2, <2>1, <2>2, <2>3, SameQueue
<1>9. DataInv'
  <2>1. \A c \in Bufs : refcnt'[c] > 0 => refcnt[c] > 0
    BY <1>1, <1>4 DEF TypeOK
  <2> QED
    BY <1>1, <1>2, <2>1 DEF TypeOK, DataInv
<1> QED
  BY <1>4, <1>5, <1>6, <1>7, <1>8, <1>9

\* A process woken in iderw finds its buffer valid and returns.
LEMMA WakeKeeps ==
  ASSUME IInv, NEW p \in Procs, IderwWakes(p) PROVE IInv'
<1> USE Constants DEF IInv, ide, cache
<1>1. /\ pc[p] = "woken" /\ cur[p] \in Bufs
      /\ pc' = [pc EXCEPT ![p] = "user"] /\ cur' = [cur EXCEPT ![p] = NoBuf]
      /\ UNCHANGED <<cache, flags, data, holder, ide, panicked>>
  BY DEF TypeOK, PlaceInv, IderwWakes
<1>2. holder[cur[p]] = p /\ flags[cur[p]] # {}
  BY <1>1 DEF PlaceInv, InDisk
<1>3. TypeOK'
  BY <1>1 DEF TypeOK
<1>4. PlaceInv'
  BY <1>1 DEF TypeOK, PlaceInv, InDisk
<1>5. OneBufferPerBlock' /\ DriveInv'
  BY <1>1 DEF OneBufferPerBlock, DriveInv
<1>6. RefcntIsUsers'
  <2>1. ASSUME NEW c \in Bufs PROVE Users(c)' = Users(c)
    BY <1>1 DEF TypeOK, Users
  <2> QED
    BY <1>1, <2>1 DEF RefcntIsUsers
<1>7. DriveServesHead'
  <2>1. \A q \in Procs : pc[q] = "sleep" \/ pc'[q] = "sleep" => pc'[q] = pc[q] /\ cur'[q] = cur[q]
    BY <1>1, <1>2 DEF TypeOK
  <2>2. \A i \in 1 .. Len(queue) : holder'[queue[i]] = holder[queue[i]]
    BY <1>1, <1>2 DEF TypeOK, DriveServesHead
  <2>3. drive.buf # NoBuf => ("DIRTY" \in flags'[drive.buf] <=> "DIRTY" \in flags[drive.buf])
    BY <1>1, <1>2 DEF TypeOK
  <2> QED
    BY <1>1, <1>2, <2>1, <2>2, <2>3, SameQueue
<1>8. DataInv'
  BY <1>1, <1>2 DEF TypeOK, DataInv
<1> QED
  BY <1>3, <1>4, <1>5, <1>6, <1>7, <1>8

\* iderw: a buffer not yet in the queue goes to its end.
LEMMA QueueKeeps ==
  ASSUME IInv, NEW p \in Procs, IderwQueues(p) PROVE IInv'
<1> USE Constants DEF IInv, ide, cache
<1> DEFINE b == cur[p]
<1>1. /\ b \in Bufs /\ pc[p] = "iderw"
      /\ queue' = Append(queue, b)
      /\ drive' = IF queue = << >> THEN Request(b) ELSE drive
      /\ pc' = [pc EXCEPT ![p] = "sleep"]
      /\ UNCHANGED <<cache, flags, data, holder, disk, cur, panicked>>
  BY DEF TypeOK, PlaceInv, IderwQueues
<1>2. cur[p] = b /\ holder[b] = p
  BY <1>1 DEF PlaceInv, InDisk
<1> HIDE DEF b
<1>3. \A i \in 1 .. Len(queue) : queue[i] # b
  BY <1>1, <1>2 DEF DriveServesHead
<1>4. /\ Len(queue) \in Nat /\ Len(queue') = Len(queue) + 1
      /\ queue'[Len(queue) + 1] = b
      /\ \A i \in 1 .. Len(queue) : queue'[i] = queue[i]
  BY <1>1 DEF TypeOK
<1>5. TypeOK'
  <2>1. drive' \in [buf : Bufs \cup {NoBuf}, write : BOOLEAN, done : BOOLEAN, data : Values]
    BY <1>1 DEF TypeOK, Request
  <2>2. queue' \in Seq(Bufs) /\ pc' \in [Procs -> {"user", "bread", "iderw", "sleep", "woken", "brelse"}]
    BY <1>1 DEF TypeOK
  <2> QED
    BY <1>1, <2>1, <2>2 DEF TypeOK
<1>6. PlaceInv'
  BY <1>1, <1>2 DEF TypeOK, PlaceInv, InDisk
<1>7. OneBufferPerBlock'
  BY <1>1 DEF OneBufferPerBlock
<1>8. RefcntIsUsers'
  <2>1. ASSUME NEW c \in Bufs PROVE Users(c)' = Users(c)
    BY <1>1 DEF TypeOK, Users
  <2> QED
    BY <1>1, <2>1 DEF RefcntIsUsers
<1>9. DriveServesHead'
  <2>1. HeadServed'
    <3>1. CASE queue = << >>
      BY <1>1, <3>1 DEF Request, HeadServed
    <3>2. CASE queue # << >>
      <4>1. Head(queue') = Head(queue) /\ queue' # << >>
        BY SMTT(30), <1>1, <3>2 DEF TypeOK
      <4> QED
        BY <1>1, <3>2, <4>1 DEF DriveServesHead, HeadServed
    <3> QED
      BY <3>1, <3>2
  <2>2. WriteIsDirty'
    BY <1>1 DEF TypeOK, DriveServesHead, WriteIsDirty, Request
  <2>3. QueuedOnce'
    <3>1. ASSUME NEW i \in 1 .. Len(queue'), NEW j \in 1 .. Len(queue'), queue'[i] = queue'[j] PROVE i = j
      BY <1>3, <1>4, <3>1 DEF DriveServesHead
    <3> QED
      BY <3>1 DEF QueuedOnce
  <2>4. SleeperQueued'
    <3>1. ASSUME NEW q \in Procs, pc'[q] = "sleep" PROVE \E i \in 1 .. Len(queue') : queue'[i] = cur'[q]
      <4>1. CASE q = p
        BY <1>1, <1>2, <1>4, <4>1
      <4>2. CASE q # p
        <5>1. PICK i \in 1 .. Len(queue) : queue[i] = cur[q]
          BY <1>1, <3>1, <4>2 DEF TypeOK, DriveServesHead
        <5> QED
          BY <1>1, <1>4, <5>1
      <4> QED
        BY <4>1, <4>2
    <3> QED
      BY <3>1 DEF SleeperQueued
  <2>5. QueuedSleeps'
    <3>1. ASSUME NEW i \in 1 .. Len(queue')
          PROVE  \E q \in Procs : pc'[q] = "sleep" /\ cur'[q] = queue'[i] /\ holder'[queue'[i]] = q
      <4>1. CASE i = Len(queue) + 1
        BY <1>1, <1>2, <1>4, <4>1 DEF TypeOK
      <4>2. CASE i # Len(queue) + 1
        <5>1. i \in 1 .. Len(queue)
          BY <1>4, <4>2
        <5>2. PICK q \in Procs : pc[q] = "sleep" /\ cur[q] = queue[i] /\ holder[queue[i]] = q
          BY <5>1 DEF DriveServesHead
        <5> QED
          BY <1>1, <1>4, <5>1, <5>2 DEF TypeOK
      <4> QED
        BY <4>1, <4>2
    <3> QED
      BY <3>1 DEF QueuedSleeps
  <2> QED
    BY <2>1, <2>2, <2>3, <2>4, <2>5 DEF DriveServesHead, HeadServed, WriteIsDirty, QueuedOnce, SleeperQueued, QueuedSleeps
<1>10. DataInv'
  BY <1>1, <1>2 DEF TypeOK, DataInv
<1>11. DriveInv'
  BY <1>1 DEF TypeOK, DriveInv, Request
<1> QED
  BY <1>5, <1>6, <1>7, <1>8, <1>9, <1>10, <1>11

\* The buffer the drive works on is the head of the queue, and is for a block.
LEMMA DriveBuf ==
  ASSUME IInv, drive.buf # NoBuf
  PROVE  /\ queue # << >> /\ drive.buf = Head(queue) /\ drive.buf = queue[1] /\ 1 \in 1 .. Len(queue)
         /\ drive.buf \in Bufs /\ blockno[drive.buf] \in Blocks
         /\ \E p \in Procs : pc[p] = "sleep" /\ cur[p] = drive.buf /\ holder[drive.buf] = p
<1> USE Constants DEF IInv
<1>1. queue # << >> /\ drive.buf = Head(queue)
  BY DEF DriveServesHead
<1>2. drive.buf = queue[1] /\ 1 \in 1 .. Len(queue) /\ drive.buf \in Bufs
  BY <1>1 DEF TypeOK
<1>3. PICK p \in Procs : pc[p] = "sleep" /\ cur[p] = drive.buf /\ holder[drive.buf] = p
  BY <1>2 DEF DriveServesHead
<1>4. refcnt[drive.buf] > 0
  <2>1. p \in Users(drive.buf)
    BY <1>3 DEF Users
  <2>2. Cardinality(Users(drive.buf)) \in Nat /\ Cardinality(Users(drive.buf)) # 0
    BY <2>1, Counting, UsersAreProcs
  <2>3. refcnt[drive.buf] = Cardinality(Users(drive.buf))
    BY <1>2 DEF RefcntIsUsers
  <2> QED
    BY <2>2, <2>3
<1>5. blockno[drive.buf] \in Blocks
  BY <1>2, <1>4 DEF DataInv
<1> QED
  BY <1>1, <1>2, <1>3, <1>5

\* The drive carries out the request at the head of the queue.
LEMMA DriveKeeps ==
  ASSUME IInv, DriveDone PROVE IInv'
<1> USE Constants DEF IInv, ide, cache
<1> DEFINE b == drive.buf
<1> DEFINE blk == blockno[b]
<1>1. /\ b # NoBuf /\ ~drive.done /\ b \in Bufs /\ blk \in Blocks
      /\ UNCHANGED <<cache, flags, data, holder, queue, pc, cur, panicked>>
  BY DriveBuf DEF DriveDone
<1>2. \/ /\ drive.write /\ disk' = [disk EXCEPT ![blk] = drive.data]
         /\ drive' = [drive EXCEPT !.done = TRUE]
      \/ /\ ~drive.write /\ disk' = disk
         /\ drive' = [drive EXCEPT !.done = TRUE, !.data = disk[blk]]
  BY DEF DriveDone
<1>3. drive.buf = b /\ blk = blockno[b]
  OBVIOUS
<1> HIDE DEF b, blk
<1>4. /\ drive' \in [buf : Bufs \cup {NoBuf}, write : BOOLEAN, done : BOOLEAN, data : Values]
      /\ drive'.buf = b /\ drive'.write = drive.write /\ drive'.done
      /\ IF drive.write THEN drive'.data = drive.data ELSE drive'.data = disk[blk]
  <2>1. drive \in [buf : Bufs \cup {NoBuf}, write : BOOLEAN, done : BOOLEAN, data : Values]
    BY DEF TypeOK
  <2>2. disk[blk] \in Values
    BY <1>1 DEF TypeOK
  <2>3. CASE drive.write
    BY <1>2, <1>3, <2>1, <2>3
  <2>4. CASE ~drive.write
    BY <1>2, <1>3, <2>1, <2>2, <2>4
  <2> QED
    BY <2>3, <2>4
<1>5. TypeOK'
  <2>1. disk' \in [Blocks -> Values]
    BY <1>1, <1>2 DEF TypeOK
  <2> QED
    BY <1>1, <1>4, <2>1 DEF TypeOK
<1>6. PlaceInv' /\ OneBufferPerBlock'
  BY <1>1 DEF PlaceInv, OneBufferPerBlock
<1>7. RefcntIsUsers'
  BY <1>1 DEF RefcntIsUsers, Users
<1>8. DriveServesHead'
  BY <1>1, <1>3, <1>4 DEF DriveServesHead
<1>9. DataInv'
  <2>1. ASSUME NEW c \in Bufs, flags[c] = {"VALID"} PROVE data[c] = disk'[blockno[c]]
    <3>1. data[c] = disk[blockno[c]] /\ blockno[c] \in Blocks
      BY <2>1 DEF DataInv
    <3>2. CASE drive.write
      <4>1. "DIRTY" \in flags[b]
        BY <1>1, <1>3, <3>2 DEF DriveServesHead
      <4>2. blockno[c] # blk
        BY <1>1, <1>3, <2>1, <4>1 DEF OneBufferPerBlock
      <4> QED
        BY <1>2, <3>1, <3>2, <4>2 DEF TypeOK
    <3> QED
      BY <1>2, <3>1, <3>2
  <2> QED
    BY <1>1, <2>1 DEF DataInv
<1>10. DriveInv'
  <2>1. drive.write => drive.data = data[b]
    BY <1>1, <1>3 DEF DriveInv
  <2>2. drive.write => disk'[blk] = drive.data
    BY <1>1, <1>2 DEF TypeOK
  <2>3. ~drive.write => disk'[blk] = disk[blk]
    BY <1>2
  <2>4. blockno'[b] = blk /\ data' = data
    BY <1>1, <1>3
  <2>5. CASE drive.write
    BY <1>1, <1>4, <2>1, <2>2, <2>4, <2>5 DEF DriveInv
  <2>6. CASE ~drive.write
    BY <1>1, <1>4, <2>3, <2>4, <2>6 DEF DriveInv
  <2> QED
    BY <2>5, <2>6
<1> QED
  BY <1>5, <1>6, <1>7, <1>8, <1>9, <1>10

\* ideintr: the head leaves the queue, its process wakes, the next one is started.
LEMMA InterruptKeeps ==
  ASSUME IInv, Ideintr PROVE IInv'
<1> USE Constants DEF IInv, ide, cache
<1> DEFINE b == Head(queue)
<1>1. /\ drive.done /\ queue # << >>
      /\ data' = IF "DIRTY" \in flags[b] THEN data ELSE [data EXCEPT ![b] = drive.data]
      /\ flags' = [flags EXCEPT ![b] = {"VALID"}]
      /\ pc' = [p \in Procs |-> IF pc[p] = "sleep" /\ cur[p] = b THEN "woken" ELSE pc[p]]
      /\ queue' = Tail(queue)
      /\ drive' = IF Tail(queue) = << >> THEN Idle ELSE Request(Head(Tail(queue)))
      /\ UNCHANGED <<cache, holder, disk, cur, panicked>>
  BY DEF Ideintr
<1>2. /\ drive.buf = b /\ drive.buf # NoBuf /\ b \in Bufs /\ b = queue[1] /\ 1 \in 1 .. Len(queue)
      /\ blockno[b] \in Blocks
      /\ \E p \in Procs : pc[p] = "sleep" /\ cur[p] = b /\ holder[b] = p
  BY <1>1, DriveBuf DEF DriveInv
<1> HIDE DEF b
<1>3. /\ Len(queue) \in Nat \ {0} /\ Len(queue') = Len(queue) - 1
      /\ \A i \in 1 .. Len(queue') : i + 1 \in 1 .. Len(queue) /\ queue'[i] = queue[i + 1]
  BY <1>1 DEF TypeOK
<1>4. queue' \in Seq(Bufs) /\ (queue' # << >> => Head(queue') = queue'[1] /\ 1 \in 1 .. Len(queue'))
  BY <1>1 DEF TypeOK
<1>5. \A i \in 1 .. Len(queue') : queue'[i] # b
  BY <1>2, <1>3 DEF DriveServesHead
<1>6. data' \in [Bufs -> Values]
  BY <1>1, <1>2 DEF TypeOK
<1>7. drive' = IF queue' = << >> THEN Idle ELSE Request(Head(queue'))
  BY <1>1
<1>8. TypeOK'
  <2>1. drive' \in [buf : Bufs \cup {NoBuf}, write : BOOLEAN, done : BOOLEAN, data : Values]
    <3>1. Idle \in [buf : Bufs \cup {NoBuf}, write : BOOLEAN, done : BOOLEAN, data : Values]
      BY DEF Idle
    <3>2. \A c \in Bufs : Request(c) \in [buf : Bufs \cup {NoBuf}, write : BOOLEAN, done : BOOLEAN, data : Values]
      BY DEF Request, TypeOK
    <3>3. queue' # << >> => Head(queue') \in Bufs
      BY <1>4
    <3> QED
      BY <1>7, <3>1, <3>2, <3>3
  <2>2. flags' \in [Bufs -> SUBSET {"VALID", "DIRTY"}]
    BY <1>1, <1>2 DEF TypeOK
  <2>3. pc' \in [Procs -> {"user", "bread", "iderw", "sleep", "woken", "brelse"}]
    BY <1>1 DEF TypeOK
  <2> QED
    BY <1>1, <1>4, <1>6, <2>1, <2>2, <2>3 DEF TypeOK
<1>9. PlaceInv'
  BY <1>1, <1>2 DEF TypeOK, PlaceInv, InDisk
<1>10. OneBufferPerBlock'
  BY <1>1 DEF OneBufferPerBlock
<1>11. RefcntIsUsers'
  <2>1. ASSUME NEW c \in Bufs PROVE Users(c)' = Users(c)
    BY <1>1 DEF TypeOK, Users
  <2> QED
    BY <1>1, <2>1 DEF RefcntIsUsers
<1>12. ASSUME NEW q \in Procs, pc'[q] = "sleep" PROVE pc[q] = "sleep" /\ cur[q] # b
  BY <1>1, <1>12 DEF TypeOK
<1>13. DriveServesHead'
  <2>1. HeadServed'
    BY <1>7 DEF HeadServed, Idle, Request
  <2>2. WriteIsDirty'
    <3>1. CASE queue' = << >>
      BY <1>7, <3>1 DEF WriteIsDirty, Idle
    <3>2. CASE queue' # << >>
      <4>1. Head(queue') # b /\ Head(queue') \in Bufs
        BY <1>4, <1>5, <3>2
      <4> QED
        BY <1>1, <1>7, <3>2, <4>1 DEF TypeOK, WriteIsDirty, Request
    <3> QED
      BY <3>1, <3>2
  <2>3. QueuedOnce'
    <3>1. ASSUME NEW i \in 1 .. Len(queue'), NEW j \in 1 .. Len(queue'), queue'[i] = queue'[j] PROVE i = j
      <4>1. i + 1 \in 1 .. Len(queue) /\ j + 1 \in 1 .. Len(queue) /\ queue[i + 1] = queue[j + 1]
        BY <1>3, <3>1
      <4>2. i + 1 = j + 1
        BY <4>1 DEF DriveServesHead
      <4> QED
        BY <1>3, <4>2
    <3> QED
      BY <3>1 DEF QueuedOnce
  <2>4. SleeperQueued'
    <3>1. ASSUME NEW q \in Procs, pc'[q] = "sleep" PROVE \E i \in 1 .. Len(queue') : queue'[i] = cur'[q]
      <4>1. PICK i \in 1 .. Len(queue) : queue[i] = cur[q]
        BY <1>12, <3>1 DEF DriveServesHead
      <4>2. i # 1
        BY <1>2, <1>12, <3>1, <4>1
      <4>3. i - 1 \in 1 .. Len(queue') /\ (i - 1) + 1 = i
        BY <1>3, <4>2
      <4>4. queue'[i - 1] = cur'[q]
        BY <1>1, <1>3, <4>1, <4>3
      <4> QED
        BY <4>3, <4>4
    <3> QED
      BY <3>1 DEF SleeperQueued
  <2>5. QueuedSleeps'
    <3>1. ASSUME NEW i \in 1 .. Len(queue')
          PROVE  \E q \in Procs : pc'[q] = "sleep" /\ cur'[q] = queue'[i] /\ holder'[queue'[i]] = q
      <4> i + 1 \in 1 .. Len(queue) /\ queue'[i] = queue[i + 1]
        BY <1>3
      <4>1. PICK q \in Procs : pc[q] = "sleep" /\ cur[q] = queue'[i] /\ holder[queue'[i]] = q
        BY DEF DriveServesHead
      <4>2. cur[q] # b
        BY <1>5, <4>1
      <4> QED
        BY <1>1, <4>1, <4>2
    <3> QED
      BY <3>1 DEF QueuedSleeps
  <2> QED
    BY <2>1, <2>2, <2>3, <2>4, <2>5 DEF DriveServesHead, HeadServed, WriteIsDirty, QueuedOnce, SleeperQueued, QueuedSleeps
<1>14. DataInv'
  <2>1. data'[b] = disk[blockno[b]] /\ flags'[b] = {"VALID"}
    <3>1. drive.write <=> "DIRTY" \in flags[b]
      BY <1>2 DEF DriveServesHead
    <3>2. IF drive.write THEN disk[blockno[b]] = data[b] ELSE drive.data = disk[blockno[b]]
      BY <1>1, <1>2 DEF DriveInv
    <3>3. data'[b] = IF "DIRTY" \in flags[b] THEN data[b] ELSE drive.data
      BY <1>1, <1>2 DEF TypeOK
    <3>4. flags'[b] = {"VALID"}
      BY <1>1, <1>2 DEF TypeOK
    <3> QED
      BY <3>1, <3>2, <3>3, <3>4
  <2>2. ASSUME NEW c \in Bufs, c # b PROVE flags'[c] = flags[c] /\ data'[c] = data[c]
    BY <1>1, <2>2 DEF TypeOK
  <2>3. ASSUME NEW c \in Bufs, c # b, flags[c] = {}, holder[c] # Nobody
        PROVE  pc'[holder[c]] \in {"iderw", "sleep"} /\ cur[holder[c]] = c
    BY <1>1, <2>3 DEF TypeOK, DataInv
  <2>4. blockno' = blockno /\ refcnt' = refcnt /\ holder' = holder /\ disk' = disk /\ cur' = cur
    BY <1>1
  <2>5. ASSUME NEW c \in Bufs, c # b
        PROVE  /\ flags'[c] # {} => "VALID" \in flags'[c]
               /\ flags'[c] # {} \/ refcnt'[c] > 0 => blockno'[c] \in Blocks
               /\ flags'[c] = {"VALID"} => data'[c] = disk'[blockno'[c]]
    BY <2>2, <2>4, <2>5 DEF DataInv
  <2>6. ASSUME NEW c \in Bufs
        PROVE  /\ flags'[c] # {} => "VALID" \in flags'[c]
               /\ flags'[c] # {} \/ refcnt'[c] > 0 => blockno'[c] \in Blocks
               /\ flags'[c] = {"VALID"} => data'[c] = disk'[blockno'[c]]
    BY <1>2, <2>1, <2>4, <2>5
  <2>7. ASSUME NEW c \in Bufs, flags'[c] = {}, holder'[c] # Nobody
        PROVE  pc'[holder'[c]] \in {"iderw", "sleep"} /\ cur'[holder'[c]] = c
    BY <2>1, <2>2, <2>3, <2>4, <2>7
  <2> QED
    BY <2>6, <2>7 DEF DataInv
<1>15. DriveInv'
  <2>1. CASE queue' = << >>
    BY <1>7, <2>1 DEF DriveInv, Idle
  <2>2. CASE queue' # << >>
    <3>1. Head(queue') # b /\ Head(queue') \in Bufs
      BY <1>4, <1>5, <2>2
    <3>2. data'[Head(queue')] = data[Head(queue')]
      BY <1>1, <3>1 DEF TypeOK
    <3> QED
      BY <1>7, <2>2, <3>1, <3>2 DEF DriveInv, Request
  <2> QED
    BY <2>1, <2>2
<1> QED
  BY <1>8, <1>9, <1>10, <1>11, <1>13, <1>14, <1>15

\* Every step keeps the invariant.
LEMMA NextKeeps == IInv /\ [Next]_vars => IInv'
<1> SUFFICES ASSUME IInv, [Next]_vars PROVE IInv'
  OBVIOUS
<1>1. CASE UNCHANGED vars
  <2> USE <1>1 DEF vars, cache, ide, IInv
  <2>1. TypeOK' /\ PlaceInv' /\ OneBufferPerBlock'
    BY DEF TypeOK, PlaceInv, OneBufferPerBlock
  <2>2. RefcntIsUsers' /\ DriveServesHead'
    BY DEF RefcntIsUsers, Users, DriveServesHead
  <2>3. DataInv' /\ DriveInv'
    BY DEF DataInv, DriveInv
  <2> QED
    BY <2>1, <2>2, <2>3
<1>2. ASSUME NEW p \in Procs, Continue(p) PROVE IInv'
  BY <1>2, LockKeeps, CountKeeps, QueueKeeps, WakeKeeps DEF Continue
<1>3. ASSUME NEW p \in Procs, Use(p) PROVE IInv'
  BY <1>3, HitKeeps, MissKeeps, PanicKeeps, ModifyKeeps, BwriteKeeps, UnlockKeeps DEF Use
<1> QED
  BY <1>1, <1>2, <1>3, DriveKeeps, InterruptKeeps DEF Next, Halted

-----------------------------------------------------------------------------
(* The theorems.                                                           *)

\* The strengthened invariant holds, whatever the numbers of buffers, blocks and processes.
THEOREM CacheInvariant == Spec => []IInv
<1> QED
  BY InitInv, NextKeeps, PTL DEF Spec

\* The state of bio.c and ide.c stays within its types.
THEOREM CacheTypeCorrect == Spec => []TypeOK
<1>1. IInv => TypeOK
  BY DEF IInv
<1> QED
  BY <1>1, CacheInvariant, PTL

\* A block never gets two buffers, whatever calls of bget run at the same time.
THEOREM CacheOneBufferPerBlock == Spec => []OneBufferPerBlock
<1>1. IInv => OneBufferPerBlock
  BY DEF IInv
<1> QED
  BY <1>1, CacheInvariant, PTL

\* refcnt counts exactly those who rely on the buffer keeping its block.
THEOREM CacheRefcntIsUsers == Spec => []RefcntIsUsers
<1>1. IInv => RefcntIsUsers
  BY DEF IInv
<1> QED
  BY <1>1, CacheInvariant, PTL

\* Drive, queue and sleepers agree: an interrupt completes the request it is for.
THEOREM CacheDriveServesHead == Spec => []DriveServesHead
<1>1. IInv => DriveServesHead
  BY DEF IInv
<1> QED
  BY <1>1, CacheInvariant, PTL

-----------------------------------------------------------------------------
(* The refinement.                                                         *)

\* What the abstract store sees of a buffer that is for a block.
Kept(b) == IF flags[b] # {} THEN data[b] ELSE disk[blockno[b]]
Shown(b) == IF Given(b) THEN data[b] ELSE NotRead

contents == [blk \in Blocks |-> Contents(blk)]
owner == [blk \in Blocks |-> Owner(blk)]
copy == [blk \in Blocks |-> Copy(blk)]

\* The mapping of a block is that of its buffer, or of the disk if it has none.
Mapped ==
  /\ \A b \in Bufs : blockno[b] \in Blocks =>
       /\ Contents(blockno[b]) = Kept(b)
       /\ Owner(blockno[b]) = holder[b]
       /\ Copy(blockno[b]) = Shown(b)
  /\ \A blk \in Blocks : (\A b \in Bufs : blockno[b] # blk) =>
       Contents(blk) = disk[blk] /\ Owner(blk) = Nobody /\ Copy(blk) = NotRead

\* One buffer per block makes the mapping a function of that buffer.
LEMMA MappedHolds == IInv => Mapped
<1> SUFFICES ASSUME IInv PROVE Mapped
  OBVIOUS
<1>1. ASSUME NEW b \in Bufs, blockno[b] \in Blocks
      PROVE  /\ Contents(blockno[b]) = Kept(b)
             /\ Owner(blockno[b]) = holder[b]
             /\ Copy(blockno[b]) = Shown(b)
  <2>1. Buffered(blockno[b]) = {b}
    BY <1>1, Constants DEF IInv, OneBufferPerBlock, Buffered
  <2>2. Contents(blockno[b]) = Kept(b)
    <3>1. flags[b] # {} => (CHOOSE c \in {b} : flags[c] # {}) = b
      OBVIOUS
    <3> QED
      BY <2>1, <3>1 DEF Contents, Kept
  <2>3. Owner(blockno[b]) = holder[b]
    <3>1. holder[b] # Nobody => (CHOOSE c \in {b} : holder[c] # Nobody) = b
      OBVIOUS
    <3> QED
      BY <2>1, <3>1 DEF Owner
  <2>4. Copy(blockno[b]) = Shown(b)
    <3>1. Given(b) => (CHOOSE c \in {b} : Given(c)) = b
      OBVIOUS
    <3> QED
      BY <2>1, <3>1 DEF Copy, Shown
  <2> QED
    BY <2>2, <2>3, <2>4
<1>2. ASSUME NEW blk \in Blocks, \A b \in Bufs : blockno[b] # blk
      PROVE  Contents(blk) = disk[blk] /\ Owner(blk) = Nobody /\ Copy(blk) = NotRead
  <2>1. Buffered(blk) = {}
    BY <1>2 DEF Buffered
  <2> QED
    BY <2>1 DEF Contents, Owner, Copy
<1> QED
  BY <1>1, <1>2 DEF Mapped

\* The same in the next state.
LEMMA MappedNext == IInv' => Mapped'
BY MappedHolds, PTL

\* A step that changes one buffer at most, and the disk only where it is buffered,
\* changes one block of the store at most.
LEMMA OneBlock ==
  ASSUME IInv, IInv', NEW b \in Bufs, blockno[b] \in Blocks, blockno' = blockno,
         \A blk \in Blocks : (\A c \in Bufs : blockno[c] # blk) => disk'[blk] = disk[blk],
         \A c \in Bufs : c # b /\ blockno[c] \in Blocks =>
            Kept(c)' = Kept(c) /\ holder'[c] = holder[c] /\ Shown(c)' = Shown(c)
  PROVE  /\ contents' = [contents EXCEPT ![blockno[b]] = Kept(b)']
         /\ owner' = [owner EXCEPT ![blockno[b]] = holder'[b]]
         /\ copy' = [copy EXCEPT ![blockno[b]] = Shown(b)']
         /\ contents[blockno[b]] = Kept(b) /\ owner[blockno[b]] = holder[b] /\ copy[blockno[b]] = Shown(b)
<1>1. Mapped /\ Mapped'
  BY MappedHolds, MappedNext
<1>2. ASSUME NEW blk \in Blocks, blk # blockno[b]
      PROVE  Contents(blk)' = Contents(blk) /\ Owner(blk)' = Owner(blk) /\ Copy(blk)' = Copy(blk)
  <2>1. CASE \A c \in Bufs : blockno[c] # blk
    BY <1>1, <2>1 DEF Mapped
  <2>2. CASE \E c \in Bufs : blockno[c] = blk
    <3>1. PICK c \in Bufs : blockno[c] = blk
      BY <2>2
    <3>2. c # b
      BY <1>2, <3>1
    <3>3. /\ Contents(blk) = Kept(c) /\ Owner(blk) = holder[c] /\ Copy(blk) = Shown(c)
      BY <1>1, <3>1 DEF Mapped
    <3>4. /\ Contents(blk)' = Kept(c)' /\ Owner(blk)' = holder'[c] /\ Copy(blk)' = Shown(c)'
      BY <1>1, <3>1 DEF Mapped
    <3> QED
      BY <3>1, <3>2, <3>3, <3>4
  <2> QED
    BY <2>1, <2>2
<1>3. /\ Contents(blockno[b]) = Kept(b) /\ Owner(blockno[b]) = holder[b] /\ Copy(blockno[b]) = Shown(b)
      /\ Contents(blockno[b])' = Kept(b)' /\ Owner(blockno[b])' = holder'[b] /\ Copy(blockno[b])' = Shown(b)'
  BY <1>1 DEF Mapped
<1>4. \A blk \in Blocks : Contents(blk)' = IF blk = blockno[b] THEN Kept(b)' ELSE Contents(blk)
  BY <1>2, <1>3
<1>5. \A blk \in Blocks : Owner(blk)' = IF blk = blockno[b] THEN holder'[b] ELSE Owner(blk)
  BY <1>2, <1>3
<1>6. \A blk \in Blocks : Copy(blk)' = IF blk = blockno[b] THEN Shown(b)' ELSE Copy(blk)
  BY <1>2, <1>3
<1> QED
  BY <1>3, <1>4, <1>5, <1>6 DEF contents, owner, copy

\* A step that changes no buffer changes nothing of the store.
LEMMA NoBlockChanges ==
  ASSUME IInv, IInv', blockno' = blockno,
         \A blk \in Blocks : (\A c \in Bufs : blockno[c] # blk) => disk'[blk] = disk[blk],
         \A c \in Bufs : blockno[c] \in Blocks =>
            Kept(c)' = Kept(c) /\ holder'[c] = holder[c] /\ Shown(c)' = Shown(c)
  PROVE  UNCHANGED <<contents, owner, copy>>
<1>1. Mapped /\ Mapped'
  BY MappedHolds, MappedNext
<1>2. ASSUME NEW blk \in Blocks
      PROVE  Contents(blk)' = Contents(blk) /\ Owner(blk)' = Owner(blk) /\ Copy(blk)' = Copy(blk)
  <2>1. CASE \A c \in Bufs : blockno[c] # blk
    BY <1>1, <2>1 DEF Mapped
  <2>2. CASE \E c \in Bufs : blockno[c] = blk
    <3>1. PICK c \in Bufs : blockno[c] = blk
      BY <2>2
    <3>2. /\ Contents(blk) = Kept(c) /\ Owner(blk) = holder[c] /\ Copy(blk) = Shown(c)
      BY <1>1, <3>1 DEF Mapped
    <3>3. /\ Contents(blk)' = Kept(c)' /\ Owner(blk)' = holder'[c] /\ Copy(blk)' = Shown(c)'
      BY <1>1, <3>1 DEF Mapped
    <3> QED
      BY <3>1, <3>2, <3>3
  <2> QED
    BY <2>1, <2>2
<1> QED
  BY <1>2 DEF contents, owner, copy

\* At the start nothing is cached: the store is the disk.
LEMMA MapInit == Init => Store!Init
<1> SUFFICES ASSUME Init PROVE Store!Init
  OBVIOUS
<1>1. Mapped
  BY InitInv, MappedHolds
<1>2. \A blk \in Blocks, b \in Bufs : blockno[b] # blk
  BY Constants DEF Init
<1>3. \A blk \in Blocks : Contents(blk) = disk[blk] /\ Owner(blk) = Nobody /\ Copy(blk) = NotRead
  BY <1>1, <1>2 DEF Mapped
<1>4. disk \in [Blocks -> Values]
  BY DEF Init
<1> QED
  BY <1>3, <1>4 DEF Store!Init

-----------------------------------------------------------------------------
(* Each step of the cache is a step of the store, or none.                 *)

\* A hit changes nothing a caller can see.
LEMMA HitStutters ==
  ASSUME IInv, IInv', NEW p \in Procs, NEW blk \in Blocks, BgetHit(p, blk)
  PROVE  UNCHANGED <<contents, owner, copy>>
<1>1. /\ pc[p] = "user" /\ pc' = [pc EXCEPT ![p] = "bread"]
      /\ \E b : cur' = [cur EXCEPT ![p] = b]
      /\ blockno' = blockno /\ flags' = flags /\ data' = data /\ holder' = holder /\ disk' = disk
  BY DEF BgetHit, MayAsk, ide
<1>2. ASSUME NEW c \in Bufs PROVE Given(c)' = Given(c)
  BY <1>1, Constants DEF IInv, TypeOK, Given, InBread
<1>3. \A c \in Bufs : Kept(c)' = Kept(c) /\ Shown(c)' = Shown(c)
  BY <1>1, <1>2 DEF Kept, Shown
<1> QED
  BY <1>1, <1>3, NoBlockChanges

\* Nor does a miss: what the recycled buffer had is on the disk.
LEMMA MissStutters ==
  ASSUME IInv, IInv', NEW p \in Procs, NEW blk \in Blocks, BgetMiss(p, blk)
  PROVE  UNCHANGED <<contents, owner, copy>>
<1>1. PICK b \in Bufs :
        /\ Unused(b)
        /\ blockno' = [blockno EXCEPT ![b] = blk] /\ flags' = [flags EXCEPT ![b] = {}]
        /\ cur' = [cur EXCEPT ![p] = b]
  BY DEF BgetMiss, IInv, TypeOK
<1>2. /\ pc[p] = "user" /\ pc' = [pc EXCEPT ![p] = "bread"]
      /\ \A c \in Bufs : blockno[c] # blk
      /\ data' = data /\ holder' = holder /\ disk' = disk
  BY DEF BgetMiss, MayAsk, ide
<1>3. holder[b] = Nobody /\ refcnt[b] = 0
  BY <1>1, UnusedFree DEF Unused
<1>4. flags[b] # {} => flags[b] = {"VALID"}
  BY <1>1 DEF Unused, IInv, TypeOK, DataInv
<1>5. Mapped /\ Mapped'
  BY MappedHolds, MappedNext
<1>6. ASSUME NEW c \in Bufs, c # b
      PROVE  blockno'[c] = blockno[c] /\ Kept(c)' = Kept(c) /\ Shown(c)' = Shown(c)
  <2>1. flags'[c] = flags[c] /\ blockno'[c] = blockno[c]
    BY <1>1, <1>6 DEF IInv, TypeOK
  <2>2. Given(c)' = Given(c)
    BY <1>1, <1>2, <2>1, Constants DEF IInv, TypeOK, Given, InBread
  <2> QED
    BY <1>2, <2>1, <2>2 DEF Kept, Shown
<1>7. blockno'[b] = blk /\ Kept(b)' = disk[blk] /\ Shown(b)' = NotRead
  BY <1>1, <1>2, <1>3 DEF IInv, TypeOK, Kept, Shown, Given
<1>8. blockno[b] \in Blocks => Kept(b) = disk[blockno[b]] /\ Shown(b) = NotRead
  BY <1>3, <1>4 DEF IInv, DataInv, Kept, Shown, Given
<1>9. ASSUME NEW k \in Blocks
      PROVE  Contents(k)' = Contents(k) /\ Owner(k)' = Owner(k) /\ Copy(k)' = Copy(k)
  <2>1. CASE k = blk
    <3>1. Contents(k) = disk[k] /\ Owner(k) = Nobody /\ Copy(k) = NotRead
      BY <1>2, <1>5, <2>1 DEF Mapped
    <3>2. Contents(k)' = Kept(b)' /\ Owner(k)' = holder'[b] /\ Copy(k)' = Shown(b)'
      BY <1>5, <1>7, <2>1 DEF Mapped
    <3> QED
      BY <1>2, <1>3, <1>7, <2>1, <3>1, <3>2
  <2>2. CASE k # blk /\ \E c \in Bufs \ {b} : blockno[c] = k
    <3>1. PICK c \in Bufs \ {b} : blockno[c] = k
      BY <2>2
    <3>2. Contents(k) = Kept(c) /\ Owner(k) = holder[c] /\ Copy(k) = Shown(c)
      BY <1>5, <3>1 DEF Mapped
    <3>3. Contents(k)' = Kept(c)' /\ Owner(k)' = holder'[c] /\ Copy(k)' = Shown(c)'
      BY <1>5, <1>6, <3>1 DEF Mapped
    <3> QED
      BY <1>2, <1>6, <3>1, <3>2, <3>3
  <2>3. CASE k # blk /\ \A c \in Bufs \ {b} : blockno[c] # k
    <3>1. \A c \in Bufs : blockno'[c] # k
      BY <1>6, <1>7, <2>3
    <3>2. Contents(k)' = disk[k] /\ Owner(k)' = Nobody /\ Copy(k)' = NotRead
      BY <1>2, <1>5, <3>1 DEF Mapped
    <3>3. CASE blockno[b] = k
      BY <1>3, <1>5, <1>8, <3>2, <3>3 DEF Mapped
    <3>4. CASE blockno[b] # k
      BY <1>5, <2>3, <3>2, <3>4 DEF Mapped
    <3> QED
      BY <3>3, <3>4
  <2> QED
    BY <2>1, <2>2, <2>3
<1> QED
  BY <1>9 DEF contents, owner, copy

\* Nor do the count of brelse, the queueing and the waking of iderw.
LEMMA CountStutters ==
  ASSUME IInv, IInv', NEW p \in Procs, BrelseCounts(p) \/ IderwQueues(p) \/ IderwWakes(p)
  PROVE  UNCHANGED <<contents, owner, copy>>
<1>1. blockno' = blockno /\ flags' = flags /\ data' = data /\ holder' = holder /\ disk' = disk
  BY DEF BrelseCounts, IderwQueues, IderwWakes, cache, ide
<1>2. ASSUME NEW c \in Bufs, holder[c] # Nobody, flags[c] = {} PROVE InBread(holder[c], c)' /\ InBread(holder[c], c)
  <2>1. /\ holder[c] \in Procs
        /\ pc[holder[c]] \in {"iderw", "sleep"} /\ cur[holder[c]] = c
        /\ pc'[holder'[c]] \in {"iderw", "sleep"} /\ cur'[holder'[c]] = c
    BY <1>1, <1>2 DEF IInv, TypeOK, DataInv
  <2> QED
    BY <1>1, <2>1 DEF InBread
<1>3. ASSUME NEW c \in Bufs PROVE Given(c)' = Given(c)
  BY <1>1, <1>2 DEF Given
<1>4. \A c \in Bufs : Kept(c)' = Kept(c) /\ Shown(c)' = Shown(c)
  BY <1>1, <1>3 DEF Kept, Shown
<1> QED
  BY <1>1, <1>4, NoBlockChanges

\* Nor does the drive: it writes what the buffer has already.
LEMMA DriveStutters ==
  ASSUME IInv, IInv', DriveDone PROVE UNCHANGED <<contents, owner, copy>>
<1> DEFINE b == drive.buf
<1>1. /\ b # NoBuf /\ b \in Bufs /\ blockno[b] \in Blocks
      /\ blockno' = blockno /\ flags' = flags /\ data' = data /\ holder' = holder /\ pc' = pc /\ cur' = cur
  BY DriveBuf DEF DriveDone, cache
<1>2. \/ drive.write /\ disk' = [disk EXCEPT ![blockno[b]] = drive.data]
      \/ disk' = disk
  BY DEF DriveDone
<1>3. drive.write => flags[b] # {}
  BY <1>1 DEF IInv, DriveServesHead
<1> HIDE DEF b
<1>4. \A blk \in Blocks : (\A c \in Bufs : blockno[c] # blk) => disk'[blk] = disk[blk]
  BY <1>1, <1>2 DEF IInv, TypeOK
<1>5. ASSUME NEW c \in Bufs, blockno[c] \in Blocks PROVE Kept(c)' = Kept(c)
  <2>1. CASE flags[c] # {}
    BY <1>1, <2>1 DEF Kept
  <2>2. CASE flags[c] = {}
    <3>1. drive.write => blockno[c] # blockno[b]
      BY <1>1, <1>3, <1>5, <2>2, Constants DEF IInv, OneBufferPerBlock
    <3>2. disk'[blockno[c]] = disk[blockno[c]]
      BY <1>1, <1>2, <1>5, <3>1 DEF IInv, TypeOK
    <3> QED
      BY <1>1, <2>2, <3>2 DEF Kept
  <2> QED
    BY <2>1, <2>2
<1>6. \A c \in Bufs : Shown(c)' = Shown(c)
  BY <1>1 DEF Shown, Given, InBread
<1> QED
  BY <1>1, <1>4, <1>5, <1>6, NoBlockChanges

\* bread gets the lock, with the data or still to read it.
LEMMA LockTakes ==
  ASSUME IInv, IInv', NEW p \in Procs, BreadLocks(p)
  PROVE  \E blk \in Blocks : Store!Take(p, blk)
<1>0. cur[p] \in Bufs
  BY DEF IInv, TypeOK, PlaceInv, BreadLocks
<1> PICK b \in Bufs : cur[p] = b
  BY <1>0
<1>1. /\ pc[p] = "bread" /\ holder[b] = Nobody /\ holder' = [holder EXCEPT ![b] = p]
      /\ blockno' = blockno /\ flags' = flags /\ data' = data /\ disk' = disk
  BY DEF BreadLocks, cache, ide
<1>2. \/ /\ "VALID" \in flags[b]
         /\ pc' = [pc EXCEPT ![p] = "user"] /\ cur' = [cur EXCEPT ![p] = NoBuf]
      \/ /\ "VALID" \notin flags[b]
         /\ pc' = [pc EXCEPT ![p] = "iderw"] /\ cur' = cur
  BY DEF BreadLocks
<1>3. refcnt[b] > 0
  <2>1. p \in Users(b)
    BY <1>1 DEF Users
  <2>2. refcnt[b] = Cardinality(Users(b)) /\ Cardinality(Users(b)) \in Nat /\ Cardinality(Users(b)) # 0
    BY <1>1, <2>1, Counting, UsersAreProcs DEF IInv, RefcntIsUsers
  <2> QED
    BY <2>2
<1>4. blockno[b] \in Blocks
  BY <1>1, <1>3 DEF IInv, DataInv
<1>5. cur[p] = b
  OBVIOUS
<1>6. ASSUME NEW c \in Bufs, c # b
      PROVE  holder'[c] = holder[c] /\ Kept(c)' = Kept(c) /\ Shown(c)' = Shown(c)
  <2>1. holder'[c] = holder[c]
    BY <1>1, <1>6 DEF IInv, TypeOK
  <2>2. Given(c)' = Given(c)
    BY <1>1, <1>2, <1>5, <1>6, <2>1, Constants DEF IInv, TypeOK, Given, InBread
  <2> QED
    BY <1>1, <2>1, <2>2 DEF Kept, Shown
<1>7. holder'[b] = p /\ Kept(b)' = Kept(b)
  BY <1>1 DEF IInv, TypeOK, Kept
<1>8. Shown(b) = NotRead
  BY <1>1 DEF Shown, Given
<1>9. Shown(b)' = NotRead \/ Shown(b)' = Kept(b)
  <2>1. CASE flags[b] = {}
    <3>1. InBread(p, b)'
      BY <1>1, <1>2, <1>5, <2>1 DEF IInv, TypeOK, InBread
    <3> QED
      BY <1>1, <1>7, <2>1, <3>1 DEF Shown, Given
  <2>2. CASE flags[b] # {}
    BY <1>1, <2>2 DEF Shown, Kept
  <2> QED
    BY <2>1, <2>2
<1>10. /\ contents' = [contents EXCEPT ![blockno[b]] = Kept(b)']
       /\ owner' = [owner EXCEPT ![blockno[b]] = holder'[b]]
       /\ copy' = [copy EXCEPT ![blockno[b]] = Shown(b)']
       /\ contents[blockno[b]] = Kept(b) /\ owner[blockno[b]] = holder[b] /\ copy[blockno[b]] = Shown(b)
  BY <1>1, <1>4, <1>6, OneBlock
<1>11. contents' = contents /\ owner' = [owner EXCEPT ![blockno[b]] = p] /\ owner[blockno[b]] = Nobody
  BY <1>1, <1>7, <1>10 DEF contents
<1>12. copy' \in {copy, [copy EXCEPT ![blockno[b]] = contents[blockno[b]]]}
  <2>1. CASE Shown(b)' = NotRead
    <3>1. copy[blockno[b]] = NotRead /\ copy' = [copy EXCEPT ![blockno[b]] = NotRead]
      BY <1>8, <1>10, <2>1
    <3>2. copy' = copy
      BY <3>1 DEF copy
    <3> QED
      BY <3>2
  <2>2. CASE Shown(b)' = Kept(b)
    BY <1>10, <2>2
  <2> QED
    BY <1>9, <2>1, <2>2
<1> QED
  BY <1>4, <1>11, <1>12 DEF Store!Take, contents, owner, copy

\* What its holder changes, in the cache or for the disk.
LEMMA ModifyWrites ==
  ASSUME IInv, IInv', NEW p \in Procs, NEW b \in Bufs, NEW v \in Values,
         Modify(p, b, v) \/ Bwrite(p, b, v)
  PROVE  \E blk \in Blocks : Store!Write(p, blk, v)
<1>1. /\ pc[p] = "user" /\ holder[b] = p
      /\ data' = [data EXCEPT ![b] = v] /\ flags' = [flags EXCEPT ![b] = @ \cup {"DIRTY"}]
      /\ blockno' = blockno /\ holder' = holder /\ disk' = disk
      /\ \A q \in Procs \ {p} : pc'[q] = pc[q] /\ cur'[q] = cur[q]
      /\ \A c \in Bufs \ {b} : cur[p] # c /\ cur'[p] # c
  BY Constants DEF Modify, Bwrite, cache, ide, IInv, TypeOK, PlaceInv
<1>2. "VALID" \in flags[b] /\ flags[b] # {} /\ blockno[b] \in Blocks
  BY <1>1, HeldHasData
<1>3. flags'[b] # {} /\ data'[b] = v
  BY <1>1 DEF IInv, TypeOK
<1>4. ASSUME NEW c \in Bufs, c # b
      PROVE  holder'[c] = holder[c] /\ Kept(c)' = Kept(c) /\ Shown(c)' = Shown(c)
  <2>1. flags'[c] = flags[c] /\ data'[c] = data[c]
    BY <1>1, <1>4 DEF IInv, TypeOK
  <2>2. holder[c] # Nobody => InBread(holder[c], c)' = InBread(holder[c], c)
    BY <1>1, <1>4 DEF IInv, TypeOK, InBread
  <2>3. Given(c)' = Given(c)
    BY <1>1, <2>1, <2>2 DEF Given
  <2> QED
    BY <1>1, <2>1, <2>3 DEF Kept, Shown
<1>5. Kept(b)' = v /\ Shown(b)' = v /\ holder'[b] = p /\ Shown(b) = data[b]
  BY <1>1, <1>2, <1>3, Constants DEF Kept, Shown, Given
<1>6. data[b] # NotRead
  BY Constants DEF IInv, TypeOK
<1>7. /\ contents' = [contents EXCEPT ![blockno[b]] = Kept(b)']
      /\ owner' = [owner EXCEPT ![blockno[b]] = holder'[b]]
      /\ copy' = [copy EXCEPT ![blockno[b]] = Shown(b)']
      /\ contents[blockno[b]] = Kept(b) /\ owner[blockno[b]] = holder[b] /\ copy[blockno[b]] = Shown(b)
  BY <1>1, <1>2, <1>4, OneBlock
<1>8. owner' = owner
  BY <1>1, <1>7 DEF owner
<1> QED
  BY ZenonT(60), <1>1, <1>2, <1>5, <1>6, <1>7, <1>8 DEF Store!Write, contents, owner, copy

\* brelse gives the block to the next one.
LEMMA UnlockReleases ==
  ASSUME IInv, IInv', NEW p \in Procs, NEW b \in Bufs, BrelseUnlocks(p, b)
  PROVE  \E blk \in Blocks : Store!Release(p, blk)
<1>1. /\ pc[p] = "user" /\ holder[b] = p /\ holder' = [holder EXCEPT ![b] = Nobody]
      /\ pc' = [pc EXCEPT ![p] = "brelse"] /\ cur' = [cur EXCEPT ![p] = b]
      /\ blockno' = blockno /\ data' = data /\ flags' = flags /\ disk' = disk
  BY DEF BrelseUnlocks, cache, ide
<1>2. flags[b] # {} /\ blockno[b] \in Blocks
  BY <1>1, HeldHasData
<1>3. ASSUME NEW c \in Bufs, c # b
      PROVE  holder'[c] = holder[c] /\ Kept(c)' = Kept(c) /\ Shown(c)' = Shown(c)
  <2>1. holder'[c] = holder[c]
    BY <1>1, <1>3 DEF IInv, TypeOK
  <2>2. holder[c] # Nobody => InBread(holder[c], c)' = InBread(holder[c], c)
    BY <1>1, <1>3, Constants DEF IInv, TypeOK, InBread
  <2>3. Given(c)' = Given(c)
    BY <1>1, <2>1, <2>2 DEF Given
  <2> QED
    BY <1>1, <2>1, <2>3 DEF Kept, Shown
<1>4. Kept(b)' = Kept(b) /\ holder'[b] = Nobody /\ Shown(b)' = NotRead
  BY <1>1 DEF IInv, TypeOK, Kept, Shown, Given
<1>5. Shown(b) = data[b] /\ data[b] # NotRead
  BY <1>1, <1>2, Constants DEF IInv, TypeOK, Shown, Given
<1>6. /\ contents' = [contents EXCEPT ![blockno[b]] = Kept(b)']
      /\ owner' = [owner EXCEPT ![blockno[b]] = holder'[b]]
      /\ copy' = [copy EXCEPT ![blockno[b]] = Shown(b)']
      /\ contents[blockno[b]] = Kept(b) /\ owner[blockno[b]] = holder[b] /\ copy[blockno[b]] = Shown(b)
  BY <1>1, <1>2, <1>3, OneBlock
<1>7. contents' = contents
  BY <1>4, <1>6 DEF contents
<1> QED
  BY <1>1, <1>2, <1>4, <1>5, <1>6, <1>7 DEF Store!Release, contents, owner, copy

\* The interrupt gives a reader its data; for a write nothing is left to do.
LEMMA InterruptReads ==
  ASSUME IInv, IInv', Ideintr
  PROVE  \/ UNCHANGED <<contents, owner, copy>>
         \/ \E p \in Procs, blk \in Blocks : Store!Read(p, blk)
<1>0. Head(queue) \in Bufs
  BY DriveBuf DEF Ideintr, IInv, DriveInv
<1> PICK b \in Bufs : Head(queue) = b
  BY <1>0
<1>1. /\ drive.done /\ queue # << >>
      /\ data' = IF "DIRTY" \in flags[b] THEN data ELSE [data EXCEPT ![b] = drive.data]
      /\ flags' = [flags EXCEPT ![b] = {"VALID"}]
      /\ pc' = [p \in Procs |-> IF pc[p] = "sleep" /\ cur[p] = b THEN "woken" ELSE pc[p]]
      /\ blockno' = blockno /\ holder' = holder /\ disk' = disk /\ cur' = cur
  BY DEF Ideintr, cache
<1>2. /\ drive.buf = b /\ b \in Bufs /\ blockno[b] \in Blocks
      /\ \E p \in Procs : pc[p] = "sleep" /\ cur[p] = b /\ holder[b] = p
  BY <1>1, DriveBuf DEF IInv, DriveInv
<1>3. PICK p \in Procs : pc[p] = "sleep" /\ cur[p] = b /\ holder[b] = p
  BY <1>2
<1>4. ASSUME NEW c \in Bufs, c # b
      PROVE  holder'[c] = holder[c] /\ Kept(c)' = Kept(c) /\ Shown(c)' = Shown(c)
  <2>1. flags'[c] = flags[c] /\ data'[c] = data[c]
    BY <1>1, <1>4 DEF IInv, TypeOK
  <2>2. holder[c] # Nobody => InBread(holder[c], c)' = InBread(holder[c], c)
    BY <1>1, <1>4 DEF IInv, TypeOK, InBread
  <2>3. Given(c)' = Given(c)
    BY <1>1, <2>1, <2>2 DEF Given
  <2> QED
    BY <1>1, <2>1, <2>3 DEF Kept, Shown
<1>5. flags'[b] = {"VALID"} /\ data'[b] = disk[blockno[b]]
  <2>1. flags'[b] = {"VALID"}
    BY <1>1 DEF IInv, TypeOK
  <2>2. data'[b] = disk'[blockno'[b]]
    BY <2>1 DEF IInv, DataInv
  <2> QED
    BY <1>1, <2>1, <2>2
<1>6. Kept(b)' = data'[b] /\ Shown(b)' = data'[b] /\ holder'[b] = p
  BY <1>1, <1>3, <1>5, Constants DEF Kept, Shown, Given
<1>7. /\ contents' = [contents EXCEPT ![blockno[b]] = Kept(b)']
      /\ owner' = [owner EXCEPT ![blockno[b]] = holder'[b]]
      /\ copy' = [copy EXCEPT ![blockno[b]] = Shown(b)']
      /\ contents[blockno[b]] = Kept(b) /\ owner[blockno[b]] = holder[b] /\ copy[blockno[b]] = Shown(b)
  BY <1>1, <1>2, <1>4, OneBlock
<1>8. owner' = owner
  BY <1>1, <1>7 DEF owner
<1>9. CASE flags[b] = {}
  <2>1. Kept(b) = disk[blockno[b]] /\ Kept(b)' = Kept(b)
    BY <1>5, <1>6, <1>9 DEF Kept
  <2>2. Shown(b) = NotRead
    BY <1>3, <1>9 DEF Shown, Given, InBread
  <2>3. contents' = contents
    BY <1>7, <2>1 DEF contents
  <2>4. owner[blockno[b]] = p /\ copy[blockno[b]] = NotRead
    BY <1>3, <1>7, <2>2
  <2>5. copy' = [copy EXCEPT ![blockno[b]] = contents[blockno[b]]]
    <3>1. Shown(b)' = contents[blockno[b]]
      BY <1>6, <1>7, <2>1
    <3> QED
      BY <1>7, <3>1
  <2>6. Store!Read(p, blockno[b])
    BY <1>8, <2>3, <2>4, <2>5 DEF Store!Read, contents, owner, copy
  <2> QED
    BY <1>2, <2>6
<1>10. CASE flags[b] # {}
  <2>1. data'[b] = data[b]
    <3>1. CASE "DIRTY" \in flags[b]
      BY <1>1, <3>1
    <3>2. CASE "DIRTY" \notin flags[b]
      <4>1. flags[b] = {"VALID"}
        BY <1>10, <3>2 DEF IInv, TypeOK, DataInv
      <4> QED
        BY <1>2, <1>5, <4>1 DEF IInv, DataInv
    <3> QED
      BY <3>1, <3>2
  <2>2. Kept(b) = data[b] /\ Shown(b) = data[b]
    BY <1>3, <1>10, Constants DEF Kept, Shown, Given
  <2>3. contents' = contents /\ copy' = copy
    BY <1>6, <1>7, <2>1, <2>2 DEF contents, copy
  <2> QED
    BY <1>8, <2>3
<1> QED
  BY <1>9, <1>10

\* Every step of the cache is a step of the store or none.
LEMMA StoreStep ==
  IInv /\ IInv' /\ [Next]_vars => [Store!Next]_(<<contents, owner, copy>>)
<1> SUFFICES ASSUME IInv, IInv', [Next]_vars
             PROVE  [Store!Next]_(<<contents, owner, copy>>)
  OBVIOUS
<1>1. CASE UNCHANGED vars
  <2>1. blockno' = blockno /\ flags' = flags /\ data' = data /\ holder' = holder /\ disk' = disk /\ pc' = pc /\ cur' = cur
    BY <1>1 DEF vars
  <2>2. \A c \in Bufs : Kept(c)' = Kept(c) /\ Shown(c)' = Shown(c)
    BY <2>1 DEF Kept, Shown, Given, InBread
  <2> QED
    BY <2>1, <2>2, NoBlockChanges
<1>2. ASSUME NEW p \in Procs, NEW blk \in Blocks, BgetPanic(p, blk) PROVE UNCHANGED <<contents, owner, copy>>
  <2>1. blockno' = blockno /\ flags' = flags /\ data' = data /\ holder' = holder /\ disk' = disk /\ pc' = pc /\ cur' = cur
    BY <1>2 DEF BgetPanic, cache, ide
  <2>2. \A c \in Bufs : Kept(c)' = Kept(c) /\ Shown(c)' = Shown(c)
    BY <2>1 DEF Kept, Shown, Given, InBread
  <2> QED
    BY <2>1, <2>2, NoBlockChanges
<1>3. ASSUME NEW p \in Procs, Continue(p) PROVE [Store!Next]_(<<contents, owner, copy>>)
  BY <1>3, LockTakes, CountStutters DEF Continue, Store!Next
<1>4. ASSUME NEW p \in Procs, Use(p) PROVE [Store!Next]_(<<contents, owner, copy>>)
  <2>1. CASE \E blk \in Blocks : BgetHit(p, blk) \/ BgetMiss(p, blk) \/ BgetPanic(p, blk)
    BY <1>2, <2>1, HitStutters, MissStutters
  <2>2. CASE \E b \in Bufs, v \in Values : Modify(p, b, v) \/ Bwrite(p, b, v)
    BY <2>2, ModifyWrites DEF Store!Next
  <2>3. CASE \E b \in Bufs : BrelseUnlocks(p, b)
    BY <2>3, UnlockReleases DEF Store!Next
  <2> QED
    BY <1>4, <2>1, <2>2, <2>3 DEF Use
<1>5. ASSUME DriveDone \/ Ideintr PROVE [Store!Next]_(<<contents, owner, copy>>)
  BY <1>5, DriveStutters, InterruptReads DEF Store!Next
<1> QED
  BY <1>1, <1>3, <1>4, <1>5 DEF Next, Halted

\* Reads, delayed writes, recycling and the queue of the drive implement the
\* store, for any number of processes, blocks and buffers.
THEOREM CacheIsBlockStore == Spec => ImplementsBlockStore
<1>1. IInv /\ IInv' /\ [Next]_vars => [Store!Next]_(Store!svars)
  BY StoreStep DEF Store!svars, contents, owner, copy
<1> QED
  BY MapInit, <1>1, CacheInvariant, PTL DEF Spec, ImplementsBlockStore, Store!Spec

-----------------------------------------------------------------------------
(* Numbers and remainders                                                  *)

\* Division with remainder.
LEMMA Remainder ==
  ASSUME NEW m \in Nat, m > 0
  PROVE  /\ \A x \in Int : x % m \in 0 .. m - 1 /\ x \div m \in Int /\ x % m = x - m * (x \div m)
         /\ \A x \in 0 .. m - 1 : x % m = x
         /\ \A q \in Int : (m * q) % m = 0
<1>1. ASSUME NEW x \in Int PROVE x % m \in 0 .. m - 1 /\ x \div m \in Int
  OBVIOUS
<1>2. ASSUME NEW x \in Int PROVE x % m = x - m * (x \div m)
  BY <1>1
<1>4. ASSUME NEW x \in 0 .. m - 1 PROVE x % m = x
  OBVIOUS
<1>5. ASSUME NEW q \in Int PROVE (m * q) % m = 0
  OBVIOUS
<1> QED
  BY <1>1, <1>2, <1>4, <1>5

\* A remainder is the only number of its range that differs by a multiple.
LEMMA RemainderUnique ==
  ASSUME NEW m \in Nat, m > 0, NEW t \in 0 .. m - 1, NEW q \in Int
  PROVE  (m * q + t) % m = t
OBVIOUS

\* A multiple more changes no remainder.
LEMMA ModShift ==
  ASSUME NEW m \in Nat, m > 0, NEW x \in Int, NEW q \in Int
  PROVE  (x + m * q) % m = x % m
<1>1. PICK d \in Int, t \in 0 .. m - 1 : t = x % m /\ t = x - m * d
  BY Remainder
<1>2. m * (d + q) = m * d + m * q
  OBVIOUS
<1>3. x + m * q = m * (d + q) + t
  BY <1>1, <1>2
<1>4. (m * (d + q) + t) % m = t
  BY RemainderUnique
<1> QED
  BY <1>1, <1>3, <1>4

\* uint arithmetic: the remainder may be taken before a sum or after it.
LEMMA ModAdd ==
  ASSUME NEW m \in Nat, m > 0, NEW x \in Int, NEW z \in Int
  PROVE  ((x % m) + z) % m = (x + z) % m
<1>1. PICK t \in Int, d \in Int : t = x % m /\ t = x - m * d
  BY Remainder
<1>2. PICK u \in Int : u = t + z
  OBVIOUS
<1>3. u + m * d = x + z
  BY <1>1, <1>2
<1>4. (u + m * d) % m = u % m
  BY ModShift
<1> QED
  BY <1>1, <1>2, <1>3, <1>4, Zenon

\* A remainder modulo a multiple of p has the remainder of the number modulo p.
LEMMA ModOfMod ==
  ASSUME NEW m \in Nat, m > 0, NEW p \in Nat, p > 0, NEW c \in Int, m = p * c, NEW x \in Int
  PROVE  (x % m) % p = x % p
<1>1. PICK d \in Int, t \in 0 .. m - 1 : t = x % m /\ t = x - m * d
  BY Remainder
<1>2. PICK v \in Int : v = c * d
  OBVIOUS
<1>3. m * d = p * v
  BY <1>2
<1>4. t + p * v = x
  BY <1>1, <1>3
<1>5. t \in Int
  OBVIOUS
<1>6. (t + p * v) % p = t % p
  BY <1>5, ModShift
<1> QED
  BY <1>1, <1>4, <1>6

\* Numbers less than m apart have different remainders.
LEMMA PlacesDiffer ==
  ASSUME NEW m \in Nat, m > 0, NEW j \in Int, NEW k \in Int, j % m = k % m, k - j < m, j - k < m
  PROVE  j = k
<1>1. PICK d \in Int, t \in 0 .. m - 1 : t = j % m /\ t = j - m * d
  BY Remainder
<1>2. PICK v \in Int, s \in 0 .. m - 1 : s = k % m /\ s = k - m * v
  BY Remainder
<1>3. m * (d - v) = m * d - m * v
  OBVIOUS
<1>4. PICK q \in Int : q = d - v
  OBVIOUS
<1>5. j - k = m * q
  BY <1>1, <1>2, <1>3, <1>4
<1>6. q < 1
  <2>1. q >= 1 => m * q >= m
    OBVIOUS
  <2> QED
    BY <1>5, <2>1
<1>7. q > -1
  <2>1. q <= -1 => m * q <= -m
    OBVIOUS
  <2> QED
    BY <1>5, <2>1
<1>8. q = 0
  BY <1>6, <1>7
<1> QED
  BY <1>5, <1>8

-----------------------------------------------------------------------------
Uints == 0 .. UintRange - 1

\* The counters are in order and no more than the ring apart.
RingInv ==
  /\ buf \in [0 .. INPUT_BUF - 1 -> Chars]
  /\ r \in Uints /\ w \in Uints /\ e \in Uints
  /\ Minus(w, r) + Minus(e, w) <= INPUT_BUF

\* What is being typed has no end of a line in it.
EditInv == \A i \in 1 .. Minus(e, w) : At(Plus(w, i - 1)) \notin {Newline, EndOfFile}

\* What a call has got and still wants is what it asked for.
CallInv ==
  /\ stage \in [Readers -> {"user", "called", "waits", "asleep", "woken", "return"}]
  /\ n \in [Readers -> Nat]
  /\ got \in [Readers -> Seq(Chars)]
  /\ \A p \in Readers : stage[p] \in {"called", "waits", "asleep", "woken"} => Len(got[p]) + n[p] \in ReadSizes

CInv == RingInv /\ EditInv /\ CallInv /\ SleepsWithReason

-----------------------------------------------------------------------------
(* The counters.                                                           *)

\* What the assumption says of the sizes.
LEMMA Sizes ==
  /\ INPUT_BUF \in Nat /\ INPUT_BUF > 0 /\ UintRange \in Nat /\ UintRange > INPUT_BUF
  /\ \E c \in Int : UintRange = INPUT_BUF * c
<1>1. /\ INPUT_BUF \in Nat /\ INPUT_BUF > 0 /\ UintRange \in Nat /\ UintRange > INPUT_BUF
      /\ UintRange % INPUT_BUF = 0
  BY RingAssumption
<1>2. /\ UintRange \div INPUT_BUF \in Int
      /\ UintRange % INPUT_BUF = UintRange - INPUT_BUF * (UintRange \div INPUT_BUF)
  BY <1>1, Remainder
<1>3. UintRange = INPUT_BUF * (UintRange \div INPUT_BUF)
  BY <1>1, <1>2
<1> QED
  BY <1>1, <1>2, <1>3

\* Sums and differences of uints are uints.
LEMMA InRange ==
  ASSUME NEW x \in Int, NEW k \in Int
  PROVE  Plus(x, k) \in Uints /\ Minus(x, k) \in Uints
BY Sizes, Remainder DEF Plus, Minus, Uints

\* Going on from a place, and back.
LEMMA Ahead ==
  ASSUME NEW x \in Uints, NEW j \in Int, NEW k \in Int
  PROVE  /\ Plus(Plus(x, j), k) = Plus(x, j + k)
         /\ Minus(Plus(x, j), k) = Plus(x, j - k)
         /\ j - k \in Uints => Minus(Plus(x, j), Plus(x, k)) = j - k
         /\ Plus(x, 0) = x
<1>1. UintRange \in Nat /\ UintRange > 0 /\ x \in Int /\ x + j \in Int /\ x + k \in Int /\ -k \in Int
  BY Sizes DEF Uints
<1>2. Plus(Plus(x, j), k) = Plus(x, j + k)
  <2>1. (((x + j) % UintRange) + k) % UintRange = ((x + j) + k) % UintRange
    BY <1>1, ModAdd
  <2>2. (x + j) + k = x + (j + k)
    BY <1>1
  <2> QED
    BY <2>1, <2>2 DEF Plus
<1>3. Minus(Plus(x, j), k) = Plus(x, j - k)
  <2>1. (((x + j) % UintRange) + (-k)) % UintRange = ((x + j) + (-k)) % UintRange
    BY <1>1, ModAdd
  <2>2. (x + j) + (-k) = x + (j - k) /\ ((x + j) % UintRange) + (-k) = ((x + j) % UintRange) - k
    BY <1>1, Remainder
  <2> QED
    BY <2>1, <2>2 DEF Plus, Minus
<1>4. ASSUME j - k \in Uints PROVE Minus(Plus(x, j), Plus(x, k)) = j - k
  <2>0. PICK y \in Int, z \in Int : y = x + j /\ z = x + k
    BY <1>1
  <2>a. \A t \in Int : t % UintRange \in Int /\ t \div UintRange \in Int /\ t % UintRange = t - UintRange * (t \div UintRange)
    BY <1>1, Remainder
  <2>1. PICK a \in Int, c \in Int : a = y % UintRange /\ a = y - UintRange * c
    BY <2>a
  <2>2. PICK b \in Int, d \in Int : b = z % UintRange /\ b = z - UintRange * d
    BY <2>a
  <2>3. PICK q \in Int : q = d - c
    OBVIOUS
  <2>4. UintRange * q = UintRange * d - UintRange * c
    BY <1>1, <2>3
  <2>5. a - b = UintRange * q + (j - k)
    BY <1>1, <2>0, <2>1, <2>2, <2>4
  <2>6. (UintRange * q + (j - k)) % UintRange = j - k
    BY <1>1, <1>4, RemainderUnique DEF Uints
  <2> QED
    BY <2>0, <2>1, <2>2, <2>5, <2>6 DEF Plus, Minus
<1>5. Plus(x, 0) = x
  BY <1>1, Remainder DEF Plus, Uints
<1> QED
  BY <1>2, <1>3, <1>4, <1>5

\* The place of one counter by its distance from another.
LEMMA Distance ==
  ASSUME NEW x \in Uints, NEW y \in Uints
  PROVE  y = Plus(x, Minus(y, x)) /\ (Minus(y, x) = 0 <=> y = x)
<1>1. UintRange \in Nat /\ UintRange > 0 /\ x \in Int /\ y \in Int
  BY Sizes DEF Uints
<1>2. (((y - x) % UintRange) + x) % UintRange = ((y - x) + x) % UintRange
  <2>1. PICK d \in Int : d = y - x
    BY <1>1
  <2>2. ((d % UintRange) + x) % UintRange = (d + x) % UintRange
    BY <1>1, ModAdd
  <2> QED
    BY <2>1, <2>2
<1>3. (y - x) + x = y /\ y % UintRange = y
  BY <1>1, Remainder DEF Uints
<1>4. (y - x) % UintRange \in Int
  BY <1>1, Remainder
<1>5. y = Plus(x, Minus(y, x))
  BY <1>1, <1>2, <1>3, <1>4 DEF Plus, Minus
<1>6. y = x => Minus(y, x) = 0
  BY <1>1, Remainder DEF Minus
<1> QED
  BY <1>5, <1>6, Ahead

\* The counters of a ring in order, from the readers' place.
LEMMA Order ==
  ASSUME NEW x \in Uints, NEW y \in Uints, NEW z \in Uints,
         Minus(y, x) + Minus(z, y) <= INPUT_BUF
  PROVE  /\ Minus(y, x) \in Nat /\ Minus(z, y) \in Nat
         /\ y = Plus(x, Minus(y, x))
         /\ z = Plus(x, Minus(y, x) + Minus(z, y))
         /\ Minus(z, x) = Minus(y, x) + Minus(z, y)
<1>1. PICK a \in Nat, b \in Nat : a = Minus(y, x) /\ b = Minus(z, y) /\ a + b <= INPUT_BUF
  <2>1. Minus(y, x) \in Uints /\ Minus(z, y) \in Uints
    BY InRange DEF Uints
  <2> QED
    BY <2>1 DEF Uints
<1>2. y = Plus(x, a) /\ z = Plus(y, b)
  BY <1>1, Distance
<1>3. z = Plus(x, a + b)
  BY <1>2, Ahead
<1>4. a + b \in Uints /\ (a + b) - 0 = a + b
  BY <1>1, Sizes DEF Uints
<1>5. Minus(Plus(x, a + b), Plus(x, 0)) = a + b
  BY <1>4, Ahead
<1> QED
  BY <1>1, <1>2, <1>3, <1>5, Ahead

\* A place of the ring does not depend on whether the counter has wrapped, and
\* places less than the ring apart differ.
LEMMA Slots ==
  ASSUME NEW x \in Uints, NEW j \in Int, NEW k \in Int
  PROVE  /\ Slot(Plus(x, j)) \in 0 .. INPUT_BUF - 1
         /\ j - k < INPUT_BUF /\ k - j < INPUT_BUF /\ j # k => Slot(Plus(x, j)) # Slot(Plus(x, k))
<1>1. /\ UintRange \in Nat /\ UintRange > 0 /\ INPUT_BUF \in Nat /\ INPUT_BUF > 0
      /\ x + j \in Int /\ x + k \in Int
  BY Sizes DEF Uints
<1>2. PICK c \in Int : UintRange = INPUT_BUF * c
  BY Sizes
<1>3. /\ Slot(Plus(x, j)) = (x + j) % INPUT_BUF
      /\ Slot(Plus(x, k)) = (x + k) % INPUT_BUF
  BY <1>1, <1>2, ModOfMod DEF Slot, Plus
<1>4. ASSUME j - k < INPUT_BUF, k - j < INPUT_BUF, j # k, Slot(Plus(x, j)) = Slot(Plus(x, k)) PROVE FALSE
  <2>1. (x + k) - (x + j) < INPUT_BUF /\ (x + j) - (x + k) < INPUT_BUF
    BY <1>1, <1>4 DEF Uints
  <2>2. x + j = x + k
    BY <1>1, <1>3, <1>4, <2>1, PlacesDiffer
  <2> QED
    BY <1>4, <2>2 DEF Uints
<1>5. Slot(Plus(x, j)) \in 0 .. INPUT_BUF - 1
  BY <1>1, <1>3, Remainder
<1> QED
  BY <1>4, <1>5
-----------------------------------------------------------------------------
(* The ring as two sequences, the ended lines and the line being typed.    *)

Ready == Line(Available)
Edit == [i \in 1 .. Minus(e, w) |-> At(Plus(w, i - 1))]

Ring == [0 .. INPUT_BUF - 1 -> Chars]

\* The character q places after x, and those from j places after it to h.
CharAt(bf, x, q) == bf[Slot(Plus(x, q))]
Seg(bf, x, j, h) == [i \in 1 .. h - j |-> CharAt(bf, x, j + i - 1)]

\* Every place holds a character.
LEMMA CharIs ==
  ASSUME NEW bf \in Ring, NEW x \in Uints, NEW q \in Int
  PROVE  CharAt(bf, x, q) \in Chars
BY Slots DEF CharAt, Ring

\* A piece of the ring is a sequence of characters.
LEMMA SegIs ==
  ASSUME NEW bf \in Ring, NEW x \in Uints, NEW j \in Nat, NEW h \in Nat, j <= h
  PROVE  /\ Seg(bf, x, j, h) \in Seq(Chars) /\ Len(Seg(bf, x, j, h)) = h - j
         /\ \A i \in 1 .. h - j : Seg(bf, x, j, h)[i] = CharAt(bf, x, j + i - 1)
<1>1. \A i \in 1 .. h - j : CharAt(bf, x, j + i - 1) \in Chars
  BY CharIs
<1>2. h - j \in Nat
  OBVIOUS
<1>3. Seg(bf, x, j, h) \in [1 .. h - j -> Chars]
  BY <1>1 DEF Seg
<1>4. Seg(bf, x, j, h) \in Seq(Chars) /\ DOMAIN Seg(bf, x, j, h) = 1 .. h - j
  BY <1>2, <1>3
<1> QED
  BY <1>2, <1>4 DEF Seg

\* No characters.
LEMMA SegEmpty ==
  ASSUME NEW bf, NEW x, NEW j \in Nat
  PROVE  Seg(bf, x, j, j) = << >>
BY DEF Seg

\* A character that is stored behind all others changes none of them.
LEMMA SegStore ==
  ASSUME NEW bf \in Ring, NEW x \in Uints, NEW d \in Nat, d < INPUT_BUF, NEW c \in Chars
  PROVE  \E new \in Ring :
           /\ new = [bf EXCEPT ![Slot(Plus(x, d))] = c]
           /\ CharAt(new, x, d) = c
           /\ \A q \in 0 .. d - 1 : CharAt(new, x, q) = CharAt(bf, x, q)
           /\ \A j \in Nat, h \in Nat : h <= d => Seg(new, x, j, h) = Seg(bf, x, j, h)
<1>1. Slot(Plus(x, d)) \in 0 .. INPUT_BUF - 1
  BY Slots
<1>2. PICK new \in Ring : new = [bf EXCEPT ![Slot(Plus(x, d))] = c]
  BY <1>1 DEF Ring
<1>3. CharAt(new, x, d) = c
  BY <1>1, <1>2 DEF CharAt, Ring
<1>4. ASSUME NEW q \in 0 .. d - 1 PROVE CharAt(new, x, q) = CharAt(bf, x, q)
  <2>1. q - d < INPUT_BUF /\ d - q < INPUT_BUF /\ q # d
    BY <1>4, Sizes
  <2>2. /\ Slot(Plus(x, q)) \in 0 .. INPUT_BUF - 1
        /\ Slot(Plus(x, q)) # Slot(Plus(x, d))
    BY <2>1, Slots
  <2> QED
    BY <1>2, <2>2 DEF CharAt, Ring
<1>5. ASSUME NEW j \in Nat, NEW h \in Nat, h <= d PROVE Seg(new, x, j, h) = Seg(bf, x, j, h)
  <2>1. \A i \in 1 .. h - j : j + i - 1 \in 0 .. d - 1
    BY <1>5
  <2> QED
    BY <1>4, <2>1 DEF Seg
<1> QED
  BY <1>2, <1>3, <1>4, <1>5

\* Two pieces put together, and taken apart.
LEMMA SegJoin ==
  ASSUME NEW bf \in Ring, NEW x \in Uints, NEW j \in Nat, NEW h \in Nat, NEW l \in Nat,
         j <= h, h <= l
  PROVE  /\ Seg(bf, x, j, h) \o Seg(bf, x, h, l) = Seg(bf, x, j, l)
         /\ SubSeq(Seg(bf, x, j, l), 1, h - j) = Seg(bf, x, j, h)
         /\ SubSeq(Seg(bf, x, j, l), h - j + 1, l - j) = Seg(bf, x, h, l)
<1> DEFINE one == Seg(bf, x, j, h)
           two == Seg(bf, x, h, l)
           all == Seg(bf, x, j, l)
           F(q) == CharAt(bf, x, q)
<1>0. PICK k \in Nat, o \in Nat : k = h - j /\ o = l - h /\ k + o = l - j /\ j <= l
  OBVIOUS
<1>1. one \in Seq(Chars) /\ Len(one) = k /\ \A i \in 1 .. k : one[i] = F(j + i - 1)
  BY <1>0, SegIs
<1>2. two \in Seq(Chars) /\ Len(two) = o /\ \A i \in 1 .. o : two[i] = F(h + i - 1)
  BY <1>0, SegIs
<1>3. all \in Seq(Chars) /\ Len(all) = k + o /\ \A i \in 1 .. k + o : all[i] = F(j + i - 1)
  <2>1. all \in Seq(Chars) /\ Len(all) = l - j /\ \A i \in 1 .. l - j : all[i] = F(j + i - 1)
    BY <1>0, SegIs
  <2> HIDE DEF all, F
  <2> QED
    BY <1>0, <2>1
<1>6. \A i \in 1 .. o : h + i - 1 = j + (k + i) - 1 /\ k + i \in 1 .. k + o
  BY <1>0
<1>7. \A i \in 1 .. o : two[i] = all[k + i]
  BY <1>2, <1>3, <1>6
<1> HIDE DEF one, two, all, F
<1>10. one \o two = all
  <2>1. one \o two \in Seq(Chars) /\ Len(one \o two) = k + o
    BY <1>1, <1>2, ConcatProperties
  <2>2. \A i \in 1 .. k + o : (one \o two)[i] = IF i <= k THEN one[i] ELSE two[i - k]
    BY <1>1, <1>2, ConcatProperties
  <2>3. ASSUME NEW i \in 1 .. k + o, ~(i <= k) PROVE two[i - k] = all[i]
    <3>1. i - k \in 1 .. o /\ k + (i - k) = i
      BY <2>3
    <3> QED
      BY <3>1, <1>7
  <2>4. \A i \in 1 .. k : one[i] = all[i]
    BY <1>1, <1>3
  <2>5. \A i \in 1 .. k + o : i <= k => i \in 1 .. k
    OBVIOUS
  <2>6. \A i \in 1 .. k + o : (one \o two)[i] = all[i]
    BY <2>2, <2>3, <2>4, <2>5
  <2> QED
    BY <2>1, <2>6, <1>3, SeqEqual
<1>12. SubSeq(all, 1, k) = one
  BY <1>1, <1>3
<1>13. SubSeq(all, k + 1, k + o) = two
  <2>1. \A i \in k + 1 .. k + o : all[i] \in Chars
    BY <1>3, ElementOfSeq
  <2>2. /\ SubSeq(all, k + 1, k + o) \in Seq(Chars)
        /\ Len(SubSeq(all, k + 1, k + o)) = IF k + 1 <= k + o THEN k + o - (k + 1) + 1 ELSE 0
        /\ \A i \in 1 .. k + o - (k + 1) + 1 : SubSeq(all, k + 1, k + o)[i] = all[k + 1 + i - 1]
    BY ONLY k \in Nat, o \in Nat, <2>1, SubSeqProperties
  <2>3. Len(SubSeq(all, k + 1, k + o)) = o
    BY <2>2
  <2>4. ASSUME NEW i \in 1 .. o PROVE SubSeq(all, k + 1, k + o)[i] = two[i]
    <3>1. i \in 1 .. k + o - (k + 1) + 1 /\ k + 1 + i - 1 = k + i
      OBVIOUS
    <3> QED
      BY <1>7, <2>2, <3>1
  <2> QED
    BY <1>2, <2>2, <2>3, <2>4, SeqEqual
<1> QED
  BY <1>0, <1>10, <1>12, <1>13 DEF one, two, all, F

\* The first part of a joined segment.
LEMMA SegPrefix ==
  ASSUME NEW bf \in Ring, NEW x \in Uints, NEW j \in Nat, NEW h \in Nat, NEW l \in Nat,
         j <= h, h <= l
  PROVE  SubSeq(Seg(bf, x, j, l), 1, h - j) = Seg(bf, x, j, h)
BY SegJoin

\* The last part of a joined segment.
LEMMA SegSuffix ==
  ASSUME NEW bf \in Ring, NEW x \in Uints, NEW j \in Nat, NEW h \in Nat, NEW l \in Nat,
         j <= h, h <= l
  PROVE  SubSeq(Seg(bf, x, j, l), h - j + 1, l - j) = Seg(bf, x, h, l)
<1>1. PICK all, two : all = Seg(bf, x, j, l) /\ two = Seg(bf, x, h, l)
  OBVIOUS
<1>2. SubSeq(all, h - j + 1, l - j) = two
  BY ONLY ZenonT(60), <1>1, bf \in Ring, x \in Uints, j \in Nat, h \in Nat, l \in Nat, j <= h, h <= l, SegJoin
<1> QED
  BY <1>1, <1>2

\* The same from the readers' place.
LEMMA Prefix ==
  ASSUME NEW bf \in Ring, NEW x \in Uints, NEW k \in Nat, NEW l \in Nat, k <= l
  PROVE  /\ Seg(bf, x, 0, k) \in Seq(Chars)
         /\ Len(Seg(bf, x, 0, k)) = k
         /\ SubSeq(Seg(bf, x, 0, l), 1, k) = Seg(bf, x, 0, k)
         /\ SubSeq(Seg(bf, x, 0, l), k + 1, l) = Seg(bf, x, k, l)
<1>1. Seg(bf, x, 0, k) \in Seq(Chars)
  BY SegIs
<1>2. Len(Seg(bf, x, 0, k)) = k
  BY SegIs
<1>3. SubSeq(Seg(bf, x, 0, l), 1, k) = Seg(bf, x, 0, k)
  BY SegJoin
<1>4. SubSeq(Seg(bf, x, 0, l), k + 1, l) = Seg(bf, x, k, l)
  <2>1. 0 \in Nat /\ 0 <= k
    OBVIOUS
  <2>2. SubSeq(Seg(bf, x, 0, l), k - 0 + 1, l - 0) = Seg(bf, x, k, l)
    BY <2>1, SegSuffix, Zenon
  <2>3. k - 0 + 1 = k + 1 /\ l - 0 = l
    OBVIOUS
  <2> QED
    BY <2>2, <2>3, Zenon
<1> QED
  BY <1>1, <1>2, <1>3, <1>4

\* One character more.
LEMMA SegAppend ==
  ASSUME NEW bf \in Ring, NEW x \in Uints, NEW j \in Nat, NEW h \in Nat, NEW l \in Nat,
         j <= h, l = h + 1
  PROVE  Append(Seg(bf, x, j, h), CharAt(bf, x, h)) = Seg(bf, x, j, l)
<1> DEFINE one == Seg(bf, x, j, h)
           more == Seg(bf, x, j, l)
           F(q) == CharAt(bf, x, q)
<1>0. PICK k \in Nat : k = h - j /\ k + 1 = l - j
  OBVIOUS
<1>1. one \in Seq(Chars) /\ Len(one) = k /\ \A i \in 1 .. k : one[i] = F(j + i - 1)
  BY <1>0, SegIs
<1>3. more \in Seq(Chars) /\ Len(more) = k + 1 /\ \A i \in 1 .. k + 1 : more[i] = F(j + i - 1)
  BY <1>0, SegIs
<1>4. F(h) \in Chars
  BY CharIs
<1>5. more[k + 1] = F(h)
  <2>1. k + 1 \in 1 .. k + 1 /\ j + (k + 1) - 1 = h
    BY <1>0
  <2> QED
    BY <1>3, <2>1
<1> HIDE DEF one, more, F
<1> QED
  <2>1. Append(one, F(h)) = more
    BY <1>1, <1>3, <1>4, <1>5
  <2> QED
    BY <2>1 DEF one, more, F

\* What the invariant says of the ring.
LEMMA Shape ==
  ASSUME RingInv, EditInv
  PROVE  \E a \in Nat, s \in Nat :
           /\ a = Minus(w, r) /\ s = Minus(e, r) /\ a <= s /\ s - a = Minus(e, w) /\ s <= INPUT_BUF
           /\ w = Plus(r, a) /\ e = Plus(r, s)
           /\ a = 0 <=> r = w
           /\ s = a <=> e = w
           /\ Ready = Seg(buf, r, 0, a) /\ Edit = Seg(buf, r, a, s)
           /\ \A q \in a .. s - 1 : CharAt(buf, r, q) \notin {Newline, EndOfFile}
<1>1. PICK a \in Nat, b \in Nat :
        /\ a = Minus(w, r) /\ b = Minus(e, w) /\ a + b = Minus(e, r) /\ a + b <= INPUT_BUF
        /\ w = Plus(r, a) /\ e = Plus(r, a + b)
  BY Order DEF RingInv
<1>2. (a = 0 <=> r = w) /\ (b = 0 <=> e = w)
  BY <1>1, Distance DEF RingInv
<1>3. Ready = Seg(buf, r, 0, a)
  <2>1. \A i \in 1 .. a : 0 + i - 1 = i - 1
    OBVIOUS
  <2> QED
    BY <1>1, <2>1 DEF Ready, Line, Available, Seg, At, CharAt
<1>4. PICK s \in Nat : s = a + b /\ a <= s /\ b = s - a
  OBVIOUS
<1>5. \A i \in 1 .. b : At(Plus(w, i - 1)) = CharAt(buf, r, a + i - 1)
  <2>1. ASSUME NEW i \in 1 .. b PROVE At(Plus(w, i - 1)) = CharAt(buf, r, a + i - 1)
    <3>1. PICK u \in Int, v \in Int : u = i - 1 /\ v = a + i - 1 /\ v = a + u
      OBVIOUS
    <3>2. Plus(Plus(r, a), u) = Plus(r, v)
      BY <3>1, Ahead DEF RingInv
    <3> QED
      BY <1>1, <3>1, <3>2 DEF At, CharAt
  <2> QED
    BY <2>1
<1>6. Edit = Seg(buf, r, a, s)
  BY <1>1, <1>4, <1>5 DEF Edit, Seg
<1>7. ASSUME NEW q \in a .. s - 1 PROVE CharAt(buf, r, q) \notin {Newline, EndOfFile}
  <2>1. PICK i \in 1 .. b : q = a + i - 1
    <3>1. q - a + 1 \in 1 .. b /\ q = a + (q - a + 1) - 1
      BY <1>4
    <3> QED
      BY <3>1
  <2> QED
    BY <1>1, <1>5, <2>1 DEF EditInv
<1> QED
  BY <1>1, <1>2, <1>3, <1>4, <1>6, <1>7

\* And what it takes to have it again after a step that leaves the readers c,
\* the ended lines a and typing s places after x.
LEMMA ShapeNext ==
  ASSUME NEW bf \in Ring, NEW x \in Uints, NEW c \in Nat, NEW a \in Nat, NEW s \in Nat,
         c <= a, a <= s, s - c <= INPUT_BUF,
         buf' = bf, r' = Plus(x, c), w' = Plus(x, a), e' = Plus(x, s),
         \A q \in a .. s - 1 : CharAt(bf, x, q) \notin {Newline, EndOfFile}
  PROVE  /\ RingInv' /\ EditInv'
         /\ Ready' = Seg(bf, x, c, a) /\ Edit' = Seg(bf, x, a, s)
         /\ r' = w' <=> a = c
<1>1. a - c \in Uints /\ s - a \in Uints /\ a \in Int /\ s \in Int /\ c \in Int
  BY Sizes DEF Uints
<1>2. Minus(Plus(x, a), Plus(x, c)) = a - c
  BY <1>1, Ahead
<1>3. Minus(Plus(x, s), Plus(x, a)) = s - a
  BY <1>1, Ahead
<1>5. Plus(x, c) \in Uints /\ Plus(x, a) \in Uints /\ Plus(x, s) \in Uints
  BY <1>1, InRange DEF Uints
<1>6. RingInv'
  BY <1>2, <1>3, <1>5 DEF RingInv, Ring
<1>7. ASSUME NEW d \in Nat, NEW i \in Nat PROVE bf[Slot(Plus(Plus(x, d), i - 1))] = CharAt(bf, x, d + i - 1)
  <2>1. PICK u \in Int, v \in Int : u = i - 1 /\ v = d + i - 1 /\ v = d + u
    OBVIOUS
  <2>2. Plus(Plus(x, d), u) = Plus(x, v)
    BY <2>1, Ahead
  <2> QED
    BY <2>1, <2>2 DEF CharAt
<1>8. Ready' = Seg(bf, x, c, a)
  BY <1>2, <1>7 DEF Ready, Line, Available, Seg, At
<1>9. Edit' = Seg(bf, x, a, s)
  BY <1>3, <1>7 DEF Edit, Seg, At
<1>10. EditInv'
  <2>1. ASSUME NEW i \in 1 .. s - a PROVE At(Plus(w, i - 1))' \notin {Newline, EndOfFile}
    <3>1. At(Plus(w, i - 1))' = CharAt(bf, x, a + i - 1)
      BY <1>7 DEF At
    <3>2. a + i - 1 \in a .. s - 1
      OBVIOUS
    <3> QED
      BY <3>1, <3>2
  <2> QED
    BY <1>3, <2>1 DEF EditInv
<1>11. r' = w' <=> a = c
  <2>1. r' = w' <=> Minus(w', r') = 0
    BY <1>5, Distance
  <2> QED
    BY <1>2, <2>1
<1> QED
  BY <1>6, <1>8, <1>9, <1>10, <1>11

\* Places are told apart by their distance from the readers' place.
LEMMA SamePlace ==
  ASSUME NEW x \in Uints, NEW j \in Uints, NEW k \in Uints
  PROVE  Plus(x, j) = Plus(x, k) <=> j = k
<1>1. /\ j - 0 = j /\ k - 0 = k /\ 0 \in Int /\ j \in Int /\ k \in Int
  BY DEF Uints
<1>2. PICK z \in Int : z = 0
  OBVIOUS
<1>3. Minus(Plus(x, j), Plus(x, z)) = j
  BY ZenonT(60), <1>1, <1>2, Ahead
<1>4. Minus(Plus(x, k), Plus(x, z)) = k
  BY ZenonT(60), <1>1, <1>2, Ahead
<1> QED
  BY <1>3, <1>4

-----------------------------------------------------------------------------
(* Every step keeps the invariant and is a step of the queue of lines.     *)

\* A key: the character joins the line, or ends it and wakes who sleeps.
LEMMA TypeStep ==
  ASSUME CInv, NEW c \in Chars, TypeChar(c)
  PROVE  CInv' /\ Queue!Type(c)
<1>1. PICK a \in Nat, s \in Nat :
        /\ s = Minus(e, r) /\ a <= s /\ s <= INPUT_BUF
        /\ w = Plus(r, a) /\ e = Plus(r, s)
        /\ Ready = Seg(buf, r, 0, a) /\ Edit = Seg(buf, r, a, s)
        /\ \A q \in a .. s - 1 : CharAt(buf, r, q) \notin {Newline, EndOfFile}
  BY Shape DEF CInv
<1>2. r \in Uints /\ buf \in Ring
  BY DEF CInv, RingInv, Ring
<1>3. PICK t \in Nat : t = s + 1 /\ s < INPUT_BUF /\ t <= INPUT_BUF /\ a <= t
  BY <1>1, Sizes DEF TypeChar
<1>4. PICK bf \in Ring :
        /\ bf = [buf EXCEPT ![Slot(Plus(r, s))] = c]
        /\ CharAt(bf, r, s) = c
        /\ \A q \in 0 .. s - 1 : CharAt(bf, r, q) = CharAt(buf, r, q)
        /\ \A j \in Nat, h \in Nat : h <= s => Seg(bf, r, j, h) = Seg(buf, r, j, h)
  BY <1>2, <1>3, SegStore
<1>A. Seg(bf, r, 0, a) = Seg(buf, r, 0, a) /\ Seg(bf, r, a, s) = Seg(buf, r, a, s)
  <2>1. a <= s /\ s <= s /\ 0 \in Nat
    BY <1>1
  <2> QED
    BY <1>4, <2>1
<1>5. buf' = bf /\ r' = r /\ e' = Plus(r, t) /\ r' = Plus(r, 0)
  <2>1. Plus(Plus(r, s), 1) = Plus(r, t) /\ r = Plus(r, 0)
    BY <1>2, <1>3, Ahead
  <2>2. buf' = [buf EXCEPT ![Slot(Plus(r, s))] = c] /\ r' = r /\ e' = Plus(Plus(r, s), 1)
    BY <1>1 DEF TypeChar
  <2> QED
    BY <1>4, <2>1, <2>2
<1>6. Append(Edit, c) = Seg(bf, r, a, t)
  <2>1. a <= s /\ t = s + 1
    BY <1>1, <1>3
  <2>2. Append(Seg(bf, r, a, s), CharAt(bf, r, s)) = Seg(bf, r, a, t)
    BY <1>2, <2>1, SegAppend
  <2> QED
    BY <1>1, <1>4, <1>A, <2>2
<1>7. Ready \o Append(Edit, c) = Seg(bf, r, 0, t)
  <2>1. 0 <= a /\ a <= t
    BY <1>3
  <2>2. Seg(bf, r, 0, a) \o Seg(bf, r, a, t) = Seg(bf, r, 0, t)
    BY <1>2, <2>1, SegJoin
  <2> QED
    BY <1>1, <1>A, <1>6, <2>2
<1>8. e' = Plus(r, INPUT_BUF) <=> t = INPUT_BUF
  <2>1. t \in Uints /\ INPUT_BUF \in Uints
    BY <1>3, Sizes DEF Uints
  <2> QED
    BY <1>2, <1>5, <2>1, SamePlace
<1>9. Len(Ready) = a /\ Len(Edit) = s - a /\ Len(Append(Edit, c)) = t - a
  <2>1. 0 <= a /\ a <= s /\ a <= t
    BY <1>1, <1>3
  <2>2. Len(Seg(buf, r, 0, a)) = a
    BY <1>2, <2>1, SegIs
  <2>3. Len(Seg(buf, r, a, s)) = s - a
    BY <1>2, <2>1, SegIs
  <2>4. Len(Seg(bf, r, a, t)) = t - a
    BY <1>2, <2>1, SegIs
  <2> QED
    BY <1>1, <1>6, <2>2, <2>3, <2>4
<1>10. UNCHANGED <<got, n, killed>> /\ LockFree /\ Len(Ready) + Len(Edit) < INPUT_BUF
  BY <1>3, <1>9 DEF TypeChar, Key
<1>11. CASE c \in {Newline, EndOfFile} \/ e' = Plus(r, INPUT_BUF)
  <2>1. w' = e' /\ WakeReaders
    BY <1>11, <1>5 DEF TypeChar
  <2>2. \A q \in t .. t - 1 : CharAt(bf, r, q) \notin {Newline, EndOfFile}
    OBVIOUS
  <2>3. 0 <= t /\ t <= t /\ t - 0 <= INPUT_BUF
    BY <1>3
  <2>9. buf' = bf /\ r' = Plus(r, 0) /\ w' = Plus(r, t) /\ e' = Plus(r, t)
    BY <1>5, <2>1
  <2>4. /\ RingInv' /\ EditInv'
        /\ Ready' = Seg(bf, r, 0, t) /\ Edit' = Seg(bf, r, t, t)
    BY <1>2, <2>2, <2>3, <2>9, ShapeNext
  <2>5. CallInv' /\ SleepsWithReason'
    BY <1>10, <2>1 DEF CInv, CallInv, SleepsWithReason, WakeReaders, LockFree
  <2>6. Ready' = Ready \o Append(Edit, c) /\ Edit' = << >>
    BY <1>7, <2>4, SegEmpty
  <2>7. c \in {Newline, EndOfFile} \/ Len(Ready) + Len(Append(Edit, c)) = INPUT_BUF
    BY <1>8, <1>9, <1>11
  <2>8. Queue!Type(c)
    BY <1>10, <2>6, <2>7 DEF Queue!Type, Queue!Ends, Ready, Edit
  <2> QED
    BY <2>4, <2>5, <2>8 DEF CInv
<1>12. CASE ~(c \in {Newline, EndOfFile} \/ e' = Plus(r, INPUT_BUF))
  <2>1. w' = Plus(r, a) /\ w' = w /\ stage' = stage
    BY <1>1, <1>12, <1>5 DEF TypeChar
  <2>2. ASSUME NEW q \in a .. t - 1 PROVE CharAt(bf, r, q) \notin {Newline, EndOfFile}
    <3>1. (q \in a .. s - 1 /\ q \in 0 .. s - 1) \/ q = s
      BY <1>3
    <3> QED
      BY <1>1, <1>4, <1>12, <3>1
  <2>3. 0 <= a /\ a <= t /\ t - 0 <= INPUT_BUF
    BY <1>3
  <2>4. /\ RingInv' /\ EditInv'
        /\ Ready' = Seg(bf, r, 0, a) /\ Edit' = Seg(bf, r, a, t)
    <3>1. buf' = bf /\ r' = Plus(r, 0) /\ w' = Plus(r, a) /\ e' = Plus(r, t)
      BY <1>5, <2>1
    <3> QED
      BY <1>2, <2>2, <2>3, <3>1, ShapeNext
  <2>5. CallInv' /\ SleepsWithReason'
    BY <1>5, <1>10, <2>1 DEF CInv, CallInv, SleepsWithReason
  <2>6. Ready' = Ready /\ Edit' = Append(Edit, c)
    BY <1>1, <1>A, <1>6, <2>4
  <2>7. ~(c \in {Newline, EndOfFile} \/ Len(Ready) + Len(Append(Edit, c)) = INPUT_BUF)
    BY <1>8, <1>9, <1>12
  <2>8. Queue!Type(c)
    BY <1>10, <2>6, <2>7 DEF Queue!Type, Queue!Ends, Ready, Edit
  <2> QED
    BY <2>4, <2>5, <2>8 DEF CInv
<1> QED
  BY <1>11, <1>12

\* Characters that go leave the ones before them, and the ended lines.
LEMMA EraseStep ==
  ASSUME CInv, NEW k \in 1 .. Minus(e, w), e' = Minus(e, k),
         UNCHANGED <<buf, r, w, stage, n, got, killed>>
  PROVE  /\ CInv' /\ UNCHANGED Ready
         /\ k \in 1 .. Len(Edit) /\ Len(Edit) = Minus(e, w) /\ Edit' = SubSeq(Edit, 1, Len(Edit) - k)
<1>1. PICK a \in Nat, s \in Nat :
        /\ a <= s /\ s - a = Minus(e, w) /\ s <= INPUT_BUF
        /\ w = Plus(r, a) /\ e = Plus(r, s)
        /\ Ready = Seg(buf, r, 0, a) /\ Edit = Seg(buf, r, a, s)
        /\ \A q \in a .. s - 1 : CharAt(buf, r, q) \notin {Newline, EndOfFile}
  BY Shape DEF CInv
<1>2. r \in Uints /\ buf \in Ring
  BY DEF CInv, RingInv, Ring
<1>3. PICK t \in Nat : t = s - k /\ a <= t /\ t <= s /\ t <= INPUT_BUF /\ k \in Int
  <2>1. k \in 1 .. s - a /\ s <= INPUT_BUF
    BY <1>1
  <2> QED
    BY <2>1, Sizes
<1>4. buf' = buf /\ r' = Plus(r, 0) /\ w' = Plus(r, a) /\ e' = Plus(r, t)
  BY <1>1, <1>2, <1>3, Ahead
<1>5. /\ RingInv' /\ EditInv'
      /\ Ready' = Seg(buf, r, 0, a) /\ Edit' = Seg(buf, r, a, t)
  <2>1. 0 <= a /\ t - 0 <= INPUT_BUF /\ \A q \in a .. t - 1 : q \in a .. s - 1
    BY <1>3
  <2> QED
    BY <1>1, <1>2, <1>3, <1>4, <2>1, ShapeNext
<1>6. CallInv' /\ SleepsWithReason'
  BY DEF CInv, CallInv, SleepsWithReason
<1>7. Len(Edit) = s - a /\ SubSeq(Edit, 1, t - a) = Seg(buf, r, a, t)
  <2>1. Len(Seg(buf, r, a, s)) = s - a
    <3>1. PICK all : all = Seg(buf, r, a, s)
      OBVIOUS
    <3>2. buf \in Ring /\ r \in Uints /\ a \in Nat /\ s \in Nat /\ a <= s
      BY <1>1, <1>2
    <3>3. Len(all) = s - a
      BY ONLY <3>1, <3>2, SegIs
    <3> QED
      BY <3>1, <3>3
  <2>2. SubSeq(Seg(buf, r, a, s), 1, t - a) = Seg(buf, r, a, t)
    <3>1. a <= t /\ t <= s
      BY <1>3
    <3> QED
      BY <1>2, <3>1, SegPrefix, Zenon
  <2> QED
    BY <1>1, <2>1, <2>2
<1>8. t - a = Len(Edit) - k
  BY <1>3, <1>7
<1> QED
  BY <1>1, <1>5, <1>6, <1>7, <1>8 DEF CInv

\* A backspace takes the last character of the line.
LEMMA BackspaceStep ==
  ASSUME CInv, Backspace
  PROVE  CInv' /\ Queue!Erase
<1>1. 1 \in 1 .. Minus(e, w)
  <2>1. Minus(e, w) \in Uints /\ Minus(e, w) # 0
    BY Distance, InRange DEF Backspace, CInv, RingInv, Uints
  <2> QED
    BY <2>1 DEF Uints
<1>2. e' = Minus(e, 1) /\ UNCHANGED <<buf, r, w, stage, n, got, killed>>
  BY DEF Backspace, Key
<1>3. /\ CInv' /\ UNCHANGED Ready
      /\ 1 \in 1 .. Len(Edit) /\ Edit' = SubSeq(Edit, 1, Len(Edit) - 1)
  BY <1>1, <1>2, EraseStep
<1>4. Edit # << >>
  BY <1>3
<1> QED
  BY <1>2, <1>3, <1>4 DEF Queue!Erase, Ready, Edit

\* C('U') takes all of the line: it never meets the end of another one.
LEMMA KillLineStep ==
  ASSUME CInv, KillLine
  PROVE  CInv' /\ Queue!KillLine
<1>1. PICK k \in 1 .. Minus(e, w) :
        /\ k = Minus(e, w) \/ At(Minus(e, k + 1)) = Newline
        /\ e' = Minus(e, k)
  BY DEF KillLine
<1>2. UNCHANGED <<buf, r, w, stage, n, got, killed>>
  BY DEF KillLine, Key
<1>3. PICK b \in Nat : b = Minus(e, w) /\ e = Plus(w, b) /\ w \in Uints
  <2>1. w \in Uints /\ e \in Uints
    BY DEF CInv, RingInv
  <2>2. Minus(e, w) \in Nat
    BY <2>1, InRange DEF Uints
  <2> QED
    BY <2>1, <2>2, Distance
<1>4. k = b
  <2>1. SUFFICES ASSUME k # b PROVE FALSE
    OBVIOUS
  <2>2. PICK i \in 1 .. b, j \in Int : j = k + 1 /\ i = b - j + 1 /\ b - j = i - 1
    <3>1. b - (k + 1) + 1 \in 1 .. b /\ k + 1 \in Int /\ b - (k + 1) = (b - (k + 1) + 1) - 1
      BY <1>1, <1>3, <2>1
    <3> QED
      BY <3>1
  <2>3. Minus(Plus(w, b), j) = Plus(w, b - j)
    BY <1>3, Ahead
  <2>4. At(Plus(w, i - 1)) # Newline
    BY <1>3 DEF CInv, EditInv
  <2> QED
    BY <1>1, <1>3, <2>1, <2>2, <2>3, <2>4
<1>5. /\ CInv' /\ UNCHANGED Ready
      /\ k \in 1 .. Len(Edit) /\ Len(Edit) = b /\ Edit' = SubSeq(Edit, 1, Len(Edit) - k)
  BY <1>1, <1>2, <1>3, EraseStep
<1>6. Edit' = << >>
  BY <1>4, <1>5
<1> QED
  BY <1>2, <1>5, <1>6 DEF Queue!KillLine, Ready, Edit

\* What a reader takes is the first k of the ended characters.
LEMMA TakeShape ==
  ASSUME CInv, NEW k \in Nat, k <= Available, r' = Plus(r, k), UNCHANGED <<buf, w, e>>
  PROVE  /\ RingInv' /\ EditInv'
         /\ UNCHANGED Edit
         /\ Ready \in Seq(Chars) /\ Len(Ready) = Available
         /\ Ready' = SubSeq(Ready, k + 1, Len(Ready))
         /\ Line(k) = SubSeq(Ready, 1, k) /\ Line(k) \in Seq(Chars) /\ Len(Line(k)) = k
         /\ \A i \in 1 .. k : Line(k)[i] = Ready[i]
         /\ r' = w' <=> k = Available
<1>1. PICK a \in Nat, s \in Nat :
        /\ a = Minus(w, r) /\ a <= s /\ s <= INPUT_BUF
        /\ w = Plus(r, a) /\ e = Plus(r, s)
        /\ Ready = Seg(buf, r, 0, a) /\ Edit = Seg(buf, r, a, s)
        /\ \A q \in a .. s - 1 : CharAt(buf, r, q) \notin {Newline, EndOfFile}
  BY Shape DEF CInv
<1>2. r \in Uints /\ buf \in Ring
  BY DEF CInv, RingInv, Ring
<1>3. k <= a /\ s - k <= INPUT_BUF /\ a = Available
  <2>1. a = Available
    BY <1>1 DEF Available
  <2>2. a <= s /\ s <= INPUT_BUF
    BY <1>1
  <2> QED
    BY <2>1, <2>2, Sizes
<1>4. /\ RingInv' /\ EditInv'
      /\ Ready' = Seg(buf, r, k, a) /\ Edit' = Seg(buf, r, a, s)
      /\ r' = w' <=> a = k
  <2>1. buf' = buf /\ r' = Plus(r, k) /\ w' = Plus(r, a) /\ e' = Plus(r, s)
    BY <1>1
  <2>2. a <= s /\ \A q \in a .. s - 1 : CharAt(buf, r, q) \notin {Newline, EndOfFile}
    BY <1>1
  <2> QED
    BY <1>2, <1>3, <2>1, <2>2, ShapeNext
<1>5. Line(k) = Seg(buf, r, 0, k)
  BY DEF Line, Seg, At, CharAt
<1>6. /\ Ready \in Seq(Chars) /\ Len(Ready) = a /\ Line(k) \in Seq(Chars) /\ Len(Line(k)) = k
      /\ SubSeq(Ready, 1, k) = Line(k) /\ SubSeq(Ready, k + 1, a) = Seg(buf, r, k, a)
  <2>1. k <= a /\ a <= a
    BY <1>3
  <2>2. /\ Seg(buf, r, 0, a) \in Seq(Chars) /\ Len(Seg(buf, r, 0, a)) = a
    BY <1>2, <2>1, Prefix, Zenon
  <2>3. /\ Seg(buf, r, 0, k) \in Seq(Chars) /\ Len(Seg(buf, r, 0, k)) = k
        /\ SubSeq(Seg(buf, r, 0, a), 1, k) = Seg(buf, r, 0, k)
        /\ SubSeq(Seg(buf, r, 0, a), k + 1, a) = Seg(buf, r, k, a)
    BY <1>2, <2>1, Prefix, ZenonT(60)
  <2> QED
    BY <1>1, <1>5, <2>2, <2>3
<1>8. \A i \in 1 .. k : Line(k)[i] = Ready[i]
  <2>1. \A i \in 1 .. k : SubSeq(Ready, 1, k)[i] = Ready[i]
    BY <1>3, <1>6
  <2> QED
    BY <1>6, <2>1
<1> QED
  BY <1>1, <1>3, <1>4, <1>6, <1>8

\* So it is a step of the queue, if the characters before the last are plain.
LEMMA TakeStep ==
  ASSUME CInv, NEW p \in Readers, NEW k \in Nat, k <= Available, r' = Plus(r, k),
         UNCHANGED <<buf, w, e>>, got' = [got EXCEPT ![p] = @ \o Line(k)],
         \A i \in 1 .. k - 1 : Line(k)[i] \notin {Newline, EndOfFile},
         k > 0 => Line(k)[k] # EndOfFile
  PROVE  k \in 0 .. Len(Ready) /\ Queue!Take(p, k)
<1>1. /\ UNCHANGED Edit
      /\ Len(Ready) = Available
      /\ Ready' = SubSeq(Ready, k + 1, Len(Ready))
      /\ Line(k) = SubSeq(Ready, 1, k)
      /\ \A i \in 1 .. k : Line(k)[i] = Ready[i]
  BY TakeShape
<1>2. /\ \A i \in 1 .. k - 1 : Ready[i] \notin {Newline, EndOfFile}
      /\ k > 0 => Ready[k] # EndOfFile
  BY <1>1
<1>3. got' = [got EXCEPT ![p] = @ \o SubSeq(Ready, 1, k)]
  BY <1>1
<1>4. k \in 0 .. Len(Ready)
  BY <1>1
<1> QED
  BY <1>1, <1>2, <1>3, <1>4 DEF Queue!Take, Queue!Ends, Ready, Edit

\* Nobody sleeps while there is something to take.
LEMMA NobodySleeps ==
  ASSUME CInv, Available # 0
  PROVE  \A p \in Readers : stage[p] \notin {"waits", "asleep"}
<1>1. r # w
  BY Distance DEF CInv, RingInv, Available
<1> QED
  BY <1>1 DEF CInv, SleepsWithReason

\* A read that ends with a line or a full buffer.
LEMMA ReadEndsStep ==
  ASSUME CInv, NEW p \in Readers, ReadEnds(p)
  PROVE  CInv' /\ \E k \in 0 .. Len(Ready) : Queue!Take(p, k)
<1>0. Available \in Nat
  BY InRange DEF Available, CInv, RingInv, Uints
<1>1. PICK k \in 1 .. Available :
        /\ PlainBefore(k) /\ k <= n[p]
        /\ Line(k)[k] # EndOfFile
        /\ r' = Plus(r, k)
        /\ n' = [n EXCEPT ![p] = @ - k]
        /\ got' = [got EXCEPT ![p] = @ \o Line(k)]
        /\ Returns(p, Len(got[p]) + k)
  BY DEF ReadEnds
<1>2. k \in Nat /\ k <= Available /\ UNCHANGED <<buf, w, e, killed>>
  BY <1>0 DEF ReadEnds
<1>3. RingInv' /\ EditInv' /\ Line(k) \in Seq(Chars)
  BY <1>1, <1>2, TakeShape
<1>4. k \in 0 .. Len(Ready) /\ Queue!Take(p, k)
  BY <1>1, <1>2, TakeStep DEF PlainBefore
<1>5. stage' = [stage EXCEPT ![p] = "return"]
  BY <1>1 DEF Returns
<1>6. n' \in [Readers -> Nat] /\ got' \in [Readers -> Seq(Chars)]
  <2>1. n \in [Readers -> Nat] /\ got \in [Readers -> Seq(Chars)]
    BY DEF CInv, CallInv
  <2>2. n[p] - k \in Nat
    BY <1>1, <1>2, <2>1
  <2>3. got[p] \o Line(k) \in Seq(Chars)
    BY <1>3, <2>1
  <2> QED
    BY <1>1, <2>1, <2>2, <2>3
<1>7. CallInv' /\ SleepsWithReason'
  <2>1. \A q \in Readers : stage[q] \notin {"waits", "asleep"}
    BY <1>0, <1>1, NobodySleeps
  <2>2. \A q \in Readers : stage'[q] \notin {"waits", "asleep"}
    BY <1>5, <2>1 DEF CInv, CallInv
  <2>3. ASSUME NEW q \in Readers, stage'[q] \in {"called", "waits", "asleep", "woken"}
        PROVE  stage[q] \in {"called", "waits", "asleep", "woken"} /\ got'[q] = got[q] /\ n'[q] = n[q]
    BY <1>1, <1>5, <2>3 DEF CInv, CallInv
  <2> QED
    BY <1>5, <1>6, <2>2, <2>3 DEF CInv, CallInv, SleepsWithReason
<1> QED
  BY <1>3, <1>4, <1>7 DEF CInv

\* A read that meets an end of file: with bytes it leaves it there, without it
\* takes just that.
LEMMA ReadMeetsEndStep ==
  ASSUME CInv, NEW p \in Readers, ReadMeetsEnd(p)
  PROVE  CInv' /\ (Queue!MeetsEnd(p) \/ \E k \in 0 .. Len(Ready) : Queue!Take(p, k))
<1>0. Available \in Nat
  BY InRange DEF Available, CInv, RingInv, Uints
<1> DEFINE bytes(k) == SubSeq(Line(k), 1, k - 1)
<1>1. PICK k \in 1 .. Available :
        /\ PlainBefore(k) /\ k <= n[p]
        /\ Line(k)[k] = EndOfFile
        /\ r' = IF got[p] \o bytes(k) = << >> THEN Plus(r, k) ELSE Plus(r, k - 1)
        /\ got' = [got EXCEPT ![p] = @ \o bytes(k)]
        /\ n' = [n EXCEPT ![p] = @ - (k - 1)]
        /\ Returns(p, Len(got[p]) + k - 1)
  BY DEF ReadMeetsEnd
<1>2. PICK j \in Nat : j = k - 1 /\ j <= Available /\ k \in Nat /\ k <= Available
  BY <1>0
<1>3. UNCHANGED <<buf, w, e, killed>>
  BY DEF ReadMeetsEnd
<1>4. n \in [Readers -> Nat] /\ got \in [Readers -> Seq(Chars)] /\ got[p] \in Seq(Chars)
  BY DEF CInv, CallInv
<1>5. /\ bytes(k) = Line(j) /\ Line(j) \in Seq(Chars) /\ Len(Line(j)) = j
      /\ \A i \in 1 .. j : Line(j)[i] = Line(k)[i]
  <2>1. bytes(k) = Line(j)
    <3>1. DOMAIN Line(k) = 1 .. k /\ \A i \in 1 .. k : Line(k)[i] = At(Plus(r, i - 1))
      BY DEF Line
    <3>2. j = k - 1 /\ SubSeq(Line(k), 1, k - 1) = [i \in 1 .. j |-> Line(k)[i]]
      BY <1>2
    <3>3. \A i \in 1 .. j : i \in 1 .. k
      BY <1>2
    <3> QED
      BY <3>1, <3>2, <3>3 DEF Line
  <2>2. \A i \in 1 .. j : Line(j)[i] = Line(k)[i]
    BY <1>2 DEF Line
  <2>3. \A i \in 1 .. j : At(Plus(r, i - 1)) \in Chars
    <3>1. r \in Uints /\ buf \in Ring /\ \A i \in 1 .. j : i - 1 \in Int
      BY DEF CInv, RingInv, Ring
    <3>2. \A i \in Int : At(Plus(r, i)) \in Chars
      BY <3>1, CharIs DEF CharAt, At
    <3> QED
      BY <3>1, <3>2
  <2> QED
    BY <2>1, <2>2, <2>3 DEF Line
<1> HIDE DEF bytes
<1>6. stage' = [stage EXCEPT ![p] = "return"]
  BY <1>1 DEF Returns
<1>7. n' \in [Readers -> Nat] /\ got' \in [Readers -> Seq(Chars)]
  <2>1. n[p] - (k - 1) \in Nat /\ got[p] \o bytes(k) \in Seq(Chars)
    BY <1>1, <1>2, <1>4, <1>5
  <2> QED
    BY <1>1, <1>4, <2>1
<1>8. CallInv' /\ SleepsWithReason'
  <2>1. \A q \in Readers : stage[q] \notin {"waits", "asleep"}
    BY <1>0, <1>1, NobodySleeps
  <2>2. \A q \in Readers : stage'[q] \notin {"waits", "asleep"}
    BY <1>6, <2>1 DEF CInv, CallInv
  <2>3. ASSUME NEW q \in Readers, stage'[q] \in {"called", "waits", "asleep", "woken"}
        PROVE  stage[q] \in {"called", "waits", "asleep", "woken"} /\ got'[q] = got[q] /\ n'[q] = n[q]
    BY <1>1, <1>6, <2>3 DEF CInv, CallInv
  <2> QED
    BY <1>6, <1>7, <2>2, <2>3 DEF CInv, CallInv, SleepsWithReason
<1>9. CASE got[p] \o bytes(k) = << >>
  <2>1. got[p] = << >> /\ j = 0 /\ k = 1 /\ got' = got
    <3>1. got[p] = << >> /\ Line(j) = << >>
      BY <1>4, <1>5, <1>9, ConcatEmptySeq
    <3>2. j = 0
      BY <1>5, <3>1
    <3> QED
      BY <1>1, <1>2, <1>4, <1>9, <3>1, <3>2
  <2>2. r' = Plus(r, k)
    BY <1>1, <1>9
  <2>3. /\ RingInv' /\ EditInv' /\ UNCHANGED Edit
        /\ Ready \in Seq(Chars) /\ Len(Ready) = Available
        /\ Ready' = SubSeq(Ready, k + 1, Len(Ready))
        /\ \A i \in 1 .. k : Line(k)[i] = Ready[i]
    BY <1>2, <1>3, <2>2, TakeShape
  <2>4. Ready # << >> /\ Head(Ready) = EndOfFile /\ Ready' = Tail(Ready)
    BY <1>0, <1>1, <2>1, <2>3
  <2>5. Queue!MeetsEnd(p)
    BY <2>1, <2>3, <2>4 DEF Queue!MeetsEnd, Ready, Edit
  <2> QED
    BY <1>8, <2>3, <2>5 DEF CInv
<1>10. CASE got[p] \o bytes(k) # << >>
  <2>1. r' = Plus(r, j) /\ got' = [got EXCEPT ![p] = @ \o Line(j)]
    BY <1>1, <1>2, <1>5, <1>10
  <2>2. RingInv' /\ EditInv'
    BY <1>2, <1>3, <2>1, TakeShape
  <2>3. \A i \in 1 .. j : Line(j)[i] \notin {Newline, EndOfFile}
    BY <1>1, <1>2, <1>5 DEF PlainBefore
  <2>4. /\ \A i \in 1 .. j - 1 : Line(j)[i] \notin {Newline, EndOfFile}
        /\ j > 0 => Line(j)[j] # EndOfFile
    BY <2>3
  <2>5. j \in 0 .. Len(Ready) /\ Queue!Take(p, j)
    BY <1>2, <1>3, <2>1, <2>4, TakeStep
  <2> QED
    BY <1>8, <2>2, <2>5 DEF CInv
<1> QED
  BY <1>9, <1>10

\* A read that takes what there is and is about to sleep, or finds itself killed.
LEMMA ReadWaitsStep ==
  ASSUME CInv, NEW p \in Readers, ReadWaits(p)
  PROVE  CInv' /\ \E k \in 0 .. Len(Ready) : Queue!Take(p, k)
<1>1. PICK k \in Nat :
        /\ k = Available /\ r' = Plus(r, k) /\ k < n[p]
        /\ got' = [got EXCEPT ![p] = @ \o Line(k)]
        /\ n' = [n EXCEPT ![p] = @ - k]
  <2>1. Available \in Nat /\ w = Plus(r, Available)
    BY InRange, Distance DEF Available, CInv, RingInv, Uints
  <2> QED
    BY <2>1 DEF ReadWaits
<1>2. UNCHANGED <<buf, w, e, killed>> /\ k <= Available
  BY <1>1 DEF ReadWaits
<1>3. RingInv' /\ EditInv' /\ Line(k) \in Seq(Chars) /\ Len(Line(k)) = k
  BY <1>1, <1>2, TakeShape
<1>4. k \in 0 .. Len(Ready) /\ Queue!Take(p, k)
  <2>1. \A i \in 1 .. k : Line(k)[i] \notin {Newline, EndOfFile}
    <3>1. \A i \in 1 .. k : i \in 1 .. (k + 1) - 1 /\ Line(k + 1)[i] = Line(k)[i]
      BY DEF Line
    <3> QED
      BY <1>1, <3>1 DEF ReadWaits, PlainBefore
  <2>2. /\ \A i \in 1 .. k - 1 : Line(k)[i] \notin {Newline, EndOfFile}
        /\ k > 0 => Line(k)[k] # EndOfFile
    BY <2>1
  <2> QED
    BY <1>1, <1>2, <2>2, TakeStep
<1>5. n \in [Readers -> Nat] /\ got \in [Readers -> Seq(Chars)] /\ got[p] \in Seq(Chars)
  BY DEF CInv, CallInv
<1>6. n' \in [Readers -> Nat] /\ got' \in [Readers -> Seq(Chars)] /\ Len(got'[p]) + n'[p] = Len(got[p]) + n[p]
  <2>1. n[p] - k \in Nat /\ got[p] \o Line(k) \in Seq(Chars) /\ Len(got[p] \o Line(k)) = Len(got[p]) + k
    <3>1. k < n[p] /\ n[p] \in Nat
      BY <1>1, <1>5
    <3>2. got[p] \o Line(k) \in Seq(Chars) /\ Len(got[p] \o Line(k)) = Len(got[p]) + k
      BY ZenonT(60), <1>3, <1>5, ConcatProperties
    <3> QED
      BY <3>1, <3>2
  <2>2. n' \in [Readers -> Nat] /\ got' \in [Readers -> Seq(Chars)]
    BY <1>1, <1>5, <2>1
  <2>3. n'[p] = n[p] - k /\ got'[p] = got[p] \o Line(k) /\ n[p] \in Nat /\ Len(got[p]) \in Nat
    BY <1>1, <1>5
  <2> QED
    BY <2>1, <2>2, <2>3
<1>7. /\ stage[p] \in {"called", "woken"}
      /\ \/ killed[p] /\ stage' = [stage EXCEPT ![p] = "return"]
         \/ ~killed[p] /\ stage' = [stage EXCEPT ![p] = "waits"]
  BY DEF ReadWaits, Running, Returns
<1>8. CallInv'
  <2>1. stage' \in [Readers -> {"user", "called", "waits", "asleep", "woken", "return"}]
    BY <1>7 DEF CInv, CallInv
  <2>2. ASSUME NEW q \in Readers, stage'[q] \in {"called", "waits", "asleep", "woken"}
        PROVE  Len(got'[q]) + n'[q] \in ReadSizes
    <3>1. CASE q = p
      BY <1>6, <1>7, <3>1 DEF CInv, CallInv
    <3>2. CASE q # p
      BY <1>1, <1>5, <1>7, <2>2, <3>2 DEF CInv, CallInv
    <3> QED
      BY <3>1, <3>2
  <2> QED
    BY <1>6, <2>1, <2>2 DEF CallInv
<1>9. SleepsWithReason'
  <2>1. w = Plus(r, Available)
    BY Distance DEF Available, CInv, RingInv
  <2>2. r' = w'
    BY <1>1, <1>2, <2>1
  <2> QED
    BY <2>2 DEF SleepsWithReason
<1> QED
  BY <1>3, <1>4, <1>8, <1>9 DEF CInv

\* The rest leaves the ring alone.
LEMMA OtherSteps ==
  ASSUME CInv, NEW p \in Readers
  PROVE  /\ \A k \in ReadSizes : Call(p, k) => CInv' /\ Queue!Done(p)
         /\ Return(p) => CInv' /\ Queue!Done(p)
         /\ ReadSleeps(p) \/ Kill(p) => CInv' /\ UNCHANGED <<Ready, Edit, got>>
<1>0. ASSUME UNCHANGED ring PROVE RingInv' /\ EditInv' /\ UNCHANGED <<Ready, Edit>>
  BY <1>0 DEF ring, CInv, RingInv, EditInv, Ready, Edit, Line, Available, At
<1>1. ASSUME NEW k \in ReadSizes, Call(p, k) PROVE CInv' /\ Queue!Done(p)
  <2>1. UNCHANGED ring /\ got' = [got EXCEPT ![p] = << >>]
    BY <1>1 DEF Call
  <2>2. k \in Nat /\ Len(<< >>) + k = k /\ << >> \in Seq(Chars)
    BY ConsoleAssumption
  <2>3. CallInv'
    BY <1>1, <2>2 DEF Call, CInv, CallInv
  <2>4. SleepsWithReason'
    BY <1>1 DEF Call, ring, CInv, CallInv, SleepsWithReason
  <2> QED
    BY <1>0, <2>1, <2>3, <2>4 DEF CInv, Queue!Done, Ready, Edit
<1>2. ASSUME Return(p) PROVE CInv' /\ Queue!Done(p)
  <2>1. UNCHANGED ring /\ got' = [got EXCEPT ![p] = << >>]
    BY <1>2 DEF Return
  <2>2. << >> \in Seq(Chars)
    OBVIOUS
  <2>3. CallInv'
    BY <1>2, <2>2 DEF Return, CInv, CallInv
  <2>4. SleepsWithReason'
    BY <1>2 DEF Return, ring, CInv, CallInv, SleepsWithReason
  <2> QED
    BY <1>0, <2>1, <2>3, <2>4 DEF CInv, Queue!Done, Ready, Edit
<1>3. ASSUME Kill(p) PROVE CInv' /\ UNCHANGED <<Ready, Edit, got>>
  <2>1. UNCHANGED ring /\ UNCHANGED got
    BY <1>3 DEF Kill
  <2>2. CallInv'
    BY <1>3 DEF Kill, CInv, CallInv
  <2>3. SleepsWithReason'
    BY <1>3 DEF Kill, ring, CInv, CallInv, SleepsWithReason
  <2> QED
    BY <1>0, <2>1, <2>2, <2>3 DEF CInv
<1>4. ASSUME ReadSleeps(p) PROVE CInv' /\ UNCHANGED <<Ready, Edit, got>>
  <2>1. UNCHANGED ring /\ UNCHANGED got
    BY <1>4 DEF ReadSleeps
  <2>2. CallInv'
    BY <1>4 DEF ReadSleeps, CInv, CallInv
  <2>3. SleepsWithReason'
    BY <1>4 DEF ReadSleeps, ring, CInv, CallInv, SleepsWithReason
  <2> QED
    BY <1>0, <2>1, <2>2, <2>3 DEF CInv
<1> QED
  BY <1>1, <1>2, <1>3, <1>4

-----------------------------------------------------------------------------
(* The specification.                                                      *)

\* The console starts with the invariant, and as an empty queue.
LEMMA InitStep == ConsoleInit => CInv /\ Queue!Init
<1> SUFFICES ASSUME ConsoleInit PROVE CInv /\ Queue!Init
  OBVIOUS
<1>1. r \in Uints /\ w = r /\ e = r
  BY Sizes DEF ConsoleInit, Uints
<1>2. Minus(w, r) = 0 /\ Minus(e, w) = 0
  BY <1>1, Distance
<1>3. buf \in [0 .. INPUT_BUF - 1 -> Chars]
  BY ConsoleAssumption DEF ConsoleInit
<1>4. RingInv /\ EditInv
  BY <1>1, <1>2, <1>3, Sizes DEF RingInv, EditInv
<1>5. << >> \in Seq(Chars)
  OBVIOUS
<1>6. CallInv /\ SleepsWithReason
  BY <1>1, <1>5 DEF ConsoleInit, CallInv, SleepsWithReason
<1>7. Ready = << >> /\ Edit = << >>
  BY <1>2 DEF Ready, Edit, Line, Available
<1> QED
  BY <1>4, <1>6, <1>7 DEF CInv, Queue!Init, ConsoleInit, Ready, Edit

\* Every step keeps the invariant and is a step of the queue, or none.
LEMMA NextStep == CInv /\ [ConsoleNext]_cvars => CInv' /\ [Queue!Next]_(Queue!lvars)
<1> SUFFICES ASSUME CInv, [ConsoleNext]_cvars PROVE CInv' /\ [Queue!Next]_(Queue!lvars)
  OBVIOUS
<1>1. ASSUME NEW c \in Chars, TypeChar(c) PROVE CInv' /\ Queue!Next
  BY <1>1, TypeStep DEF Queue!Next
<1>2. CASE Backspace
  BY <1>2, BackspaceStep DEF Queue!Next
<1>3. CASE KillLine
  BY <1>3, KillLineStep DEF Queue!Next
<1>4. ASSUME NEW p \in Readers, ReadEnds(p) PROVE CInv' /\ Queue!Next
  BY <1>4, ReadEndsStep DEF Queue!Next, Ready
<1>5. ASSUME NEW p \in Readers, ReadMeetsEnd(p) PROVE CInv' /\ Queue!Next
  BY <1>5, ReadMeetsEndStep DEF Queue!Next, Ready
<1>6. ASSUME NEW p \in Readers, ReadWaits(p) PROVE CInv' /\ Queue!Next
  BY <1>6, ReadWaitsStep DEF Queue!Next, Ready
<1>7. ASSUME NEW p \in Readers, ReadSleeps(p) \/ Kill(p) PROVE CInv' /\ UNCHANGED Queue!lvars
  BY <1>7, OtherSteps DEF Queue!lvars, Ready, Edit
<1>8. ASSUME NEW p \in Readers, Program(p) PROVE CInv' /\ Queue!Next
  BY <1>8, OtherSteps DEF Program, Queue!Next
<1>9. CASE UNCHANGED cvars
  BY <1>9 DEF cvars, ring, CInv, RingInv, EditInv, CallInv, SleepsWithReason, Queue!lvars, Line, Available, At
<1> QED
  BY <1>1, <1>2, <1>3, <1>4, <1>5, <1>6, <1>7, <1>8, <1>9 DEF ConsoleNext, Keyboard, InKernel

\* The invariant says what ConsoleSound does.
LEMMA InvIsSound == CInv => ConsoleSound
<1> SUFFICES ASSUME CInv PROVE ConsoleTypeOK
  BY DEF CInv, ConsoleSound
<1>1. {r, w, e} \subseteq 0 .. UintRange - 1
  BY DEF CInv, RingInv, Uints
<1> QED
  BY <1>1 DEF CInv, RingInv, CallInv, ConsoleTypeOK

\* Whatever is typed and however readers come, sleep and are killed, the ring's
\* counters stay in order, what is being typed has no end of a line in it, calls
\* get no more than they asked for, and a reader between its test of the ring and its
\* sleep, who holds the lock, finds nothing changed (console.c, consoleintr and
\* consoleread).
THEOREM ConsoleInvariant == ConsoleSpec => []CInv
BY InitStep, NextStep, PTL DEF ConsoleSpec

\* So the ring is sound, and nobody sleeps, or comes to sleep, beside an ended line.
\* That a killed reader does not sleep on is not so (Kill before ReadSleeps).
THEOREM ConsoleIsSound == ConsoleSpec => []ConsoleSound
BY ConsoleInvariant, InvIsSound, PTL

\* The console is the queue of lines: through the ring and its wrapping counters
\* readers get the characters typed, each once, in order and as edited.
THEOREM ConsoleIsLineQueue == ConsoleSpec => ImplementsLineQueue
<1>1. ConsoleInit => Queue!Init
  BY InitStep
<1>2. CInv /\ [ConsoleNext]_cvars => [Queue!Next]_(Queue!lvars)
  BY NextStep
<1> QED
  BY <1>1, <1>2, ConsoleInvariant, PTL DEF ConsoleSpec, ImplementsLineQueue, Queue!Spec

==============================================================================
