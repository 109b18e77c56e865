----------------------------- MODULE LogProofs ------------------------------
(***************************************************************************)
(* The log has room for what begin_op admits, for any number of concurrent *)
(* operations and any sizes, and commits when nobody is inside.            *)
(***************************************************************************)
EXTENDS Log, FiniteSetTheorems, SequenceTheorems, TLAPS

InCommit == {"log", "head", "install", "clear", "done"}

\* Who is inside, and what that says of the commit under way.
StageInv ==
  /\ committing <=> stage \in InCommit
  /\ committing <=> \E o \in Ops : pc[o] = "commit"
  /\ \A o, q \in Ops : pc[o] = "commit" /\ pc[q] = "commit" => o = q
  /\ ~Up => \A o \in Ops : pc[o] = "out"
  /\ outstanding = Cardinality(InOp)
  /\ stage # "none" => InOp = {}

\* Progress of the commit or of recovery through the list, and when the list is empty.
TailInv ==
  /\ stage \in {"log", "install", "replay"} => tail \in 1 .. Len(lh)
  /\ stage = "head" => Len(lh) > 0
  /\ stage = "read" => tail = 1
  /\ stage = "done" \/ (stage = "none" /\ InOp = {}) => lh = <<>>

\* The blocks that operations under way may still add to the list, one pair for each.
MayAdd == {x \in InOp \X (1 .. OpBlocks) : Cardinality(own[x[1]]) < x[2]}

\* Log and additions to come leave one of the on-disk blocks unused.
SpaceInv ==
  /\ Len(lh) + Cardinality(MayAdd) < LogSlots
  /\ Len(header) < LogSlots

\* An operation has its blocks in the list, and writes OpBlocks of them at most.
OwnInv ==
  \A o \in InOp :
    /\ IsFiniteSet(own[o])
    /\ \A b \in own[o] : Listed(b)
    /\ Cardinality(IF pc[o] = "in" THEN own[o] ELSE own[o] \cup {buf[o]}) <= OpBlocks

IInv == TypeOK /\ StageInv /\ TailInv /\ SpaceInv /\ OwnInv /\ SleeperHasWaker

-----------------------------------------------------------------------------
(* Facts about the constants and the sets that are counted.                *)

\* The sizes are numbers, an operation's blocks are fewer than the slots of the log, and
\* no block is "no block".
LEMMA Sizes ==
  /\ MAXOPBLOCKS \in Nat /\ LOGSIZE \in Nat /\ LogSlots \in Nat /\ OpBlocks \in Nat
  /\ OpBlocks < LogSlots
  /\ NoBlock \notin Blocks
  BY LogAssumption DEF NoBlock

\* A reservation of MAXOPBLOCKS for each of n operations is more than they can use.
LEMMA Reservation ==
  ASSUME NEW n \in Nat, n > 1, NEW k \in Nat, k + n * MAXOPBLOCKS <= LOGSIZE
  PROVE  k + n * OpBlocks < LogSlots
<1>1. n * OpBlocks + n <= n * MAXOPBLOCKS
  BY LogAssumption
<1>. QED  BY <1>1, LogAssumption

\* The operations inside and their possible additions are finitely many.
LEMMA Counted ==
  ASSUME NEW S \in SUBSET Ops, NEW T \in SUBSET (S \X (1 .. OpBlocks))
  PROVE  /\ IsFiniteSet(S) /\ Cardinality(S) \in Nat
         /\ IsFiniteSet(T) /\ Cardinality(T) \in Nat
         /\ Cardinality(T) <= Cardinality(S) * OpBlocks
<1>1. IsFiniteSet(S) /\ Cardinality(S) \in Nat
  BY LogAssumption, FS_Subset, FS_CardinalityType
<1>2. IsFiniteSet(1 .. OpBlocks) /\ Cardinality(1 .. OpBlocks) = OpBlocks
  BY Sizes, FS_Interval
<1>3. /\ IsFiniteSet(S \X (1 .. OpBlocks))
      /\ Cardinality(S \X (1 .. OpBlocks)) = Cardinality(S) * OpBlocks
  BY <1>1, <1>2, FS_Product
<1>4. IsFiniteSet(T) /\ Cardinality(T) <= Cardinality(S \X (1 .. OpBlocks))
  BY <1>3, FS_Subset
<1>. QED  BY <1>1, <1>3, <1>4, FS_CardinalityType

-----------------------------------------------------------------------------
(* Type correctness.                                                       *)

\* The list fits into the on-disk log.
LEMMA ListBound ==
  ASSUME TypeOK, SpaceInv
  PROVE  /\ Len(lh) \in 0 .. LogSlots - 1 /\ Len(header) \in 0 .. LogSlots - 1
         /\ Cardinality(MayAdd) \in Nat
<1>1. InOp \in SUBSET Ops /\ MayAdd \in SUBSET (InOp \X (1 .. OpBlocks))
  BY DEF InOp, MayAdd
<1>2. Cardinality(MayAdd) \in Nat
  BY <1>1, Counted
<1>3. Len(lh) \in Nat /\ Len(header) \in Nat
  BY LenProperties DEF TypeOK
<1>. QED  BY <1>2, <1>3, Sizes DEF SpaceInv

\* A step keeps the types.
LEMMA TypeStep == ASSUME IInv, [Next]_vars PROVE TypeOK'
<1>. USE DEF IInv
<1>1. CASE UNCHANGED vars
  BY <1>1 DEF vars, disk, bufs, log, code, TypeOK
<1>2. ASSUME NEW o \in Ops, Begin(o) \/ BeginEnter(o) \/ BeginSleep(o) PROVE TypeOK'
  <2>1. CASE Begin(o)  BY <2>1 DEF Begin, disk, bufs, log, TypeOK
  <2>2. CASE BeginEnter(o)  BY <2>2 DEF BeginEnter, disk, bufs, TypeOK
  <2>3. CASE BeginSleep(o)  BY <2>3 DEF BeginSleep, disk, bufs, log, TypeOK
  <2>. QED  BY <1>2, <2>1, <2>2, <2>3
<1>3. ASSUME NEW o \in Ops, NEW b \in Blocks, Modify(o, b) PROVE TypeOK'
  BY SMTT(30), <1>3, Sizes, LogAssumption DEF Modify, disk, log, TypeOK, Data
<1>4. ASSUME NEW o \in Ops, LogCheck(o) PROVE TypeOK'
  BY <1>4 DEF LogCheck, disk, bufs, log, TypeOK
<1>5. ASSUME NEW o \in Ops, LogWrite(o) PROVE TypeOK'
  <2>1. buf[o] \in Blocks
    BY <1>5, Sizes DEF LogWrite, TypeOK
  <2>2. lh' \in Seq(Blocks)
    BY <1>5, <2>1, AppendProperties DEF LogWrite, TypeOK
  <2>. QED  BY <1>5, <2>1, <2>2 DEF LogWrite, disk, TypeOK
<1>6. ASSUME NEW o \in Ops, EndOp(o) \/ EndOpCommit(o) \/ EndCommit(o) PROVE TypeOK'
  <2>1. CASE EndOp(o)  BY <2>1 DEF EndOp, Woken, disk, bufs, TypeOK
  <2>2. CASE EndOpCommit(o)  BY <2>2, Sizes DEF EndOpCommit, AfterEnd, disk, bufs, TypeOK
  <2>3. CASE EndCommit(o)  BY <2>3 DEF EndCommit, Woken, disk, bufs, TypeOK
  <2>. QED  BY <1>6, <2>1, <2>2, <2>3
<1>7. ASSUME NEW b \in Blocks, Recycle(b) PROVE TypeOK'
  BY <1>7 DEF Recycle, disk, log, code, TypeOK
<1>8. ASSUME tail \in 1 .. Len(lh), stage \in {"log", "install", "replay"}
      PROVE  /\ lh[tail] \in Blocks /\ tail \in 1 .. LogSlots /\ tail + 1 \in 1 .. LogSlots + 1
             /\ Contents(lh[tail]) \in Data /\ logData[tail] \in Data
  <2>1. tail \in 1 .. LogSlots
    BY <1>8, Sizes, ListBound
  <2>. QED  BY <1>8, <2>1, Sizes, LenProperties DEF TypeOK, Contents
<1>9. CASE WriteLog
  BY <1>8, <1>9 DEF WriteLog, log, code, TypeOK, TailInv
<1>10. CASE WriteHead
  BY <1>10, Sizes DEF WriteHead, bufs, log, code, TypeOK
<1>11. CASE Install \/ Replay
  BY <1>8, <1>11 DEF Install, Replay, InstallBlock, log, code, TypeOK, TailInv
<1>12. CASE Clear \/ Recovered
  BY <1>12, EmptySeq DEF Clear, Recovered, Erase, bufs, code, TypeOK
<1>13. CASE Crash
  <2>1. lh' \in Seq(Blocks) /\ header' \in Seq(Blocks)
    BY <1>13, EmptySeq DEF Crash, disk, TypeOK
  <2>2. /\ cache' = [b \in Blocks |-> NotCached] /\ dirty' = {}
        /\ outstanding' = 0 /\ committing' = FALSE /\ tail' = 1
    BY <1>13 DEF Crash
  <2>3. /\ pc' = [o \in Ops |-> "out"] /\ buf' = [o \in Ops |-> NoBlock]
        /\ own' = [o \in Ops |-> {}]
    BY <1>13 DEF Crash
  <2>4. /\ home' = home /\ logData' = logData /\ writes' = writes /\ crashes' = crashes + 1
        /\ stage' = "read"
    BY <1>13 DEF Crash, disk
  <2>5. /\ pc' \in [Ops -> {"out", "begin", "asleep", "in", "modified", "logging", "commit"}]
        /\ buf' \in [Ops -> Blocks \cup {NoBlock}] /\ own' \in [Ops -> SUBSET Blocks]
        /\ \A o \in Ops : buf'[o] # NoBlock <=> pc'[o] \in {"modified", "logging"}
    BY <2>3
  <2>6. /\ cache' \in [Blocks -> Data \cup {NotCached}] /\ tail' \in 1 .. LogSlots + 1
        /\ outstanding' \in Nat
    BY <2>2, Sizes
  <2>7. committing' \in BOOLEAN /\ dirty' \subseteq Blocks
    BY <2>2
  <2>8. writes' \in Nat /\ crashes' \in Nat
    BY <2>4 DEF TypeOK
  <2>9. home' \in [Blocks -> Data] /\ logData' \in [1 .. LogSlots -> Data]
    BY <2>4 DEF TypeOK
  <2>. QED  BY <2>1, <2>4, <2>5, <2>6, <2>7, <2>8, <2>9 DEF TypeOK
<1>14. CASE ReadHead
  BY <1>14 DEF ReadHead, disk, bufs, code, TypeOK
<1>. QED
  BY <1>1, <1>2, <1>3, <1>4, <1>5, <1>6, <1>7, <1>9, <1>10, <1>11, <1>12, <1>13, <1>14 DEF Next

-----------------------------------------------------------------------------
(* Who is inside, and the commit.                                          *)

\* The places in the code between begin_op and end_op are left by end_op only.
LEMMA Inside ==
  ASSUME TypeOK
  PROVE  /\ InOp \in SUBSET Ops /\ IsFiniteSet(InOp) /\ Cardinality(InOp) \in Nat
         /\ \A o \in Ops : o \in InOp <=> pc[o] \in {"in", "modified", "logging"}
<1>1. InOp \in SUBSET Ops /\ {} \in SUBSET (InOp \X (1 .. OpBlocks))
  BY DEF InOp
<1>. QED  BY <1>1, Counted DEF InOp

\* A step keeps what is said of the stages of a commit.
LEMMA StageStep == ASSUME IInv, [Next]_vars PROVE StageInv'
<1>. USE DEF IInv
<1>0. InOp \in SUBSET Ops /\ IsFiniteSet(InOp) /\ Cardinality(InOp) \in Nat
  BY Inside
<1>1. CASE UNCHANGED vars
  BY <1>1 DEF vars, log, code, StageInv, InOp, Up
<1>2. ASSUME NEW o \in Ops, Begin(o) \/ BeginSleep(o) PROVE StageInv'
  <2>1. InOp' = InOp
    BY <1>2 DEF Begin, BeginSleep, InOp, TypeOK
  <2>. QED  BY <1>2, <2>1 DEF Begin, BeginSleep, log, StageInv, Up, TypeOK
<1>3. ASSUME NEW o \in Ops, BeginEnter(o) PROVE StageInv'
  <2>1. o \notin InOp /\ InOp' = InOp \cup {o}
    BY <1>3 DEF BeginEnter, InOp, TypeOK
  <2>2. stage = "none" /\ stage' = stage
    BY <1>3 DEF BeginEnter, MayBegin, StageInv, InCommit, Up, TypeOK
  <2>3. outstanding' = Cardinality(InOp')
    BY <1>0, <1>3, <2>1, FS_AddElement DEF BeginEnter, StageInv
  <2>. QED  BY <1>3, <2>2, <2>3 DEF BeginEnter, StageInv, InCommit, Up, TypeOK
<1>4. ASSUME NEW o \in Ops, (\E b \in Blocks : Modify(o, b)) \/ LogCheck(o) \/ LogWrite(o)
      PROVE  StageInv'
  <2>1. InOp' = InOp
    BY <1>4 DEF Modify, LogCheck, LogWrite, InOp, TypeOK
  <2>2. committing' = committing /\ outstanding' = outstanding /\ stage' = stage
    BY <1>4 DEF Modify, LogCheck, LogWrite, log
  <2>3. \A q \in Ops : (pc'[q] = "commit" <=> pc[q] = "commit") /\ (pc[q] = "out" => pc'[q] = "out")
    BY <1>4 DEF Modify, LogCheck, LogWrite, TypeOK
  <2>. QED  BY <2>1, <2>2, <2>3 DEF StageInv, Up
<1>5. ASSUME NEW o \in Ops, EndOp(o) PROVE StageInv'
  <2>1. o \in InOp /\ InOp' = InOp \ {o}
    BY <1>5 DEF EndOp, Woken, InOp, TypeOK
  <2>2. outstanding' = Cardinality(InOp')
    BY <1>0, <1>5, <2>1, FS_RemoveElement DEF EndOp, StageInv
  <2>3. \A q \in Ops : (pc'[q] = "commit" <=> pc[q] = "commit") /\ (pc[q] = "out" => pc'[q] = "out")
    BY <1>5 DEF EndOp, Woken, TypeOK
  <2>4. committing' = committing /\ stage' = stage
    BY <1>5 DEF EndOp
  <2>. QED  BY <2>1, <2>2, <2>3, <2>4 DEF StageInv, Up
<1>6. ASSUME NEW o \in Ops, EndOpCommit(o) PROVE StageInv'
  <2>1. o \in InOp /\ InOp' = InOp \ {o}
    BY <1>6 DEF EndOpCommit, InOp, TypeOK
  <2>2. Cardinality(InOp') = 0 /\ IsFiniteSet(InOp')
    <3>1. Cardinality(InOp) = 1
      BY <1>6 DEF EndOpCommit, StageInv
    <3>. QED  BY <1>0, <2>1, <3>1, FS_RemoveElement
  <2>3. InOp' = {}
    BY <2>2, FS_EmptySet
  <2>4. \A q \in Ops : pc[q] # "commit"
    BY <2>1 DEF StageInv, InCommit
  <2>. QED  BY <1>6, <2>2, <2>3, <2>4 DEF EndOpCommit, AfterEnd, StageInv, InCommit, Up, TypeOK
<1>7. ASSUME NEW o \in Ops, EndCommit(o) PROVE StageInv'
  <2>1. InOp' = InOp
    BY <1>7 DEF EndCommit, Woken, InOp, TypeOK
  <2>2. \A q \in Ops : pc'[q] # "commit"
    BY <1>7 DEF EndCommit, Woken, StageInv, TypeOK
  <2>. QED  BY <1>7, <2>1, <2>2 DEF EndCommit, StageInv, InCommit, Up
<1>8. ASSUME NEW b \in Blocks, Recycle(b) PROVE StageInv'
  BY <1>8 DEF Recycle, log, code, StageInv, InOp, Up
<1>9. CASE WriteLog \/ WriteHead \/ Install \/ Clear
  <2>1. pc' = pc /\ outstanding' = outstanding /\ committing' = committing
    BY <1>9 DEF WriteLog, WriteHead, Install, Clear, Erase, log, code
  <2>2. stage \in InCommit /\ stage' \in InCommit
    BY <1>9 DEF WriteLog, WriteHead, Install, Clear, InCommit
  <2>. QED  BY <2>1, <2>2 DEF StageInv, InOp, InCommit, Up
<1>10. CASE Crash
  <2>1. InOp' = {}
    BY <1>10 DEF Crash, InOp
  <2>. QED  BY <1>10, <2>1, FS_EmptySet DEF Crash, StageInv, InCommit, Up
<1>11. CASE ReadHead \/ Replay \/ Recovered
  <2>1. pc' = pc /\ outstanding' = outstanding /\ committing' = committing
    BY <1>11 DEF ReadHead, Replay, Recovered, Erase, log, code
  <2>2. stage \in {"read", "replay", "erase"} /\ stage' \in {"replay", "erase", "none"}
    BY <1>11 DEF ReadHead, Replay, Recovered
  <2>. QED  BY <2>1, <2>2 DEF StageInv, InOp, InCommit, Up
<1>. QED
  BY <1>1, <1>2, <1>3, <1>4, <1>5, <1>6, <1>7, <1>8, <1>9, <1>10, <1>11 DEF Next

-----------------------------------------------------------------------------
(* Progress of commit and recovery through the list.                       *)

\* A step keeps what is said of the blocks already copied.
LEMMA TailStep == ASSUME IInv, [Next]_vars PROVE TailInv'
<1>. USE DEF IInv
<1>0. InOp \in SUBSET Ops /\ IsFiniteSet(InOp) /\ Cardinality(InOp) \in Nat /\ Len(lh) \in Nat
  BY Inside, ListBound
<1>1. CASE UNCHANGED vars
  BY <1>1 DEF vars, log, code, TailInv, InOp
<1>2. ASSUME NEW o \in Ops, Begin(o) \/ BeginSleep(o) PROVE TailInv'
  <2>1. InOp' = InOp
    BY <1>2 DEF Begin, BeginSleep, InOp, TypeOK
  <2>. QED  BY <1>2, <2>1 DEF Begin, BeginSleep, log, TailInv
<1>3. ASSUME NEW o \in Ops, BeginEnter(o) PROVE TailInv'
  <2>1. InOp' # {}
    BY <1>3 DEF BeginEnter, InOp, TypeOK
  <2>2. stage' = "none"
    BY <1>3 DEF BeginEnter, MayBegin, StageInv, InCommit, Up, TypeOK
  <2>. QED  BY <2>1, <2>2 DEF TailInv
<1>4. ASSUME NEW o \in Ops, (\E b \in Blocks : Modify(o, b)) \/ LogCheck(o) \/ LogWrite(o)
      PROVE  TailInv'
  <2>1. o \in InOp /\ InOp' = InOp
    BY <1>4 DEF Modify, LogCheck, LogWrite, InOp, TypeOK
  <2>2. stage' = "none"
    BY <1>4, <2>1 DEF Modify, LogCheck, LogWrite, StageInv
  <2>. QED  BY <2>1, <2>2 DEF TailInv
<1>5. ASSUME NEW o \in Ops, EndOp(o) PROVE TailInv'
  <2>1. o \in InOp /\ InOp' = InOp \ {o}
    BY <1>5 DEF EndOp, Woken, InOp, TypeOK
  <2>2. Cardinality(InOp) > 1
    BY <1>5 DEF EndOp, StageInv
  <2>3. InOp' # {}
    BY <1>0, <2>1, <2>2, FS_RemoveElement, FS_EmptySet
  <2>4. stage' = "none"
    BY <1>5, <2>1 DEF EndOp, StageInv
  <2>. QED  BY <2>3, <2>4 DEF TailInv
<1>6. ASSUME NEW o \in Ops, EndOpCommit(o) PROVE TailInv'
  <2>1. lh' = lh /\ tail' = 1 /\ stage' = IF Len(lh) > 0 THEN "log" ELSE "done"
    BY <1>6 DEF EndOpCommit, AfterEnd
  <2>2. Len(lh) = 0 => lh = <<>>
    BY EmptySeq DEF TypeOK
  <2>. QED  BY <1>0, <2>1, <2>2 DEF TailInv
<1>7. ASSUME NEW o \in Ops, EndCommit(o) PROVE TailInv'
  BY <1>7 DEF EndCommit, TailInv
<1>8. ASSUME NEW b \in Blocks, Recycle(b) PROVE TailInv'
  BY <1>8 DEF Recycle, log, code, TailInv, InOp
<1>9. CASE WriteLog \/ WriteHead \/ Install
  BY <1>0, <1>9 DEF WriteLog, WriteHead, Install, InstallBlock, log, TailInv, TypeOK
<1>10. CASE Clear \/ Recovered
  BY <1>10 DEF Clear, Recovered, Erase, TailInv
<1>11. CASE Crash
  BY <1>11 DEF Crash, TailInv
<1>12. CASE ReadHead
  <2>1. stage = "read" /\ lh' = header /\ tail' = tail
    BY <1>12 DEF ReadHead
  <2>2. header # <<>> => Len(header) \in Nat \ {0}
    BY EmptySeq DEF TypeOK
  <2>3. tail = 1
    BY <2>1 DEF TailInv
  <2>. QED  BY <1>12, <2>1, <2>2, <2>3 DEF ReadHead, TailInv
<1>13. CASE Replay
  BY <1>0, <1>13 DEF Replay, InstallBlock, log, TailInv, TypeOK
<1>. QED
  BY <1>1, <1>2, <1>3, <1>4, <1>5, <1>6, <1>7, <1>8, <1>9, <1>10, <1>11, <1>12, <1>13 DEF Next

-----------------------------------------------------------------------------
(* Room in the log.                                                        *)

\* A step that adds nothing to the list nor to what may be added keeps SpaceInv.
LEMMA NoMore ==
  ASSUME TypeOK, SpaceInv, Len(lh') \in Nat, Len(lh') <= Len(lh), MayAdd' \subseteq MayAdd,
         header' \in {header, lh, <<>>}
  PROVE  SpaceInv'
<1>1. InOp \in SUBSET Ops /\ MayAdd \in SUBSET (InOp \X (1 .. OpBlocks))
  BY DEF InOp, MayAdd
<1>2. IsFiniteSet(MayAdd) /\ Cardinality(MayAdd) \in Nat
  BY <1>1, Counted
<1>3. Cardinality(MayAdd') \in Nat /\ Cardinality(MayAdd') <= Cardinality(MayAdd)
  BY <1>2, FS_Subset, FS_CardinalityType
<1>4. Len(header') < LogSlots
  BY ListBound, EmptySeq, Sizes DEF SpaceInv
<1>. QED  BY <1>2, <1>3, <1>4, ListBound, Sizes DEF SpaceInv

\* A new operation: begin_op counts MAXOPBLOCKS for each that is inside.
LEMMA SpaceBegin == ASSUME IInv, NEW o \in Ops, BeginEnter(o) PROVE SpaceInv'
<1>. USE DEF IInv
<1>1. o \notin InOp /\ InOp' = InOp \cup {o} /\ InOp \in SUBSET Ops /\ InOp' \in SUBSET Ops
  BY DEF BeginEnter, InOp, TypeOK
<1>2. lh' = lh /\ header' = header
  BY DEF BeginEnter, disk
<1>3. /\ outstanding = Cardinality(InOp) /\ Cardinality(InOp) \in Nat
      /\ Cardinality(InOp') = outstanding + 1
  BY <1>1, Inside, FS_AddElement DEF StageInv
<1>4. MayAdd' \in SUBSET (InOp' \X (1 .. OpBlocks))
  BY DEF MayAdd
<1>5. Cardinality(MayAdd') \in Nat /\ Cardinality(MayAdd') <= (outstanding + 1) * OpBlocks
  BY <1>1, <1>3, <1>4, Counted
<1>6. Len(lh) + (outstanding + 1) * MAXOPBLOCKS <= LOGSIZE
  BY DEF BeginEnter, MayBegin, HasSpace
<1>7. Len(lh) + (outstanding + 1) * OpBlocks < LogSlots
  <2>1. CASE outstanding = 0
    <3>1. InOp = {}
      BY <1>3, <2>1, Inside, FS_EmptySet
    <3>2. stage = "none"
      BY DEF BeginEnter, MayBegin, StageInv, InCommit, Up, TypeOK
    <3>3. Len(lh) = 0
      BY <3>1, <3>2, EmptySeq DEF TailInv
    <3>. QED  BY <2>1, <3>3, Sizes
  <2>2. CASE outstanding # 0
    <3>. DEFINE n == outstanding + 1
    <3>1. n \in Nat /\ n > 1 /\ Len(lh) \in Nat
      BY <1>3, <2>2, ListBound
    <3>2. Len(lh) + n * MAXOPBLOCKS <= LOGSIZE
      BY <1>6
    <3>. HIDE DEF n
    <3>3. Len(lh) + n * OpBlocks < LogSlots
      BY <3>1, <3>2, Reservation
    <3>. QED  BY <3>3 DEF n
  <2>. QED  BY <2>1, <2>2
<1>8. (outstanding + 1) * OpBlocks \in Nat
  BY <1>3, Sizes
<1>. QED  BY <1>2, <1>5, <1>7, <1>8, ListBound, Sizes DEF SpaceInv

\* An entry that is appended was one that might be added.
LEMMA SpaceWrite == ASSUME IInv, NEW o \in Ops, LogWrite(o) PROVE SpaceInv'
<1>. USE DEF IInv
<1>. DEFINE b == buf[o]
            x == <<o, Cardinality(own[o]) + 1>>
<1>1. /\ o \in InOp /\ InOp' = InOp /\ b \in Blocks
      /\ own' = [own EXCEPT ![o] = own[o] \cup {b}] /\ header' = header
  BY Sizes DEF LogWrite, disk, InOp, TypeOK
<1>2. /\ IsFiniteSet(own[o]) /\ Cardinality(own[o]) \in Nat
      /\ Cardinality(own[o] \cup {b}) = IF b \in own[o] THEN Cardinality(own[o]) ELSE Cardinality(own[o]) + 1
      /\ Cardinality(own[o] \cup {b}) <= OpBlocks
  BY <1>1, FS_AddElement, FS_CardinalityType DEF OwnInv, LogWrite
<1>3. MayAdd' \subseteq MayAdd
  <2>. SUFFICES ASSUME NEW y \in InOp, NEW i \in 1 .. OpBlocks, Cardinality(own'[y]) < i
                PROVE  Cardinality(own[y]) < i
    BY <1>1 DEF MayAdd
  <2>1. CASE y = o
    <3>1. own'[y] = own[o] \cup {b}
      BY <1>1, <2>1 DEF TypeOK
    <3>. QED  BY <1>2, <2>1, <3>1, Sizes
  <2>2. CASE y # o
    BY <1>1, <2>2 DEF TypeOK, InOp
  <2>. QED  BY <2>1, <2>2
<1>4. CASE Listed(b)
  BY <1>1, <1>3, <1>4, NoMore, ListBound DEF LogWrite
<1>5. CASE ~Listed(b)
  <2>1. b \notin own[o]
    BY <1>1, <1>5 DEF OwnInv
  <2>2. x \in MayAdd /\ x \notin MayAdd'
    <3>1. own'[o] = own[o] \cup {b}
      BY <1>1 DEF TypeOK
    <3>2. Cardinality(own[o]) + 1 \in 1 .. OpBlocks
      BY <1>2, <2>1, Sizes
    <3>3. x \in MayAdd
      BY <1>1, <1>2, <3>2 DEF MayAdd
    <3>4. ~(Cardinality(own'[x[1]]) < x[2])
      <4>1. x[1] = o /\ x[2] = Cardinality(own[o]) + 1
        OBVIOUS
      <4>2. Cardinality(own'[o]) = Cardinality(own[o]) + 1
        BY <1>2, <2>1, <3>1
      <4>. HIDE DEF x
      <4>. QED  BY <1>2, <4>1, <4>2
    <3>. QED  BY <3>3, <3>4 DEF MayAdd
  <2>3. IsFiniteSet(MayAdd) /\ Cardinality(MayAdd) \in Nat
    <3>1. InOp \in SUBSET Ops /\ MayAdd \in SUBSET (InOp \X (1 .. OpBlocks))
      BY DEF InOp, MayAdd
    <3>. QED  BY <3>1, Counted
  <2>4. /\ IsFiniteSet(MayAdd \ {x}) /\ Cardinality(MayAdd \ {x}) = Cardinality(MayAdd) - 1
        /\ MayAdd' \subseteq MayAdd \ {x}
    BY <1>3, <2>2, <2>3, FS_RemoveElement
  <2>5. Cardinality(MayAdd') \in Nat /\ Cardinality(MayAdd') <= Cardinality(MayAdd) - 1
    BY <2>4, FS_Subset, FS_CardinalityType
  <2>6. Len(lh') = Len(lh) + 1
    BY <1>1, <1>5, AppendProperties DEF LogWrite, TypeOK
  <2>. QED  BY <1>1, <2>3, <2>5, <2>6, ListBound, Sizes DEF SpaceInv
<1>. QED  BY <1>4, <1>5

\* A step keeps the log's space: what running operations may still add fits.
LEMMA SpaceStep == ASSUME IInv, [Next]_vars PROVE SpaceInv'
<1>. USE DEF IInv
<1>0. Len(lh) \in Nat /\ Len(header) \in Nat
  BY ListBound

\* Most steps do not touch the list, nor let anybody in.
<1>1. ASSUME lh' = lh, own' = own, InOp' \subseteq InOp, header' \in {header, lh}
      PROVE  SpaceInv'
  <2>1. MayAdd' \subseteq MayAdd
    BY <1>1 DEF MayAdd
  <2>. QED  BY <1>0, <1>1, <2>1, NoMore
<1>2. CASE UNCHANGED vars
  BY <1>1, <1>2 DEF vars, disk, log, code, InOp
<1>3. ASSUME NEW o \in Ops,
             \/ Begin(o) \/ BeginSleep(o) \/ (\E b \in Blocks : Modify(o, b)) \/ LogCheck(o)
             \/ EndOp(o) \/ EndOpCommit(o) \/ EndCommit(o)
      PROVE  SpaceInv'
  <2>1. lh' = lh /\ own' = own /\ header' = header
    BY <1>3 DEF Begin, BeginSleep, Modify, LogCheck, EndOp, EndOpCommit, EndCommit, disk, log
  <2>2. InOp' \subseteq InOp
    BY <1>3 DEF Begin, BeginSleep, Modify, LogCheck, EndOp, EndOpCommit, EndCommit, Woken, InOp, TypeOK
  <2>. QED  BY <1>1, <2>1, <2>2
<1>4. ASSUME NEW b \in Blocks, Recycle(b) PROVE SpaceInv'
  BY <1>1, <1>4 DEF Recycle, disk, log, code, InOp
<1>5. CASE WriteLog \/ WriteHead \/ Install \/ Replay
  <2>1. lh' = lh /\ own' = own /\ pc' = pc /\ header' \in {header, lh}
    BY <1>5 DEF WriteLog, WriteHead, Install, Replay, log, code
  <2>. QED  BY <1>1, <2>1 DEF InOp
<1>6. CASE Clear \/ Recovered
  <2>1. lh' = <<>> /\ own' = own /\ pc' = pc /\ header' = <<>>
    BY <1>6 DEF Clear, Recovered, Erase, code
  <2>2. MayAdd' \subseteq MayAdd
    BY <2>1 DEF MayAdd, InOp
  <2>3. Len(lh') = 0
    BY <2>1, EmptySeq
  <2>. QED  BY <1>0, <2>1, <2>2, <2>3, NoMore
<1>7. CASE Crash
  <2>1. lh' = <<>> /\ header' = header /\ InOp' = {}
    BY <1>7 DEF Crash, disk, InOp
  <2>2. MayAdd' \subseteq MayAdd
    BY <2>1 DEF MayAdd
  <2>3. Len(lh') = 0
    BY <2>1, EmptySeq
  <2>. QED  BY <1>0, <2>1, <2>2, <2>3, NoMore
<1>8. CASE ReadHead
  <2>1. lh' = header /\ header' = header /\ pc' = pc /\ stage = "read"
    BY <1>8 DEF ReadHead, disk, code
  <2>2. MayAdd' = {}
    BY <2>1 DEF MayAdd, InOp, StageInv
  <2>. QED  BY <1>0, <2>1, <2>2, FS_EmptySet, Sizes DEF SpaceInv
<1>. QED
  BY <1>2, <1>3, <1>4, <1>5, <1>6, <1>7, <1>8, SpaceBegin, SpaceWrite DEF Next

-----------------------------------------------------------------------------
(* What an operation has written, and sleepers.                            *)

\* A step keeps what is said of the blocks an operation has changed.
LEMMA OwnStep == ASSUME IInv, [Next]_vars PROVE OwnInv'
<1>. USE DEF IInv

\* Steps that leave the list, and the operations inside, as they are.
<1>1. ASSUME lh' = lh, own' = own,
             \A o \in Ops : o \in InOp' => o \in InOp /\ pc'[o] = pc[o] /\ buf'[o] = buf[o]
      PROVE  OwnInv'
  <2>1. InOp' \subseteq Ops
    BY DEF InOp
  <2>. QED  BY <1>1, <2>1 DEF OwnInv, Listed
<1>2. CASE UNCHANGED vars
  BY <1>1, <1>2 DEF vars, log, code, InOp
<1>3. ASSUME NEW o \in Ops, Begin(o) \/ BeginSleep(o) \/ EndOp(o) \/ EndOpCommit(o) \/ EndCommit(o)
      PROVE  OwnInv'
  <2>1. lh' = lh /\ own' = own /\ buf' = buf
    BY <1>3 DEF Begin, BeginSleep, EndOp, EndOpCommit, EndCommit, log
  <2>2. \A q \in Ops : q \in InOp' => q \in InOp /\ pc'[q] = pc[q]
    BY <1>3 DEF Begin, BeginSleep, EndOp, EndOpCommit, EndCommit, Woken, InOp, TypeOK
  <2>. QED  BY <1>1, <2>1, <2>2
<1>4. ASSUME NEW o \in Ops, BeginEnter(o) PROVE OwnInv'
  <2>1. lh' = lh /\ buf' = buf /\ own' = [own EXCEPT ![o] = {}] /\ pc' = [pc EXCEPT ![o] = "in"]
    BY <1>4 DEF BeginEnter
  <2>2. own'[o] = {} /\ pc'[o] = "in"
    BY <2>1 DEF TypeOK
  <2>3. ASSUME NEW q \in Ops, q # o, q \in InOp'
        PROVE  q \in InOp /\ own'[q] = own[q] /\ pc'[q] = pc[q]
    BY <2>1, <2>3 DEF InOp, TypeOK
  <2>4. InOp' \subseteq Ops
    BY DEF InOp
  <2>5. IsFiniteSet({}) /\ Cardinality({}) <= OpBlocks
    BY FS_EmptySet, Sizes
  <2>6. ASSUME NEW q \in InOp'
        PROVE  /\ IsFiniteSet(own'[q]) /\ \A b \in own'[q] : Listed(b)'
               /\ Cardinality(IF pc'[q] = "in" THEN own'[q] ELSE own'[q] \cup {buf'[q]}) <= OpBlocks
    <3>1. CASE q = o
      BY <2>2, <2>5, <3>1
    <3>2. CASE q # o
      BY <2>1, <2>3, <2>4, <3>2 DEF OwnInv, Listed
    <3>. QED  BY <3>1, <3>2
  <2>. QED  BY <2>6 DEF OwnInv
<1>5. ASSUME NEW o \in Ops, NEW b \in Blocks, Modify(o, b) PROVE OwnInv'
  <2>1. /\ lh' = lh /\ own' = own /\ pc' = [pc EXCEPT ![o] = "modified"]
        /\ buf' = [buf EXCEPT ![o] = b] /\ o \in InOp /\ InOp' = InOp
    BY <1>5 DEF Modify, log, InOp, TypeOK
  <2>2. pc'[o] = "modified" /\ buf'[o] = b /\ Cardinality(own[o] \cup {b}) <= OpBlocks
    BY <1>5, <2>1 DEF Modify, TypeOK
  <2>3. \A q \in Ops : q # o => pc'[q] = pc[q] /\ buf'[q] = buf[q]
    BY <2>1 DEF TypeOK
  <2>4. InOp \subseteq Ops
    BY DEF InOp
  <2>. QED  BY ZenonT(60), <2>1, <2>2, <2>3, <2>4 DEF OwnInv, Listed
<1>6. ASSUME NEW o \in Ops, LogCheck(o) PROVE OwnInv'
  <2>1. /\ lh' = lh /\ own' = own /\ buf' = buf /\ pc' = [pc EXCEPT ![o] = "logging"]
        /\ pc[o] = "modified" /\ InOp' = InOp /\ InOp \subseteq Ops
    BY <1>6 DEF LogCheck, log, InOp, TypeOK
  <2>2. \A q \in Ops : pc'[q] = "in" <=> pc[q] = "in"
    BY <2>1 DEF TypeOK
  <2>. QED  BY <2>1, <2>2 DEF OwnInv, Listed
<1>7. ASSUME NEW o \in Ops, LogWrite(o) PROVE OwnInv'
  <2>1. /\ own' = [own EXCEPT ![o] = own[o] \cup {buf[o]}] /\ pc' = [pc EXCEPT ![o] = "in"]
        /\ buf' = [buf EXCEPT ![o] = NoBlock] /\ pc[o] = "logging" /\ buf[o] \in Blocks
        /\ o \in InOp /\ InOp' = InOp /\ InOp \subseteq Ops
    BY <1>7, Sizes DEF LogWrite, InOp, TypeOK
  <2>2. own'[o] = own[o] \cup {buf[o]} /\ pc'[o] = "in"
    BY <2>1 DEF TypeOK
  <2>3. \A q \in Ops : q # o => own'[q] = own[q] /\ pc'[q] = pc[q] /\ buf'[q] = buf[q]
    BY <2>1 DEF TypeOK
  <2>4. /\ \E i \in 1 .. Len(lh') : lh'[i] = buf[o]
        /\ \A b : Listed(b) => Listed(b)'
    <3>1. CASE Listed(buf[o])
      BY <1>7, <3>1 DEF LogWrite, Listed
    <3>2. CASE ~Listed(buf[o])
      <4>1. lh' = Append(lh, buf[o])
        BY <1>7, <3>2 DEF LogWrite
      <4>2. /\ Len(lh) \in Nat /\ Len(lh') = Len(lh) + 1 /\ lh'[Len(lh) + 1] = buf[o]
            /\ \A i \in 1 .. Len(lh) : lh'[i] = lh[i]
        BY <2>1, <4>1, AppendProperties, ListBound DEF TypeOK
      <4>3. Len(lh) + 1 \in 1 .. Len(lh') /\ \A i \in 1 .. Len(lh) : i \in 1 .. Len(lh')
        BY <4>2
      <4>. QED  BY <4>2, <4>3 DEF Listed
    <3>. QED  BY <3>1, <3>2
  <2>5. /\ IsFiniteSet(own[o]) /\ IsFiniteSet(own[o] \cup {buf[o]})
        /\ Cardinality(own[o] \cup {buf[o]}) <= OpBlocks
    BY <2>1, FS_AddElement DEF OwnInv
  <2>6. ASSUME NEW q \in InOp'
        PROVE  /\ IsFiniteSet(own'[q]) /\ \A b \in own'[q] : Listed(b)'
               /\ Cardinality(IF pc'[q] = "in" THEN own'[q] ELSE own'[q] \cup {buf'[q]}) <= OpBlocks
    <3>1. CASE q = o
      <4>1. \A b \in own[o] : Listed(b)'
        BY <2>1, <2>4 DEF OwnInv
      <4>2. \A b \in own'[q] : Listed(b)'
        BY <2>2, <2>4, <3>1, <4>1 DEF Listed
      <4>. QED  BY <2>2, <2>5, <3>1, <4>2
    <3>2. CASE q # o
      BY <2>1, <2>3, <2>4, <3>2 DEF OwnInv
    <3>. QED  BY <3>1, <3>2
  <2>. QED  BY <2>6 DEF OwnInv
<1>8. ASSUME NEW b \in Blocks, Recycle(b) PROVE OwnInv'
  BY <1>1, <1>8 DEF Recycle, log, code, InOp
<1>9. CASE WriteLog \/ WriteHead \/ Install \/ Replay
  <2>1. lh' = lh /\ UNCHANGED code
    BY <1>9 DEF WriteLog, WriteHead, Install, Replay, log
  <2>. QED  BY <1>1, <2>1 DEF code, InOp
<1>10. CASE Clear \/ Recovered \/ ReadHead \/ Crash
  <2>1. InOp' = {}
    BY <1>10 DEF Clear, Recovered, ReadHead, Crash, Erase, code, InOp, StageInv
  <2>. QED  BY <2>1 DEF OwnInv
<1>. QED
  BY <1>2, <1>3, <1>4, <1>5, <1>6, <1>7, <1>8, <1>9, <1>10 DEF Next

\* begin_op lets in anybody when nobody is inside and no commit runs.
LEMMA SleeperStep == ASSUME IInv, [Next]_vars, StageInv' PROVE SleeperHasWaker'
<1>. USE DEF IInv
<1>1. CASE UNCHANGED vars
  BY <1>1 DEF vars, log, code, SleeperHasWaker
<1>2. ASSUME NEW o \in Ops, BeginSleep(o) PROVE SleeperHasWaker'
  <2>1. CASE committing \/ outstanding # 0
    BY <1>2, <2>1 DEF BeginSleep, log, SleeperHasWaker, TypeOK
  <2>2. CASE ~committing /\ outstanding = 0
    <3>1. stage = "none" /\ InOp = {}
      BY <1>2, <2>2, Inside, FS_EmptySet DEF BeginSleep, StageInv, InCommit, Up, TypeOK
    <3>2. Len(lh) = 0
      BY <3>1, EmptySeq DEF TailInv
    <3>3. HasSpace
      BY <2>2, <3>2, LogAssumption DEF HasSpace
    <3>. QED  BY <1>2, <2>2, <3>3 DEF BeginSleep, MayBegin
  <2>. QED  BY <2>1, <2>2
<1>3. ASSUME NEW o \in Ops, BeginEnter(o) \/ EndOp(o) \/ EndOpCommit(o) PROVE SleeperHasWaker'
  BY <1>3 DEF BeginEnter, EndOp, EndOpCommit, SleeperHasWaker, TypeOK
<1>4. ASSUME NEW o \in Ops, EndCommit(o) PROVE SleeperHasWaker'
  BY <1>4 DEF EndCommit, Woken, SleeperHasWaker, TypeOK
<1>5. ASSUME NEW o \in Ops, Begin(o) \/ (\E b \in Blocks : Modify(o, b)) \/ LogCheck(o) \/ LogWrite(o)
      PROVE  SleeperHasWaker'
  <2>1. committing' = committing /\ outstanding' = outstanding
    BY <1>5 DEF Begin, Modify, LogCheck, LogWrite, log
  <2>2. \A q \in Ops : pc'[q] = "asleep" => pc[q] = "asleep"
    BY <1>5 DEF Begin, Modify, LogCheck, LogWrite, TypeOK
  <2>. QED  BY <2>1, <2>2 DEF SleeperHasWaker
<1>6. ASSUME NEW b \in Blocks, Recycle(b) PROVE SleeperHasWaker'
  BY <1>6 DEF Recycle, log, code, SleeperHasWaker
<1>7. CASE WriteLog \/ WriteHead \/ Install \/ Replay \/ ReadHead \/ Clear \/ Recovered
  <2>1. committing' = committing /\ outstanding' = outstanding /\ pc' = pc
    BY <1>7 DEF WriteLog, WriteHead, Install, Replay, ReadHead, Clear, Recovered, Erase, log, code
  <2>. QED  BY <2>1 DEF SleeperHasWaker
<1>8. CASE Crash
  BY <1>8 DEF Crash, SleeperHasWaker
<1>. QED
  BY <1>1, <1>2, <1>3, <1>4, <1>5, <1>6, <1>7, <1>8 DEF Next

-----------------------------------------------------------------------------
(* Theorems.                                                               *)

\* The invariant holds at the start.
LEMMA InitInv == Init => IInv
<1>. SUFFICES ASSUME Init PROVE IInv
  OBVIOUS
<1>1. InOp = {} /\ MayAdd = {}
  BY DEF Init, InOp, MayAdd
<1>2. Cardinality({}) = 0 /\ IsFiniteSet({}) /\ Len(<<>>) = 0 /\ <<>> \in Seq(Blocks)
  BY FS_EmptySet, EmptySeq
<1>3. TypeOK
  <2>1. 0 \in Data /\ 1 \in 1 .. LogSlots + 1
    BY LogAssumption DEF Data
  <2>2. home \in [Blocks -> Data] /\ logData \in [1 .. LogSlots -> Data] /\ cache \in [Blocks -> Data \cup {NotCached}]
    BY <2>1 DEF Init
  <2>3. /\ pc \in [Ops -> {"out", "begin", "asleep", "in", "modified", "logging", "commit"}]
        /\ buf \in [Ops -> Blocks \cup {NoBlock}] /\ own \in [Ops -> SUBSET Blocks]
        /\ \A o \in Ops : buf[o] # NoBlock <=> pc[o] \in {"modified", "logging"}
    BY DEF Init
  <2>. QED  BY <1>2, <2>1, <2>2, <2>3 DEF Init, TypeOK
<1>. QED  BY <1>1, <1>2, <1>3, Sizes DEF Init, IInv, StageInv, TailInv, SpaceInv, OwnInv, InCommit, Up, SleeperHasWaker

\* The inductive invariant of the log, crashes and recovery included.
THEOREM LogInvariant == Spec => []IInv
<1>1. IInv /\ [Next]_vars => IInv'
  BY TypeStep, StageStep, TailStep, SpaceStep, OwnStep, SleeperStep DEF IInv
<1>. QED  BY <1>1, InitInv, PTL DEF Spec

\* Type correctness of the log.
THEOREM LogTypeCorrect == Spec => []TypeOK
<1>1. IInv => TypeOK
  BY DEF IInv
<1>. QED  BY <1>1, LogInvariant, PTL

\* log_write never finds the log full: the reservation of begin_op is enough for any
\* number of operations, of any sizes that log.c's limits admit.
THEOREM LogNeverFull == Spec => []LogFits
<1>1. IInv => LogFits
  <2>. SUFFICES ASSUME IInv, NEW o \in Ops, pc[o] \in {"modified", "logging"}
                PROVE  ~Overflows /\ outstanding >= 1
    BY DEF LogFits
  <2>1. o \in InOp /\ outstanding = Cardinality(InOp)
    BY DEF InOp, IInv, StageInv
  <2>2. outstanding # 0 /\ outstanding \in Nat
    BY <2>1, Inside, FS_EmptySet DEF IInv
  <2>3. Len(lh) \in 0 .. LogSlots - 1
    BY ListBound DEF IInv
  <2>. QED  BY <2>2, <2>3, Sizes, LogAssumption DEF Overflows
<1>. QED  BY <1>1, LogInvariant, PTL

\* The log stays within its bounds in memory and on the disk.
THEOREM LogStaysInBounds == Spec => []LogInBounds
BY LogTypeCorrect, LogNeverFull, PTL DEF LogInBounds

\* The commit runs when no operation is inside, and outstanding counts them exactly.
THEOREM CommitIsAlone == Spec => []CommitsAlone
<1>1. IInv => CommitsAlone
  <2>. SUFFICES ASSUME IInv PROVE CommitsAlone
    OBVIOUS
  <2>1. committing => InOp = {}
    BY DEF IInv, StageInv, InCommit
  <2>. QED  BY <2>1, FS_EmptySet DEF IInv, StageInv, CommitsAlone
<1>. QED  BY <1>1, LogInvariant, PTL

\* Nobody sleeps in begin_op with nobody to wake him.
THEOREM SleeperIsWoken == Spec => []SleeperHasWaker
<1>1. IInv => SleeperHasWaker
  BY DEF IInv
<1>. QED  BY <1>1, LogInvariant, PTL

-----------------------------------------------------------------------------
(***************************************************************************)
(* Crashes at any point, recovery included, leave whole groups of          *)
(* operations: the log implements the disk of module AtomicDisk, for any   *)
(* blocks, operations and sizes.                                           *)
(***************************************************************************)

NoRepeat(s) == \A i, j \in 1 .. Len(s) : s[i] = s[j] => i = j

\* The header on the disk lists blocks from the commit proper to its erasure.
HeaderInv ==
  /\ NoRepeat(lh) /\ NoRepeat(header)
  /\ stage \in {"none", "log", "head", "done"} => header = <<>>
  /\ stage \in {"install", "clear", "replay", "erase"} => header = lh

\* What is cached; what is dirty is listed and not yet installed.
DirtyInv ==
  \A b \in Blocks :
    /\ b \in dirty => cache[b] # NotCached
    /\ (\E o \in Ops : buf[o] = b) => cache[b] # NotCached
    /\ stage \in {"none", "log", "head"} => (b \in dirty <=> Listed(b))
    /\ stage = "install" => (b \in dirty <=> \E i \in tail .. Len(lh) : lh[i] = b)
    /\ stage \notin {"none", "log", "head", "install"} => b \notin dirty
    /\ cache[b] # NotCached /\ b \notin dirty /\ (\A o \in Ops : buf[o] # b) => cache[b] = home[b]

\* Which copies of a listed block agree, as the commit or the recovery goes on.
CopyInv ==
  /\ stage = "log" => \A i \in 1 .. tail - 1 : logData[i] = cache[lh[i]]
  /\ stage = "head" => \A i \in 1 .. Len(lh) : logData[i] = cache[lh[i]]
  /\ stage = "install" => \A i \in tail .. Len(lh) : logData[i] = cache[lh[i]]
  /\ stage \in {"install", "replay"} => \A i \in 1 .. tail - 1 : home[lh[i]] = logData[i]
  /\ stage \in {"clear", "erase"} => \A i \in 1 .. Len(lh) : home[lh[i]] = logData[i]
  /\ stage = "read" => \A b \in Blocks : cache[b] = NotCached
  /\ stage = "replay" => \A i \in tail .. Len(lh) : cache[lh[i]] = NotCached

CrashInv == HeaderInv /\ DirtyInv /\ CopyInv

-----------------------------------------------------------------------------
(* Where the operations are.                                               *)

\* Buffers are held by operations that are inside, and those only before a commit.
LEMMA Holding ==
  ASSUME IInv
  PROVE  /\ \A o \in InOp : stage = "none"
         /\ \A o \in Ops : o \notin InOp => buf[o] = NoBlock
         /\ stage # "none" => \A o \in Ops, b \in Blocks : buf[o] # b
<1>1. \A o \in InOp : stage = "none"
  BY DEF IInv, StageInv
<1>2. \A o \in Ops : o \notin InOp => buf[o] = NoBlock
  BY DEF IInv, TypeOK, InOp
<1>3. stage # "none" => \A o \in Ops, b \in Blocks : buf[o] # b
  BY <1>1, <1>2, Sizes
<1> QED
  BY <1>1, <1>2, <1>3

\* The block that a commit or a recovery is at.
LEMMA AtTail ==
  ASSUME IInv, stage \in {"log", "install", "replay"}
  PROVE  /\ tail \in 1 .. Len(lh) /\ tail \in 1 .. LogSlots /\ tail \in Nat /\ Len(lh) \in Nat
         /\ lh[tail] \in Blocks /\ \A i \in 1 .. Len(lh) : lh[i] \in Blocks /\ i \in 1 .. LogSlots
<1>1. tail \in 1 .. Len(lh) /\ Len(lh) \in 0 .. LogSlots - 1
  BY ListBound DEF IInv, TailInv
<1>2. \A i \in 1 .. Len(lh) : lh[i] \in Blocks
  BY ElementOfSeq DEF IInv, TypeOK
<1> QED
  BY <1>1, <1>2, Sizes

-----------------------------------------------------------------------------
(* The invariant.                                                          *)

\* Nothing is listed, cached or dirty.
LEMMA CrashInit == Init => CrashInv
<1> SUFFICES ASSUME Init PROVE CrashInv
  OBVIOUS
<1>1. Len(lh) = 0 /\ Len(header) = 0 /\ stage = "none"
  BY EmptySeq DEF Init
<1>2. HeaderInv
  BY <1>1 DEF Init, HeaderInv, NoRepeat
<1>3. DirtyInv
  BY <1>1, Sizes DEF Init, DirtyInv, Listed
<1>4. CopyInv
  BY <1>1 DEF CopyInv
<1> QED
  BY <1>2, <1>3, <1>4 DEF CrashInv

\* A step of begin_op, of end_op without a commit, or of the end of a commit.
LEMMA OutsideStep ==
  ASSUME IInv, CrashInv, UNCHANGED <<disk, bufs, lh, buf, tail>>,
         stage' = stage \/ (stage = "done" /\ stage' = "none")
  PROVE  CrashInv'
<1> USE DEF IInv, CrashInv, disk, bufs
<1>1. HeaderInv'
  BY DEF HeaderInv
<1>2. stage = "done" => \A b \in Blocks : ~Listed(b)
  BY EmptySeq DEF TailInv, Listed
<1>3. DirtyInv'
  BY <1>2 DEF DirtyInv, Listed
<1>4. CopyInv'
  BY DEF CopyInv
<1> QED
  BY <1>1, <1>3, <1>4

\* The last end_op.
LEMMA EndOpCommitStep ==
  ASSUME IInv, CrashInv, NEW o \in Ops, EndOpCommit(o)
  PROVE  CrashInv'
<1> USE DEF IInv, CrashInv
<1>1. /\ stage = "none" /\ UNCHANGED <<disk, bufs, lh, buf>> /\ tail' = 1
      /\ stage' = IF Len(lh) > 0 THEN "log" ELSE "done"
  BY Holding DEF EndOpCommit, AfterEnd, InOp
<1>2. Len(lh) \in Nat
  BY ListBound
<1>3. HeaderInv'
  BY <1>1 DEF HeaderInv, disk
<1>4. Len(lh) = 0 => \A b \in Blocks : ~Listed(b)
  BY <1>2 DEF Listed
<1>5. DirtyInv'
  BY <1>1, <1>2, <1>4 DEF DirtyInv, Listed, disk, bufs
<1>6. CopyInv'
  BY <1>1 DEF CopyInv
<1> QED
  BY <1>3, <1>5, <1>6

\* A change of a buffer, which its operation then holds.
LEMMA ModifyStep ==
  ASSUME IInv, CrashInv, NEW o \in Ops, NEW b \in Blocks, Modify(o, b)
  PROVE  CrashInv'
<1> USE DEF IInv, CrashInv
<1>1. /\ stage = "none" /\ UNCHANGED <<disk, dirty, lh, stage, tail>>
      /\ cache' = [cache EXCEPT ![b] = writes + 1] /\ buf' = [buf EXCEPT ![o] = b]
      /\ writes + 1 # NotCached
  BY Holding DEF Modify, InOp, log, TypeOK, NotCached
<1>2. buf[o] = NoBlock
  BY DEF Modify, TypeOK
<1>3. HeaderInv'
  BY <1>1 DEF HeaderInv, disk
<1>4. cache'[b] # NotCached /\ \A c \in Blocks \ {b} : cache'[c] = cache[c]
  BY <1>1 DEF TypeOK
<1>5. buf'[o] = b /\ \A q \in Ops \ {o} : buf'[q] = buf[q]
  BY <1>1 DEF TypeOK
<1>6. DirtyInv'
  <2> SUFFICES ASSUME NEW c \in Blocks
      PROVE /\ c \in dirty' => cache'[c] # NotCached
            /\ (\E q \in Ops : buf'[q] = c) => cache'[c] # NotCached
            /\ c \in dirty' <=> Listed(c)'
            /\ cache'[c] # NotCached /\ c \notin dirty' /\ (\A q \in Ops : buf'[q] # c) => cache'[c] = home'[c]
    BY <1>1 DEF DirtyInv
  <2>1. CASE c = b
    BY <1>1, <1>4, <1>5, <2>1 DEF DirtyInv, Listed, disk
  <2>2. CASE c # b
    <3>1. (\E q \in Ops : buf'[q] = c) <=> (\E q \in Ops : buf[q] = c)
      BY <1>2, <1>5, <2>2, Sizes
    <3> QED
      BY <1>1, <1>4, <2>2, <3>1 DEF DirtyInv, Listed, disk
  <2> QED
    BY <2>1, <2>2
<1>7. CopyInv'
  BY <1>1 DEF CopyInv
<1> QED
  BY <1>3, <1>6, <1>7

\* log_write lists and pins the buffer before it is given back.
LEMMA LogWriteStep ==
  ASSUME IInv, CrashInv, NEW o \in Ops, LogWrite(o)
  PROVE  CrashInv'
<1> USE DEF IInv, CrashInv
<1>1. PICK b \in Blocks : b = buf[o]
  BY Sizes DEF LogWrite, TypeOK
<1>2. /\ stage = "none" /\ UNCHANGED <<disk, cache, stage, tail>>
      /\ lh' = IF Listed(b) THEN lh ELSE Append(lh, b)
      /\ dirty' = dirty \cup {b} /\ buf' = [buf EXCEPT ![o] = NoBlock]
  BY <1>1, Holding DEF LogWrite, InOp
<1>3. /\ Len(lh) \in Nat /\ Len(lh') \in {Len(lh), Len(lh) + 1}
      /\ \A i \in 1 .. Len(lh) : lh'[i] = lh[i]
      /\ Len(lh') = Len(lh) + 1 => lh'[Len(lh) + 1] = b /\ ~Listed(b)
  BY <1>2, ListBound, AppendProperties DEF TypeOK
<1>4. \A c \in Blocks : Listed(c)' <=> Listed(c) \/ c = b
  <2>1. Listed(b)'
    BY <1>2, <1>3, AppendProperties DEF Listed, TypeOK
  <2>2. ASSUME NEW c \in Blocks, Listed(c) PROVE Listed(c)'
    BY <1>3, <2>2 DEF Listed
  <2>3. ASSUME NEW c \in Blocks, Listed(c)', c # b PROVE Listed(c)
    BY <1>3, <2>3 DEF Listed
  <2> QED
    BY <2>1, <2>2, <2>3
<1>5. HeaderInv'
  <2>1. NoRepeat(lh)'
    BY <1>3 DEF HeaderInv, NoRepeat, Listed
  <2> QED
    BY <1>2, <2>1 DEF HeaderInv, disk
<1>6. buf'[o] # b /\ \A q \in Ops \ {o} : buf'[q] = buf[q]
  BY <1>2, Sizes DEF TypeOK
<1>7. DirtyInv'
  <2> SUFFICES ASSUME NEW c \in Blocks
      PROVE /\ c \in dirty' => cache'[c] # NotCached
            /\ (\E q \in Ops : buf'[q] = c) => cache'[c] # NotCached
            /\ c \in dirty' <=> Listed(c)'
            /\ cache'[c] # NotCached /\ c \notin dirty' /\ (\A q \in Ops : buf'[q] # c) => cache'[c] = home'[c]
    BY <1>2 DEF DirtyInv
  <2>1. CASE c = b
    BY <1>1, <1>2, <1>4, <2>1 DEF DirtyInv
  <2>2. CASE c # b
    <3>1. (\E q \in Ops : buf'[q] = c) <=> (\E q \in Ops : buf[q] = c)
      BY <1>1, <1>2, <1>6, <2>2, Sizes DEF TypeOK
    <3> QED
      BY <1>2, <1>4, <2>2, <3>1 DEF DirtyInv, disk
  <2> QED
    BY <2>1, <2>2
<1>8. CopyInv'
  BY <1>2 DEF CopyInv
<1> QED
  BY <1>5, <1>7, <1>8

\* A listed block is dirty until it is installed, so that none is recycled before.
LEMMA RecycleStep ==
  ASSUME IInv, CrashInv, NEW b \in Blocks, Recycle(b)
  PROVE  CrashInv'
<1> USE DEF IInv, CrashInv
<1>1. /\ UNCHANGED <<disk, dirty, lh, buf, stage, tail>>
      /\ cache' = [cache EXCEPT ![b] = NotCached]
      /\ b \notin dirty /\ \A o \in Ops : buf[o] # b
      /\ stage \notin {"read", "replay", "erase"}
  BY DEF Recycle, Recyclable, Up, log, code
<1>2. cache'[b] = NotCached /\ \A c \in Blocks \ {b} : cache'[c] = cache[c]
  BY <1>1 DEF TypeOK
<1>3. HeaderInv'
  BY <1>1 DEF HeaderInv, disk
<1>4. DirtyInv'
  BY <1>1, <1>2 DEF DirtyInv, Listed, disk
<1>5. CopyInv'
  <2>1. stage \in {"log", "head"} => \A i \in 1 .. Len(lh) : lh[i] # b
    BY <1>1 DEF DirtyInv, Listed
  <2>2. stage = "install" => \A i \in tail .. Len(lh) : lh[i] # b
    BY <1>1 DEF DirtyInv
  <2>3. \A i \in 1 .. Len(lh) : lh[i] \in Blocks
    BY ElementOfSeq DEF TypeOK
  <2>4. CASE stage = "log"
    <3>1. \A i \in 1 .. tail - 1 : i \in 1 .. Len(lh)
      BY <2>4, AtTail
    <3> QED
      BY <1>1, <1>2, <2>1, <2>3, <2>4, <3>1 DEF CopyInv, disk
  <2>5. CASE stage = "head"
    BY <1>1, <1>2, <2>1, <2>3, <2>5 DEF CopyInv, disk
  <2>6. CASE stage = "install"
    <3>1. \A i \in tail .. Len(lh) : i \in 1 .. Len(lh)
      BY <2>6, AtTail
    <3> QED
      BY <1>1, <1>2, <2>2, <2>3, <2>6, <3>1 DEF CopyInv, disk
  <2>7. CASE stage \notin {"log", "head", "install"}
    BY <1>1, <2>7 DEF CopyInv, disk
  <2> QED
    BY <2>4, <2>5, <2>6, <2>7
<1> QED
  BY <1>3, <1>4, <1>5

\* write_log: the buffer of a listed block is dirty, so it is cached and stays so.
LEMMA WriteLogStep ==
  ASSUME IInv, CrashInv, WriteLog
  PROVE  CrashInv' /\ cache' = cache
<1> USE DEF IInv, CrashInv
<1>1. /\ stage = "log" /\ UNCHANGED <<home, header, dirty, lh, buf>>
      /\ tail' = tail + 1 /\ stage' = IF tail = Len(lh) THEN "head" ELSE "log"
      /\ logData' = [logData EXCEPT ![tail] = Contents(lh[tail])]
      /\ cache' = [cache EXCEPT ![lh[tail]] = Contents(lh[tail])]
  BY DEF WriteLog, log, code
<1>2. /\ tail \in 1 .. Len(lh) /\ tail \in 1 .. LogSlots /\ tail \in Nat /\ Len(lh) \in Nat
      /\ lh[tail] \in Blocks /\ \A i \in 1 .. Len(lh) : lh[i] \in Blocks /\ i \in 1 .. LogSlots
  BY <1>1, AtTail
<1>3. cache[lh[tail]] # NotCached
  BY <1>1, <1>2 DEF DirtyInv, Listed
<1>4. Contents(lh[tail]) = cache[lh[tail]]
  BY <1>3 DEF Contents
<1>5. cache' = cache
  BY <1>1, <1>4 DEF TypeOK
<1>6. HeaderInv'
  BY <1>1 DEF HeaderInv
<1>7. DirtyInv'
  BY <1>1, <1>5 DEF DirtyInv, Listed
<1>8. \A i \in 1 .. tail : logData'[i] = cache[lh[i]]
  <2>1. logData'[tail] = cache[lh[tail]]
    BY <1>1, <1>2, <1>4 DEF TypeOK
  <2>2. ASSUME NEW i \in 1 .. tail - 1 PROVE logData'[i] = cache[lh[i]]
    <3>1. i \in 1 .. LogSlots /\ i # tail
      BY <1>2
    <3> QED
      BY <1>1, <3>1 DEF TypeOK, CopyInv
  <2> QED
    BY <1>2, <2>1, <2>2
<1>9. CopyInv'
  <2>1. tail' - 1 = tail
    BY <1>1, <1>2
  <2> QED
    BY <1>1, <1>2, <1>5, <1>8, <2>1 DEF CopyInv
<1> QED
  BY <1>5, <1>6, <1>7, <1>9

\* write_head.
LEMMA WriteHeadStep ==
  ASSUME IInv, CrashInv, WriteHead
  PROVE  CrashInv'
<1> USE DEF IInv, CrashInv
<1>1. /\ stage = "head" /\ stage' = "install" /\ tail' = 1 /\ header' = lh
      /\ UNCHANGED <<home, logData, cache, dirty, lh, buf>>
  BY DEF WriteHead, bufs, log, code
<1>2. HeaderInv'
  BY <1>1 DEF HeaderInv, NoRepeat
<1>3. DirtyInv'
  BY <1>1 DEF DirtyInv, Listed
<1>4. CopyInv'
  BY <1>1 DEF CopyInv
<1> QED
  BY <1>2, <1>3, <1>4

\* install_trans, in the commit and in the recovery: a block comes home.
LEMMA InstallStep ==
  ASSUME IInv, CrashInv, Install \/ Replay
  PROVE  CrashInv'
<1> USE DEF IInv, CrashInv
<1>1. /\ stage \in {"install", "replay"} /\ UNCHANGED <<logData, header, lh, buf>>
      /\ stage' = IF tail = Len(lh) THEN (IF stage = "install" THEN "clear" ELSE "erase") ELSE stage
      /\ home' = [home EXCEPT ![lh[tail]] = logData[tail]]
      /\ cache' = [cache EXCEPT ![lh[tail]] = logData[tail]]
      /\ dirty' = dirty \ {lh[tail]} /\ tail' = tail + 1
  BY DEF Install, Replay, InstallBlock, log, code
<1>2. /\ tail \in 1 .. Len(lh) /\ tail \in 1 .. LogSlots /\ tail \in Nat /\ Len(lh) \in Nat
      /\ lh[tail] \in Blocks /\ \A i \in 1 .. Len(lh) : lh[i] \in Blocks /\ i \in 1 .. LogSlots
  BY <1>1, AtTail
<1>3. PICK b \in Blocks : b = lh[tail]
  BY <1>2
<1>4. \A i \in 1 .. Len(lh) : lh[i] = b => i = tail
  BY <1>2, <1>3 DEF HeaderInv, NoRepeat
<1>5. /\ home'[b] = logData[tail] /\ cache'[b] = logData[tail] /\ logData[tail] # NotCached
      /\ \A c \in Blocks \ {b} : home'[c] = home[c] /\ cache'[c] = cache[c]
  <2>1. home'[b] = logData[tail] /\ \A c \in Blocks \ {b} : home'[c] = home[c]
    BY <1>1, <1>3 DEF TypeOK
  <2>2. cache'[b] = logData[tail] /\ \A c \in Blocks \ {b} : cache'[c] = cache[c]
    BY <1>1, <1>3 DEF TypeOK
  <2>3. logData[tail] \in 0 .. MaxWrites
    BY <1>2 DEF TypeOK, Data
  <2>4. logData[tail] # NotCached
    BY <2>3, LogAssumption DEF NotCached
  <2> QED
    BY <2>1, <2>2, <2>4
<1>6. \A o \in Ops, c \in Blocks : buf[o] # c
  BY <1>1, Holding
<1>7. HeaderInv'
  BY <1>1 DEF HeaderInv
<1>8. DirtyInv'
  <2>1. ASSUME NEW c \in Blocks, stage = "install"
        PROVE  c \in dirty' <=> \E i \in tail + 1 .. Len(lh) : lh[i] = c
    <3>1. c \in dirty <=> \E i \in tail .. Len(lh) : lh[i] = c
      BY <2>1 DEF DirtyInv
    <3>2. CASE c = b
      <4>1. \A i \in tail + 1 .. Len(lh) : i \in 1 .. Len(lh) /\ i # tail
        BY <1>2
      <4> QED
        BY <1>1, <1>3, <1>4, <3>2, <4>1
    <3>3. CASE c # b
      <4>1. (\E i \in tail .. Len(lh) : lh[i] = c) <=> \E i \in tail + 1 .. Len(lh) : lh[i] = c
        BY <1>2, <1>3, <3>3
      <4> QED
        BY <1>1, <1>3, <3>1, <3>3, <4>1
    <3> QED
      BY <3>2, <3>3
  <2>2. tail = Len(lh) => ~\E i \in tail + 1 .. Len(lh) : TRUE
    BY <1>2
  <2>3. ASSUME NEW c \in Blocks, stage = "replay" PROVE c \notin dirty'
    BY <1>1, <2>3 DEF DirtyInv
  <2>4. ASSUME NEW c \in Blocks
        PROVE  /\ c \in dirty' => cache'[c] # NotCached
               /\ cache'[c] # NotCached /\ c \notin dirty' => cache'[c] = home'[c]
    BY <1>1, <1>3, <1>5, <1>6 DEF DirtyInv
  <2> QED
    BY <1>1, <1>6, <2>1, <2>2, <2>3, <2>4 DEF DirtyInv
<1>9. \A i \in 1 .. tail : home'[lh[i]] = logData[i]
  <2>1. ASSUME NEW i \in 1 .. tail - 1 PROVE home'[lh[i]] = logData[i]
    <3>1. i \in 1 .. Len(lh) /\ i # tail
      BY <1>2
    <3>2. lh[i] \in Blocks \ {b}
      BY <1>2, <1>4, <3>1
    <3> QED
      BY <1>1, <1>5, <3>2 DEF CopyInv
  <2> QED
    BY <1>2, <1>3, <1>5, <2>1
<1>10. \A i \in tail + 1 .. Len(lh) : i \in tail .. Len(lh) /\ lh[i] \in Blocks \ {b}
  <2> SUFFICES ASSUME NEW i \in tail + 1 .. Len(lh) PROVE i \in tail .. Len(lh) /\ lh[i] \in Blocks \ {b}
    OBVIOUS
  <2>1. i \in tail .. Len(lh) /\ i \in 1 .. Len(lh) /\ i # tail
    BY <1>2
  <2> QED
    BY <1>2, <1>4, <2>1
<1>11. CopyInv'
  <2>1. tail' - 1 = tail
    BY <1>1, <1>2
  <2>2. stage = "install" => \A i \in tail + 1 .. Len(lh) : logData[i] = cache'[lh[i]]
    BY <1>5, <1>10 DEF CopyInv
  <2>3. stage = "replay" => \A i \in tail + 1 .. Len(lh) : cache'[lh[i]] = NotCached
    BY <1>5, <1>10 DEF CopyInv
  <2> QED
    BY <1>1, <1>2, <1>9, <2>1, <2>2, <2>3 DEF CopyInv
<1> QED
  BY <1>7, <1>8, <1>11

\* The header is erased when every block is at home.
LEMMA EraseStep ==
  ASSUME IInv, CrashInv, Clear \/ Recovered
  PROVE  CrashInv'
<1> USE DEF IInv, CrashInv
<1>1. /\ stage \in {"clear", "erase"} /\ stage' = IF stage = "clear" THEN "done" ELSE "none"
      /\ lh' = <<>> /\ header' = <<>> /\ UNCHANGED <<home, logData, cache, dirty, buf, tail>>
  BY DEF Clear, Recovered, Erase, bufs, code
<1>2. Len(lh') = 0 /\ Len(header') = 0
  BY <1>1, EmptySeq
<1>3. HeaderInv'
  BY <1>1, <1>2 DEF HeaderInv, NoRepeat
<1>4. DirtyInv'
  BY <1>1, <1>2 DEF DirtyInv, Listed
<1>5. CopyInv'
  BY <1>1 DEF CopyInv
<1> QED
  BY <1>3, <1>4, <1>5

\* A crash leaves the disk.
LEMMA CrashStep ==
  ASSUME IInv, CrashInv, Crash
  PROVE  CrashInv'
<1> USE DEF IInv, CrashInv
<1>1. /\ stage' = "read" /\ lh' = <<>> /\ dirty' = {} /\ UNCHANGED <<home, logData, header>>
      /\ cache' = [b \in Blocks |-> NotCached] /\ buf' = [o \in Ops |-> NoBlock]
  BY DEF Crash, disk
<1>2. Len(lh') = 0
  BY <1>1, EmptySeq
<1>3. HeaderInv'
  BY <1>1, <1>2 DEF HeaderInv, NoRepeat
<1>4. DirtyInv'
  BY <1>1, Sizes DEF DirtyInv
<1>5. CopyInv'
  BY <1>1 DEF CopyInv
<1> QED
  BY <1>3, <1>4, <1>5

\* read_head.
LEMMA ReadHeadStep ==
  ASSUME IInv, CrashInv, ReadHead
  PROVE  CrashInv'
<1> USE DEF IInv, CrashInv
<1>1. /\ stage = "read" /\ stage' = IF header = <<>> THEN "erase" ELSE "replay"
      /\ lh' = header /\ UNCHANGED <<home, logData, header, cache, dirty, buf, tail>> /\ tail = 1
  BY DEF ReadHead, disk, bufs, code, TailInv
<1>2. HeaderInv'
  BY <1>1 DEF HeaderInv
<1>3. DirtyInv'
  BY <1>1 DEF DirtyInv
<1>4. CopyInv'
  <2>1. \A i \in 1 .. Len(header) : header[i] \in Blocks
    BY ElementOfSeq DEF TypeOK
  <2>2. header = <<>> => Len(header) = 0
    BY EmptySeq
  <2> QED
    BY <1>1, <2>1, <2>2 DEF CopyInv
<1> QED
  BY <1>2, <1>3, <1>4

\* Every step keeps the invariant.
LEMMA CrashNext == IInv /\ CrashInv /\ [Next]_vars => CrashInv'
<1> SUFFICES ASSUME IInv, CrashInv, [Next]_vars PROVE CrashInv'
  OBVIOUS
<1>1. CASE UNCHANGED vars
  BY <1>1, OutsideStep DEF vars, bufs, log, code
<1>2. ASSUME NEW o \in Ops,
             Begin(o) \/ BeginEnter(o) \/ BeginSleep(o) \/ LogCheck(o) \/ EndOp(o) \/ EndCommit(o)
      PROVE  CrashInv'
  BY <1>2, OutsideStep DEF Begin, BeginEnter, BeginSleep, LogCheck, EndOp, EndCommit, bufs, log
<1>3. ASSUME NEW o \in Ops, LogWrite(o) \/ EndOpCommit(o) \/ \E b \in Blocks : Modify(o, b) PROVE CrashInv'
  BY <1>3, LogWriteStep, EndOpCommitStep, ModifyStep
<1>4. ASSUME NEW b \in Blocks, Recycle(b) PROVE CrashInv'
  BY <1>4, RecycleStep
<1>5. CASE WriteLog \/ WriteHead \/ Install \/ Clear \/ Crash \/ ReadHead \/ Replay \/ Recovered
  BY <1>5, WriteLogStep, WriteHeadStep, InstallStep, EraseStep, CrashStep, ReadHeadStep
<1> QED
  BY <1>1, <1>2, <1>3, <1>4, <1>5 DEF Next

-----------------------------------------------------------------------------
(* The copies of a block agree.                                            *)

\* With nobody inside and no commit the list is empty, and so nothing is dirty.
LEMMA Agree == IInv /\ CrashInv => CopiesAgree
<1> SUFFICES ASSUME IInv, CrashInv PROVE CopiesAgree
  OBVIOUS
<1> USE DEF IInv, CrashInv
<1>1. CacheCoherent
  <2>1. ASSUME NEW b \in Blocks, b \in dirty PROVE Listed(b)
    <3>1. stage \in {"none", "log", "head", "install"}
      BY <2>1 DEF DirtyInv
    <3>2. CASE stage = "install"
      <4>1. PICK i \in tail .. Len(lh) : lh[i] = b
        BY <2>1, <3>2 DEF DirtyInv
      <4>2. i \in 1 .. Len(lh)
        BY <3>2, AtTail
      <4> QED
        BY <4>1, <4>2 DEF Listed
    <3>3. CASE stage # "install"
      BY <2>1, <3>1, <3>3 DEF DirtyInv
    <3> QED
      BY <3>2, <3>3
  <2> QED
    BY <2>1 DEF CacheCoherent, DirtyInv
<1>2. CommittedIsHome
  <2> SUFFICES ASSUME stage = "none", outstanding = 0, NEW b \in Blocks PROVE Contents(b) = home[b]
    BY DEF CommittedIsHome
  <2>1. InOp = {}
    <3>1. IsFiniteSet(InOp) /\ Cardinality(InOp) = 0
      BY Inside DEF StageInv
    <3> QED
      BY <3>1, FS_EmptySet
  <2>2. lh = <<>>
    BY <2>1 DEF TailInv
  <2>3. ~Listed(b)
    BY <2>2, EmptySeq DEF Listed
  <2>4. b \notin dirty /\ \A o \in Ops : buf[o] # b
    BY <2>1, <2>3, Holding, Sizes DEF DirtyInv
  <2> QED
    BY <2>4 DEF DirtyInv, Contents
<1> QED
  BY <1>1, <1>2 DEF CopiesAgree

-----------------------------------------------------------------------------
(* The abstract disk.                                                      *)

\* Durable and Current as functions of the header hd, the log's blocks ld, the
\* home blocks hm and the cache ca.
Recover(hd, ld, hm) ==
  [b \in Blocks |-> IF \E i \in 1 .. Len(hd) : hd[i] = b
                      THEN ld[CHOOSE i \in 1 .. Len(hd) : hd[i] = b]
                      ELSE hm[b]]
See(ca, du) == [b \in Blocks |-> IF ca[b] = NotCached THEN du[b] ELSE ca[b]]

\* The two views of the abstract disk, from the disk and the cache.
LEMMA MapIs ==
  /\ Durable = Recover(header, logData, home)
  /\ Durable' = Recover(header', logData', home')
  /\ Current = See(cache, Durable)
  /\ Current' = See(cache', Durable')
BY DEF Durable, Recover, Current, See

\* Recovery takes a listed block from the log, and the others are at home.
LEMMA RecoverAt ==
  ASSUME NEW hd, NoRepeat(hd), NEW ld, NEW hm, NEW b \in Blocks
  PROVE  /\ \A i \in 1 .. Len(hd) : hd[i] = b => Recover(hd, ld, hm)[b] = ld[i]
         /\ (\A i \in 1 .. Len(hd) : hd[i] # b) => Recover(hd, ld, hm)[b] = hm[b]
<1>1. ASSUME NEW i \in 1 .. Len(hd), hd[i] = b PROVE Recover(hd, ld, hm)[b] = ld[i]
  <2>1. PICK j : j = CHOOSE k \in 1 .. Len(hd) : hd[k] = b
    OBVIOUS
  <2>2. j \in 1 .. Len(hd) /\ hd[j] = b
    BY <1>1, <2>1
  <2>3. j = i
    BY <1>1, <2>2 DEF NoRepeat
  <2> QED
    BY <1>1, <2>1, <2>3 DEF Recover
<1>2. (\A i \in 1 .. Len(hd) : hd[i] # b) => Recover(hd, ld, hm)[b] = hm[b]
  BY DEF Recover
<1> QED
  BY <1>1, <1>2

\* The two views are functions on the blocks.
LEMMA MapShape ==
  /\ Durable = [b \in Blocks |-> Durable[b]] /\ Durable' = [b \in Blocks |-> Durable'[b]]
  /\ Current = [b \in Blocks |-> Current[b]] /\ Current' = [b \in Blocks |-> Current'[b]]
BY DEF Durable, Current

\* Without a header on the disk recovery would change nothing.
LEMMA NoHeader ==
  ASSUME header = <<>>
  PROVE  \A b \in Blocks : Durable[b] = home[b]
<1>1. Len(header) = 0
  BY EmptySeq
<1> QED
  BY <1>1 DEF Durable

\* What recovery would make of a listed block, and of the others.
LEMMA WithHeader ==
  ASSUME HeaderInv, header = lh
  PROVE  /\ \A i \in 1 .. Len(lh), b \in Blocks : lh[i] = b => Durable[b] = logData[i]
         /\ \A b \in Blocks : ~Listed(b) => Durable[b] = home[b]
BY RecoverAt, MapIs DEF HeaderInv, Listed

\* A buffer that may be recycled agrees with what recovery would leave.
LEMMA CleanIsDurable ==
  ASSUME IInv, CrashInv, stage # "read", NEW b \in Blocks,
         cache[b] # NotCached, b \notin dirty, \A o \in Ops : buf[o] # b
  PROVE  Durable[b] = cache[b]
<1> USE DEF IInv, CrashInv
<1>1. cache[b] = home[b]
  BY DEF DirtyInv
<1>2. CASE stage \in {"none", "log", "head", "done"}
  BY <1>1, <1>2, NoHeader DEF HeaderInv
<1>3. CASE stage \in {"install", "clear", "replay", "erase"}
  <2>1. header = lh
    BY <1>3 DEF HeaderInv
  <2>2. CASE Listed(b)
    <3>1. PICK i \in 1 .. Len(lh) : lh[i] = b
      BY <2>2 DEF Listed
    <3>2. Durable[b] = logData[i]
      BY <2>1, <3>1, WithHeader
    <3>3. stage \in {"install", "replay"} => i \in 1 .. tail - 1
      <4>1. stage = "install" => i \notin tail .. Len(lh)
        BY <3>1 DEF DirtyInv
      <4>2. stage = "replay" => i \notin tail .. Len(lh)
        BY <3>1 DEF CopyInv
      <4> QED
        BY <4>1, <4>2, AtTail
    <3>4. home[b] = logData[i]
      BY <1>3, <3>1, <3>3 DEF CopyInv
    <3> QED
      BY <1>1, <3>2, <3>4
  <2>3. CASE ~Listed(b)
    BY <1>1, <2>1, <2>3, WithHeader
  <2> QED
    BY <2>2, <2>3
<1> QED
  BY <1>2, <1>3 DEF TypeOK

\* What is durable depends on the disk only.
LEMMA SameDisk == UNCHANGED disk => UNCHANGED Durable
BY DEF disk, Durable

\* And what is seen, on the cache.
LEMMA SameView == UNCHANGED <<Durable, cache>> => UNCHANGED Current
BY MapIs, Zenon DEF See

-----------------------------------------------------------------------------
(* Every step is a step of the abstract disk.                              *)

\* The blocks of mkfs are durable and seen.
LEMMA DiskInit == Init => D!Init
<1> SUFFICES ASSUME Init PROVE D!Init
  OBVIOUS
<1>1. \A b \in Blocks : Durable[b] = 0
  BY NoHeader DEF Init
<1>2. \A b \in Blocks : Current[b] = 0
  BY <1>1 DEF Init, Current
<1>3. Durable = [b \in Blocks |-> 0] /\ Current = [b \in Blocks |-> 0]
  BY <1>1, <1>2, MapShape
<1>4. InOp = {}
  BY DEF Init, InOp
<1> QED
  BY <1>3, <1>4 DEF D!Init

\* begin_op and end_op.
LEMMA InOutMaps ==
  ASSUME IInv, NEW o \in Ops, BeginEnter(o) \/ EndOp(o) \/ EndOpCommit(o)
  PROVE  D!Begin(o) \/ D!End(o)
<1>1. UNCHANGED <<Durable, Current>>
  <2>1. UNCHANGED <<disk, cache>>
    BY DEF BeginEnter, EndOp, EndOpCommit, bufs
  <2> QED
    BY <2>1, SameDisk, SameView
<1>2. CASE BeginEnter(o)
  <2>1. o \notin InOp /\ InOp' = InOp \cup {o}
    BY <1>2 DEF BeginEnter, InOp, IInv, TypeOK
  <2> QED
    BY <1>1, <2>1 DEF D!Begin
<1>3. CASE EndOp(o) \/ EndOpCommit(o)
  <2>1. o \in InOp /\ InOp' = InOp \ {o}
    BY <1>3 DEF EndOp, EndOpCommit, Woken, InOp, IInv, TypeOK
  <2> QED
    BY <1>1, <2>1 DEF D!End
<1> QED
  BY <1>2, <1>3

\* An operation's change of a buffer.
LEMMA ModifyMaps ==
  ASSUME IInv, NEW o \in Ops, NEW b \in Blocks, Modify(o, b)
  PROVE  \E v \in Data : D!Write(o, b, v)
<1>1. PICK v : v = writes + 1
  OBVIOUS
<1>2. v \in Data /\ v # NotCached
  BY <1>1, LogAssumption DEF Modify, IInv, TypeOK, Data, NotCached
<1>3. o \in InOp /\ InOp' = InOp
  BY DEF Modify, InOp, IInv, TypeOK
<1>4. UNCHANGED Durable
  BY SameDisk DEF Modify
<1>5. cache'[b] = v /\ \A c \in Blocks \ {b} : cache'[c] = cache[c]
  BY <1>1 DEF Modify, IInv, TypeOK
<1>6. \A c \in Blocks : Current'[c] = IF c = b THEN v ELSE Current[c]
  BY <1>2, <1>4, <1>5 DEF Current
<1>7. Current' = [Current EXCEPT ![b] = v]
  <2>1. [Current EXCEPT ![b] = v] = [c \in Blocks |-> IF c = b THEN v ELSE Current[c]]
    BY MapShape
  <2> QED
    BY <1>6, <2>1, MapShape
<1> QED
  BY <1>2, <1>3, <1>4, <1>7 DEF D!Write

\* write_head is the commit: nobody is inside, and what is on the disk is what is seen.
LEMMA WriteHeadMaps ==
  ASSUME IInv, CrashInv, WriteHead
  PROVE  D!Commit
<1> USE DEF IInv, CrashInv
<1>1. /\ stage = "head" /\ header' = lh /\ UNCHANGED <<home, logData, cache, pc>>
      /\ header = <<>> /\ NoRepeat(lh)
  BY DEF WriteHead, bufs, code, HeaderInv
<1>2. InOp = {} /\ InOp' = InOp
  BY <1>1 DEF StageInv, InOp
<1>3. ASSUME NEW b \in Blocks PROVE Durable'[b] = Current[b]
  <2>1. Durable[b] = home[b]
    BY <1>1, NoHeader
  <2>2. Durable' = Recover(lh, logData, home)
    BY <1>1, MapIs
  <2>3. CASE Listed(b)
    <3>1. PICK i \in 1 .. Len(lh) : lh[i] = b
      BY <2>3 DEF Listed
    <3>2. Durable'[b] = logData[i]
      BY <1>1, <2>2, <3>1, RecoverAt
    <3>3. cache[b] # NotCached /\ cache[b] = logData[i]
      BY <1>1, <2>3, <3>1 DEF DirtyInv, CopyInv
    <3> QED
      BY <3>2, <3>3 DEF Current
  <2>4. CASE ~Listed(b)
    <3>1. Durable'[b] = home[b]
      BY <1>1, <2>2, <2>4, RecoverAt DEF Listed
    <3>2. cache[b] # NotCached => cache[b] = home[b]
      BY <1>1, <2>4, Holding DEF DirtyInv
    <3> QED
      BY <2>1, <3>1, <3>2 DEF Current
  <2> QED
    BY <2>3, <2>4
<1>4. Durable' = Current
  BY <1>3, MapShape
<1>5. \A b \in Blocks : Current'[b] = Current[b]
  BY <1>1, <1>3 DEF Current
<1>6. Current' = Current
  BY <1>5, MapShape
<1> QED
  BY <1>2, <1>4, <1>6 DEF D!Commit

\* A crash, at any point.
LEMMA CrashMaps ==
  ASSUME Crash
  PROVE  D!Crash
<1>1. UNCHANGED Durable /\ cache' = [b \in Blocks |-> NotCached]
  BY SameDisk DEF Crash
<1>2. \A b \in Blocks : Current'[b] = Durable'[b]
  BY <1>1 DEF Current
<1>3. Current' = Durable'
  BY <1>2, MapShape
<1>4. InOp' = {}
  BY DEF Crash, InOp
<1> QED
  BY <1>1, <1>3, <1>4 DEF D!Crash

\* A buffer that is recycled is read again from the disk.
LEMMA RecycleStutters ==
  ASSUME IInv, CrashInv, NEW b \in Blocks, Recycle(b)
  PROVE  UNCHANGED D!dvars
<1>1. UNCHANGED Durable /\ UNCHANGED InOp
  BY SameDisk DEF Recycle, code, InOp
<1>2. /\ cache[b] # NotCached /\ b \notin dirty /\ \A o \in Ops : buf[o] # b
      /\ stage # "read" /\ cache' = [cache EXCEPT ![b] = NotCached]
  BY DEF Recycle, Recyclable, Up
<1>3. Durable[b] = cache[b]
  BY <1>2, CleanIsDurable
<1>4. cache'[b] = NotCached /\ \A c \in Blocks \ {b} : cache'[c] = cache[c]
  BY <1>2 DEF IInv, TypeOK
<1>5. \A c \in Blocks : Current'[c] = Current[c]
  BY <1>1, <1>2, <1>3, <1>4 DEF Current
<1>6. UNCHANGED Current
  BY <1>5, MapShape
<1> QED
  BY <1>1, <1>6 DEF D!dvars

\* What is written to the log does not count before the header.
LEMMA WriteLogStutters ==
  ASSUME IInv, CrashInv, WriteLog
  PROVE  UNCHANGED D!dvars
<1>1. cache' = cache
  BY WriteLogStep
<1>2. header = <<>> /\ header' = <<>> /\ home' = home /\ UNCHANGED InOp
  BY DEF WriteLog, code, InOp, CrashInv, HeaderInv
<1>3. Len(header) = 0 /\ Len(header') = 0
  BY <1>2, EmptySeq
<1>4. \A b \in Blocks : Durable[b] = home[b] /\ Durable'[b] = home[b]
  BY <1>2, <1>3 DEF Durable
<1>5. UNCHANGED Durable
  BY <1>4, MapShape
<1> QED
  BY <1>1, <1>2, <1>5, SameView DEF D!dvars

\* A block that comes home was durable, and was seen: an installation or a recovery
\* may be interrupted and begun again.
LEMMA InstallStutters ==
  ASSUME IInv, CrashInv, Install \/ Replay
  PROVE  UNCHANGED D!dvars
<1> USE DEF IInv, CrashInv
<1>1. /\ stage \in {"install", "replay"} /\ UNCHANGED <<logData, header, pc>>
      /\ home' = [home EXCEPT ![lh[tail]] = logData[tail]]
      /\ cache' = [cache EXCEPT ![lh[tail]] = logData[tail]]
  BY DEF Install, Replay, InstallBlock, code
<1>2. header = lh /\ NoRepeat(lh)
  BY <1>1 DEF HeaderInv
<1>3. tail \in 1 .. Len(lh) /\ tail \in tail .. Len(lh)
  BY <1>1, AtTail
<1>4. PICK b \in Blocks : b = lh[tail]
  BY <1>1, AtTail
<1>5. /\ cache'[b] = logData[tail]
      /\ \A c \in Blocks \ {b} : home'[c] = home[c] /\ cache'[c] = cache[c]
  BY <1>1, <1>4 DEF TypeOK
<1>6. Durable' = Recover(lh, logData, home')
  BY <1>1, <1>2, MapIs
<1>7. Durable = Recover(lh, logData, home)
  BY <1>2, MapIs
<1>8. Durable[b] = logData[tail]
  BY <1>2, <1>3, <1>4, <1>7, RecoverAt
<1>9. ASSUME NEW c \in Blocks PROVE Durable'[c] = Durable[c]
  <2>1. CASE \E i \in 1 .. Len(lh) : lh[i] = c
    BY <1>2, <1>6, <1>7, <2>1, RecoverAt
  <2>2. CASE \A i \in 1 .. Len(lh) : lh[i] # c
    <3>1. c # b
      BY <1>3, <1>4, <2>2
    <3> QED
      BY <1>2, <1>5, <1>6, <1>7, <2>2, <3>1, RecoverAt
  <2> QED
    BY <2>1, <2>2
<1>10. cache[b] \in {NotCached, logData[tail]}
  BY <1>1, <1>3, <1>4 DEF CopyInv
<1>11. ASSUME NEW c \in Blocks PROVE Current'[c] = Current[c]
  <2>1. CASE c = b
    BY <1>5, <1>8, <1>9, <1>10, <2>1 DEF Current
  <2>2. CASE c # b
    BY <1>5, <1>9, <2>2 DEF Current
  <2> QED
    BY <2>1, <2>2
<1>12. UNCHANGED Durable /\ UNCHANGED Current
  BY <1>9, <1>11, MapShape
<1>13. UNCHANGED InOp
  BY <1>1 DEF InOp
<1> QED
  BY <1>12, <1>13 DEF D!dvars

\* The header is erased when every listed block is at home.
LEMMA EraseStutters ==
  ASSUME IInv, CrashInv, Clear \/ Recovered
  PROVE  UNCHANGED D!dvars
<1> USE DEF IInv, CrashInv
<1>1. /\ stage \in {"clear", "erase"} /\ header' = <<>>
      /\ UNCHANGED <<home, logData, cache, pc>>
  BY DEF Clear, Recovered, Erase, bufs, code
<1>2. header = lh
  BY <1>1 DEF HeaderInv
<1>3. Len(header') = 0
  BY <1>1, EmptySeq
<1>4. \A b \in Blocks : Durable'[b] = home[b]
  BY <1>1, <1>3 DEF Durable
<1>5. ASSUME NEW b \in Blocks PROVE Durable[b] = home[b]
  <2>1. CASE Listed(b)
    <3>1. PICK i \in 1 .. Len(lh) : lh[i] = b
      BY <2>1 DEF Listed
    <3>2. Durable[b] = logData[i] /\ home[b] = logData[i]
      BY <1>1, <1>2, <3>1, WithHeader DEF CopyInv
    <3> QED
      BY <3>2
  <2>2. CASE ~Listed(b)
    BY <1>2, <2>2, WithHeader
  <2> QED
    BY <2>1, <2>2
<1>6. UNCHANGED Durable
  BY <1>4, <1>5, MapShape
<1>7. UNCHANGED InOp
  BY <1>1 DEF InOp
<1> QED
  BY <1>1, <1>6, <1>7, SameView DEF D!dvars

\* The other steps touch neither disk nor cache.
LEMMA OthersStutter ==
  ASSUME IInv, UNCHANGED <<disk, cache>>, UNCHANGED InOp
  PROVE  UNCHANGED D!dvars
BY SameDisk, SameView DEF D!dvars

\* Every step of the log is a commit, a write or a crash of the abstract disk, or none.
LEMMA DiskNext == IInv /\ CrashInv /\ [Next]_vars => [D!Next]_(D!dvars)
<1> SUFFICES ASSUME IInv, CrashInv, [Next]_vars PROVE [D!Next]_(D!dvars)
  OBVIOUS
<1>1. CASE UNCHANGED vars
  BY <1>1, OthersStutter DEF vars, bufs, code, InOp
<1>2. ASSUME NEW o \in Ops, Begin(o) \/ BeginSleep(o) \/ LogCheck(o) \/ LogWrite(o) \/ EndCommit(o)
      PROVE  UNCHANGED D!dvars
  <2>1. UNCHANGED InOp
    BY <1>2 DEF Begin, BeginSleep, LogCheck, LogWrite, EndCommit, Woken, InOp, IInv, TypeOK
  <2>2. UNCHANGED <<disk, cache>>
    BY <1>2 DEF Begin, BeginSleep, LogCheck, LogWrite, EndCommit, bufs
  <2> QED
    BY <2>1, <2>2, OthersStutter
<1>3. ASSUME NEW o \in Ops, BeginEnter(o) \/ EndOp(o) \/ EndOpCommit(o) PROVE D!Next
  BY <1>3, InOutMaps DEF D!Next
<1>4. ASSUME NEW o \in Ops, NEW b \in Blocks, Modify(o, b) PROVE D!Next
  BY <1>4, ModifyMaps DEF D!Next
<1>5. ASSUME NEW b \in Blocks, Recycle(b) PROVE UNCHANGED D!dvars
  BY <1>5, RecycleStutters
<1>6. CASE ReadHead
  BY <1>6, OthersStutter DEF ReadHead, bufs, code, InOp
<1>7. CASE WriteLog \/ Install \/ Replay \/ Clear \/ Recovered
  BY <1>7, WriteLogStutters, InstallStutters, EraseStutters
<1>8. CASE WriteHead \/ Crash
  BY <1>8, WriteHeadMaps, CrashMaps DEF D!Next
<1> QED
  BY <1>1, <1>2, <1>3, <1>4, <1>5, <1>6, <1>7, <1>8 DEF Next

-----------------------------------------------------------------------------
(* The theorems.                                                           *)

\* Which copies of a block agree at each point of commits, crashes and recovery.
THEOREM CrashInvariant == Spec => []CrashInv
<1> QED
  BY CrashInit, CrashNext, LogInvariant, PTL DEF Spec

\* A buffer that may be recycled equals the disk, the blocks of a transaction stay in
\* the cache, and after the last end_op everything is at home.
THEOREM LogCopiesAgree == Spec => []CopiesAgree
<1> QED
  BY Agree, CrashInvariant, LogInvariant, PTL

\* Recovery: a crash at any point, in the commit or in a recovery, leaves all of a
\* group of operations or none, and what operations see is never disturbed by the
\* log's traffic.
THEOREM LogIsAtomicDisk == Spec => ImplementsAtomicDisk
<1> QED
  BY DiskInit, DiskNext, CrashInvariant, LogInvariant, PTL DEF Spec, ImplementsAtomicDisk, D!Spec
=============================================================================
