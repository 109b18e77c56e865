----------------------------- MODULE DiskProofs -------------------------------
(***************************************************************************)
(* A disk that holds a file system goes on to hold one, and what memory    *)
(* has of it is current: for any programs, any tables and any such disk,   *)
(* whether or not it fills up.                                             *)
(***************************************************************************)
EXTENDS SysFileProofs

-----------------------------------------------------------------------------
(* What the disk holds                                                     *)

\* A valid copy that is looked at is what the disk has, unless iput has freed the inode
\* and is about to say so; whoever has the lock has a valid copy.
Mirror(f, s) ==
  LET ip == f.icache[s] IN
  /\ ip.ref > 0 /\ ip.valid /\ (f.panic = "" \/ ip.lock = None) =>
       IF ip.copy.type = "free" THEN ip.lock # None ELSE ip.copy = f.dinode[ip.inum]
  /\ f.panic = "" /\ ip.lock # None => ip.valid /\ ip.ref > 0
Mirrors(f) == \A s \in Slots : Mirror(f, s)

\* Laid, inode by inode.
LaidOut(f) ==
  /\ \A i \in Inums : Sane(f, f.dinode[i])
  /\ \A i, j \in Inums : i # j => Owned(f, i) \cap Owned(f, j) = {}
  /\ f.bitmap = UNION {Owned(f, i) : i \in Inums}

Sound(f) == Typed(f) /\ Mirrors(f) /\ (f.panic = "" => LaidOut(f))

\* Laid says the same of pairs of a block and its owner, which TLC enumerates faster.
LEMMA LaidIs == ASSUME NEW f PROVE Laid(f) <=> LaidOut(f)
<1>1. PICK U : U = UNION {Owned(f, i) \X {i} : i \in Inums}
  OBVIOUS
<1>2. \A b, i : <<b, i>> \in U <=> i \in Inums /\ b \in Owned(f, i)
  BY <1>1
<1>3. \A x \in U : x = <<x[1], x[2]>>
  BY <1>1
<1>4. (\A x, y \in U : x[1] = y[1] => x = y)
      <=> (\A i, j \in Inums : i # j => Owned(f, i) \cap Owned(f, j) = {})
  <2>1. ASSUME \A x, y \in U : x[1] = y[1] => x = y, NEW i \in Inums, NEW j \in Inums, i # j,
               NEW b \in Owned(f, i), b \in Owned(f, j)
        PROVE  FALSE
    <3>1. PICK x, y : x = <<b, i>> /\ y = <<b, j>>
      OBVIOUS
    <3>2. x \in U /\ y \in U /\ x[1] = y[1] /\ x # y
      BY <1>2, <2>1, <3>1
    <3> QED
      BY <2>1, <3>2
  <2>2. ASSUME \A i, j \in Inums : i # j => Owned(f, i) \cap Owned(f, j) = {},
               NEW x \in U, NEW y \in U, x[1] = y[1]
        PROVE  x = y
    <3>1. x = <<x[1], x[2]>> /\ y = <<y[1], y[2]>>
      BY <1>3
    <3>2. x[2] \in Inums /\ y[2] \in Inums /\ x[1] \in Owned(f, x[2]) /\ x[1] \in Owned(f, y[2])
      BY <1>2, <2>2, <3>1
    <3>3. x[2] = y[2]
      BY <2>2, <3>2
    <3> QED
      BY <2>2, <3>1, <3>3
  <2> QED
    BY <2>1, <2>2
<1>5. {x[1] : x \in U} = UNION {Owned(f, i) : i \in Inums}
  <2>1. ASSUME NEW b PROVE b \in {x[1] : x \in U} <=> \E i \in Inums : b \in Owned(f, i)
    <3>1. ASSUME NEW x \in U, b = x[1] PROVE \E i \in Inums : b \in Owned(f, i)
      BY <1>2, <1>3, <3>1
    <3>2. ASSUME NEW i \in Inums, b \in Owned(f, i) PROVE b \in {x[1] : x \in U}
      <4>1. PICK x : x = <<b, i>>
        OBVIOUS
      <4>2. x \in U /\ x[1] = b
        BY <1>2, <3>2, <4>1
      <4> QED
        BY <4>2
    <3> QED
      BY <3>1, <3>2
  <2> QED
    BY <2>1
<1> QED
  BY <1>1, <1>4, <1>5 DEF Laid, LaidOut

-----------------------------------------------------------------------------
(* Numbers of blocks and words                                             *)

\* The sizes are numbers, and 0 is neither a block nor an inode.
LEMMA Sizes ==
  /\ NINODES \in Nat /\ NBLOCKS \in Nat /\ NDIRECT \in Nat /\ BSIZE \in Nat
  /\ MAXFILE \in Nat /\ MaxSize \in Nat /\ NDIRECT <= MAXFILE /\ MAXFILE = NDIRECT + BSIZE
  /\ None = 0 /\ None \notin Blocks /\ Blocks \in SUBSET Nat /\ Inums \in SUBSET Nat /\ None \notin Inums
<1>1. NINODES \in Nat /\ NBLOCKS \in Nat /\ NDIRECT \in Nat /\ BSIZE \in Nat
  BY DiskAssumption
<1>2. MAXFILE \in Nat /\ NDIRECT <= MAXFILE /\ MAXFILE = NDIRECT + BSIZE
  BY <1>1 DEF MAXFILE
<1>3. MaxSize \in Nat
  BY <1>1, <1>2 DEF MaxSize
<1> QED
  BY <1>1, <1>2, <1>3 DEF None, Blocks, Inums

\* Where a word is.
LEMMA Division ==
  ASSUME NEW off \in Nat, off < MaxSize
  PROVE  off \div BSIZE \in Reach /\ off % BSIZE \in Words
<1>1. PICK b \in Nat, m \in Nat : b = BSIZE /\ m = MAXFILE
  BY Sizes
<1>2. b # 0
  <2>1. SUFFICES ASSUME b = 0 PROVE FALSE
    OBVIOUS
  <2>2. m * 0 = 0
    BY <1>1
  <2> QED
    BY <1>1, <2>1, <2>2 DEF MaxSize
<1>3. PICK q, r : q = off \div b /\ r = off % b
  OBVIOUS
<1>4. q \in Int /\ r \in 0 .. b - 1
  BY <1>2, <1>3
<1>5. off = b * q + r
  BY <1>2, <1>3
<1>6. q >= 0
  <2>1. SUFFICES ASSUME q <= -1 PROVE FALSE
    BY <1>4
  <2>2. b * q <= b * (-1)
    BY <1>4, <2>1
  <2> QED
    BY <1>4, <1>5, <2>2
<1>7. q < m
  <2>1. SUFFICES ASSUME m <= q PROVE FALSE
    BY <1>4
  <2>2. b * m <= b * q
    BY <1>4, <2>1
  <2>3. off < b * m
    BY <1>1 DEF MaxSize
  <2> QED
    BY <1>4, <1>5, <2>2, <2>3
<1> QED
  BY <1>1, <1>3, <1>4, <1>6, <1>7 DEF Reach, Words

-----------------------------------------------------------------------------
(* Inodes that a change leaves alone                                       *)

\* A block that an inode has at a place in reach is one of its blocks.
LEMMA InOwned ==
  ASSUME NEW f, NEW c, NEW n \in Reach, Address(f, c, n) # None
  PROVE  Address(f, c, n) \in BlocksOf(f, c)
BY DEF BlocksOf, Reach

\* So is its indirect block.
LEMMA IndirectOwned ==
  ASSUME NEW f, NEW c, c.addrs[NDIRECT] # None
  PROVE  c.addrs[NDIRECT] \in BlocksOf(f, c)
BY DEF BlocksOf

\* An inode's blocks are where they were if its indirect block has not changed.
LEMMA AddressStays ==
  ASSUME NEW f, NEW g, NEW c,
         c.addrs[NDIRECT] # None => g.data[c.addrs[NDIRECT]] = f.data[c.addrs[NDIRECT]]
  PROVE  /\ \A n : Address(g, c, n) = Address(f, c, n)
         /\ BlocksOf(g, c) = BlocksOf(f, c)
<1>1. \A n : Address(g, c, n) = Address(f, c, n)
  BY DEF Address
<1> QED
  BY <1>1 DEF BlocksOf

\* An inode whose blocks have not changed is as sound as it was.
LEMMA SaneStays ==
  ASSUME NEW f, NEW g, NEW c, IsCopy(c), Sane(f, c),
         \A b \in BlocksOf(f, c) : g.data[b] = f.data[b]
  PROVE  Sane(g, c) /\ BlocksOf(g, c) = BlocksOf(f, c)
<1>1. (\A n : Address(g, c, n) = Address(f, c, n)) /\ BlocksOf(g, c) = BlocksOf(f, c)
  BY IndirectOwned, AddressStays
<1>2. ASSUME NEW off \in 0 .. c.size - 1
      PROVE  Address(g, c, off \div BSIZE) # None /\ WordAt(g, c, off)[1] \in InumOrNone
  <2>1. off \in Nat /\ off < MaxSize
    BY Sizes DEF IsCopy
  <2>2. PICK n \in Reach : n = off \div BSIZE
    BY <2>1, Division
  <2>3. Address(f, c, n) # None /\ WordAt(f, c, off)[1] \in InumOrNone
    BY <2>2 DEF Sane
  <2>4. g.data[Address(f, c, n)] = f.data[Address(f, c, n)]
    BY <2>3, InOwned
  <2> QED
    BY <1>1, <2>2, <2>3, <2>4 DEF WordAt
<1>3. \A n \in Reach : /\ Address(g, c, n) \in BlockOrNone
                       /\ Address(g, c, n) # None => Address(g, c, n) # c.addrs[NDIRECT]
  BY <1>1 DEF Sane
<1>4. c.type = "free" => BlocksOf(g, c) = {}
  BY <1>1 DEF Sane
<1> QED
  BY <1>1, <1>2, <1>3, <1>4 DEF Sane

\* From f to g only inode i changes, and the blocks it has more were free.
Rewrites(f, g, i) ==
  /\ \A j \in Inums : j # i => g.dinode[j] = f.dinode[j]
  /\ \A b \in f.bitmap : b \notin Owned(f, i) => g.data[b] = f.data[b]
  /\ g.bitmap = (f.bitmap \ Owned(f, i)) \cup Owned(g, i)
  /\ \A b \in Owned(g, i) : b \in Owned(f, i) \/ b \notin f.bitmap
  /\ Sane(g, g.dinode[i])

\* A change that rewrites inode i, and blocks that are its own or free, keeps the disk's
\* layout.
LEMMA LaidStays ==
  ASSUME NEW f, NEW g, NEW i \in Inums, \A j \in Inums : IsCopy(f.dinode[j]), LaidOut(f), Rewrites(f, g, i)
  PROVE  LaidOut(g)
<1>1. ASSUME NEW j \in Inums, j # i
      PROVE  Sane(g, g.dinode[j]) /\ Owned(g, j) = Owned(f, j)
  <2>1. \A b \in Owned(f, j) : g.data[b] = f.data[b]
    <3>1. \A b \in Owned(f, j) : b \in f.bitmap /\ b \notin Owned(f, i)
      BY <1>1 DEF LaidOut
    <3> QED
      BY <3>1 DEF Rewrites
  <2>2. Sane(f, f.dinode[j]) /\ IsCopy(f.dinode[j]) /\ g.dinode[j] = f.dinode[j]
    BY <1>1 DEF LaidOut, Rewrites
  <2> QED
    BY <2>1, <2>2, SaneStays DEF Owned
<1>2. \A j \in Inums : Sane(g, g.dinode[j])
  BY <1>1 DEF Rewrites
<1>3. ASSUME NEW j \in Inums, j # i PROVE Owned(g, j) \cap Owned(g, i) = {}
  <2>1. Owned(f, j) \cap Owned(f, i) = {} /\ Owned(f, j) \subseteq f.bitmap
    BY <1>3 DEF LaidOut
  <2>2. \A b \in Owned(g, i) : b \in Owned(f, i) \/ b \notin f.bitmap
    BY DEF Rewrites
  <2> QED
    BY <1>1, <1>3, <2>1, <2>2
<1>4. ASSUME NEW j \in Inums, NEW k \in Inums, j # k PROVE Owned(g, j) \cap Owned(g, k) = {}
  <2>1. CASE j # i /\ k # i
    <3>1. Owned(f, j) \cap Owned(f, k) = {}
      BY <1>4 DEF LaidOut
    <3> QED
      BY <1>1, <2>1, <3>1
  <2>2. CASE j = i \/ k = i
    BY <1>3, <1>4, <2>2
  <2> QED
    BY <2>1, <2>2
<1>5. g.bitmap = UNION {Owned(g, j) : j \in Inums}
  <2>1. ASSUME NEW b \in g.bitmap PROVE \E j \in Inums : b \in Owned(g, j)
    <3>1. CASE b \in Owned(g, i)
      BY <3>1
    <3>2. CASE b \notin Owned(g, i)
      <4>1. b \in f.bitmap /\ b \notin Owned(f, i)
        BY <2>1, <3>2 DEF Rewrites
      <4>2. PICK j \in Inums : b \in Owned(f, j)
        BY <4>1 DEF LaidOut
      <4> QED
        BY <1>1, <4>1, <4>2
    <3> QED
      BY <3>1, <3>2
  <2>2. ASSUME NEW j \in Inums, NEW b \in Owned(g, j) PROVE b \in g.bitmap
    <3>1. CASE j = i
      BY <2>2, <3>1 DEF Rewrites
    <3>2. CASE j # i
      <4>1. b \in Owned(f, j) /\ Owned(f, j) \cap Owned(f, i) = {} /\ Owned(f, j) \subseteq f.bitmap
        BY <1>1, <2>2, <3>2 DEF LaidOut
      <4>2. b \in f.bitmap /\ b \notin Owned(f, i)
        BY <4>1
      <4> QED
        BY <4>2 DEF Rewrites
    <3> QED
      BY <3>1, <3>2
  <2> QED
    BY <2>1, <2>2
<1> QED
  BY <1>2, <1>4, <1>5 DEF LaidOut

-----------------------------------------------------------------------------
(* Steps on an inode                                                       *)

\* SetDisk changes the disk only.
LEMMA SetDiskIs ==
  ASSUME NEW f, IsSystem(f), NEW d, NEW b, NEW w
  PROVE  /\ SetDisk(f, d, b, w).dinode = d /\ SetDisk(f, d, b, w).bitmap = b
         /\ SetDisk(f, d, b, w).data = w /\ SetDisk(f, d, b, w).icache = f.icache
         /\ SetDisk(f, d, b, w).panic = f.panic
BY DEF SetDisk, IsSystem, SystemFields

\* The entries are those of f but for the copy in s.
CopyMoves(f, g, s, c) ==
  /\ \A t \in Slots : t # s => g.icache[t] = f.icache[t]
  /\ g.icache[s].copy = c /\ g.icache[s].valid = f.icache[s].valid
  /\ g.icache[s].inum = f.icache[s].inum /\ g.icache[s].ref = f.icache[s].ref
  /\ g.icache[s].lock = f.icache[s].lock

\* SetCopy changes one copy only.
LEMMA SetCopyIs ==
  ASSUME NEW f, IsSystem(f), NEW s \in Slots, NEW c
  PROVE  /\ SetCopy(f, s, c).dinode = f.dinode /\ SetCopy(f, s, c).bitmap = f.bitmap
         /\ SetCopy(f, s, c).data = f.data /\ SetCopy(f, s, c).panic = f.panic
         /\ CopyMoves(f, SetCopy(f, s, c), s, c)
<1>1. PICK e : e = [f.icache[s] EXCEPT !.copy = c]
  OBVIOUS
<1>2. /\ IsEntry(e) /\ e.inum = f.icache[s].inum /\ e.ref = f.icache[s].ref
      /\ e.lock = f.icache[s].lock /\ e.valid = f.icache[s].valid /\ e.copy = c
  BY <1>1 DEF IsSystem, IsEntry, EntryFields
<1>3. SetCopy(f, s, c) = SetEntry(f, s, e)
  BY <1>1 DEF SetCopy, SetEntry
<1>4. PICK g : g = SetEntry(f, s, e)
  OBVIOUS
<1>5. /\ g.dinode = f.dinode /\ g.bitmap = f.bitmap /\ g.data = f.data /\ g.panic = f.panic
  BY <1>4 DEF SetEntry, IsSystem, SystemFields
<1>6. g.icache[s] = e /\ \A t \in Slots : t # s => g.icache[t] = f.icache[t]
  BY <1>2, <1>4, SetEntryIs
<1> QED
  BY <1>2, <1>3, <1>4, <1>5, <1>6 DEF CopyMoves

\* Nothing but a panic.
Panicked(f, g) ==
  /\ g.dinode = f.dinode /\ g.bitmap = f.bitmap /\ g.data = f.data /\ g.icache = f.icache
  /\ g.panic # "" /\ IsSystem(g)

\* A panic changes nothing but the message.
LEMMA PanicIs ==
  ASSUME NEW f, IsSystem(f), NEW message, message # ""
  PROVE  Panicked(f, Panic(f, message))
<1>1. PICK g : g = Panic(f, message)
  OBVIOUS
<1>2. g = [x \in SystemFields |-> g[x]] /\ g.panic = message /\ g.icache = f.icache
  BY <1>1 DEF Panic, IsSystem, SystemFields
<1>3. g.dinode = f.dinode /\ g.bitmap = f.bitmap /\ g.data = f.data
  BY <1>1 DEF Panic, IsSystem, SystemFields
<1> QED
  BY <1>1, <1>2, <1>3 DEF IsSystem, Panicked

\* The block that balloc takes is not marked.
LEMMA FirstFreeIs ==
  ASSUME NEW f, FirstFree(f) \in Blocks
  PROVE  FirstFree(f) \notin f.bitmap
<1>0. NBLOCKS + 1 \in Nat
  BY Sizes
<1>1. (Blocks \ f.bitmap) \cup {NBLOCKS + 1} \in SUBSET Nat
  BY <1>0, Sizes
<1>2. FirstFree(f) \in (Blocks \ f.bitmap) \cup {NBLOCKS + 1}
  BY <1>1, MinIs DEF FirstFree
<1>3. NBLOCKS + 1 \notin Blocks
  BY Sizes DEF Blocks
<1> QED
  BY <1>2, <1>3

Zeroed(f, g, b) ==
  /\ b \in Blocks /\ b \notin f.bitmap /\ g.bitmap = f.bitmap \cup {b}
  /\ g.data = [f.data EXCEPT ![b] = ZeroBlock]

\* balloc marks a block that was free, with zeros in it, or panics.
LEMMA BallocIs ==
  ASSUME NEW f, IsSystem(f), Typed(f), NEW g, g = Balloc(f)
  PROVE  /\ g.dinode = f.dinode /\ g.icache = f.icache /\ IsSystem(g) /\ Typed(g)
         /\ g.panic = "" => f.panic = "" /\ Zeroed(f, g, FirstFree(f))
<1>0. Same(f, g) /\ IsSystem(g)
  BY BallocSame, SameSystem
<1>1. CASE FirstFree(f) \notin Blocks
  <2>1. g = Panic(f, "balloc: out of blocks")
    BY <1>1 DEF Balloc
  <2>2. Panicked(f, g)
    BY <2>1, PanicIs
  <2> QED
    BY <1>0, <2>2 DEF Typed, Panicked
<1>2. CASE FirstFree(f) \in Blocks
  <2>1. PICK b : b = FirstFree(f)
    OBVIOUS
  <2>2. PICK w : w = [f.data EXCEPT ![b] = ZeroBlock]
    OBVIOUS
  <2>3. g = SetDisk(f, f.dinode, f.bitmap \cup {b}, w)
    BY <1>2, <2>1, <2>2 DEF Balloc, SetDisk, IsSystem
  <2>4. /\ g.dinode = f.dinode /\ g.bitmap = f.bitmap \cup {b} /\ g.data = w
        /\ g.icache = f.icache /\ g.panic = f.panic
    BY <2>3, SetDiskIs
  <2>5. b \in Blocks /\ b \notin f.bitmap
    BY <1>2, <2>1, FirstFreeIs
  <2>6. IsBlock(ZeroBlock)
    BY DEF IsBlock, ZeroBlock, Words
  <2>7. w = [x \in Blocks |-> w[x]] /\ \A x \in Blocks : IsBlock(w[x])
    BY <2>2, <2>5, <2>6 DEF Typed
  <2>8. Typed(g)
    BY <2>4, <2>5, <2>7 DEF Typed
  <2> QED
    BY <1>0, <2>1, <2>2, <2>4, <2>5, <2>8 DEF Zeroed
<1> QED
  BY <1>1, <1>2

\* What is done to the inode in s, and to nothing else.
Works(f, g, s) ==
  /\ Same(f, g)
  /\ \A t \in Slots : /\ g.icache[t].valid = f.icache[t].valid
                      /\ g.icache[t].copy.type = f.icache[t].copy.type
                      /\ t # s => g.icache[t].copy = f.icache[t].copy
  /\ \A i \in Inums : i # f.icache[s].inum => g.dinode[i] = f.dinode[i]

\* Works is reflexive.
LEMMA WorksItself == ASSUME NEW f, IsSystem(f), NEW s PROVE Works(f, f, s)
BY SameItself DEF Works

\* Works is transitive.
LEMMA WorksTransitive ==
  ASSUME NEW f, NEW g, NEW h, NEW s \in Slots, Works(f, g, s), Works(g, h, s)
  PROVE  Works(f, h, s)
<1>1. Same(f, h) /\ g.icache[s].inum = f.icache[s].inum
  BY SameTransitive, ZenonT(60) DEF Works, Same
<1> QED
  BY <1>1 DEF Works

\* A panic within work on an inode leaves the other inodes alone.
LEMMA PanicWorks ==
  ASSUME NEW f, IsSystem(f), Typed(f), NEW g, Panicked(f, g), NEW s
  PROVE  Works(f, g, s) /\ Typed(g)
<1>1. Same(f, g)
  BY DEF Panicked, Same
<1>2. Works(f, g, s)
  BY <1>1 DEF Panicked, Works
<1>3. Typed(g)
  BY DEF Panicked, Typed
<1> QED
  BY <1>2, <1>3

\* So does a new copy of the inode.
LEMMA SetCopyWorks ==
  ASSUME NEW f, IsSystem(f), Typed(f), NEW s \in Slots, NEW c, IsCopy(c),
         c.type = f.icache[s].copy.type, NEW g, g = SetCopy(f, s, c)
  PROVE  /\ Works(f, g, s) /\ Typed(g) /\ IsSystem(g)
         /\ g.dinode = f.dinode /\ g.bitmap = f.bitmap /\ g.data = f.data /\ g.panic = f.panic
         /\ g.icache[s].copy = c
<1>1. Same(f, g) /\ IsSystem(g)
  BY SetCopySame, SameSystem
<1>2. /\ g.dinode = f.dinode /\ g.bitmap = f.bitmap /\ g.data = f.data /\ g.panic = f.panic
      /\ CopyMoves(f, g, s, c)
  BY SetCopyIs
<1>3. Works(f, g, s)
  BY <1>1, <1>2 DEF Works, CopyMoves
<1>4. Typed(g)
  BY <1>2 DEF Typed, CopyMoves
<1> QED
  BY <1>1, <1>2, <1>3, <1>4 DEF CopyMoves

\* A block more for the inode.
More(c, i, b) == [c EXCEPT !.addrs[i] = b]

\* More changes one address of a copy.
LEMMA MoreIs ==
  ASSUME NEW c, IsCopy(c), NEW i \in 0 .. NDIRECT, NEW b \in Blocks, NEW e, e = More(c, i, b)
  PROVE  /\ IsCopy(e) /\ e.type = c.type /\ e.size = c.size /\ e.addrs[i] = b
         /\ \A n \in 0 .. NDIRECT : n # i => e.addrs[n] = c.addrs[n]
<1>1. PICK a : a = [c.addrs EXCEPT ![i] = b]
  OBVIOUS
<1>2. /\ a = [n \in 0 .. NDIRECT |-> a[n]] /\ a[i] = b
      /\ \A n \in 0 .. NDIRECT : n # i => a[n] = c.addrs[n]
  BY <1>1 DEF IsCopy
<1>3. e = [c EXCEPT !.addrs = a]
  BY <1>1 DEF More
<1>4. /\ e = [x \in InodeFields |-> e[x]] /\ e.type = c.type /\ e.size = c.size
      /\ e.nlink = c.nlink /\ e.addrs = a
  BY <1>3 DEF IsCopy, InodeFields
<1> QED
  BY <1>2, <1>4 DEF IsCopy, BlockOrNone

\* What bmap does in a system that has not stopped.
Mapped(f, g, s) == IsSystem(g) /\ Typed(g) /\ Works(f, g, s) /\ g.dinode = f.dinode

\* GrowAt gives the inode a block that was free, or panics.
LEMMA GrowAtIs ==
  ASSUME NEW f, IsSystem(f), Typed(f), NEW s \in Slots, NEW i \in 0 .. NDIRECT,
         NEW g, g = GrowAt(f, s, i)
  PROVE  /\ Mapped(f, g, s)
         /\ g.panic = "" => /\ f.panic = "" /\ Zeroed(f, g, FirstFree(f))
                            /\ g.icache[s].copy = More(f.icache[s].copy, i, FirstFree(f))
<1>1. PICK h, b : h = Balloc(f) /\ b = FirstFree(f)
  OBVIOUS
<1>2. /\ h.dinode = f.dinode /\ h.icache = f.icache /\ IsSystem(h) /\ Typed(h)
      /\ h.panic = "" => f.panic = "" /\ Zeroed(f, h, b)
  BY <1>1, BallocIs
<1>3. Works(f, h, s)
  <2>1. Same(f, h)
    BY <1>1, BallocSame
  <2> QED
    BY <1>2, <2>1 DEF Works
<1>4. CASE h.panic # ""
  <2>1. g = h
    BY <1>1, <1>4 DEF GrowAt
  <2> QED
    BY <1>2, <1>3, <1>4, <2>1 DEF Mapped
<1>5. CASE h.panic = ""
  <2>1. PICK c : c = More(h.icache[s].copy, i, b)
    OBVIOUS
  <2>2. b \in Blocks /\ IsCopy(h.icache[s].copy)
    BY <1>2, <1>5 DEF Zeroed, Typed
  <2>3. IsCopy(c) /\ c.type = h.icache[s].copy.type
    BY <2>1, <2>2, MoreIs
  <2>4. g = SetCopy(h, s, c)
    BY <1>1, <1>5, <2>1 DEF GrowAt, SetCopy, More
  <2>5. /\ Works(h, g, s) /\ Typed(g) /\ IsSystem(g)
        /\ g.dinode = h.dinode /\ g.bitmap = h.bitmap /\ g.data = h.data /\ g.panic = h.panic
        /\ g.icache[s].copy = c
    <3>1. IsSystem(h) /\ Typed(h) /\ IsCopy(c) /\ c.type = h.icache[s].copy.type
      BY <1>2, <2>3
    <3> QED
      BY ONLY <2>4, <3>1, s \in Slots, SetCopyWorks
  <2>6. Works(f, g, s)
    BY <1>3, <2>5, WorksTransitive
  <2>7. Zeroed(f, g, b)
    BY <1>2, <1>5, <2>5 DEF Zeroed
  <2> QED
    BY <1>1, <1>2, <1>5, <2>1, <2>5, <2>6, <2>7 DEF Mapped
<1> QED
  BY <1>4, <1>5

-----------------------------------------------------------------------------
(* bmap                                                                    *)

Indirect(c) == c.addrs[NDIRECT]

\* The blocks of an inode are blocks, and the indirect one is none of the others.
Near(f, c) ==
  \A n \in Reach : /\ Address(f, c, n) \in BlockOrNone
                   /\ Address(f, c, n) # None => Address(f, c, n) # Indirect(c)
CopyOf(f, s) == f.icache[s].copy
BlocksAt(f, s) == BlocksOf(f, CopyOf(f, s))
AddressAt(f, s, n) == Address(f, CopyOf(f, s), n)
Base(f, s) ==
  /\ IsSystem(f) /\ Typed(f) /\ s \in Slots
  /\ Near(f, CopyOf(f, s)) /\ BlocksAt(f, s) \subseteq f.bitmap

\* The inode in s has more blocks, which were free, and n may be one of its block numbers
\* that had none.
Extends(f, g, s, n) ==
  /\ IsCopy(CopyOf(g, s)) /\ Near(g, CopyOf(g, s))
  /\ CopyOf(g, s).type = CopyOf(f, s).type /\ CopyOf(g, s).size = CopyOf(f, s).size
  /\ \A m \in Reach : m # n => AddressAt(g, s, m) = AddressAt(f, s, m)
  /\ BlocksAt(f, s) \subseteq BlocksAt(g, s)
  /\ \A b \in BlocksAt(g, s) : b \in BlocksAt(f, s) \/ b \notin f.bitmap
  /\ g.bitmap = f.bitmap \cup BlocksAt(g, s)
  /\ \A b \in f.bitmap : b # Indirect(CopyOf(f, s)) => g.data[b] = f.data[b]
  /\ Indirect(CopyOf(g, s)) = Indirect(CopyOf(f, s)) \/ Indirect(CopyOf(g, s)) \notin f.bitmap

\* The blocks of an inode: those in reach and the indirect block.
LEMMA BlocksAre ==
  ASSUME NEW f, NEW c, NEW b
  PROVE  b \in BlocksOf(f, c) <=> b # None /\ (b = Indirect(c) \/ \E m \in Reach : b = Address(f, c, m))
BY DEF BlocksOf, Indirect, Reach

\* Extends is reflexive.
LEMMA ExtendsItself ==
  ASSUME NEW f, NEW s, Base(f, s), NEW n
  PROVE  Extends(f, f, s, n)
<1>1. IsCopy(CopyOf(f, s))
  BY DEF Base, Typed, CopyOf
<1> QED
  BY <1>1 DEF Base, Extends

\* Extends is transitive.
LEMMA ExtendsTransitive ==
  ASSUME NEW f, NEW g, NEW h, NEW s, NEW n, Extends(f, g, s, n), Extends(g, h, s, n)
  PROVE  Extends(f, h, s, n)
<1>1. f.bitmap \subseteq g.bitmap
  BY DEF Extends
<1>2. \A b \in BlocksAt(h, s) : b \in BlocksAt(f, s) \/ b \notin f.bitmap
  BY <1>1 DEF Extends
<1>3. h.bitmap = f.bitmap \cup BlocksAt(h, s) /\ BlocksAt(f, s) \subseteq BlocksAt(h, s)
  BY DEF Extends
<1>4. ASSUME NEW b \in f.bitmap, b # Indirect(CopyOf(f, s)) PROVE h.data[b] = f.data[b]
  BY <1>1, <1>4 DEF Extends
<1>5. \A m \in Reach : m # n => AddressAt(h, s, m) = AddressAt(f, s, m)
  BY DEF Extends
<1>6. Indirect(CopyOf(h, s)) = Indirect(CopyOf(f, s)) \/ Indirect(CopyOf(h, s)) \notin f.bitmap
  BY <1>1 DEF Extends
<1>7. /\ IsCopy(CopyOf(h, s)) /\ Near(h, CopyOf(h, s))
      /\ CopyOf(h, s).type = CopyOf(f, s).type /\ CopyOf(h, s).size = CopyOf(f, s).size
  BY DEF Extends
<1> QED
  BY <1>2, <1>3, <1>4, <1>5, <1>6, <1>7 DEF Extends

\* What the new contents of a block do to the addresses.
LEMMA AddressIs ==
  ASSUME NEW f, NEW c, NEW n \in Reach
  PROVE  /\ n < NDIRECT => Address(f, c, n) = c.addrs[n]
         /\ n >= NDIRECT /\ Indirect(c) = None => Address(f, c, n) = None
         /\ n >= NDIRECT /\ Indirect(c) # None =>
              n - NDIRECT \in Words /\ Address(f, c, n) = f.data[Indirect(c)][n - NDIRECT][1]
<1>1. n \in Nat /\ n < NDIRECT + BSIZE /\ NDIRECT \in Nat /\ BSIZE \in Nat
  BY Sizes DEF Reach
<1>2. n >= NDIRECT => n - NDIRECT \in Words /\ ~(n < NDIRECT)
  BY <1>1 DEF Words
<1> QED
  BY <1>1, <1>2 DEF Address, Indirect

\* A place in reach is direct or behind the indirect block, never both.
LEMMA ReachIs ==
  ASSUME NEW n \in Reach
  PROVE  /\ n \in Nat /\ NDIRECT \in 0 .. NDIRECT /\ (n < NDIRECT \/ n >= NDIRECT)
         /\ n < NDIRECT => n \in 0 .. NDIRECT /\ n # NDIRECT /\ ~(n >= NDIRECT)
<1>1. NDIRECT \in Nat /\ MAXFILE \in Nat
  BY Sizes
<1> QED
  BY <1>1 DEF Reach

\* Different places behind the indirect block are different words of it.
LEMMA ReachDiffer ==
  ASSUME NEW m \in Reach, NEW n \in Reach, m # n
  PROVE  m - NDIRECT # n - NDIRECT
<1>1. m \in Nat /\ n \in Nat /\ NDIRECT \in Nat
  BY ReachIs, Sizes
<1> QED
  BY <1>1

\* The bytes below a size are in reach.
LEMMA SizeIs ==
  ASSUME NEW c, IsCopy(c)
  PROVE  c.size \in Nat /\ c.size <= MaxSize /\ \A o \in 0 .. c.size - 1 : o \in Nat /\ o < c.size /\ o < MaxSize
BY Sizes DEF IsCopy

\* What is below a number is in its range.
LEMMA BelowIs ==
  ASSUME NEW o \in Nat, NEW n \in Nat, o < n
  PROVE  o \in 0 .. n - 1
OBVIOUS

\* A word is written.
Stored(f, a, w, x) == [f EXCEPT !.data[a][w] = x]
Puts(f, g, a, w, x) ==
  /\ g.data = [b \in Blocks |-> g.data[b]]
  /\ \A b \in Blocks : b # a => g.data[b] = f.data[b]
  /\ a \in Blocks /\ w \in Words => /\ g.data[a][w] = x
                                    /\ \A v \in Words : v # w => g.data[a][v] = f.data[a][v]

\* A word that is stored changes that word only.
LEMMA StoredIs ==
  ASSUME NEW f, IsSystem(f), Typed(f), NEW a, NEW w, NEW x, NEW g, g = Stored(f, a, w, x)
  PROVE  /\ IsSystem(g) /\ Typed(g) /\ Puts(f, g, a, w, x) /\ Same(f, g)
         /\ g.dinode = f.dinode /\ g.bitmap = f.bitmap /\ g.icache = f.icache /\ g.panic = f.panic
<1>1. PICK d : d = [f.data EXCEPT ![a][w] = x]
  OBVIOUS
<1>2. g = SetDisk(f, f.dinode, f.bitmap, d)
  BY <1>1 DEF Stored, SetDisk, IsSystem, SystemFields
<1>3. IsSystem(g) /\ Same(f, g)
  BY <1>2, SetDiskSame, SameSystem
<1>4. /\ g.dinode = f.dinode /\ g.bitmap = f.bitmap /\ g.icache = f.icache /\ g.panic = f.panic
      /\ g.data = d
  BY <1>2, SetDiskIs
<1>5. f.data = [b \in Blocks |-> f.data[b]] /\ \A b \in Blocks : IsBlock(f.data[b])
  BY DEF Typed
<1>6. PICK blk : blk = [f.data[a] EXCEPT ![w] = x]
  OBVIOUS
<1>7. d = [b \in Blocks |-> IF b = a THEN blk ELSE f.data[b]]
  BY <1>1, <1>5, <1>6
<1>8. ASSUME a \in Blocks
      PROVE  /\ IsBlock(blk)
             /\ w \in Words => blk[w] = x /\ \A v \in Words : v # w => blk[v] = f.data[a][v]
  <2>1. f.data[a] = [v \in Words |-> f.data[a][v]]
    BY <1>5, <1>8 DEF IsBlock
  <2>2. blk = [v \in Words |-> IF v = w THEN x ELSE f.data[a][v]]
    BY <1>6, <2>1
  <2> QED
    BY <2>2 DEF IsBlock
<1>9. \A b \in Blocks : IsBlock(d[b])
  BY <1>5, <1>7, <1>8
<1>10. Typed(g)
  BY <1>4, <1>7, <1>9 DEF Typed
<1>11. Puts(f, g, a, w, x)
  BY <1>4, <1>7, <1>8 DEF Puts
<1> QED
  BY <1>3, <1>4, <1>10, <1>11

\* A direct block.
LEMMA GrowExtends ==
  ASSUME NEW f, NEW s, Base(f, s), NEW n \in Reach, n < NDIRECT, AddressAt(f, s, n) = None,
         NEW g, g = GrowAt(f, s, n), g.panic = ""
  PROVE  Extends(f, g, s, n) /\ AddressAt(g, s, n) \in Blocks
<1>1. PICK c, e, b : c = CopyOf(f, s) /\ e = CopyOf(g, s) /\ b = FirstFree(f)
  OBVIOUS
<1>2. n \in 0 .. NDIRECT /\ n # NDIRECT /\ NDIRECT \in 0 .. NDIRECT
  BY ReachIs
<1>3. Zeroed(f, g, b) /\ e = More(c, n, b) /\ IsCopy(c)
  <2>1. IsSystem(f) /\ Typed(f) /\ s \in Slots /\ n \in 0 .. NDIRECT
    BY <1>2 DEF Base
  <2>2. Zeroed(f, g, FirstFree(f)) /\ g.icache[s].copy = More(f.icache[s].copy, n, FirstFree(f))
    BY <2>1, GrowAtIs
  <2>3. IsCopy(f.icache[s].copy)
    BY <2>1 DEF Typed
  <2> QED
    BY <1>1, <2>2, <2>3 DEF CopyOf
<1>4. b \in Blocks /\ b # None /\ b \notin f.bitmap /\ g.bitmap = f.bitmap \cup {b}
  BY <1>3, Sizes DEF Zeroed
<1>5. /\ IsCopy(e) /\ e.type = c.type /\ e.size = c.size /\ e.addrs[n] = b
      /\ \A m \in 0 .. NDIRECT : m # n => e.addrs[m] = c.addrs[m]
  <2>1. b \in Blocks /\ IsCopy(c) /\ n \in 0 .. NDIRECT /\ e = More(c, n, b)
    BY <1>2, <1>3, <1>4
  <2> QED
    BY ONLY <2>1, MoreIs
<1>6. Indirect(e) = Indirect(c)
  BY <1>2, <1>5 DEF Indirect
<1>7. \A x \in f.bitmap : g.data[x] = f.data[x]
  BY <1>3, <1>4 DEF Zeroed, Base, Typed
<1>8. Indirect(c) = None \/ Indirect(c) \in f.bitmap
  BY <1>1, BlocksAre DEF Base, BlocksAt
<1>9. ASSUME NEW m \in Reach, m # n PROVE Address(g, e, m) = Address(f, c, m)
  <2>1. CASE m < NDIRECT
    <3>1. m \in 0 .. NDIRECT
      BY <2>1, ReachIs
    <3>2. Address(g, e, m) = e.addrs[m] /\ Address(f, c, m) = c.addrs[m]
      BY <2>1, AddressIs, ZenonT(60)
    <3> QED
      BY <1>5, <1>9, <3>1, <3>2
  <2>2. CASE m >= NDIRECT /\ Indirect(c) = None
    BY <1>6, <2>2, AddressIs, ZenonT(60)
  <2>3. CASE m >= NDIRECT /\ Indirect(c) # None
    <3>1. g.data[Indirect(c)] = f.data[Indirect(c)]
      BY <1>7, <1>8, <2>3
    <3>0. m >= NDIRECT /\ Indirect(e) # None
      BY <1>6, <2>3
    <3>2. Address(g, e, m) = g.data[Indirect(e)][m - NDIRECT][1]
      BY ONLY m \in Reach, <3>0, AddressIs
    <3>3. Address(f, c, m) = f.data[Indirect(c)][m - NDIRECT][1]
      BY <2>3, AddressIs, ZenonT(60)
    <3> QED
      BY <1>6, <3>1, <3>2, <3>3
  <2> QED
    BY <2>1, <2>2, <2>3, ReachIs
<1>10. Address(g, e, n) = b
  BY <1>5, AddressIs, ZenonT(60)
<1>11. Near(f, c) /\ \A x \in BlocksOf(f, c) : x \in f.bitmap
  BY <1>1 DEF Base, BlocksAt
<1>12. Near(g, e)
  BY <1>4, <1>6, <1>8, <1>9, <1>10, <1>11 DEF Near, BlockOrNone
<1>13. \A x : x \in BlocksOf(g, e) <=> x \in BlocksOf(f, c) \/ x = b
  <2>1. ASSUME NEW x, x \in BlocksOf(g, e) PROVE x \in BlocksOf(f, c) \/ x = b
    <3>1. x # None /\ (x = Indirect(e) \/ \E m \in Reach : x = Address(g, e, m))
      BY <2>1, BlocksAre, ZenonT(60)
    <3>2. CASE x = Indirect(e)
      BY <1>6, <3>1, <3>2, BlocksAre
    <3>3. CASE \E m \in Reach : x = Address(g, e, m)
      <4>1. PICK m \in Reach : x = Address(g, e, m)
        BY <3>3
      <4>2. m # n => x = Address(f, c, m)
        BY <1>9, <4>1
      <4> QED
        BY <1>10, <3>1, <4>1, <4>2, BlocksAre
    <3> QED
      BY <3>1, <3>2, <3>3
  <2>2. ASSUME NEW x, x \in BlocksOf(f, c) PROVE x \in BlocksOf(g, e)
    <3>1. x # None /\ (x = Indirect(c) \/ \E m \in Reach : x = Address(f, c, m))
      BY <2>2, BlocksAre, ZenonT(60)
    <3>2. Address(f, c, n) = None
      BY <1>1 DEF AddressAt
    <3> QED
      BY <1>6, <1>9, <3>1, <3>2, BlocksAre
  <2>3. b \in BlocksOf(g, e)
    BY <1>4, <1>10, BlocksAre
  <2> QED
    BY <2>1, <2>2, <2>3
<1>14. /\ BlocksOf(f, c) \subseteq BlocksOf(g, e)
       /\ \A x \in BlocksOf(g, e) : x \in BlocksOf(f, c) \/ x \notin f.bitmap
       /\ g.bitmap = f.bitmap \cup BlocksOf(g, e)
  BY <1>4, <1>11, <1>13
<1>15. /\ CopyOf(g, s) = e /\ CopyOf(f, s) = c /\ BlocksAt(g, s) = BlocksOf(g, e) /\ BlocksAt(f, s) = BlocksOf(f, c)
       /\ \A m \in Reach : AddressAt(g, s, m) = Address(g, e, m) /\ AddressAt(f, s, m) = Address(f, c, m)
  BY <1>1 DEF BlocksAt, AddressAt
<1> QED
  BY <1>4, <1>5, <1>6, <1>7, <1>9, <1>10, <1>12, <1>14, <1>15, ZenonT(60) DEF Extends

\* The indirect block.
LEMMA IndirectExtends ==
  ASSUME NEW f, NEW s, Base(f, s), NEW n \in Reach, n >= NDIRECT, Indirect(CopyOf(f, s)) = None,
         NEW g, g = GrowAt(f, s, NDIRECT), g.panic = ""
  PROVE  Extends(f, g, s, n) /\ AddressAt(g, s, n) = None /\ Indirect(CopyOf(g, s)) \in Blocks
<1>1. PICK c, e, b : c = CopyOf(f, s) /\ e = CopyOf(g, s) /\ b = FirstFree(f)
  OBVIOUS
<1>2. NDIRECT \in 0 .. NDIRECT
  BY ReachIs
<1>3. Zeroed(f, g, b) /\ e = More(c, NDIRECT, b) /\ IsCopy(c)
  <2>1. IsSystem(f) /\ Typed(f) /\ s \in Slots
    BY DEF Base
  <2>2. Zeroed(f, g, FirstFree(f)) /\ g.icache[s].copy = More(f.icache[s].copy, NDIRECT, FirstFree(f))
    BY <1>2, <2>1, GrowAtIs
  <2>3. IsCopy(f.icache[s].copy)
    BY <2>1 DEF Typed
  <2> QED
    BY <1>1, <2>2, <2>3 DEF CopyOf
<1>4. b \in Blocks /\ b # None /\ b \notin f.bitmap /\ g.bitmap = f.bitmap \cup {b}
  BY <1>3, Sizes DEF Zeroed
<1>5. /\ IsCopy(e) /\ e.type = c.type /\ e.size = c.size /\ e.addrs[NDIRECT] = b
      /\ \A m \in 0 .. NDIRECT : m # NDIRECT => e.addrs[m] = c.addrs[m]
  <2>1. b \in Blocks /\ IsCopy(c) /\ NDIRECT \in 0 .. NDIRECT /\ e = More(c, NDIRECT, b)
    BY <1>2, <1>3, <1>4
  <2> QED
    BY ONLY <2>1, MoreIs
<1>6. Indirect(e) = b /\ Indirect(c) = None
  BY <1>1, <1>5 DEF Indirect
<1>7. (\A x \in f.bitmap : g.data[x] = f.data[x]) /\ g.data[b] = ZeroBlock
  BY <1>3, <1>4 DEF Zeroed, Base, Typed
<1>8. ASSUME NEW m \in Reach PROVE Address(g, e, m) = Address(f, c, m) /\ (m >= NDIRECT => Address(g, e, m) = None)
  <2>1. CASE m < NDIRECT
    <3>1. m \in 0 .. NDIRECT /\ m # NDIRECT /\ ~(m >= NDIRECT)
      BY ONLY m \in Reach, <2>1, ReachIs
    <3>2. Address(g, e, m) = e.addrs[m] /\ Address(f, c, m) = c.addrs[m]
      BY <2>1, AddressIs, ZenonT(60)
    <3> QED
      BY <1>5, <3>1, <3>2
  <2>2. CASE m >= NDIRECT
    <3>1. Address(f, c, m) = None
      BY <1>6, <2>2, AddressIs
    <3>2. m - NDIRECT \in Words /\ Address(g, e, m) = g.data[Indirect(e)][m - NDIRECT][1]
      BY ONLY m \in Reach, <1>4, <1>6, <2>2, AddressIs
    <3>3. g.data[Indirect(e)][m - NDIRECT] = Zero
      BY <1>6, <1>7, <3>2 DEF ZeroBlock, Words
    <3>4. Zero[1] = None
      BY DEF Zero, None
    <3> QED
      BY <3>1, <3>2, <3>3, <3>4
  <2> QED
    BY <2>1, <2>2, ReachIs
<1>11. Near(f, c) /\ \A x \in BlocksOf(f, c) : x \in f.bitmap
  BY <1>1 DEF Base, BlocksAt
<1>12. Near(g, e)
  <2>1. ASSUME NEW m \in Reach, Address(g, e, m) # None PROVE Address(g, e, m) # Indirect(e)
    <3>1. Address(f, c, m) \in BlocksOf(f, c)
      BY <1>8, <2>1, BlocksAre
    <3> QED
      BY <1>4, <1>6, <1>8, <1>11, <3>1
  <2> QED
    BY <1>8, <1>11, <2>1 DEF Near
<1>13. \A x : x \in BlocksOf(g, e) <=> x \in BlocksOf(f, c) \/ x = b
  <2>1. ASSUME NEW x, x \in BlocksOf(g, e) PROVE x \in BlocksOf(f, c) \/ x = b
    <3>1. x # None /\ (x = Indirect(e) \/ \E m \in Reach : x = Address(g, e, m))
      BY ONLY <2>1, BlocksAre
    <3>2. CASE \E m \in Reach : x = Address(g, e, m)
      <4>1. PICK m \in Reach : x = Address(f, c, m)
        BY <1>8, <3>2
      <4> QED
        BY <3>1, <4>1, BlocksAre
    <3> QED
      BY <1>6, <3>1, <3>2
  <2>2. ASSUME NEW x, x \in BlocksOf(f, c) PROVE x \in BlocksOf(g, e)
    <3>1. x # None /\ (x = Indirect(c) \/ \E m \in Reach : x = Address(f, c, m))
      BY ONLY <2>2, BlocksAre
    <3>2. PICK m \in Reach : x = Address(g, e, m)
      BY <1>6, <1>8, <3>1
    <3> QED
      BY <3>1, <3>2, BlocksAre
  <2>3. b \in BlocksOf(g, e)
    BY <1>4, <1>6, BlocksAre
  <2> QED
    BY <2>1, <2>2, <2>3
<1>14. /\ BlocksOf(f, c) \subseteq BlocksOf(g, e)
       /\ \A x \in BlocksOf(g, e) : x \in BlocksOf(f, c) \/ x \notin f.bitmap
       /\ g.bitmap = f.bitmap \cup BlocksOf(g, e)
  BY <1>4, <1>11, <1>13
<1>15. /\ CopyOf(g, s) = e /\ CopyOf(f, s) = c /\ BlocksAt(g, s) = BlocksOf(g, e) /\ BlocksAt(f, s) = BlocksOf(f, c)
       /\ \A m \in Reach : AddressAt(g, s, m) = Address(g, e, m) /\ AddressAt(f, s, m) = Address(f, c, m)
  BY <1>1 DEF BlocksAt, AddressAt
<1>16. Extends(f, g, s, n)
  <2>1. /\ IsCopy(CopyOf(g, s)) /\ Near(g, CopyOf(g, s))
        /\ CopyOf(g, s).type = CopyOf(f, s).type /\ CopyOf(g, s).size = CopyOf(f, s).size
    BY <1>5, <1>12, <1>15
  <2>2. \A m \in Reach : m # n => AddressAt(g, s, m) = AddressAt(f, s, m)
    BY <1>8, <1>15
  <2>3. /\ BlocksAt(f, s) \subseteq BlocksAt(g, s)
        /\ \A x \in BlocksAt(g, s) : x \in BlocksAt(f, s) \/ x \notin f.bitmap
    BY <1>14, <1>15
  <2> QED
    BY <1>4, <1>5, <1>6, <1>7, <1>8, <1>12, <1>14, <1>15, <2>1, <2>2, <2>3 DEF Extends
<1> QED
  BY <1>4, <1>6, <1>8, <1>15, <1>16

\* A block named in the indirect block.
LEMMA WordExtends ==
  ASSUME NEW f, NEW s, Base(f, s), NEW n \in Reach, n >= NDIRECT, Indirect(CopyOf(f, s)) # None,
         AddressAt(f, s, n) = None, NEW h, h = Balloc(f), h.panic = "",
         NEW g, g = Stored(h, Indirect(CopyOf(f, s)), n - NDIRECT, <<FirstFree(f), "">>)
  PROVE  Extends(f, g, s, n) /\ AddressAt(g, s, n) \in Blocks
<1>1. PICK c, b, ind : c = CopyOf(f, s) /\ b = FirstFree(f) /\ ind = Indirect(c)
  OBVIOUS
<1>2. IsCopy(c) /\ IsSystem(f) /\ Typed(f) /\ s \in Slots
  BY <1>1 DEF Base, CopyOf, Typed
<1>3. h.icache = f.icache /\ IsSystem(h) /\ Typed(h) /\ Zeroed(f, h, b)
  BY <1>1, <1>2, BallocIs
<1>4. b \in Blocks /\ b # None /\ b \notin f.bitmap /\ h.bitmap = f.bitmap \cup {b}
  BY <1>3, Sizes DEF Zeroed
<1>5. Near(f, c) /\ \A x \in BlocksOf(f, c) : x \in f.bitmap
  BY <1>1 DEF Base, BlocksAt
<1>6. ind # None /\ ind \in f.bitmap /\ ind \in Blocks /\ ind # b
  <2>1. ind \in f.bitmap
    BY <1>1, <1>5, BlocksAre
  <2> QED
    BY <1>1, <1>2, <1>4, <2>1 DEF Typed
<1>7. PICK x : x = <<b, "">>
  OBVIOUS
<1>8. x[1] = b
  BY <1>7
<1>9. g = Stored(h, ind, n - NDIRECT, x)
  BY <1>1, <1>7
<1>10. Puts(h, g, ind, n - NDIRECT, x) /\ g.bitmap = h.bitmap /\ g.icache = h.icache
  BY ONLY <1>3, <1>9, StoredIs
<1>11. CopyOf(g, s) = c
  BY <1>1, <1>3, <1>10 DEF CopyOf
<1>12. \A y \in f.bitmap : h.data[y] = f.data[y]
  BY <1>2, <1>3, <1>4 DEF Zeroed, Typed
<1>13. \A y \in f.bitmap : y # ind => g.data[y] = f.data[y]
  BY <1>2, <1>10, <1>12, ZenonT(60) DEF Puts, Typed
<1>14. n - NDIRECT \in Words
  BY <1>1, <1>6, AddressIs
<1>15. /\ g.data[ind][n - NDIRECT] = x
       /\ \A v \in Words : v # n - NDIRECT => g.data[ind][v] = f.data[ind][v]
  BY <1>6, <1>10, <1>12, <1>14, ZenonT(60) DEF Puts
<1>16. Address(g, c, n) = b
  BY ONLY n \in Reach, n >= NDIRECT, <1>1, <1>6, <1>8, <1>15, AddressIs
<1>17. ASSUME NEW m \in Reach, m # n PROVE Address(g, c, m) = Address(f, c, m)
  <2>1. CASE m < NDIRECT
    BY ONLY m \in Reach, <2>1, AddressIs
  <2>2. CASE m >= NDIRECT
    <3>1. m - NDIRECT \in Words /\ Address(g, c, m) = g.data[ind][m - NDIRECT][1]
      BY ONLY m \in Reach, <1>1, <1>6, <2>2, AddressIs
    <3>2. Address(f, c, m) = f.data[ind][m - NDIRECT][1]
      BY ONLY m \in Reach, <1>1, <1>6, <2>2, AddressIs
    <3>3. m - NDIRECT # n - NDIRECT
      BY <1>17, ReachDiffer
    <3> QED
      BY <1>15, <3>1, <3>2, <3>3
  <2> QED
    BY <2>1, <2>2, ReachIs
<1>18. Near(g, c)
  BY <1>1, <1>4, <1>5, <1>6, <1>16, <1>17 DEF Near, BlockOrNone
<1>19. \A y : y \in BlocksOf(g, c) <=> y \in BlocksOf(f, c) \/ y = b
  <2>1. ASSUME NEW y, y \in BlocksOf(g, c) PROVE y \in BlocksOf(f, c) \/ y = b
    <3>1. y # None /\ (y = Indirect(c) \/ \E m \in Reach : y = Address(g, c, m))
      BY ONLY <2>1, BlocksAre
    <3>2. CASE y = Indirect(c)
      BY <3>1, <3>2, BlocksAre
    <3>3. CASE \E m \in Reach : y = Address(g, c, m)
      <4>1. PICK m \in Reach : y = Address(g, c, m)
        BY <3>3
      <4>2. m # n => y = Address(f, c, m)
        BY <1>17, <4>1
      <4> QED
        BY <1>16, <3>1, <4>1, <4>2, BlocksAre
    <3> QED
      BY <3>1, <3>2, <3>3
  <2>2. ASSUME NEW y, y \in BlocksOf(f, c) PROVE y \in BlocksOf(g, c)
    <3>1. y # None /\ (y = Indirect(c) \/ \E m \in Reach : y = Address(f, c, m))
      BY ONLY <2>2, BlocksAre
    <3>2. Address(f, c, n) = None
      BY <1>1 DEF AddressAt
    <3> QED
      BY <1>17, <3>1, <3>2, BlocksAre
  <2>3. b \in BlocksOf(g, c)
    BY <1>4, <1>16, BlocksAre
  <2> QED
    BY <2>1, <2>2, <2>3
<1>20. /\ BlocksOf(f, c) \subseteq BlocksOf(g, c)
       /\ \A y \in BlocksOf(g, c) : y \in BlocksOf(f, c) \/ y \notin f.bitmap
       /\ g.bitmap = f.bitmap \cup BlocksOf(g, c)
  BY <1>4, <1>5, <1>10, <1>19
<1>21. /\ CopyOf(f, s) = c /\ BlocksAt(g, s) = BlocksOf(g, c) /\ BlocksAt(f, s) = BlocksOf(f, c)
       /\ \A m \in Reach : AddressAt(g, s, m) = Address(g, c, m) /\ AddressAt(f, s, m) = Address(f, c, m)
  BY <1>1, <1>11 DEF BlocksAt, AddressAt
<1>22. Extends(f, g, s, n)
  BY <1>1, <1>2, <1>11, <1>13, <1>17, <1>18, <1>20, <1>21 DEF Extends
<1> QED
  BY <1>4, <1>16, <1>21, <1>22

\* bmap in a kernel that has panicked: nothing but blocks that are marked.
Frozen(f, g) ==
  /\ IsSystem(g) /\ Typed(g) /\ g.panic # "" /\ g.dinode = f.dinode /\ g.icache = f.icache

\* After a panic balloc changes nothing that counts.
LEMMA BallocFrozen ==
  ASSUME NEW f, IsSystem(f), Typed(f), f.panic # ""
  PROVE  Frozen(f, Balloc(f)) /\ Frozen(f, f)
<1>1. PICK g : g = Balloc(f)
  OBVIOUS
<1>2. g.dinode = f.dinode /\ g.icache = f.icache /\ IsSystem(g) /\ Typed(g)
  BY <1>1, BallocIs
<1>3. g.panic # ""
  BY <1>1, BallocSame DEF Same
<1> QED
  BY <1>1, <1>2, <1>3 DEF Frozen

\* Nor does bmap.
LEMMA BmapFrozen ==
  ASSUME NEW f, IsSystem(f), Typed(f), f.panic # "", NEW s, NEW n
  PROVE  Frozen(f, Bmap(f, s, n))
<1>1. Frozen(f, Balloc(f)) /\ Frozen(f, f)
  BY BallocFrozen
<1>2. \A i : GrowAt(f, s, i) = Balloc(f)
  BY <1>1 DEF GrowAt, Frozen
<1>3. PICK g : g = IF f.icache[s].copy.addrs[NDIRECT] = None THEN GrowAt(f, s, NDIRECT) ELSE f
  OBVIOUS
<1>4. g \in {f, Balloc(f)}
  BY <1>2, <1>3
<1>5. g.panic # ""
  BY <1>1, <1>4 DEF Frozen
<1>6. Bmap(f, s, n) \in {f, Balloc(f), g}
  BY <1>2, <1>3, <1>5 DEF Bmap
<1> QED
  BY <1>1, <1>4, <1>6

\* bmap works on one inode and writes no inode to the disk.
LEMMA BmapWorks ==
  ASSUME NEW f, IsSystem(f), Typed(f), NEW s \in Slots, NEW n \in Reach
  PROVE  Mapped(f, Bmap(f, s, n), s)
<1>0. Mapped(f, f, s)
  BY WorksItself DEF Mapped
<1>1. ASSUME NEW i \in 0 .. NDIRECT PROVE Mapped(f, GrowAt(f, s, i), s)
  <2>1. PICK g : g = GrowAt(f, s, i)
    OBVIOUS
  <2>2. Mapped(f, g, s)
    BY <2>1, GrowAtIs
  <2> QED
    BY <2>1, <2>2
<1>2. PICK g : g = IF f.icache[s].copy.addrs[NDIRECT] = None THEN GrowAt(f, s, NDIRECT) ELSE f
  OBVIOUS
<1>3. NDIRECT \in 0 .. NDIRECT /\ (n < NDIRECT => n \in 0 .. NDIRECT)
  BY ReachIs
<1>4. Mapped(f, g, s)
  BY <1>0, <1>1, <1>2, <1>3
<1>5. PICK h : h = IF g.panic = "" THEN Balloc(g) ELSE g
  OBVIOUS
<1>6. Mapped(f, h, s)
  <2>1. CASE g.panic = ""
    <3>1. h.dinode = g.dinode /\ h.icache = g.icache /\ IsSystem(h) /\ Typed(h) /\ Same(g, h)
      BY <1>4, <1>5, <2>1, BallocIs, BallocSame DEF Mapped
    <3>2. Works(g, h, s)
      BY <3>1 DEF Works
    <3>3. Works(f, h, s)
      BY <1>4, <3>2, WorksTransitive DEF Mapped
    <3> QED
      BY <1>4, <3>1, <3>3 DEF Mapped
  <2> QED
    BY <1>4, <1>5, <2>1
<1>7. PICK ind, x : ind = g.icache[s].copy.addrs[NDIRECT] /\ x = <<FirstFree(g), "">>
  OBVIOUS
<1>8. PICK e : e = Stored(h, ind, n - NDIRECT, x)
  OBVIOUS
<1>9. Mapped(f, e, s)
  <2>1. /\ IsSystem(e) /\ Typed(e) /\ Same(h, e)
        /\ e.dinode = h.dinode /\ e.icache = h.icache
    BY <1>6, <1>8, StoredIs DEF Mapped
  <2>2. Works(h, e, s)
    BY <2>1 DEF Works
  <2>3. Works(f, e, s)
    BY <1>6, <2>2, WorksTransitive DEF Mapped
  <2> QED
    BY <1>6, <2>1, <2>3 DEF Mapped
<1>10. Bmap(f, s, n) = f \/ (n < NDIRECT /\ Bmap(f, s, n) = GrowAt(f, s, n)) \/ Bmap(f, s, n) \in {h, e}
  BY <1>2, <1>5, <1>7, <1>8 DEF Bmap, Stored
<1> QED
  BY <1>0, <1>1, <1>3, <1>6, <1>9, <1>10

\* What bmap relies on holds after it again.
LEMMA ExtendsBase ==
  ASSUME NEW f, NEW g, NEW s, NEW n, Base(f, s), Extends(f, g, s, n), IsSystem(g), Typed(g)
  PROVE  Base(g, s)
<1>1. BlocksAt(g, s) \subseteq g.bitmap /\ Near(g, CopyOf(g, s))
  BY DEF Extends
<1> QED
  BY <1>1 DEF Base

\* The block is there, and was perhaps before.
Maps(f, g, s, n) ==
  /\ Extends(f, g, s, n) /\ AddressAt(g, s, n) \in Blocks
  /\ AddressAt(f, s, n) # None => g = f

\* Without a panic bmap returns with a block at n; the inode has what it had, and new
\* blocks that were free.
LEMMA BmapExtends ==
  ASSUME NEW f, NEW s, Base(f, s), NEW n \in Reach, NEW g, g = Bmap(f, s, n), g.panic = ""
  PROVE  Maps(f, g, s, n)
<1>0. /\ f.icache[s].copy = CopyOf(f, s) /\ f.icache[s].copy.addrs[NDIRECT] = Indirect(CopyOf(f, s))
      /\ Address(f, f.icache[s].copy, n) = AddressAt(f, s, n)
  BY DEF CopyOf, Indirect, AddressAt
<1>1. CASE AddressAt(f, s, n) # None
  <2>1. g = f
    BY <1>0, <1>1 DEF Bmap
  <2>2. AddressAt(f, s, n) \in Blocks
    BY <1>1 DEF Base, Near, AddressAt, BlockOrNone
  <2> QED
    BY <2>1, <2>2, ExtendsItself DEF Maps
<1>2. CASE AddressAt(f, s, n) = None /\ n < NDIRECT
  <2>1. g = GrowAt(f, s, n)
    BY <1>0, <1>2 DEF Bmap
  <2>2. Extends(f, g, s, n) /\ AddressAt(g, s, n) \in Blocks
    BY ONLY <1>2, <2>1, g.panic = "", Base(f, s), n \in Reach, GrowExtends
  <2> QED
    BY <1>2, <2>2 DEF Maps
<1>3. CASE AddressAt(f, s, n) = None /\ n >= NDIRECT
  <2>1. PICK e : e = IF Indirect(CopyOf(f, s)) = None THEN GrowAt(f, s, NDIRECT) ELSE f
    OBVIOUS
  <2>2. PICK ind : ind = Indirect(CopyOf(e, s))
    OBVIOUS
  <2>3. PICK h : h = IF e.panic = "" THEN Balloc(e) ELSE e
    OBVIOUS
  <2>4. ~(n < NDIRECT)
    BY <1>3, ReachIs
  <2>5. g = IF h.panic # "" THEN h ELSE Stored(h, ind, n - NDIRECT, <<FirstFree(e), "">>)
    BY <1>0, <1>3, <2>1, <2>2, <2>3, <2>4 DEF Bmap, Stored, CopyOf, Indirect
  <2>6. h.panic = ""
    BY <2>5
  <2>7. e.panic = "" /\ h = Balloc(e)
    BY <2>3, <2>6
  <2>8. IsSystem(f) /\ Typed(f) /\ s \in Slots /\ NDIRECT \in 0 .. NDIRECT
    BY ReachIs DEF Base
  <2>9. IsSystem(e) /\ Typed(e)
    BY <2>1, <2>8, GrowAtIs DEF Mapped
  <2>10. Extends(f, e, s, n) /\ AddressAt(e, s, n) = None /\ ind # None
    <3>1. CASE Indirect(CopyOf(f, s)) = None
      <4>1. e = GrowAt(f, s, NDIRECT)
        BY <2>1, <3>1
      <4>2. Extends(f, e, s, n) /\ AddressAt(e, s, n) = None /\ Indirect(CopyOf(e, s)) \in Blocks
        BY ONLY <1>3, <2>7, <3>1, <4>1, Base(f, s), n \in Reach, IndirectExtends
      <4> QED
        BY <2>2, <4>2, Sizes
    <3>2. CASE Indirect(CopyOf(f, s)) # None
      BY <1>3, <2>1, <2>2, <3>2, ExtendsItself
    <3> QED
      BY <3>1, <3>2
  <2>11. Base(e, s)
    BY <2>9, <2>10, ExtendsBase
  <2>12. g = Stored(h, Indirect(CopyOf(e, s)), n - NDIRECT, <<FirstFree(e), "">>)
    BY <2>2, <2>5, <2>6
  <2>13. Extends(e, g, s, n) /\ AddressAt(g, s, n) \in Blocks
    <3>1. Indirect(CopyOf(e, s)) # None /\ n >= NDIRECT
      BY <1>3, <2>2, <2>10
    <3> QED
      BY ONLY <2>6, <2>7, <2>10, <2>11, <2>12, <3>1, n \in Reach, WordExtends
  <2>14. Extends(f, g, s, n)
    BY <2>10, <2>13, ExtendsTransitive
  <2> QED
    BY <1>3, <2>13, <2>14 DEF Maps
<1> QED
  BY <1>1, <1>2, <1>3, ReachIs

-----------------------------------------------------------------------------
(* What is done to an inode that is locked                                 *)

InumOf(f, s) == f.icache[s].inum

\* The inode in s, and no other, may change.
Touches(f, g, s) ==
  /\ Same(f, g)
  /\ \A t \in Slots : /\ g.icache[t].valid = f.icache[t].valid
                      /\ t # s => g.icache[t].copy = f.icache[t].copy
  /\ \A i \in Inums : i # InumOf(f, s) => g.dinode[i] = f.dinode[i]

Held(f, s) ==
  /\ IsSystem(f) /\ Once(f) /\ Sound(f) /\ s \in Slots
  /\ f.icache[s].lock # None /\ f.icache[s].ref > 0
  /\ f.panic = "" => f.icache[s].copy.type # "free"

\* What an inode that is locked is: its copy is the disk's, and its blocks are its own.
LEMMA HeldIs ==
  ASSUME NEW f, NEW s, Held(f, s)
  PROVE  /\ InumOf(f, s) \in Inums /\ IsCopy(CopyOf(f, s)) /\ Typed(f) /\ IsSystem(f) /\ s \in Slots
         /\ f.panic = "" => /\ Base(f, s) /\ LaidOut(f) /\ CopyOf(f, s) = f.dinode[InumOf(f, s)]
                            /\ Sane(f, CopyOf(f, s)) /\ BlocksAt(f, s) = Owned(f, InumOf(f, s))
                            /\ CopyOf(f, s).type # "free"
<1>1. InumOf(f, s) \in Inums /\ IsCopy(CopyOf(f, s)) /\ Typed(f) /\ IsSystem(f) /\ s \in Slots
  BY DEF Held, Sound, Typed, InumOf, CopyOf
<1>2. ASSUME f.panic = ""
      PROVE  /\ Base(f, s) /\ LaidOut(f) /\ CopyOf(f, s) = f.dinode[InumOf(f, s)]
             /\ Sane(f, CopyOf(f, s)) /\ BlocksAt(f, s) = Owned(f, InumOf(f, s))
             /\ CopyOf(f, s).type # "free"
  <2>1. Mirror(f, s) /\ LaidOut(f) /\ CopyOf(f, s).type # "free"
    BY <1>2 DEF Held, Sound, Mirrors, CopyOf
  <2>2. CopyOf(f, s) = f.dinode[InumOf(f, s)]
    BY <1>2, <2>1 DEF Held, Mirror, CopyOf, InumOf
  <2>3. Sane(f, CopyOf(f, s)) /\ BlocksAt(f, s) = Owned(f, InumOf(f, s))
    BY <1>1, <2>1, <2>2 DEF LaidOut, BlocksAt, Owned
  <2>4. BlocksAt(f, s) \subseteq f.bitmap
    BY <1>1, <2>1, <2>3 DEF LaidOut
  <2>5. Near(f, CopyOf(f, s))
    BY <2>3 DEF Sane, Near, Indirect
  <2> QED
    BY <1>1, <2>1, <2>2, <2>3, <2>4, <2>5 DEF Base
<1> QED
  BY <1>1, <1>2

\* What an inode has is what it had.
SameContents(f, g, t) ==
  /\ g.icache[t].lock = f.icache[t].lock /\ g.icache[t].copy = f.icache[t].copy
  /\ \A off \in Offsets(f, t) : Readi(g, t, off) = Readi(f, t, off)

\* No inode that is locked is freed, and those that are not in S have what they had.
Leaves(f, g, S) ==
  g.panic = "" =>
    /\ f.panic = ""
    /\ \A t \in Slots : g.icache[t].lock # None /\ g.icache[t].copy.type = "free" =>
                          f.icache[t].lock = g.icache[t].lock /\ f.icache[t].copy.type = "free"
    /\ \A t \in Slots \ S : f.icache[t].lock # None /\ f.icache[t].copy.type # "free" =>
                              SameContents(f, g, t)

\* Leaves is transitive.
LEMMA LeavesTransitive ==
  ASSUME NEW f, NEW g, NEW h, NEW S, Leaves(f, g, S), Leaves(g, h, S)
  PROVE  Leaves(f, h, S)
<1>1. SUFFICES ASSUME h.panic = "" PROVE Leaves(f, h, S)
  BY DEF Leaves
<1>2. g.panic = "" /\ f.panic = ""
  BY <1>1 DEF Leaves
<1>3. ASSUME NEW t \in Slots, h.icache[t].lock # None, h.icache[t].copy.type = "free"
      PROVE  f.icache[t].lock = h.icache[t].lock /\ f.icache[t].copy.type = "free"
  BY <1>1, <1>2, <1>3 DEF Leaves
<1>4. ASSUME NEW t \in Slots \ S, f.icache[t].lock # None, f.icache[t].copy.type # "free"
      PROVE  SameContents(f, h, t)
  <2>1. SameContents(f, g, t)
    BY <1>2, <1>4 DEF Leaves
  <2>2. g.icache[t].lock # None /\ g.icache[t].copy.type # "free" /\ Offsets(g, t) = Offsets(f, t)
    BY <1>4, <2>1 DEF SameContents, Offsets
  <2>3. SameContents(g, h, t)
    BY <1>1, <1>4, <2>2 DEF Leaves
  <2> QED
    BY <2>1, <2>2, <2>3 DEF SameContents
<1> QED
  BY <1>2, <1>3, <1>4 DEF Leaves

\* What is left alone but for S is left alone but for more.
LEMMA LeavesMore ==
  ASSUME NEW f, NEW g, NEW S, NEW T, S \subseteq T, Leaves(f, g, S)
  PROVE  Leaves(f, g, T)
BY DEF Leaves

\* Leaves is reflexive.
LEMMA LeavesItself == ASSUME NEW f, NEW S PROVE Leaves(f, f, S)
BY DEF Leaves, SameContents

\* The contents of an inode of which no block changes.
LEMMA ContentsStay ==
  ASSUME NEW f, NEW g, NEW t, IsCopy(CopyOf(f, t)), Sane(f, CopyOf(f, t)),
         g.icache[t].lock = f.icache[t].lock, g.icache[t].copy = f.icache[t].copy,
         \A b \in BlocksAt(f, t) : g.data[b] = f.data[b]
  PROVE  SameContents(f, g, t)
<1>1. PICK c : c = CopyOf(f, t)
  OBVIOUS
<1>2. /\ f.icache[t].copy = c /\ g.icache[t].copy = c /\ IsCopy(c) /\ Sane(f, c)
      /\ \A b \in BlocksOf(f, c) : g.data[b] = f.data[b]
  BY <1>1 DEF CopyOf, BlocksAt
<1>3. \A n : Address(g, c, n) = Address(f, c, n)
  BY <1>2, IndirectOwned, AddressStays
<1>4. ASSUME NEW off \in Offsets(f, t) PROVE Readi(g, t, off) = Readi(f, t, off)
  <2>1. off \in 0 .. c.size - 1
    BY <1>2 DEF Offsets
  <2>2. off \in Nat /\ off < MaxSize
    BY <1>2, <2>1, Sizes DEF IsCopy
  <2>3. PICK n \in Reach : n = off \div BSIZE
    BY <2>2, Division
  <2>4. Address(f, c, n) # None
    BY <1>2, <2>1, <2>3 DEF Sane
  <2>5. g.data[Address(f, c, n)] = f.data[Address(f, c, n)]
    BY <1>2, <2>4, InOwned
  <2> QED
    BY <1>2, <1>3, <2>3, <2>5 DEF Readi
<1> QED
  BY <1>4 DEF SameContents

\* A change of one locked inode that ends with copy and disk equal, and that rewrites
\* only what is the inode's own or free, keeps the disk sound.
LEMMA TouchesSound ==
  ASSUME NEW f, NEW s, Held(f, s), NEW g, Touches(f, g, s), Typed(g),
         g.panic = "" => CopyOf(g, s) = g.dinode[InumOf(f, s)] /\ Rewrites(f, g, InumOf(f, s))
  PROVE  /\ Sound(g) /\ Once(g) /\ IsSystem(g) /\ (g.panic = "" => f.panic = "")
         /\ g.panic = "" => \A t \in Slots \ {s} :
              f.icache[t].lock # None /\ f.icache[t].copy.type # "free" => SameContents(f, g, t)
<1>1. Same(f, g) /\ IsSystem(g) /\ Once(g) /\ (g.panic = "" => f.panic = "")
  BY SameOnce DEF Touches, Same, Held
<1>2. Typed(f) /\ Mirrors(f) /\ (f.panic = "" => LaidOut(f))
  BY DEF Held, Sound
<1>3. ASSUME NEW t \in Slots PROVE Mirror(g, t)
  <2>0. Mirror(f, t)
    BY <1>2 DEF Mirrors
  <2>1. /\ g.icache[t].valid = f.icache[t].valid /\ g.icache[t].inum = f.icache[t].inum
        /\ g.icache[t].ref = f.icache[t].ref /\ g.icache[t].lock = f.icache[t].lock
    BY <1>1 DEF Touches, Same
  <2>2. CASE t # s
    <3>1. g.icache[t].copy = f.icache[t].copy
      BY <2>2 DEF Touches
    <3>2. ASSUME f.icache[t].ref > 0 PROVE g.dinode[f.icache[t].inum] = f.dinode[f.icache[t].inum]
      <4>1. f.icache[t].inum \in Inums /\ f.icache[t].inum # InumOf(f, s)
        BY <1>2, <2>2, <3>2 DEF Typed, Once, Held, InumOf
      <4> QED
        BY <4>1 DEF Touches
    <3> QED
      BY <1>1, <2>0, <2>1, <3>1, <3>2 DEF Mirror
  <2>3. CASE t = s
    <3>1. f.icache[s].lock # None
      BY DEF Held
    <3>2. g.panic = "" => g.icache[s].copy = g.dinode[f.icache[s].inum]
      BY DEF CopyOf, InumOf
    <3> QED
      BY <1>1, <2>0, <2>1, <2>3, <3>1, <3>2 DEF Mirror
  <2> QED
    BY <2>2, <2>3
<1>4. ASSUME g.panic = "" PROVE LaidOut(g)
  <2>1. InumOf(f, s) \in Inums
    BY HeldIs
  <2>2. \A j \in Inums : IsCopy(f.dinode[j])
    BY <1>2 DEF Typed
  <2>3. LaidOut(f) /\ Rewrites(f, g, InumOf(f, s))
    BY <1>1, <1>2, <1>4
  <2> QED
    BY ONLY <2>1, <2>2, <2>3, LaidStays
<1>5. ASSUME g.panic = "", NEW t \in Slots \ {s}, f.icache[t].lock # None, f.icache[t].copy.type # "free"
      PROVE  SameContents(f, g, t)
  <2>1. f.panic = "" /\ Rewrites(f, g, InumOf(f, s))
    BY <1>1, <1>5
  <2>2. Mirror(f, t) /\ t \in Slots
    BY <1>2 DEF Mirrors
  <2>3. f.icache[t].ref > 0
    BY <1>5, <2>1, <2>2 DEF Mirror
  <2>4. Held(f, t)
    BY <1>5, <2>3 DEF Held
  <2>5. /\ IsCopy(CopyOf(f, t)) /\ Sane(f, CopyOf(f, t)) /\ InumOf(f, t) \in Inums
        /\ BlocksAt(f, t) = Owned(f, InumOf(f, t)) /\ LaidOut(f)
    BY <2>1, <2>4, HeldIs
  <2>6. InumOf(f, t) # InumOf(f, s) /\ InumOf(f, s) \in Inums
    BY <2>3, <1>5, HeldIs DEF Held, Once, InumOf
  <2>7. \A b \in BlocksAt(f, t) : b \in f.bitmap /\ b \notin Owned(f, InumOf(f, s))
    BY <2>5, <2>6 DEF LaidOut
  <2>8. \A b \in BlocksAt(f, t) : g.data[b] = f.data[b]
    BY <2>1, <2>7 DEF Rewrites
  <2>9. g.icache[t].lock = f.icache[t].lock /\ g.icache[t].copy = f.icache[t].copy
    BY <1>1, <1>5 DEF Same, Touches
  <2> QED
    BY <2>5, <2>8, <2>9, ContentsStay
<1>6. Sound(g)
  BY <1>3, <1>4 DEF Sound, Mirrors
<1> QED
  BY <1>1, <1>5, <1>6

\* From f to g, both sound, only inodes that are locked in entries of S change.
Done(f, g, S) ==
  /\ Same(f, g) /\ Once(g) /\ Sound(g) /\ Leaves(f, g, S)
  /\ \A t \in Slots : g.icache[t].copy.type = f.icache[t].copy.type

\* Done is transitive: changes of locked inodes follow each other.
LEMMA DoneTransitive ==
  ASSUME NEW f, NEW g, NEW h, NEW S, Done(f, g, S), Done(g, h, S)
  PROVE  Done(f, h, S)
<1>1. Same(f, h) /\ Leaves(f, h, S)
  BY SameTransitive, LeavesTransitive DEF Done
<1> QED
  BY <1>1 DEF Done

\* A change of S is a change of more.
LEMMA DoneMore ==
  ASSUME NEW f, NEW g, NEW S, NEW T, S \subseteq T, Done(f, g, S)
  PROVE  Done(f, g, T)
BY LeavesMore DEF Done

\* No change is one.
LEMMA DoneItself ==
  ASSUME NEW f, NEW s, Held(f, s), NEW S
  PROVE  Done(f, f, S)
<1>1. Same(f, f) /\ Leaves(f, f, S)
  BY SameItself, LeavesItself DEF Held
<1> QED
  BY <1>1 DEF Done, Held

\* An inode that is held is held after such a change.
LEMMA HeldDone ==
  ASSUME NEW f, NEW t, Held(f, t), NEW g, NEW S, Done(f, g, S)
  PROVE  Held(g, t) /\ InumOf(g, t) = InumOf(f, t) /\ (g.panic = "" => f.panic = "")
<1>1. t \in Slots
  BY DEF Held
<1>2. /\ IsSystem(g) /\ Once(g) /\ Sound(g) /\ (g.panic = "" => f.panic = "")
      /\ g.icache[t].lock = f.icache[t].lock /\ g.icache[t].ref = f.icache[t].ref
      /\ g.icache[t].inum = f.icache[t].inum /\ g.icache[t].copy.type = f.icache[t].copy.type
  BY <1>1 DEF Done, Same
<1> QED
  BY <1>1, <1>2 DEF Held, InumOf

\* TouchesSound, as Done.
LEMMA TouchesDone ==
  ASSUME NEW f, NEW s, Held(f, s), NEW g, Works(f, g, s), Typed(g),
         g.panic = "" => CopyOf(g, s) = g.dinode[InumOf(f, s)] /\ Rewrites(f, g, InumOf(f, s))
  PROVE  Done(f, g, {s})
<1>1. Touches(f, g, s)
  BY DEF Works, Touches, InumOf
<1>2. /\ Sound(g) /\ Once(g) /\ IsSystem(g) /\ (g.panic = "" => f.panic = "")
      /\ g.panic = "" => \A t \in Slots \ {s} :
           f.icache[t].lock # None /\ f.icache[t].copy.type # "free" => SameContents(f, g, t)
  BY <1>1, TouchesSound
<1>3. Leaves(f, g, {s})
  BY <1>2 DEF Leaves, Works, Same
<1> QED
  BY <1>2, <1>3 DEF Done, Works

\* After a panic everything is Done.
LEMMA FrozenDone ==
  ASSUME NEW f, NEW s, Held(f, s), NEW g, Frozen(f, g), NEW S
  PROVE  Done(f, g, S)
<1>1. Same(f, g) /\ Once(g)
  BY DEF Frozen, Same, Held, Once
<1>2. Leaves(f, g, S)
  BY DEF Frozen, Leaves
<1>3. Sound(g)
  <2>1. Mirrors(f)
    BY DEF Held, Sound
  <2>2. Mirrors(g)
    BY <2>1 DEF Frozen, Mirrors, Mirror
  <2> QED
    BY <2>2 DEF Frozen, Sound
<1> QED
  BY <1>1, <1>2, <1>3 DEF Frozen, Done

\* iupdate of what the copy becomes.
Update(f, s, c) == Iupdate(SetCopy(f, s, c), s)

\* A new copy that iupdate has written is in the cache and on the disk.
LEMMA UpdateIs ==
  ASSUME NEW f, IsSystem(f), Typed(f), NEW s \in Slots, InumOf(f, s) \in Inums, NEW c, IsCopy(c),
         NEW g, g = Update(f, s, c)
  PROVE  /\ IsSystem(g) /\ Typed(g) /\ Touches(f, g, s)
         /\ CopyOf(g, s) = c /\ g.dinode[InumOf(f, s)] = c
         /\ g.bitmap = f.bitmap /\ g.data = f.data /\ g.panic = f.panic
         /\ c.type = f.icache[s].copy.type => Works(f, g, s)
<1>1. PICK h, i : h = SetCopy(f, s, c) /\ i = InumOf(f, s)
  OBVIOUS
<1>2. /\ h.dinode = f.dinode /\ h.bitmap = f.bitmap /\ h.data = f.data /\ h.panic = f.panic
      /\ CopyMoves(f, h, s, c) /\ Same(f, h) /\ IsSystem(h)
  BY <1>1, SetCopyIs, SetCopySame, SameSystem
<1>3. PICK d : d = [h.dinode EXCEPT ![i] = c]
  OBVIOUS
<1>4. g = SetDisk(h, d, h.bitmap, h.data)
  <2>1. h.icache[s].inum = i /\ h.icache[s].copy = c
    BY <1>1, <1>2 DEF CopyMoves, InumOf
  <2> QED
    BY <1>1, <1>2, <1>3, <2>1 DEF Update, Iupdate, SetDisk, IsSystem, SystemFields
<1>5. /\ g.dinode = d /\ g.bitmap = f.bitmap /\ g.data = f.data /\ g.icache = h.icache
      /\ g.panic = f.panic /\ Same(h, g) /\ IsSystem(g)
  BY <1>2, <1>4, SetDiskIs, SetDiskSame, SameSystem
<1>6. d = [j \in Inums |-> IF j = i THEN c ELSE f.dinode[j]] /\ i \in Inums
  BY <1>1, <1>2, <1>3 DEF Typed
<1>7. Typed(g)
  BY <1>2, <1>5, <1>6 DEF Typed, CopyMoves
<1>8. Same(f, g)
  BY <1>2, <1>5, SameTransitive
<1>9. Touches(f, g, s)
  BY <1>1, <1>2, <1>5, <1>6, <1>8 DEF Touches, CopyMoves
<1>10. c.type = f.icache[s].copy.type => Works(f, g, s)
  BY <1>1, <1>2, <1>5, <1>9 DEF Touches, Works, CopyMoves, InumOf
<1> QED
  BY <1>1, <1>2, <1>5, <1>6, <1>7, <1>9, <1>10 DEF CopyMoves, CopyOf

\* The fields of an inode but for its blocks and its size.
SameBlocks(c, e) == e.addrs = c.addrs /\ e.size = c.size

\* The same addresses and the same data are the same blocks.
LEMMA SameAddresses ==
  ASSUME NEW f, NEW g, NEW c, NEW e, e.addrs = c.addrs, g.data = f.data
  PROVE  (\A n : Address(g, e, n) = Address(f, c, n)) /\ BlocksOf(g, e) = BlocksOf(f, c)
<1>1. \A n : Address(g, e, n) = Address(f, c, n)
  BY DEF Address
<1> QED
  BY <1>1 DEF BlocksOf

\* An inode with the same blocks and size is as sound as it was.
LEMMA SameSane ==
  ASSUME NEW f, NEW g, NEW c, NEW e, SameBlocks(c, e), g.data = f.data, Sane(f, c), e.type # "free"
  PROVE  Sane(g, e)
<1>1. \A n : Address(g, e, n) = Address(f, c, n)
  BY SameAddresses DEF SameBlocks
<1>2. e.size = c.size /\ e.addrs = c.addrs
  BY DEF SameBlocks
<1>3. \A off : WordAt(g, e, off) = WordAt(f, c, off)
  BY <1>1 DEF WordAt
<1>4. \A n \in Reach : /\ Address(g, e, n) \in BlockOrNone
                       /\ Address(g, e, n) # None => Address(g, e, n) # e.addrs[NDIRECT]
  BY <1>1, <1>2 DEF Sane
<1>5. \A off \in 0 .. e.size - 1 : Address(g, e, off \div BSIZE) # None /\ WordAt(g, e, off)[1] \in InumOrNone
  BY <1>1, <1>2, <1>3 DEF Sane
<1> QED
  BY <1>4, <1>5 DEF Sane

\* A change of the link count.
LEMMA StoreDone ==
  ASSUME NEW f, NEW s, Held(f, s), NEW c, IsCopy(c), SameBlocks(CopyOf(f, s), c),
         c.type = CopyOf(f, s).type
  PROVE  Done(f, Update(f, s, c), {s})
<1>1. PICK g, i : g = Update(f, s, c) /\ i = InumOf(f, s)
  OBVIOUS
<1>2. IsSystem(f) /\ Typed(f) /\ s \in Slots /\ InumOf(f, s) \in Inums /\ c.type = f.icache[s].copy.type
  BY HeldIs DEF CopyOf
<1>3. /\ Typed(g) /\ Touches(f, g, s) /\ CopyOf(g, s) = c /\ g.dinode[i] = c
      /\ g.bitmap = f.bitmap /\ g.data = f.data /\ g.panic = f.panic /\ Works(f, g, s)
  BY <1>1, <1>2, UpdateIs
<1>4. ASSUME g.panic = "" PROVE Rewrites(f, g, i)
  <2>1. /\ CopyOf(f, s) = f.dinode[i] /\ Sane(f, CopyOf(f, s)) /\ CopyOf(f, s).type # "free"
        /\ LaidOut(f) /\ i \in Inums
    BY <1>1, <1>3, <1>4, HeldIs
  <2>2. Sane(g, c)
    BY <1>3, <2>1, SameSane
  <2>3. Owned(g, i) = Owned(f, i)
    BY <1>3, <2>1, SameAddresses DEF Owned, SameBlocks
  <2>4. Owned(f, i) \subseteq f.bitmap
    BY <2>1 DEF LaidOut
  <2>5. \A j \in Inums : j # i => g.dinode[j] = f.dinode[j]
    BY <1>1, <1>3 DEF Touches
  <2> QED
    BY <1>3, <2>2, <2>3, <2>4, <2>5 DEF Rewrites
<1> QED
  BY <1>1, <1>3, <1>4, TouchesDone

-----------------------------------------------------------------------------
(* writei                                                                  *)

\* Word off of c is x, and the words before off are what they were.
Grown(c, off) == IF off < c.size THEN c ELSE [c EXCEPT !.size = off + 1]

\* Grown has the larger of the two sizes.
LEMMA GrownIs ==
  ASSUME NEW c, IsCopy(c), NEW off \in Nat, off < MaxSize, NEW e, e = Grown(c, off)
  PROVE  /\ IsCopy(e) /\ e.addrs = c.addrs /\ e.type = c.type
         /\ e.size = IF off < c.size THEN c.size ELSE off + 1
<1>1. CASE off < c.size
  BY <1>1 DEF Grown
<1>2. CASE ~(off < c.size)
  <2>1. e = [c EXCEPT !.size = off + 1]
    BY <1>2 DEF Grown
  <2>2. /\ e = [x \in InodeFields |-> e[x]] /\ e.type = c.type /\ e.size = off + 1
        /\ e.nlink = c.nlink /\ e.addrs = c.addrs
    BY <2>1 DEF IsCopy, InodeFields
  <2>3. off + 1 \in 0 .. MaxSize
    BY Sizes
  <2> QED
    BY <1>2, <2>2, <2>3 DEF IsCopy
<1> QED
  BY <1>1, <1>2

\* What writei has done to the blocks before it looks at the size.
Written(f, g, h, s, n, off, x) ==
  /\ g = Bmap(f, s, n) /\ h = Stored(g, AddressAt(g, s, n), off % BSIZE, x)
  /\ n = off \div BSIZE

\* What the blocks hold afterwards, for the inode e.
FitsIn(f, s, off, x) == off \in Nat /\ off < MaxSize /\ off <= CopyOf(f, s).size /\ x[1] \in InumOrNone
Wrote(f, g, s, n, off, r, e) ==
  /\ Sane(r, e) /\ BlocksOf(r, e) = BlocksAt(g, s) /\ Extends(f, g, s, n)
  /\ AddressAt(g, s, n) \in BlocksAt(g, s) /\ (off < CopyOf(f, s).size => g = f)
  /\ \A b \in Blocks : b # AddressAt(g, s, n) => r.data[b] = g.data[b]

\* A word written at or below the size, in a block that bmap has found, and the size that
\* covers it, leave the inode sound.
LEMMA WrittenSane ==
  ASSUME NEW f, NEW s, Held(f, s), f.panic = "", NEW off, NEW x, FitsIn(f, s, off, x),
         NEW g, NEW h, NEW n, Written(f, g, h, s, n, off, x), g.panic = "",
         NEW e, e = Grown(CopyOf(g, s), off), NEW r, r.data = h.data
  PROVE  Wrote(f, g, s, n, off, r, e)
<1>0. off \in Nat /\ off < MaxSize /\ off <= CopyOf(f, s).size /\ x[1] \in InumOrNone
  BY DEF FitsIn
<1>1. PICK c, d, a : c = CopyOf(g, s) /\ d = CopyOf(f, s) /\ a = AddressAt(g, s, n)
  OBVIOUS
<1>2. n \in Reach /\ off % BSIZE \in Words /\ n = off \div BSIZE
  BY <1>0, Division DEF Written
<1>3. /\ Base(f, s) /\ Sane(f, d) /\ d.type # "free" /\ IsSystem(f) /\ Typed(f) /\ s \in Slots /\ IsCopy(d)
  BY <1>1, HeldIs
<1>4. g = Bmap(f, s, n) /\ h = Stored(g, a, off % BSIZE, x)
  BY <1>1 DEF Written
<1>5. /\ Extends(f, g, s, n) /\ a \in Blocks /\ (AddressAt(f, s, n) # None => g = f)
  <2>1. Base(f, s) /\ n \in Reach /\ g = Bmap(f, s, n) /\ g.panic = ""
    BY <1>2, <1>3, <1>4
  <2>2. Maps(f, g, s, n)
    BY ONLY <2>1, BmapExtends
  <2> QED
    BY <1>1, <2>2 DEF Maps
<1>6. IsSystem(g) /\ Typed(g)
  BY <1>2, <1>3, <1>4, BmapWorks DEF Mapped
<1>7. Puts(g, h, a, off % BSIZE, x)
  BY ONLY <1>4, <1>6, StoredIs
<1>8. /\ IsCopy(c) /\ Near(g, c) /\ c.type = d.type /\ c.size = d.size
      /\ \A m \in Reach : m # n => Address(g, c, m) = Address(f, d, m)
      /\ \A b \in f.bitmap : b # Indirect(d) => g.data[b] = f.data[b]
  BY <1>1, <1>5 DEF Extends, AddressAt
<1>9. /\ IsCopy(e) /\ e.addrs = c.addrs /\ e.type = c.type
      /\ e.size = IF off < c.size THEN c.size ELSE off + 1
  <2>1. e = Grown(c, off)
    BY <1>1
  <2> QED
    BY ONLY <1>0, <1>8, <2>1, GrownIs
<1>10. a = Address(g, c, n) /\ a # None /\ a # Indirect(c) /\ a \in BlocksAt(g, s)
  <2>1. a = Address(g, c, n) /\ a # None
    BY <1>1, <1>5, Sizes DEF AddressAt
  <2>2. a # Indirect(c)
    BY <1>2, <1>8, <2>1 DEF Near
  <2>3. a \in BlocksOf(g, c)
    BY <1>2, <2>1, InOwned
  <2> QED
    BY <1>1, <2>1, <2>2, <2>3 DEF BlocksAt
<1>11. /\ \A b \in Blocks : b # a => r.data[b] = g.data[b]
       /\ r.data[a][off % BSIZE] = x
       /\ \A v \in Words : v # off % BSIZE => r.data[a][v] = g.data[a][v]
  BY <1>2, <1>5, <1>7 DEF Puts
<1>12. (\A m : Address(r, e, m) = Address(g, c, m)) /\ BlocksOf(r, e) = BlocksOf(g, c)
  <2>1. c.addrs[NDIRECT] # None => r.data[c.addrs[NDIRECT]] = g.data[c.addrs[NDIRECT]]
    <3>1. NDIRECT \in 0 .. NDIRECT
      BY ONLY <1>2, ReachIs
    <3>2. c.addrs[NDIRECT] \in BlockOrNone /\ c.addrs[NDIRECT] # a
      BY <1>8, <1>10, <3>1 DEF IsCopy, Indirect
    <3> QED
      BY <1>11, <3>2 DEF BlockOrNone
  <2>2. (\A m : Address(r, c, m) = Address(g, c, m)) /\ BlocksOf(r, c) = BlocksOf(g, c)
    BY ONLY <2>1, AddressStays
  <2>3. (\A m : Address(r, e, m) = Address(r, c, m)) /\ BlocksOf(r, e) = BlocksOf(r, c)
    BY ONLY <1>9, SameAddresses
  <2> QED
    BY <2>2, <2>3
<1>13. off < d.size => g = f
  <2>1. SUFFICES ASSUME off < d.size PROVE AddressAt(f, s, n) # None
    BY <1>5
  <2>2. off \in 0 .. d.size - 1
    BY ONLY <1>0, <1>3, <2>1, SizeIs, BelowIs
  <2> QED
    BY <1>1, <1>2, <1>3, <2>2 DEF Sane, AddressAt
<1>14. ASSUME NEW o \in 0 .. e.size - 1
       PROVE  Address(r, e, o \div BSIZE) # None /\ WordAt(r, e, o)[1] \in InumOrNone
  <2>1. o \in Nat /\ o < MaxSize
    BY ONLY <1>9, o \in 0 .. e.size - 1, SizeIs
  <2>2. PICK m \in Reach, v \in Words : m = o \div BSIZE /\ v = o % BSIZE
    BY <2>1, Division
  <2>3. PICK b : b = Address(g, c, m)
    OBVIOUS
  <2>4. Address(r, e, o \div BSIZE) = b /\ WordAt(r, e, o) = r.data[b][v]
    BY <1>12, <2>2, <2>3 DEF WordAt
  <2>5. CASE o < d.size
    <3>1. o \in 0 .. d.size - 1
      BY ONLY <1>3, <2>1, <2>5, SizeIs, BelowIs
    <3>2. Address(f, d, m) # None /\ f.data[Address(f, d, m)][v][1] \in InumOrNone
      BY <1>3, <2>2, <3>1 DEF Sane, WordAt
    <3>3. b = Address(f, d, m)
      <4>1. CASE m # n
        BY <1>8, <2>3, <4>1
      <4>2. CASE m = n
        <5>1. g = f
          BY <1>1, <1>5, <3>2, <4>2 DEF AddressAt
        <5> QED
          BY <1>1, <2>3, <5>1
      <4> QED
        BY <4>1, <4>2
    <3>4. b \in Blocks /\ b \in f.bitmap /\ b # Indirect(d)
      <4>1. b \in BlocksAt(f, s)
        BY <1>1, <3>2, <3>3, InOwned DEF BlocksAt
      <4>2. b \in f.bitmap
        BY <1>3, <4>1 DEF Base
      <4>3. b # Indirect(d)
        BY <1>1, <1>3, <3>2, <3>3 DEF Base, Near
      <4> QED
        BY <1>3, <4>2, <4>3 DEF Typed
    <3>5. g.data[b] = f.data[b]
      BY <1>8, <3>4
    <3>6. CASE b # a
      BY <1>11, <2>4, <3>2, <3>3, <3>4, <3>5, <3>6
    <3>7. CASE b = a /\ v # off % BSIZE
      BY <1>11, <2>4, <3>2, <3>3, <3>5, <3>7, ZenonT(60)
    <3>8. CASE b = a /\ v = off % BSIZE
      BY <1>0, <1>11, <2>4, <3>2, <3>3, <3>8
    <3> QED
      BY <3>6, <3>7, <3>8
  <2>6. CASE ~(o < d.size)
    <3>1. o = off
      <4>1. d.size \in Nat /\ c.size = d.size /\ off <= d.size
        BY ONLY <1>1, <1>3, <1>8, <1>0, SizeIs
      <4>2. e.size = IF off < d.size THEN d.size ELSE off + 1
        BY <1>9, <4>1
      <4>3. o < e.size
        BY ONLY <1>9, o \in 0 .. e.size - 1, SizeIs
      <4> QED
        BY ONLY <2>1, <2>6, <4>1, <4>2, <4>3, <1>0
    <3>2. m = n /\ v = off % BSIZE /\ b = a
      BY <1>2, <1>10, <2>2, <2>3, <3>1
    <3> QED
      BY <1>0, <1>10, <1>11, <2>4, <3>2
  <2> QED
    BY <2>5, <2>6
<1>15. \A m \in Reach : /\ Address(r, e, m) \in BlockOrNone
                        /\ Address(r, e, m) # None => Address(r, e, m) # e.addrs[NDIRECT]
  BY <1>8, <1>9, <1>12 DEF Near, Indirect
<1>16. e.type # "free"
  BY <1>3, <1>8, <1>9
<1>17. Sane(r, e)
  BY <1>14, <1>15, <1>16 DEF Sane
<1> QED
  BY <1>1, <1>5, <1>10, <1>11, <1>12, <1>13, <1>17 DEF BlocksAt, Wrote

\* What a word that is written, and an inode that is, leaves.
Stores(f, g, a, w, x) ==
  /\ IsSystem(g) /\ Typed(g) /\ Puts(f, g, a, w, x) /\ Same(f, g)
  /\ g.dinode = f.dinode /\ g.bitmap = f.bitmap /\ g.icache = f.icache /\ g.panic = f.panic

\* The word that writei stores, in terms of its parts.
LEMMA StoresIs ==
  ASSUME NEW f, IsSystem(f), Typed(f), NEW a, NEW w, NEW x, NEW g, g = Stored(f, a, w, x)
  PROVE  Stores(f, g, a, w, x)
BY StoredIs DEF Stores

Updates(f, g, s, c) ==
  /\ IsSystem(g) /\ Typed(g) /\ Touches(f, g, s)
  /\ CopyOf(g, s) = c /\ g.dinode[InumOf(f, s)] = c
  /\ g.bitmap = f.bitmap /\ g.data = f.data /\ g.panic = f.panic
  /\ c.type = f.icache[s].copy.type => Works(f, g, s)

\* The copy that writei updates, in terms of its parts.
LEMMA UpdatesIs ==
  ASSUME NEW f, IsSystem(f), Typed(f), NEW s \in Slots, InumOf(f, s) \in Inums, NEW c, IsCopy(c),
         NEW g, g = Update(f, s, c)
  PROVE  Updates(f, g, s, c)
<1>1. /\ IsSystem(g) /\ Typed(g) /\ Touches(f, g, s)
      /\ CopyOf(g, s) = c /\ g.dinode[InumOf(f, s)] = c
  BY UpdateIs
<1>2. g.bitmap = f.bitmap /\ g.data = f.data /\ g.panic = f.panic
  BY UpdateIs
<1>3. c.type = f.icache[s].copy.type => Works(f, g, s)
  BY UpdateIs
<1> QED
  BY <1>1, <1>2, <1>3 DEF Updates

\* What writei does when there is a block.
LEMMA WrittenRewrites ==
  ASSUME NEW f, NEW s, Held(f, s), f.panic = "", NEW off, NEW x, FitsIn(f, s, off, x),
         NEW g, NEW h, NEW n, Written(f, g, h, s, n, off, x), g.panic = "",
         NEW e, e = Grown(CopyOf(g, s), off), NEW r, r.data = h.data, r.bitmap = g.bitmap,
         r.dinode[InumOf(f, s)] = e,
         \A j \in Inums : j # InumOf(f, s) => r.dinode[j] = f.dinode[j]
  PROVE  Rewrites(f, r, InumOf(f, s))
<1>1. PICK i, a : i = InumOf(f, s) /\ a = AddressAt(g, s, n)
  OBVIOUS
<1>2. /\ Sane(r, e) /\ BlocksOf(r, e) = BlocksAt(g, s) /\ Extends(f, g, s, n)
      /\ a \in BlocksAt(g, s) /\ \A b \in Blocks : b # a => r.data[b] = g.data[b]
  <2>1. Wrote(f, g, s, n, off, r, e)
    BY WrittenSane
  <2> QED
    BY <1>1, <2>1 DEF Wrote
<1>3. BlocksAt(f, s) = Owned(f, i) /\ Typed(f)
  BY <1>1, HeldIs
<1>4. Owned(r, i) = BlocksAt(g, s) /\ Sane(r, r.dinode[i])
  BY <1>1, <1>2 DEF Owned
<1>5. /\ BlocksAt(f, s) \subseteq BlocksAt(g, s) /\ g.bitmap = f.bitmap \cup BlocksAt(g, s)
      /\ \A b \in BlocksAt(g, s) : b \in BlocksAt(f, s) \/ b \notin f.bitmap
      /\ \A b \in f.bitmap : b # Indirect(CopyOf(f, s)) => g.data[b] = f.data[b]
  BY <1>2 DEF Extends
<1>6. ASSUME NEW b \in f.bitmap, b \notin Owned(f, i) PROVE r.data[b] = f.data[b]
  <2>1. b \in Blocks /\ b # None
    BY <1>3, <1>6, Sizes DEF Typed
  <2>2. b # a
    BY <1>2, <1>3, <1>5, <1>6
  <2>3. b # Indirect(CopyOf(f, s))
    BY <1>3, <1>6, <2>1, BlocksAre DEF BlocksAt
  <2>4. r.data[b] = g.data[b]
    BY <1>2, <2>1, <2>2
  <2>5. g.data[b] = f.data[b]
    BY <1>5, <2>3
  <2> QED
    BY <2>4, <2>5
<1>7. r.bitmap = (f.bitmap \ Owned(f, i)) \cup Owned(r, i)
  BY <1>3, <1>4, <1>5
<1>8. \A b \in Owned(r, i) : b \in Owned(f, i) \/ b \notin f.bitmap
  BY <1>3, <1>4, <1>5
<1> QED
  BY <1>1, <1>4, <1>6, <1>7, <1>8 DEF Rewrites

\* writei, in its steps.
Steps(f, g, h, s, off, x, c) ==
  Writei(f, s, off, x) = IF g.panic # "" THEN g ELSE IF off < h.icache[s].copy.size THEN h
                         ELSE Update(h, s, c)

\* writei of a word is bmap, a store and, past the end, an update of the size.
LEMMA WriteiIs ==
  ASSUME NEW f, NEW s, NEW off, NEW x, NEW g, NEW h, NEW c,
         g = Bmap(f, s, off \div BSIZE),
         h = [g EXCEPT !.data[Address(g, g.icache[s].copy, off \div BSIZE)][off % BSIZE] = x],
         c = [h.icache[s].copy EXCEPT !.size = off + 1]
  PROVE  Steps(f, g, h, s, off, x, c)
<1>1. [h EXCEPT !.icache[s].copy.size = off + 1] = SetCopy(h, s, c)
  BY DEF SetCopy
<1>2. Iupdate([h EXCEPT !.icache[s].copy.size = off + 1], s) = Update(h, s, c)
  BY <1>1 DEF Update
<1> QED
  BY <1>2 DEF Writei, Steps

Writes(f, r, s, off) ==
  /\ Done(f, r, {s})
  /\ r.panic = "" => off < CopyOf(r, s).size

\* writei of a word keeps the disk sound, and the size is past the word.
LEMMA WriteiDone ==
  ASSUME NEW f, NEW s, Held(f, s), NEW off, NEW x,
         f.panic = "" => off \in Nat /\ off < MaxSize /\ off <= CopyOf(f, s).size /\ x[1] \in InumOrNone
  PROVE  Writes(f, Writei(f, s, off, x), s, off)
<1>0. PICK r, g, n, i : r = Writei(f, s, off, x) /\ n = off \div BSIZE /\ g = Bmap(f, s, n) /\ i = InumOf(f, s)
  OBVIOUS
<1>1. /\ IsSystem(f) /\ Typed(f) /\ s \in Slots /\ IsCopy(CopyOf(f, s)) /\ i \in Inums
      /\ f.panic = "" => CopyOf(f, s) = f.dinode[i]
  BY <1>0, HeldIs
<1>2. CASE f.panic # ""
  <2>1. Frozen(f, g)
    BY <1>0, <1>1, <1>2, BmapFrozen
  <2>2. r = g
    BY <1>0, <2>1 DEF Writei, Frozen
  <2>3. Done(f, r, {s}) /\ r.panic # ""
    BY <2>1, <2>2, FrozenDone DEF Frozen
  <2> QED
    BY <1>0, <2>3 DEF Writes
<1>3. CASE f.panic = ""
  <2>1. off \in Nat /\ off < MaxSize /\ off <= CopyOf(f, s).size /\ x[1] \in InumOrNone
    BY <1>3
  <2>0. FitsIn(f, s, off, x)
    BY <2>1 DEF FitsIn
  <2>2. n \in Reach
    BY <1>0, <2>1, Division
  <2>3. Mapped(f, g, s)
    BY <1>0, <1>1, <2>2, BmapWorks
  <2>4. CASE g.panic # ""
    <3>1. r = g
      BY <1>0, <2>4 DEF Writei
    <3>2. Done(f, r, {s})
      BY <2>3, <2>4, <3>1, TouchesDone DEF Mapped
    <3> QED
      BY <1>0, <2>4, <3>1, <3>2 DEF Writes
  <2>5. CASE g.panic = ""
    <3>1. PICK a, w, h : a = AddressAt(g, s, n) /\ w = off % BSIZE /\ h = Stored(g, a, w, x)
      OBVIOUS
    <3>2. PICK c, e : c = CopyOf(g, s) /\ e = Grown(c, off)
      OBVIOUS
    <3>3. Written(f, g, h, s, n, off, x)
      BY <1>0, <3>1 DEF Written
    <3>4. /\ IsSystem(h) /\ Typed(h) /\ Same(g, h)
          /\ h.dinode = g.dinode /\ h.bitmap = g.bitmap /\ h.icache = g.icache /\ h.panic = g.panic
      <4>1. IsSystem(g) /\ Typed(g)
        BY <2>3 DEF Mapped
      <4>2. Stores(g, h, a, w, x)
        BY ONLY <3>1, <4>1, StoresIs
      <4> QED
        BY <4>2 DEF Stores
    <3>5. Works(f, h, s) /\ h.dinode = f.dinode /\ CopyOf(h, s) = c /\ InumOf(h, s) = i
      <4>1. Works(g, h, s)
        BY <3>4 DEF Works
      <4>2. Works(f, g, s) /\ g.dinode = f.dinode
        BY <2>3 DEF Mapped
      <4>3. Works(f, h, s)
        BY ONLY <1>1, <4>1, <4>2, WorksTransitive
      <4>4. h.icache[s].inum = f.icache[s].inum
        BY <1>1, <4>3 DEF Works, Same
      <4> QED
        BY <1>0, <3>2, <3>4, <4>2, <4>3, <4>4 DEF CopyOf, InumOf
    <3>6. Extends(f, g, s, n) /\ (off < CopyOf(f, s).size => g = f)
      <4>1. e = Grown(CopyOf(g, s), off) /\ h.data = h.data
        BY <3>2
      <4>2. Wrote(f, g, s, n, off, h, e)
        BY ONLY <1>3, <2>0, <2>5, <3>3, <4>1, Held(f, s), WrittenSane
      <4> QED
        BY <4>2 DEF Wrote
    <3>7. IsCopy(c) /\ c.size = CopyOf(f, s).size /\ c.type = CopyOf(f, s).type
      BY <3>2, <3>6 DEF Extends
    <3>8. /\ IsCopy(e) /\ e.addrs = c.addrs /\ e.type = c.type
          /\ e.size = IF off < c.size THEN c.size ELSE off + 1
      BY ONLY <2>1, <3>2, <3>7, GrownIs
    <3>9. PICK y : y = [c EXCEPT !.size = off + 1] /\ r = IF off < c.size THEN h ELSE Update(h, s, y)
      <4>1. AddressAt(g, s, n) = Address(g, g.icache[s].copy, off \div BSIZE)
        BY <1>0 DEF AddressAt, CopyOf
      <4>2. h = [g EXCEPT !.data[Address(g, g.icache[s].copy, off \div BSIZE)][off % BSIZE] = x]
        BY <3>1, <4>1 DEF Stored
      <4>3. h.icache[s].copy = c
        BY <3>5 DEF CopyOf
      <4>4. PICK y : y = [h.icache[s].copy EXCEPT !.size = off + 1]
        OBVIOUS
      <4>5. g = Bmap(f, s, off \div BSIZE)
        BY <1>0
      <4>6. Steps(f, g, h, s, off, x, y)
        BY ONLY <4>2, <4>4, <4>5, WriteiIs
      <4> QED
        BY <1>0, <2>5, <4>3, <4>4, <4>6 DEF Steps
    <3>10. CASE off < c.size
      <4>1. r = h /\ e = c /\ g = f
        BY <3>2, <3>6, <3>7, <3>9, <3>10 DEF Grown
      <4>2. CopyOf(r, s) = c /\ r.dinode[i] = e /\ r.data = h.data /\ r.bitmap = g.bitmap
            /\ \A j \in Inums : j # i => r.dinode[j] = f.dinode[j]
        BY <1>1, <1>3, <3>2, <3>4, <3>5, <4>1
      <4>3. Rewrites(f, r, i)
        <5>1. /\ f.panic = "" /\ g.panic = "" /\ e = Grown(CopyOf(g, s), off)
              /\ r.data = h.data /\ r.bitmap = g.bitmap /\ r.dinode[InumOf(f, s)] = e
              /\ \A j \in Inums : j # InumOf(f, s) => r.dinode[j] = f.dinode[j]
          BY <1>0, <1>3, <2>5, <3>2, <4>2
        <5>2. Rewrites(f, r, InumOf(f, s))
          BY ONLY Held(f, s), <2>0, <3>3, <5>1, WrittenRewrites
        <5> QED
          BY <1>0, <5>2
      <4>4. Done(f, r, {s})
        BY <1>0, <3>4, <3>5, <4>1, <4>2, <4>3, TouchesDone
      <4> QED
        BY <1>0, <3>10, <4>2, <4>4 DEF Writes
    <3>11. CASE ~(off < c.size)
      <4>1. r = Update(h, s, e)
        <5>1. e = y
          BY <3>2, <3>9, <3>11 DEF Grown
        <5> QED
          BY <3>9, <3>11, <5>1
      <4>2. e.type = h.icache[s].copy.type
        BY <3>5, <3>8 DEF CopyOf
      <4>3. InumOf(h, s) \in Inums
        BY <1>1, <3>5
      <4>4. /\ Typed(r) /\ Touches(h, r, s) /\ CopyOf(r, s) = e /\ r.dinode[InumOf(h, s)] = e
            /\ r.bitmap = h.bitmap /\ r.data = h.data /\ r.panic = h.panic /\ Works(h, r, s)
        <5>1. Updates(h, r, s, e)
          BY ONLY <1>1, <3>4, <3>8, <4>1, <4>3, UpdatesIs
        <5> QED
          BY <4>2, <5>1 DEF Updates
      <4>5. Works(f, r, s)
        BY ONLY <1>1, <3>5, <4>4, WorksTransitive
      <4>6. /\ r.dinode[i] = e /\ r.data = h.data /\ r.bitmap = g.bitmap
            /\ \A j \in Inums : j # i => r.dinode[j] = f.dinode[j]
        BY <3>4, <3>5, <4>4 DEF Touches
      <4>7. Rewrites(f, r, i)
        <5>1. /\ f.panic = "" /\ g.panic = "" /\ e = Grown(CopyOf(g, s), off)
              /\ r.data = h.data /\ r.bitmap = g.bitmap /\ r.dinode[InumOf(f, s)] = e
              /\ \A j \in Inums : j # InumOf(f, s) => r.dinode[j] = f.dinode[j]
          BY <1>0, <1>3, <2>5, <3>2, <4>6
        <5>2. Rewrites(f, r, InumOf(f, s))
          BY ONLY Held(f, s), <2>0, <3>3, <5>1, WrittenRewrites
        <5> QED
          BY <1>0, <5>2
      <4>8. Done(f, r, {s})
        BY <1>0, <4>4, <4>5, <4>6, <4>7, TouchesDone
      <4>9. off < e.size
        <5>1. c.size \in Nat
          BY ONLY <3>7, SizeIs
        <5> QED
          BY ONLY <2>1, <3>8, <3>11, <5>1
      <4> QED
        BY <1>0, <4>4, <4>8, <4>9 DEF Writes
    <3> QED
      BY <3>10, <3>11
  <2> QED
    BY <2>4, <2>5
<1> QED
  BY <1>2, <1>3

-----------------------------------------------------------------------------
(* Link counts and directories                                             *)

WithLinks(c, n) == [c EXCEPT !.nlink = n]

\* A copy with another link count has the same blocks.
LEMMA WithLinksIs ==
  ASSUME NEW c, IsCopy(c), NEW n \in Int, NEW e, e = WithLinks(c, n)
  PROVE  IsCopy(e) /\ SameBlocks(c, e) /\ e.type = c.type /\ e.nlink = n
<1>1. /\ e = [x \in InodeFields |-> e[x]] /\ e.type = c.type /\ e.size = c.size
      /\ e.nlink = n /\ e.addrs = c.addrs
  BY DEF WithLinks, IsCopy, InodeFields
<1> QED
  BY <1>1 DEF IsCopy, SameBlocks

\* A change of the link count keeps the disk sound.
LEMMA LinksDone ==
  ASSUME NEW f, NEW s, Held(f, s), NEW n \in Int
  PROVE  Done(f, Update(f, s, WithLinks(CopyOf(f, s), n)), {s})
<1>1. PICK e : e = WithLinks(CopyOf(f, s), n)
  OBVIOUS
<1>2. IsCopy(CopyOf(f, s))
  BY HeldIs
<1>3. IsCopy(e) /\ SameBlocks(CopyOf(f, s), e) /\ e.type = CopyOf(f, s).type
  BY ONLY <1>1, <1>2, n \in Int, WithLinksIs
<1> QED
  BY <1>1, <1>3, StoreDone

\* What the calls do to link counts.
LEMMA CountDone ==
  ASSUME NEW f, NEW s, Held(f, s)
  PROVE  /\ Done(f, Unlinked(f, s), {s})
         /\ Done(f, Iupdate([f EXCEPT !.icache[s].copy.nlink = @ + 1], s), {s})
         /\ Done(f, Iupdate([f EXCEPT !.icache[s].copy.nlink = 1], s), {s})
<1>1. PICK c : c = CopyOf(f, s)
  OBVIOUS
<1>2. c.nlink \in Int
  BY <1>1, HeldIs DEF IsCopy
<1>3. PICK i \in Int, d \in Int, o \in Int : i = c.nlink + 1 /\ d = c.nlink - 1 /\ o = 1
  BY <1>2
<1>4. /\ Done(f, Update(f, s, WithLinks(c, i)), {s})
      /\ Done(f, Update(f, s, WithLinks(c, d)), {s})
      /\ Done(f, Update(f, s, WithLinks(c, o)), {s})
  BY <1>1, LinksDone
<1>5. [f EXCEPT !.icache[s].copy.nlink = @ - 1] = SetCopy(f, s, WithLinks(c, d))
  BY <1>1, <1>3 DEF SetCopy, WithLinks, CopyOf
<1>6. [f EXCEPT !.icache[s].copy.nlink = @ + 1] = SetCopy(f, s, WithLinks(c, i))
  BY <1>1, <1>3 DEF SetCopy, WithLinks, CopyOf
<1>7. [f EXCEPT !.icache[s].copy.nlink = 1] = SetCopy(f, s, WithLinks(c, o))
  BY <1>1, <1>3 DEF SetCopy, WithLinks, CopyOf
<1> QED
  BY <1>4, <1>5, <1>6, <1>7 DEF Update, Unlinked

\* The words of an inode that is locked.
LEMMA WordsAre ==
  ASSUME NEW f, NEW s, Held(f, s), f.panic = "", NEW off \in Offsets(f, s)
  PROVE  off \in Nat /\ off < MaxSize /\ off < CopyOf(f, s).size /\ Readi(f, s, off)[1] \in InumOrNone
<1>1. IsCopy(CopyOf(f, s)) /\ Sane(f, CopyOf(f, s)) /\ off \in 0 .. CopyOf(f, s).size - 1
  BY HeldIs DEF Offsets, CopyOf
<1>2. off \in Nat /\ off < MaxSize /\ off < CopyOf(f, s).size
  BY ONLY <1>1, SizeIs
<1>3. Readi(f, s, off) = WordAt(f, CopyOf(f, s), off)
  BY DEF Readi, WordAt, CopyOf
<1> QED
  BY <1>1, <1>2, <1>3 DEF Sane

\* The first entry with a name is an offset in the directory.
LEMMA FoundIs ==
  ASSUME NEW f, NEW s, Held(f, s), f.panic = "", NEW name, Found(f, s, name) # {}
  PROVE  Min(Found(f, s, name)) \in Offsets(f, s)
<1>1. PICK T : T = Found(f, s, name)
  OBVIOUS
<1>2. T \subseteq Offsets(f, s)
  BY <1>1 DEF Found
<1>3. T \in SUBSET Nat
  BY <1>2, WordsAre
<1> QED
  BY <1>1, <1>2, <1>3, MinIs

\* What dirlookup finds is an inode of the table.
LEMMA DirlookupIs ==
  ASSUME NEW f, NEW s, Held(f, s), f.panic = "", NEW name
  PROVE  /\ Dirlookup(f, s, name) \in InumOrNone
         /\ Dirlookup(f, s, name) # None => Found(f, s, name) # {}
<1>1. CASE Found(f, s, name) = {}
  BY <1>1 DEF Dirlookup, InumOrNone
<1>2. CASE Found(f, s, name) # {}
  <2>1. Readi(f, s, Min(Found(f, s, name)))[1] \in InumOrNone
    BY <1>2, FoundIs, WordsAre
  <2> QED
    BY <1>2, <2>1 DEF Dirlookup
<1> QED
  BY <1>1, <1>2

\* dirlink keeps the disk sound.
LEMMA DirlinkDone ==
  ASSUME NEW f, NEW s, Held(f, s), NEW name, NEW inum \in InumOrNone
  PROVE  Done(f, Dirlink(f, s, name, inum), {s})
<1>1. PICK off, T : /\ T = {o \in Offsets(f, s) : Readi(f, s, o)[1] = None} \cup {f.icache[s].copy.size}
                    /\ off = Min(T)
  OBVIOUS
<1>2. PICK x : x = <<inum, name>>
  OBVIOUS
<1>3. CASE MayWrite(f, s, off, 1)
  <2>1. Dirlink(f, s, name, inum) = Writei(f, s, off, x)
    BY <1>1, <1>2, <1>3 DEF Dirlink
  <2>2. ASSUME f.panic = ""
        PROVE  off \in Nat /\ off < MaxSize /\ off <= CopyOf(f, s).size /\ x[1] \in InumOrNone
    <3>1. CopyOf(f, s).size \in Nat /\ f.icache[s].copy.size = CopyOf(f, s).size
      BY HeldIs, SizeIs DEF CopyOf
    <3>2. \A o \in Offsets(f, s) : o \in Nat
      BY <2>2, WordsAre
    <3>3. T \in SUBSET Nat /\ T # {}
      BY <1>1, <3>1, <3>2
    <3>4. off \in Nat
      BY <1>1, <3>3, MinIs
    <3>5. off <= CopyOf(f, s).size /\ off + 1 <= MaxSize
      BY <1>3, <3>1 DEF MayWrite, MaxSize
    <3>6. MaxSize \in Nat
      BY Sizes
    <3>7. off < MaxSize
      BY ONLY <3>4, <3>5, <3>6
    <3> QED
      BY <1>2, <3>4, <3>5, <3>7
  <2>3. Writes(f, Writei(f, s, off, x), s, off)
    BY <2>2, WriteiDone
  <2> QED
    BY <2>1, <2>3 DEF Writes
<1>4. CASE ~MayWrite(f, s, off, 1)
  <2>1. PICK g : g = Panic(f, "dirlink")
    OBVIOUS
  <2>2. Dirlink(f, s, name, inum) = g
    BY <1>1, <1>4, <2>1 DEF Dirlink
  <2>3. IsSystem(f) /\ Typed(f)
    BY HeldIs
  <2>4. Panicked(f, g)
    BY <2>1, <2>3, PanicIs
  <2>5. Typed(g)
    BY <2>3, <2>4, PanicWorks
  <2>6. Frozen(f, g)
    BY <2>4, <2>5 DEF Panicked, Frozen
  <2> QED
    BY <2>2, <2>6, FrozenDone
<1> QED
  BY <1>3, <1>4

\* unlink's write, and the dots of a new directory.
LEMMA EraseDone ==
  ASSUME NEW f, NEW k, Held(f, k.dp), NEW off, f.panic = "" => off \in Offsets(f, k.dp)
  PROVE  Done(f, Erase(f, k, off), {k.dp})
<1>1. PICK g, s : s = k.dp /\ g = Writei(f, s, off, Zero)
  OBVIOUS
<1>2. ASSUME f.panic = ""
      PROVE  off \in Nat /\ off < MaxSize /\ off <= CopyOf(f, s).size /\ Zero[1] \in InumOrNone
  <2>1. off \in Nat /\ off < MaxSize /\ off < CopyOf(f, s).size
    BY <1>1, <1>2, WordsAre
  <2>2. CopyOf(f, s).size \in Nat
    BY <1>1, HeldIs, SizeIs
  <2>3. Zero[1] \in InumOrNone
    BY DEF Zero, InumOrNone, None
  <2> QED
    BY ONLY <2>1, <2>2, <2>3
<1>3. Done(f, g, {s})
  <2>1. Writes(f, Writei(f, s, off, Zero), s, off)
    BY <1>1, <1>2, WriteiDone
  <2> QED
    BY <1>1, <2>1 DEF Writes
<1>4. Held(g, s)
  BY <1>1, <1>3, HeldDone
<1>5. Done(g, Unlinked(g, s), {s})
  BY <1>4, CountDone
<1>6. Done(f, Unlinked(g, s), {s})
  BY <1>3, <1>5, DoneTransitive
<1>7. Erase(f, k, off) \in {g, Unlinked(g, s)}
  BY <1>1 DEF Erase, Unlinked
<1> QED
  BY <1>1, <1>3, <1>6, <1>7

\* So do "." and "..".
LEMMA DotsDone ==
  ASSUME NEW f, NEW ip, NEW dp, Held(f, ip), Held(f, dp)
  PROVE  Done(f, Dots(f, ip, dp), {ip, dp})
<1>1. PICK i, d, S : i = f.icache[ip].inum /\ d = f.icache[dp].inum /\ S = {ip, dp}
  OBVIOUS
<1>2. i \in InumOrNone /\ d \in InumOrNone
  BY <1>1, HeldIs DEF InumOf, InumOrNone
<1>3. PICK g : g = Iupdate([f EXCEPT !.icache[dp].copy.nlink = @ + 1], dp)
  OBVIOUS
<1>4. Done(f, g, {dp})
  BY <1>3, CountDone
<1>5. Done(f, g, S)
  BY <1>1, <1>4, DoneMore
<1>6. Held(g, ip)
  BY <1>5, HeldDone
<1>7. PICK h : h = Dirlink(g, ip, ".", i)
  OBVIOUS
<1>8. Done(g, h, {ip})
  <2>1. PICK name : name = "."
    OBVIOUS
  <2>2. h = Dirlink(g, ip, name, i)
    BY <1>7, <2>1
  <2> QED
    BY <1>2, <1>6, <2>2, DirlinkDone
<1>9. Done(g, h, S)
  BY <1>1, <1>8, DoneMore
<1>10. Held(h, ip)
  BY <1>6, <1>9, HeldDone
<1>11. PICK e : e = Dirlink(h, ip, "..", d)
  OBVIOUS
<1>12. Done(h, e, {ip})
  <2>1. PICK name : name = ".."
    OBVIOUS
  <2>2. e = Dirlink(h, ip, name, d)
    BY <1>11, <2>1
  <2> QED
    BY <1>2, <1>10, <2>2, DirlinkDone
<1>13. Done(h, e, S)
  BY <1>1, <1>12, DoneMore
<1>14. Done(f, e, S)
  BY <1>5, <1>9, <1>13, DoneTransitive
<1>15. Dots(f, ip, dp) = e
  BY <1>1, <1>3, <1>7, <1>11 DEF Dots
<1> QED
  BY <1>1, <1>14, <1>15

\* The words of a request of write.
UpTo(f, g, s, size) == Done(f, g, {s}) /\ (g.panic = "" => size <= CopyOf(g, s).size)
FitsAt(f, s, off, n) == f.panic = "" => off \in Nat /\ off <= CopyOf(f, s).size /\ off + n <= MaxSize
AreNumbers(words, n) == \A i \in 1 .. n : words[i][1] \in InumOrNone

\* So do n turns of writei's loop, by induction over n.
LEMMA TurnsDone ==
  ASSUME NEW f, NEW s, Held(f, s), NEW off, NEW words, NEW n \in Nat,
         FitsAt(f, s, off, n), AreNumbers(words, n), NEW g, Turns(g, n, f, s, off, words)
  PROVE  Done(f, g[n], {s})
<1> DEFINE S == {i \in Nat : i <= n => UpTo(f, g[i], s, off + i)}
<1>1. 0 \in S
  <2>1. g[0] = f
    BY DEF Turns
  <2>2. ASSUME f.panic = "" PROVE off + 0 <= CopyOf(f, s).size
    <3>1. off \in Nat /\ off <= CopyOf(f, s).size
      BY <2>2 DEF FitsAt
    <3>2. off + 0 = off
      BY <3>1
    <3> QED
      BY <3>1, <3>2
  <2>3. Done(f, f, {s})
    BY DoneItself
  <2> QED
    BY <2>1, <2>2, <2>3 DEF UpTo
<1>2. ASSUME NEW i \in Nat, i \in S PROVE i + 1 \in S
  <2>1. SUFFICES ASSUME i + 1 <= n PROVE UpTo(f, g[i + 1], s, off + (i + 1))
    OBVIOUS
  <2>2. PICK d, e, o, x : d = g[i] /\ e = g[i + 1] /\ o = off + i /\ x = words[i + 1]
    OBVIOUS
  <2>3. e = Writei(d, s, off + (i + 1) - 1, x)
    <3>1. i + 1 \in 0 .. n /\ i + 1 # 0 /\ (i + 1) - 1 = i
      BY <2>1
    <3>2. g[i + 1] = Writei(g[i], s, off + (i + 1) - 1, words[i + 1])
      BY <3>1 DEF Turns
    <3> QED
      BY <2>2, <3>2
  <2>4. Done(f, d, {s}) /\ (d.panic = "" => o <= CopyOf(d, s).size)
    <3>1. UpTo(f, d, s, o)
      BY <1>2, <2>1, <2>2
    <3> QED
      BY <3>1 DEF UpTo
  <2>5. Held(d, s) /\ (d.panic = "" => f.panic = "")
    BY <2>4, HeldDone
  <2>6. x[1] \in InumOrNone
    BY <2>1, <2>2 DEF AreNumbers
  <2>7. CASE d.panic = ""
    <3>1. off \in Nat /\ off + n <= MaxSize /\ MaxSize \in Nat
      BY <2>5, <2>7, Sizes DEF FitsAt
    <3>2. o \in Nat /\ o < MaxSize /\ off + (i + 1) - 1 = o /\ off + (i + 1) = o + 1
      BY ONLY <2>1, <2>2, <3>1, i \in Nat, n \in Nat
    <3>3. o <= CopyOf(d, s).size
      BY <2>4, <2>7
    <3>4. Writes(d, Writei(d, s, o, x), s, o)
      BY <2>5, <2>6, <3>2, <3>3, WriteiDone
    <3>5. Writes(d, e, s, o)
      BY <2>3, <3>2, <3>4
    <3>6. Done(f, e, {s})
      BY <2>4, <3>5, DoneTransitive DEF Writes
    <3>7. ASSUME e.panic = "" PROVE off + (i + 1) <= CopyOf(e, s).size
      <4>1. o < CopyOf(e, s).size
        BY <3>5, <3>7 DEF Writes
      <4>2. Held(e, s)
        BY <2>5, <3>5, HeldDone DEF Writes
      <4>3. CopyOf(e, s).size \in Nat
        BY <4>2, HeldIs, SizeIs
      <4> QED
        BY ONLY <3>2, <4>1, <4>3
    <3> QED
      BY <2>2, <3>6, <3>7 DEF UpTo
  <2>8. CASE d.panic # ""
    <3>1. Writes(d, e, s, off + (i + 1) - 1)
      BY <2>3, <2>5, <2>8, WriteiDone
    <3>2. Done(f, e, {s}) /\ (e.panic = "" => d.panic = "")
      BY <2>4, <2>5, <3>1, DoneTransitive, HeldDone DEF Writes
    <3> QED
      BY <2>2, <2>8, <3>2 DEF UpTo
  <2> QED
    BY <2>7, <2>8
<1>3. \A i \in Nat : i \in S
  <2> HIDE DEF S
  <2> QED
    BY <1>1, <1>2, Induction
<1>4. UpTo(f, g[n], s, off + n)
  <2>1. n \in S
    BY <1>3
  <2> QED
    BY <2>1
<1> QED
  BY <1>4 DEF UpTo

\* So does writei.
LEMMA WriteWordsDone ==
  ASSUME NEW f, NEW s, Held(f, s), NEW off, NEW words, Len(words) \in Nat,
         f.panic = "" => off \in Nat /\ MayWrite(f, s, off, Len(words)),
         \A i \in 1 .. Len(words) : words[i][1] \in InumOrNone
  PROVE  Done(f, WriteWords(f, s, off, words), {s})
<1>1. PICK n \in Nat : n = Len(words)
  OBVIOUS
<1>2. PICK g : Turns(g, n, f, s, off, words)
  BY TurnsExist
<1> DEFINE h == CHOOSE h : Turns(h, n, f, s, off, words)
<1>3. Turns(h, n, f, s, off, words)
  BY <1>2
<1>4. h = CHOOSE g_ : g_ = [i \in 0 .. Len(words) |->
            IF i = 0 THEN f ELSE Writei(g_[i - 1], s, off + i - 1, words[i])]
  BY <1>1 DEF Turns
<1>5. WriteWords(f, s, off, words) = h[n]
  BY <1>1, <1>4 DEF WriteWords
<1> HIDE DEF h
<1>6. FitsAt(f, s, off, n)
  BY <1>1 DEF MayWrite, CopyOf, MaxSize, FitsAt
<1>7. AreNumbers(words, n)
  BY <1>1 DEF AreNumbers
<1> QED
  BY <1>3, <1>5, <1>6, <1>7, TurnsDone

-----------------------------------------------------------------------------
(* What is done to an entry of the cache                                   *)

Good(f) == IsSystem(f) /\ Once(f) /\ Sound(f)
Moved(f, g, S) == Good(g) /\ Leaves(f, g, S)

\* Moved is transitive.
LEMMA MovedTransitive ==
  ASSUME NEW f, NEW g, NEW h, NEW S, Moved(f, g, S), Moved(g, h, S)
  PROVE  Moved(f, h, S)
BY LeavesTransitive DEF Moved

\* A move of S is a move of more.
LEMMA MovedMore ==
  ASSUME NEW f, NEW g, NEW S, NEW T, S \subseteq T, Moved(f, g, S)
  PROVE  Moved(f, g, T)
BY LeavesMore DEF Moved

\* No move is one.
LEMMA MovedItself == ASSUME NEW f, Good(f), NEW S PROVE Moved(f, f, S)
BY LeavesItself DEF Moved

\* What is Done has Moved.
LEMMA DoneMoved == ASSUME NEW f, NEW g, NEW S, Done(f, g, S) PROVE Moved(f, g, S)
BY DEF Done, Moved, Good, Same

\* An inode is held in a good file system.
LEMMA HeldGood == ASSUME NEW f, NEW s, Held(f, s) PROVE Good(f)
BY DEF Held, Good

\* A panic moves nothing.
LEMMA PanicMoved ==
  ASSUME NEW f, Good(f), NEW message, message # "", NEW S
  PROVE  Moved(f, Panic(f, message), S)
<1>1. PICK g : g = Panic(f, message)
  OBVIOUS
<1>2. Panicked(f, g)
  BY <1>1, PanicIs DEF Good
<1>3. Once(g) /\ Typed(g) /\ IsSystem(g) /\ g.panic # ""
  BY <1>2 DEF Panicked, Good, Once, Sound, Typed
<1>4. Mirrors(g)
  <2>1. Mirrors(f)
    BY DEF Good, Sound
  <2> QED
    BY <1>2, <2>1 DEF Panicked, Mirrors, Mirror
<1> QED
  BY <1>1, <1>3, <1>4 DEF Moved, Good, Sound, Leaves

\* SetEntry leaves the disk alone.
LEMMA SetEntryDisk ==
  ASSUME NEW f, IsSystem(f), NEW s \in Slots, NEW e
  PROVE  /\ SetEntry(f, s, e).dinode = f.dinode /\ SetEntry(f, s, e).bitmap = f.bitmap
         /\ SetEntry(f, s, e).data = f.data
BY DEF SetEntry, IsSystem, SystemFields

\* e may take the place of what entry s of f is.
EntryFits(f, s, e) ==
  /\ IsEntry(e) /\ IsCopy(e.copy) /\ e.inum \in InumOrNone /\ e.lock \in Procs \cup {None}
  /\ e.ref > 0 => /\ e.inum \in Inums
                  /\ \A t \in Slots : t # s /\ f.icache[t].ref > 0 => f.icache[t].inum # e.inum
  /\ e.ref > 0 /\ e.valid /\ (f.panic = "" \/ e.lock = None) =>
       IF e.copy.type = "free" THEN e.lock # None ELSE e.copy = f.dinode[e.inum]
  /\ f.panic = "" /\ e.lock # None => e.valid /\ e.ref > 0
  /\ e.lock # None /\ e.copy.type = "free" =>
       f.icache[s].lock = e.lock /\ f.icache[s].copy.type = "free"

\* A cache entry may be replaced by one that fits: no valid copy but the disk's.
LEMMA EntryMoved ==
  ASSUME NEW f, Good(f), NEW s \in Slots, NEW e, EntryFits(f, s, e), NEW g, g = SetEntry(f, s, e)
  PROVE  /\ Moved(f, g, {s})
         /\ e.lock = f.icache[s].lock /\ e.copy = f.icache[s].copy => Moved(f, g, {})
<1>1. /\ IsSystem(g) /\ g.panic = f.panic /\ g.icache[s] = e
      /\ \A t \in Slots : t # s => g.icache[t] = f.icache[t]
      /\ g.dinode = f.dinode /\ g.bitmap = f.bitmap /\ g.data = f.data
  <2>1. IsSystem(f) /\ IsEntry(e)
    BY DEF Good, EntryFits
  <2>2. /\ IsSystem(g) /\ g.panic = f.panic /\ g.icache[s] = e
        /\ \A t \in Slots : t # s => g.icache[t] = f.icache[t]
    BY ONLY <2>1, s \in Slots, g = SetEntry(f, s, e), SetEntryIs
  <2>3. g.dinode = f.dinode /\ g.bitmap = f.bitmap /\ g.data = f.data
    BY ONLY <2>1, s \in Slots, g = SetEntry(f, s, e), SetEntryDisk
  <2> QED
    BY <2>2, <2>3
<1>2. Typed(f) /\ Mirrors(f) /\ (f.panic = "" => LaidOut(f)) /\ Once(f)
  BY DEF Good, Sound
<1>3. Typed(g)
  BY <1>1, <1>2 DEF Typed, EntryFits
<1>4. Once(g)
  <2>1. ASSUME NEW t \in Slots, NEW u \in Slots, t # u, g.icache[t].ref > 0, g.icache[u].ref > 0
        PROVE  g.icache[t].inum # g.icache[u].inum
    <3>1. CASE t = s
      BY <1>1, <2>1, <3>1 DEF EntryFits
    <3>2. CASE u = s
      BY <1>1, <2>1, <3>2 DEF EntryFits
    <3>3. CASE t # s /\ u # s
      BY <1>1, <1>2, <2>1, <3>3 DEF Once
    <3> QED
      BY <3>1, <3>2, <3>3
  <2> QED
    BY <2>1 DEF Once
<1>5. ASSUME NEW t \in Slots PROVE Mirror(g, t)
  <2>1. CASE t = s
    BY <1>1, <2>1 DEF Mirror, EntryFits
  <2>2. CASE t # s
    BY <1>1, <1>2, <2>2, ZenonT(60) DEF Mirror, Mirrors
  <2> QED
    BY <2>1, <2>2
<1>6. LaidOut(f) => LaidOut(g)
  <2>1. \A c : (\A n : Address(g, c, n) = Address(f, c, n)) /\ BlocksOf(g, c) = BlocksOf(f, c)
    BY <1>1, SameAddresses
  <2>2. \A i : Owned(g, i) = Owned(f, i)
    BY <1>1, <2>1 DEF Owned
  <2>3. ASSUME NEW i \in Inums, Sane(f, f.dinode[i]) PROVE Sane(g, g.dinode[i])
    BY <1>1, <2>1, <2>3 DEF Sane, WordAt
  <2> QED
    BY <1>1, <2>2, <2>3 DEF LaidOut
<1>7. Good(g)
  BY <1>1, <1>2, <1>3, <1>4, <1>5, <1>6 DEF Good, Sound, Mirrors
<1>8. ASSUME NEW t \in Slots, t # s \/ (e.lock = f.icache[s].lock /\ e.copy = f.icache[s].copy)
      PROVE  SameContents(f, g, t)
  <2>1. g.icache[t].lock = f.icache[t].lock /\ g.icache[t].copy = f.icache[t].copy
    BY <1>1, <1>8
  <2>2. \A off : Readi(g, t, off) = Readi(f, t, off)
    BY <1>1, <2>1 DEF Readi, Address
  <2> QED
    BY <2>1, <2>2 DEF SameContents
<1>9. ASSUME NEW t \in Slots, g.icache[t].lock # None, g.icache[t].copy.type = "free"
      PROVE  f.icache[t].lock = g.icache[t].lock /\ f.icache[t].copy.type = "free"
  <2>1. CASE t = s
    BY <1>1, <1>9, <2>1 DEF EntryFits
  <2>2. CASE t # s
    BY <1>1, <1>9, <2>2
  <2> QED
    BY <2>1, <2>2
<1> QED
  BY <1>1, <1>7, <1>8, <1>9 DEF Moved, Leaves

\* What is known of an entry.
LEMMA EntryIs ==
  ASSUME NEW f, Good(f), NEW s \in Slots
  PROVE  /\ IsEntry(f.icache[s]) /\ IsCopy(f.icache[s].copy) /\ f.icache[s].inum \in InumOrNone
         /\ f.icache[s].lock \in Procs \cup {None} /\ Mirror(f, s) /\ f.icache[s].ref \in Int
         /\ f.icache[s].ref > 0 =>
              /\ f.icache[s].inum \in Inums /\ IsCopy(f.dinode[f.icache[s].inum])
              /\ \A t \in Slots : t # s /\ f.icache[t].ref > 0 => f.icache[t].inum # f.icache[s].inum
<1>1. IsSystem(f) /\ Typed(f) /\ Mirrors(f) /\ Once(f)
  BY DEF Good, Sound
<1>2. IsEntry(f.icache[s]) /\ f.icache[s].ref \in Int /\ Mirror(f, s)
  BY <1>1 DEF IsSystem, IsEntry, Mirrors
<1>3. /\ IsCopy(f.icache[s].copy) /\ f.icache[s].inum \in InumOrNone /\ f.icache[s].lock \in Procs \cup {None}
      /\ f.icache[s].ref > 0 => f.icache[s].inum \in Inums /\ IsCopy(f.dinode[f.icache[s].inum])
  BY <1>1 DEF Typed
<1>4. f.icache[s].ref > 0 =>
        \A t \in Slots : t # s /\ f.icache[t].ref > 0 => f.icache[t].inum # f.icache[s].inum
  BY <1>1 DEF Once
<1> QED
  BY <1>2, <1>3, <1>4

\* The lock is taken.
Takes(f, g, s, p) ==
  /\ Moved(f, g, {s}) /\ Held(g, s) /\ g.icache[s].lock = p
  /\ \A t \in Slots : t # s => g.icache[t] = f.icache[t]
  /\ g.panic = "" => \A t \in Slots : g.icache[t].lock = IF t = s THEN p ELSE f.icache[t].lock

\* ilock gives a good copy to who takes the lock, or panics.
LEMMA IlockMoved ==
  ASSUME NEW f, Good(f), NEW s \in Slots, f.icache[s].ref > 0, f.icache[s].lock = None, NEW p \in Procs
  PROVE  Takes(f, Ilock(f, s, p), s, p)
<1>1. PICK g, ip, copy : /\ g = Ilock(f, s, p) /\ ip = f.icache[s]
                         /\ copy = IF ip.valid THEN ip.copy ELSE f.dinode[ip.inum]
  OBVIOUS
<1>2. PICK e : e = [ip EXCEPT !.lock = p, !.valid = TRUE, !.copy = copy]
  OBVIOUS
<1>3. PICK h : h = SetEntry(f, s, e)
  OBVIOUS
<1>4. /\ IsEntry(ip) /\ IsCopy(ip.copy) /\ ip.inum \in Inums /\ Mirror(f, s) /\ ip.ref \in Int /\ ip.ref > 0
      /\ IsCopy(f.dinode[ip.inum])
      /\ \A t \in Slots : t # s /\ f.icache[t].ref > 0 => f.icache[t].inum # ip.inum
  BY <1>1, EntryIs
<1>5. /\ IsEntry(e) /\ e.inum = ip.inum /\ e.ref = ip.ref /\ e.lock = p /\ e.valid /\ e.copy = copy
  BY <1>2, <1>4 DEF IsEntry, EntryFields
<1>6. p # None /\ p \in Procs
  BY Constants
<1>7. PICK y : y = Panic(h, "ilock: no type") /\ g = IF copy.type = "free" THEN y ELSE h
  <2>1. PICK x, y : x = Panic(f, "ilock") /\ y = Panic(h, "ilock: no type")
    OBVIOUS
  <2>2. g = IF ip.ref < 1 THEN x ELSE IF copy.type = "free" THEN y ELSE h
    BY ONLY <1>1, <1>2, <1>3, <2>1, Zenon DEF Ilock, SetEntry
  <2>3. ~(ip.ref < 1)
    BY ONLY <1>4
  <2> QED
    BY <2>1, <2>2, <2>3, Zenon
<1>8. IsCopy(copy) /\ (copy.type # "free" => copy = f.dinode[ip.inum])
  <2>1. ip.valid => IF copy.type = "free" THEN ip.lock # None ELSE copy = f.dinode[ip.inum]
    BY <1>1, <1>4 DEF Mirror
  <2> QED
    BY <1>1, <1>4, <2>1
<1>9. /\ IsSystem(h) /\ h.panic = f.panic /\ h.icache[s] = e
      /\ \A t \in Slots : t # s => h.icache[t] = f.icache[t]
  <2>1. IsSystem(f)
    BY DEF Good
  <2> QED
    BY ONLY <1>3, <1>5, <2>1, s \in Slots, SetEntryIs
<1>10. CASE copy.type # "free"
  <2>1. EntryFits(f, s, e)
    BY <1>1, <1>4, <1>5, <1>6, <1>8, <1>10 DEF EntryFits, InumOrNone
  <2>2. Moved(f, h, {s})
    BY ONLY <1>3, <2>1, s \in Slots, Good(f), EntryMoved
  <2>3. g = h
    BY <1>7, <1>10
  <2>4. Held(g, s)
    BY <1>4, <1>5, <1>6, <1>9, <1>10, <2>2, <2>3 DEF Held, Moved, Good
  <2> QED
    BY <1>1, <1>5, <1>9, <2>2, <2>3, <2>4 DEF Takes
<1>11. CASE copy.type = "free"
  <2>1. Panicked(h, g)
    BY <1>7, <1>9, <1>11, PanicIs
  <2>2. g.icache = h.icache /\ g.panic # "" /\ IsSystem(g) /\ g.dinode = f.dinode
        /\ g.bitmap = f.bitmap /\ g.data = f.data
    BY <1>3, <2>1, SetEntryDisk DEF Panicked, Good
  <2>3. Typed(f) /\ Mirrors(f) /\ Once(f)
    BY DEF Good, Sound
  <2>4. Typed(g)
    <3>1. ASSUME NEW t \in Slots
          PROVE  /\ IsCopy(g.icache[t].copy)
                 /\ g.icache[t].inum \in InumOrNone /\ g.icache[t].lock \in Procs \cup {None}
                 /\ g.icache[t].ref > 0 => g.icache[t].inum \in Inums
      <4>1. CASE t = s
        BY <1>4, <1>5, <1>6, <1>8, <1>9, <2>2, <4>1 DEF InumOrNone
      <4>2. CASE t # s
        BY <1>9, <2>2, <2>3, <4>2 DEF Typed
      <4> QED
        BY <4>1, <4>2
    <3> QED
      BY <2>2, <2>3, <3>1 DEF Typed
  <2>5. Once(g)
    <3>1. \A t \in Slots : g.icache[t].ref = f.icache[t].ref /\ g.icache[t].inum = f.icache[t].inum
      BY <1>1, <1>5, <1>9, <2>2
    <3> QED
      BY <2>3, <3>1 DEF Once
  <2>6. ASSUME NEW t \in Slots PROVE Mirror(g, t)
    <3>1. CASE t = s
      BY <1>5, <1>6, <1>9, <2>2, <3>1 DEF Mirror
    <3>2. CASE t # s
      <4>1. Mirror(f, t)
        BY <2>3 DEF Mirrors
      <4>2. g.icache[t] = f.icache[t] /\ g.dinode = f.dinode /\ g.panic # ""
        BY <1>9, <2>2, <3>2
      <4> QED
        BY ONLY <4>1, <4>2 DEF Mirror
    <3> QED
      BY <3>1, <3>2
  <2>7. Good(g)
    BY <2>2, <2>4, <2>5, <2>6 DEF Good, Sound, Mirrors
  <2>8. Moved(f, g, {s})
    BY <2>2, <2>7 DEF Moved, Leaves
  <2>9. Held(g, s)
    BY <1>4, <1>5, <1>6, <1>9, <2>2, <2>7 DEF Held, Good
  <2> QED
    BY <1>1, <1>5, <1>9, <2>2, <2>8, <2>9 DEF Takes
<1> QED
  BY <1>10, <1>11

\* The lock is given back.
LEMMA IunlockMoved ==
  ASSUME NEW f, NEW s, Held(f, s)
  PROVE  Moved(f, Iunlock(f, s), {s})
<1>0. Good(f) /\ s \in Slots
  BY HeldGood, HeldIs
<1>1. CASE f.panic # ""
  <2>1. Iunlock(f, s) = f
    BY <1>1 DEF Iunlock
  <2> QED
    BY <1>0, <2>1, MovedItself
<1>2. CASE f.panic = ""
  <2>1. PICK ip, e : ip = f.icache[s] /\ e = [ip EXCEPT !.lock = None]
    OBVIOUS
  <2>2. /\ IsEntry(ip) /\ IsCopy(ip.copy) /\ ip.inum \in InumOrNone /\ Mirror(f, s) /\ ip.ref \in Int
        /\ ip.ref > 0 =>
             /\ ip.inum \in Inums
             /\ \A t \in Slots : t # s /\ f.icache[t].ref > 0 => f.icache[t].inum # ip.inum
    BY <1>0, <2>1, EntryIs
  <2>3. IsEntry(e) /\ e.inum = ip.inum /\ e.ref = ip.ref /\ e.lock = None /\ e.valid = ip.valid /\ e.copy = ip.copy
    BY <2>1, <2>2 DEF IsEntry, EntryFields
  <2>4. ip.copy.type # "free" /\ ip.lock # None /\ ip.ref > 0
    BY <1>2, <2>1 DEF Held
  <2>5. ip.valid => ip.copy = f.dinode[ip.inum]
    BY <1>2, <2>1, <2>2, <2>4 DEF Mirror
  <2>6. EntryFits(f, s, e)
    BY <2>1, <2>2, <2>3, <2>4, <2>5 DEF EntryFits
  <2>7. Iunlock(f, s) = SetEntry(f, s, e)
    BY <1>2, <2>1 DEF Iunlock, SetEntry
  <2> QED
    BY <1>0, <2>6, <2>7, EntryMoved
<1> QED
  BY <1>1, <1>2

\* One more pointer, and one less.
LEMMA IdupMoved ==
  ASSUME NEW f, Good(f), NEW s \in Slots, f.icache[s].ref > 0
  PROVE  Moved(f, Idup(f, s), {})
<1>1. PICK ip, e : ip = f.icache[s] /\ e = [ip EXCEPT !.ref = @ + 1]
  OBVIOUS
<1>2. /\ IsEntry(ip) /\ IsCopy(ip.copy) /\ ip.inum \in Inums /\ Mirror(f, s) /\ ip.ref \in Int /\ ip.ref > 0
      /\ ip.lock \in Procs \cup {None}
      /\ \A t \in Slots : t # s /\ f.icache[t].ref > 0 => f.icache[t].inum # ip.inum
  BY <1>1, EntryIs
<1>3. /\ IsEntry(e) /\ e.inum = ip.inum /\ e.ref = ip.ref + 1 /\ e.lock = ip.lock /\ e.valid = ip.valid
      /\ e.copy = ip.copy
  BY <1>1, <1>2 DEF IsEntry, EntryFields
<1>4. e.ref > 0
  BY ONLY <1>2, <1>3
<1>5. EntryFits(f, s, e)
  BY <1>1, <1>2, <1>3, <1>4 DEF EntryFits, InumOrNone, Mirror
<1>6. Idup(f, s) = SetEntry(f, s, e)
  BY <1>1 DEF Idup, SetEntry
<1> QED
  BY <1>1, <1>3, <1>5, <1>6, EntryMoved

\* A count may drop, for an unlocked entry to zero.
LEMMA UnrefMoved ==
  ASSUME NEW f, Good(f), NEW s \in Slots, f.icache[s].ref > 0,
         f.panic = "" /\ f.icache[s].lock # None => f.icache[s].ref > 1
  PROVE  Moved(f, Unref(f, s), {})
<1>1. PICK ip : ip = f.icache[s]
  OBVIOUS
<1>2. /\ IsEntry(ip) /\ IsCopy(ip.copy) /\ ip.inum \in Inums /\ Mirror(f, s) /\ ip.ref \in Int /\ ip.ref > 0
      /\ ip.lock \in Procs \cup {None}
      /\ \A t \in Slots : t # s /\ f.icache[t].ref > 0 => f.icache[t].inum # ip.inum
  BY <1>1, EntryIs
<1>0a. PICK n \in Int : n = ip.ref - 1
  BY ONLY <1>2
<1>0b. PICK e : e = [ip EXCEPT !.ref = n]
  OBVIOUS
<1>0. n = ip.ref - 1 /\ e = [ip EXCEPT !.ref = n]
  BY <1>0a, <1>0b
<1>3. /\ IsEntry(e) /\ e.inum = ip.inum /\ e.ref = n /\ e.lock = ip.lock /\ e.valid = ip.valid
      /\ e.copy = ip.copy
  BY <1>0, <1>2 DEF IsEntry, EntryFields
<1>4. f.panic = "" /\ e.lock # None => e.ref > 0
  <2>1. ip.ref > 1 => e.ref > 0
    BY ONLY <1>0, <1>2, <1>3
  <2> QED
    BY <1>1, <1>3, <2>1
<1>5. EntryFits(f, s, e)
  <2>1. e.ref > 0 => ip.ref > 0
    BY <1>2
  <2> QED
    BY <1>1, <1>2, <1>3, <1>4, <2>1 DEF EntryFits, InumOrNone, Mirror
<1>6. Unref(f, s) = SetEntry(f, s, e)
  BY <1>0, <1>1 DEF Unref, SetEntry
<1> QED
  BY <1>1, <1>3, <1>5, <1>6, EntryMoved

\* iget moves no copy: the entry it recycles has no user.
LEMMA IgetMoved ==
  ASSUME NEW f, Good(f), f.panic = "", NEW inum \in Inums
  PROVE  Moved(f, Iget(f, inum), {})
<1>0. \A t \in Slots : f.icache[t].ref \in Int
  BY EntryIs
<1>1. PICK s : s = SlotFor(f, inum)
  OBVIOUS
<1>2. CASE Cached(f, inum) # {}
  <2>1. s \in Cached(f, inum)
    <3>1. Cached(f, inum) \in SUBSET Nat
      BY Constants DEF Cached
    <3>2. s = Min(Cached(f, inum))
      BY <1>1, <1>2 DEF SlotFor
    <3> QED
      BY <1>2, <3>1, <3>2, MinIs
  <2>2. s \in Slots /\ f.icache[s].ref > 0
    BY <2>1 DEF Cached
  <2>3. Iget(f, inum) = Idup(f, s)
    BY <1>1, <1>2 DEF Iget, Idup
  <2> QED
    BY <2>2, <2>3, IdupMoved
<1>3. CASE Cached(f, inum) = {} /\ Unused(f) = {}
  <2>1. Iget(f, inum) = Panic(f, "iget: no inodes")
    BY <1>3 DEF Iget
  <2> QED
    BY <2>1, PanicMoved
<1>4. CASE Cached(f, inum) = {} /\ Unused(f) # {}
  <2>1. s \in Unused(f)
    <3>1. Unused(f) \in SUBSET Nat
      BY Constants DEF Unused
    <3>2. s = Min(Unused(f))
      BY <1>1, <1>4 DEF SlotFor
    <3> QED
      BY <1>4, <3>1, <3>2, MinIs
  <2>2. s \in Slots /\ f.icache[s].ref = 0 /\ ~(f.icache[s].ref > 0)
    <3>1. s \in Slots /\ f.icache[s].ref = 0
      BY <2>1 DEF Unused
    <3> QED
      BY ONLY <3>1
  <2>3a. PICK ip, v, n : ip = f.icache[s] /\ v = FALSE /\ n = 1
    OBVIOUS
  <2>3. PICK e : e = [ip EXCEPT !.inum = inum, !.ref = n, !.valid = v]
    OBVIOUS
  <2>4. /\ IsEntry(ip) /\ IsCopy(ip.copy) /\ Mirror(f, s) /\ ip.lock \in Procs \cup {None}
    BY <2>2, <2>3a, EntryIs
  <2>4a. n \in Int
    BY ONLY <2>3a
  <2>5. /\ IsEntry(e) /\ e.inum = inum /\ e.ref = n /\ e.lock = ip.lock /\ e.valid = v
        /\ e.copy = ip.copy /\ n \in Int
    BY ONLY <2>3, <2>4, <2>4a DEF IsEntry, EntryFields
  <2>6. ip.lock = None
    BY <2>2, <2>3a, <2>4 DEF Mirror
  <2>7. \A t \in Slots : f.icache[t].ref > 0 => f.icache[t].inum # inum
    BY <1>4 DEF Cached
  <2>8. EntryFits(f, s, e)
    BY <2>3a, <2>4, <2>5, <2>6, <2>7 DEF EntryFits, InumOrNone
  <2>9. Iget(f, inum) = SetEntry(f, s, e)
    BY <1>1, <1>4, <2>3, <2>3a DEF Iget, SetEntry
  <2> QED
    BY <2>2, <2>3a, <2>5, <2>8, <2>9, EntryMoved
<1> QED
  BY <1>2, <1>3, <1>4

\* An inode without blocks.
LEMMA EmptyIs ==
  ASSUME NEW f, NEW c, c.addrs = NoAddrs, c.size = 0
  PROVE  Sane(f, c) /\ BlocksOf(f, c) = {}
<1>1. c.addrs[NDIRECT] = None
  BY Sizes DEF NoAddrs
<1>2. ASSUME NEW n \in Reach PROVE Address(f, c, n) = None
  <2>1. CASE n < NDIRECT
    <3>1. n \in 0 .. NDIRECT
      BY <2>1, ReachIs
    <3> QED
      BY <2>1, <3>1 DEF Address, NoAddrs
  <2>2. CASE ~(n < NDIRECT)
    BY <1>1, <2>2 DEF Address
  <2> QED
    BY <2>1, <2>2
<1>3. \A b : b \notin BlocksOf(f, c)
  BY <1>1, <1>2, BlocksAre DEF Indirect
<1>4. 0 .. c.size - 1 = {}
  <2>1. 0 .. 0 - 1 = {}
    BY ONLY TRUE
  <2> QED
    BY <2>1
<1> QED
  BY <1>2, <1>3, <1>4 DEF Sane, BlockOrNone

\* A new inode, of which nobody knows.
LEMMA IallocMoved ==
  ASSUME NEW f, Good(f), f.panic = "", NEW type, type # "free"
  PROVE  /\ Moved(f, Ialloc(f, type), {})
         /\ Ialloc(f, type).panic = "" => IallocNum(f) \in Inums
<1>1. CASE FreeInums(f) = {}
  <2>1. PICK g : g = Panic(f, "ialloc: no inodes")
    OBVIOUS
  <2>2. Ialloc(f, type) = g
    BY <1>1, <2>1 DEF Ialloc
  <2>3. Moved(f, g, {})
    BY <2>1, PanicMoved
  <2>4. Panicked(f, g)
    BY <2>1, PanicIs DEF Good
  <2> QED
    BY <2>2, <2>3, <2>4 DEF Panicked
<1>2. CASE FreeInums(f) # {}
  <2>1. PICK i, c, g : i = IallocNum(f) /\ c = NewInode(type) /\ g = Ialloc(f, type)
    OBVIOUS
  <2>2. i \in Inums /\ f.dinode[i].type = "free"
    <3>1. FreeInums(f) \in SUBSET Nat
      BY Sizes DEF FreeInums
    <3>2. i \in FreeInums(f)
      BY <1>2, <2>1, <3>1, MinIs DEF IallocNum
    <3> QED
      BY <3>2 DEF FreeInums
  <2>3. PICK d : d = [f.dinode EXCEPT ![i] = c]
    OBVIOUS
  <2>4. IsSystem(f) /\ Typed(f) /\ Mirrors(f) /\ LaidOut(f) /\ Once(f)
    BY DEF Good, Sound
  <2>5. g = SetDisk(f, d, f.bitmap, f.data)
    BY <1>2, <2>1, <2>3, <2>4 DEF Ialloc, SetDisk, IsSystem, SystemFields
  <2>6. /\ g.dinode = d /\ g.bitmap = f.bitmap /\ g.data = f.data /\ g.icache = f.icache
        /\ g.panic = f.panic /\ IsSystem(g)
    <3>1. IsSystem(f)
      BY <2>4
    <3>2. /\ g.dinode = d /\ g.bitmap = f.bitmap /\ g.data = f.data /\ g.icache = f.icache
          /\ g.panic = f.panic
      BY ONLY <2>5, <3>1, SetDiskIs
    <3>3. Same(f, g)
      BY ONLY <2>5, <3>1, SetDiskSame
    <3> QED
      BY <3>2, <3>3, SameSystem
  <2>7. d = [j \in Inums |-> IF j = i THEN c ELSE f.dinode[j]]
    BY <2>3, <2>4 DEF Typed
  <2>8. /\ c = [x \in InodeFields |-> c[x]] /\ c.nlink = 0 /\ c.size = 0 /\ c.addrs = NoAddrs /\ c.type = type
    BY <2>1 DEF NewInode, InodeFields
  <2>9. IsCopy(c)
    <3>1. 0 \in 0 .. MaxSize /\ 0 \in Int
      BY ONLY Sizes
    <3>2. c.addrs = [n \in 0 .. NDIRECT |-> c.addrs[n]] /\ \A n \in 0 .. NDIRECT : c.addrs[n] \in BlockOrNone
      BY ONLY <2>8 DEF NoAddrs, BlockOrNone
    <3> QED
      BY ONLY <2>8, <3>1, <3>2 DEF IsCopy
  <2>10. Typed(g)
    BY <2>4, <2>6, <2>7, <2>9, ZenonT(60) DEF Typed
  <2>11. ASSUME NEW t \in Slots PROVE Mirror(g, t)
    <3>1. Mirror(f, t) /\ (f.icache[t].ref > 0 => f.icache[t].inum \in Inums)
      BY <2>4 DEF Mirrors, Typed
    <3>2. CASE f.icache[t].inum = i
      BY <2>2, <2>6, <3>1, <3>2 DEF Mirror
    <3>3. CASE f.icache[t].inum # i
      <4>1. f.icache[t].ref > 0 => g.dinode[f.icache[t].inum] = f.dinode[f.icache[t].inum]
        BY <2>6, <2>7, <3>1, <3>3
      <4> QED
        BY <2>6, <3>1, <4>1 DEF Mirror
    <3> QED
      BY <3>2, <3>3
  <2>12. Owned(f, i) = {} /\ Owned(g, i) = {} /\ Sane(g, g.dinode[i])
    <3>1. Owned(f, i) = {}
      BY <2>2, <2>4 DEF LaidOut, Sane, Owned
    <3>2. g.dinode[i] = c
      BY <2>2, <2>6, <2>7
    <3> QED
      BY <2>8, <3>1, <3>2, EmptyIs DEF Owned
  <2>13. Rewrites(f, g, i)
    <3>1. \A j \in Inums : j # i => g.dinode[j] = f.dinode[j]
      BY <2>6, <2>7
    <3> QED
      BY <2>6, <2>12, <3>1 DEF Rewrites
  <2>14. LaidOut(g)
    <3>1. \A j \in Inums : IsCopy(f.dinode[j])
      BY <2>4 DEF Typed
    <3> QED
      BY ONLY <2>2, <2>4, <2>13, <3>1, LaidStays
  <2>15. Once(g)
    BY <2>4, <2>6 DEF Once
  <2>16. Good(g)
    BY <2>6, <2>10, <2>11, <2>14, <2>15 DEF Good, Sound, Mirrors
  <2>17. \A t \in Slots : SameContents(f, g, t)
    BY <2>6 DEF SameContents, Readi, Address
  <2>18. Moved(f, g, {})
    BY <2>6, <2>16, <2>17 DEF Moved, Leaves
  <2> QED
    BY <2>1, <2>2, <2>18
<1> QED
  BY <1>1, <1>2

\* iput takes the lock of an entry that nobody else has a pointer to.
LEMMA SetLockMoved ==
  ASSUME NEW f, Good(f), f.panic = "", NEW s \in Slots, f.icache[s].ref > 0, f.icache[s].lock = None,
         f.icache[s].valid, NEW p \in Procs
  PROVE  Moved(f, SetLock(f, s, p), {s})
<1>1. PICK ip, e : ip = f.icache[s] /\ e = [ip EXCEPT !.lock = p]
  OBVIOUS
<1>2. /\ IsEntry(ip) /\ IsCopy(ip.copy) /\ ip.inum \in Inums /\ Mirror(f, s) /\ ip.ref \in Int /\ ip.ref > 0
      /\ \A t \in Slots : t # s /\ f.icache[t].ref > 0 => f.icache[t].inum # ip.inum
  BY <1>1, EntryIs
<1>3. /\ IsEntry(e) /\ e.inum = ip.inum /\ e.ref = ip.ref /\ e.lock = p /\ e.valid = ip.valid
      /\ e.copy = ip.copy
  BY <1>1, <1>2 DEF IsEntry, EntryFields
<1>4. ip.copy.type # "free" /\ ip.copy = f.dinode[ip.inum]
  BY <1>1, <1>2 DEF Mirror
<1>5. EntryFits(f, s, e)
  BY <1>1, <1>2, <1>3, <1>4, Constants DEF EntryFits, InumOrNone
<1>6. SetLock(f, s, p) = SetEntry(f, s, e)
  BY <1>1 DEF SetLock, SetEntry
<1> QED
  BY <1>5, <1>6, EntryMoved

\* valid = 0 and the end of the lock.
LEMMA ClearMoved ==
  ASSUME NEW f, Good(f), f.panic = "", NEW s \in Slots, NEW g, g = Iunlock([f EXCEPT !.icache[s].valid = FALSE], s)
  PROVE  Moved(f, g, {s}) /\ g.icache[s].lock = None
<1>0. PICK v : v = FALSE
  OBVIOUS
<1>1. PICK ip, e : ip = f.icache[s] /\ e = [ip EXCEPT !.valid = v, !.lock = None]
  OBVIOUS
<1>2. /\ IsEntry(ip) /\ IsCopy(ip.copy) /\ ip.inum \in InumOrNone /\ ip.ref \in Int
      /\ ip.ref > 0 =>
           /\ ip.inum \in Inums
           /\ \A t \in Slots : t # s /\ f.icache[t].ref > 0 => f.icache[t].inum # ip.inum
  BY <1>1, EntryIs
<1>3. /\ IsEntry(e) /\ e.inum = ip.inum /\ e.ref = ip.ref /\ e.lock = None /\ e.valid = v
      /\ e.copy = ip.copy
  BY <1>1, <1>2 DEF IsEntry, EntryFields
<1>4. EntryFits(f, s, e)
  BY <1>0, <1>2, <1>3 DEF EntryFits, InumOrNone
<1>5. IsSystem(f)
  BY DEF Good
<1>6. g = SetEntry(f, s, e)
  <2>1. PICK h : h = [f EXCEPT !.icache[s].valid = v]
    OBVIOUS
  <2>2. h.panic = "" /\ g = Iunlock(h, s)
    BY <1>0, <1>5, <2>1 DEF IsSystem, SystemFields
  <2>3. g = [h EXCEPT !.icache[s].lock = None]
    BY <2>2 DEF Iunlock
  <2> QED
    BY <1>1, <1>5, <2>1, <2>3 DEF SetEntry, IsSystem, IsEntry, SystemFields, EntryFields
<1>7. g.icache[s] = e
  BY ONLY <1>3, <1>5, <1>6, s \in Slots, SetEntryIs
<1> QED
  BY <1>3, <1>4, <1>6, <1>7, EntryMoved

\* itrunc and type = 0.
Freed(f, g, s) ==
  /\ Good(g) /\ Same(f, g) /\ g.panic = f.panic
  /\ \A t \in Slots \ {s} : g.icache[t].copy = f.icache[t].copy
  /\ \A t \in Slots \ {s} : f.icache[t].lock # None /\ f.icache[t].copy.type # "free" => SameContents(f, g, t)

\* bfree of marked blocks unmarks them.
LEMMA BfreeIs ==
  ASSUME NEW f, IsSystem(f), Typed(f), NEW B, B \subseteq f.bitmap, NEW g, g = Bfree(f, B)
  PROVE  /\ IsSystem(g) /\ Typed(g) /\ g.dinode = f.dinode /\ g.bitmap = f.bitmap \ B /\ g.data = f.data
         /\ g.icache = f.icache /\ g.panic = f.panic
<1>1. PICK b : b = f.bitmap \ B
  OBVIOUS
<1>2. g = SetDisk(f, f.dinode, b, f.data)
  BY <1>1 DEF Bfree, SetDisk, IsSystem, SystemFields
<1>3. g.dinode = f.dinode /\ g.bitmap = b /\ g.data = f.data /\ g.icache = f.icache /\ g.panic = f.panic
  BY ONLY <1>2, IsSystem(f), SetDiskIs
<1>4. Same(f, g)
  BY ONLY <1>2, IsSystem(f), SetDiskSame
<1>5. Typed(g)
  BY <1>1, <1>3 DEF Typed
<1> QED
  BY <1>1, <1>3, <1>4, <1>5, SameSystem

Emptied(c) == [c EXCEPT !.addrs = NoAddrs, !.size = 0]

\* An inode that is truncated has no blocks.
LEMMA EmptiedIs ==
  ASSUME NEW c, IsCopy(c), NEW d, d = Emptied(c), NEW e, e = [d EXCEPT !.type = "free"]
  PROVE  /\ IsCopy(d) /\ IsCopy(e) /\ e.addrs = NoAddrs /\ e.size = 0
<1>1. /\ d = [x \in InodeFields |-> d[x]] /\ d.nlink = c.nlink /\ d.size = 0 /\ d.addrs = NoAddrs
      /\ e = [x \in InodeFields |-> e[x]] /\ e.nlink = c.nlink /\ e.size = 0 /\ e.addrs = NoAddrs
  BY DEF Emptied, IsCopy, InodeFields
<1>2. 0 \in 0 .. MaxSize
  BY ONLY Sizes
<1>3. \A a : a = NoAddrs => a = [n \in 0 .. NDIRECT |-> a[n]] /\ \A n \in 0 .. NDIRECT : a[n] \in BlockOrNone
  BY DEF NoAddrs, BlockOrNone
<1> QED
  BY <1>1, <1>2, <1>3 DEF IsCopy

\* What touches one inode only.
LEMMA TouchesBy ==
  ASSUME NEW f, NEW g, NEW s, NEW i, i = InumOf(f, s), Same(f, g),
         \A t \in Slots : g.icache[t].valid = f.icache[t].valid,
         \A t \in Slots : t # s => g.icache[t].copy = f.icache[t].copy,
         \A j \in Inums : j # i => g.dinode[j] = f.dinode[j]
  PROVE  Touches(f, g, s)
BY DEF Touches

FreeOf(f, s) == Iupdate([Itrunc(f, s) EXCEPT !.icache[s].copy.type = "free"], s)

\* iput's truncation and its freeing of the inode: no block is left to it, the others
\* keep theirs.
LEMMA FreeOfIs ==
  ASSUME NEW f, NEW s, Held(f, s), f.panic = "", NEW g, g = FreeOf(f, s)
  PROVE  Freed(f, g, s)
<1>1. PICK c, i, B : c = CopyOf(f, s) /\ i = InumOf(f, s) /\ B = BlocksOf(f, c)
  OBVIOUS
<1>2. /\ i \in Inums /\ IsCopy(c) /\ Typed(f) /\ IsSystem(f) /\ s \in Slots
      /\ LaidOut(f) /\ c = f.dinode[i] /\ c.type # "free"
  BY <1>1, HeldIs
<1>3. B = Owned(f, i) /\ B \subseteq f.bitmap
  BY <1>1, <1>2 DEF Owned, LaidOut
<1>4. PICK f1 : f1 = Bfree(f, B)
  OBVIOUS
<1>5. /\ IsSystem(f1) /\ Typed(f1) /\ f1.dinode = f.dinode /\ f1.bitmap = f.bitmap \ B /\ f1.data = f.data
      /\ f1.icache = f.icache /\ f1.panic = f.panic
  BY ONLY <1>2, <1>3, <1>4, BfreeIs
<1>6. PICK d, e : d = Emptied(c) /\ e = [d EXCEPT !.type = "free"]
  OBVIOUS
<1>7. IsCopy(d) /\ IsCopy(e) /\ e.addrs = NoAddrs /\ e.size = 0
  BY <1>2, <1>6, EmptiedIs
<1>8. PICK f2 : f2 = Update(f1, s, d)
  OBVIOUS
<1>9. Itrunc(f, s) = f2
  <2>1. f1.icache[s].copy = c /\ f.icache[s].copy = c
    BY <1>1, <1>5 DEF CopyOf
  <2>2. PICK h : h = [f1 EXCEPT !.icache[s].copy.addrs = NoAddrs]
    OBVIOUS
  <2>3. PICK a : a = [c EXCEPT !.addrs = NoAddrs]
    OBVIOUS
  <2>4. h = SetCopy(f1, s, a)
    BY <2>1, <2>2, <2>3 DEF SetCopy
  <2>5. /\ h.icache[s].copy = a
        /\ SetCopy(h, s, d) = SetCopy(f1, s, d)
    <3>1. h.icache[s].copy = a
      <4>1. CopyMoves(f1, SetCopy(f1, s, a), s, a)
        BY ONLY <1>2, <1>5, SetCopyIs
      <4> QED
        BY <2>4, <4>1 DEF CopyMoves
    <3>2. SetCopy(h, s, d) = SetCopy(f1, s, d)
      BY <1>2, <1>5, <2>4, ZenonT(60) DEF SetCopy, IsSystem, IsEntry, SystemFields, EntryFields
    <3> QED
      BY <3>1, <3>2
  <2>6. d = [a EXCEPT !.size = 0]
    BY <1>2, <1>6, <2>3 DEF Emptied, IsCopy, InodeFields
  <2>7. [f1 EXCEPT !.icache[s].copy.addrs = NoAddrs, !.icache[s].copy.size = 0] = SetCopy(h, s, d)
    BY <2>2, <2>5, <2>6 DEF SetCopy
  <2> QED
    BY <1>1, <1>4, <1>8, <2>1, <2>5, <2>7 DEF Itrunc, Update
<1>10. InumOf(f1, s) = i
  BY <1>1, <1>5 DEF InumOf
<1>11. Updates(f1, f2, s, d)
  BY ONLY <1>2, <1>5, <1>7, <1>8, <1>10, UpdatesIs
<1>12. InumOf(f2, s) = i
  BY <1>2, <1>10, <1>11 DEF Updates, Touches, Same, InumOf
<1>13. PICK f3 : f3 = Update(f2, s, e)
  OBVIOUS
<1>14. g = f3
  <2>1. f2.icache[s].copy = d
    BY <1>11 DEF Updates, CopyOf
  <2>2. [f2 EXCEPT !.icache[s].copy.type = "free"] = SetCopy(f2, s, e)
    BY <1>6, <2>1 DEF SetCopy
  <2> QED
    BY <1>9, <1>13, <2>2 DEF FreeOf, Update
<1>15. Updates(f2, f3, s, e)
  <2>1. IsSystem(f2) /\ Typed(f2)
    BY <1>11 DEF Updates
  <2> QED
    BY ONLY <1>2, <1>7, <1>12, <1>13, <2>1, UpdatesIs
<1>16. /\ IsSystem(g) /\ Typed(g) /\ CopyOf(g, s) = e /\ g.dinode[i] = e
       /\ g.bitmap = f.bitmap \ B /\ g.data = f.data /\ g.panic = f.panic
  BY <1>5, <1>11, <1>12, <1>14, <1>15 DEF Updates
<1>17. Touches(f, g, s) /\ \A j \in Inums : j # i => g.dinode[j] = f.dinode[j]
  <2>1. Same(f, g)
    <3>1. Same(f, f1)
      BY <1>5 DEF Same
    <3>2. Same(f1, f2) /\ Same(f2, g)
      BY <1>11, <1>14, <1>15 DEF Updates, Touches
    <3> QED
      BY <3>1, <3>2, SameTransitive
  <2>2. \A t \in Slots : g.icache[t].valid = f.icache[t].valid
    BY <1>5, <1>11, <1>14, <1>15, ZenonT(60) DEF Updates, Touches
  <2>3. \A t \in Slots : t # s => g.icache[t].copy = f.icache[t].copy
    BY <1>5, <1>11, <1>14, <1>15, ZenonT(60) DEF Updates, Touches
  <2>4. \A j \in Inums : j # i => g.dinode[j] = f.dinode[j]
    BY <1>5, <1>10, <1>11, <1>12, <1>14, <1>15, ZenonT(60) DEF Updates, Touches
  <2>5. Touches(f, g, s)
    BY ONLY <1>1, <2>1, <2>2, <2>3, <2>4, TouchesBy
  <2> QED
    BY <2>4, <2>5
<1>18. Rewrites(f, g, i)
  <2>1. Sane(g, e) /\ BlocksOf(g, e) = {}
    BY <1>7, EmptyIs
  <2>2. Owned(g, i) = {} /\ Sane(g, g.dinode[i])
    BY <1>16, <2>1 DEF Owned
  <2> QED
    BY <1>3, <1>16, <1>17, <2>2 DEF Rewrites
<1>19. /\ Sound(g) /\ Once(g) /\ IsSystem(g)
       /\ \A t \in Slots \ {s} :
            f.icache[t].lock # None /\ f.icache[t].copy.type # "free" => SameContents(f, g, t)
  BY <1>1, <1>16, <1>17, <1>18, TouchesSound
<1> QED
  <2>1. Good(g)
    BY <1>19 DEF Good
  <2>2. Same(f, g) /\ \A t \in Slots \ {s} : g.icache[t].copy = f.icache[t].copy
    BY <1>17 DEF Touches
  <2>3. g.panic = f.panic
    BY <1>16
  <2> QED
    BY ONLY <1>19, <2>1, <2>2, <2>3 DEF Freed

-----------------------------------------------------------------------------
(* The steps of the calls keep the disk sound                              *)

\* Who works on an inode that is free is iput.
Clears == Up => \A s \in Slots, p \in Procs :
  fs.icache[s].lock = p /\ fs.icache[s].copy.type = "free" => kern[p].pc = "iputClear" /\ kern[p].put = s

\* unlink finds the name again that it has found, for it keeps the directory locked.
NamesStay == Up => \A p \in Procs :
  kern[p].pc = "unlinkInode" => Found(fs, kern[p].dp, kern[p].name) # {}

\* The places that there are; no iput goes on to the place after unlink's search.
PlaceIs(k) == k.pc \in Places /\ k.after # "unlinkInode"
DiskInv == Sound(fs) /\ Clears /\ NamesStay /\ \A p \in Procs : PlaceIs(kern[p])
OffsetsFit == \A f \in Files : ftable[f].off \in 0 .. MaxSize

\* A process steps, and with it change at most entries in S, which are its own or nobody's.
Quietly(p) ==
  /\ \A q \in Procs : q # p => kern'[q] = kern[q] \/ (kern[q].pc = "user" /\ kern'[q] = Idle)
  /\ PlaceIs(kern'[p])
  /\ Up' => kern'[p].pc # "unlinkInode"
Reaches(p) ==
  /\ \A q \in Procs : q # p => kern'[q] = kern[q] \/ (kern[q].pc = "user" /\ kern'[q] = Idle)
  /\ PlaceIs(kern'[p])
  /\ Up' /\ kern'[p].pc = "unlinkInode" => Found(fs', kern'[p].dp, kern'[p].name) # {}
Touching(p, S) == \A t \in S : fs.icache[t].lock \in {p, None}

\* An idle process is in its program.
LEMMA IdlePlace == PlaceIs(Idle) /\ Idle.pc = "user"
<1>1. PICK k : k = Idle
  OBVIOUS
<1>2. k.pc = "user" /\ k.after # "unlinkInode"
  BY <1>1 DEF Idle
<1> QED
  BY <1>1, <1>2 DEF PlaceIs, Places

\* Who steps quietly does not come to unlink's second half, or has panicked.
LEMMA QuietlyReaches == ASSUME NEW p, Quietly(p) PROVE Reaches(p)
BY DEF Quietly, Reaches

\* The invariants make a good file system.
LEMMA InvGood == ASSUME NEW calls, NEW texts, Inv(calls, texts), DiskInv PROVE Good(fs)
BY DEF Inv, Shapes, DiskInv, Good

\* What process q has locked is no inode that is free.
LEMMA HeldByIs ==
  ASSUME NEW calls, NEW texts, Inv(calls, texts), DiskInv, Up, NEW q \in Procs,
         NEW s \in Slots, s \in Below(kern[q])
  PROVE  fs.icache[s].lock = q /\ fs.icache[s].copy.type # "free" /\ Held(fs, s)
<1>1. LockInv /\ ProcInv(user[q], kern[q])
  BY DEF Inv, UpInv
<1>2. fs.icache[s].lock = q
  BY <1>1 DEF LockInv, Holds
<1>3. fs.icache[s].copy.type # "free"
  <2>1. SUFFICES ASSUME fs.icache[s].copy.type = "free" PROVE FALSE
    OBVIOUS
  <2>2. kern[q].pc = "iputClear" /\ kern[q].put = s
    BY <1>2, <2>1 DEF DiskInv, Clears
  <2>3. kern[q].put \notin Below(kern[q])
    BY <1>1, <2>2 DEF ProcInv, Frees
  <2> QED
    BY <2>2, <2>3
<1>4. fs.icache[s].lock # None
  BY <1>2, Constants
<1>5. fs.icache[s].ref > 0
  <2>1. Mirror(fs, s) /\ fs.panic = ""
    BY DEF DiskInv, Sound, Mirrors, Up
  <2> QED
    BY <1>4, <2>1 DEF Mirror
<1>6. Good(fs)
  BY InvGood
<1> QED
  BY <1>2, <1>3, <1>4, <1>5, <1>6 DEF Held, Good

\* What unlink has found.
LEMMA FoundStays ==
  ASSUME NEW f, NEW g, NEW s, SameContents(f, g, s), NEW name, Found(f, s, name) # {}
  PROVE  Found(g, s, name) # {}
<1>1. PICK off \in Offsets(f, s) : Readi(f, s, off)[1] # None /\ Readi(f, s, off)[2] = name
  BY DEF Found
<1>2. off \in Offsets(g, s) /\ Readi(g, s, off) = Readi(f, s, off)
  BY <1>1 DEF SameContents, Offsets
<1> QED
  BY <1>1, <1>2 DEF Found

\* Who is in unlink's second half holds the directory, and the name is in it.
LEMMA UnlinkHolds ==
  ASSUME NEW calls, NEW texts, Inv(calls, texts), DiskInv, Up, NEW q \in Procs,
         kern[q].pc = "unlinkInode", NEW s, s = kern[q].dp
  PROVE  /\ s \in Slots /\ fs.icache[s].lock = q /\ fs.icache[s].lock # None
         /\ fs.icache[s].copy.type # "free" /\ Held(fs, s) /\ Found(fs, s, kern[q].name) # {}
<1>1. Place(kern[q]) = "unlinkInode"
  BY DEF Place, Iputs
<1>2. s # None /\ s \in Ptr
  BY <1>1 DEF Inv, UpInv, ProcInv, PtrInv, WithDp, Shapes, IsKern
<1>3. s \in Slots /\ s \in Below(kern[q])
  BY <1>1, <1>2 DEF Ptr, Below, HoldsDp
<1>4. Found(fs, s, kern[q].name) # {}
  BY DEF DiskInv, NamesStay
<1> QED
  BY <1>3, <1>4, HeldByIs, Constants

\* A step that moves inodes which are its process's or nobody's keeps the disk sound.
LEMMA DiskMoves ==
  ASSUME NEW calls, NEW texts, Inv(calls, texts), DiskInv, Up, NEW p \in Procs,
         kern[p].pc = "iputClear" => fs'.icache[kern[p].put].lock = None, NEW S, Moved(fs, fs', S), Touching(p, S), Reaches(p)
  PROVE  DiskInv'
<1>1. Sound(fs')
  BY DEF Moved, Good
<1>2. Leaves(fs, fs', S)
  BY DEF Moved
<1>3. ASSUME Up', NEW s \in Slots, NEW q \in Procs,
             fs'.icache[s].lock = q, fs'.icache[s].copy.type = "free"
      PROVE  kern'[q].pc = "iputClear" /\ kern'[q].put = s
  <2>1. fs'.icache[s].lock # None
    BY <1>3, Constants
  <2>2. fs.icache[s].lock = q /\ fs.icache[s].copy.type = "free"
    BY <1>2, <1>3, <2>1 DEF Leaves, Up
  <2>3. kern[q].pc = "iputClear" /\ kern[q].put = s
    BY <2>2 DEF DiskInv, Clears
  <2>4. q # p
    BY <1>3, <2>1, <2>3
  <2> QED
    BY <2>3, <2>4, IdlePlace DEF Reaches
<1>4. ASSUME Up', NEW q \in Procs, kern'[q].pc = "unlinkInode"
      PROVE  Found(fs', kern'[q].dp, kern'[q].name) # {}
  <2>1. CASE q = p
    BY <1>4, <2>1 DEF Reaches
  <2>2. CASE q # p
    <3>1. kern'[q] = kern[q] /\ kern[q].pc = "unlinkInode"
      BY <1>4, <2>2, IdlePlace DEF Reaches
    <3>2. PICK s : s = kern[q].dp
      OBVIOUS
    <3>3. /\ s \in Slots /\ fs.icache[s].lock = q /\ fs.icache[s].lock # None
          /\ fs.icache[s].copy.type # "free" /\ Found(fs, s, kern[q].name) # {}
      BY <3>1, <3>2, UnlinkHolds
    <3>4. s \notin S
      BY <2>2, <3>3 DEF Touching
    <3>5. SameContents(fs, fs', s)
      BY <1>2, <1>4, <3>3, <3>4 DEF Leaves, Up
    <3>6. Found(fs', s, kern[q].name) # {}
      BY <3>3, <3>5, FoundStays
    <3> QED
      BY <3>1, <3>2, <3>6
  <2> QED
    BY <2>1, <2>2
<1>5. ASSUME NEW q \in Procs PROVE PlaceIs(kern'[q])
  BY IdlePlace DEF Reaches, DiskInv
<1> QED
  BY <1>1, <1>3, <1>4, <1>5 DEF DiskInv, Clears, NamesStay

\* How a process goes on.
LEMMA StepsQuietly ==
  ASSUME NEW calls, NEW texts, Inv(calls, texts), NEW p \in Procs, NEW m, Step(p, m), PlaceIs(m),
         m.pc # "unlinkInode"
  PROVE  Quietly(p)
<1>1. kern' = [kern EXCEPT ![p] = m] /\ kern = [q \in Procs |-> kern[q]]
  BY DEF Step, Inv, Shapes
<1>2. kern'[p] = m /\ \A q \in Procs : q # p => kern'[q] = kern[q]
  BY <1>1
<1> QED
  BY <1>2 DEF Quietly

\* A return is quiet.
LEMMA ReturnsQuietly ==
  ASSUME NEW calls, NEW texts, Inv(calls, texts), NEW p \in Procs, NEW u, NEW v, NEW words,
         ReturnWith(p, u, v, words)
  PROVE  Quietly(p)
<1>1. Step(p, Idle)
  BY DEF ReturnWith, Step
<1>2. PICK m : m = Idle
  OBVIOUS
<1>3. Step(p, m) /\ PlaceIs(m) /\ m.pc # "unlinkInode"
  BY <1>1, <1>2, IdlePlace
<1> QED
  BY ONLY <1>3, Inv(calls, texts), p \in Procs, StepsQuietly

\* So is a panic.
LEMMA PanicsQuietly ==
  ASSUME NEW p \in Procs, DiskInv, kern' = kern, fs'.panic # ""
  PROVE  Quietly(p)
BY DEF Quietly, DiskInv, Up

\* So is a step that leaves the process where it is.
LEMMA StaysQuietly ==
  ASSUME NEW p \in Procs, DiskInv, kern' = kern, kern[p].pc # "unlinkInode"
  PROVE  Quietly(p)
BY DEF Quietly, DiskInv

\* So is one that goes to iput.
LEMMA PutsQuietly ==
  ASSUME NEW calls, NEW texts, Inv(calls, texts), NEW p \in Procs, NEW k, IsKern(k, texts),
         NEW s, NEW after, after # "unlinkInode", Step(p, Iput(k, s, after))
  PROVE  Quietly(p)
<1>1. PICK m : m = Iput(k, s, after)
  OBVIOUS
<1>2. m.pc = "iput" /\ m.after = after
  BY <1>1 DEF Iput, IsKern, KernFields
<1>3. PlaceIs(m) /\ m.pc # "unlinkInode"
  BY <1>2 DEF PlaceIs, Places
<1> QED
  BY <1>1, <1>3, StepsQuietly

\* So is one that goes to iput and then returns.
LEMMA PutReturnsQuietly ==
  ASSUME NEW calls, NEW texts, Inv(calls, texts), NEW p \in Procs, NEW k, IsKern(k, texts),
         NEW s, NEW v, Step(p, IputReturn(k, s, v))
  PROVE  Quietly(p)
<1>1. PICK m : m = IputReturn(k, s, v)
  OBVIOUS
<1>2. m.pc = "iput" /\ m.after = "return"
  BY <1>1 DEF IputReturn, Iput, IsKern, KernFields
<1>3. PlaceIs(m) /\ m.pc # "unlinkInode"
  BY <1>2 DEF PlaceIs, Places
<1> QED
  BY <1>1, <1>3, StepsQuietly

\* The steps that leave the file system alone, and those that change what is theirs.
LEMMA DiskStays ==
  ASSUME NEW calls, NEW texts, Inv(calls, texts), DiskInv, Up, NEW p \in Procs,
         kern[p].pc # "iputClear", fs' = fs, Quietly(p)
  PROVE  DiskInv'
<1>1. PICK S : S = {}
  OBVIOUS
<1>2. Moved(fs, fs', S) /\ Touching(p, S)
  BY <1>1, InvGood, MovedItself DEF Touching
<1> QED
  BY <1>2, QuietlyReaches, DiskMoves

\* DiskMoves for a step that moves no inode.
LEMMA DiskMovesNone ==
  ASSUME NEW calls, NEW texts, Inv(calls, texts), DiskInv, Up, NEW p \in Procs,
         kern[p].pc # "iputClear", Moved(fs, fs', {}), Quietly(p)
  PROVE  DiskInv'
<1>1. PICK S : S = {}
  OBVIOUS
<1>2. Moved(fs, fs', S) /\ Touching(p, S)
  BY <1>1 DEF Touching
<1> QED
  BY <1>2, QuietlyReaches, DiskMoves

\* DiskMoves for one inode.
LEMMA DiskMovesOne ==
  ASSUME NEW calls, NEW texts, Inv(calls, texts), DiskInv, Up, NEW p \in Procs,
         kern[p].pc # "iputClear", NEW s, fs.icache[s].lock \in {p, None}, Moved(fs, fs', {s}), Quietly(p)
  PROVE  DiskInv'
<1>1. PICK S : S = {s}
  OBVIOUS
<1>2. Moved(fs, fs', S) /\ Touching(p, S)
  BY <1>1 DEF Touching
<1> QED
  BY <1>2, QuietlyReaches, DiskMoves

-----------------------------------------------------------------------------
(* The steps that leave the file system alone                              *)

\* Who is at a place is there, and there was no panic.
LEMMA AtIs == ASSUME NEW p, NEW place, At(p, place) PROVE Up /\ kern[p].pc = place
BY DEF At

\* Fields other than the place.
LEMMA WordsQuietly ==
  ASSUME NEW calls, NEW texts, Inv(calls, texts), DiskInv, NEW p \in Procs, kern[p].pc = "user",
         NEW rest, Step(p, [kern[p] EXCEPT !.words = rest])
  PROVE  Quietly(p)
<1>1. PICK k : k = kern[p]
  OBVIOUS
<1>2. PICK m : m = [k EXCEPT !.words = rest]
  OBVIOUS
<1>3. IsKern(k, texts) /\ PlaceIs(k) /\ k.pc = "user"
  BY <1>1 DEF Inv, Shapes, DiskInv
<1>4. m.pc = k.pc /\ m.after = k.after
  BY <1>2, <1>3 DEF IsKern, KernFields
<1>5. PlaceIs(m) /\ m.pc # "unlinkInode"
  BY <1>3, <1>4 DEF PlaceIs
<1>6. Step(p, m)
  BY <1>1, <1>2
<1> QED
  BY ONLY <1>5, <1>6, Inv(calls, texts), p \in Procs, StepsQuietly

\* A call with a bad descriptor leaves the disk alone.
LEMMA BadFdDisk ==
  ASSUME NEW calls, NEW texts, Inv(calls, texts), DiskInv, NEW p \in Procs, At(p, "user"), BadFd(p)
  PROVE  DiskInv'
<1>1. PICK v, e : v = -1 /\ e = <<>>
  OBVIOUS
<1>2. ReturnWith(p, user[p], v, e) /\ fs' = fs
  BY <1>1 DEF BadFd, Return
<1>3. Up /\ kern[p].pc # "iputClear"
  BY AtIs
<1>4. Quietly(p)
  BY <1>2, ReturnsQuietly
<1> QED
  BY <1>2, <1>3, <1>4, DiskStays

\* Calls that only go on or return leave it alone.
LEMMA PlainDisk ==
  ASSUME NEW calls, NEW texts, Inv(calls, texts), DiskInv, NEW p \in Procs,
         Fail(p) \/ ChdirSet(p) \/ Linked(p) \/ ExitNext(p) \/ ExitCwd(p) \/ Exited(p)
  PROVE  DiskInv'
<1>1. PICK k : k = kern[p]
  OBVIOUS
<1>2. IsKern(k, texts)
  BY <1>1 DEF Inv, Shapes
<1>3. PICK e, i : e = [k EXCEPT !.ip = None] /\ i = Idle
  OBVIOUS
<1>4. IsKern(e, texts)
  BY <1>2, <1>3 DEF IsKern, KernFields, Ptr
<1>5. PlaceIs(i) /\ i.pc # "unlinkInode"
  BY <1>3, IdlePlace
<1>6. /\ fs' = fs /\ Up /\ k.pc # "iputClear"
      /\ \/ \E u, v, w : ReturnWith(p, u, v, w)
         \/ \E s, v : Step(p, IputReturn(e, s, v))
         \/ \E s : Step(p, Iput(k, s, "exited"))
         \/ Step(p, i)
  <2>1. CASE Fail(p)
    BY <1>1, <2>1, AtIs DEF Fail, Return
  <2>2. CASE ChdirSet(p)
    BY <1>1, <2>2, AtIs DEF ChdirSet
  <2>3. CASE Linked(p)
    BY <1>1, <1>3, <2>3, AtIs DEF Linked
  <2>4. CASE ExitNext(p)
    BY <1>1, <1>3, <2>4, AtIs DEF ExitNext
  <2>5. CASE ExitCwd(p)
    BY <1>1, <2>5, AtIs DEF ExitCwd
  <2>6. CASE Exited(p)
    BY <1>1, <1>3, <2>6, AtIs DEF Exited
  <2> QED
    BY <2>1, <2>2, <2>3, <2>4, <2>5, <2>6
<1>7. Quietly(p)
  <2>1. CASE \E u, v, w : ReturnWith(p, u, v, w)
    BY <2>1, ReturnsQuietly
  <2>2. CASE \E s, v : Step(p, IputReturn(e, s, v))
    BY <1>4, <2>2, PutReturnsQuietly
  <2>3. CASE \E s : Step(p, Iput(k, s, "exited"))
    BY <1>2, <2>3, PutsQuietly
  <2>4. CASE Step(p, i)
    BY <1>5, <2>4, StepsQuietly
  <2> QED
    BY <1>6, <2>1, <2>2, <2>3, <2>4
<1> QED
  BY <1>1, <1>6, <1>7, DiskStays

\* So does closing a file: its inode is put later.
LEMMA CloseThenDisk ==
  ASSUME NEW calls, NEW texts, Inv(calls, texts), DiskInv, NEW p \in Procs, At(p, "user"),
         NEW u, NEW f, NEW place, place \in {"return", "exitNext"}, CloseThen(p, u, f, place)
  PROVE  DiskInv'
<1>1. PICK k : k = kern[p]
  OBVIOUS
<1>2. IsKern(k, texts) /\ PlaceIs(k)
  BY <1>1 DEF Inv, Shapes, DiskInv
<1>3. PICK e : e = [k EXCEPT !.pc = place]
  OBVIOUS
<1>4. e.pc = place /\ e.after = k.after
  BY <1>2, <1>3 DEF IsKern, KernFields
<1>5. /\ fs' = fs
      /\ \/ \E s : Step(p, Iput(k, s, place))
         \/ \E v, w : ReturnWith(p, u, v, w)
         \/ place = "exitNext" /\ Step(p, e)
  BY <1>1, <1>3 DEF CloseThen
<1>6. Quietly(p)
  <2>1. CASE \E s : Step(p, Iput(k, s, place))
    BY <1>2, <2>1, PutsQuietly
  <2>2. CASE \E v, w : ReturnWith(p, u, v, w)
    BY <2>2, ReturnsQuietly
  <2>3. CASE place = "exitNext" /\ Step(p, e)
    <3>1. PlaceIs(e) /\ e.pc # "unlinkInode"
      BY <1>2, <1>4, <2>3 DEF PlaceIs, Places
    <3> QED
      BY <2>3, <3>1, StepsQuietly
  <2> QED
    BY <1>5, <2>1, <2>2, <2>3
<1>7. Up /\ kern[p].pc # "iputClear"
  BY AtIs
<1> QED
  BY <1>5, <1>6, <1>7, DiskStays

\* So do calls on descriptors, and those on pipes.
LEMMA CallsDisk ==
  ASSUME NEW calls, NEW texts, Inv(calls, texts), DiskInv, NEW p \in Procs,
         \/ Close(p) \/ ExitClose(p) \/ Dup(p) \/ ReadRefused(p) \/ WriteRefused(p)
         \/ PipeCall(p) \/ ReadPipe(p) \/ WritePipe(p)
  PROVE  DiskInv'
<1>1. At(p, "user") /\ Up /\ kern[p].pc = "user" /\ kern[p].pc # "iputClear"
  <2>1. CASE Close(p) \/ ExitClose(p) \/ Dup(p)
    BY <2>1, AtIs DEF Close, ExitClose, Dup, Calling
  <2>2. CASE ReadRefused(p) \/ WriteRefused(p)
    BY <2>2, AtIs DEF ReadRefused, WriteRefused, Calling
  <2>3. CASE PipeCall(p)
    BY <2>3, AtIs DEF PipeCall, Calling
  <2>4. CASE ReadPipe(p)
    <3>1. At(p, "user")
      BY <2>4 DEF ReadPipe, Calling
    <3> QED
      BY <3>1, AtIs
  <2>5. CASE WritePipe(p)
    <3>1. At(p, "user")
      BY <2>5 DEF WritePipe, Calling
    <3> QED
      BY <3>1, AtIs
  <2> QED
    BY <2>1, <2>2, <2>3, <2>4, <2>5
<1>2. CASE BadFd(p)
  BY <1>1, <1>2, BadFdDisk
<1>3. CASE \E u, f, place : place \in {"return", "exitNext"} /\ CloseThen(p, u, f, place)
  BY <1>1, <1>3, CloseThenDisk
<1>4. CASE fs' = fs /\ \E u, v, w : ReturnWith(p, u, v, w)
  <2>1. Quietly(p)
    BY <1>4, ReturnsQuietly
  <2> QED
    BY <1>1, <1>4, <2>1, DiskStays
<1>5. CASE fs' = fs /\ \E rest : Step(p, [kern[p] EXCEPT !.words = rest])
  <2>1. Quietly(p)
    BY <1>1, <1>5, WordsQuietly
  <2> QED
    BY <1>1, <1>5, <2>1, DiskStays
<1>6. CASE Close(p) \/ ExitClose(p)
  BY <1>2, <1>3, <1>6 DEF Close, ExitClose
<1>7. CASE Dup(p) \/ ReadRefused(p) \/ WriteRefused(p) \/ PipeCall(p)
  BY <1>2, <1>4, <1>7 DEF Dup, ReadRefused, WriteRefused, PipeCall
<1>8. CASE ReadPipe(p)
  BY <1>4, <1>8 DEF ReadPipe
<1>9. CASE WritePipe(p)
  BY <1>4, <1>5, <1>9 DEF WritePipe, Return
<1> QED
  BY <1>6, <1>7, <1>8, <1>9

\* So do wait and kill.
LEMMA ChildrenDisk ==
  ASSUME NEW calls, NEW texts, Inv(calls, texts), DiskInv, NEW p \in Procs, Wait(p) \/ Kill(p)
  PROVE  DiskInv'
<1>1. At(p, "user") /\ Up /\ kern[p].pc = "user" /\ kern[p].pc # "iputClear"
  BY AtIs DEF Wait, Kill, Calling
<1>2. CASE Wait(p)
  <2>1. CASE BadFd(p)
    BY <1>1, <2>1, BadFdDisk
  <2>2. CASE fs' = fs /\ kern' = kern
    <3>1. Quietly(p)
      BY <1>1, <2>2, StaysQuietly
    <3> QED
      BY <1>1, <2>2, <3>1, DiskStays
  <2> QED
    BY <1>2, <2>1, <2>2 DEF Wait
<1>3. CASE Kill(p)
  <2>1. fs' = fs
    BY <1>3 DEF Kill
  <2>2. ASSUME NEW q \in Procs
        PROVE  kern'[q] = kern[q] \/ (kern[q].pc = "user" /\ kern'[q] = Idle)
    BY <1>3 DEF Kill, Midway
  <2>3. Quietly(p)
    <3>1. PlaceIs(kern'[p]) /\ kern'[p].pc # "unlinkInode"
      BY <1>1, <2>2, IdlePlace DEF DiskInv
    <3> QED
      BY <2>2, <3>1 DEF Quietly
  <2> QED
    BY <1>1, <2>1, <2>3, DiskStays
<1> QED
  BY <1>2, <1>3

\* fork only counts the child's current directory.
LEMMA ForkDisk ==
  ASSUME NEW calls, NEW texts, Inv(calls, texts), DiskInv, NEW p \in Procs, Fork(p)
  PROVE  DiskInv'
<1>1. At(p, "user") /\ Up /\ kern[p].pc = "user" /\ kern[p].pc # "iputClear"
  BY AtIs DEF Fork, Calling
<1>2. CASE BadFd(p)
  BY <1>1, <1>2, BadFdDisk
<1>3. CASE fs' = Idup(fs, user[p].cwd) /\ kern' = kern
  <2>1. PICK s : s = user[p].cwd
    OBVIOUS
  <2>2. s \in Slots
    BY <1>1, <2>1, AtUser
  <2>3. fs.icache[s].ref > 0
    BY <2>1, <2>2, CwdCounted DEF Inv
  <2>4. Moved(fs, fs', {})
    BY <1>3, <2>1, <2>2, <2>3, InvGood, IdupMoved
  <2>5. Quietly(p)
    BY <1>1, <1>3, StaysQuietly
  <2> QED
    BY <1>1, <2>4, <2>5, DiskMovesNone
<1> QED
  BY <1>2, <1>3 DEF Fork

-----------------------------------------------------------------------------
(* The steps of iput                                                       *)

\* The inode that is put is counted.
LEMMA PutIs ==
  ASSUME NEW calls, NEW texts, Inv(calls, texts), NEW p \in Procs, NEW place \in Iputs, At(p, place)
  PROVE  /\ Up /\ kern[p].pc = place /\ kern[p].put \in Slots
         /\ fs.icache[kern[p].put].ref > 0 /\ IsKern(kern[p], texts)
<1>1. PICK x, s : x = "put" /\ s = kern[p].put
  OBVIOUS
<1>2. Up /\ kern[p].pc = place /\ s \in Slots
  BY <1>1, AtIput
<1>3. x \in PtrFields /\ kern[p][x] = s
  BY <1>1 DEF PtrFields
<1>4. fs.icache[s].ref > 0
  BY <1>2, <1>3, PtrCounted DEF Inv
<1> QED
  BY <1>1, <1>2, <1>4 DEF Inv, Shapes

\* On to another place of iput.
LEMMA IputQuietly ==
  ASSUME NEW calls, NEW texts, Inv(calls, texts), DiskInv, NEW p \in Procs, NEW place \in Iputs,
         Step(p, [kern[p] EXCEPT !.pc = place])
  PROVE  Quietly(p) /\ kern'[p].pc = place /\ kern'[p].put = kern[p].put
         /\ \A q \in Procs : q # p => kern'[q] = kern[q]
<1>1. PICK k : k = kern[p]
  OBVIOUS
<1>2. PICK m : m = [k EXCEPT !.pc = place]
  OBVIOUS
<1>3. IsKern(k, texts) /\ PlaceIs(k)
  BY <1>1 DEF Inv, Shapes, DiskInv
<1>4. m.pc = place /\ m.after = k.after /\ m.put = k.put
  BY <1>2, <1>3 DEF IsKern, KernFields
<1>5. PlaceIs(m) /\ m.pc # "unlinkInode"
  BY <1>3, <1>4 DEF PlaceIs, Places, Iputs
<1>6. Step(p, m)
  BY <1>1, <1>2
<1>7. kern' = [kern EXCEPT ![p] = m] /\ kern = [q \in Procs |-> kern[q]]
  BY <1>6 DEF Step, Inv, Shapes
<1>8. kern'[p] = m /\ \A q \in Procs : q # p => kern'[q] = kern[q]
  BY <1>7
<1>9. Quietly(p)
  BY ONLY <1>5, <1>6, Inv(calls, texts), p \in Procs, StepsQuietly
<1> QED
  BY <1>1, <1>4, <1>8, <1>9

\* iput's test locks an inode without links and moves nothing else.
LEMMA IputTestDisk ==
  ASSUME NEW calls, NEW texts, Inv(calls, texts), DiskInv, NEW p \in Procs, IputTest(p)
  PROVE  DiskInv'
<1>1. PICK s, place : s = kern[p].put /\ place = "iput"
  OBVIOUS
<1>2. /\ At(p, place) /\ LockFree(fs, s) /\ place \in Iputs
      /\ \/ /\ LastUse(fs.icache[s]) /\ fs' = [fs EXCEPT !.icache[s].lock = p]
            /\ Step(p, [kern[p] EXCEPT !.pc = "iputFree"])
         \/ fs' = fs /\ Step(p, [kern[p] EXCEPT !.pc = "iputUnref"])
  BY <1>1 DEF IputTest, Iputs
<1>3. Up /\ kern[p].pc = place /\ s \in Slots /\ fs.icache[s].ref > 0
  BY <1>1, <1>2, PutIs
<1>4. Quietly(p)
  <2>1. "iputFree" \in Iputs /\ "iputUnref" \in Iputs
    BY DEF Iputs
  <2> QED
    BY <1>2, <2>1, IputQuietly
<1>5. kern[p].pc # "iputClear"
  BY <1>1, <1>3
<1>6. CASE fs' = fs
  BY <1>3, <1>4, <1>5, <1>6, DiskStays
<1>7. CASE LastUse(fs.icache[s]) /\ fs' = [fs EXCEPT !.icache[s].lock = p]
  <2>1. fs.icache[s].valid /\ fs.icache[s].lock = None
    BY <1>2, <1>7 DEF LastUse, LockFree
  <2>2. Moved(fs, fs', {s})
    <3>1. Good(fs) /\ fs.panic = "" /\ fs' = SetLock(fs, s, p)
      BY <1>3, <1>7, InvGood DEF Up, SetLock
    <3> QED
      BY ONLY <1>3, <2>1, <3>1, p \in Procs, SetLockMoved
  <2> QED
    BY <1>3, <1>4, <1>5, <2>1, <2>2, DiskMovesOne
<1> QED
  BY <1>2, <1>6, <1>7

\* The next state has its locks within calls.
LEMMA LocksKeptThen ==
  ASSUME NEW CONSTANT calls, NEW CONSTANT texts
  PROVE  Inv(calls, texts)' => LocksKept'
<1>1. Inv(calls, texts) => LocksKept
  BY InvIsSound DEF InodesSound
<1> QED
  BY <1>1, PTL

\* The last step of iput: the entry is not locked any more when nobody counts on it.
LEMMA IputUnrefDisk ==
  ASSUME NEW calls, NEW texts, Inv(calls, texts), DiskInv, NEW p \in Procs, IputUnref(p),
         Inv(calls, texts)'
  PROVE  DiskInv'
<1>1. PICK k, s, place : k = kern[p] /\ s = k.put /\ place = "iputUnref"
  OBVIOUS
<1>2. PICK after : after = k.after
  OBVIOUS
<1>3. PICK e : e = [k EXCEPT !.pc = after, !.put = None]
  OBVIOUS
<1>4. /\ At(p, place) /\ place \in Iputs /\ fs' = Unref(fs, s)
      /\ \/ \E u, v, w : ReturnWith(p, u, v, w)
         \/ after # "return" /\ Step(p, e)
  BY <1>1, <1>2, <1>3 DEF IputUnref, Iputs, Return
<1>5. Up /\ k.pc = place /\ s \in Slots /\ fs.icache[s].ref > 0 /\ IsKern(k, texts)
  BY <1>1, <1>4, PutIs
<1>6. Quietly(p)
  <2>1. CASE \E u, v, w : ReturnWith(p, u, v, w)
    BY <2>1, ReturnsQuietly
  <2>2. CASE after # "return" /\ Step(p, e)
    <3>1. e.pc = after /\ e.after = after
      BY <1>2, <1>3, <1>5 DEF IsKern, KernFields
    <3>2. PtrInv(k) /\ Place(k) = after
      <4>1. ProcInv(user[p], k)
        BY <1>1, <1>5 DEF Inv, UpInv
      <4> QED
        BY <1>2, <1>4, <1>5, <4>1 DEF ProcInv, Place
    <3>3. after \in Places
      BY <2>2, <3>2 DEF PtrInv, WithIp, WithDp, Without, Places
    <3>4. after # "unlinkInode"
      BY <1>1, <1>2 DEF DiskInv, PlaceIs
    <3>5. PlaceIs(e) /\ e.pc # "unlinkInode"
      BY <3>1, <3>3, <3>4 DEF PlaceIs
    <3> QED
      BY <2>2, <3>5, StepsQuietly
  <2> QED
    BY <1>4, <2>1, <2>2
<1>7. fs.icache[s].lock # None => fs.icache[s].ref > 1
  <2>1. SUFFICES ASSUME fs.icache[s].lock # None PROVE fs.icache[s].ref > 1
    OBVIOUS
  <2>2. IsSystem(fs) /\ IsSystem(fs')
    BY DEF Inv, Shapes
  <2>3. /\ fs'.icache[s].ref = fs.icache[s].ref - 1 /\ fs'.icache[s].lock = fs.icache[s].lock
        /\ fs'.panic = fs.panic
    BY <1>4, <1>5, <2>2, UnrefIs DEF Bit
  <2>4. PICK q \in Procs : fs.icache[s].lock = q
    BY <1>5, <2>1 DEF DiskInv, Sound, Typed
  <2>5. LocksKept' /\ Up'
    BY <1>5, <2>3, LocksKeptThen DEF Up
  <2>6. fs'.icache[s].ref > 0
    BY <1>5, <2>3, <2>4, <2>5 DEF LocksKept
  <2>7. fs.icache[s].ref \in Int
    BY <1>5, <2>2, RefType
  <2> QED
    BY <2>3, <2>6, <2>7
<1>8. Moved(fs, fs', {})
  BY <1>4, <1>5, <1>7, InvGood, UnrefMoved
<1>9. kern[p].pc # "iputClear"
  BY <1>1, <1>5
<1> QED
  BY <1>5, <1>6, <1>8, <1>9, DiskMovesNone

\* iput's unlock of the inode that it has freed, whose copy is invalid then.
LEMMA IputClearDisk ==
  ASSUME NEW calls, NEW texts, Inv(calls, texts), DiskInv, NEW p \in Procs, IputClear(p)
  PROVE  DiskInv'
<1>1. PICK s, place : s = kern[p].put /\ place = "iputClear"
  OBVIOUS
<1>2. /\ At(p, place) /\ place \in Iputs
      /\ fs' = Iunlock([fs EXCEPT !.icache[s].valid = FALSE], s)
      /\ Step(p, [kern[p] EXCEPT !.pc = "iputUnref"])
  BY <1>1 DEF IputClear, Iputs
<1>3. Up /\ kern[p].pc = place /\ s \in Slots
  BY <1>1, <1>2, PutIs
<1>4. Quietly(p)
  <2>1. "iputUnref" \in Iputs
    BY DEF Iputs
  <2> QED
    BY <1>2, <2>1, IputQuietly
<1>5. Moved(fs, fs', {s}) /\ fs'.icache[s].lock = None
  <2>1. Good(fs) /\ fs.panic = ""
    BY <1>3, InvGood DEF Up
  <2>2. PICK g : g = Iunlock([fs EXCEPT !.icache[s].valid = FALSE], s)
    OBVIOUS
  <2>3. Moved(fs, g, {s}) /\ g.icache[s].lock = None
    BY ONLY <1>3, <2>1, <2>2, ClearMoved
  <2> QED
    BY <1>2, <2>2, <2>3
<1>6. fs.icache[s].lock = p
  <2>1. s \in Holds(kern[p])
    BY <1>1, <1>3 DEF Holds, Frees
  <2> QED
    BY <1>3, <2>1 DEF Inv, UpInv, LockInv
<1>7. PICK S : S = {s}
  OBVIOUS
<1>8. Moved(fs, fs', S) /\ Touching(p, S)
  BY <1>5, <1>6, <1>7 DEF Touching
<1> QED
  BY <1>1, <1>3, <1>4, <1>5, <1>8, QuietlyReaches, DiskMoves

\* iput frees the inode and its blocks, which nobody else has locked.
LEMMA IputFreeDisk ==
  ASSUME NEW calls, NEW texts, Inv(calls, texts), DiskInv, NEW p \in Procs, IputFree(p)
  PROVE  DiskInv'
<1>1. PICK s, place : s = kern[p].put /\ place = "iputFree"
  OBVIOUS
<1>2. /\ At(p, place) /\ place \in Iputs /\ fs' = FreeOf(fs, s)
      /\ Step(p, [kern[p] EXCEPT !.pc = "iputClear"])
  BY <1>1 DEF IputFree, Iputs, FreeOf
<1>3. Up /\ kern[p].pc = place /\ s \in Slots /\ fs.icache[s].ref > 0
  BY <1>1, <1>2, PutIs
<1>4. /\ Quietly(p) /\ kern'[p].pc = "iputClear" /\ kern'[p].put = s
      /\ \A q \in Procs : q # p => kern'[q] = kern[q]
  <2>1. "iputClear" \in Iputs
    BY DEF Iputs
  <2> QED
    BY <1>1, <1>2, <2>1, IputQuietly
<1>5. fs.icache[s].lock = p
  <2>1. s \in Holds(kern[p])
    BY <1>1, <1>3 DEF Holds, Frees
  <2> QED
    BY <1>3, <2>1 DEF Inv, UpInv, LockInv
<1>6. fs.icache[s].copy.type # "free"
  BY <1>1, <1>3, <1>5 DEF DiskInv, Clears
<1>7. Held(fs, s)
  <2>1. Good(fs) /\ fs.icache[s].lock # None
    BY <1>5, InvGood, Constants
  <2> QED
    BY <1>3, <1>6, <2>1 DEF Held, Good
<1>8. Freed(fs, fs', s)
  BY <1>2, <1>3, <1>7, FreeOfIs DEF Up
<1>9. /\ Good(fs') /\ Same(fs, fs') /\ fs'.panic = fs.panic
      /\ \A t \in Slots \ {s} : fs'.icache[t].copy = fs.icache[t].copy
      /\ \A t \in Slots \ {s} : fs.icache[t].lock # None /\ fs.icache[t].copy.type # "free"
                                  => SameContents(fs, fs', t)
  BY <1>8 DEF Freed
<1>10. ASSUME NEW t \in Slots, NEW q \in Procs,
              fs'.icache[t].lock = q, fs'.icache[t].copy.type = "free"
       PROVE  kern'[q].pc = "iputClear" /\ kern'[q].put = t
  <2>1. fs.icache[t].lock = q
    BY <1>9, <1>10 DEF Same
  <2>2. CASE t = s
    BY <1>4, <1>5, <2>1, <2>2
  <2>3. CASE t # s
    <3>1. fs.icache[t].copy.type = "free"
      BY <1>9, <1>10, <2>3
    <3>2. kern[q].pc = "iputClear" /\ kern[q].put = t
      BY <1>3, <2>1, <3>1 DEF DiskInv, Clears
    <3>3. q # p
      BY <1>1, <1>3, <3>2
    <3> QED
      BY <1>4, <3>2, <3>3
  <2> QED
    BY <2>2, <2>3
<1>11. ASSUME NEW q \in Procs, kern'[q].pc = "unlinkInode"
       PROVE  Found(fs', kern'[q].dp, kern'[q].name) # {}
  <2>1. q # p /\ kern'[q] = kern[q]
    BY <1>4, <1>11
  <2>2. PICK t : t = kern[q].dp
    OBVIOUS
  <2>3. /\ t \in Slots /\ fs.icache[t].lock = q /\ fs.icache[t].lock # None
        /\ fs.icache[t].copy.type # "free" /\ Found(fs, t, kern[q].name) # {}
    BY <1>3, <1>11, <2>1, <2>2, UnlinkHolds
  <2>4. t # s
    BY <1>5, <2>1, <2>3
  <2>5. SameContents(fs, fs', t)
    BY <1>9, <2>3, <2>4
  <2>6. Found(fs', t, kern[q].name) # {}
    BY <2>3, <2>5, FoundStays
  <2> QED
    BY <2>1, <2>2, <2>6
<1>12. \A q \in Procs : PlaceIs(kern'[q])
  BY <1>4 DEF Quietly, DiskInv
<1> QED
  BY <1>9, <1>10, <1>11, <1>12 DEF DiskInv, Clears, NamesStay, Good

-----------------------------------------------------------------------------
(* The steps that work on one inode                                        *)

\* What may happen to inode s between its lock and the end of a step.
Serves(f, s) ==
  \/ fs' = f \/ fs' = Iunlock(f, s)
  \/ \E g : Done(f, g, {s}) /\ fs' = Iunlock(g, s)
  \/ \E i \in Inums : f.panic = "" /\ (fs' = Iget(f, i) \/ fs' = Iget(Iunlock(f, s), i))

\* A visit that changes the inode it has locked moves that inode only.
LEMMA ServesMoved ==
  ASSUME NEW f, NEW s, Moved(fs, f, {s}), Held(f, s), Serves(f, s)
  PROVE  Moved(fs, fs', {s})
<1>1. PICK S : S = {s}
  OBVIOUS
<1>2. Moved(fs, f, S) /\ Good(f)
  BY <1>1, HeldGood
<1>3. PICK g : g = Iunlock(f, s)
  OBVIOUS
<1>4. Moved(f, g, S) /\ Good(g)
  BY <1>1, <1>3, IunlockMoved DEF Moved
<1>5. CASE fs' = f
  BY <1>1, <1>2, <1>5
<1>6. CASE fs' = Iunlock(f, s)
  BY <1>1, <1>2, <1>3, <1>4, <1>6, MovedTransitive
<1>7. CASE \E h : Done(f, h, {s}) /\ fs' = Iunlock(h, s)
  <2>1. PICK h : Done(f, h, S) /\ fs' = Iunlock(h, s)
    BY <1>1, <1>7
  <2>2. Held(h, s) /\ Moved(f, h, S)
    BY <2>1, HeldDone, DoneMoved
  <2>3. Moved(h, fs', S)
    BY <1>1, <2>1, <2>2, IunlockMoved
  <2> QED
    BY <1>1, <1>2, <2>2, <2>3, MovedTransitive
<1>8. CASE \E i \in Inums : f.panic = "" /\ (fs' = Iget(f, i) \/ fs' = Iget(Iunlock(f, s), i))
  <2>1. PICK i \in Inums : f.panic = "" /\ (fs' = Iget(f, i) \/ fs' = Iget(g, i))
    BY <1>3, <1>8
  <2>2. g.panic = ""
    <3>1. IsSystem(f) /\ g = [f EXCEPT !.icache[s].lock = None]
      BY <1>2, <1>3, <2>1 DEF Iunlock, Good
    <3> QED
      BY <2>1, <3>1 DEF IsSystem, SystemFields
  <2>3. PICK h : h \in {f, g} /\ fs' = Iget(h, i)
    BY <2>1
  <2>4. Moved(fs, h, S) /\ Good(h) /\ h.panic = ""
    BY <1>2, <1>4, <2>1, <2>2, <2>3, MovedTransitive
  <2>5. Moved(h, fs', {})
    BY <2>3, <2>4, IgetMoved
  <2>6. Moved(h, fs', S)
    BY <2>5, MovedMore
  <2> QED
    BY <1>1, <2>4, <2>6, MovedTransitive
<1> QED
  BY <1>5, <1>6, <1>7, <1>8 DEF Serves

\* The lock is taken in this step.
Visited(p, s) ==
  /\ Up /\ kern[p].pc # "iputClear" /\ s \in Slots /\ fs.icache[s].ref > 0 /\ LockFree(fs, s)

\* Who locks an inode it has counted gets a good copy.
LEMMA VisitedIs ==
  ASSUME NEW calls, NEW texts, Inv(calls, texts), DiskInv, NEW p \in Procs, NEW s, Visited(p, s),
         NEW f, f = Ilock(fs, s, p)
  PROVE  Takes(fs, f, s, p) /\ Moved(fs, f, {s}) /\ Held(f, s)
<1>1. Good(fs) /\ s \in Slots /\ fs.icache[s].ref > 0 /\ fs.icache[s].lock = None
  BY InvGood DEF Visited, LockFree
<1>2. Takes(fs, f, s, p)
  BY <1>1, IlockMoved
<1> QED
  BY <1>2 DEF Takes

\* A visit of one inode keeps the disk sound.
LEMMA VisitedDisk ==
  ASSUME NEW calls, NEW texts, Inv(calls, texts), DiskInv, NEW p \in Procs, NEW s, Visited(p, s),
         NEW f, f = Ilock(fs, s, p), Serves(f, s), Quietly(p)
  PROVE  DiskInv'
<1>1. Moved(fs, f, {s}) /\ Held(f, s)
  BY VisitedIs
<1>2. Moved(fs, fs', {s})
  BY <1>1, ServesMoved
<1>3. Up /\ kern[p].pc # "iputClear" /\ fs.icache[s].lock \in {p, None}
  BY DEF Visited, LockFree
<1> QED
  BY <1>2, <1>3, DiskMovesOne

\* The lock has been taken before.
LEMMA HeldDisk ==
  ASSUME NEW calls, NEW texts, Inv(calls, texts), DiskInv, Up, NEW p \in Procs,
         NEW s \in Slots, s \in Below(kern[p]), kern[p].pc # "iputClear", Serves(fs, s), Quietly(p)
  PROVE  DiskInv'
<1>1. fs.icache[s].lock = p /\ Held(fs, s)
  BY HeldByIs
<1>2. Moved(fs, fs, {s})
  BY <1>1, HeldGood, MovedItself
<1>3. Moved(fs, fs', {s})
  BY <1>1, <1>2, ServesMoved
<1> QED
  BY <1>1, <1>3, DiskMovesOne

\* What a process has at its places.
LEMMA IpIs ==
  ASSUME NEW calls, NEW texts, Inv(calls, texts), NEW p \in Procs, NEW place \in WithIp, At(p, place)
  PROVE  /\ Up /\ kern[p].pc = place /\ kern[p].pc # "iputClear" /\ kern[p].ip \in Slots
         /\ fs.icache[kern[p].ip].ref > 0 /\ IsKern(kern[p], texts)
         /\ LockFree(fs, kern[p].ip) => Visited(p, kern[p].ip)
         /\ place \in HoldsIp => kern[p].ip \in Below(kern[p])
<1>1. place \in KernPlaces /\ place # "iputClear"
  BY DEF KernPlaces, WithIp
<1>2. PICK x, s : x = "ip" /\ s = kern[p].ip
  OBVIOUS
<1>3. Up /\ kern[p].pc = place /\ Place(kern[p]) = place /\ s \in Slots /\ IsKern(kern[p], texts)
  BY <1>1, <1>2, AtKern
<1>4. x \in PtrFields /\ kern[p][x] = s
  BY <1>2 DEF PtrFields
<1>5. fs.icache[s].ref > 0
  BY <1>3, <1>4, PtrCounted DEF Inv
<1>6. place \in HoldsIp => s \in Below(kern[p])
  BY <1>2, <1>3 DEF Below
<1> QED
  BY <1>1, <1>2, <1>3, <1>5, <1>6 DEF Visited

\* Who has a parent directory has counted it.
LEMMA DpIs ==
  ASSUME NEW calls, NEW texts, Inv(calls, texts), NEW p \in Procs, NEW place \in WithDp, At(p, place)
  PROVE  /\ Up /\ kern[p].pc = place /\ kern[p].pc # "iputClear" /\ kern[p].dp \in Slots
         /\ fs.icache[kern[p].dp].ref > 0 /\ IsKern(kern[p], texts)
         /\ LockFree(fs, kern[p].dp) => Visited(p, kern[p].dp)
         /\ place \in HoldsDp => kern[p].dp \in Below(kern[p])
<1>1. place \in KernPlaces /\ place # "iputClear"
  BY DEF KernPlaces, WithDp
<1>2. PICK x, s : x = "dp" /\ s = kern[p].dp
  OBVIOUS
<1>3. Up /\ kern[p].pc = place /\ Place(kern[p]) = place /\ s \in Slots /\ IsKern(kern[p], texts)
  BY <1>1, <1>2, AtKern
<1>4. x \in PtrFields /\ kern[p][x] = s
  BY <1>2 DEF PtrFields
<1>5. fs.icache[s].ref > 0
  BY <1>3, <1>4, PtrCounted DEF Inv
<1>6. place \in HoldsDp => s \in Below(kern[p])
  BY <1>2, <1>3 DEF Below
<1> QED
  BY <1>1, <1>2, <1>3, <1>5, <1>6 DEF Visited

\* An entry that a call drops stays a kern record.
LEMMA DropKern ==
  ASSUME NEW texts, NEW k, IsKern(k, texts)
  PROVE  IsKern([k EXCEPT !.ip = None], texts) /\ IsKern([k EXCEPT !.dp = None], texts)
         /\ IsKern([k EXCEPT !.at = None], texts)
BY DEF IsKern, KernFields, Ptr

\* An iunlockput at the end of a call is quiet.
LEMMA UnlockQuietly ==
  ASSUME NEW calls, NEW texts, Inv(calls, texts), NEW p \in Procs, NEW e, IsKern(e, texts),
         NEW f, NEW s, NEW v, UnlockPutReturn(p, f, e, s, v)
  PROVE  fs' = Iunlock(f, s) /\ Quietly(p)
BY PutReturnsQuietly DEF UnlockPutReturn

\* A place of the call itself.
LEMMA GoesQuietly ==
  ASSUME NEW calls, NEW texts, Inv(calls, texts), DiskInv, NEW p \in Procs, NEW m,
         m.pc \in Places \ {"unlinkInode"}, m.after = kern[p].after, Step(p, m)
  PROVE  Quietly(p)
<1>1. PlaceIs(m) /\ m.pc # "unlinkInode"
  BY DEF PlaceIs, DiskInv
<1> QED
  BY <1>1, StepsQuietly

\* So is the end of open.
LEMMA OpenFdQuietly ==
  ASSUME NEW calls, NEW texts, Inv(calls, texts), NEW p \in Procs, NEW f, OpenFd(p, f)
  PROVE  fs' = Iunlock(f, kern[p].ip) /\ Quietly(p)
<1>1. PICK k, e : k = kern[p] /\ e = [k EXCEPT !.ip = None]
  OBVIOUS
<1>2. IsKern(e, texts)
  BY <1>1, DropKern DEF Inv, Shapes
<1>3. \/ \E v : UnlockPutReturn(p, f, e, k.ip, v)
      \/ fs' = Iunlock(f, k.ip) /\ \E u, v, w : ReturnWith(p, u, v, w)
  BY <1>1 DEF OpenFd
<1> QED
  BY <1>1, <1>2, <1>3, UnlockQuietly, ReturnsQuietly

\* open of an inode that exists.
LEMMA OpenInodeDisk ==
  ASSUME NEW calls, NEW texts, Inv(calls, texts), DiskInv, NEW p \in Procs, OpenInode(p)
  PROVE  DiskInv'
<1>1. PICK k, s, f, e, place : /\ k = kern[p] /\ s = k.ip /\ f = Ilock(fs, s, p)
                               /\ e = [k EXCEPT !.ip = None] /\ place = "open"
  OBVIOUS
<1>2. /\ At(p, place) /\ LockFree(fs, s) /\ place \in WithIp
      /\ \/ f.panic # "" /\ fs' = f /\ kern' = kern
         \/ \E v : UnlockPutReturn(p, f, e, s, v)
         \/ OpenFd(p, f)
  BY <1>1 DEF OpenInode, WithIp
<1>3. Visited(p, s) /\ IsKern(k, texts)
  BY <1>1, <1>2, IpIs
<1>4. IsKern(e, texts)
  BY <1>1, <1>3, DropKern
<1>5. Quietly(p) /\ Serves(f, s)
  <2>1. CASE f.panic # "" /\ fs' = f /\ kern' = kern
    BY <2>1, PanicsQuietly DEF Serves
  <2>2. CASE \E v : UnlockPutReturn(p, f, e, s, v)
    BY <1>4, <2>2, UnlockQuietly DEF Serves
  <2>3. CASE OpenFd(p, f)
    BY <1>1, <2>3, OpenFdQuietly DEF Serves
  <2> QED
    BY <1>2, <2>1, <2>2, <2>3
<1> QED
  BY <1>1, <1>3, <1>5, VisitedDisk

\* exec reads its file.
LEMMA ExecDisk ==
  ASSUME NEW calls, NEW texts, Inv(calls, texts), DiskInv, NEW p \in Procs, Exec(p)
  PROVE  DiskInv'
<1>1. PICK k, s, f, e, place : /\ k = kern[p] /\ s = k.ip /\ f = Ilock(fs, s, p)
                               /\ e = [k EXCEPT !.ip = None] /\ place = "exec"
  OBVIOUS
<1>2. /\ At(p, place) /\ LockFree(fs, s) /\ place \in WithIp
      /\ \/ f.panic # "" /\ fs' = f /\ kern' = kern
         \/ \E v : UnlockPutReturn(p, f, e, s, v)
  BY <1>1 DEF Exec, WithIp
<1>3. Visited(p, s) /\ IsKern(k, texts)
  BY <1>1, <1>2, IpIs
<1>4. IsKern(e, texts)
  BY <1>1, <1>3, DropKern
<1>5. Quietly(p) /\ Serves(f, s)
  <2>1. CASE f.panic # "" /\ fs' = f /\ kern' = kern
    BY <2>1, PanicsQuietly DEF Serves
  <2>2. CASE \E v : UnlockPutReturn(p, f, e, s, v)
    BY <1>4, <2>2, UnlockQuietly DEF Serves
  <2> QED
    BY <1>2, <2>1, <2>2
<1> QED
  BY <1>1, <1>3, <1>5, VisitedDisk

\* create, for a name that exists.
LEMMA CreateOldDisk ==
  ASSUME NEW calls, NEW texts, Inv(calls, texts), DiskInv, NEW p \in Procs, CreateOld(p)
  PROVE  DiskInv'
<1>1. PICK k, s, f, e, m, place : /\ k = kern[p] /\ s = k.ip /\ f = Ilock(fs, s, p)
                                  /\ e = [k EXCEPT !.ip = None] /\ m = [k EXCEPT !.pc = "openCreated"]
                                  /\ place = "createOld"
  OBVIOUS
<1>2. /\ At(p, place) /\ LockFree(fs, s) /\ place \in WithIp
      /\ \/ f.panic # "" /\ fs' = f /\ kern' = kern
         \/ fs' = f /\ Step(p, m)
         \/ \E v : UnlockPutReturn(p, f, e, s, v)
  BY <1>1 DEF CreateOld, WithIp
<1>3. Visited(p, s) /\ IsKern(k, texts)
  BY <1>1, <1>2, IpIs
<1>4. IsKern(e, texts)
  BY <1>1, <1>3, DropKern
<1>5. m.pc = "openCreated" /\ m.after = k.after
  BY <1>1, <1>3 DEF IsKern, KernFields
<1>6. m.pc \in Places \ {"unlinkInode"}
  BY <1>5 DEF Places
<1>7. Quietly(p) /\ Serves(f, s)
  <2>1. CASE f.panic # "" /\ fs' = f /\ kern' = kern
    BY <2>1, PanicsQuietly DEF Serves
  <2>2. CASE \E v : UnlockPutReturn(p, f, e, s, v)
    BY <1>4, <2>2, UnlockQuietly DEF Serves
  <2>3. CASE fs' = f /\ Step(p, m)
    BY <1>1, <1>5, <1>6, <2>3, GoesQuietly DEF Serves
  <2> QED
    BY <1>2, <2>1, <2>2, <2>3
<1> QED
  BY <1>1, <1>3, <1>7, VisitedDisk

\* link counts the link before it is made.
LEMMA LinkOldDisk ==
  ASSUME NEW calls, NEW texts, Inv(calls, texts), DiskInv, NEW p \in Procs, LinkOld(p)
  PROVE  DiskInv'
<1>1. PICK k, s, f, e, m, place : /\ k = kern[p] /\ s = k.ip /\ f = Ilock(fs, s, p)
                                  /\ e = [k EXCEPT !.ip = None] /\ m = [k EXCEPT !.pc = "linkNew"]
                                  /\ place = "link"
  OBVIOUS
<1>2. PICK g : g = Iupdate([f EXCEPT !.icache[s].copy.nlink = @ + 1], s)
  OBVIOUS
<1>3. /\ At(p, place) /\ LockFree(fs, s) /\ place \in WithIp
      /\ \/ f.panic # "" /\ fs' = f /\ kern' = kern
         \/ fs' = Iunlock(g, s) /\ Step(p, m)
         \/ \E v : UnlockPutReturn(p, f, e, s, v)
  BY <1>1, <1>2 DEF LinkOld, WithIp
<1>4. Visited(p, s) /\ IsKern(k, texts)
  BY <1>1, <1>3, IpIs
<1>5. IsKern(e, texts)
  BY <1>1, <1>4, DropKern
<1>6. m.pc = "linkNew" /\ m.after = k.after
  BY <1>1, <1>4 DEF IsKern, KernFields
<1>7. m.pc \in Places \ {"unlinkInode"}
  BY <1>6 DEF Places
<1>8. Done(f, g, {s})
  <2>1. Held(f, s)
    BY <1>1, <1>4, VisitedIs
  <2> QED
    BY <1>2, <2>1, CountDone
<1>9. Quietly(p) /\ Serves(f, s)
  <2>1. CASE f.panic # "" /\ fs' = f /\ kern' = kern
    BY <2>1, PanicsQuietly DEF Serves
  <2>2. CASE \E v : UnlockPutReturn(p, f, e, s, v)
    BY <1>5, <2>2, UnlockQuietly DEF Serves
  <2>3. CASE fs' = Iunlock(g, s) /\ Step(p, m)
    BY <1>1, <1>6, <1>7, <1>8, <2>3, GoesQuietly DEF Serves
  <2> QED
    BY <1>3, <2>1, <2>2, <2>3
<1> QED
  BY <1>1, <1>4, <1>9, VisitedDisk

\* link takes it back.
LEMMA LinkBadDisk ==
  ASSUME NEW calls, NEW texts, Inv(calls, texts), DiskInv, NEW p \in Procs, LinkBad(p)
  PROVE  DiskInv'
<1>1. PICK k, s, f, e, place : /\ k = kern[p] /\ s = k.ip /\ f = Ilock(fs, s, p)
                               /\ e = [k EXCEPT !.ip = None] /\ place = "linkBad"
  OBVIOUS
<1>2. PICK g, v : g = Unlinked(f, s) /\ v = -1
  OBVIOUS
<1>3. /\ At(p, place) /\ LockFree(fs, s) /\ place \in WithIp /\ UnlockPutReturn(p, g, e, s, v)
  BY <1>1, <1>2 DEF LinkBad, WithIp
<1>4. Visited(p, s) /\ IsKern(k, texts)
  BY <1>1, <1>3, IpIs
<1>5. IsKern(e, texts)
  BY <1>1, <1>4, DropKern
<1>6. Done(f, g, {s})
  <2>1. Held(f, s)
    BY <1>1, <1>4, VisitedIs
  <2> QED
    BY <1>2, <2>1, CountDone
<1>7. fs' = Iunlock(g, s) /\ Quietly(p)
  BY <1>3, <1>5, UnlockQuietly
<1>8. Serves(f, s)
  BY <1>6, <1>7 DEF Serves
<1> QED
  BY <1>1, <1>4, <1>7, <1>8, VisitedDisk

\* chdir looks at the type.
LEMMA ChdirDisk ==
  ASSUME NEW calls, NEW texts, Inv(calls, texts), DiskInv, NEW p \in Procs, Chdir(p)
  PROVE  DiskInv'
<1>1. PICK k, s, f, e, place : /\ k = kern[p] /\ s = k.ip /\ f = Ilock(fs, s, p)
                               /\ e = [k EXCEPT !.ip = None] /\ place = "chdir"
  OBVIOUS
<1>2. /\ At(p, place) /\ LockFree(fs, s) /\ place \in WithIp
      /\ \/ f.panic # "" /\ fs' = f /\ kern' = kern
         \/ fs' = Iunlock(f, s) /\ Step(p, Iput(k, user[p].cwd, "chdirSet"))
         \/ \E v : UnlockPutReturn(p, f, e, s, v)
  BY <1>1 DEF Chdir, WithIp
<1>3. Visited(p, s) /\ IsKern(k, texts)
  BY <1>1, <1>2, IpIs
<1>4. IsKern(e, texts)
  BY <1>1, <1>3, DropKern
<1>5. Quietly(p) /\ Serves(f, s)
  <2>1. CASE f.panic # "" /\ fs' = f /\ kern' = kern
    BY <2>1, PanicsQuietly DEF Serves
  <2>2. CASE \E v : UnlockPutReturn(p, f, e, s, v)
    BY <1>4, <2>2, UnlockQuietly DEF Serves
  <2>3. CASE fs' = Iunlock(f, s) /\ Step(p, Iput(k, user[p].cwd, "chdirSet"))
    BY <1>3, <2>3, PutsQuietly DEF Serves
  <2> QED
    BY <1>2, <2>1, <2>2, <2>3
<1> QED
  BY <1>1, <1>3, <1>5, VisitedDisk

\* The calls that end with an inode locked.
LEMMA EndsDisk ==
  ASSUME NEW calls, NEW texts, Inv(calls, texts), DiskInv, NEW p \in Procs,
         OpenCreated(p) \/ Created(p) \/ UnlinkDone(p)
  PROVE  DiskInv'
<1>1. PICK k, s, e : k = kern[p] /\ s = k.ip /\ e = [k EXCEPT !.ip = None]
  OBVIOUS
<1>2. PICK g : g = Unlinked(fs, s)
  OBVIOUS
<1>3. PICK place : /\ place \in WithIp /\ place \in HoldsIp /\ At(p, place)
                   /\ \/ OpenFd(p, fs)
                      \/ \E v : UnlockPutReturn(p, fs, e, s, v)
                      \/ \E v : UnlockPutReturn(p, g, e, s, v)
  <2>1. CASE OpenCreated(p)
    BY <2>1 DEF OpenCreated, WithIp, HoldsIp
  <2>2. CASE Created(p)
    BY <1>1, <2>2 DEF Created, WithIp, HoldsIp
  <2>3. CASE UnlinkDone(p)
    BY <1>1, <1>2, <2>3 DEF UnlinkDone, WithIp, HoldsIp
  <2> QED
    BY <2>1, <2>2, <2>3
<1>4. /\ Up /\ k.pc # "iputClear" /\ s \in Slots /\ IsKern(k, texts) /\ s \in Below(k)
  BY <1>1, <1>3, IpIs
<1>5. IsKern(e, texts)
  BY <1>1, <1>4, DropKern
<1>6. Done(fs, g, {s})
  <2>1. Held(fs, s)
    BY <1>1, <1>4, HeldByIs
  <2> QED
    BY <1>2, <2>1, CountDone
<1>7. Quietly(p) /\ Serves(fs, s)
  <2>1. CASE OpenFd(p, fs)
    BY <1>1, <2>1, OpenFdQuietly DEF Serves
  <2>2. CASE \E v : UnlockPutReturn(p, fs, e, s, v)
    BY <1>5, <2>2, UnlockQuietly DEF Serves
  <2>3. CASE \E v : UnlockPutReturn(p, g, e, s, v)
    BY <1>5, <1>6, <2>3, UnlockQuietly DEF Serves
  <2> QED
    BY <1>3, <2>1, <2>2, <2>3
<1> QED
  BY <1>1, <1>4, <1>7, HeldDisk

\* Calls that give up, and unlock a directory.
LEMMA GivesUpDisk ==
  ASSUME NEW calls, NEW texts, Inv(calls, texts), DiskInv, NEW p \in Procs, UnlinkBad(p) \/ LinkExists(p)
  PROVE  DiskInv'
<1>1. PICK k, s, e : k = kern[p] /\ s = k.dp /\ e = [k EXCEPT !.dp = None]
  OBVIOUS
<1>2. PICK place : /\ place \in WithDp /\ place \in HoldsDp /\ At(p, place)
                   /\ \/ \E v : UnlockPutReturn(p, fs, e, s, v)
                      \/ fs' = Iunlock(fs, s) /\ Step(p, Iput(e, s, "linkBad"))
  <2>1. CASE UnlinkBad(p)
    BY <1>1, <2>1 DEF UnlinkBad, WithDp, HoldsDp
  <2>2. CASE LinkExists(p)
    BY <1>1, <2>2 DEF LinkExists, WithDp, HoldsDp
  <2> QED
    BY <2>1, <2>2
<1>3. /\ Up /\ k.pc # "iputClear" /\ s \in Slots /\ IsKern(k, texts) /\ s \in Below(k)
  BY <1>1, <1>2, DpIs
<1>4. IsKern(e, texts)
  BY <1>1, <1>3, DropKern
<1>5. Quietly(p) /\ Serves(fs, s)
  <2>1. CASE \E v : UnlockPutReturn(p, fs, e, s, v)
    BY <1>4, <2>1, UnlockQuietly DEF Serves
  <2>2. CASE fs' = Iunlock(fs, s) /\ Step(p, Iput(e, s, "linkBad"))
    BY <1>4, <2>2, PutsQuietly DEF Serves
  <2> QED
    BY <1>2, <2>1, <2>2
<1> QED
  BY <1>1, <1>3, <1>5, HeldDisk

\* An i-number that dirlookup finds is one of the disk's.
LEMMA LookupIs ==
  ASSUME NEW f, NEW s, Held(f, s), f.panic = "", NEW name, NEW i, i = Dirlookup(f, s, name), i # None
  PROVE  i \in Inums /\ Found(f, s, name) # {}
<1>1. i \in InumOrNone /\ Found(f, s, name) # {}
  BY DirlookupIs
<1> QED
  BY <1>1 DEF InumOrNone

\* create looks for the name in the parent.
LEMMA CreateDisk ==
  ASSUME NEW calls, NEW texts, Inv(calls, texts), DiskInv, NEW p \in Procs, Create(p)
  PROVE  DiskInv'
<1>1. PICK k, s, f, place : k = kern[p] /\ s = k.dp /\ f = Ilock(fs, s, p) /\ place = "create"
  OBVIOUS
<1>2. PICK i, g : i = Dirlookup(f, s, k.name) /\ g = Iunlock(f, s)
  OBVIOUS
<1>3. PICK e, m : e = [k EXCEPT !.ip = SlotFor(g, i), !.dp = None] /\ m = [k EXCEPT !.pc = "createAlloc"]
  OBVIOUS
<1>4. /\ At(p, place) /\ LockFree(fs, s) /\ place \in WithDp
      /\ \/ f.panic # "" /\ fs' = f /\ kern' = kern
         \/ f.panic = "" /\ i # None /\ fs' = Iget(g, i) /\ Step(p, Iput(e, s, "createOld"))
         \/ fs' = f /\ Step(p, m)
  BY <1>1, <1>2, <1>3 DEF Create, WithDp
<1>5. Visited(p, s) /\ IsKern(k, texts)
  BY <1>1, <1>4, DpIs
<1>6. m.pc = "createAlloc" /\ m.after = k.after
  BY <1>3, <1>5 DEF IsKern, KernFields
<1>7. m.pc \in Places \ {"unlinkInode"}
  BY <1>6 DEF Places
<1>8. Held(f, s)
  BY <1>1, <1>5, VisitedIs
<1>9. Quietly(p) /\ Serves(f, s)
  <2>1. CASE f.panic # "" /\ fs' = f /\ kern' = kern
    BY <2>1, PanicsQuietly DEF Serves
  <2>2. CASE f.panic = "" /\ i # None /\ fs' = Iget(g, i) /\ Step(p, Iput(e, s, "createOld"))
    <3>1. i \in Inums
      BY <1>2, <1>8, <2>2, LookupIs
    <3>2. Serves(f, s)
      BY <1>2, <2>2, <3>1 DEF Serves
    <3>3. PICK x : x = Iput(e, s, "createOld")
      OBVIOUS
    <3>4. x.pc = "iput" /\ x.after = "createOld"
      BY <1>3, <1>5, <3>3 DEF IsKern, KernFields, Iput
    <3>5. PlaceIs(x) /\ x.pc # "unlinkInode"
      BY <3>4 DEF PlaceIs, Places
    <3>6. Quietly(p)
      BY <2>2, <3>3, <3>5, StepsQuietly
    <3> QED
      BY <3>2, <3>6
  <2>3. CASE fs' = f /\ Step(p, m)
    BY <1>1, <1>6, <1>7, <2>3, GoesQuietly DEF Serves
  <2> QED
    BY <1>4, <2>1, <2>2, <2>3
<1> QED
  BY <1>1, <1>5, <1>9, VisitedDisk

\* link writes the entry, or finds that it cannot.
LEMMA LinkDirDisk ==
  ASSUME NEW calls, NEW texts, Inv(calls, texts), DiskInv, NEW p \in Procs, LinkDir(p)
  PROVE  DiskInv'
<1>1. PICK k, s, f, e, place : /\ k = kern[p] /\ s = k.dp /\ f = Ilock(fs, s, p)
                               /\ e = [k EXCEPT !.dp = None] /\ place = "linkDir"
  OBVIOUS
<1>2. PICK i, j : i = Dirlookup(f, s, k.name) /\ j = f.icache[k.ip].inum
  OBVIOUS
<1>3. PICK g : g = Dirlink(f, s, k.name, j)
  OBVIOUS
<1>4. /\ At(p, place) /\ LockFree(fs, s) /\ place \in WithDp
      /\ \/ f.panic # "" /\ fs' = f /\ kern' = kern
         \/ f.panic = "" /\ i # None /\ fs' = Iget(f, i) /\ Step(p, Iput(k, SlotFor(f, i), "linkExists"))
         \/ fs' = Iunlock(g, s) /\ Step(p, Iput(e, s, "linked"))
  BY <1>1, <1>2, <1>3 DEF LinkDir, WithDp
<1>5. Visited(p, s) /\ IsKern(k, texts)
  BY <1>1, <1>4, DpIs
<1>6. IsKern(e, texts)
  BY <1>1, <1>5, DropKern
<1>7. Held(f, s)
  BY <1>1, <1>5, VisitedIs
<1>8. Done(f, g, {s})
  <2>1. k.ip \in Slots
    <3>1. place \in WithIp
      BY <1>1 DEF WithIp
    <3> QED
      BY <1>1, <1>4, <3>1, IpIs
  <2>2. j \in InumOrNone
    BY <1>2, <1>7, <2>1 DEF Held, Sound, Typed
  <2> QED
    BY <1>3, <1>7, <2>2, DirlinkDone
<1>9. Quietly(p) /\ Serves(f, s)
  <2>1. CASE f.panic # "" /\ fs' = f /\ kern' = kern
    BY <2>1, PanicsQuietly DEF Serves
  <2>2. CASE f.panic = "" /\ i # None /\ fs' = Iget(f, i) /\ Step(p, Iput(k, SlotFor(f, i), "linkExists"))
    <3>1. i \in Inums
      BY <1>2, <1>7, <2>2, LookupIs
    <3>2. Serves(f, s)
      BY <2>2, <3>1 DEF Serves
    <3>3. PICK t, after : t = SlotFor(f, i) /\ after = "linkExists"
      OBVIOUS
    <3>4. after # "unlinkInode" /\ Step(p, Iput(k, t, after))
      BY <2>2, <3>3
    <3>5. Quietly(p)
      BY ONLY <1>5, <3>4, Inv(calls, texts), p \in Procs, PutsQuietly
    <3> QED
      BY <3>2, <3>5
  <2>3. CASE fs' = Iunlock(g, s) /\ Step(p, Iput(e, s, "linked"))
    <3>1. PICK after : after = "linked"
      OBVIOUS
    <3>2. after # "unlinkInode" /\ Step(p, Iput(e, s, after))
      BY <2>3, <3>1
    <3>3. Quietly(p)
      BY ONLY <1>6, <3>2, Inv(calls, texts), p \in Procs, PutsQuietly
    <3> QED
      BY <1>8, <2>3, <3>3 DEF Serves
  <2> QED
    BY <1>4, <2>1, <2>2, <2>3
<1> QED
  BY <1>1, <1>5, <1>9, VisitedDisk

\* ialloc and iget, with the parent locked.
LEMMA CreateAllocDisk ==
  ASSUME NEW calls, NEW texts, Inv(calls, texts), DiskInv, NEW p \in Procs, CreateAlloc(p)
  PROVE  DiskInv'
<1>1. PICK k, type, f, i, place : /\ k = kern[p] /\ type = NewType(Cur(p)) /\ f = Ialloc(fs, type)
                                  /\ i = IallocNum(fs) /\ place = "createAlloc"
  OBVIOUS
<1>2. PICK m : m = [k EXCEPT !.pc = "createInit", !.ip = SlotFor(f, i)]
  OBVIOUS
<1>3. /\ At(p, place) /\ place \in WithDp
      /\ \/ f.panic # "" /\ fs' = f /\ kern' = kern
         \/ f.panic = "" /\ fs' = Iget(f, i) /\ Step(p, m)
  BY <1>1, <1>2 DEF CreateAlloc, WithDp
<1>4. Up /\ k.pc # "iputClear" /\ IsKern(k, texts)
  BY <1>1, <1>3, DpIs
<1>5. m.pc = "createInit" /\ m.after = k.after
  BY <1>2, <1>4 DEF IsKern, KernFields
<1>6. m.pc \in Places \ {"unlinkInode"}
  BY <1>5 DEF Places
<1>7. type # "free"
  BY <1>1 DEF NewType
<1>8. Moved(fs, f, {}) /\ (f.panic = "" => i \in Inums)
  BY <1>1, <1>4, <1>7, InvGood, IallocMoved DEF Up
<1>9. Quietly(p) /\ Moved(fs, fs', {})
  <2>1. CASE f.panic # "" /\ fs' = f /\ kern' = kern
    BY <1>8, <2>1, PanicsQuietly
  <2>2. CASE f.panic = "" /\ fs' = Iget(f, i) /\ Step(p, m)
    <3>1. Moved(f, fs', {})
      BY <1>8, <2>2, IgetMoved DEF Moved
    <3>2. Moved(fs, fs', {})
      BY <1>8, <3>1, MovedTransitive
    <3>3. Quietly(p)
      BY <1>1, <1>5, <1>6, <2>2, GoesQuietly
    <3> QED
      BY <3>2, <3>3
  <2> QED
    BY <1>3, <2>1, <2>2
<1> QED
  BY <1>1, <1>4, <1>9, DiskMovesNone

-----------------------------------------------------------------------------
(* Paths, unlink and create                                                *)

\* A path's first inode is only counted.
LEMMA StartMoved ==
  ASSUME NEW calls, NEW texts, Inv(calls, texts), DiskInv, Up, NEW p \in Procs, user[p].cwd \in Slots,
         NEW path
  PROVE  Moved(fs, StartInode(fs, p, path), {})
<1>1. PICK s : s = user[p].cwd
  OBVIOUS
<1>2. s \in Slots /\ fs.icache[s].ref > 0
  BY <1>1, CwdCounted DEF Inv
<1>3. Good(fs) /\ fs.panic = ""
  BY InvGood DEF Up
<1>4. CASE path.abs
  <2>1. ROOTINO \in Inums
    <3>1. fs.icache[s].inum \in Inums
      BY <1>2 DEF DiskInv, Sound, Typed
    <3> QED
      BY <3>1, DiskAssumption DEF Inums, ROOTINO
  <2>2. Moved(fs, Iget(fs, ROOTINO), {})
    BY <1>3, <2>1, IgetMoved
  <2> QED
    BY <1>4, <2>2 DEF StartInode
<1>5. CASE ~path.abs
  <2>1. Moved(fs, Idup(fs, s), {})
    BY <1>2, <1>3, IdupMoved
  <2> QED
    BY <1>1, <1>5, <2>1 DEF StartInode
<1> QED
  BY <1>4, <1>5

\* namex begins quietly.
LEMMA NamexQuietly ==
  ASSUME NEW calls, NEW texts, Inv(calls, texts), DiskInv, NEW p \in Procs,
         NEW path, NEW parent, NEW then, NEW else, Step(p, Namex(kern[p], p, path, parent, then, else))
  PROVE  Quietly(p)
<1>1. PICK k, m : k = kern[p] /\ m = Namex(k, p, path, parent, then, else)
  OBVIOUS
<1>2. IsKern(k, texts)
  BY <1>1 DEF Inv, Shapes
<1>3. m.pc = "walk" /\ m.after = k.after
  BY <1>1, <1>2 DEF Namex, IsKern, KernFields
<1>4. m.pc \in Places \ {"unlinkInode"}
  BY <1>3 DEF Places
<1> QED
  BY <1>1, <1>3, <1>4, GoesQuietly

\* Calls that begin with a path.
LEMMA StartDisk ==
  ASSUME NEW calls, NEW texts, Inv(calls, texts), DiskInv, NEW p \in Procs, PathCall(p) \/ LinkNew(p)
  PROVE  DiskInv'
<1>1. Up /\ kern[p].pc # "iputClear" /\ user[p].cwd \in Slots
  <2>1. CASE PathCall(p)
    <3>1. At(p, "user")
      BY <2>1 DEF PathCall
    <3> QED
      BY <3>1, AtUser
  <2>2. CASE LinkNew(p)
    <3>1. PICK place : place = "linkNew" /\ At(p, place)
      BY <2>2 DEF LinkNew
    <3>2. place \in KernPlaces /\ place # "chdirSet" /\ place # "iputClear"
      BY <3>1 DEF KernPlaces, WithIp
    <3> QED
      BY <3>1, <3>2, AtKern
  <2> QED
    BY <2>1, <2>2
<1>2. /\ \E path : fs' = StartInode(fs, p, path)
      /\ \E path, parent, then, else : Step(p, Namex(kern[p], p, path, parent, then, else))
  BY DEF PathCall, LinkNew
<1>3. Moved(fs, fs', {})
  BY <1>1, <1>2, StartMoved
<1>4. Quietly(p)
  BY <1>2, NamexQuietly
<1> QED
  BY <1>1, <1>3, <1>4, DiskMovesNone

\* Where namex leads.
LEMMA WalkPlaces ==
  ASSUME NEW texts, NEW k, IsKern(k, texts), Walks(k), PlaceIs(k)
  PROVE  /\ k.else # "unlinkInode" /\ k.then \in Places \ {"unlinkInode"}
         /\ \A name : NamexFound(k, name).pc = k.then /\ NamexFound(k, name).after = k.after
<1>1. k.else # "unlinkInode" /\ k.then \in Places \ {"unlinkInode"}
  BY DEF Walks, Places
<1>2. ASSUME NEW name
      PROVE  NamexFound(k, name).pc = k.then /\ NamexFound(k, name).after = k.after
  BY DEF NamexFound, IsKern, KernFields
<1> QED
  BY <1>1, <1>2

\* Who walks has counted the inode it is at.
LEMMA AtWalk ==
  ASSUME NEW calls, NEW texts, Inv(calls, texts), NEW p \in Procs, At(p, "walk")
  PROVE  /\ Up /\ kern[p].pc # "iputClear" /\ kern[p].at \in Slots
         /\ fs.icache[kern[p].at].ref > 0 /\ IsKern(kern[p], texts) /\ Walks(kern[p])
         /\ LockFree(fs, kern[p].at) => Visited(p, kern[p].at)
<1>1. PICK x, s, place : x = "at" /\ s = kern[p].at /\ place = "walk"
  OBVIOUS
<1>2. place \in KernPlaces /\ place # "iputClear" /\ At(p, place)
  BY <1>1 DEF KernPlaces
<1>3. /\ Up /\ kern[p].pc = place /\ Place(kern[p]) = place /\ IsKern(kern[p], texts)
      /\ ProcInv(user[p], kern[p])
  BY <1>2, AtKern
<1>4. s \in Slots /\ Walks(kern[p])
  BY <1>1, <1>3 DEF ProcInv, PtrInv, IsKern, Ptr
<1>5. x \in PtrFields /\ kern[p][x] = s
  BY <1>1 DEF PtrFields
<1>6. fs.icache[s].ref > 0
  BY <1>4, <1>5, PtrCounted DEF Inv
<1> QED
  BY <1>1, <1>2, <1>3, <1>4, <1>6 DEF Visited

\* A step of a path walk looks into one directory.
LEMMA WalkDisk ==
  ASSUME NEW calls, NEW texts, Inv(calls, texts), DiskInv, NEW p \in Procs, Walk(p)
  PROVE  DiskInv'
<1>1. PICK k, s, f : k = kern[p] /\ s = k.at /\ f = Ilock(fs, s, p)
  OBVIOUS
<1>2. PICK g, name : g = Iunlock(f, s) /\ name = Head(k.path.names)
  OBVIOUS
<1>3. PICK i, e, d : /\ i = Dirlookup(f, s, name) /\ e = [k EXCEPT !.at = None]
                     /\ d = [k EXCEPT !.at = SlotFor(g, i), !.path.names = Tail(@)]
  OBVIOUS
<1>4. PICK leave, on, found, end :
        /\ leave = Iput(e, s, k.else) /\ on = Iput(d, s, "walk")
        /\ found = NamexFound(k, name) /\ end = NamexFound(k, "")
  OBVIOUS
<1>5. /\ At(p, "walk")
      /\ \/ fs' = fs /\ (Step(p, leave) \/ Step(p, end))
         \/ /\ LockFree(fs, s)
            /\ \/ f.panic # "" /\ fs' = f /\ kern' = kern
               \/ fs' = g /\ (Step(p, leave) \/ Step(p, found))
               \/ f.panic = "" /\ i # None /\ fs' = Iget(g, i) /\ Step(p, on)
  BY <1>1, <1>2, <1>3, <1>4 DEF Walk
<1>6. /\ Up /\ k.pc # "iputClear" /\ s \in Slots /\ IsKern(k, texts) /\ Walks(k)
      /\ LockFree(fs, s) => Visited(p, s)
  BY <1>1, <1>5, AtWalk
<1>7. PlaceIs(k)
  BY <1>1 DEF DiskInv
<1>8. k.else # "unlinkInode" /\ k.then \in Places \ {"unlinkInode"}
  BY <1>6, <1>7, WalkPlaces
<1>9. PlaceIs(leave) /\ leave.pc # "unlinkInode"
  <2>1. leave.pc = "iput" /\ leave.after = k.else
    BY <1>3, <1>4, <1>6 DEF IsKern, KernFields, Iput
  <2> QED
    BY <1>8, <2>1 DEF PlaceIs, Places
<1>10. PlaceIs(on) /\ on.pc # "unlinkInode"
  <2>1. on.pc = "iput" /\ on.after = "walk"
    BY <1>3, <1>4, <1>6 DEF IsKern, KernFields, Iput
  <2> QED
    BY <2>1 DEF PlaceIs, Places
<1>11. /\ PlaceIs(found) /\ found.pc # "unlinkInode"
       /\ PlaceIs(end) /\ end.pc # "unlinkInode"
  <2>1. found.pc = k.then /\ found.after = k.after /\ end.pc = k.then /\ end.after = k.after
    BY <1>4, <1>6, <1>7, WalkPlaces
  <2> QED
    BY <1>7, <1>8, <2>1 DEF PlaceIs
<1>12. ASSUME NEW m \in {leave, on, found, end}, Step(p, m) PROVE Quietly(p)
  BY <1>9, <1>10, <1>11, <1>12, StepsQuietly
<1>13. CASE fs' = fs /\ (Step(p, leave) \/ Step(p, end))
  <2>1. Quietly(p)
    BY <1>12, <1>13
  <2> QED
    BY <1>1, <1>6, <1>13, <2>1, DiskStays
<1>14. CASE /\ LockFree(fs, s)
            /\ \/ f.panic # "" /\ fs' = f /\ kern' = kern
               \/ fs' = g /\ (Step(p, leave) \/ Step(p, found))
               \/ f.panic = "" /\ i # None /\ fs' = Iget(g, i) /\ Step(p, on)
  <2>1. Visited(p, s)
    BY <1>6, <1>14
  <2>2. Held(f, s)
    BY <1>1, <2>1, VisitedIs
  <2>3. Quietly(p)
    <3>1. CASE f.panic # "" /\ fs' = f /\ kern' = kern
      BY <3>1, PanicsQuietly
    <3> QED
      BY <1>12, <1>14, <3>1
  <2>4. Serves(f, s)
    <3>1. f.panic = "" /\ i # None => i \in Inums
      BY <1>3, <2>2, LookupIs
    <3> QED
      BY <1>2, <1>14, <3>1 DEF Serves
  <2> QED
    BY <1>1, <2>1, <2>3, <2>4, VisitedDisk
<1> QED
  BY <1>5, <1>13, <1>14

\* unlink finds the name, and keeps the directory locked.
LEMMA UnlinkDisk ==
  ASSUME NEW calls, NEW texts, Inv(calls, texts), DiskInv, NEW p \in Procs, Unlink(p)
  PROVE  DiskInv'
<1>1. PICK k, s, f, e, place : /\ k = kern[p] /\ s = k.dp /\ f = Ilock(fs, s, p)
                               /\ e = [k EXCEPT !.dp = None] /\ place = "unlink"
  OBVIOUS
<1>2. PICK i : i = Dirlookup(f, s, k.name)
  OBVIOUS
<1>3. PICK m : m = [k EXCEPT !.pc = "unlinkInode", !.ip = SlotFor(f, i)]
  OBVIOUS
<1>4. /\ At(p, place) /\ LockFree(fs, s) /\ place \in WithDp
      /\ \/ f.panic # "" /\ fs' = f /\ kern' = kern
         \/ \E v : UnlockPutReturn(p, f, e, s, v)
         \/ f.panic = "" /\ i # None /\ fs' = Iget(f, i) /\ Step(p, m)
  BY <1>1, <1>2, <1>3 DEF Unlink, WithDp
<1>5. Visited(p, s) /\ IsKern(k, texts) /\ Up /\ k.pc # "iputClear"
  BY <1>1, <1>4, DpIs
<1>6. IsKern(e, texts)
  BY <1>1, <1>5, DropKern
<1>7. Moved(fs, f, {s}) /\ Held(f, s)
  BY <1>1, <1>5, VisitedIs
<1>8. CASE f.panic # "" /\ fs' = f /\ kern' = kern
  <2>1. Quietly(p) /\ Serves(f, s)
    BY <1>8, PanicsQuietly DEF Serves
  <2> QED
    BY <1>1, <1>5, <2>1, VisitedDisk
<1>9. CASE \E v : UnlockPutReturn(p, f, e, s, v)
  <2>1. Quietly(p) /\ Serves(f, s)
    BY <1>6, <1>9, UnlockQuietly DEF Serves
  <2> QED
    BY <1>1, <1>5, <2>1, VisitedDisk
<1>10. CASE f.panic = "" /\ i # None /\ fs' = Iget(f, i) /\ Step(p, m)
  <2>1. i \in Inums /\ Found(f, s, k.name) # {}
    BY <1>2, <1>7, <1>10, LookupIs
  <2>2. Moved(f, fs', {}) /\ Good(f)
    BY <1>7, <1>10, <2>1, HeldGood, IgetMoved
  <2>3. Moved(fs, fs', {s})
    <3>1. PICK S : S = {s}
      OBVIOUS
    <3>2. Moved(fs, f, S) /\ Moved(f, fs', S)
      BY <1>7, <2>2, <3>1, MovedMore
    <3> QED
      BY <3>1, <3>2, MovedTransitive
  <2>4. m.pc = "unlinkInode" /\ m.after = k.after /\ m.dp = s /\ m.name = k.name
    BY <1>1, <1>3, <1>5 DEF IsKern, KernFields
  <2>5. PlaceIs(m)
    BY <1>1, <2>4 DEF PlaceIs, DiskInv, Places
  <2>6. Up' => Found(fs', s, k.name) # {}
    <3>1. SUFFICES ASSUME Up' PROVE Found(fs', s, k.name) # {}
      OBVIOUS
    <3>2. f.icache[s].lock # None /\ f.icache[s].copy.type # "free" /\ s \in Slots
      BY <1>7, <1>10 DEF Held
    <3>3. SameContents(f, fs', s)
      BY <2>2, <3>1, <3>2 DEF Moved, Leaves, Up
    <3> QED
      BY <2>1, <3>3, FoundStays
  <2>7. kern'[p] = m /\ \A q \in Procs : q # p => kern'[q] = kern[q]
    BY <1>10 DEF Step, Inv, Shapes
  <2>8. Reaches(p)
    BY <2>4, <2>5, <2>6, <2>7 DEF Reaches
  <2>9. PICK S : S = {s}
    OBVIOUS
  <2>10. Moved(fs, fs', S) /\ Touching(p, S)
    BY <1>4, <2>3, <2>9 DEF Touching, LockFree
  <2> QED
    BY <1>1, <1>5, <2>8, <2>10, DiskMoves
<1> QED
  BY <1>4, <1>8, <1>9, <1>10

\* A second inode is locked: the first is held as before.
LEMMA SecondLock ==
  ASSUME NEW calls, NEW texts, Inv(calls, texts), DiskInv, NEW p \in Procs, NEW s, Visited(p, s),
         NEW d \in Slots, d \in Below(kern[p]), NEW f, f = Ilock(fs, s, p)
  PROVE  /\ d # s /\ Held(f, d) /\ Held(f, s) /\ Moved(fs, f, {s}) /\ f.icache[d] = fs.icache[d]
         /\ Touching(p, {s, d})
         /\ f.panic = "" => SameContents(fs, f, d)
<1>1. Takes(fs, f, s, p) /\ Moved(fs, f, {s}) /\ Held(f, s)
  BY VisitedIs
<1>2. Up /\ fs.icache[s].lock = None
  BY DEF Visited, LockFree
<1>3. fs.icache[d].lock = p /\ fs.icache[d].copy.type # "free" /\ Held(fs, d)
  BY <1>2, HeldByIs
<1>4. d # s /\ fs.icache[d].lock # None
  BY <1>2, <1>3, Constants
<1>5. f.icache[d] = fs.icache[d]
  BY <1>1, <1>4 DEF Takes
<1>6. Held(f, d)
  <2>1. fs.icache[d].ref > 0
    BY <1>3 DEF Held
  <2> QED
    BY <1>1, <1>3, <1>4, <1>5, <2>1 DEF Held, Moved, Good
<1>7. f.panic = "" => SameContents(fs, f, d)
  BY <1>1, <1>3, <1>4 DEF Moved, Leaves
<1>8. Touching(p, {s, d})
  BY <1>2, <1>3 DEF Touching
<1> QED
  BY <1>1, <1>4, <1>5, <1>6, <1>7, <1>8

\* Both are worked on, and the parent is given back.
LEMMA BothMoved ==
  ASSUME NEW f, NEW s, NEW d, Moved(fs, f, {s}), Held(f, s), Held(f, d), NEW g, Done(f, g, {s, d})
  PROVE  Moved(fs, Iunlock(g, d), {s, d})
<1>1. PICK S, A, B : S = {s, d} /\ A = {s} /\ B = {d}
  OBVIOUS
<1>2. A \subseteq S /\ B \subseteq S
  BY <1>1
<1>3. Held(g, d) /\ Moved(f, g, S)
  BY <1>1, HeldDone, DoneMoved
<1>4. Moved(g, Iunlock(g, d), S)
  <2>1. Moved(g, Iunlock(g, d), B)
    BY <1>1, <1>3, IunlockMoved
  <2> QED
    BY <1>2, <2>1, MovedMore
<1>5. Moved(fs, f, S)
  BY <1>1, <1>2, MovedMore
<1>6. Moved(fs, g, S)
  BY <1>3, <1>5, MovedTransitive
<1> QED
  BY <1>1, <1>4, <1>6, MovedTransitive

\* A visit of one inode with a directory locked, which is unlocked at the end.
LEMMA BothDisk ==
  ASSUME NEW calls, NEW texts, Inv(calls, texts), DiskInv, NEW p \in Procs, NEW s, Visited(p, s),
         NEW d \in Slots, d \in Below(kern[p]), NEW f, f = Ilock(fs, s, p),
         NEW g, Done(f, g, {s, d}), fs' = Iunlock(g, d), Quietly(p)
  PROVE  DiskInv'
<1>1. /\ Held(f, d) /\ Held(f, s) /\ Moved(fs, f, {s}) /\ Touching(p, {s, d})
  BY SecondLock
<1>2. PICK S : S = {s, d}
  OBVIOUS
<1>3. Moved(fs, fs', S) /\ Touching(p, S)
  BY <1>1, <1>2, BothMoved
<1>4. Up /\ kern[p].pc # "iputClear"
  BY DEF Visited
<1> QED
  BY <1>3, <1>4, QuietlyReaches, DiskMoves

\* unlink erases the entry, which is still where it was found.
LEMMA UnlinkInodeDisk ==
  ASSUME NEW calls, NEW texts, Inv(calls, texts), DiskInv, NEW p \in Procs, UnlinkInode(p)
  PROVE  DiskInv'
<1>1. PICK k, s, d, f, place : /\ k = kern[p] /\ s = k.ip /\ d = k.dp /\ f = Ilock(fs, s, p)
                               /\ place = "unlinkInode"
  OBVIOUS
<1>2. PICK off, h, a, b : /\ off = Min(Found(f, d, k.name)) /\ h = Panic(f, "unlink: nlink < 1")
                          /\ a = [k EXCEPT !.ip = None] /\ b = [k EXCEPT !.dp = None]
  OBVIOUS
<1>3. PICK g, bad, done : g = Erase(f, k, off) /\ bad = "unlinkBad" /\ done = "unlinkDone"
  OBVIOUS
<1>4. /\ At(p, place) /\ LockFree(fs, s) /\ place \in WithDp /\ place \in WithIp /\ place \in HoldsDp
      /\ \/ f.panic # "" /\ fs' = f /\ kern' = kern
         \/ fs' = h /\ kern' = kern
         \/ fs' = Iunlock(f, s) /\ Step(p, Iput(a, s, bad))
         \/ f.panic = "" /\ fs' = Iunlock(g, d) /\ Step(p, Iput(b, d, done))
  BY <1>1, <1>2, <1>3 DEF UnlinkInode, WithDp, WithIp, HoldsDp
<1>5. Visited(p, s) /\ IsKern(k, texts) /\ Up /\ k.pc = place
  BY <1>1, <1>4, IpIs
<1>6. d \in Slots /\ d \in Below(k)
  BY <1>1, <1>4, DpIs
<1>7. /\ Held(f, d) /\ Held(f, s) /\ Moved(fs, f, {s})
      /\ f.panic = "" => SameContents(fs, f, d)
  BY <1>1, <1>5, <1>6, SecondLock, ZenonT(60)
<1>8. IsKern(a, texts) /\ IsKern(b, texts)
  BY <1>2, <1>5, DropKern
<1>9. bad # "unlinkInode" /\ done # "unlinkInode"
  BY <1>3
<1>10. CASE f.panic # "" /\ fs' = f /\ kern' = kern
  <2>1. Quietly(p) /\ Serves(f, s)
    BY <1>10, PanicsQuietly DEF Serves
  <2> QED
    BY <1>1, <1>5, <2>1, VisitedDisk
<1>11. CASE fs' = h /\ kern' = kern
  <2>1. Good(f)
    BY <1>7, HeldGood
  <2>2. Moved(f, h, {s}) /\ h.panic # ""
    <3>1. PICK message : message = "unlink: nlink < 1"
      OBVIOUS
    <3>2. message # ""
      BY <3>1
    <3>3. h = Panic(f, message)
      BY <1>2, <3>1
    <3>4. Moved(f, h, {s})
      BY <2>1, <3>2, <3>3, PanicMoved
    <3>5. IsSystem(f)
      BY <2>1 DEF Good
    <3>6. h.panic = message
      BY <3>3, <3>5 DEF Panic, IsSystem, SystemFields
    <3> QED
      BY <3>2, <3>4, <3>6
  <2>3. Moved(fs, fs', {s})
    BY <1>7, <1>11, <2>2, MovedTransitive
  <2>4. Quietly(p)
    BY <1>11, <2>2, PanicsQuietly
  <2>5. kern[p].pc # "iputClear" /\ fs.icache[s].lock \in {p, None}
    BY <1>1, <1>4, <1>5 DEF LockFree
  <2> QED
    BY <1>5, <2>3, <2>4, <2>5, DiskMovesOne
<1>12. CASE fs' = Iunlock(f, s) /\ Step(p, Iput(a, s, bad))
  <2>1. Quietly(p) /\ Serves(f, s)
    BY <1>8, <1>9, <1>12, PutsQuietly DEF Serves
  <2> QED
    BY <1>1, <1>5, <2>1, VisitedDisk
<1>13. CASE f.panic = "" /\ fs' = Iunlock(g, d) /\ Step(p, Iput(b, d, done))
  <2>1. Found(f, d, k.name) # {}
    <3>1. Found(fs, d, k.name) # {}
      BY <1>1, <1>5, UnlinkHolds
    <3> QED
      BY <1>7, <1>13, <3>1, FoundStays
  <2>2. off \in Offsets(f, d)
    BY <1>2, <1>7, <1>13, <2>1, FoundIs
  <2>3. Done(f, g, {d})
    BY <1>1, <1>3, <1>7, <2>2, EraseDone
  <2>4. Done(f, g, {s, d})
    BY <2>3, DoneMore
  <2>5. Quietly(p)
    BY <1>8, <1>9, <1>13, PutsQuietly
  <2> QED
    BY <1>1, <1>5, <1>6, <1>13, <2>4, <2>5, BothDisk
<1> QED
  BY <1>4, <1>10, <1>11, <1>12, <1>13

\* What create does with the new inode and its parent locked.
Makes(p, f) ==
  LET k == kern[p]
      g == Iupdate([f EXCEPT !.icache[k.ip].copy.nlink = 1], k.ip)
      h == IF NewType(Cur(p)) = "dir" THEN Dots(g, k.ip, k.dp) ELSE g
  IN Dirlink(h, k.dp, k.name, f.icache[k.ip].inum)

\* create's new inode, its "." and ".." and its entry.
LEMMA MakesDone ==
  ASSUME NEW p, NEW f, NEW s, NEW d, s = kern[p].ip, d = kern[p].dp, Held(f, s), Held(f, d)
  PROVE  Done(f, Makes(p, f), {s, d})
<1>1. PICK S, A, B : S = {s, d} /\ A = {s} /\ B = {d}
  OBVIOUS
<1>2. A \subseteq S /\ B \subseteq S
  BY <1>1
<1>3. PICK g : g = Iupdate([f EXCEPT !.icache[s].copy.nlink = 1], s)
  OBVIOUS
<1>4. PICK h : h = IF NewType(Cur(p)) = "dir" THEN Dots(g, s, d) ELSE g
  OBVIOUS
<1>5. PICK i, name : i = f.icache[s].inum /\ name = kern[p].name
  OBVIOUS
<1>6. Makes(p, f) = Dirlink(h, d, name, i)
  BY <1>3, <1>4, <1>5 DEF Makes
<1>7. Done(f, g, S)
  <2>1. Done(f, g, A)
    BY <1>1, <1>3, CountDone
  <2> QED
    BY <1>2, <2>1, DoneMore
<1>8. Held(g, s) /\ Held(g, d)
  BY <1>7, HeldDone
<1>9. Done(f, h, S)
  <2>1. Done(g, Dots(g, s, d), S)
    BY <1>1, <1>8, DotsDone
  <2> QED
    BY <1>4, <1>7, <2>1, DoneTransitive
<1>10. Held(h, d)
  BY <1>9, HeldDone
<1>11. i \in InumOrNone
  BY <1>5 DEF Held, Sound, Typed
<1>12. Done(h, Dirlink(h, d, name, i), S)
  <2>1. Done(h, Dirlink(h, d, name, i), B)
    BY <1>1, <1>10, <1>11, DirlinkDone
  <2> QED
    BY <1>2, <2>1, DoneMore
<1> QED
  BY <1>1, <1>6, <1>9, <1>12, DoneTransitive

\* create makes them with both inodes locked.
LEMMA CreateInitDisk ==
  ASSUME NEW calls, NEW texts, Inv(calls, texts), DiskInv, NEW p \in Procs, CreateInit(p)
  PROVE  DiskInv'
<1>1. PICK k, s, d, f, place : /\ k = kern[p] /\ s = k.ip /\ d = k.dp /\ f = Ilock(fs, s, p)
                               /\ place = "createInit"
  OBVIOUS
<1>2. PICK g, b, after : /\ g = Makes(p, f) /\ b = [k EXCEPT !.dp = None]
                         /\ after = IF Cur(p).op = "open" THEN "openCreated" ELSE "created"
  OBVIOUS
<1>3. /\ At(p, place) /\ LockFree(fs, s) /\ place \in WithDp /\ place \in WithIp /\ place \in HoldsDp
      /\ \/ f.panic # "" /\ fs' = f /\ kern' = kern
         \/ fs' = Iunlock(g, d) /\ Step(p, Iput(b, d, after))
  BY <1>1, <1>2 DEF CreateInit, Makes, WithDp, WithIp, HoldsDp
<1>4. Visited(p, s) /\ IsKern(k, texts)
  BY <1>1, <1>3, IpIs
<1>5. d \in Slots /\ d \in Below(k)
  BY <1>1, <1>3, DpIs
<1>6. Held(f, d) /\ Held(f, s)
  BY <1>1, <1>4, <1>5, SecondLock
<1>7. CASE f.panic # "" /\ fs' = f /\ kern' = kern
  <2>1. Quietly(p) /\ Serves(f, s)
    BY <1>7, PanicsQuietly DEF Serves
  <2> QED
    BY <1>1, <1>4, <2>1, VisitedDisk
<1>8. CASE fs' = Iunlock(g, d) /\ Step(p, Iput(b, d, after))
  <2>1. Done(f, g, {s, d})
    BY <1>1, <1>2, <1>6, MakesDone
  <2>2. IsKern(b, texts) /\ after # "unlinkInode"
    BY <1>2, <1>4, DropKern
  <2>3. Quietly(p)
    BY <1>8, <2>2, PutsQuietly
  <2> QED
    BY <1>1, <1>4, <1>5, <1>8, <2>1, <2>3, BothDisk
<1> QED
  BY <1>3, <1>7, <1>8

-----------------------------------------------------------------------------
(* The steps that use an open file                                         *)

\* An inode that a file has open is counted.
LEMMA OpenCounted ==
  ASSUME Refs, NEW p \in Procs, NEW f \in Files, NEW s \in Slots, IsOpen(ftable[f], s)
  PROVE  fs.icache[s].ref > 0
<1>1. PICK X : X = {h \in Files : IsOpen(ftable[h], s)}
  OBVIOUS
<1>2. X \in SUBSET Files /\ f \in X
  BY <1>1
<1>3. Cardinality(X) \in Nat /\ Cardinality(X) # 0
  BY <1>2, Finite, FS_Subset, FS_CardinalityType, FS_EmptySet
<1>4. Opens(ftable, s) = Cardinality(X)
  BY <1>1 DEF Opens, IsOpen
<1>5. Cwds(user, s) \in Nat /\ Ptrs(kern, s) \in Nat
  BY CwdsChange, PtrsChange DEF SameCwds
<1>6. fs.icache[s].ref = Opens(ftable, s) + Cwds(user, s) + Ptrs(kern, s)
  BY DEF Refs
<1> QED
  BY <1>3, <1>4, <1>5, <1>6

\* Who uses a descriptor may lock its inode.
LEMMA FileVisited ==
  ASSUME NEW calls, NEW texts, Inv(calls, texts), NEW p \in Procs, At(p, "user"), HasFile(p),
         NEW n, n = FileOf(p), ftable[n].type = "inode",
         NEW s, s = ftable[n].ip, LockFree(fs, s)
  PROVE  Visited(p, s) /\ n \in Files
<1>1. n \in Files /\ s \in Slots
  BY FileIs
<1>2. PICK d : d = Cur(p).fd
  OBVIOUS
<1>3. d \in Fds /\ user[p].ofile[d] = n
  BY <1>2 DEF HasFile, FileOf
<1>4. ftable[n].ref > 0
  BY <1>1, <1>3, DescCounted
<1>5. fs.icache[s].ref > 0
  BY <1>1, <1>4, OpenCounted DEF Inv, IsOpen
<1>6. Up /\ kern[p].pc # "iputClear"
  BY AtIs
<1> QED
  BY <1>1, <1>5, <1>6 DEF Visited

\* fstat, read, and write to a device, change no inode.
LEMMA LooksDisk ==
  ASSUME NEW calls, NEW texts, Inv(calls, texts), DiskInv, NEW p \in Procs,
         Fstat(p) \/ ReadInode(p) \/ WriteDevice(p)
  PROVE  DiskInv'
<1>1. PICK n, s, f : n = FileOf(p) /\ s = ftable[n].ip /\ f = Ilock(fs, s, p)
  OBVIOUS
<1>2. /\ At(p, "user")
      /\ \/ BadFd(p)
         \/ /\ HasFile(p) /\ ftable[n].type = "inode" /\ LockFree(fs, s) /\ fs' = Iunlock(f, s)
            /\ \E u, v, w : ReturnWith(p, u, v, w)
  <2>1. CASE Fstat(p)
    BY <1>1, <2>1 DEF Fstat, Calling, Return
  <2>2. CASE ReadInode(p)
    BY <1>1, <2>2 DEF ReadInode, Calling
  <2>3. CASE WriteDevice(p)
    BY <1>1, <2>3 DEF WriteDevice, Calling, Return
  <2> QED
    BY <2>1, <2>2, <2>3
<1>3. CASE BadFd(p)
  BY <1>2, <1>3, BadFdDisk
<1>4. CASE /\ HasFile(p) /\ ftable[n].type = "inode" /\ LockFree(fs, s) /\ fs' = Iunlock(f, s)
           /\ \E u, v, w : ReturnWith(p, u, v, w)
  <2>1. Visited(p, s)
    BY <1>1, <1>2, <1>4, FileVisited
  <2>2. Quietly(p)
    BY <1>4, ReturnsQuietly
  <2>3. Serves(f, s)
    BY <1>4 DEF Serves
  <2> QED
    BY <1>1, <2>1, <2>2, <2>3, VisitedDisk
<1> QED
  BY <1>2, <1>3, <1>4

\* write extends a file from an offset that is within it, or does nothing: MAXFILE bounds
\* offset and size.
LEMMA WriteInodeDisk ==
  ASSUME NEW calls, NEW texts, AreCalls(calls, texts), Inv(calls, texts), DiskInv, OffsetsFit,
         NEW p \in Procs, WriteInode(p)
  PROVE  DiskInv' /\ OffsetsFit'
<1>1. PICK h, s, off, f, todo :
        /\ h = FileOf(p) /\ s = ftable[h].ip /\ off = ftable[h].off /\ f = Ilock(fs, s, p)
        /\ todo = IF kern[p].words = <<>> THEN Cur(p).words ELSE kern[p].words
  OBVIOUS
<1>2. PICK n : n = Min({Len(todo), MaxGroup})
  OBVIOUS
<1>3. PICK group : group = [i \in 1 .. n |-> <<0, todo[i]>>]
  OBVIOUS
<1>4. PICK g : g = WriteWords(f, s, off, group)
  OBVIOUS
<1>5. PICK rest, v, w, words : rest = SubSeq(todo, n + 1, Len(todo)) /\ v = Len(Cur(p).words) /\ w = -1 /\ words = <<>>
  OBVIOUS
<1>6. /\ Calling(p, "write") /\ HasFile(p) /\ ftable[h].type = "inode" /\ LockFree(fs, s)
      /\ \/ fs' = Iunlock(f, s) /\ ReturnWith(p, user[p], w, words) /\ ftable' = ftable
         \/ /\ MayWrite(f, s, off, n)
            /\ fs' = Iunlock(g, s) /\ ftable' = [ftable EXCEPT ![h].off = @ + n]
            /\ ReturnWith(p, user[p], v, words) \/ Step(p, [kern[p] EXCEPT !.words = rest])
  BY <1>1, <1>2, <1>3, <1>4, <1>5 DEF WriteInode, Return
<1>7. At(p, "user") /\ Len(todo) \in Nat
  BY <1>1, <1>6, TodoIs
<1>8. n \in Nat
  <2>1. MaxGroup \in Nat
    BY TablesAssumption
  <2>2. PICK T : T = {Len(todo), MaxGroup}
    OBVIOUS
  <2>3. T \in SUBSET Nat /\ T # {}
    BY <1>7, <2>1, <2>2
  <2> QED
    BY <1>2, <2>2, <2>3, MinIs
<1>9. Visited(p, s) /\ h \in Files
  BY <1>1, <1>6, <1>7, FileVisited
<1>10. Held(f, s)
  BY <1>1, <1>9, VisitedIs
<1>11. off \in 0 .. MaxSize
  BY <1>1, <1>9 DEF OffsetsFit
<1>12. CASE fs' = Iunlock(f, s) /\ ReturnWith(p, user[p], w, words) /\ ftable' = ftable
  <2>1. Quietly(p) /\ Serves(f, s)
    BY <1>12, ReturnsQuietly DEF Serves
  <2> QED
    BY <1>1, <1>9, <1>12, <2>1, VisitedDisk DEF OffsetsFit
<1>13. CASE /\ MayWrite(f, s, off, n)
            /\ fs' = Iunlock(g, s) /\ ftable' = [ftable EXCEPT ![h].off = @ + n]
            /\ ReturnWith(p, user[p], v, words) \/ Step(p, [kern[p] EXCEPT !.words = rest])
  <2>1. Len(group) = n /\ \A i \in 1 .. Len(group) : group[i][1] \in InumOrNone
    BY <1>3, <1>8 DEF InumOrNone, None
  <2>2. off \in Nat
    BY <1>11, Sizes
  <2>3. Done(f, g, {s})
    <3>1. Len(group) \in Nat /\ (f.panic = "" => off \in Nat /\ MayWrite(f, s, off, Len(group)))
      BY <1>8, <1>13, <2>1, <2>2
    <3> QED
      BY <1>4, <1>10, <2>1, <3>1, WriteWordsDone
  <2>4. Quietly(p)
    <3>1. CASE ReturnWith(p, user[p], v, words)
      BY <3>1, ReturnsQuietly
    <3>2. CASE Step(p, [kern[p] EXCEPT !.words = rest])
      BY <1>7, <3>2, AtIs, WordsQuietly
    <3> QED
      BY <1>13, <3>1, <3>2
  <2>5. Serves(f, s)
    BY <1>13, <2>3 DEF Serves
  <2>6. DiskInv'
    BY <1>1, <1>9, <2>4, <2>5, VisitedDisk
  <2>7. off + n \in 0 .. MaxSize
    BY <1>8, <1>13, <2>2, Sizes DEF MayWrite, MaxSize
  <2>8. OffsetsFit'
    <3>1. ftable = [e \in Files |-> ftable[e]] /\ ftable[h] = [x \in FileFields |-> ftable[h][x]]
      BY <1>9 DEF Inv, Shapes, IsFile
    <3>2. ftable'[h].off = off + n
      BY <1>1, <1>9, <1>13, <3>1 DEF FileFields
    <3>3. \A e \in Files : e # h => ftable'[e] = ftable[e]
      BY <1>13, <3>1
    <3> QED
      BY <2>7, <3>2, <3>3 DEF OffsetsFit
  <2> QED
    BY <2>6, <2>8
<1> QED
  BY <1>6, <1>12, <1>13

-----------------------------------------------------------------------------
(* Offsets stay within the largest file                                    *)

OffsetsKept == \A f \in Files : ftable'[f].off = ftable[f].off \/ ftable'[f].off = 0

\* An offset that stays, or becomes 0, fits.
LEMMA KeptFit == ASSUME OffsetsFit, OffsetsKept PROVE OffsetsFit'
BY Sizes DEF OffsetsFit, OffsetsKept

\* One entry changes.
LEMMA OneKept ==
  ASSUME NEW calls, NEW texts, Inv(calls, texts), NEW n, NEW e,
         ftable' = [ftable EXCEPT ![n] = e], n \in Files => e.off = ftable[n].off \/ e.off = 0
  PROVE  OffsetsKept
<1>1. ftable = [f \in Files |-> ftable[f]]
  BY DEF Inv, Shapes
<1>2. \A f \in Files : ftable'[f] = IF f = n THEN e ELSE ftable[f]
  BY <1>1
<1> QED
  BY <1>2 DEF OffsetsKept

\* open's offset is 0.
LEMMA OpenFdKept ==
  ASSUME NEW calls, NEW texts, Inv(calls, texts), NEW p, OpenInode(p) \/ OpenCreated(p)
  PROVE  OffsetsKept
<1>1. PICK b, c, s : b = (Cur(p).mode # "wronly") /\ c = (Cur(p).mode # "rdonly") /\ s = kern[p].ip
  OBVIOUS
<1>2. PICK e : e = [NoFile EXCEPT !.type = "inode", !.ref = 1, !.ip = s, !.readable = b, !.writable = c]
  OBVIOUS
<1>3. e.off = 0
  BY <1>2 DEF NoFile
<1>4. ftable' = ftable \/ ftable' = [ftable EXCEPT ![Min(FreeFile)] = e]
  BY <1>1, <1>2 DEF OpenInode, OpenCreated, OpenFd
<1>5. CASE ftable' = ftable
  BY <1>5 DEF OffsetsKept
<1>6. CASE ftable' = [ftable EXCEPT ![Min(FreeFile)] = e]
  BY <1>3, <1>6, OneKept
<1> QED
  BY <1>4, <1>5, <1>6

\* A new count changes no offset.
LEMMA RefKept ==
  ASSUME NEW calls, NEW texts, Inv(calls, texts), NEW n, NEW x,
         ftable' = [ftable EXCEPT ![n].ref = x]
  PROVE  OffsetsKept
<1>1. PICK e : e = [ftable[n] EXCEPT !.ref = x]
  OBVIOUS
<1>2. n \in Files => e.off = ftable[n].off
  <2>1. n \in Files => ftable[n] = [y \in FileFields |-> ftable[n][y]]
    BY DEF Inv, Shapes, IsFile
  <2> QED
    BY <1>1, <2>1 DEF FileFields
<1>3. ftable' = [ftable EXCEPT ![n] = e]
  BY <1>1
<1> QED
  BY <1>2, <1>3, OneKept

\* Nor does a close.
LEMMA FilecloseKept ==
  ASSUME NEW calls, NEW texts, Inv(calls, texts), NEW n, ftable' = Fileclose(n)
  PROVE  OffsetsKept
<1>1. PICK x, e : x = ftable[n].ref - 1 /\ e = NoFile
  OBVIOUS
<1>2. ftable' = [ftable EXCEPT ![n].ref = x] \/ ftable' = [ftable EXCEPT ![n] = e]
  BY <1>1 DEF Fileclose
<1>3. e.off = 0
  BY <1>1 DEF NoFile
<1> QED
  BY <1>2, <1>3, RefKept, OneKept

\* The calls on descriptors change no offset.
LEMMA CallsKept ==
  ASSUME NEW calls, NEW texts, Inv(calls, texts), NEW p \in Procs,
         Close(p) \/ ExitClose(p) \/ Dup(p) \/ PipeCall(p) \/ Fork(p)
  PROVE  OffsetsKept
<1>1. CASE ftable' = ftable
  BY <1>1 DEF OffsetsKept
<1>2. CASE \E n : ftable' = Fileclose(n)
  BY <1>2, FilecloseKept
<1>3. CASE Close(p) \/ ExitClose(p)
  BY <1>1, <1>2, <1>3 DEF Close, ExitClose, CloseThen, BadFd
<1>4. CASE Dup(p)
  <2>1. PICK n, x : n = FileOf(p) /\ x = ftable[n].ref + 1
    OBVIOUS
  <2>2. ftable' = ftable \/ ftable' = [ftable EXCEPT ![n].ref = x]
    BY <1>4, <2>1 DEF Dup, BadFd
  <2> QED
    BY <1>1, <2>2, RefKept
<1>5. CASE PipeCall(p)
  <2>1. PICK r, w : r = Min(FreeFile) /\ w = Min(FreeFile \ {r})
    OBVIOUS
  <2>2. PICK b, c : b = TRUE /\ c = FALSE
    OBVIOUS
  <2>3. PICK d, e :
          /\ d = [NoFile EXCEPT !.type = "pipe", !.ref = 1, !.pipe = r, !.readable = b, !.writable = ~b]
          /\ e = [NoFile EXCEPT !.type = "pipe", !.ref = 1, !.pipe = r, !.readable = c, !.writable = ~c]
    OBVIOUS
  <2>4. d.off = 0 /\ e.off = 0
    BY <2>3 DEF NoFile
  <2>5. ftable' = ftable \/ ftable' = [ftable EXCEPT ![r] = d, ![w] = e]
    BY <1>5, <2>1, <2>2, <2>3 DEF PipeCall, BadFd
  <2>6. ftable = [f \in Files |-> ftable[f]]
    BY DEF Inv, Shapes
  <2>7. \A f \in Files : ftable'[f] \in {ftable[f], d, e}
    BY <2>5, <2>6
  <2> QED
    BY <2>4, <2>7 DEF OffsetsKept
<1>6. CASE Fork(p)
  <2>1. CASE ~(ftable' = ftable)
    <3>1. ftable' = [f \in Files |->
               [ftable[f] EXCEPT !.ref = @ + Cardinality({d \in Fds : user[p].ofile[d] = f})]]
      BY <1>6, <2>1 DEF Fork, BadFd
    <3>2. ASSUME NEW f \in Files PROVE ftable'[f].off = ftable[f].off
      <4>1. ftable[f] = [y \in FileFields |-> ftable[f][y]]
        BY DEF Inv, Shapes, IsFile
      <4>2. PICK x : ftable'[f] = [ftable[f] EXCEPT !.ref = x]
        BY <3>1
      <4> QED
        BY <4>1, <4>2 DEF FileFields
    <3> QED
      BY <3>2 DEF OffsetsKept
  <2> QED
    BY <1>1, <2>1
<1> QED
  BY <1>3, <1>4, <1>5, <1>6

\* A file is read up to its size.
LEMMA ReadInodeFits ==
  ASSUME NEW calls, NEW texts, AreCalls(calls, texts), Inv(calls, texts), DiskInv, OffsetsFit,
         NEW p \in Procs, ReadInode(p)
  PROVE  OffsetsFit'
<1>1. PICK h, s, f, off, n : /\ h = FileOf(p) /\ s = ftable[h].ip /\ f = Ilock(fs, s, p)
                             /\ off = ftable[h].off /\ n = Cur(p).n
  OBVIOUS
<1>2. PICK words : words = ReadWords(f, s, off, n)
  OBVIOUS
<1>3. /\ Calling(p, "read") /\ HasFile(p) /\ ftable[h].type = "inode" /\ LockFree(fs, s)
      /\ ftable' = [ftable EXCEPT ![h].off = @ + Len(words)]
  BY <1>1, <1>2 DEF ReadInode
<1>4. At(p, "user") /\ user[p].prog # <<>> /\ Cur(p).op = "read"
  BY <1>3 DEF Calling
<1>5. n \in Nat
  <2>1. Cur(p) \in calls
    BY <1>4, CurIs
  <2> QED
    BY <1>1, <1>4, <2>1 DEF AreCalls
<1>6. Visited(p, s) /\ h \in Files
  BY <1>1, <1>3, <1>4, FileVisited
<1>7. off \in 0 .. MaxSize
  BY <1>1, <1>6 DEF OffsetsFit
<1>8. f.icache[s].copy.size \in 0 .. MaxSize
  <2>1. Good(f) /\ s \in Slots
    BY <1>1, <1>6, VisitedIs DEF Moved, Visited
  <2> QED
    BY <2>1 DEF Good, Sound, Typed, IsCopy
<1>9. PICK z : z = f.icache[s].copy.size
  OBVIOUS
<1>10. Len(words) \in Nat /\ off + Len(words) <= MaxSize
  <2>0. MaxSize \in Nat
    BY Sizes
  <2>1. PICK S : S = {n, z - off}
    OBVIOUS
  <2>2. PICK m : m = Min(S)
    OBVIOUS
  <2>3. m \in Int /\ m <= n /\ m <= z - off
    <3>1. n <= z - off => m = n
      BY <1>5, <1>7, <1>8, <1>9, <2>0, <2>1, <2>2 DEF Min
    <3>2. ~(n <= z - off) => m = z - off
      BY <1>5, <1>7, <1>8, <1>9, <2>0, <2>1, <2>2 DEF Min
    <3> QED
      BY ONLY <1>5, <1>7, <1>8, <1>9, <2>0, <3>1, <3>2
  <2>4. PICK x : x = Max({0, m})
    OBVIOUS
  <2>5. x \in {0, m} /\ x >= 0
    BY <2>3, <2>4 DEF Max
  <2>6. words = [i \in 1 .. x |-> Readi(f, s, off + i - 1)[2]]
    BY <1>2, <1>9, <2>1, <2>2, <2>4 DEF ReadWords
  <2>7. Len(words) = x
    BY <2>3, <2>5, <2>6
  <2> QED
    BY ONLY <1>7, <1>8, <1>9, <2>0, <2>3, <2>5, <2>7
<1>11. PICK l : l = Len(words)
  OBVIOUS
<1>12. ftable' = [ftable EXCEPT ![h].off = off + l]
  BY <1>1, <1>3, <1>11
<1>13. off + l \in 0 .. MaxSize
  BY <1>7, <1>10, <1>11, Sizes
<1>14. ftable = [e \in Files |-> ftable[e]] /\ ftable[h] = [x \in FileFields |-> ftable[h][x]]
  BY <1>6 DEF Inv, Shapes, IsFile
<1>15. ftable'[h].off = off + l
  BY <1>6, <1>12, <1>14 DEF FileFields
<1>16. \A e \in Files : e # h => ftable'[e] = ftable[e]
  BY <1>12, <1>14
<1> QED
  BY <1>13, <1>15, <1>16 DEF OffsetsFit

-----------------------------------------------------------------------------
(* Every step                                                              *)

\* The other steps leave the file table alone.
LEMMA FilesKept ==
  ASSUME NEW p \in Procs,
         \/ Walk(p) \/ IputTest(p) \/ IputFree(p) \/ IputClear(p) \/ IputUnref(p)
         \/ PathCall(p) \/ Fail(p)
         \/ Create(p) \/ CreateOld(p) \/ CreateAlloc(p) \/ CreateInit(p) \/ Created(p)
         \/ Unlink(p) \/ UnlinkInode(p) \/ UnlinkBad(p) \/ UnlinkDone(p)
         \/ LinkOld(p) \/ LinkNew(p) \/ LinkDir(p) \/ LinkExists(p) \/ Linked(p) \/ LinkBad(p)
         \/ Chdir(p) \/ ChdirSet(p) \/ Exec(p) \/ Fstat(p)
         \/ ReadRefused(p) \/ WriteDevice(p) \/ WriteRefused(p) \/ ReadPipe(p) \/ WritePipe(p)
         \/ ExitNext(p) \/ ExitCwd(p) \/ Exited(p) \/ Wait(p) \/ Kill(p)
  PROVE  OffsetsKept
<1>1. CASE Walk(p) \/ IputTest(p) \/ IputFree(p) \/ IputClear(p) \/ IputUnref(p)
  BY <1>1 DEF Walk, IputTest, IputFree, IputClear, IputUnref, OffsetsKept
<1>2. CASE PathCall(p) \/ Fail(p)
  BY <1>2 DEF PathCall, Fail, OffsetsKept
<1>3. CASE Create(p) \/ CreateOld(p) \/ CreateAlloc(p) \/ CreateInit(p) \/ Created(p)
  BY <1>3 DEF Create, CreateOld, CreateAlloc, CreateInit, Created, OffsetsKept
<1>4. CASE Unlink(p) \/ UnlinkInode(p) \/ UnlinkBad(p) \/ UnlinkDone(p)
  BY <1>4 DEF Unlink, UnlinkInode, UnlinkBad, UnlinkDone, OffsetsKept
<1>5. CASE LinkOld(p) \/ LinkNew(p) \/ LinkDir(p) \/ LinkExists(p) \/ Linked(p) \/ LinkBad(p)
  BY <1>5 DEF LinkOld, LinkNew, LinkDir, LinkExists, Linked, LinkBad, OffsetsKept
<1>6. CASE Chdir(p) \/ ChdirSet(p) \/ Exec(p) \/ Fstat(p)
  BY <1>6 DEF Chdir, ChdirSet, Exec, Fstat, BadFd, OffsetsKept
<1>7. CASE ReadRefused(p) \/ WriteDevice(p) \/ WriteRefused(p) \/ ReadPipe(p) \/ WritePipe(p)
  BY <1>7 DEF ReadRefused, WriteDevice, WriteRefused, ReadPipe, WritePipe, BadFd, OffsetsKept
<1>8. CASE ExitNext(p) \/ ExitCwd(p) \/ Exited(p) \/ Wait(p) \/ Kill(p)
  BY <1>8 DEF ExitNext, ExitCwd, Exited, Wait, Kill, BadFd, OffsetsKept
<1> QED
  BY <1>1, <1>2, <1>3, <1>4, <1>5, <1>6, <1>7, <1>8

\* What every step keeps of the whole file system.
WholeInv(calls, texts) == FsInv(calls, texts) /\ DiskInv /\ OffsetsFit

\* Every step keeps the invariant.
LEMMA StepsKeepWhole ==
  ASSUME NEW calls, NEW texts, AreCalls(calls, texts), WholeInv(calls, texts), [Next]_vars
  PROVE  WholeInv(calls, texts)'
<1>1. Inv(calls, texts) /\ DiskInv /\ OffsetsFit /\ FsInv(calls, texts)
  BY DEF WholeInv, FsInv
<1>2. FsInv(calls, texts)' /\ Inv(calls, texts)'
  <2>1. FsInv(calls, texts)'
    BY <1>1, StepsKeep
  <2> QED
    BY <2>1 DEF FsInv
<1> SUFFICES DiskInv' /\ OffsetsFit'
  BY <1>2 DEF WholeInv
<1>3. CASE UNCHANGED vars
  <2>1. fs' = fs /\ ftable' = ftable /\ kern' = kern
    BY <1>3 DEF vars
  <2> QED
    BY <1>1, <2>1 DEF DiskInv, Clears, NamesStay, OffsetsFit, Up
<1>4. ASSUME NEW p \in Procs,
             \/ Walk(p) \/ IputTest(p) \/ IputFree(p) \/ IputClear(p) \/ IputUnref(p)
             \/ PathCall(p) \/ Fail(p)
      PROVE  DiskInv' /\ OffsetsFit'
  <2>1. DiskInv'
    BY <1>1, <1>2, <1>4, WalkDisk, IputTestDisk, IputFreeDisk, IputClearDisk, IputUnrefDisk,
       StartDisk, PlainDisk
  <2> QED
    BY <1>1, <1>4, <2>1, FilesKept, KeptFit
<1>5. ASSUME NEW p \in Procs, OpenInode(p) \/ OpenCreated(p)
      PROVE  DiskInv' /\ OffsetsFit'
  <2>1. DiskInv'
    BY <1>1, <1>5, OpenInodeDisk, EndsDisk
  <2> QED
    BY <1>1, <1>5, <2>1, OpenFdKept, KeptFit
<1>6. ASSUME NEW p \in Procs,
             Create(p) \/ CreateOld(p) \/ CreateAlloc(p) \/ CreateInit(p) \/ Created(p)
      PROVE  DiskInv' /\ OffsetsFit'
  <2>1. DiskInv'
    BY <1>1, <1>6, CreateDisk, CreateOldDisk, CreateAllocDisk, CreateInitDisk, EndsDisk
  <2> QED
    BY <1>1, <1>6, <2>1, FilesKept, KeptFit
<1>7. ASSUME NEW p \in Procs,
             \/ Unlink(p) \/ UnlinkInode(p) \/ UnlinkBad(p) \/ UnlinkDone(p)
             \/ LinkOld(p) \/ LinkNew(p) \/ LinkDir(p) \/ LinkExists(p) \/ Linked(p) \/ LinkBad(p)
      PROVE  DiskInv' /\ OffsetsFit'
  <2>1. DiskInv'
    BY <1>1, <1>7, UnlinkDisk, UnlinkInodeDisk, GivesUpDisk, EndsDisk, LinkOldDisk, StartDisk,
       LinkDirDisk, PlainDisk, LinkBadDisk
  <2> QED
    BY <1>1, <1>7, <2>1, FilesKept, KeptFit
<1>8. ASSUME NEW p \in Procs,
             \/ Chdir(p) \/ ChdirSet(p) \/ Exec(p) \/ Fstat(p) \/ WriteDevice(p)
             \/ ReadRefused(p) \/ WriteRefused(p) \/ ReadPipe(p) \/ WritePipe(p)
      PROVE  DiskInv' /\ OffsetsFit'
  <2>1. DiskInv'
    BY <1>1, <1>8, ChdirDisk, PlainDisk, ExecDisk, LooksDisk, CallsDisk
  <2> QED
    BY <1>1, <1>8, <2>1, FilesKept, KeptFit
<1>9. ASSUME NEW p \in Procs, ReadInode(p) \/ WriteInode(p)
      PROVE  DiskInv' /\ OffsetsFit'
  BY <1>1, <1>9, LooksDisk, ReadInodeFits, WriteInodeDisk
<1>10. ASSUME NEW p \in Procs, Close(p) \/ ExitClose(p) \/ Dup(p) \/ PipeCall(p) \/ Fork(p)
       PROVE  DiskInv' /\ OffsetsFit'
  <2>1. DiskInv'
    BY <1>1, <1>10, CallsDisk, ForkDisk
  <2> QED
    BY <1>1, <1>10, <2>1, CallsKept, KeptFit
<1>11. ASSUME NEW p \in Procs, ExitNext(p) \/ ExitCwd(p) \/ Exited(p) \/ Wait(p) \/ Kill(p)
       PROVE  DiskInv' /\ OffsetsFit'
  <2>1. DiskInv'
    BY <1>1, <1>11, PlainDisk, ChildrenDisk
  <2> QED
    BY <1>1, <1>11, <2>1, FilesKept, KeptFit
<1>12. CASE Next
  BY <1>4, <1>5, <1>6, <1>7, <1>8, <1>9, <1>10, <1>11, <1>12 DEF Next
<1> QED
  BY <1>3, <1>12

-----------------------------------------------------------------------------
(* The start, and what the invariant says                                  *)

\* A disk that holds a file system is sound when the first processes have the root.
LEMMA StartSound ==
  ASSUME NEW image, IsFileSystem(image), NEW n \in Nat, NEW g, g = Booted(image, n)
  PROVE  Sound(g)
<1>0. IsImage(image) /\ Typed(image) /\ LaidOut(image) /\ ROOTINO \in Inums
  BY LaidIs DEF IsFileSystem
<1>1. PICK z : z = FreeSlot
  OBVIOUS
<1>2. z = [x \in EntryFields |-> z[x]] /\ z.ref = 0 /\ z.lock = None /\ z.valid = FALSE /\ z.inum = None
  BY <1>1 DEF FreeSlot, EntryFields
<1>3. PICK e : e = [z EXCEPT !.inum = ROOTINO, !.ref = n]
  OBVIOUS
<1>4. e.ref = n /\ e.lock = None /\ e.valid = FALSE /\ e.inum = ROOTINO /\ e.copy = z.copy
  BY <1>2, <1>3 DEF EntryFields
<1>5. 1 \in Slots
  BY DiskAssumption DEF Slots
<1>6. image = [x \in SystemFields |-> image[x]] /\ image.icache = [s \in Slots |-> z] /\ image.panic = ""
  BY <1>0, <1>1 DEF IsImage
<1>7. g = [image EXCEPT !.icache[1] = e]
  BY <1>1, <1>3, <1>5, <1>6 DEF Booted
<1>8. /\ g.dinode = image.dinode /\ g.data = image.data /\ g.bitmap = image.bitmap
      /\ g.icache = [image.icache EXCEPT ![1] = e]
  BY <1>6, <1>7 DEF SystemFields
<1>9. \A s \in Slots : g.icache[s] = e \/ g.icache[s] = z
  BY <1>6, <1>8
<1>10. IsCopy(z.copy)
  BY <1>0, <1>5, <1>6 DEF Typed
<1>11. Typed(g)
  <2>1. \A s \in Slots : /\ IsCopy(g.icache[s].copy)
                         /\ g.icache[s].inum \in InumOrNone /\ g.icache[s].lock \in Procs \cup {None}
                         /\ g.icache[s].ref > 0 => g.icache[s].inum \in Inums
    BY <1>0, <1>2, <1>4, <1>9, <1>10 DEF InumOrNone
  <2> QED
    BY <1>0, <1>8, <2>1 DEF Typed
<1>12. Mirrors(g)
  BY <1>2, <1>4, <1>9 DEF Mirrors, Mirror
<1>13. ASSUME NEW i \in Inums
       PROVE  Sane(g, g.dinode[i]) /\ Owned(g, i) = Owned(image, i)
  <2>1. PICK c : c = image.dinode[i]
    OBVIOUS
  <2>2. IsCopy(c) /\ Sane(image, c)
    BY <1>0, <2>1 DEF Typed, LaidOut
  <2>3. Sane(g, c) /\ BlocksOf(g, c) = BlocksOf(image, c)
    BY <1>8, <2>2, SaneStays
  <2> QED
    BY <1>8, <2>1, <2>3 DEF Owned
<1>14. LaidOut(g)
  BY <1>0, <1>8, <1>13 DEF LaidOut
<1> QED
  BY <1>11, <1>12, <1>14 DEF Sound

\* The invariant of the disk holds at the start.
LEMMA StartDiskHolds ==
  ASSUME NEW calls, NEW image, IsFileSystem(image), NEW programs, ArePrograms(programs, calls),
         Start(image, programs)
  PROVE  DiskInv /\ OffsetsFit
<1>1. PICK n : n = Len(programs)
  OBVIOUS
<1>2. n \in Nat
  BY <1>1 DEF ArePrograms
<1>3. fs = Booted(image, n)
  BY <1>1 DEF Start, Booted
<1>4. IsImage(image)
  BY DEF IsFileSystem
<1>5. IsBooted(fs, n) /\ Sound(fs)
  BY <1>2, <1>3, <1>4, StartSystem, StartSound
<1>6. PICK k : k = Idle
  OBVIOUS
<1>7. PlaceIs(k) /\ k.pc # "unlinkInode"
  BY <1>6, IdlePlace
<1>8. \A p \in Procs : kern[p] = k
  BY <1>6 DEF Start
<1>9. Clears
  BY <1>5, Constants DEF Clears, IsBooted
<1>10. NamesStay
  BY <1>7, <1>8 DEF NamesStay
<1>11. OffsetsFit
  <2>1. PICK e : e = NoFile
    OBVIOUS
  <2>2. e.off = 0
    BY <2>1 DEF NoFile
  <2>3. \A f \in Files : ftable[f] = e
    BY <2>1 DEF Start
  <2> QED
    BY <2>2, <2>3, Sizes DEF OffsetsFit
<1> QED
  BY <1>5, <1>7, <1>8, <1>9, <1>10, <1>11 DEF DiskInv

\* Counts that agree are numbers.
LEMMA CountsAreNumbers ==
  ASSUME CountsAgree
  PROVE  (\A s \in Slots : fs.icache[s].ref \in Nat) /\ \A f \in Files : ftable[f].ref \in Nat
<1>1. IsFiniteSet(Procs \X {"at", "ip", "dp", "put"}) /\ IsFiniteSet(Procs \X Fds)
  <2>1. IsFiniteSet({"at", "ip", "dp", "put"})
    BY FinitePtrFields DEF PtrFields
  <2> QED
    BY <2>1, Finite, FS_Product
<1>2. ASSUME NEW s \in Slots PROVE fs.icache[s].ref \in Nat
  <2>1. PICK A, B, C :
          /\ A = {f \in Files : ftable[f].ref > 0 /\ ftable[f].type = "inode" /\ ftable[f].ip = s}
          /\ B = {p \in Procs : user[p].cwd = s}
          /\ C = {pf \in Procs \X {"at", "ip", "dp", "put"} : kern[pf[1]][pf[2]] = s}
    OBVIOUS
  <2>2. A \in SUBSET Files /\ B \in SUBSET Procs /\ C \in SUBSET (Procs \X {"at", "ip", "dp", "put"})
    BY <2>1
  <2>3. Cardinality(A) \in Nat /\ Cardinality(B) \in Nat /\ Cardinality(C) \in Nat
    BY <1>1, <2>2, Finite, FS_Subset, FS_CardinalityType
  <2>4. fs.icache[s].ref = Cardinality(A) + Cardinality(B) + Cardinality(C)
    BY <2>1 DEF CountsAgree, Owners
  <2> QED
    BY <2>3, <2>4
<1>3. ASSUME NEW f \in Files PROVE ftable[f].ref \in Nat
  <2>1. PICK X : X = {pd \in Procs \X Fds : user[pd[1]].ofile[pd[2]] = f}
    OBVIOUS
  <2>2. X \in SUBSET (Procs \X Fds)
    BY <2>1
  <2>3. Cardinality(X) \in Nat
    BY <1>1, <2>2, FS_Subset, FS_CardinalityType
  <2> QED
    BY <2>1, <2>3 DEF CountsAgree
<1> QED
  BY <1>2, <1>3

\* The invariant says that the disk is sound.
LEMMA WholeIsSound ==
  ASSUME NEW calls, NEW texts, WholeInv(calls, texts)
  PROVE  DiskSound
<1>0. Inv(calls, texts) /\ PipeInv(texts) /\ Sound(fs) /\ OffsetsFit /\ DiskInv
  BY DEF WholeInv, FsInv, DiskInv
<1>1. TypeOK
  <2>1. CountsAgree
    BY <1>0, InvIsSound DEF InodesSound
  <2>2. (\A s \in Slots : fs.icache[s].ref \in Nat) /\ \A f \in Files : ftable[f].ref \in Nat
    BY <2>1, CountsAreNumbers
  <2>3. \A f \in Files : ftable[f].ip \in SlotOrNone /\ ftable[f].off \in 0 .. MaxSize
    BY <1>0 DEF Inv, Shapes, IsFile, Ptr, SlotOrNone, OffsetsFit
  <2>4. \A f \in Files : Len(pipes[f].words) <= PIPESIZE
    BY <1>0 DEF PipeInv, IsPipe
  <2>5. ASSUME NEW p \in Procs
        PROVE  /\ user[p].ofile \in [Fds -> Files \cup {None}] /\ user[p].cwd \in SlotOrNone
               /\ kern[p].pc \in Places
               /\ {kern[p].at, kern[p].ip, kern[p].dp, kern[p].put} \subseteq SlotOrNone
    <3>1. IsUser(user[p], calls) /\ IsKern(kern[p], texts) /\ PlaceIs(kern[p])
      BY <1>0 DEF Inv, Shapes, DiskInv
    <3> QED
      BY <3>1 DEF IsUser, IsKern, PlaceIs, Ptr, SlotOrNone
  <2>6. Typed(fs)
    BY <1>0 DEF Sound
  <2> QED
    BY <2>2, <2>3, <2>4, <2>5, <2>6 DEF TypeOK
<1>2. CacheCurrent
  BY <1>0 DEF Sound, Mirrors, Mirror, CacheCurrent, LockFree
<1>3. Up => Laid(fs)
  BY <1>0, LaidIs DEF Sound, Up
<1> QED
  BY <1>1, <1>2, <1>3 DEF DiskSound

-----------------------------------------------------------------------------
(* The theorems                                                            *)

\* The inductive invariant of the disk, and of what memory has of it.
THEOREM WholeInvHolds ==
  ASSUME NEW CONSTANT image, NEW CONSTANT programs, NEW CONSTANT calls, NEW CONSTANT texts,
         IsFileSystem(image), ArePrograms(programs, calls), AreCalls(calls, texts)
  PROVE  Start(image, programs) /\ [][Next]_vars => []WholeInv(calls, texts)
<1>1. IsImage(image)
  BY DEF IsFileSystem
<1>2. Start(image, programs) => WholeInv(calls, texts)
  BY <1>1, StartHolds, StartDiskHolds DEF WholeInv
<1>3. WholeInv(calls, texts) /\ [Next]_vars => WholeInv(calls, texts)'
  BY StepsKeepWhole
<1> QED
  BY <1>2, <1>3, PTL

\* Whatever processes run on a file system, and when they fill its disk: every block
\* that is marked in use belongs to one inode that is not free, a file has all blocks
\* below its size, no entry names an inode outside the table, and what is cached of an inode nobody
\* works on is what the disk has (fs.c).
THEOREM DiskStaysSound ==
  ASSUME NEW CONSTANT image, NEW CONSTANT programs, NEW CONSTANT calls, NEW CONSTANT texts,
         IsFileSystem(image), ArePrograms(programs, calls), AreCalls(calls, texts)
  PROVE  Start(image, programs) /\ [][Next]_vars => []DiskSound
<1>1. Start(image, programs) /\ [][Next]_vars => []WholeInv(calls, texts)
  BY WholeInvHolds
<1>2. WholeInv(calls, texts) => DiskSound
  BY WholeIsSound
<1> QED
  BY <1>1, <1>2, PTL

=============================================================================
