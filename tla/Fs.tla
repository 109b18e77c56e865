-------------------------------- MODULE Fs -----------------------------------
(***************************************************************************)
(* The inode layer of fs.c: the disk's inodes, free map and data blocks,   *)
(* and the inode cache.                                                    *)
(*                                                                         *)
(* A file system state is a record f, and a function of fs.c that changes  *)
(* it an operator from f to its successor, so that callers compose them.   *)
(* What is kept on disk is seen through the buffer cache and the log:      *)
(* modules Bcache and Log say why.                                         *)
(*                                                                         *)
(* A block is BSIZE words; a word is a pair of a number and a string: a    *)
(* directory entry (inum, name), a block number of an indirect block, or a *)
(* piece of file contents.                                                 *)
(***************************************************************************)
EXTENDS Integers, Sequences, SequencesExt

CONSTANTS
  NINODES,        \* inodes on disk
  NBLOCKS,        \* data blocks on disk
  NINODE,         \* entries of the inode cache
  NDIRECT,        \* direct blocks of an inode
  BSIZE           \* words of a block

ASSUME DiskAssumption == {NINODES, NBLOCKS, NDIRECT, BSIZE} \subseteq Nat /\ NINODE \in Nat \ {0}

Inums   == 1 .. NINODES
Blocks  == 1 .. NBLOCKS
Slots   == 1 .. NINODE
ROOTINO == 1
None    == 0                       \* no slot, no block, no process, no offset
MAXFILE == NDIRECT + BSIZE         \* NINDIRECT words fill a block

Zero      == <<0, "">>
ZeroBlock == [i \in 0 .. BSIZE - 1 |-> Zero]
NoAddrs   == [i \in 0 .. NDIRECT |-> None]

NewInode(type) == [type |-> type, nlink |-> 0, size |-> 0, addrs |-> NoAddrs]
FreeInode == NewInode("free")
FreeSlot  == [inum |-> None, ref |-> 0, valid |-> FALSE, lock |-> None, copy |-> FreeInode]

Panic(f, message) == [f EXCEPT !.panic = message]

\* What a kernel starts with: an empty cache, whatever the disk holds.
SystemFields == {"dinode", "bitmap", "data", "icache", "panic"}
IsImage(image) ==
  /\ image = [x \in SystemFields |-> image[x]]
  /\ image.icache = [s \in Slots |-> FreeSlot]
  /\ image.panic = ""

-----------------------------------------------------------------------------
(* Blocks                                                                  *)

FirstFree(f) == Min((Blocks \ f.bitmap) \cup {NBLOCKS + 1})

Balloc(f) ==
  LET b == FirstFree(f) IN
  IF b \notin Blocks THEN Panic(f, "balloc: out of blocks")
  ELSE [f EXCEPT !.bitmap = @ \cup {b}, !.data[b] = ZeroBlock]

Bfree_Keeps(f, freed) == f                                          \* mutant
Bfree(f, freed) ==
  IF ~(freed \subseteq f.bitmap) THEN Panic(f, "freeing free block")
  ELSE [f EXCEPT !.bitmap = @ \ freed]

-----------------------------------------------------------------------------
(* The inode cache                                                         *)

Cached(f, inum) == {s \in Slots : f.icache[s].ref > 0 /\ f.icache[s].inum = inum}
Unused(f)       == {s \in Slots : f.icache[s].ref = 0}
SlotFor(f, inum) ==
  IF Cached(f, inum) # {} THEN Min(Cached(f, inum))
  ELSE IF Unused(f) # {} THEN Min(Unused(f)) ELSE None

Iget(f, inum) ==
  IF Cached(f, inum) # {} THEN [f EXCEPT !.icache[SlotFor(f, inum)].ref = @ + 1]
  ELSE IF Unused(f) = {} THEN Panic(f, "iget: no inodes")
  ELSE [f EXCEPT !.icache[SlotFor(f, inum)] =
          [@ EXCEPT !.inum = inum, !.ref = 1, !.valid = FALSE]]

Idup_Forgets(f, s) == f                                             \* mutant
Idup(f, s)  == [f EXCEPT !.icache[s].ref = @ + 1]
Unref(f, s) == [f EXCEPT !.icache[s].ref = @ - 1]
LockFree(f, s) == f.icache[s].lock = None

\* The lock is free: acquiresleep's wait is the caller's guard.
Ilock(f, s, p) ==
  LET ip   == f.icache[s]
      copy == IF ip.valid THEN ip.copy ELSE f.dinode[ip.inum]
      g    == [f EXCEPT !.icache[s] =
                 [ip EXCEPT !.lock = p, !.valid = TRUE, !.copy = copy]]
  IN IF ip.ref < 1 THEN Panic(f, "ilock")
     ELSE IF copy.type = "free" THEN Panic(g, "ilock: no type")
     ELSE g

\* Nothing comes after a panic.
Iunlock(f, s) == IF f.panic # "" THEN f ELSE [f EXCEPT !.icache[s].lock = None]

Iupdate(f, s) == [f EXCEPT !.dinode[f.icache[s].inum] = f.icache[s].copy]

FreeInums(f) == {i \in Inums : f.dinode[i].type = "free"}
IallocNum(f) == Min(FreeInums(f))
Ialloc(f, type) ==
  IF FreeInums(f) = {} THEN Panic(f, "ialloc: no inodes")
  ELSE [f EXCEPT !.dinode[IallocNum(f)] = NewInode(type)]

-----------------------------------------------------------------------------
(* Contents                                                                *)

\* The address bmap finds for block bn of the inode, None when there is none yet.
Address(f, copy, bn) ==
  LET a == copy.addrs IN
  IF bn < NDIRECT THEN a[bn]
  ELSE IF a[NDIRECT] = None THEN None
  ELSE f.data[a[NDIRECT]][bn - NDIRECT][1]

GrowAt(f, s, i) ==
  LET g == Balloc(f) IN
  IF g.panic # "" THEN g ELSE [g EXCEPT !.icache[s].copy.addrs[i] = FirstFree(f)]

Bmap(f, s, bn) ==
  IF Address(f, f.icache[s].copy, bn) # None THEN f
  ELSE IF bn < NDIRECT THEN GrowAt(f, s, bn)
  ELSE LET g   == IF f.icache[s].copy.addrs[NDIRECT] = None THEN GrowAt(f, s, NDIRECT) ELSE f
           ind == g.icache[s].copy.addrs[NDIRECT]
           h   == IF g.panic = "" THEN Balloc(g) ELSE g
       IN IF h.panic # "" THEN h
          ELSE [h EXCEPT !.data[ind][bn - NDIRECT] = <<FirstFree(g), "">>]

\* All blocks of an inode, the indirect one included.
BlocksOf(f, copy) ==
  ({Address(f, copy, bn) : bn \in 0 .. MAXFILE - 1} \cup {copy.addrs[NDIRECT]}) \ {None}

Itrunc(f, s) ==
  LET g == Bfree(f, BlocksOf(f, f.icache[s].copy)) IN
  Iupdate([g EXCEPT !.icache[s].copy.addrs = NoAddrs, !.icache[s].copy.size = 0], s)

\* One word; off is below the size, where every block is allocated (Sane).
Readi(f, s, off) == f.data[Address(f, f.icache[s].copy, off \div BSIZE)][off % BSIZE]

MayWrite(f, s, off, n) == off <= f.icache[s].copy.size /\ off + n <= MAXFILE * BSIZE

Writei(f, s, off, word) ==
  LET g == Bmap(f, s, off \div BSIZE)
      h == [g EXCEPT !.data[Address(g, g.icache[s].copy, off \div BSIZE)][off % BSIZE] = word]
  IN IF g.panic # "" THEN g
     ELSE IF off < h.icache[s].copy.size THEN h
     ELSE Iupdate([h EXCEPT !.icache[s].copy.size = off + 1], s)

\* The loop of writei over the words of a request.
WriteWords(f, s, off, words) ==
  LET g[i \in 0 .. Len(words)] ==
        IF i = 0 THEN f ELSE Writei(g[i - 1], s, off + i - 1, words[i])
  IN g[Len(words)]

-----------------------------------------------------------------------------
(* Directories                                                             *)

Offsets(f, s) == 0 .. f.icache[s].copy.size - 1
Found(f, s, name) ==
  {off \in Offsets(f, s) : Readi(f, s, off)[1] # None /\ Readi(f, s, off)[2] = name}

\* The i-number of the entry: dirlookup without its iget.
Dirlookup(f, s, name) ==
  IF Found(f, s, name) = {} THEN None ELSE Readi(f, s, Min(Found(f, s, name)))[1]

\* The name is not there: the caller has looked.
Dirlink(f, s, name, inum) ==
  LET off == Min({o \in Offsets(f, s) : Readi(f, s, o)[1] = None} \cup {f.icache[s].copy.size})
  IN IF MayWrite(f, s, off, 1) THEN Writei(f, s, off, <<inum, name>>) ELSE Panic(f, "dirlink")

Isdirempty_Third(f, s) == \A off \in Offsets(f, s) : off < 3 \/ Readi(f, s, off)[1] = None \* mutant
Isdirempty(f, s) == \A off \in Offsets(f, s) : off < 2 \/ Readi(f, s, off)[1] = None

-----------------------------------------------------------------------------
(* What the disk of a file system holds                                    *)

InodeFields == {"type", "nlink", "size", "addrs"}
MaxSize == MAXFILE * BSIZE
Reach   == 0 .. MAXFILE - 1        \* blocks of a file
Words   == 0 .. BSIZE - 1          \* words of a block
InumOrNone == Inums \cup {None}
BlockOrNone == Blocks \cup {None}

\* An inode, and a block.
IsCopy(c) ==
  /\ c = [x \in InodeFields |-> c[x]] /\ c.nlink \in Int /\ c.size \in 0 .. MaxSize
  /\ c.addrs = [n \in 0 .. NDIRECT |-> c.addrs[n]]
  /\ \A n \in 0 .. NDIRECT : c.addrs[n] \in BlockOrNone
IsBlock(blk) == blk = [w \in Words |-> blk[w]]

\* Inode c has the blocks below its size, what is in them is words of a directory or of a
\* file, and the indirect block is none of them.
WordAt(f, c, off) == f.data[Address(f, c, off \div BSIZE)][off % BSIZE]
Sane(f, c) ==
  /\ \A n \in Reach : /\ Address(f, c, n) \in BlockOrNone
                      /\ Address(f, c, n) # None => Address(f, c, n) # c.addrs[NDIRECT]
  /\ \A off \in 0 .. c.size - 1 : /\ Address(f, c, off \div BSIZE) # None
                                  /\ WordAt(f, c, off)[1] \in InumOrNone
  /\ c.type = "free" => BlocksOf(f, c) = {}
Owned(f, i) == BlocksOf(f, f.dinode[i])

\* Every block that is marked in the free map is a block of one inode that is not free,
\* and every block of an inode is marked (balloc, bfree, bmap and itrunc of fs.c).
Laid(f) ==
  LET owned == UNION {Owned(f, i) \X {i} : i \in Inums} IN
  /\ \A i \in Inums : Sane(f, f.dinode[i])
  /\ \A x, y \in owned : x[1] = y[1] => x = y
  /\ f.bitmap = {x[1] : x \in owned}

-----------------------------------------------------------------------------
(* The disk that mkfs makes: a root directory and files of the given names *)
(* and contents, each of at most NDIRECT blocks.                           *)

RootWords(names) ==
  <<<<ROOTINO, ".">>, <<ROOTINO, "..">>>> \o [i \in 1 .. Len(names) |-> <<i + 1, names[i]>>]

\* iappend and ialloc of mkfs: blocks and inodes are taken in order (file by file here; the
\* second block of the root really comes after the first files).  The size of the root
\* is rounded up, past a block that is full.
NumBlocks(words) == (Len(words) + BSIZE - 1) \div BSIZE
FirstBlock(files, i) == 1 + FoldLeft(LAMBDA n, w : n + NumBlocks(w), 0, SubSeq(files, 1, i - 1))

\* ialloc and balloc of mkfs.
MkInode(i, words, addrs) ==
  [type  |-> IF i = ROOTINO THEN "dir" ELSE "file",
   nlink |-> 1,
   size  |-> IF i = ROOTINO THEN (Len(words) \div BSIZE + 1) * BSIZE ELSE Len(words),
   addrs |-> addrs]
MkBitmap(used) == 1 .. used

Mkfs(names, contents) ==
  LET files == <<RootWords(names)>> \o contents
      Word(i, n) == IF n <= Len(files[i]) THEN files[i][n] ELSE Zero
      used == FirstBlock(files, Len(files) + 1) - 1
      Owner(b) == Max({i \in 1 .. Len(files) : FirstBlock(files, i) <= b})
  IN [dinode |-> [i \in Inums |->
        IF i > Len(files) THEN FreeInode
        ELSE MkInode(i, files[i], [n \in 0 .. NDIRECT |->
               IF n < NumBlocks(files[i]) THEN FirstBlock(files, i) + n ELSE None])],
      bitmap |-> MkBitmap(used),
      data   |-> [b \in Blocks |->
        IF b > used THEN ZeroBlock
        ELSE [w \in 0 .. BSIZE - 1 |->
                Word(Owner(b), (b - FirstBlock(files, Owner(b))) * BSIZE + w + 1)]],
      icache |-> [s \in Slots |-> FreeSlot],
      panic  |-> ""]
=============================================================================
