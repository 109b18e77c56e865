---------------------------- MODULE SysFileProofs -----------------------------
(***************************************************************************)
(* The counts, the cache and the inode locks are right for any programs,   *)
(* any tables and whatever the disk holds.                                 *)
(***************************************************************************)
EXTENDS SysFile, FiniteSetTheorems, WellFoundedInduction, TLAPS

-----------------------------------------------------------------------------
(* Numbers                                                                 *)

\* A set of natural numbers has a least element.
LEMMA Least ==
  ASSUME NEW T \in SUBSET Nat, T # {}
  PROVE  \E k \in T : \A j \in T : k <= j
<1>1. \E k \in T : \A j \in T : ~(<<j, k>> \in OpToRel(<, Nat))
  BY NatLessThanWellFounded, WFMin
<1>2. PICK k \in T : \A j \in T : ~(<<j, k>> \in OpToRel(<, Nat))
  BY <1>1
<1>3. ASSUME NEW j \in T, j < k PROVE FALSE
  <2>1. <<j, k>> \in OpToRel(<, Nat)
    BY <1>3 DEF OpToRel
  <2> QED
    BY <1>2, <2>1
<1>4. \A j \in T : k <= j
  BY <1>3
<1> QED
  BY <1>4

\* Induction, over a set of numbers.
LEMMA Induction ==
  ASSUME NEW S, 0 \in S, \A k \in Nat : k \in S => k + 1 \in S
  PROVE  \A k \in Nat : k \in S
<1> SUFFICES ASSUME Nat \ S # {} PROVE FALSE
  OBVIOUS
<1>1. PICK k \in Nat \ S : \A j \in Nat \ S : k <= j
  BY Least
<1>2. k # 0 /\ k - 1 \in Nat /\ k - 1 \notin Nat \ S
  BY <1>1
<1> QED
  BY <1>1, <1>2

-----------------------------------------------------------------------------
(* Numbers of elements                                                     *)

Bit(b) == IF b THEN 1 ELSE 0

\* Sets that agree outside one element.
LEMMA OneDiffers ==
  ASSUME NEW S, IsFiniteSet(S), NEW X \in SUBSET S, NEW Y \in SUBSET S, NEW a,
         \A b \in S : b # a => (b \in X <=> b \in Y)
  PROVE  /\ Cardinality(X) \in Nat /\ Cardinality(Y) \in Nat
         /\ Cardinality(Y) = Cardinality(X) + Bit(a \in Y) - Bit(a \in X)
<1>1. IsFiniteSet(X) /\ IsFiniteSet(Y) /\ Cardinality(X) \in Nat /\ Cardinality(Y) \in Nat
  BY FS_Subset, FS_CardinalityType
<1>2. CASE a \in X /\ a \in Y
  <2>1. X = Y
    BY <1>2
  <2> QED
    BY <1>1, <1>2, <2>1 DEF Bit
<1>3. CASE a \notin X /\ a \notin Y
  <2>1. X = Y
    BY <1>3
  <2> QED
    BY <1>1, <1>3, <2>1 DEF Bit
<1>4. CASE a \in X /\ a \notin Y
  <2>1. Y = X \ {a}
    BY <1>4
  <2>2. Cardinality(X \ {a}) = Cardinality(X) - 1
    BY <1>1, <1>4, FS_RemoveElement
  <2> QED
    BY <1>1, <1>4, <2>1, <2>2 DEF Bit
<1>5. CASE a \notin X /\ a \in Y
  <2>1. Y = X \cup {a}
    BY <1>5
  <2>2. Cardinality(X \cup {a}) = Cardinality(X) + 1
    BY <1>1, <1>5, FS_AddElement
  <2> QED
    BY <1>1, <1>5, <2>1, <2>2 DEF Bit
<1> QED
  BY <1>2, <1>3, <1>4, <1>5

\* Disjoint parts.
LEMMA TwoParts ==
  ASSUME NEW X, NEW Y, IsFiniteSet(X), IsFiniteSet(Y), X \cap Y = {}
  PROVE  Cardinality(X \cup Y) = Cardinality(X) + Cardinality(Y)
<1>1. Cardinality(X \cup Y) = Cardinality(X) + Cardinality(Y) - Cardinality(X \cap Y)
  BY FS_Union
<1>2. Cardinality(X \cap Y) = 0
  BY FS_EmptySet
<1> QED
  BY <1>1, <1>2, FS_CardinalityType

\* Pairs of which the first is a, counted by the second.
LEMMA SameNumber ==
  ASSUME NEW a, NEW X, IsFiniteSet(X)
  PROVE  IsFiniteSet({a} \X X) /\ Cardinality({a} \X X) = Cardinality(X)
<1>1. IsFiniteSet({a}) /\ Cardinality({a}) = 1
  BY FS_Singleton
<1>2. Cardinality({a} \X X) = Cardinality({a}) * Cardinality(X) /\ IsFiniteSet({a} \X X)
  BY <1>1, FS_Product
<1> QED
  BY <1>1, <1>2, FS_CardinalityType

\* A table F of rows a and columns b: where it holds v.
Marked(F, A, B, v) == {ab \in A \X B : F[ab[1]][ab[2]] = v}
InRow(r, B, v) == {b \in B : r[b] = v}

SameRows(F, G, A, B, v, p) == \A a \in A : a # p => \A b \in B : F[a][b] = v <=> G[a][b] = v

\* A table of which one row has changed has so many marks more as the row.
LEMMA RowChanges ==
  ASSUME NEW A, NEW B, IsFiniteSet(A), IsFiniteSet(B), NEW F, NEW G, NEW v, NEW p \in A,
         SameRows(F, G, A, B, v, p)
  PROVE  Cardinality(Marked(G, A, B, v)) =
           Cardinality(Marked(F, A, B, v)) + Cardinality(InRow(G[p], B, v))
                                           - Cardinality(InRow(F[p], B, v))
<1> DEFINE R(H) == {ab \in (A \ {p}) \X B : H[ab[1]][ab[2]] = v}
<1>1. IsFiniteSet((A \ {p}) \X B)
  BY FS_RemoveElement, FS_Product, FS_Subset
<1>2. R(F) = R(G) /\ IsFiniteSet(R(F))
  <2>1. R(F) = R(G)
    BY DEF SameRows
  <2> QED
    BY <2>1, <1>1, FS_Subset
<1>3. ASSUME NEW H
      PROVE  /\ Marked(H, A, B, v) = R(H) \cup ({p} \X InRow(H[p], B, v))
             /\ R(H) \cap ({p} \X InRow(H[p], B, v)) = {}
             /\ InRow(H[p], B, v) \in SUBSET B
  BY DEF Marked, InRow
<1>4. ASSUME NEW H, IsFiniteSet(R(H))
      PROVE  Cardinality(Marked(H, A, B, v)) = Cardinality(R(H)) + Cardinality(InRow(H[p], B, v))
  <2> HIDE DEF R
  <2>1. PICK X \in SUBSET B : X = InRow(H[p], B, v)
    BY <1>3
  <2>3. IsFiniteSet(X)
    BY FS_Subset
  <2>2. IsFiniteSet({p} \X X) /\ Cardinality({p} \X X) = Cardinality(X)
    BY <2>3, SameNumber
  <2> QED
    BY <1>3, <1>4, <2>3, <2>1, <2>2, TwoParts
<1>5. /\ Cardinality(R(F)) \in Nat
      /\ Cardinality(InRow(F[p], B, v)) \in Nat /\ Cardinality(InRow(G[p], B, v)) \in Nat
  BY <1>2, <1>3, FS_Subset, FS_CardinalityType
<1> HIDE DEF R
<1> QED
  BY <1>2, <1>4, <1>5

-----------------------------------------------------------------------------
(* What the operators of Fs do to the cache                                *)

EntryFields  == {"inum", "ref", "valid", "lock", "copy"}
IsEntry(e)  == e = [x \in EntryFields |-> e[x]] /\ e.ref \in Int
IsSystem(f) == /\ f = [x \in SystemFields |-> f[x]]
               /\ f.icache = [s \in Slots |-> f.icache[s]]
               /\ \A s \in Slots : IsEntry(f.icache[s])

\* The entries are those of f but for what they cache, and a panic stays one.
Same(f, g) ==
  /\ IsSystem(g)
  /\ f.panic # "" => g.panic # ""
  /\ \A s \in Slots : /\ g.icache[s].inum = f.icache[s].inum
                      /\ g.icache[s].ref = f.icache[s].ref
                      /\ g.icache[s].lock = f.icache[s].lock

\* What is Same as a system is one.
LEMMA SameSystem == ASSUME NEW f, NEW g, Same(f, g) PROVE IsSystem(g)
BY DEF Same

\* Same is reflexive.
LEMMA SameItself == ASSUME NEW f, IsSystem(f) PROVE Same(f, f)
BY DEF Same

\* Same is transitive.
LEMMA SameTransitive ==
  ASSUME NEW f, NEW g, NEW h, Same(f, g), Same(g, h)
  PROVE  Same(f, h)
BY DEF Same

SetEntry(f, s, e) == [f EXCEPT !.icache[s] = e]

\* SetEntry changes one entry.
LEMMA SetEntryIs ==
  ASSUME NEW f, IsSystem(f), NEW s \in Slots, NEW e, IsEntry(e)
  PROVE  /\ IsSystem(SetEntry(f, s, e)) /\ SetEntry(f, s, e).panic = f.panic
         /\ SetEntry(f, s, e).icache[s] = e
         /\ \A t \in Slots : t # s => SetEntry(f, s, e).icache[t] = f.icache[t]
<1>1. PICK g : g = SetEntry(f, s, e)
  OBVIOUS
<1>2. g = [x \in SystemFields |-> g[x]] /\ g.panic = f.panic /\ g.icache = [f.icache EXCEPT ![s] = e]
  BY <1>1 DEF SetEntry, IsSystem, SystemFields
<1>3. g.icache = [t \in Slots |-> IF t = s THEN e ELSE f.icache[t]]
  BY <1>2 DEF IsSystem
<1>4. g.icache = [t \in Slots |-> g.icache[t]]
  BY <1>3
<1> QED
  BY <1>1, <1>2, <1>3, <1>4 DEF IsSystem

\* The copy in an entry may change.
SetCopy(f, s, c) == [f EXCEPT !.icache[s].copy = c]

\* A new copy moves no counts, i-numbers or locks.
LEMMA SetCopySame ==
  ASSUME NEW f, IsSystem(f), NEW s \in Slots, NEW c
  PROVE  Same(f, SetCopy(f, s, c)) /\ SetCopy(f, s, c).panic = f.panic
<1>1. PICK e : e = [f.icache[s] EXCEPT !.copy = c]
  OBVIOUS
<1>2. /\ IsEntry(e) /\ e.inum = f.icache[s].inum /\ e.ref = f.icache[s].ref
      /\ e.lock = f.icache[s].lock
  BY <1>1 DEF IsSystem, IsEntry, EntryFields
<1>3. SetCopy(f, s, c) = SetEntry(f, s, e)
  BY <1>1 DEF SetCopy, SetEntry
<1>4. /\ IsSystem(SetEntry(f, s, e)) /\ SetEntry(f, s, e).panic = f.panic
      /\ SetEntry(f, s, e).icache[s] = e
      /\ \A t \in Slots : t # s => SetEntry(f, s, e).icache[t] = f.icache[t]
  BY <1>2, SetEntryIs
<1> QED
  BY <1>2, <1>3, <1>4 DEF Same

SetDisk(f, d, b, w) == [f EXCEPT !.dinode = d, !.bitmap = b, !.data = w]

\* Nor does a change of the disk.
LEMMA SetDiskSame ==
  ASSUME NEW f, IsSystem(f), NEW d, NEW b, NEW w
  PROVE  Same(f, SetDisk(f, d, b, w)) /\ SetDisk(f, d, b, w).panic = f.panic
<1>1. PICK g : g = SetDisk(f, d, b, w)
  OBVIOUS
<1>2. g = [x \in SystemFields |-> g[x]] /\ g.panic = f.panic /\ g.icache = f.icache
  BY <1>1 DEF SetDisk, IsSystem, SystemFields
<1> QED
  BY <1>1, <1>2 DEF IsSystem, Same

\* Nor does a panic.
LEMMA PanicSame ==
  ASSUME NEW f, IsSystem(f), NEW message, message # ""
  PROVE  Same(f, Panic(f, message)) /\ Panic(f, message).panic # ""
<1>1. PICK g : g = Panic(f, message)
  OBVIOUS
<1>2. g = [x \in SystemFields |-> g[x]] /\ g.panic = message /\ g.icache = f.icache
  BY <1>1 DEF Panic, IsSystem, SystemFields
<1> QED
  BY <1>1, <1>2 DEF IsSystem, Same

\* Nor does balloc.
LEMMA BallocSame == ASSUME NEW f, IsSystem(f) PROVE Same(f, Balloc(f))
<1> DEFINE b == FirstFree(f)
           d == SetDisk(f, f.dinode, f.bitmap \cup {b}, [f.data EXCEPT ![b] = ZeroBlock])
<1>1. [f EXCEPT !.bitmap = @ \cup {b}, !.data[b] = ZeroBlock] = d
  BY DEF SetDisk, IsSystem
<1>2. Same(f, d)
  BY SetDiskSame
<1>3. Same(f, Panic(f, "balloc: out of blocks"))
  BY PanicSame
<1> QED
  BY <1>1, <1>2, <1>3 DEF Balloc

\* Nor does bfree.
LEMMA BfreeSame == ASSUME NEW f, IsSystem(f), NEW freed PROVE Same(f, Bfree(f, freed))
<1> DEFINE d == SetDisk(f, f.dinode, f.bitmap \ freed, f.data)
<1>1. [f EXCEPT !.bitmap = @ \ freed] = d
  BY DEF SetDisk, IsSystem
<1>2. Same(f, d)
  BY SetDiskSame
<1>3. Same(f, Panic(f, "freeing free block"))
  BY PanicSame
<1> QED
  BY <1>1, <1>2, <1>3 DEF Bfree

\* Nor does iupdate.
LEMMA IupdateSame ==
  ASSUME NEW f, IsSystem(f), NEW s
  PROVE  Same(f, Iupdate(f, s)) /\ Iupdate(f, s).panic = f.panic
<1> DEFINE d == SetDisk(f, [f.dinode EXCEPT ![f.icache[s].inum] = f.icache[s].copy], f.bitmap, f.data)
<1>1. Iupdate(f, s) = d
  BY DEF SetDisk, IsSystem, Iupdate
<1>2. Same(f, d) /\ d.panic = f.panic
  BY SetDiskSame
<1> QED
  BY <1>1, <1>2

\* Nor does ialloc.
LEMMA IallocSame == ASSUME NEW f, IsSystem(f), NEW type PROVE Same(f, Ialloc(f, type))
<1> DEFINE d == SetDisk(f, [f.dinode EXCEPT ![IallocNum(f)] = NewInode(type)], f.bitmap, f.data)
<1>1. [f EXCEPT !.dinode[IallocNum(f)] = NewInode(type)] = d
  BY DEF SetDisk, IsSystem
<1>2. Same(f, d)
  BY SetDiskSame
<1>3. Same(f, Panic(f, "ialloc: no inodes"))
  BY PanicSame
<1> QED
  BY <1>1, <1>2, <1>3 DEF Ialloc

\* Nor does a new block.
LEMMA GrowAtSame ==
  ASSUME NEW f, IsSystem(f), NEW s \in Slots, NEW i
  PROVE  Same(f, GrowAt(f, s, i))
<1>1. PICK g : g = Balloc(f)
  OBVIOUS
<1>2. Same(f, g) /\ IsSystem(g)
  BY <1>1, BallocSame, SameSystem
<1>3. PICK c : c = [g.icache[s].copy EXCEPT !.addrs[i] = FirstFree(f)]
  OBVIOUS
<1>4. [g EXCEPT !.icache[s].copy.addrs[i] = FirstFree(f)] = SetCopy(g, s, c)
  BY <1>3 DEF SetCopy
<1>5. Same(f, SetCopy(g, s, c))
  BY <1>2, SetCopySame, SameTransitive
<1> QED
  BY <1>1, <1>2, <1>4, <1>5 DEF GrowAt

\* Nor does bmap.
LEMMA BmapSame ==
  ASSUME NEW f, IsSystem(f), NEW s \in Slots, NEW bn
  PROVE  Same(f, Bmap(f, s, bn))
<1>1. PICK g : g = IF f.icache[s].copy.addrs[NDIRECT] = None THEN GrowAt(f, s, NDIRECT) ELSE f
  OBVIOUS
<1>2. Same(f, g) /\ IsSystem(g)
  BY <1>1, GrowAtSame, SameItself, SameSystem
<1>3. PICK h : h = IF g.panic = "" THEN Balloc(g) ELSE g
  OBVIOUS
<1>4. Same(f, h) /\ IsSystem(h)
  <2>1. Same(g, h)
    BY <1>2, <1>3, BallocSame, SameItself
  <2> QED
    BY <1>2, <2>1, SameTransitive, SameSystem
<1>5. PICK ind : ind = g.icache[s].copy.addrs[NDIRECT]
  OBVIOUS
<1>6. PICK e : e = [h EXCEPT !.data[ind][bn - NDIRECT] = <<FirstFree(g), "">>]
  OBVIOUS
<1>7. Same(f, e)
  <2>1. PICK w : w = [h.data EXCEPT ![ind][bn - NDIRECT] = <<FirstFree(g), "">>]
    OBVIOUS
  <2>2. e = SetDisk(h, h.dinode, h.bitmap, w)
    BY <1>4, <1>6, <2>1 DEF SetDisk, IsSystem, SystemFields
  <2>3. Same(h, e)
    BY <1>4, <2>2, SetDiskSame
  <2> QED
    BY <1>4, <2>3, SameTransitive
<1>8. Same(f, GrowAt(f, s, bn)) /\ Same(f, f)
  BY GrowAtSame, SameItself
<1>9. Bmap(f, s, bn) \in {f, GrowAt(f, s, bn), h, e}
  BY <1>1, <1>3, <1>5, <1>6 DEF Bmap
<1> QED
  BY <1>4, <1>7, <1>8, <1>9

\* Nor does writei of a word.
LEMMA WriteiSame ==
  ASSUME NEW f, IsSystem(f), NEW s \in Slots, NEW off, NEW word
  PROVE  Same(f, Writei(f, s, off, word))
<1>1. PICK g : g = Bmap(f, s, off \div BSIZE)
  OBVIOUS
<1>2. Same(f, g) /\ IsSystem(g)
  BY <1>1, BmapSame, SameSystem
<1>3. PICK h : h = [g EXCEPT !.data[Address(g, g.icache[s].copy, off \div BSIZE)][off % BSIZE] = word]
  OBVIOUS
<1>4. Same(f, h) /\ IsSystem(h)
  <2>1. PICK w : w = [g.data EXCEPT ![Address(g, g.icache[s].copy, off \div BSIZE)][off % BSIZE] = word]
    OBVIOUS
  <2>2. h = SetDisk(g, g.dinode, g.bitmap, w)
    BY <1>2, <1>3, <2>1 DEF SetDisk, IsSystem, SystemFields
  <2>3. Same(g, h)
    BY <1>2, <2>2, SetDiskSame
  <2> QED
    BY <1>2, <2>3, SameTransitive, SameSystem
<1>5. PICK c : c = [h.icache[s].copy EXCEPT !.size = off + 1]
  OBVIOUS
<1>6. [h EXCEPT !.icache[s].copy.size = off + 1] = SetCopy(h, s, c)
  BY <1>5 DEF SetCopy
<1>7. Same(h, SetCopy(h, s, c)) /\ IsSystem(SetCopy(h, s, c))
  BY <1>4, SetCopySame, SameSystem
<1>8. Same(f, Iupdate(SetCopy(h, s, c), s))
  BY <1>4, <1>7, IupdateSame, SameTransitive
<1> QED
  BY <1>1, <1>2, <1>3, <1>4, <1>6, <1>8 DEF Writei

\* Nor does itrunc.
LEMMA ItruncSame ==
  ASSUME NEW f, IsSystem(f), NEW s \in Slots
  PROVE  Same(f, Itrunc(f, s))
<1>1. PICK g : g = Bfree(f, BlocksOf(f, f.icache[s].copy))
  OBVIOUS
<1>2. Same(f, g) /\ IsSystem(g)
  BY <1>1, BfreeSame, SameSystem
<1>3. PICK c : c = [g.icache[s].copy EXCEPT !.addrs = NoAddrs]
  OBVIOUS
<1>4. PICK h : h = [g EXCEPT !.icache[s].copy.addrs = NoAddrs]
  OBVIOUS
<1>5. Same(f, h) /\ IsSystem(h)
  <2>1. h = SetCopy(g, s, c)
    BY <1>3, <1>4 DEF SetCopy
  <2> QED
    BY <1>2, <2>1, SetCopySame, SameTransitive, SameSystem
<1>6. PICK d : d = [h.icache[s].copy EXCEPT !.size = 0]
  OBVIOUS
<1>7. [g EXCEPT !.icache[s].copy.addrs = NoAddrs, !.icache[s].copy.size = 0] = SetCopy(h, s, d)
  BY <1>4, <1>6 DEF SetCopy
<1>8. Same(f, SetCopy(h, s, d)) /\ IsSystem(SetCopy(h, s, d))
  BY <1>5, SetCopySame, SameTransitive, SameSystem
<1>9. Same(f, Iupdate(SetCopy(h, s, d), s))
  BY <1>8, IupdateSame, SameTransitive
<1> QED
  BY <1>1, <1>7, <1>9 DEF Itrunc

\* The recursive function of WriteWords exists.
Turns(g, n, f, s, off, words) ==
  g = [i \in 0 .. n |-> IF i = 0 THEN f ELSE Writei(g[i - 1], s, off + i - 1, words[i])]

\* The turns of writei's loop are a function, for every number of them.
LEMMA TurnsExist ==
  ASSUME NEW f, NEW s, NEW off, NEW words
  PROVE  \A n \in Nat : \E g : Turns(g, n, f, s, off, words)
<1> DEFINE S == {n \in Nat : \E g : Turns(g, n, f, s, off, words)}
<1>1. 0 \in S
  <2>1. PICK g : g = [i \in 0 .. 0 |-> f]
    OBVIOUS
  <2>2. Turns(g, 0, f, s, off, words)
    BY <2>1 DEF Turns
  <2> QED
    BY <2>2
<1>2. ASSUME NEW n \in Nat, n \in S PROVE n + 1 \in S
  <2>1. PICK g : Turns(g, n, f, s, off, words)
    BY <1>2
  <2>2. PICK h : h = [i \in 0 .. n + 1 |->
                       IF i = n + 1 THEN Writei(g[n], s, off + n, words[n + 1]) ELSE g[i]]
    OBVIOUS
  <2>3. ASSUME NEW i \in 0 .. n + 1
        PROVE  h[i] = IF i = 0 THEN f ELSE Writei(h[i - 1], s, off + i - 1, words[i])
    <3>1. CASE i = n + 1
      <4>1. h[i] = Writei(g[n], s, off + n, words[n + 1]) /\ h[i - 1] = g[n] /\ i # 0
        BY <2>2, <3>1
      <4>2. off + i - 1 = off + n
        BY <3>1
      <4> QED
        BY <3>1, <4>1, <4>2
    <3>2. CASE i # n + 1
      <4>1. i \in 0 .. n
        BY <3>2
      <4>2. h[i] = g[i] /\ (i # 0 => h[i - 1] = g[i - 1])
        BY <2>2, <4>1
      <4>3. g[i] = IF i = 0 THEN f ELSE Writei(g[i - 1], s, off + i - 1, words[i])
        BY <2>1, <4>1 DEF Turns
      <4> QED
        BY <4>2, <4>3
    <3> QED
      BY <3>1, <3>2
  <2>4. Turns(h, n + 1, f, s, off, words)
    BY <2>2, <2>3 DEF Turns
  <2> QED
    BY <2>4
<1>3. \A n \in Nat : n \in S
  <2> HIDE DEF S
  <2> QED
    BY <1>1, <1>2, Induction
<1> QED
  BY <1>3

\* No turn moves counts, i-numbers or locks, by induction over their number.
LEMMA TurnsSame ==
  ASSUME NEW f, IsSystem(f), NEW s \in Slots, NEW off, NEW words, NEW n \in Nat,
         NEW g, Turns(g, n, f, s, off, words)
  PROVE  Same(f, g[n])
<1> DEFINE S == {i \in Nat : i <= n => Same(f, g[i])}
<1>1. 0 \in S
  <2>1. g[0] = f
    BY DEF Turns
  <2> QED
    BY <2>1, SameItself
<1>2. ASSUME NEW i \in Nat, i \in S PROVE i + 1 \in S
  <2>1. SUFFICES ASSUME i + 1 <= n PROVE Same(f, g[i + 1])
    OBVIOUS
  <2>2. g[i + 1] = Writei(g[(i + 1) - 1], s, off + (i + 1) - 1, words[i + 1])
    BY <2>1 DEF Turns
  <2>3. Same(f, g[i]) /\ IsSystem(g[i]) /\ (i + 1) - 1 = i
    BY <1>2, <2>1, SameSystem
  <2>4. Same(g[i], g[i + 1])
    BY <2>2, <2>3, WriteiSame
  <2> QED
    BY <2>3, <2>4, SameTransitive
<1>3. \A i \in Nat : i \in S
  <2> HIDE DEF S
  <2> QED
    BY <1>1, <1>2, Induction
<1> QED
  BY <1>3

\* So writei does not.
LEMMA WriteWordsSame ==
  ASSUME NEW f, IsSystem(f), NEW s \in Slots, NEW off, NEW words, Len(words) \in Nat
  PROVE  Same(f, WriteWords(f, s, off, words))
<1>1. PICK n \in Nat : n = Len(words)
  OBVIOUS
<1>2. PICK g : Turns(g, n, f, s, off, words)
  BY TurnsExist
<1> DEFINE h == CHOOSE h : Turns(h, n, f, s, off, words)
<1>3. Turns(h, n, f, s, off, words)
  BY <1>2
<1>4. h = CHOOSE g_ : g_ = [i \in 0 .. Len(words) |->
            IF i = 0 THEN f ELSE Writei(g_[i - 1], s, off + i - 1, words[i])]
  BY <1>1 DEF Turns
<1>5. WriteWords(f, s, off, words) = h[n]
  BY <1>1, <1>4 DEF WriteWords
<1> HIDE DEF h
<1> QED
  BY <1>3, <1>5, TurnsSame

\* Nor does dirlink.
LEMMA DirlinkSame ==
  ASSUME NEW f, IsSystem(f), NEW s \in Slots, NEW name, NEW inum
  PROVE  Same(f, Dirlink(f, s, name, inum))
BY WriteiSame, PanicSame DEF Dirlink

\* Nor does a link that is taken back.
LEMMA UnlinkedSame ==
  ASSUME NEW f, IsSystem(f), NEW s \in Slots
  PROVE  Same(f, Unlinked(f, s))
<1>1. PICK c : c = [f.icache[s].copy EXCEPT !.nlink = @ - 1]
  OBVIOUS
<1>2. [f EXCEPT !.icache[s].copy.nlink = @ - 1] = SetCopy(f, s, c)
  BY <1>1 DEF SetCopy
<1>3. Same(f, SetCopy(f, s, c)) /\ IsSystem(SetCopy(f, s, c))
  BY SetCopySame, SameSystem
<1> QED
  BY <1>2, <1>3, IupdateSame, SameTransitive DEF Unlinked

\* One more link, and one link.
LEMMA LinkedSame ==
  ASSUME NEW f, IsSystem(f), NEW s \in Slots
  PROVE  /\ Same(f, Iupdate([f EXCEPT !.icache[s].copy.nlink = @ + 1], s))
         /\ Same(f, Iupdate([f EXCEPT !.icache[s].copy.nlink = 1], s))
<1>1. PICK c : c = [f.icache[s].copy EXCEPT !.nlink = @ + 1]
  OBVIOUS
<1>2. PICK d : d = [f.icache[s].copy EXCEPT !.nlink = 1]
  OBVIOUS
<1>3. /\ [f EXCEPT !.icache[s].copy.nlink = @ + 1] = SetCopy(f, s, c)
      /\ [f EXCEPT !.icache[s].copy.nlink = 1] = SetCopy(f, s, d)
  BY <1>1, <1>2 DEF SetCopy
<1>4. /\ Same(f, SetCopy(f, s, c)) /\ IsSystem(SetCopy(f, s, c))
      /\ Same(f, SetCopy(f, s, d)) /\ IsSystem(SetCopy(f, s, d))
  BY SetCopySame, SameSystem
<1> QED
  BY <1>3, <1>4, IupdateSame, SameTransitive

\* Nor do "." and "..".
LEMMA DotsSame ==
  ASSUME NEW f, IsSystem(f), NEW ip \in Slots, NEW dp \in Slots
  PROVE  Same(f, Dots(f, ip, dp))
<1>1. PICK g : g = Iupdate([f EXCEPT !.icache[dp].copy.nlink = @ + 1], dp)
  OBVIOUS
<1>2. Same(f, g) /\ IsSystem(g)
  BY <1>1, LinkedSame, SameSystem
<1>3. PICK h : h = Dirlink(g, ip, ".", f.icache[ip].inum)
  OBVIOUS
<1>4. Same(f, h) /\ IsSystem(h)
  BY <1>2, <1>3, DirlinkSame, SameTransitive, SameSystem
<1>5. Same(h, Dirlink(h, ip, "..", f.icache[dp].inum))
  BY <1>4, DirlinkSame
<1>6. Dots(f, ip, dp) = Dirlink(h, ip, "..", f.icache[dp].inum)
  BY <1>1, <1>3 DEF Dots
<1> QED
  BY <1>4, <1>5, <1>6, SameTransitive

\* Nor does erasing an entry.
LEMMA EraseSame ==
  ASSUME NEW f, IsSystem(f), NEW k, k.dp \in Slots, NEW off
  PROVE  Same(f, Erase(f, k, off))
<1>1. PICK g : g = Writei(f, k.dp, off, Zero)
  OBVIOUS
<1>2. Same(f, g) /\ IsSystem(g)
  BY <1>1, WriteiSame, SameSystem
<1>3. Same(f, Unlinked(g, k.dp))
  BY <1>2, UnlinkedSame, SameTransitive
<1>4. Erase(f, k, off) \in {g, Unlinked(g, k.dp)}
  BY <1>1 DEF Erase, Unlinked
<1> QED
  BY <1>2, <1>3, <1>4

\* The least element of a set of natural numbers.
LEMMA MinIs ==
  ASSUME NEW T \in SUBSET Nat, T # {}
  PROVE  Min(T) \in T /\ \A j \in T : Min(T) <= j
<1>1. \E k \in T : \A j \in T : k <= j
  BY Least
<1> QED
  BY <1>1 DEF Min

-----------------------------------------------------------------------------
(* Counts and locks of entries                                             *)

\* An entry holds an inode of its own.
Once(f) == \A s, t \in Slots :
  s # t /\ f.icache[s].ref > 0 /\ f.icache[t].ref > 0 => f.icache[s].inum # f.icache[t].inum

\* An inode is in one entry still where these are the same.
LEMMA SameOnce == ASSUME NEW f, NEW g, Once(f), Same(f, g) PROVE Once(g)
BY ZenonT(60) DEF Once, Same

SetLock(f, s, p) == [f EXCEPT !.icache[s].lock = p]

\* SetLock changes the lock of one entry.
LEMMA SetLockIs ==
  ASSUME NEW f, IsSystem(f), NEW s \in Slots, NEW p
  PROVE  /\ IsSystem(SetLock(f, s, p)) /\ SetLock(f, s, p).panic = f.panic
         /\ \A t \in Slots : /\ SetLock(f, s, p).icache[t].inum = f.icache[t].inum
                             /\ SetLock(f, s, p).icache[t].ref = f.icache[t].ref
                             /\ SetLock(f, s, p).icache[t].lock = IF t = s THEN p ELSE f.icache[t].lock
<1>1. PICK e : e = [f.icache[s] EXCEPT !.lock = p]
  OBVIOUS
<1>2. IsEntry(e) /\ e.inum = f.icache[s].inum /\ e.ref = f.icache[s].ref /\ e.lock = p
  BY <1>1 DEF IsSystem, IsEntry, EntryFields
<1>3. SetLock(f, s, p) = SetEntry(f, s, e)
  BY <1>1 DEF SetLock, SetEntry
<1>4. /\ IsSystem(SetEntry(f, s, e)) /\ SetEntry(f, s, e).panic = f.panic
      /\ SetEntry(f, s, e).icache[s] = e
      /\ \A t \in Slots : t # s => SetEntry(f, s, e).icache[t] = f.icache[t]
  BY <1>2, SetEntryIs
<1> QED
  BY <1>2, <1>3, <1>4

SameLocks(f, g) == \A s \in Slots : g.icache[s].lock = f.icache[s].lock
LockSet(f, g, t, l) == \A s \in Slots : g.icache[s].lock = IF s = t THEN l ELSE f.icache[s].lock

\* The entries are those of f, but for what they cache and for a lock.
LockMoves(f, g, s, l) ==
  /\ IsSystem(g)
  /\ f.panic # "" => g.panic # ""
  /\ \A t \in Slots : /\ g.icache[t].inum = f.icache[t].inum
                      /\ g.icache[t].ref = f.icache[t].ref
  /\ g.panic = "" => LockSet(f, g, s, l)

\* So does ilock, besides the copy.
LEMMA IlockIs ==
  ASSUME NEW f, IsSystem(f), NEW s \in Slots, NEW p
  PROVE  LockMoves(f, Ilock(f, s, p), s, p)
<1>0. PICK g : g = Ilock(f, s, p)
  OBVIOUS
<1>1. PICK ip : ip = f.icache[s]
  OBVIOUS
<1>2. PICK copy : copy = IF ip.valid THEN ip.copy ELSE f.dinode[ip.inum]
  OBVIOUS
<1>3. PICK e : e = [ip EXCEPT !.lock = p, !.valid = TRUE, !.copy = copy]
  OBVIOUS
<1>4. IsEntry(e) /\ e.inum = ip.inum /\ e.ref = ip.ref /\ e.lock = p
  BY <1>1, <1>3 DEF IsSystem, IsEntry, EntryFields
<1>5. PICK h : h = SetEntry(f, s, e)
  OBVIOUS
<1>6. /\ IsSystem(h) /\ h.panic = f.panic /\ h.icache[s] = e
      /\ \A t \in Slots : t # s => h.icache[t] = f.icache[t]
  BY <1>4, <1>5, SetEntryIs
<1>7. g \in {h, Panic(f, "ilock"), Panic(h, "ilock: no type")}
  BY <1>0, <1>1, <1>2, <1>3, <1>5 DEF Ilock, SetEntry
<1>8. /\ Same(f, Panic(f, "ilock")) /\ Panic(f, "ilock").panic # ""
      /\ Same(h, Panic(h, "ilock: no type")) /\ Panic(h, "ilock: no type").panic # ""
  BY <1>6, PanicSame
<1>9. CASE g = h
  BY <1>0, <1>1, <1>4, <1>6, <1>9 DEF LockMoves, LockSet
<1>10. CASE g = Panic(f, "ilock")
  <2>1. Same(f, g) /\ g.panic # ""
    BY <1>8, <1>10
  <2> QED
    BY <1>0, <2>1 DEF Same, LockMoves
<1>11. CASE g = Panic(h, "ilock: no type")
  <2>1. \A t \in Slots : /\ h.icache[t].inum = f.icache[t].inum
                        /\ h.icache[t].ref = f.icache[t].ref
    BY <1>1, <1>4, <1>6
  <2>2. Same(h, g) /\ g.panic # ""
    BY <1>8, <1>11
  <2> QED
    BY <1>0, <2>1, <2>2 DEF Same, LockMoves
<1> QED
  BY <1>0, <1>7, <1>9, <1>10, <1>11

\* So does iunlock.
LEMMA IunlockIs ==
  ASSUME NEW f, IsSystem(f), NEW s \in Slots
  PROVE  LockMoves(f, Iunlock(f, s), s, None) /\ Iunlock(f, s).panic = f.panic
<1>1. PICK g : g = Iunlock(f, s)
  OBVIOUS
<1>2. CASE f.panic # ""
  BY <1>1, <1>2 DEF Iunlock, LockMoves
<1>3. CASE f.panic = ""
  <2>1. PICK l : l = None
    OBVIOUS
  <2>2. g = SetLock(f, s, l)
    BY <1>1, <1>3, <2>1 DEF Iunlock, SetLock
  <2>3. /\ IsSystem(g) /\ g.panic = f.panic
        /\ \A t \in Slots : /\ g.icache[t].inum = f.icache[t].inum
                            /\ g.icache[t].ref = f.icache[t].ref
                            /\ g.icache[t].lock = IF t = s THEN l ELSE f.icache[t].lock
    BY <2>2, SetLockIs
  <2>4. LockMoves(f, g, s, None)
    BY <1>3, <2>1, <2>3 DEF LockMoves, LockSet
  <2> QED
    BY <1>1, <2>3, <2>4
<1> QED
  BY <1>2, <1>3

\* Counts are numbers.
LEMMA RefType == ASSUME NEW f, IsSystem(f) PROVE \A s \in Slots : f.icache[s].ref \in Int
BY DEF IsSystem, IsEntry

\* A lock that moves leaves i-numbers alone.
LEMMA LockMovesOnce ==
  ASSUME NEW f, NEW g, NEW s, NEW l, LockMoves(f, g, s, l), Once(f)
  PROVE  Once(g) /\ IsSystem(g)
BY DEF LockMoves, Once

\* Counts change, and nothing else.
SetRef(f, s, n) == [f EXCEPT !.icache[s].ref = n]

\* SetRef changes the count of one entry.
LEMMA SetRefIs ==
  ASSUME NEW f, IsSystem(f), NEW s \in Slots, NEW n \in Int
  PROVE  /\ IsSystem(SetRef(f, s, n)) /\ SetRef(f, s, n).panic = f.panic
         /\ \A t \in Slots : /\ SetRef(f, s, n).icache[t].inum = f.icache[t].inum
                             /\ SetRef(f, s, n).icache[t].ref = IF t = s THEN n ELSE f.icache[t].ref
                             /\ SetRef(f, s, n).icache[t].lock = f.icache[t].lock
<1>1. PICK e : e = [f.icache[s] EXCEPT !.ref = n]
  OBVIOUS
<1>2. IsEntry(e) /\ e.inum = f.icache[s].inum /\ e.ref = n /\ e.lock = f.icache[s].lock
  BY <1>1 DEF IsSystem, IsEntry, EntryFields
<1>3. SetRef(f, s, n) = SetEntry(f, s, e)
  BY <1>1 DEF SetRef, SetEntry
<1>4. /\ IsSystem(SetEntry(f, s, e)) /\ SetEntry(f, s, e).panic = f.panic
      /\ SetEntry(f, s, e).icache[s] = e
      /\ \A t \in Slots : t # s => SetEntry(f, s, e).icache[t] = f.icache[t]
  BY <1>2, SetEntryIs
<1> QED
  BY <1>2, <1>3, <1>4

\* A reference more to the entry t, or one less; None is no entry.
Gains(f, g, t) ==
  /\ IsSystem(g)
  /\ f.panic # "" => g.panic # ""
  /\ \A s \in Slots : /\ g.icache[s].ref = f.icache[s].ref + Bit(s = t)
                      /\ g.icache[s].lock = f.icache[s].lock
  /\ Once(f) => Once(g)

\* idup adds one to a count.
LEMMA IdupIs ==
  ASSUME NEW f, IsSystem(f), NEW s \in Slots, f.icache[s].ref > 0
  PROVE  Gains(f, Idup(f, s), s) /\ Idup(f, s).panic = f.panic
<1>1. f.icache[s].ref \in Int
  BY DEF IsSystem, IsEntry
<1>2. PICK n \in Int : n = f.icache[s].ref + 1
  BY <1>1
<1>3. PICK g : g = SetRef(f, s, n)
  OBVIOUS
<1>4. /\ IsSystem(g) /\ g.panic = f.panic
      /\ \A t \in Slots : /\ g.icache[t].inum = f.icache[t].inum
                          /\ g.icache[t].ref = IF t = s THEN n ELSE f.icache[t].ref
                          /\ g.icache[t].lock = f.icache[t].lock
  BY <1>3, SetRefIs
<1>5. Idup(f, s) = g
  BY <1>2, <1>3 DEF Idup, SetRef
<1>6. \A t \in Slots : f.icache[t].ref \in Int
  BY DEF IsSystem, IsEntry
<1>7. \A t \in Slots : g.icache[t].ref = f.icache[t].ref + Bit(t = s)
  BY <1>2, <1>4, <1>6 DEF Bit
<1>8. Once(f) => Once(g)
  BY <1>2, <1>4 DEF Once
<1> QED
  BY <1>4, <1>5, <1>7, <1>8 DEF Gains

\* iput's last step takes one from a count, and an inode stays in one entry.
LEMMA UnrefIs ==
  ASSUME NEW f, IsSystem(f), NEW s \in Slots
  PROVE  /\ IsSystem(Unref(f, s)) /\ Unref(f, s).panic = f.panic
         /\ \A t \in Slots : /\ Unref(f, s).icache[t].ref = f.icache[t].ref - Bit(t = s)
                             /\ Unref(f, s).icache[t].lock = f.icache[t].lock
         /\ Once(f) => Once(Unref(f, s))
<1>1. f.icache[s].ref \in Int
  BY DEF IsSystem, IsEntry
<1>2. PICK n \in Int : n = f.icache[s].ref - 1
  BY <1>1
<1>3. PICK g : g = SetRef(f, s, n)
  OBVIOUS
<1>4. /\ IsSystem(g) /\ g.panic = f.panic
      /\ \A t \in Slots : /\ g.icache[t].inum = f.icache[t].inum
                          /\ g.icache[t].ref = IF t = s THEN n ELSE f.icache[t].ref
                          /\ g.icache[t].lock = f.icache[t].lock
  BY <1>3, SetRefIs
<1>5. Unref(f, s) = g
  BY <1>2, <1>3 DEF Unref, SetRef
<1>6. \A t \in Slots : f.icache[t].ref \in Int
  BY DEF IsSystem, IsEntry
<1>7. \A t \in Slots : g.icache[t].ref = f.icache[t].ref - Bit(t = s)
  BY <1>2, <1>4, <1>6 DEF Bit
<1>8. Once(f) => Once(g)
  BY <1>2, <1>4, <1>6 DEF Once
<1> QED
  BY <1>4, <1>5, <1>7, <1>8

\* iget adds one to the count of the inode's entry, or panics for want of one.
LEMMA IgetIs ==
  ASSUME NEW f, IsSystem(f), NEW inum
  PROVE  /\ Gains(f, Iget(f, inum), SlotFor(f, inum))
         /\ SlotFor(f, inum) \in Slots \cup {None}
         /\ Iget(f, inum).panic = "" => SlotFor(f, inum) # None
<1>1. Slots \in SUBSET Nat /\ None \notin Slots
  BY DEF Slots, None
<1>2. \A t \in Slots : f.icache[t].ref \in Int
  BY DEF IsSystem, IsEntry
<1>3. PICK s : s = SlotFor(f, inum)
  OBVIOUS
<1>4. CASE Cached(f, inum) # {}
  <2>1. s \in Cached(f, inum)
    <3>1. Cached(f, inum) \in SUBSET Nat
      BY <1>1 DEF Cached
    <3> QED
      BY <1>3, <1>4, <3>1, MinIs DEF SlotFor
  <2>2. s \in Slots /\ f.icache[s].ref > 0
    BY <2>1 DEF Cached
  <2>3. Gains(f, Idup(f, s), s)
    BY <2>2, IdupIs
  <2>4. Iget(f, inum) = Idup(f, s)
    BY <1>3, <1>4 DEF Iget, Idup
  <2> QED
    BY <1>1, <1>3, <2>2, <2>3, <2>4
<1>5. CASE Cached(f, inum) = {} /\ Unused(f) = {}
  <2>1. s = None
    BY <1>3, <1>5 DEF SlotFor
  <2>2. Iget(f, inum) = Panic(f, "iget: no inodes")
    BY <1>5 DEF Iget
  <2>3. Same(f, Panic(f, "iget: no inodes")) /\ Panic(f, "iget: no inodes").panic # ""
    BY PanicSame
  <2>4. PICK g : g = Panic(f, "iget: no inodes")
    OBVIOUS
  <2>5. Same(f, g) /\ g.panic # ""
    BY <2>3, <2>4
  <2>6. Once(f) => Once(g)
    BY <2>5, SameOnce
  <2>7. Gains(f, g, s)
    <3>1. \A t \in Slots : g.icache[t].ref = f.icache[t].ref + Bit(t = s)
      <4>1. \A t \in Slots : g.icache[t].ref = f.icache[t].ref
        BY <2>5 DEF Same
      <4>2. \A t \in Slots : Bit(t = s) = 0
        BY <1>1, <2>1 DEF Bit
      <4> QED
        BY <1>2, <4>1, <4>2
    <3> QED
      BY <2>5, <2>6, <3>1 DEF Gains, Same
  <2> QED
    BY <1>3, <2>1, <2>2, <2>4, <2>5, <2>7
<1>6. CASE Cached(f, inum) = {} /\ Unused(f) # {}
  <2>1. s \in Unused(f)
    <3>1. Unused(f) \in SUBSET Nat
      BY <1>1 DEF Unused
    <3> QED
      BY <1>3, <1>6, <3>1, MinIs DEF SlotFor
  <2>2. s \in Slots /\ f.icache[s].ref = 0
    BY <2>1 DEF Unused
  <2>3. PICK e : e = [f.icache[s] EXCEPT !.inum = inum, !.ref = 1, !.valid = FALSE]
    OBVIOUS
  <2>4. IsEntry(e) /\ e.inum = inum /\ e.ref = 1 /\ e.lock = f.icache[s].lock
    <3>1. IsEntry(f.icache[s])
      BY <2>2 DEF IsSystem
    <3>2. e = [x \in EntryFields |-> e[x]]
      BY <2>3, <3>1 DEF IsEntry
    <3>3. e.inum = inum
      BY <2>3, <3>1 DEF IsEntry, EntryFields
    <3>4. e.ref = 1
      BY <2>3, <3>1 DEF IsEntry, EntryFields
    <3>5. e.lock = f.icache[s].lock
      BY <2>3, <3>1 DEF IsEntry, EntryFields
    <3> QED
      BY <3>2, <3>3, <3>4, <3>5 DEF IsEntry
  <2>5. PICK g : g = SetEntry(f, s, e)
    OBVIOUS
  <2>6. /\ IsSystem(g) /\ g.panic = f.panic /\ g.icache[s] = e
        /\ \A t \in Slots : t # s => g.icache[t] = f.icache[t]
    BY <2>2, <2>4, <2>5, SetEntryIs
  <2>7. Iget(f, inum) = g
    BY <1>3, <1>6, <2>3, <2>5 DEF Iget, SetEntry
  <2>8. \A t \in Slots : t # s /\ f.icache[t].ref > 0 => f.icache[t].inum # inum
    BY <1>6 DEF Cached
  <2>9. Once(f) => Once(g)
    BY <2>2, <2>4, <2>6, <2>8 DEF Once
  <2>10. \A t \in Slots : /\ g.icache[t].ref = f.icache[t].ref + Bit(t = s)
                          /\ g.icache[t].lock = f.icache[t].lock
    BY <1>2, <2>2, <2>4, <2>6 DEF Bit
  <2> QED
    BY <1>1, <1>3, <2>2, <2>6, <2>7, <2>9, <2>10 DEF Gains
<1> QED
  BY <1>4, <1>5, <1>6

-----------------------------------------------------------------------------
(* Pointers to entries                                                     *)

Ptr       == Slots \cup {None}
PtrFields == {"at", "ip", "dp", "put"}
PtrCount(k, s) == Bit(k.at = s) + Bit(k.ip = s) + Bit(k.dp = s) + Bit(k.put = s)
Ptrs(ke, s) == Cardinality({pf \in Procs \X PtrFields : ke[pf[1]][pf[2]] = s})
Cwds(us, s) == Cardinality({p \in Procs : us[p].cwd = s})
Opens(ft, s) == Cardinality({f \in Files : ft[f].ref > 0 /\ ft[f].type = "inode" /\ ft[f].ip = s})
Descs(us, f) == Cardinality({pd \in Procs \X Fds : us[pd[1]].ofile[pd[2]] = f})
FdCount(o, f) == Cardinality({d \in Fds : o[d] = f})

\* A call's pointers to an entry are a number.
LEMMA CountType == \A k, s : PtrCount(k, s) \in Nat /\ PtrCount(k, s) \in Int
BY DEF PtrCount, Bit

\* The tables are finite.
LEMMA Finite == IsFiniteSet(Procs) /\ IsFiniteSet(Fds) /\ IsFiniteSet(Files)
<1>1. NPROC \in Int /\ NOFILE - 1 \in Int /\ NFILE \in Int
  BY TablesAssumption
<1> QED
  BY <1>1, FS_Interval DEF Procs, Fds, Files

\* One more field of a row is one more mark or none.
LEMMA InRowMore ==
  ASSUME NEW B, IsFiniteSet(B), NEW b, b \notin B, NEW r, NEW v
  PROVE  /\ Cardinality(InRow(r, B, v)) \in Nat
         /\ Cardinality(InRow(r, B \cup {b}, v)) = Cardinality(InRow(r, B, v)) + Bit(r[b] = v)
<1>1. PICK X : X = InRow(r, B, v)
  OBVIOUS
<1>2. PICK Y : Y = InRow(r, B \cup {b}, v)
  OBVIOUS
<1>3. PICK S : S = B \cup {b}
  OBVIOUS
<1>4. IsFiniteSet(S)
  BY <1>3, FS_AddElement
<1>5. X \in SUBSET S /\ Y \in SUBSET S /\ \A c \in S : c # b => (c \in X <=> c \in Y)
  BY <1>1, <1>2, <1>3 DEF InRow
<1>6. /\ Cardinality(X) \in Nat
      /\ Cardinality(Y) = Cardinality(X) + Bit(b \in Y) - Bit(b \in X)
  BY <1>4, <1>5, OneDiffers
<1>7. b \notin X /\ (b \in Y <=> r[b] = v)
  BY <1>1, <1>2 DEF InRow
<1> QED
  BY <1>1, <1>2, <1>6, <1>7 DEF Bit

\* PtrCount is the number of the fields that point to the entry.
LEMMA PtrCountIs ==
  ASSUME NEW k, NEW s
  PROVE  Cardinality(InRow(k, PtrFields, s)) = PtrCount(k, s) /\ PtrCount(k, s) \in Nat
<1>1. /\ Cardinality(InRow(k, {}, s)) = 0 /\ IsFiniteSet({})
  <2>1. InRow(k, {}, s) = {}
    BY DEF InRow
  <2> QED
    BY <2>1, FS_EmptySet
<1>2. PICK A, B, C : A = {"at"} /\ B = {"at", "ip"} /\ C = {"at", "ip", "dp"}
  OBVIOUS
<1>3. IsFiniteSet(A) /\ IsFiniteSet(B) /\ IsFiniteSet(C)
  <2>1. A = {} \cup {"at"} /\ B = A \cup {"ip"} /\ C = B \cup {"dp"}
    BY <1>2
  <2> QED
    BY <1>1, <2>1, FS_AddElement
<1>4. Cardinality(InRow(k, A, s)) = Bit(k.at = s)
  <2>1. "at" \notin {} /\ A = {} \cup {"at"}
    BY <1>2
  <2>2. Cardinality(InRow(k, {} \cup {"at"}, s)) = Cardinality(InRow(k, {}, s)) + Bit(k["at"] = s)
    <3>1. PICK b : b = "at"
      OBVIOUS
    <3>3. PICK E : E = {}
      OBVIOUS
    <3>4. b \notin E /\ IsFiniteSet(E)
      BY <1>1, <2>1, <3>1, <3>3
    <3>5. Cardinality(InRow(k, E \cup {b}, s)) = Cardinality(InRow(k, E, s)) + Bit(k[b] = s)
      BY ONLY <3>4, InRowMore
    <3>2. Cardinality(InRow(k, {} \cup {b}, s)) = Cardinality(InRow(k, {}, s)) + Bit(k[b] = s)
      BY <3>3, <3>5
    <3> QED
      BY <3>1, <3>2
  <2> QED
    BY <1>1, <2>1, <2>2 DEF Bit
<1>5. Cardinality(InRow(k, B, s)) = Bit(k.at = s) + Bit(k.ip = s)
  <2>1. "ip" \notin A /\ B = A \cup {"ip"}
    BY <1>2
  <2>2. Cardinality(InRow(k, A \cup {"ip"}, s)) = Cardinality(InRow(k, A, s)) + Bit(k["ip"] = s)
    <3>1. PICK b : b = "ip"
      OBVIOUS
    <3>3. PICK E : E = A
      OBVIOUS
    <3>4. b \notin E /\ IsFiniteSet(E)
      BY <1>3, <2>1, <3>1, <3>3
    <3>5. Cardinality(InRow(k, E \cup {b}, s)) = Cardinality(InRow(k, E, s)) + Bit(k[b] = s)
      BY ONLY <3>4, InRowMore
    <3>2. Cardinality(InRow(k, A \cup {b}, s)) = Cardinality(InRow(k, A, s)) + Bit(k[b] = s)
      BY <3>3, <3>5
    <3> QED
      BY <3>1, <3>2
  <2> QED
    BY <1>4, <2>1, <2>2 DEF Bit
<1>6. Cardinality(InRow(k, C, s)) = Bit(k.at = s) + Bit(k.ip = s) + Bit(k.dp = s)
  <2>1. "dp" \notin B /\ C = B \cup {"dp"}
    BY <1>2
  <2>2. Cardinality(InRow(k, B \cup {"dp"}, s)) = Cardinality(InRow(k, B, s)) + Bit(k["dp"] = s)
    <3>1. PICK b : b = "dp"
      OBVIOUS
    <3>3. PICK E : E = B
      OBVIOUS
    <3>4. b \notin E /\ IsFiniteSet(E)
      BY <1>3, <2>1, <3>1, <3>3
    <3>5. Cardinality(InRow(k, E \cup {b}, s)) = Cardinality(InRow(k, E, s)) + Bit(k[b] = s)
      BY ONLY <3>4, InRowMore
    <3>2. Cardinality(InRow(k, B \cup {b}, s)) = Cardinality(InRow(k, B, s)) + Bit(k[b] = s)
      BY <3>3, <3>5
    <3> QED
      BY <3>1, <3>2
  <2> QED
    BY <1>5, <2>1, <2>2 DEF Bit
<1>7. Cardinality(InRow(k, PtrFields, s)) = PtrCount(k, s)
  <2>1. "put" \notin C /\ PtrFields = C \cup {"put"}
    BY <1>2 DEF PtrFields
  <2>2. Cardinality(InRow(k, C \cup {"put"}, s)) = Cardinality(InRow(k, C, s)) + Bit(k["put"] = s)
    <3>1. PICK b : b = "put"
      OBVIOUS
    <3>3. PICK E : E = C
      OBVIOUS
    <3>4. b \notin E /\ IsFiniteSet(E)
      BY <1>3, <2>1, <3>1, <3>3
    <3>5. Cardinality(InRow(k, E \cup {b}, s)) = Cardinality(InRow(k, E, s)) + Bit(k[b] = s)
      BY ONLY <3>4, InRowMore
    <3>2. Cardinality(InRow(k, C \cup {b}, s)) = Cardinality(InRow(k, C, s)) + Bit(k[b] = s)
      BY <3>3, <3>5
    <3> QED
      BY <3>1, <3>2
  <2> QED
    BY <1>6, <2>1, <2>2 DEF Bit, PtrCount
<1> QED
  BY <1>7 DEF PtrCount, Bit

\* There are finitely many of them.
LEMMA FinitePtrFields == IsFiniteSet(PtrFields)
<1>1. PICK a, b, c, d : a = "at" /\ b = "ip" /\ c = "dp" /\ d = "put"
  OBVIOUS
<1>2. IsFiniteSet({a}) /\ IsFiniteSet({b}) /\ IsFiniteSet({c}) /\ IsFiniteSet({d})
  BY FS_Singleton
<1>3. IsFiniteSet(({a} \cup {b}) \cup ({c} \cup {d}))
  BY <1>2, FS_Union
<1>4. PtrFields = ({a} \cup {b}) \cup ({c} \cup {d})
  BY <1>1 DEF PtrFields
<1> QED
  BY <1>3, <1>4

\* The pointers of one process change.
LEMMA PtrsChange ==
  ASSUME NEW F, NEW G, NEW s, NEW p \in Procs,
         \A q \in Procs : q # p => \A x \in PtrFields : F[q][x] = s <=> G[q][x] = s
  PROVE  /\ Ptrs(G, s) = Ptrs(F, s) + PtrCount(G[p], s) - PtrCount(F[p], s)
         /\ Ptrs(F, s) \in Nat
<1>1. PICK A, B : A = Procs /\ B = PtrFields
  OBVIOUS
<1>2. Cardinality(Marked(G, A, B, s)) =
        Cardinality(Marked(F, A, B, s)) + Cardinality(InRow(G[p], B, s))
                                        - Cardinality(InRow(F[p], B, s))
  <2>1. SameRows(F, G, A, B, s, p)
    BY <1>1 DEF SameRows
  <2> QED
    BY <1>1, <2>1, Finite, FinitePtrFields, RowChanges
<1>3. Ptrs(G, s) = Cardinality(Marked(G, A, B, s)) /\ Ptrs(F, s) = Cardinality(Marked(F, A, B, s))
  BY <1>1 DEF Ptrs, Marked
<1>4. Ptrs(F, s) \in Nat
  <2>1. IsFiniteSet(A \X B)
    BY <1>1, Finite, FinitePtrFields, FS_Product
  <2>2. Marked(F, A, B, s) \in SUBSET (A \X B)
    BY DEF Marked
  <2> QED
    BY <1>3, <2>1, <2>2, FS_Subset, FS_CardinalityType
<1> QED
  BY <1>1, <1>2, <1>3, <1>4, PtrCountIs

SameCwds(F, G, s, p) == \A q \in Procs : q # p => (F[q].cwd = s <=> G[q].cwd = s)

\* The current directories at an entry, when one process changes its own.
LEMMA CwdsChange ==
  ASSUME NEW F, NEW G, NEW s, NEW p \in Procs, SameCwds(F, G, s, p)
  PROVE  /\ Cwds(G, s) = Cwds(F, s) + Bit(G[p].cwd = s) - Bit(F[p].cwd = s)
         /\ Cwds(F, s) \in Nat
<1>1. PICK X, Y : X = {q \in Procs : F[q].cwd = s} /\ Y = {q \in Procs : G[q].cwd = s}
  OBVIOUS
<1>2. X \in SUBSET Procs /\ Y \in SUBSET Procs /\ \A q \in Procs : q # p => (q \in X <=> q \in Y)
  BY <1>1 DEF SameCwds
<1>3. Cardinality(X) \in Nat /\ Cardinality(Y) = Cardinality(X) + Bit(p \in Y) - Bit(p \in X)
  BY <1>2, Finite, OneDiffers
<1>4. (p \in X <=> F[p].cwd = s) /\ (p \in Y <=> G[p].cwd = s)
  BY <1>1
<1> QED
  BY <1>1, <1>3, <1>4 DEF Cwds, Bit

IsOpen(e, s) == e.ref > 0 /\ e.type = "inode" /\ e.ip = s
OtherFiles(F, G, s, f) == \A h \in Files : h # f => (IsOpen(F[h], s) <=> IsOpen(G[h], s))

\* The files open on an entry, when one file changes.
LEMMA OpensChange ==
  ASSUME NEW F, NEW G, NEW s, NEW f \in Files, OtherFiles(F, G, s, f)
  PROVE  /\ Opens(G, s) = Opens(F, s) + Bit(IsOpen(G[f], s)) - Bit(IsOpen(F[f], s))
         /\ Opens(F, s) \in Nat
<1>1. PICK X, Y : X = {h \in Files : IsOpen(F[h], s)} /\ Y = {h \in Files : IsOpen(G[h], s)}
  OBVIOUS
<1>2. X \in SUBSET Files /\ Y \in SUBSET Files /\ \A h \in Files : h # f => (h \in X <=> h \in Y)
  BY <1>1 DEF OtherFiles
<1>3. Cardinality(X) \in Nat /\ Cardinality(Y) = Cardinality(X) + Bit(f \in Y) - Bit(f \in X)
  BY <1>2, Finite, OneDiffers
<1>4. (f \in X <=> IsOpen(F[f], s)) /\ (f \in Y <=> IsOpen(G[f], s))
  BY <1>1
<1>5. Opens(F, s) = Cardinality(X) /\ Opens(G, s) = Cardinality(Y)
  BY <1>1 DEF Opens, IsOpen
<1> QED
  BY <1>3, <1>4, <1>5 DEF Bit

\* They are as many where the same files are open on it.
LEMMA OpensSame ==
  ASSUME NEW F, NEW G, NEW s, \A h \in Files : IsOpen(F[h], s) <=> IsOpen(G[h], s)
  PROVE  Opens(G, s) = Opens(F, s) /\ Opens(F, s) \in Nat
<1>1. PICK X : X = {h \in Files : IsOpen(F[h], s)}
  OBVIOUS
<1>2. Opens(F, s) = Cardinality(X) /\ Opens(G, s) = Cardinality(X)
  BY <1>1 DEF Opens, IsOpen
<1>3. X \in SUBSET Files
  BY <1>1
<1> QED
  BY <1>2, <1>3, Finite, FS_Subset, FS_CardinalityType

\* The descriptors of one process change.
LEMMA DescsChange ==
  ASSUME NEW F, NEW G, NEW f, NEW p \in Procs,
         \A q \in Procs : q # p => \A d \in Fds : F[q].ofile[d] = f <=> G[q].ofile[d] = f
  PROVE  /\ Descs(G, f) = Descs(F, f) + FdCount(G[p].ofile, f) - FdCount(F[p].ofile, f)
         /\ Descs(F, f) \in Nat
<1>1. PICK A, B : A = Procs /\ B = Fds
  OBVIOUS
<1>2. PICK R, S : R = [q \in Procs |-> F[q].ofile] /\ S = [q \in Procs |-> G[q].ofile]
  OBVIOUS
<1>3. \A q \in A : q # p => \A d \in B : R[q][d] = f <=> S[q][d] = f
  BY <1>1, <1>2
<1>4. Cardinality(Marked(S, A, B, f)) =
        Cardinality(Marked(R, A, B, f)) + Cardinality(InRow(S[p], B, f))
                                        - Cardinality(InRow(R[p], B, f))
  <2>1. SameRows(R, S, A, B, f, p)
    BY <1>3 DEF SameRows
  <2> QED
    BY <1>1, <2>1, Finite, RowChanges
<1>5. Marked(S, A, B, f) = {pd \in Procs \X Fds : G[pd[1]].ofile[pd[2]] = f}
  BY <1>1, <1>2 DEF Marked
<1>6. Marked(R, A, B, f) = {pd \in Procs \X Fds : F[pd[1]].ofile[pd[2]] = f}
  BY <1>1, <1>2 DEF Marked
<1>7. Descs(G, f) = Cardinality(Marked(S, A, B, f)) /\ Descs(F, f) = Cardinality(Marked(R, A, B, f))
  BY <1>5, <1>6 DEF Descs
<1>8. Descs(F, f) \in Nat
  <2>1. IsFiniteSet(A \X B)
    BY <1>1, Finite, FS_Product
  <2>2. Marked(R, A, B, f) \in SUBSET (A \X B)
    BY DEF Marked
  <2> QED
    BY <1>7, <2>1, <2>2, FS_Subset, FS_CardinalityType
<1>9. /\ Cardinality(InRow(S[p], B, f)) = FdCount(G[p].ofile, f)
      /\ Cardinality(InRow(R[p], B, f)) = FdCount(F[p].ofile, f)
  BY <1>1, <1>2 DEF InRow, FdCount
<1> QED
  BY <1>4, <1>7, <1>8, <1>9

-----------------------------------------------------------------------------
(* The inductive invariant                                                 *)

KernFields == {"pc", "path", "parent", "then", "else", "at", "ip", "dp", "name", "put", "after",
               "ret", "words"}
UserFields == {"st", "parent", "prog", "seen", "ofile", "cwd", "inop"}
FileFields == {"type", "ref", "ip", "off", "readable", "writable", "pipe"}

IsKern(k, texts) ==
  /\ k = [x \in KernFields |-> k[x]]
  /\ k.at \in Ptr /\ k.ip \in Ptr /\ k.dp \in Ptr /\ k.put \in Ptr
  /\ k.words \in Seq(texts)
IsUser(u, calls) ==
  /\ u = [x \in UserFields |-> u[x]]
  /\ u.ofile \in [Fds -> Files \cup {None}] /\ u.cwd \in Ptr
  /\ u.prog \in Seq(calls)
IsFile(e) ==
  /\ e = [x \in FileFields |-> e[x]]
  /\ e.ref \in Int /\ e.ip \in Ptr
  /\ e.ref = 0 => e.type # "inode"
  /\ e.type = "inode" => e.ip # None
  /\ e.type = "pipe" => e.pipe \in Files

\* The place where a call is, that iput goes on to included.
Iputs    == {"iput", "iputFree", "iputClear", "iputUnref"}
Place(k) == IF k.pc \in Iputs THEN k.after ELSE k.pc

\* Where there is an ip, and where there is a dp.
WithIp == {"open", "createOld", "openCreated", "created", "chdir", "exec", "link", "linkNew", "linked",
           "linkBad", "unlinkDone", "chdirSet", "createInit", "unlinkInode", "linkDir", "linkExists"}
WithDp == {"create", "unlink", "createAlloc", "createInit", "unlinkInode", "linkDir", "linkExists",
           "unlinkBad"}
Without == {"user", "return", "fail", "exitNext", "exited"}

\* The walks of namex, by where they lead.
Walks(k) ==
  \/ k.else = "fail" /\ ~k.parent /\ k.then \in {"open", "link", "chdir", "exec"}
  \/ k.else = "fail" /\ k.parent /\ k.then \in {"create", "unlink"}
  \/ k.else = "linkBad" /\ k.parent /\ k.then = "linkDir"
PtrInv(k) ==
  /\ Place(k) \in {"walk"} \cup WithIp \cup WithDp \cup Without
  /\ k.put # None <=> k.pc \in Iputs
  /\ k.at # None <=> Place(k) = "walk"
  /\ k.ip # None <=> Place(k) \in WithIp \/ (Place(k) = "walk" /\ k.else = "linkBad")
  /\ k.dp # None <=> Place(k) \in WithDp
  /\ Place(k) = "walk" => Walks(k)

\* What is locked.
HoldsIp  == {"openCreated", "created", "unlinkDone"}
HoldsDp  == {"createAlloc", "createInit", "unlinkInode", "unlinkBad", "linkExists"}
Frees    == {"iputFree", "iputClear"}
Below(k) == (IF Place(k) \in HoldsIp THEN {k.ip} ELSE {})
         \cup (IF Place(k) \in HoldsDp THEN {k.dp} ELSE {})
Holds(k) == Below(k) \cup (IF k.pc \in Frees THEN {k.put} ELSE {})

ProcInv(u, k) ==
  /\ PtrInv(k)
  /\ k.pc \in Frees => k.put \notin Below(k)
  /\ u.cwd # None <=> u.st = "running" /\ Place(k) \notin {"chdirSet", "exited"}
  /\ k.pc \notin {"user", "exitNext"} => u.inop /\ u.st = "running"
  /\ k.pc = "exitNext" => u.st = "running"
  /\ u.st # "running" \/ Place(k) = "exited" => \A d \in Fds : u.ofile[d] = None
  /\ Place(k) \notin {"user", "exitNext", "exited"} => u.prog # <<>>

LockInv == \A s \in Slots, p \in Procs : fs.icache[s].lock = p <=> s \in Holds(kern[p])

Shapes(calls, texts) ==
  /\ IsSystem(fs)
  /\ ftable = [f \in Files |-> ftable[f]] /\ \A f \in Files : IsFile(ftable[f])
  /\ user = [p \in Procs |-> user[p]] /\ \A p \in Procs : IsUser(user[p], calls)
  /\ kern = [p \in Procs |-> kern[p]] /\ \A p \in Procs : IsKern(kern[p], texts)
Refs ==
  /\ \A s \in Slots : fs.icache[s].ref = Opens(ftable, s) + Cwds(user, s) + Ptrs(kern, s)
  /\ \A f \in Files : ftable[f].ref = Descs(user, f)
UpInv == LockInv /\ \A p \in Procs : ProcInv(user[p], kern[p])
Inv(calls, texts) ==
  /\ Shapes(calls, texts) /\ Refs /\ Once(fs) /\ IputInTransaction
  /\ Up => UpInv

\* What process p, and nobody else, does to the pointers to entries and files.
Balance(p) ==
  /\ \A s \in Slots :
       fs'.icache[s].ref = fs.icache[s].ref + Opens(ftable', s) - Opens(ftable, s)
                           + Bit(user'[p].cwd = s) - Bit(user[p].cwd = s)
                           + PtrCount(kern'[p], s) - PtrCount(kern[p], s)
  /\ \A f \in Files :
       ftable'[f].ref = ftable[f].ref + FdCount(user'[p].ofile, f) - FdCount(user[p].ofile, f)
Others(p) ==
  \A q \in Procs : q # p =>
    /\ user'[q].ofile = user[q].ofile /\ user'[q].cwd = user[q].cwd
    /\ \A x \in PtrFields : kern'[q][x] = kern[q][x]

\* A step in whose balance each count gains what the process's pointers gain keeps the
\* counts right.
LEMMA RefsKept ==
  ASSUME Refs, NEW p \in Procs, Balance(p), Others(p)
  PROVE  Refs'
<1>1. ASSUME NEW s \in Slots
      PROVE  fs'.icache[s].ref = Opens(ftable', s) + Cwds(user', s) + Ptrs(kern', s)
  <2>1. /\ Ptrs(kern', s) = Ptrs(kern, s) + PtrCount(kern'[p], s) - PtrCount(kern[p], s)
        /\ Ptrs(kern, s) \in Nat
    <3>1. \A q \in Procs : q # p => \A x \in PtrFields : kern[q][x] = s <=> kern'[q][x] = s
      BY DEF Others
    <3> QED
      BY <3>1, PtrsChange
  <2>2. /\ Cwds(user', s) = Cwds(user, s) + Bit(user'[p].cwd = s) - Bit(user[p].cwd = s)
        /\ Cwds(user, s) \in Nat
    <3>1. PICK F, G : F = user /\ G = user'
      OBVIOUS
    <3>2. SameCwds(F, G, s, p)
      BY <3>1 DEF Others, SameCwds
    <3>3. /\ Cwds(G, s) = Cwds(F, s) + Bit(G[p].cwd = s) - Bit(F[p].cwd = s)
          /\ Cwds(F, s) \in Nat
      BY <3>2, CwdsChange
    <3> QED
      BY <3>1, <3>3
  <2>3. Opens(ftable, s) \in Nat /\ Opens(ftable', s) \in Nat
    BY OpensSame
  <2>4. fs'.icache[s].ref = fs.icache[s].ref + Opens(ftable', s) - Opens(ftable, s)
                           + Bit(user'[p].cwd = s) - Bit(user[p].cwd = s)
                           + PtrCount(kern'[p], s) - PtrCount(kern[p], s)
    BY DEF Balance
  <2>5. fs.icache[s].ref = Opens(ftable, s) + Cwds(user, s) + Ptrs(kern, s)
    BY DEF Refs
  <2>6. PtrCount(kern[p], s) \in Nat /\ PtrCount(kern'[p], s) \in Nat
    BY DEF PtrCount, Bit
  <2> QED
    BY <2>1, <2>2, <2>3, <2>4, <2>5, <2>6 DEF Bit
<1>2. ASSUME NEW f \in Files PROVE ftable'[f].ref = Descs(user', f)
  <2>1. /\ Descs(user', f) = Descs(user, f) + FdCount(user'[p].ofile, f) - FdCount(user[p].ofile, f)
        /\ Descs(user, f) \in Nat
    <3>1. \A q \in Procs : q # p => \A d \in Fds : user[q].ofile[d] = f <=> user'[q].ofile[d] = f
      BY DEF Others
    <3> QED
      BY <3>1, DescsChange
  <2>2. ftable[f].ref = Descs(user, f)
    BY DEF Refs
  <2>3. ftable'[f].ref = ftable[f].ref + FdCount(user'[p].ofile, f) - FdCount(user[p].ofile, f)
    BY DEF Balance
  <2> QED
    BY <2>1, <2>2, <2>3
<1> QED
  BY <1>1, <1>2 DEF Refs

-----------------------------------------------------------------------------
(* Steps of one process                                                    *)

FilesOK(ft) == ft = [f \in Files |-> ft[f]] /\ \A f \in Files : IsFile(ft[f])

\* From f to g, process p comes to hold the locks that k says, and the others keep theirs.
LocksMove(f, g, p, k) == \A s \in Slots :
  /\ g.icache[s].lock = p <=> s \in Holds(k)
  /\ \A q \in Procs : q # p => (g.icache[s].lock = q <=> f.icache[s].lock = q)

\* What p becomes is right.
Becomes(calls, texts, p, u, k) ==
  /\ user' = [user EXCEPT ![p] = u] /\ kern' = [kern EXCEPT ![p] = k]
  /\ IsUser(u, calls) /\ IsKern(k, texts)
  /\ k.put # None => u.inop
  /\ Up' => ProcInv(u, k)
FsBecomes(p, k) ==
  /\ IsSystem(fs') /\ Once(fs')
  /\ Up' => LocksMove(fs, fs', p, k)

\* A step of one process with what it has to show of itself, the file system, the files
\* and the balance keeps the invariant.
LEMMA StepKeeps ==
  ASSUME NEW calls, NEW texts, Inv(calls, texts), Up, NEW p \in Procs, NEW u, NEW k,
         Becomes(calls, texts, p, u, k), FsBecomes(p, k), FilesOK(ftable'), Balance(p)
  PROVE  Inv(calls, texts)'
<1>1. /\ user = [q \in Procs |-> user[q]] /\ \A q \in Procs : IsUser(user[q], calls)
      /\ kern = [q \in Procs |-> kern[q]] /\ \A q \in Procs : IsKern(kern[q], texts)
  BY DEF Inv, Shapes
<1>2. /\ user' = [user EXCEPT ![p] = u] /\ kern' = [kern EXCEPT ![p] = k]
      /\ IsUser(u, calls) /\ IsKern(k, texts)
  BY DEF Becomes
<1>3. /\ user'[p] = u /\ \A q \in Procs : q # p => user'[q] = user[q]
      /\ kern'[p] = k /\ \A q \in Procs : q # p => kern'[q] = kern[q]
  BY <1>1, <1>2
<1>4. /\ user' = [q \in Procs |-> user'[q]] /\ \A q \in Procs : IsUser(user'[q], calls)
      /\ kern' = [q \in Procs |-> kern'[q]] /\ \A q \in Procs : IsKern(kern'[q], texts)
  <2>1. user' = [q \in Procs |-> user'[q]] /\ kern' = [q \in Procs |-> kern'[q]]
    BY <1>1, <1>2
  <2> QED
    BY <1>1, <1>2, <1>3, <2>1
<1>5. Shapes(calls, texts)'
  BY <1>4 DEF Shapes, FsBecomes, FilesOK
<1>6. Refs'
  <2>1. Others(p)
    BY <1>3 DEF Others
  <2> QED
    BY <2>1, RefsKept DEF Inv
<1>7. IputInTransaction'
  <2>1. ASSUME NEW q \in Procs PROVE kern'[q].put # None => user'[q].inop
    BY <1>3 DEF Becomes, Inv, IputInTransaction
  <2> QED
    BY <2>1 DEF IputInTransaction
<1>8. Up' => UpInv'
  <2> SUFFICES ASSUME Up' PROVE UpInv'
    OBVIOUS
  <2>1. LockInv /\ \A q \in Procs : ProcInv(user[q], kern[q])
    BY DEF Inv, UpInv
  <2>2. \A q \in Procs : ProcInv(user'[q], kern'[q])
    BY <1>3, <2>1 DEF Becomes
  <2>3. ASSUME NEW s \in Slots, NEW q \in Procs
        PROVE  fs'.icache[s].lock = q <=> s \in Holds(kern'[q])
    <3>1. LocksMove(fs, fs', p, k)
      BY DEF FsBecomes
    <3>2. CASE q = p
      BY <1>3, <3>1, <3>2 DEF LocksMove
    <3>3. CASE q # p
      BY <1>3, <2>1, <3>1, <3>3 DEF LocksMove, LockInv
    <3> QED
      BY <3>2, <3>3
  <2> QED
    BY <2>2, <2>3 DEF UpInv, LockInv
<1> QED
  BY <1>5, <1>6, <1>7, <1>8 DEF Inv, FsBecomes

\* Files and descriptors stay as they are.
RefsMove(p, u, k) == \A s \in Slots :
  fs'.icache[s].ref = fs.icache[s].ref + Bit(u.cwd = s) - Bit(user[p].cwd = s)
                      + PtrCount(k, s) - PtrCount(kern[p], s)

\* A step that leaves files and descriptors alone, and moves counts as its pointers.
LEMMA FilesStay ==
  ASSUME NEW calls, NEW texts, Inv(calls, texts), Up, NEW p \in Procs, NEW u, NEW k,
         Becomes(calls, texts, p, u, k), FsBecomes(p, k),
         ftable' = ftable, u.ofile = user[p].ofile, RefsMove(p, u, k)
  PROVE  Inv(calls, texts)'
<1>1. FilesOK(ftable')
  BY DEF Inv, Shapes, FilesOK
<1>2. user'[p] = u /\ kern'[p] = k
  BY DEF Becomes, Inv, Shapes
<1>3. Balance(p)
  <2>1. \A s \in Slots : Opens(ftable, s) \in Nat /\ fs.icache[s].ref \in Int
    BY OpensSame DEF Inv, Shapes, IsSystem, IsEntry
  <2>2. \A f \in Files : ftable[f].ref \in Int
    BY DEF Inv, Shapes, IsFile
  <2>3. ASSUME NEW s \in Slots
        PROVE fs'.icache[s].ref = fs.icache[s].ref + Opens(ftable', s) - Opens(ftable, s)
                           + Bit(user'[p].cwd = s) - Bit(user[p].cwd = s)
                           + PtrCount(kern'[p], s) - PtrCount(kern[p], s)
    <3>1. fs'.icache[s].ref = fs.icache[s].ref + Bit(user'[p].cwd = s) - Bit(user[p].cwd = s)
                              + PtrCount(kern'[p], s) - PtrCount(kern[p], s)
      BY <1>2 DEF RefsMove
    <3>2. PtrCount(kern'[p], s) \in Nat /\ PtrCount(kern[p], s) \in Nat
      BY DEF PtrCount, Bit
    <3> QED
      BY <2>1, <3>1, <3>2 DEF Bit
  <2>4. ASSUME NEW f \in Files
        PROVE ftable'[f].ref = ftable[f].ref + FdCount(user'[p].ofile, f) - FdCount(user[p].ofile, f)
    <3>1. FdCount(user[p].ofile, f) \in Nat
      <4>1. {d \in Fds : user[p].ofile[d] = f} \in SUBSET Fds
        OBVIOUS
      <4> QED
        BY <4>1, Finite, FS_Subset, FS_CardinalityType DEF FdCount
    <3> QED
      BY <1>2, <2>2, <3>1
  <2> QED
    BY <2>3, <2>4 DEF Balance
<1> QED
  BY <1>1, <1>3, StepKeeps

\* A panic, before the process has done anything.
LEMMA PanicKeeps ==
  ASSUME NEW calls, NEW texts, Inv(calls, texts), Up, NEW p \in Procs,
         IsSystem(fs'), fs'.panic # "",
         \A s \in Slots : fs'.icache[s].ref = fs.icache[s].ref /\ fs'.icache[s].inum = fs.icache[s].inum,
         UNCHANGED <<ftable, user, kern>>
  PROVE  Inv(calls, texts)'
<1>1. Once(fs')
  BY DEF Inv, Once
<1>2. Refs'
  BY ZenonT(60) DEF Inv, Refs, Opens, Cwds, Ptrs, Descs
<1>3. Shapes(calls, texts)'
  BY DEF Inv, Shapes
<1>4. IputInTransaction'
  BY DEF Inv, IputInTransaction
<1>5. ~Up'
  BY DEF Up
<1> QED
  BY <1>1, <1>2, <1>3, <1>4, <1>5 DEF Inv

-----------------------------------------------------------------------------
(* Locks                                                                   *)

\* What is known of a process that is about to make a step.
Ready(calls, texts, p) ==
  /\ Up /\ IsSystem(fs) /\ Once(fs)
  /\ IsKern(kern[p], texts) /\ IsUser(user[p], calls) /\ ProcInv(user[p], kern[p])
  /\ LockInv

\* What the invariant says of a process that is about to step.
LEMMA IsReady ==
  ASSUME NEW calls, NEW texts, Inv(calls, texts), Up, NEW p \in Procs
  PROVE  Ready(calls, texts, p)
BY DEF Inv, Shapes, UpInv, Ready

\* The sets of processes, entries, files and descriptors are sets of numbers without
\* None.
LEMMA Constants ==
  /\ None \notin Procs /\ None \notin Slots /\ None \notin Files
  /\ Slots \in SUBSET Nat /\ Procs \in SUBSET Nat /\ Files \in SUBSET Nat /\ Fds \in SUBSET Nat
BY DEF None, Procs, Slots, Files, Fds

\* No lock moves, and the process keeps what it holds.
LEMMA LocksStay ==
  ASSUME LockInv, NEW p \in Procs, NEW g, NEW k, SameLocks(fs, g), Holds(k) = Holds(kern[p])
  PROVE  LocksMove(fs, g, p, k)
BY DEF LocksMove, LockInv, SameLocks

\* The process has taken a free lock.
LEMMA LockTaken ==
  ASSUME LockInv, NEW p \in Procs, NEW g, NEW k, NEW t, LockSet(fs, g, t, p),
         LockFree(fs, t), Holds(k) = Holds(kern[p]) \cup {t}
  PROVE  LocksMove(fs, g, p, k)
<1>1. ASSUME NEW s \in Slots PROVE g.icache[s].lock = p <=> s \in Holds(k)
  BY DEF LockInv, LockSet
<1>2. ASSUME NEW s \in Slots, NEW q \in Procs, q # p
      PROVE  g.icache[s].lock = q <=> fs.icache[s].lock = q
  BY <1>2, Constants DEF LockSet, LockFree
<1> QED
  BY <1>1, <1>2 DEF LocksMove

\* The process has given back a lock.
LEMMA LockGiven ==
  ASSUME LockInv, NEW p \in Procs, NEW g, NEW k, NEW t, LockSet(fs, g, t, None),
         t \in Holds(kern[p]), Holds(k) = Holds(kern[p]) \ {t}
  PROVE  LocksMove(fs, g, p, k)
<1>1. ASSUME NEW s \in Slots PROVE g.icache[s].lock = p <=> s \in Holds(k)
  BY <1>1, Constants DEF LockInv, LockSet
<1>2. ASSUME NEW s \in Slots, NEW q \in Procs, q # p
      PROVE  g.icache[s].lock = q <=> fs.icache[s].lock = q
  BY <1>2, Constants DEF LockSet, LockInv
<1> QED
  BY <1>1, <1>2 DEF LocksMove

\* Taken and given back, with or without changes to what is cached between.
Visits(f, g) ==
  /\ IsSystem(g)
  /\ \A t \in Slots : /\ g.icache[t].inum = f.icache[t].inum
                      /\ g.icache[t].ref = f.icache[t].ref
  /\ g.panic = "" => SameLocks(f, g)
  /\ Once(f) => Once(g)

\* A lock that is taken and given back within a step.
LEMMA LockVisit ==
  ASSUME NEW f, NEW s \in Slots, NEW p, LockFree(f, s), NEW h, LockMoves(f, h, s, p),
         NEW h1, Same(h, h1)
  PROVE  Visits(f, Iunlock(h1, s))
<1>1. PICK g : g = Iunlock(h1, s)
  OBVIOUS
<1>2. /\ IsSystem(h1) /\ (h.panic # "" => h1.panic # "")
      /\ \A t \in Slots : /\ h1.icache[t].inum = f.icache[t].inum
                          /\ h1.icache[t].ref = f.icache[t].ref
                          /\ h1.icache[t].lock = h.icache[t].lock
  BY DEF LockMoves, Same
<1>3. LockMoves(h1, g, s, None) /\ g.panic = h1.panic
  BY <1>1, <1>2, IunlockIs
<1>4. g.panic = "" => SameLocks(f, g)
  BY <1>2, <1>3 DEF SameLocks, LockFree, LockMoves, LockSet
<1>5. \A t \in Slots : /\ g.icache[t].inum = f.icache[t].inum
                      /\ g.icache[t].ref = f.icache[t].ref
  BY <1>2, <1>3 DEF LockMoves
<1>6. Once(f) => Once(g)
  BY <1>5 DEF Once
<1>7. IsSystem(g)
  BY <1>3 DEF LockMoves
<1> QED
  BY <1>1, <1>4, <1>5, <1>6, <1>7 DEF Visits

\* A call on its way to iput.
LEMMA IputIs ==
  ASSUME NEW texts, NEW k, IsKern(k, texts), NEW s \in Ptr, NEW after
  PROVE  /\ IsKern(Iput(k, s, after), texts)
         /\ Iput(k, s, after).pc = "iput" /\ Iput(k, s, after).put = s
         /\ Iput(k, s, after).after = after /\ Iput(k, s, after).at = k.at
         /\ Iput(k, s, after).ip = k.ip /\ Iput(k, s, after).dp = k.dp
         /\ Iput(k, s, after).then = k.then /\ Iput(k, s, after).else = k.else
         /\ Iput(k, s, after).parent = k.parent
BY DEF Iput, IsKern, KernFields

\* A call with one of its pointers replaced.
LEMMA DropIs ==
  ASSUME NEW texts, NEW k, IsKern(k, texts), NEW s \in Ptr, NEW e
  PROVE  /\ e = [k EXCEPT !.at = s] => 
              /\ IsKern(e, texts) /\ e.at = s /\ e.ip = k.ip /\ e.dp = k.dp /\ e.put = k.put
              /\ e.then = k.then /\ e.else = k.else /\ e.parent = k.parent /\ e.pc = k.pc
         /\ e = [k EXCEPT !.ip = s] => 
              /\ IsKern(e, texts) /\ e.at = k.at /\ e.ip = s /\ e.dp = k.dp /\ e.put = k.put
              /\ e.then = k.then /\ e.else = k.else /\ e.parent = k.parent /\ e.pc = k.pc
         /\ e = [k EXCEPT !.dp = s] => 
              /\ IsKern(e, texts) /\ e.at = k.at /\ e.ip = k.ip /\ e.dp = s /\ e.put = k.put
              /\ e.then = k.then /\ e.else = k.else /\ e.parent = k.parent /\ e.pc = k.pc
BY DEF IsKern, KernFields

Total(u, k, s) == Bit(u.cwd = s) + PtrCount(k, s)
SameTotals(p, u, k) == \A s \in Slots : Total(u, k, s) = Total(user[p], kern[p], s)

\* A step in which p has as many pointers as before.
LEMMA SameRefs ==
  ASSUME NEW calls, NEW texts, Inv(calls, texts), Up, NEW p \in Procs, NEW u, NEW k,
         Becomes(calls, texts, p, u, k), ftable' = ftable, u.ofile = user[p].ofile,
         SameTotals(p, u, k), FsBecomes(p, k),
         \A s \in Slots : fs'.icache[s].ref = fs.icache[s].ref
  PROVE  Inv(calls, texts)'
<1>1. RefsMove(p, u, k)
  <2>1. ASSUME NEW s \in Slots
        PROVE  fs'.icache[s].ref = fs.icache[s].ref + Bit(u.cwd = s) - Bit(user[p].cwd = s)
                      + PtrCount(k, s) - PtrCount(kern[p], s)
    <3>1. PtrCount(k, s) \in Nat /\ PtrCount(kern[p], s) \in Nat
      BY CountType
    <3>2. Bit(u.cwd = s) + PtrCount(k, s) = Bit(user[p].cwd = s) + PtrCount(kern[p], s)
      BY DEF SameTotals, Total
    <3>3. fs.icache[s].ref \in Int
      BY RefType DEF Inv, Shapes
    <3>4. Bit(u.cwd = s) \in Nat /\ Bit(user[p].cwd = s) \in Nat
      BY DEF Bit
    <3> QED
      BY <3>1, <3>2, <3>3, <3>4
  <2> QED
    BY <2>1 DEF RefsMove
<1> QED
  BY <1>1, FilesStay

\* A step that visits inodes, with the same pointers and locks after it.
LEMMA Visiting ==
  ASSUME NEW calls, NEW texts, Inv(calls, texts), Up, NEW p \in Procs, NEW u, NEW k,
         Becomes(calls, texts, p, u, k), ftable' = ftable, u.ofile = user[p].ofile,
         SameTotals(p, u, k), Visits(fs, fs'), Holds(k) = Holds(kern[p])
  PROVE  Inv(calls, texts)'
<1>1. FsBecomes(p, k)
  BY LocksStay DEF FsBecomes, Visits, Inv, UpInv, Up
<1> QED
  BY <1>1, SameRefs DEF Visits

\* A step that ends with one lock more.
LEMMA Locking ==
  ASSUME NEW calls, NEW texts, Inv(calls, texts), Up, NEW p \in Procs, NEW u, NEW k,
         Becomes(calls, texts, p, u, k), ftable' = ftable, u.ofile = user[p].ofile,
         SameTotals(p, u, k), NEW s \in Slots, LockFree(fs, s), LockMoves(fs, fs', s, p),
         Holds(k) = Holds(kern[p]) \cup {s}
  PROVE  Inv(calls, texts)'
<1>1. FsBecomes(p, k)
  BY LockTaken, LockMovesOnce DEF FsBecomes, LockMoves, Inv, UpInv, Up
<1> QED
  BY <1>1, SameRefs DEF LockMoves

\* A step that gives back a lock.
LEMMA Unlocking ==
  ASSUME NEW calls, NEW texts, Inv(calls, texts), Up, NEW p \in Procs, NEW u, NEW k,
         Becomes(calls, texts, p, u, k), ftable' = ftable, u.ofile = user[p].ofile,
         SameTotals(p, u, k), NEW s \in Slots, LockMoves(fs, fs', s, None),
         s \in Holds(kern[p]), Holds(k) = Holds(kern[p]) \ {s}
  PROVE  Inv(calls, texts)'
<1>1. FsBecomes(p, k)
  BY LockGiven, LockMovesOnce DEF FsBecomes, LockMoves, Inv, UpInv, Up
<1> QED
  BY <1>1, SameRefs DEF LockMoves

\* What moves no counts or locks is a visit.
LEMMA SameVisits == ASSUME NEW f, NEW g, Same(f, g) PROVE Visits(f, g)
BY ZenonT(60) DEF Same, Visits, SameLocks, Once

\* Work on copies, then a lock.
LEMMA SameThenLock ==
  ASSUME NEW f, NEW g, NEW h, NEW s, NEW l, Same(f, g), LockMoves(g, h, s, l)
  PROVE  LockMoves(f, h, s, l)
BY DEF Same, LockMoves, LockSet

\* A lock, then work on copies.
LEMMA LockThenSame ==
  ASSUME NEW f, NEW g, NEW h, NEW s, NEW l, LockMoves(f, g, s, l), Same(g, h)
  PROVE  LockMoves(f, h, s, l)
BY DEF Same, LockMoves, LockSet

\* A step in the kernel.
LEMMA KernStep ==
  ASSUME NEW calls, NEW texts, Inv(calls, texts), NEW p \in Procs, NEW k, Step(p, k),
         user' = user, IsKern(k, texts), user[p].inop, Up' => ProcInv(user[p], k)
  PROVE  Becomes(calls, texts, p, user[p], k)
<1>1. IsUser(user[p], calls) /\ user' = [user EXCEPT ![p] = user[p]]
  BY DEF Inv, Shapes
<1> QED
  BY <1>1 DEF Becomes, Step

PtrsMove(p, k) == \A s \in Slots :
  fs'.icache[s].ref = fs.icache[s].ref + PtrCount(k, s) - PtrCount(kern[p], s)

\* A step that changes a call's pointers, and counts as they.
LEMMA KernRefs ==
  ASSUME NEW calls, NEW texts, Inv(calls, texts), Up, NEW p \in Procs, NEW k,
         Becomes(calls, texts, p, user[p], k), ftable' = ftable, FsBecomes(p, k), PtrsMove(p, k)
  PROVE  Inv(calls, texts)'
<1>1. RefsMove(p, user[p], k)
  <2>1. \A s \in Slots : fs.icache[s].ref \in Int
    BY RefType DEF Inv, Shapes
  <2> QED
    BY <2>1, CountType DEF RefsMove, PtrsMove, Bit
<1> QED
  BY <1>1, FilesStay

-----------------------------------------------------------------------------
(* Steps of namex and iput                                                 *)

\* Walk keeps the invariant: it drops the directory for what it has found in it.
LEMMA WalkKeeps ==
  ASSUME NEW calls, NEW texts, Inv(calls, texts), NEW p \in Procs, Walk(p)
  PROVE  Inv(calls, texts)'
<1>1. At(p, "walk") /\ UNCHANGED <<ftable, user>>
  BY DEF Walk
<1>2. PICK k : k = kern[p]
  OBVIOUS
<1>3. Up /\ k.pc = "walk" /\ Ready(calls, texts, p)
  BY <1>1, <1>2, IsReady DEF At
<1>4. /\ IsKern(k, texts) /\ ProcInv(user[p], k) /\ LockInv /\ IsSystem(fs) /\ Once(fs)
      /\ Place(k) = "walk" /\ Walks(k) /\ user[p].inop
      /\ k.at \in Slots /\ k.put = None /\ k.dp = None
      /\ (k.ip # None <=> k.else = "linkBad") /\ Holds(k) = {}
  <2>1. Place(k) = "walk" /\ Holds(k) = {}
    BY <1>3 DEF Place, Iputs, Holds, Below, Frees, HoldsIp, HoldsDp
  <2>2. IsKern(k, texts) /\ ProcInv(user[p], k) /\ LockInv /\ IsSystem(fs) /\ Once(fs)
    BY <1>2, <1>3 DEF Ready
  <2>3. k.put = None /\ k.at # None /\ k.dp = None
    BY <1>3, <2>1, <2>2 DEF ProcInv, PtrInv, Iputs, WithDp
  <2>4. k.ip # None <=> k.else = "linkBad"
    BY <1>3, <2>1, <2>2 DEF ProcInv, PtrInv, WithIp
  <2> QED
    BY <1>3, <2>1, <2>2, <2>3, <2>4 DEF ProcInv, PtrInv, IsKern, Ptr

\* The walk ends without an inode.
<1>5. PICK l : l = Iput([k EXCEPT !.at = None], k.at, k.else)
  OBVIOUS
<1>6. /\ IsKern(l, texts) /\ ProcInv(user[p], l) /\ Holds(l) = {}
      /\ \A s \in Slots : PtrCount(l, s) = PtrCount(k, s)
  <2>1. PICK e : e = [k EXCEPT !.at = None]
    OBVIOUS
  <2>2. /\ IsKern(e, texts) /\ e.at = None /\ e.ip = k.ip /\ e.dp = k.dp /\ e.put = k.put
        /\ e.then = k.then /\ e.else = k.else /\ e.parent = k.parent
    BY <1>4, <2>1, DropIs DEF Ptr
  <2>3. /\ IsKern(l, texts) /\ l.pc = "iput" /\ l.put = k.at /\ l.after = k.else /\ l.at = None
        /\ l.ip = k.ip /\ l.dp = None
    <3>1. l = Iput(e, k.at, k.else) /\ k.at \in Ptr
      BY <1>4, <1>5, <2>1 DEF Ptr
    <3> QED
      BY <1>4, <2>2, <3>1, IputIs
  <2>4. k.else \in {"fail", "linkBad"} /\ Place(l) = k.else
    BY <1>4, <2>3 DEF Walks, Place, Iputs
  <2>5. PtrInv(l)
    BY <1>4, <2>3, <2>4, Constants DEF PtrInv, Iputs, WithIp, WithDp, Without
  <2>6. ProcInv(user[p], l)
    BY <1>3, <1>4, <2>3, <2>4, <2>5 DEF ProcInv, Frees
  <2>7. Holds(l) = {}
    BY <2>3, <2>4 DEF Holds, Below, Frees, HoldsIp, HoldsDp
  <2> QED
    BY <1>4, <2>3, <2>6, <2>7, Constants DEF PtrCount, Bit

\* The walk ends with one.
<1>7. ASSUME NEW name
      PROVE  /\ IsKern(NamexFound(k, name), texts) /\ ProcInv(user[p], NamexFound(k, name))
             /\ Holds(NamexFound(k, name)) = {}
             /\ \A s \in Slots : PtrCount(NamexFound(k, name), s) = PtrCount(k, s)
  <2>1. PICK e : e = NamexFound(k, name)
    OBVIOUS
  <2>2. CASE k.parent
    <3>1. e = [k EXCEPT !.pc = k.then, !.dp = k.at, !.at = None, !.name = name, !.path = NoPath]
      BY <2>1, <2>2 DEF NamexFound
    <3>2. /\ IsKern(e, texts) /\ e.pc = k.then /\ e.dp = k.at /\ e.at = None /\ e.put = None
          /\ e.ip = k.ip
      BY <1>4, <3>1 DEF IsKern, KernFields, Ptr
    <3>3. /\ \/ k.then = "linkDir" /\ k.else = "linkBad"
             \/ k.then \in {"create", "unlink"} /\ k.else = "fail"
          /\ Place(e) = k.then
      BY <1>4, <2>2, <3>2 DEF Walks, Place, Iputs
    <3>4. PtrInv(e)
      BY <1>4, <3>2, <3>3, Constants DEF PtrInv, Iputs, WithIp, WithDp, Without
    <3>5. ProcInv(user[p], e)
      BY <1>3, <1>4, <3>2, <3>3, <3>4 DEF ProcInv, Frees, Iputs, WithIp, WithDp, Without
    <3>6. Holds(e) = {}
      BY <3>2, <3>3 DEF Holds, Below, Frees, HoldsIp, HoldsDp
    <3> QED
      BY <1>4, <2>1, <3>2, <3>5, <3>6, Constants DEF PtrCount, Bit
  <2>3. CASE ~k.parent
    <3>1. e = [k EXCEPT !.pc = k.then, !.ip = k.at, !.at = None, !.path = NoPath]
      BY <2>1, <2>3 DEF NamexFound
    <3>2. /\ IsKern(e, texts) /\ e.pc = k.then /\ e.ip = k.at /\ e.at = None /\ e.put = None
          /\ e.dp = None
      BY <1>4, <3>1 DEF IsKern, KernFields, Ptr
    <3>3. k.then \in {"open", "link", "chdir", "exec"} /\ k.else = "fail" /\ Place(e) = k.then
      BY <1>4, <2>3, <3>2 DEF Walks, Place, Iputs
    <3>4. PtrInv(e)
      BY <1>4, <3>2, <3>3, Constants DEF PtrInv, Iputs, WithIp, WithDp, Without
    <3>5. ProcInv(user[p], e)
      BY <1>3, <1>4, <3>2, <3>3, <3>4 DEF ProcInv, Frees, Iputs, WithIp, WithDp, Without
    <3>6. Holds(e) = {}
      BY <3>2, <3>3 DEF Holds, Below, Frees, HoldsIp, HoldsDp
    <3>7. k.ip = None
      BY <1>4, <3>3
    <3> QED
      BY <1>4, <2>1, <3>2, <3>5, <3>6, <3>7, Constants DEF PtrCount, Bit
  <2> QED
    BY <2>2, <2>3
<1>8. ASSUME NEW m, IsKern(m, texts), ProcInv(user[p], m), Holds(m) = {},
             \A s \in Slots : PtrCount(m, s) = PtrCount(k, s), Step(p, m), Visits(fs, fs')
      PROVE  Inv(calls, texts)'
  <2>1. Becomes(calls, texts, p, user[p], m)
    BY <1>1, <1>4, <1>8, KernStep
  <2>2. SameTotals(p, user[p], m)
    BY <1>2, <1>8 DEF SameTotals, Total
  <2> QED
    BY <1>1, <1>2, <1>3, <1>4, <1>8, <2>1, <2>2, Visiting
<1>9. CASE k.path.names = <<>>
  <2>1. fs' = fs /\ Step(p, IF k.parent THEN l ELSE NamexFound(k, ""))
    BY <1>2, <1>5, <1>9 DEF Walk
  <2>2. Visits(fs, fs')
    BY <1>4, <2>1 DEF Visits, SameLocks
  <2>3. CASE k.parent
    BY <1>6, <1>8, <2>1, <2>2, <2>3
  <2>4. CASE ~k.parent
    BY <1>7, <1>8, <2>1, <2>2, <2>4
  <2> QED
    BY <2>3, <2>4
<1>10. CASE k.path.names # <<>>
  <2>1. PICK f, g, name, inum :
          /\ f = Ilock(fs, k.at, p) /\ g = Iunlock(f, k.at) /\ name = Head(k.path.names)
          /\ inum = Dirlookup(f, k.at, name)
    OBVIOUS
  <2>2. /\ LockFree(fs, k.at)
        /\ IF f.panic # "" THEN fs' = f /\ UNCHANGED kern
           ELSE IF f.icache[k.at].copy.type # "dir" THEN fs' = g /\ Step(p, l)
           ELSE IF k.parent /\ Len(k.path.names) = 1
                THEN fs' = g /\ Step(p, NamexFound(k, name))
           ELSE IF inum = None THEN fs' = g /\ Step(p, l)
           ELSE /\ fs' = Iget(g, inum)
                /\ Step(p, Iput([k EXCEPT !.at = SlotFor(g, inum), !.path.names = Tail(@)],
                                k.at, "walk"))
    BY <1>2, <1>5, <1>10, <2>1 DEF Walk
  <2>3. LockMoves(fs, f, k.at, p) /\ IsSystem(f)
    BY <1>4, <2>1, IlockIs, LockMovesOnce
  <2>4. Visits(fs, g)
    BY <1>4, <2>1, <2>2, <2>3, SameItself, LockVisit
  <2>5. CASE f.panic # ""
    BY <1>1, <1>3, <2>2, <2>3, <2>5, PanicKeeps DEF LockMoves
  <2>6. CASE fs' = g /\ Step(p, l)
    BY <1>6, <1>8, <2>4, <2>6
  <2>7. CASE fs' = g /\ Step(p, NamexFound(k, name))
    BY <1>7, <1>8, <2>4, <2>7
  <2>8. CASE /\ fs' = Iget(g, inum)
             /\ Step(p, Iput([k EXCEPT !.at = SlotFor(g, inum), !.path.names = Tail(@)],
                                k.at, "walk"))
    <3>1. PICK t : t = SlotFor(g, inum)
      OBVIOUS
    <3>2. Gains(g, fs', t) /\ t \in Ptr /\ (fs'.panic = "" => t # None)
      BY <2>4, <2>8, <3>1, IgetIs DEF Visits, Ptr
    <3>3. PICK e : e = [k EXCEPT !.at = t, !.path.names = Tail(@)]
      OBVIOUS
    <3>4. IsKern(e, texts) /\ e.at = t /\ e.ip = k.ip /\ e.dp = k.dp /\ e.then = k.then
          /\ e.else = k.else /\ e.parent = k.parent
      BY <1>4, <3>2, <3>3 DEF IsKern, KernFields
    <3>5. PICK m : m = Iput(e, k.at, "walk")
      OBVIOUS
    <3>6. /\ IsKern(m, texts) /\ m.pc = "iput" /\ m.put = k.at /\ m.after = "walk" /\ m.at = t
          /\ m.ip = k.ip /\ m.dp = None /\ m.then = k.then /\ m.else = k.else /\ m.parent = k.parent
      <4>1. k.at \in Ptr
        BY <1>4 DEF Ptr
      <4> QED
        BY <1>4, <3>4, <3>5, <4>1, IputIs
    <3>7. Step(p, m)
      BY <2>8, <3>1, <3>3, <3>5
    <3>8. Place(m) = "walk" /\ Holds(m) = {}
      BY <3>6 DEF Place, Holds, Iputs, Below, Frees, HoldsIp, HoldsDp
    <3>9. Up' => ProcInv(user[p], m)
      <4>1. SUFFICES ASSUME t # None PROVE ProcInv(user[p], m)
        BY <3>2 DEF Up
      <4>2. Walks(m)
        BY <1>4, <3>6 DEF Walks
      <4>3. PtrInv(m)
        BY <1>4, <3>6, <3>8, <4>1, <4>2, Constants DEF PtrInv, Iputs, WithIp, WithDp
      <4> QED
        BY <1>3, <1>4, <3>6, <3>8, <4>3 DEF ProcInv, Frees, Iputs, WithIp, WithDp, Without
    <3>10. FsBecomes(p, m)
      <4>1. Up' => SameLocks(fs, fs')
        BY <2>4, <3>2 DEF Up, Gains, Visits, SameLocks
      <4> QED
        BY <1>2, <1>4, <2>4, <3>2, <3>8, <4>1, LocksStay DEF FsBecomes, Gains, Visits
    <3>11. PtrsMove(p, m)
      <4>1. ASSUME NEW s \in Slots
            PROVE  fs'.icache[s].ref = fs.icache[s].ref + PtrCount(m, s) - PtrCount(k, s)
        <5>1. fs'.icache[s].ref = fs.icache[s].ref + Bit(s = t) /\ fs.icache[s].ref \in Int
          BY <1>4, <2>4, <3>2, RefType DEF Gains, Visits
        <5>2. PtrCount(m, s) = PtrCount(k, s) + Bit(s = t)
          BY <1>4, <3>6, Constants DEF PtrCount, Bit
        <5> QED
          BY <5>1, <5>2 DEF PtrCount, Bit
      <4> QED
        BY <1>2, <4>1 DEF PtrsMove
    <3> QED
      <4>1. Becomes(calls, texts, p, user[p], m)
        BY <1>1, <1>4, <3>6, <3>7, <3>9, KernStep
      <4> QED
        BY <1>1, <1>3, <4>1, <3>10, <3>11, KernRefs
  <2> QED
    BY <2>2, <2>5, <2>6, <2>7, <2>8
<1> QED
  BY <1>9, <1>10

\* A return to the program.
LEMMA ReturnIs ==
  ASSUME NEW calls, NEW texts, Inv(calls, texts), NEW p \in Procs, NEW w, IsUser(w, calls),
         w.prog # <<>>, NEW v, NEW words, ReturnWith(p, w, v, words)
  PROVE  \E u : /\ IsUser(u, calls) /\ u.ofile = w.ofile /\ u.cwd = w.cwd /\ u.st = w.st
                /\ user' = [user EXCEPT ![p] = u] /\ Step(p, Idle)
<1>1. PICK u : u = [w EXCEPT !.inop = FALSE,
                             !.prog = IF Again(p, v) THEN @ ELSE Tail(@),
                             !.seen = IF Again(p, v) THEN @ \o words ELSE <<>>]
  OBVIOUS
<1>2. user' = [user EXCEPT ![p] = u] /\ Step(p, Idle)
  BY <1>1 DEF ReturnWith, Step
<1>3. w.prog \in Seq(calls) /\ Tail(w.prog) \in Seq(calls)
  BY DEF IsUser
<1>4. u = [x \in UserFields |-> u[x]] /\ u.ofile = w.ofile /\ u.cwd = w.cwd /\ u.st = w.st
  BY <1>1 DEF IsUser, UserFields
<1>5. u.prog = IF Again(p, v) THEN w.prog ELSE Tail(w.prog)
  BY <1>1 DEF IsUser, UserFields
<1>6. IsUser(u, calls)
  BY <1>3, <1>4, <1>5 DEF IsUser
<1> QED
  BY <1>2, <1>4, <1>6

\* An idle call points to nothing and holds nothing.
LEMMA IdleIs ==
  ASSUME NEW texts
  PROVE  /\ IsKern(Idle, texts) /\ Place(Idle) = "user" /\ Holds(Idle) = {} /\ Idle.put = None
         /\ PtrInv(Idle) /\ \A s \in Slots : PtrCount(Idle, s) = 0
<1>1. PICK k : k = Idle
  OBVIOUS
<1>2. /\ k.pc = "user" /\ k.at = None /\ k.ip = None /\ k.dp = None /\ k.put = None
      /\ k.words = <<>>
  BY <1>1 DEF Idle
<1>3. k = [x \in KernFields |-> k[x]]
  BY <1>1 DEF Idle, KernFields
<1>4. IsKern(k, texts)
  BY <1>2, <1>3 DEF IsKern, Ptr
<1>5. Place(k) = "user" /\ Holds(k) = {}
  BY <1>2 DEF Place, Iputs, Holds, Below, Frees, HoldsIp, HoldsDp
<1>6. PtrInv(k)
  BY <1>2, <1>5 DEF PtrInv, Iputs, WithIp, WithDp, Without
<1>7. \A s \in Slots : PtrCount(k, s) = 0
  BY <1>2, Constants DEF PtrCount, Bit
<1> QED
  BY <1>1, <1>2, <1>4, <1>5, <1>6, <1>7

\* Where iput is.
LEMMA AtIput ==
  ASSUME NEW calls, NEW texts, Inv(calls, texts), NEW p \in Procs, NEW place \in Iputs, At(p, place)
  PROVE  /\ Up /\ Ready(calls, texts, p) /\ kern[p].pc = place /\ kern[p].put \in Slots
         /\ Place(kern[p]) = kern[p].after /\ kern[p].after \notin Iputs
         /\ user[p].inop /\ user[p].st = "running"
<1>1. Up /\ kern[p].pc = place /\ user[p].st = "running" /\ Ready(calls, texts, p)
  BY IsReady DEF At
<1>2. Place(kern[p]) = kern[p].after
  BY <1>1 DEF Place
<1>3. PtrInv(kern[p]) /\ kern[p].put \in Ptr
  BY <1>1 DEF Ready, ProcInv, IsKern
<1>4. kern[p].put \in Slots
  BY <1>1, <1>3 DEF PtrInv, Ptr
<1>5. kern[p].after \notin Iputs
  BY <1>2, <1>3 DEF PtrInv, Iputs, WithIp, WithDp, Without
<1>6. user[p].inop
  BY <1>1 DEF Ready, ProcInv, Iputs
<1> QED
  BY <1>1, <1>2, <1>4, <1>5, <1>6

\* Another place of iput.
LEMMA IputPlace ==
  ASSUME NEW texts, NEW u, NEW k, IsKern(k, texts), ProcInv(u, k), k.pc \in Iputs,
         NEW pc \in Iputs, NEW l, l = [k EXCEPT !.pc = pc],
         pc \in Frees => k.put \notin Below(k)
  PROVE  /\ IsKern(l, texts) /\ ProcInv(u, l) /\ l.pc = pc /\ l.put = k.put
         /\ Below(l) = Below(k)
         /\ \A s \in Slots : PtrCount(l, s) = PtrCount(k, s)
<1>1. /\ IsKern(l, texts) /\ l.pc = pc /\ l.put = k.put /\ l.after = k.after /\ l.at = k.at
      /\ l.ip = k.ip /\ l.dp = k.dp /\ l.then = k.then /\ l.else = k.else /\ l.parent = k.parent
  BY DEF IsKern, KernFields
<1>2. Place(l) = Place(k)
  BY <1>1 DEF Place
<1>3. Below(l) = Below(k)
  BY <1>1, <1>2 DEF Below
<1>4. PtrInv(l)
  BY <1>1, <1>2 DEF ProcInv, PtrInv, Walks
<1>5. k.pc \notin {"user", "exitNext"} /\ pc \notin {"user", "exitNext"}
  BY DEF Iputs
<1>6. ProcInv(u, l)
  BY <1>1, <1>2, <1>3, <1>4, <1>5 DEF ProcInv
<1>7. \A s \in Slots : PtrCount(l, s) = PtrCount(k, s)
  BY <1>1 DEF PtrCount
<1> QED
  BY <1>1, <1>3, <1>6, <1>7

\* IputTest keeps the invariant.
LEMMA IputTestKeeps ==
  ASSUME NEW calls, NEW texts, Inv(calls, texts), NEW p \in Procs, IputTest(p)
  PROVE  Inv(calls, texts)'
<1>1. PICK k, s : k = kern[p] /\ s = k.put
  OBVIOUS
<1>2. At(p, "iput") /\ UNCHANGED <<ftable, user>> /\ LockFree(fs, s)
  BY <1>1 DEF IputTest
<1>3. /\ Up /\ Ready(calls, texts, p) /\ k.pc = "iput" /\ s \in Slots /\ user[p].inop
  BY <1>1, <1>2, AtIput DEF Iputs
<1>4. IsKern(k, texts) /\ ProcInv(user[p], k) /\ LockInv
  BY <1>1, <1>3 DEF Ready
<1>5. Holds(k) = Below(k) /\ s \notin Below(k)
  <2>1. Holds(k) = Below(k)
    BY <1>3 DEF Holds, Frees
  <2>2. fs.icache[s].lock # p
    BY <1>2, Constants DEF LockFree
  <2> QED
    BY <1>1, <1>3, <1>4, <2>1, <2>2 DEF LockInv
<1>6. CASE fs' = [fs EXCEPT !.icache[s].lock = p] /\ Step(p, [k EXCEPT !.pc = "iputFree"])
  <2>1. PICK l : l = [k EXCEPT !.pc = "iputFree"]
    OBVIOUS
  <2>2. /\ IsKern(l, texts) /\ ProcInv(user[p], l) /\ l.pc = "iputFree" /\ l.put = s
        /\ Below(l) = Below(k) /\ \A t \in Slots : PtrCount(l, t) = PtrCount(k, t)
    <3>1. PICK pc : pc = "iputFree"
      OBVIOUS
    <3>2. pc \in Iputs /\ k.pc \in Iputs /\ l = [k EXCEPT !.pc = pc] /\ k.put \notin Below(k)
      BY <1>1, <1>3, <1>5, <2>1, <3>1 DEF Iputs
    <3> QED
      BY <1>1, <1>4, <3>1, <3>2, IputPlace
  <2>3. Becomes(calls, texts, p, user[p], l)
    BY <1>2, <1>3, <1>6, <2>1, <2>2, KernStep
  <2>4. SameTotals(p, user[p], l)
    BY <1>1, <2>2 DEF SameTotals, Total
  <2>5. LockMoves(fs, fs', s, p)
    <3>1. fs' = SetLock(fs, s, p) /\ IsSystem(fs)
      BY <1>3, <1>6 DEF SetLock, Ready
    <3>2. /\ IsSystem(fs') /\ fs'.panic = fs.panic
          /\ \A t \in Slots : /\ fs'.icache[t].inum = fs.icache[t].inum
                              /\ fs'.icache[t].ref = fs.icache[t].ref
                              /\ fs'.icache[t].lock = IF t = s THEN p ELSE fs.icache[t].lock
      BY <1>3, <3>1, SetLockIs
    <3> QED
      BY <3>2 DEF LockMoves, LockSet
  <2>6. Holds(l) = Holds(k) \cup {s}
    BY <1>5, <2>2 DEF Holds, Frees
  <2> QED
    BY <1>1, <1>2, <1>3, <2>3, <2>4, <2>5, <2>6, Locking
<1>7. CASE fs' = fs /\ Step(p, [k EXCEPT !.pc = "iputUnref"])
  <2>1. PICK l : l = [k EXCEPT !.pc = "iputUnref"]
    OBVIOUS
  <2>2. /\ IsKern(l, texts) /\ ProcInv(user[p], l) /\ l.pc = "iputUnref" /\ l.put = s
        /\ Below(l) = Below(k) /\ \A t \in Slots : PtrCount(l, t) = PtrCount(k, t)
    <3>1. PICK pc : pc = "iputUnref"
      OBVIOUS
    <3>2. pc \in Iputs /\ k.pc \in Iputs /\ l = [k EXCEPT !.pc = pc] /\ pc \notin Frees
      BY <1>1, <1>3, <1>5, <2>1, <3>1 DEF Iputs, Frees
    <3> QED
      BY <1>1, <1>4, <3>1, <3>2, IputPlace
  <2>3. Becomes(calls, texts, p, user[p], l)
    BY <1>2, <1>3, <1>7, <2>1, <2>2, KernStep
  <2>4. SameTotals(p, user[p], l)
    BY <1>1, <2>2 DEF SameTotals, Total
  <2>5. Visits(fs, fs')
    BY <1>3, <1>7 DEF Visits, SameLocks, Ready
  <2>6. Holds(l) = Holds(k)
    BY <1>5, <2>2 DEF Holds, Frees
  <2> QED
    BY <1>1, <1>2, <1>3, <2>3, <2>4, <2>5, <2>6, Visiting
<1> QED
  BY <1>1, <1>6, <1>7 DEF IputTest

\* IputFree keeps the invariant.
LEMMA IputFreeKeeps ==
  ASSUME NEW calls, NEW texts, Inv(calls, texts), NEW p \in Procs, IputFree(p)
  PROVE  Inv(calls, texts)'
<1>1. PICK k, s : k = kern[p] /\ s = k.put
  OBVIOUS
<1>2. /\ At(p, "iputFree") /\ UNCHANGED <<ftable, user>> /\ Step(p, [k EXCEPT !.pc = "iputClear"])
      /\ fs' = Iupdate([Itrunc(fs, s) EXCEPT !.icache[s].copy.type = "free"], s)
  BY <1>1 DEF IputFree
<1>3. /\ Up /\ Ready(calls, texts, p) /\ k.pc = "iputFree" /\ s \in Slots /\ user[p].inop
  BY <1>1, <1>2, AtIput DEF Iputs
<1>4. IsKern(k, texts) /\ ProcInv(user[p], k) /\ IsSystem(fs) /\ s \notin Below(k)
  BY <1>1, <1>3 DEF Ready, ProcInv, Frees
<1>5. Same(fs, fs')
  <2>1. PICK f : f = Itrunc(fs, s)
    OBVIOUS
  <2>2. Same(fs, f) /\ IsSystem(f)
    BY <1>3, <1>4, <2>1, ItruncSame, SameSystem
  <2>3. PICK c : c = [f.icache[s].copy EXCEPT !.type = "free"]
    OBVIOUS
  <2>4. [f EXCEPT !.icache[s].copy.type = "free"] = SetCopy(f, s, c)
    BY <2>3 DEF SetCopy
  <2>5. Same(f, SetCopy(f, s, c)) /\ IsSystem(SetCopy(f, s, c))
    BY <1>3, <2>2, SetCopySame, SameSystem
  <2>6. Same(SetCopy(f, s, c), fs')
    BY <1>2, <2>1, <2>4, <2>5, IupdateSame
  <2> QED
    BY <2>2, <2>5, <2>6, SameTransitive
<1>6. PICK l : l = [k EXCEPT !.pc = "iputClear"]
  OBVIOUS
<1>7. /\ IsKern(l, texts) /\ ProcInv(user[p], l) /\ l.pc = "iputClear" /\ l.put = s
      /\ Below(l) = Below(k) /\ \A t \in Slots : PtrCount(l, t) = PtrCount(k, t)
  <2>1. PICK pc : pc = "iputClear"
    OBVIOUS
  <2>2. pc \in Iputs /\ k.pc \in Iputs /\ l = [k EXCEPT !.pc = pc] /\ k.put \notin Below(k)
    BY <1>1, <1>3, <1>4, <1>6, <2>1 DEF Iputs
  <2> QED
    BY <1>1, <1>4, <2>1, <2>2, IputPlace
<1>8. Becomes(calls, texts, p, user[p], l)
  BY <1>2, <1>3, <1>6, <1>7, KernStep
<1>9. SameTotals(p, user[p], l)
  BY <1>1, <1>7 DEF SameTotals, Total
<1>10. Holds(l) = Holds(kern[p])
  BY <1>1, <1>3, <1>7 DEF Holds, Frees
<1> QED
  BY <1>2, <1>3, <1>5, <1>8, <1>9, <1>10, SameVisits, Visiting

\* A copy that becomes invalid moves nothing.
LEMMA SetValidSame ==
  ASSUME NEW f, IsSystem(f), NEW s \in Slots
  PROVE  Same(f, [f EXCEPT !.icache[s].valid = FALSE])
<1>1. PICK e : e = [f.icache[s] EXCEPT !.valid = FALSE]
  OBVIOUS
<1>2. /\ IsEntry(e) /\ e.inum = f.icache[s].inum /\ e.ref = f.icache[s].ref
      /\ e.lock = f.icache[s].lock
  BY <1>1 DEF IsSystem, IsEntry, EntryFields
<1>3. [f EXCEPT !.icache[s].valid = FALSE] = SetEntry(f, s, e)
  BY <1>1 DEF SetEntry
<1>4. /\ IsSystem(SetEntry(f, s, e)) /\ SetEntry(f, s, e).panic = f.panic
      /\ SetEntry(f, s, e).icache[s] = e
      /\ \A t \in Slots : t # s => SetEntry(f, s, e).icache[t] = f.icache[t]
  BY <1>2, SetEntryIs
<1> QED
  BY <1>2, <1>3, <1>4 DEF Same

\* IputClear keeps the invariant: the inode it unlocks is not held below.
LEMMA IputClearKeeps ==
  ASSUME NEW calls, NEW texts, Inv(calls, texts), NEW p \in Procs, IputClear(p)
  PROVE  Inv(calls, texts)'
<1>1. PICK k, s : k = kern[p] /\ s = k.put
  OBVIOUS
<1>2. /\ At(p, "iputClear") /\ UNCHANGED <<ftable, user>> /\ Step(p, [k EXCEPT !.pc = "iputUnref"])
      /\ fs' = Iunlock([fs EXCEPT !.icache[s].valid = FALSE], s)
  BY <1>1 DEF IputClear
<1>3. /\ Up /\ Ready(calls, texts, p) /\ k.pc = "iputClear" /\ s \in Slots /\ user[p].inop
  BY <1>1, <1>2, AtIput DEF Iputs
<1>4. IsKern(k, texts) /\ ProcInv(user[p], k) /\ IsSystem(fs) /\ s \notin Below(k)
  BY <1>1, <1>3 DEF Ready, ProcInv, Frees
<1>5. LockMoves(fs, fs', s, None)
  <2>1. PICK f : f = [fs EXCEPT !.icache[s].valid = FALSE]
    OBVIOUS
  <2>2. Same(fs, f) /\ IsSystem(f)
    BY <1>3, <1>4, <2>1, SetValidSame, SameSystem
  <2>3. LockMoves(f, fs', s, None)
    BY <1>2, <1>3, <2>1, <2>2, IunlockIs
  <2> QED
    BY <2>2, <2>3, SameThenLock
<1>6. PICK l : l = [k EXCEPT !.pc = "iputUnref"]
  OBVIOUS
<1>7. /\ IsKern(l, texts) /\ ProcInv(user[p], l) /\ l.pc = "iputUnref" /\ l.put = s
      /\ Below(l) = Below(k) /\ \A t \in Slots : PtrCount(l, t) = PtrCount(k, t)
  <2>1. PICK pc : pc = "iputUnref"
    OBVIOUS
  <2>2. pc \in Iputs /\ k.pc \in Iputs /\ l = [k EXCEPT !.pc = pc] /\ pc \notin Frees
    BY <1>1, <1>3, <1>6, <2>1 DEF Iputs, Frees
  <2> QED
    BY <1>1, <1>4, <2>1, <2>2, IputPlace
<1>8. Becomes(calls, texts, p, user[p], l)
  BY <1>2, <1>3, <1>6, <1>7, KernStep
<1>9. SameTotals(p, user[p], l)
  BY <1>1, <1>7 DEF SameTotals, Total
<1>10. s \in Holds(kern[p]) /\ Holds(l) = Holds(kern[p]) \ {s}
  BY <1>1, <1>3, <1>4, <1>7 DEF Holds, Frees
<1> QED
  BY <1>2, <1>3, <1>5, <1>8, <1>9, <1>10, Unlocking

\* Back in the program.
LEMMA Returns ==
  ASSUME NEW calls, NEW texts, Inv(calls, texts), Up, NEW p \in Procs, NEW w, IsUser(w, calls),
         w.prog # <<>>, w.st = "running", w.cwd # None, NEW v, NEW words,
         ReturnWith(p, w, v, words)
  PROVE  \E u : Becomes(calls, texts, p, u, Idle) /\ u.ofile = w.ofile /\ u.cwd = w.cwd
<1>1. PICK u : /\ IsUser(u, calls) /\ u.ofile = w.ofile /\ u.cwd = w.cwd /\ u.st = w.st
               /\ user' = [user EXCEPT ![p] = u] /\ Step(p, Idle)
  BY ReturnIs
<1>2. PICK k : k = Idle
  OBVIOUS
<1>3. /\ IsKern(k, texts) /\ Place(k) = "user" /\ k.put = None /\ PtrInv(k)
  BY <1>2, IdleIs
<1>4. k.pc = "user"
  BY <1>2 DEF Idle
<1>5. ProcInv(u, k)
  BY <1>1, <1>3, <1>4 DEF ProcInv, Frees
<1>6. Becomes(calls, texts, p, u, k)
  BY <1>1, <1>2, <1>3, <1>5 DEF Becomes, Step
<1> QED
  BY <1>1, <1>2, <1>6

\* IputUnref keeps the invariant: the pointer goes with the count.
LEMMA IputUnrefKeeps ==
  ASSUME NEW calls, NEW texts, Inv(calls, texts), NEW p \in Procs, IputUnref(p)
  PROVE  Inv(calls, texts)'
<1>1. PICK k, s : k = kern[p] /\ s = k.put
  OBVIOUS
<1>2. /\ At(p, "iputUnref") /\ ftable' = ftable
      /\ fs' = Unref(fs, s)
      /\ IF k.after = "return" THEN Return(p, k.ret)
         ELSE Step(p, [k EXCEPT !.pc = k.after, !.put = None]) /\ user' = user
  BY <1>1 DEF IputUnref
<1>3. /\ Up /\ Ready(calls, texts, p) /\ k.pc = "iputUnref" /\ s \in Slots /\ user[p].inop
      /\ Place(k) = k.after /\ k.after \notin Iputs /\ user[p].st = "running"
  BY <1>1, <1>2, AtIput DEF Iputs
<1>4. IsKern(k, texts) /\ IsUser(user[p], calls) /\ ProcInv(user[p], k) /\ IsSystem(fs) /\ LockInv
      /\ PtrInv(k) /\ Once(fs)
  BY <1>1, <1>3 DEF Ready, ProcInv
<1>5. Holds(k) = Below(k)
  BY <1>3 DEF Holds, Frees
<1>6. /\ IsSystem(fs') /\ SameLocks(fs, fs') /\ Once(fs')
      /\ \A t \in Slots : fs'.icache[t].ref = fs.icache[t].ref - Bit(t = s)
  BY <1>2, <1>3, <1>4, UnrefIs DEF SameLocks
<1>7. \A t \in Slots : fs.icache[t].ref \in Int
  BY <1>4, RefType
<1>8. CASE k.after = "return"
  <2>1. user[p].prog # <<>> /\ user[p].cwd # None
    BY <1>3, <1>4, <1>8 DEF ProcInv
  <2>2. PICK u : Becomes(calls, texts, p, u, Idle) /\ u.ofile = user[p].ofile /\ u.cwd = user[p].cwd
    <3>1. ReturnWith(p, user[p], k.ret, <<>>)
      BY <1>2, <1>8 DEF Return
    <3> QED
      BY <1>3, <1>4, <2>1, <3>1, Returns
  <2>3. k.at = None /\ k.ip = None /\ k.dp = None /\ Holds(k) = {}
    <3>1. Holds(k) = {}
      BY <1>3, <1>5, <1>8 DEF Below, HoldsIp, HoldsDp
    <3> QED
      BY <1>3, <1>4, <1>8, <3>1 DEF PtrInv, WithIp, WithDp
  <2>4. FsBecomes(p, Idle)
    BY <1>1, <1>4, <1>6, <2>3, IdleIs, LocksStay DEF FsBecomes
  <2>5. RefsMove(p, u, Idle)
    <3>1. ASSUME NEW t \in Slots
          PROVE  fs'.icache[t].ref = fs.icache[t].ref + Bit(u.cwd = t) - Bit(user[p].cwd = t)
                                     + PtrCount(Idle, t) - PtrCount(kern[p], t)
      <4>1. PtrCount(Idle, t) = 0
        BY IdleIs
      <4>2. PtrCount(kern[p], t) = Bit(t = s)
        BY <1>1, <2>3, Constants DEF PtrCount, Bit
      <4> QED
        BY <1>6, <1>7, <2>2, <4>1, <4>2 DEF Bit
    <3> QED
      BY <3>1 DEF RefsMove
  <2> QED
    BY <1>2, <1>3, <2>2, <2>4, <2>5, FilesStay
<1>9. CASE k.after # "return"
  <2>1. PICK l : l = [k EXCEPT !.pc = k.after, !.put = None]
    OBVIOUS
  <2>2. /\ IsKern(l, texts) /\ l.pc = k.after /\ l.put = None /\ l.at = k.at
        /\ l.ip = k.ip /\ l.dp = k.dp /\ l.then = k.then /\ l.else = k.else /\ l.parent = k.parent
    BY <1>4, <2>1 DEF IsKern, KernFields, Ptr
  <2>3. Place(l) = Place(k)
    BY <1>3, <2>2 DEF Place
  <2>4. l.pc \notin Frees
    BY <1>3, <2>2 DEF Frees, Iputs
  <2>5. Holds(l) = Holds(k)
    BY <1>5, <2>2, <2>3, <2>4 DEF Holds, Below
  <2>6. PtrInv(l)
    BY <1>3, <1>4, <2>2, <2>3 DEF PtrInv, Walks
  <2>7. ProcInv(user[p], l)
    BY <1>3, <1>4, <2>2, <2>3, <2>4, <2>6 DEF ProcInv
  <2>8. Becomes(calls, texts, p, user[p], l)
    BY <1>2, <1>3, <1>9, <2>1, <2>2, <2>7, KernStep
  <2>9. FsBecomes(p, l)
    BY <1>1, <1>4, <1>6, <2>5, LocksStay DEF FsBecomes
  <2>10. PtrsMove(p, l)
    <3>1. ASSUME NEW t \in Slots
          PROVE  fs'.icache[t].ref = fs.icache[t].ref + PtrCount(l, t) - PtrCount(k, t)
      <4>1. PtrCount(k, t) = PtrCount(l, t) + Bit(t = s)
        BY <1>1, <2>2, Constants DEF PtrCount, Bit
      <4> QED
        BY <1>6, <1>7, <4>1, CountType DEF Bit
    <3> QED
      BY <1>1, <3>1 DEF PtrsMove
  <2> QED
    BY <1>2, <1>3, <2>8, <2>9, <2>10, KernRefs
<1> QED
  BY <1>8, <1>9

-----------------------------------------------------------------------------
(* Steps within a call                                                     *)

KernPlaces == WithIp \cup WithDp \cup {"walk", "fail"}

\* What is known at a place of the kernel that is not iput's.
LEMMA AtKern ==
  ASSUME NEW calls, NEW texts, Inv(calls, texts), NEW p \in Procs, NEW place \in KernPlaces,
         At(p, place)
  PROVE  /\ Up /\ kern[p].pc = place /\ Place(kern[p]) = place /\ kern[p].put = None
         /\ IsKern(kern[p], texts) /\ IsUser(user[p], calls) /\ ProcInv(user[p], kern[p])
         /\ LockInv /\ IsSystem(fs) /\ Once(fs)
         /\ user[p].inop /\ user[p].st = "running" /\ user[p].prog # <<>>
         /\ place # "chdirSet" => user[p].cwd \in Slots
         /\ place = "chdirSet" => user[p].cwd = None
         /\ place # "walk" => kern[p].at = None
         /\ place \in WithIp => kern[p].ip \in Slots
         /\ place \notin WithIp \cup {"walk"} => kern[p].ip = None
         /\ place \in WithDp => kern[p].dp \in Slots
         /\ place \notin WithDp => kern[p].dp = None
         /\ Holds(kern[p]) = Below(kern[p])
<1>1. Up /\ kern[p].pc = place /\ user[p].st = "running" /\ Ready(calls, texts, p)
  BY IsReady DEF At
<1>2. /\ IsKern(kern[p], texts) /\ IsUser(user[p], calls) /\ ProcInv(user[p], kern[p])
      /\ LockInv /\ IsSystem(fs) /\ Once(fs) /\ PtrInv(kern[p])
  BY <1>1 DEF Ready, ProcInv
<1>3. place \notin Iputs \cup {"user", "exitNext", "exited", "return"}
  BY DEF KernPlaces, WithIp, WithDp, Iputs
<1>4. Place(kern[p]) = place /\ kern[p].put = None
  BY <1>1, <1>2, <1>3 DEF Place, PtrInv
<1>5. /\ user[p].inop /\ user[p].prog # <<>>
      /\ user[p].cwd # None <=> place # "chdirSet"
  BY <1>1, <1>2, <1>3, <1>4 DEF ProcInv
<1>6. /\ place # "walk" => kern[p].at = None
      /\ place \in WithIp => kern[p].ip # None
      /\ place \notin WithIp \cup {"walk"} => kern[p].ip = None
      /\ place \in WithDp => kern[p].dp # None
      /\ place \notin WithDp => kern[p].dp = None
  BY <1>2, <1>4 DEF PtrInv
<1>7. user[p].cwd \in Ptr /\ kern[p].ip \in Ptr /\ kern[p].dp \in Ptr
  BY <1>2 DEF IsUser, IsKern
<1>8. Holds(kern[p]) = Below(kern[p])
  BY <1>1, <1>3 DEF Holds, Frees, Iputs
<1> QED
  BY <1>1, <1>2, <1>4, <1>5, <1>6, <1>7, <1>8 DEF Ptr

\* From k the process goes on as m, which has the same pointers, and takes a lock, or
\* gives one back, or neither.
Moves(p, m) ==
  \/ Visits(fs, fs') /\ Holds(m) = Holds(kern[p])
  \/ \E s \in Slots : /\ LockFree(fs, s) /\ LockMoves(fs, fs', s, p)
                      /\ Holds(m) = Holds(kern[p]) \cup {s}
  \/ \E s \in Slots : /\ LockMoves(fs, fs', s, None)
                      /\ s \in Holds(kern[p]) /\ Holds(m) = Holds(kern[p]) \ {s}
SamePtrs(p, m) == \A s \in Slots : PtrCount(m, s) = PtrCount(kern[p], s)

\* A step within a call that leaves its pointers to the same entries.
LEMMA KernMoves ==
  ASSUME NEW calls, NEW texts, Inv(calls, texts), NEW p \in Procs, NEW place \in KernPlaces,
         At(p, place), NEW m, IsKern(m, texts), ProcInv(user[p], m), SamePtrs(p, m),
         Moves(p, m), Step(p, m), UNCHANGED <<ftable, user>>
  PROVE  Inv(calls, texts)'
<1>1. Up /\ user[p].inop
  BY AtKern
<1>2. Becomes(calls, texts, p, user[p], m)
  BY <1>1, KernStep
<1>3. SameTotals(p, user[p], m)
  BY DEF SamePtrs, SameTotals, Total
<1> QED
  BY <1>1, <1>2, <1>3, Visiting, Locking, Unlocking DEF Moves

\* A call that stops in a panic.
LEMMA KernPanics ==
  ASSUME NEW calls, NEW texts, Inv(calls, texts), NEW p \in Procs, Up,
         NEW s \in Slots, LockMoves(fs, fs', s, p), fs'.panic # "",
         UNCHANGED <<ftable, user, kern>>
  PROVE  Inv(calls, texts)'
BY PanicKeeps DEF LockMoves

\* The last iput of a call.
InCall(u) == u.inop /\ u.st = "running" /\ u.prog # <<>> /\ u.cwd # None
HasNone(e) == e.at = None /\ e.ip = None /\ e.dp = None

\* A call that puts its last pointer and returns.
LEMMA PutReturnIs ==
  ASSUME NEW texts, NEW u, InCall(u), NEW e, IsKern(e, texts), HasNone(e),
         NEW s \in Slots, NEW v, NEW m, m = IputReturn(e, s, v)
  PROVE  /\ IsKern(m, texts) /\ ProcInv(u, m) /\ Holds(m) = {} /\ m.put = s
         /\ \A t \in Slots : PtrCount(m, t) = Bit(t = s)
<1>1. /\ IsKern(m, texts) /\ m.pc = "iput" /\ m.put = s /\ m.after = "return"
      /\ m.at = None /\ m.ip = None /\ m.dp = None
  BY DEF HasNone, IputReturn, Iput, IsKern, KernFields, Ptr
<1>2. Place(m) = "return"
  BY <1>1 DEF Place, Iputs
<1>3. Holds(m) = {}
  BY <1>1, <1>2 DEF Holds, Below, Frees, HoldsIp, HoldsDp
<1>4. PtrInv(m)
  BY <1>1, <1>2, Constants DEF PtrInv, Iputs, WithIp, WithDp, Without
<1>5. ProcInv(u, m)
  BY <1>1, <1>2, <1>4 DEF ProcInv, Frees, InCall
<1> QED
  BY <1>1, <1>3, <1>5, Constants DEF PtrCount, Bit

\* The one pointer of the call is put, and the call returns.
PutsOne(p, s, e) ==
  LET k == kern[p] IN
  \/ s = k.ip /\ k.dp = None /\ e = [k EXCEPT !.ip = None]
  \/ s = k.dp /\ k.ip = None /\ e = [k EXCEPT !.dp = None]
Gives(p, s) == \/ Visits(fs, fs') /\ Holds(kern[p]) = {}
               \/ LockMoves(fs, fs', s, None) /\ Holds(kern[p]) = {s}

\* Such a step keeps the invariant.
LEMMA PutsReturns ==
  ASSUME NEW calls, NEW texts, Inv(calls, texts), NEW p \in Procs, NEW place \in KernPlaces,
         place \notin {"walk", "chdirSet"}, At(p, place), NEW s \in Slots, NEW e, PutsOne(p, s, e),
         NEW v, Step(p, IputReturn(e, s, v)), Gives(p, s), UNCHANGED <<ftable, user>>
  PROVE  Inv(calls, texts)'
<1>1. PICK k : k = kern[p]
  OBVIOUS
<1>2. /\ user[p].inop /\ user[p].st = "running" /\ user[p].prog # <<>> /\ user[p].cwd # None
      /\ IsKern(k, texts) /\ k.at = None /\ k.put = None
  BY <1>1, AtKern, Constants
<1>3. IsKern(e, texts) /\ e.at = None /\ e.ip = None /\ e.dp = None
  BY <1>1, <1>2, DropIs DEF PutsOne, Ptr
<1>4. PICK m : m = IputReturn(e, s, v)
  OBVIOUS
<1>5. /\ IsKern(m, texts) /\ ProcInv(user[p], m) /\ Holds(m) = {}
      /\ \A t \in Slots : PtrCount(m, t) = Bit(t = s)
  <2>1. InCall(user[p]) /\ HasNone(e)
    BY <1>2, <1>3 DEF InCall, HasNone
  <2> QED
    BY <1>3, <1>4, <2>1, PutReturnIs
<1>6. SamePtrs(p, m)
  <2>1. \A t \in Slots : PtrCount(k, t) = Bit(t = s)
    BY <1>1, <1>2, Constants DEF PutsOne, PtrCount, Bit
  <2> QED
    BY <1>1, <1>5, <2>1 DEF SamePtrs
<1>7. Moves(p, m)
  BY <1>5 DEF Moves, Gives
<1> QED
  BY <1>4, <1>5, <1>6, <1>7, KernMoves

\* An entry that was locked in this step, or before, and is unlocked.
LEMMA LockedVisit ==
  ASSUME NEW f, IsSystem(f), NEW s \in Slots, LockFree(f, s), NEW p,
         NEW g, Same(Ilock(f, s, p), g)
  PROVE  Visits(f, Iunlock(g, s))
BY IlockIs, LockVisit

\* ilock, for a step that goes on with the inode locked.
LEMMA LockedIs ==
  ASSUME NEW f, IsSystem(f), NEW s \in Slots, NEW p, NEW g, g = Ilock(f, s, p)
  PROVE  LockMoves(f, g, s, p) /\ IsSystem(g) /\ Same(g, g)
<1>1. LockMoves(f, g, s, p)
  BY IlockIs
<1>2. IsSystem(g)
  BY <1>1 DEF LockMoves
<1> QED
  BY <1>1, <1>2, SameItself

\* Work on copies, then an unlock.
LEMMA GivenBack ==
  ASSUME NEW f, NEW g, Same(f, g), NEW s \in Slots
  PROVE  LockMoves(f, Iunlock(g, s), s, None)
BY SameSystem, IunlockIs, SameThenLock

\* Fail keeps the invariant.
LEMMA FailKeeps ==
  ASSUME NEW calls, NEW texts, Inv(calls, texts), NEW p \in Procs, Fail(p)
  PROVE  Inv(calls, texts)'
<1>1. PICK place : place = "fail"
  OBVIOUS
<1>2. At(p, place) /\ place \in KernPlaces /\ place \notin WithIp \cup WithDp \cup {"walk", "chdirSet"}
  BY <1>1 DEF Fail, KernPlaces, WithIp, WithDp
<1>3. /\ Up /\ kern[p].put = None /\ kern[p].at = None /\ kern[p].ip = None /\ kern[p].dp = None
      /\ user[p].prog # <<>> /\ user[p].st = "running" /\ user[p].cwd # None
      /\ IsUser(user[p], calls) /\ LockInv /\ IsSystem(fs) /\ Once(fs)
      /\ Place(kern[p]) = place /\ Holds(kern[p]) = Below(kern[p])
  BY <1>2, AtKern, Constants
<1>4. ReturnWith(p, user[p], -1, <<>>) /\ UNCHANGED <<fs, ftable>>
  BY DEF Fail, Return
<1>5. PICK u : Becomes(calls, texts, p, u, Idle) /\ u.ofile = user[p].ofile /\ u.cwd = user[p].cwd
  <2>1. PICK v : v = -1
    OBVIOUS
  <2> QED
    BY <1>3, <1>4, <2>1, Returns
<1>6. Holds(kern[p]) = {}
  BY <1>1, <1>3 DEF Below, HoldsIp, HoldsDp
<1>7. SameTotals(p, u, Idle)
  <2>1. ASSUME NEW s \in Slots
        PROVE  PtrCount(kern[p], s) = 0 /\ PtrCount(Idle, s) = 0
    BY <1>3, IdleIs, Constants DEF PtrCount, Bit
  <2> QED
    BY <1>5, <2>1 DEF SameTotals, Total
<1>8. Visits(fs, fs')
  BY <1>3, <1>4, SameItself, SameVisits
<1> QED
  BY <1>3, <1>4, <1>5, <1>6, <1>7, <1>8, IdleIs, Visiting

-----------------------------------------------------------------------------
(* Steps that change the file table                                        *)

OtherFds(o, o1, d) == \A b \in Fds : b # d => o1[b] = o[b]

\* The descriptors of a file, when one descriptor changes.
LEMMA FdsChange ==
  ASSUME NEW o, NEW o1, NEW d \in Fds, OtherFds(o, o1, d), NEW f
  PROVE  /\ FdCount(o1, f) = FdCount(o, f) + Bit(o1[d] = f) - Bit(o[d] = f)
         /\ FdCount(o, f) \in Nat
<1>1. PICK X, Y : X = {b \in Fds : o[b] = f} /\ Y = {b \in Fds : o1[b] = f}
  OBVIOUS
<1>2. X \in SUBSET Fds /\ Y \in SUBSET Fds /\ \A b \in Fds : b # d => (b \in X <=> b \in Y)
  BY <1>1 DEF OtherFds
<1>3. Cardinality(X) \in Nat /\ Cardinality(Y) = Cardinality(X) + Bit(d \in Y) - Bit(d \in X)
  BY <1>2, Finite, OneDiffers
<1>4. (d \in X <=> o[d] = f) /\ (d \in Y <=> o1[d] = f)
  BY <1>1
<1> QED
  BY <1>1, <1>3, <1>4 DEF FdCount, Bit

\* Entry n of the file table becomes e, and descriptor d of p becomes x.
OpensMove(p, u, k, n, e) == \A s \in Slots :
  fs'.icache[s].ref = fs.icache[s].ref + Bit(IsOpen(e, s)) - Bit(IsOpen(ftable[n], s))
                      + Bit(u.cwd = s) - Bit(user[p].cwd = s)
                      + PtrCount(k, s) - PtrCount(kern[p], s)
DescsMove(p, n, e, d, x) == \A f \in Files :
  (IF f = n THEN e.ref ELSE ftable[f].ref) = ftable[f].ref + Bit(x = f) - Bit(user[p].ofile[d] = f)

\* A step that changes one file and one descriptor.
LEMMA FileMoves ==
  ASSUME NEW calls, NEW texts, Inv(calls, texts), Up, NEW p \in Procs, NEW u, NEW k,
         Becomes(calls, texts, p, u, k), FsBecomes(p, k),
         NEW n \in Files, NEW e, IsFile(e), ftable' = [ftable EXCEPT ![n] = e],
         NEW d \in Fds, NEW x, u.ofile = [user[p].ofile EXCEPT ![d] = x],
         OpensMove(p, u, k, n, e), DescsMove(p, n, e, d, x)
  PROVE  Inv(calls, texts)'
<1>1. /\ ftable = [f \in Files |-> ftable[f]] /\ \A f \in Files : IsFile(ftable[f])
      /\ IsUser(user[p], calls)
  BY DEF Inv, Shapes
<1>2. /\ ftable' = [f \in Files |-> ftable'[f]] /\ ftable'[n] = e
      /\ \A f \in Files : f # n => ftable'[f] = ftable[f]
  BY <1>1
<1>3. FilesOK(ftable')
  BY <1>1, <1>2 DEF FilesOK
<1>4. user'[p] = u /\ kern'[p] = k
  BY DEF Becomes, Inv, Shapes
<1>5. /\ \A b \in Fds : b # d => u.ofile[b] = user[p].ofile[b]
      /\ u.ofile[d] = x
  BY <1>1 DEF IsUser
<1>6. Balance(p)
  <2>1. ASSUME NEW s \in Slots
        PROVE fs'.icache[s].ref = fs.icache[s].ref + Opens(ftable', s) - Opens(ftable, s)
                           + Bit(user'[p].cwd = s) - Bit(user[p].cwd = s)
                           + PtrCount(kern'[p], s) - PtrCount(kern[p], s)
    <3>1. /\ Opens(ftable', s) = Opens(ftable, s) + Bit(IsOpen(e, s)) - Bit(IsOpen(ftable[n], s))
          /\ Opens(ftable, s) \in Nat
      <4>1. PICK G : G = ftable'
        OBVIOUS
      <4>2. OtherFiles(ftable, G, s, n)
        BY <1>2, <4>1 DEF OtherFiles, IsOpen
      <4>3. /\ Opens(G, s) = Opens(ftable, s) + Bit(IsOpen(G[n], s)) - Bit(IsOpen(ftable[n], s))
            /\ Opens(ftable, s) \in Nat
        BY <4>2, OpensChange
      <4> QED
        BY <1>2, <4>1, <4>3
    <3>2. fs'.icache[s].ref = fs.icache[s].ref + Bit(IsOpen(e, s)) - Bit(IsOpen(ftable[n], s))
                      + Bit(u.cwd = s) - Bit(user[p].cwd = s)
                      + PtrCount(k, s) - PtrCount(kern[p], s)
      BY DEF OpensMove
    <3>3. fs.icache[s].ref \in Int
      BY RefType DEF Inv, Shapes
    <3>4. PtrCount(k, s) \in Nat /\ PtrCount(kern[p], s) \in Nat
      BY CountType
    <3>5. PICK a, b, c, i, j, l, m \in Int :
            /\ a = Bit(IsOpen(e, s)) /\ b = Bit(IsOpen(ftable[n], s))
            /\ c = Bit(u.cwd = s) /\ i = Bit(user[p].cwd = s)
            /\ j = PtrCount(k, s) /\ l = PtrCount(kern[p], s) /\ m = Opens(ftable, s)
      BY <3>1, <3>4 DEF Bit
    <3>6. Opens(ftable', s) = m + a - b
      BY <3>1, <3>5
    <3>7. fs'.icache[s].ref = fs.icache[s].ref + (m + a - b) - m + c - i + j - l
      BY <3>2, <3>3, <3>5
    <3> QED
      BY <1>4, <3>5, <3>6, <3>7
  <2>2. ASSUME NEW f \in Files
        PROVE ftable'[f].ref = ftable[f].ref + FdCount(user'[p].ofile, f) - FdCount(user[p].ofile, f)
    <3>1. /\ FdCount(u.ofile, f) = FdCount(user[p].ofile, f) + Bit(x = f) - Bit(user[p].ofile[d] = f)
          /\ FdCount(user[p].ofile, f) \in Nat
      <4>1. PICK o, o1 : o = user[p].ofile /\ o1 = u.ofile
        OBVIOUS
      <4>2. OtherFds(o, o1, d)
        BY <1>5, <4>1 DEF OtherFds
      <4>3. /\ FdCount(o1, f) = FdCount(o, f) + Bit(o1[d] = f) - Bit(o[d] = f)
            /\ FdCount(o, f) \in Nat
        BY <4>2, FdsChange
      <4> QED
        BY <1>5, <4>1, <4>3
    <3>2. ftable'[f].ref = ftable[f].ref + Bit(x = f) - Bit(user[p].ofile[d] = f)
      BY <1>2 DEF DescsMove
    <3>3. ftable[f].ref \in Int
      BY <1>1 DEF IsFile
    <3> QED
      BY <1>4, <3>1, <3>2, <3>3 DEF Bit
  <2> QED
    BY <2>1, <2>2 DEF Balance
<1> QED
  BY <1>3, <1>6, StepKeeps

\* After it has given back its one lock a process holds none.
LEMMA GivesAll ==
  ASSUME NEW calls, NEW texts, Inv(calls, texts), Up, NEW p \in Procs, NEW s \in Slots,
         Gives(p, s), NEW m, Holds(m) = {}
  PROVE  FsBecomes(p, m) /\ \A t \in Slots : fs'.icache[t].ref = fs.icache[t].ref
<1>1. LockInv /\ Once(fs)
  BY DEF Inv, UpInv
<1>2. CASE Visits(fs, fs') /\ Holds(kern[p]) = {}
  BY <1>1, <1>2, LocksStay DEF FsBecomes, Visits, Up
<1>3. CASE LockMoves(fs, fs', s, None) /\ Holds(kern[p]) = {s}
  <2>1. s \in Holds(kern[p]) /\ Holds(m) = Holds(kern[p]) \ {s}
    BY <1>3
  <2>2. Up' => LocksMove(fs, fs', p, m)
    BY <1>1, <1>3, <2>1, LockGiven DEF LockMoves, Up
  <2> QED
    BY <1>1, <1>3, <2>2, LockMovesOnce DEF FsBecomes, LockMoves
<1> QED
  BY <1>2, <1>3 DEF Gives

\* The least free entry, and the least free descriptor.
LEMMA FreeIs ==
  ASSUME NEW p \in Procs
  PROVE  /\ FreeFile # {} => Min(FreeFile) \in Files /\ ftable[Min(FreeFile)].ref = 0
         /\ FreeFd(p) # {} => Min(FreeFd(p)) \in Fds /\ user[p].ofile[Min(FreeFd(p))] = None
<1>1. FreeFile \in SUBSET Nat /\ FreeFd(p) \in SUBSET Nat
  BY Constants DEF FreeFile, FreeFd
<1>2. PICK A, B : A = FreeFile /\ B = FreeFd(p)
  OBVIOUS
<1>3. /\ A # {} => Min(A) \in A
      /\ B # {} => Min(B) \in B
  BY <1>1, <1>2, MinIs
<1> QED
  BY <1>2, <1>3 DEF FreeFile, FreeFd

Opening(p, place, f) ==
  \/ place = "open" /\ LockFree(fs, kern[p].ip) /\ f = Ilock(fs, kern[p].ip, p)
  \/ place = "openCreated" /\ f = fs

\* The end of open gives the call's pointer to the file.
LEMMA OpenFdKeeps ==
  ASSUME NEW calls, NEW texts, Inv(calls, texts), NEW p \in Procs, NEW place, At(p, place),
         NEW f, Opening(p, place, f), OpenFd(p, f)
  PROVE  Inv(calls, texts)'
<1>1. PICK k, s : k = kern[p] /\ s = k.ip
  OBVIOUS
<1>2. /\ place \in KernPlaces /\ place \in WithIp /\ place \notin WithDp
      /\ place \notin {"walk", "chdirSet"}
  BY DEF Opening, KernPlaces, WithIp, WithDp
<1>3. /\ Up /\ Place(k) = place /\ Holds(k) = Below(k) /\ s \in Slots /\ k.dp = None /\ k.at = None
      /\ k.put = None /\ IsSystem(fs) /\ IsUser(user[p], calls) /\ user[p].prog # <<>>
      /\ user[p].st = "running" /\ user[p].cwd # None
  BY <1>1, <1>2, AtKern, Constants
<1>4. fs' = Iunlock(f, s)
  BY <1>1 DEF OpenFd, UnlockPutReturn
<1>5. Gives(p, s)
  <2>1. CASE place = "open" /\ LockFree(fs, s) /\ f = Ilock(fs, s, p)
    <3>1. Same(f, f)
      BY <1>3, <2>1, LockedIs
    <3>2. Visits(fs, fs')
      BY <1>3, <1>4, <2>1, <3>1, LockedVisit
    <3>3. Holds(k) = {}
      BY <1>3, <2>1 DEF Below, HoldsIp, HoldsDp
    <3> QED
      BY <1>1, <3>2, <3>3 DEF Gives
  <2>2. CASE place = "openCreated" /\ f = fs
    <3>1. LockMoves(fs, fs', s, None)
      BY <1>3, <1>4, <2>2, SameItself, GivenBack
    <3>2. Holds(k) = {s}
      BY <1>1, <1>3, <2>2 DEF Below, HoldsIp, HoldsDp
    <3> QED
      BY <1>1, <3>1, <3>2 DEF Gives
  <2> QED
    BY <1>1, <2>1, <2>2 DEF Opening
<1>6. CASE UnlockPutReturn(p, f, [k EXCEPT !.ip = None], s, -1) /\ UNCHANGED ftable
  <2>1. PICK e : e = [k EXCEPT !.ip = None]
    OBVIOUS
  <2>2. PutsOne(p, s, e)
    BY <1>1, <1>3, <2>1 DEF PutsOne
  <2>3. PICK v : v = -1
    OBVIOUS
  <2>4. Step(p, IputReturn(e, s, v)) /\ UNCHANGED <<ftable, user>>
    BY <1>6, <2>1, <2>3 DEF UnlockPutReturn
  <2> QED
    BY <1>2, <1>3, <1>5, <2>2, <2>4, PutsReturns
<1>7. CASE ~(FreeFile = {} \/ FreeFd(p) = {})
  <2>1. PICK n, d : n = Min(FreeFile) /\ d = Min(FreeFd(p))
    OBVIOUS
  <2>2. n \in Files /\ ftable[n].ref = 0 /\ d \in Fds /\ user[p].ofile[d] = None
    BY <1>7, <2>1, FreeIs
  <2>3. PICK e : e = [NoFile EXCEPT !.type = "inode", !.ref = 1, !.ip = s,
                           !.readable = (Cur(p).mode # "wronly"), !.writable = (Cur(p).mode # "rdonly")]
    OBVIOUS
  <2>4. PICK w : w = [user[p] EXCEPT !.ofile[d] = n]
    OBVIOUS
  <2>5. ftable' = [ftable EXCEPT ![n] = e] /\ ReturnWith(p, w, d, <<>>)
    BY <1>1, <1>7, <2>1, <2>3, <2>4 DEF OpenFd
  <2>6. e.ref = 1 /\ e.ip = s /\ e.type = "inode" /\ e = [x \in FileFields |-> e[x]]
    BY <2>3 DEF NoFile, FileFields
  <2>7. IsFile(e)
    BY <1>3, <2>6, Constants DEF IsFile, Ptr
  <2>8. /\ w = [x \in UserFields |-> w[x]] /\ w.ofile = [user[p].ofile EXCEPT ![d] = n]
        /\ w.cwd = user[p].cwd /\ w.prog = user[p].prog /\ w.st = user[p].st
    BY <1>3, <2>4 DEF IsUser, UserFields
  <2>9. IsUser(w, calls)
    BY <1>3, <2>2, <2>8 DEF IsUser
  <2>10. PICK u : Becomes(calls, texts, p, u, Idle) /\ u.ofile = w.ofile /\ u.cwd = w.cwd
    <3>1. w.prog # <<>> /\ w.st = "running" /\ w.cwd # None
      BY <1>3, <2>8
    <3>2. PICK words : words = <<>>
      OBVIOUS
    <3>3. ReturnWith(p, w, d, words)
      BY <2>5, <3>2
    <3> QED
      BY <1>3, <2>9, <3>1, <3>3, Returns
  <2>11. FsBecomes(p, Idle) /\ \A t \in Slots : fs'.icache[t].ref = fs.icache[t].ref
    BY <1>3, <1>5, IdleIs, GivesAll
  <2>12. OpensMove(p, u, Idle, n, e)
    <3>1. ASSUME NEW t \in Slots
          PROVE  fs'.icache[t].ref = fs.icache[t].ref + Bit(IsOpen(e, t)) - Bit(IsOpen(ftable[n], t))
                      + Bit(u.cwd = t) - Bit(user[p].cwd = t)
                      + PtrCount(Idle, t) - PtrCount(kern[p], t)
      <4>1. PtrCount(Idle, t) = 0
        BY IdleIs
      <4>2. PtrCount(kern[p], t) = Bit(s = t)
        BY <1>1, <1>3, Constants DEF PtrCount, Bit
      <4>3. Bit(IsOpen(e, t)) = Bit(s = t) /\ Bit(IsOpen(ftable[n], t)) = 0
        BY <2>2, <2>6 DEF IsOpen, Bit
      <4>4. fs.icache[t].ref \in Int
        BY <1>3, RefType
      <4> QED
        BY <2>8, <2>10, <2>11, <4>1, <4>2, <4>3, <4>4 DEF Bit
    <3> QED
      BY <3>1 DEF OpensMove
  <2>13. DescsMove(p, n, e, d, n)
    <3>1. \A g \in Files : ftable[g].ref \in Int
      BY DEF Inv, Shapes, IsFile
    <3> QED
      BY <2>2, <2>6, <3>1, Constants DEF DescsMove, Bit
  <2> QED
    BY <1>3, <2>2, <2>5, <2>7, <2>8, <2>10, <2>11, <2>12, <2>13, FileMoves
<1> QED
  BY <1>1, <1>6, <1>7 DEF OpenFd

\* OpenCreated keeps the invariant.
LEMMA OpenCreatedKeeps ==
  ASSUME NEW calls, NEW texts, Inv(calls, texts), NEW p \in Procs, OpenCreated(p)
  PROVE  Inv(calls, texts)'
<1>1. PICK place : place = "openCreated"
  OBVIOUS
<1>2. At(p, place) /\ Opening(p, place, fs) /\ OpenFd(p, fs)
  BY <1>1 DEF OpenCreated, Opening
<1> QED
  BY <1>2, OpenFdKeeps

-----------------------------------------------------------------------------
(* Calls that put the inode they have locked                               *)

\* A step that locks an inode, works on it, unlocks it and puts it.
LEMMA VisitPuts ==
  ASSUME NEW calls, NEW texts, Inv(calls, texts), NEW p \in Procs, NEW place \in KernPlaces,
         place \notin {"walk", "chdirSet"}, At(p, place), NEW s \in Slots, NEW e, PutsOne(p, s, e),
         Holds(kern[p]) = {}, LockFree(fs, s), NEW g, Same(Ilock(fs, s, p), g),
         NEW v, UnlockPutReturn(p, g, e, s, v), ftable' = ftable
  PROVE  Inv(calls, texts)'
<1>1. fs' = Iunlock(g, s) /\ Step(p, IputReturn(e, s, v)) /\ UNCHANGED <<ftable, user>>
  BY DEF UnlockPutReturn
<1>2. IsSystem(fs)
  BY AtKern
<1>3. Gives(p, s)
  BY <1>1, <1>2, LockedVisit DEF Gives
<1> QED
  BY <1>1, <1>3, PutsReturns

\* A step that unlocks the inode it holds and puts it.
LEMMA HeldPuts ==
  ASSUME NEW calls, NEW texts, Inv(calls, texts), NEW p \in Procs, NEW place \in KernPlaces,
         place \notin {"walk", "chdirSet"}, At(p, place), NEW s \in Slots, NEW e, PutsOne(p, s, e),
         Holds(kern[p]) = {s}, NEW g, Same(fs, g),
         NEW v, UnlockPutReturn(p, g, e, s, v), ftable' = ftable
  PROVE  Inv(calls, texts)'
<1>1. fs' = Iunlock(g, s) /\ Step(p, IputReturn(e, s, v)) /\ UNCHANGED <<ftable, user>>
  BY DEF UnlockPutReturn
<1>2. Gives(p, s)
  BY <1>1, GivenBack DEF Gives
<1> QED
  BY <1>1, <1>2, PutsReturns

\* Where ip is the one pointer, and where dp is.
LEMMA AtIp ==
  ASSUME NEW calls, NEW texts, Inv(calls, texts), NEW p \in Procs, NEW place, place \in WithIp \ WithDp,
         place # "chdirSet", At(p, place)
  PROVE  /\ place \in KernPlaces /\ place \notin {"walk", "chdirSet"} /\ Up /\ IsSystem(fs)
         /\ kern[p].ip \in Slots /\ kern[p].dp = None
         /\ Holds(kern[p]) = IF place \in HoldsIp THEN {kern[p].ip} ELSE {}
         /\ \A e : e = [kern[p] EXCEPT !.ip = None] => PutsOne(p, kern[p].ip, e)
<1>1. place \in KernPlaces /\ place \notin {"walk", "chdirSet"}
  BY DEF WithIp, KernPlaces
<1>2. /\ kern[p].ip \in Slots /\ kern[p].dp = None /\ Up /\ IsSystem(fs)
      /\ Holds(kern[p]) = Below(kern[p]) /\ Place(kern[p]) = place
  BY <1>1, AtKern
<1>3. place \notin HoldsDp
  BY DEF HoldsDp, WithIp, WithDp
<1> QED
  BY <1>1, <1>2, <1>3 DEF PutsOne, Below

\* What a call has that has a parent directory only.
LEMMA AtDp ==
  ASSUME NEW calls, NEW texts, Inv(calls, texts), NEW p \in Procs, NEW place, place \in WithDp \ WithIp,
         At(p, place)
  PROVE  /\ place \in KernPlaces /\ place \notin {"walk", "chdirSet"} /\ Up /\ IsSystem(fs)
         /\ kern[p].dp \in Slots /\ kern[p].ip = None
         /\ Holds(kern[p]) = IF place \in HoldsDp THEN {kern[p].dp} ELSE {}
         /\ \A e : e = [kern[p] EXCEPT !.dp = None] => PutsOne(p, kern[p].dp, e)
<1>1. place \in KernPlaces /\ place \notin {"walk", "chdirSet"}
  BY DEF WithDp, KernPlaces
<1>2. /\ kern[p].dp \in Slots /\ kern[p].ip = None /\ Up /\ IsSystem(fs)
      /\ Holds(kern[p]) = Below(kern[p]) /\ Place(kern[p]) = place
  BY <1>1, AtKern, Constants DEF WithDp
<1>3. place \notin HoldsIp
  BY DEF HoldsIp, WithIp, WithDp
<1> QED
  BY <1>1, <1>2, <1>3 DEF PutsOne, Below

\* OpenInode keeps the invariant.
LEMMA OpenInodeKeeps ==
  ASSUME NEW calls, NEW texts, Inv(calls, texts), NEW p \in Procs, OpenInode(p)
  PROVE  Inv(calls, texts)'
<1>1. PICK place, s, f : place = "open" /\ s = kern[p].ip /\ f = Ilock(fs, s, p)
  OBVIOUS
<1>2. /\ At(p, place) /\ LockFree(fs, s)
      /\ \/ f.panic # "" /\ fs' = f /\ UNCHANGED <<ftable, user, kern>>
         \/ UnlockPutReturn(p, f, [kern[p] EXCEPT !.ip = None], s, -1) /\ ftable' = ftable
         \/ OpenFd(p, f)
  BY <1>1 DEF OpenInode
<1>3. place \in WithIp \ WithDp /\ place # "chdirSet" /\ place \notin HoldsIp
  BY <1>1 DEF WithIp, WithDp, HoldsIp
<1>4. /\ place \in KernPlaces /\ place \notin {"walk", "chdirSet"} /\ Up /\ IsSystem(fs)
      /\ s \in Slots /\ Holds(kern[p]) = {}
      /\ \A e : e = [kern[p] EXCEPT !.ip = None] => PutsOne(p, s, e)
  BY <1>1, <1>2, <1>3, AtIp
<1>5. LockMoves(fs, f, s, p) /\ Same(f, f)
  BY <1>1, <1>4, LockedIs
<1>6. CASE f.panic # "" /\ fs' = f /\ UNCHANGED <<ftable, user, kern>>
  BY <1>4, <1>5, <1>6, KernPanics
<1>7. CASE UnlockPutReturn(p, f, [kern[p] EXCEPT !.ip = None], s, -1) /\ ftable' = ftable
  <2>1. PICK e, v : e = [kern[p] EXCEPT !.ip = None] /\ v = -1
    OBVIOUS
  <2> QED
    BY <1>1, <1>2, <1>4, <1>5, <1>7, <2>1, VisitPuts
<1>8. CASE OpenFd(p, f)
  <2>1. Opening(p, place, f)
    BY <1>1, <1>2 DEF Opening
  <2> QED
    BY <1>2, <1>8, <2>1, OpenFdKeeps
<1> QED
  BY <1>2, <1>6, <1>7, <1>8

\* Created keeps the invariant.
LEMMA CreatedKeeps ==
  ASSUME NEW calls, NEW texts, Inv(calls, texts), NEW p \in Procs, Created(p)
  PROVE  Inv(calls, texts)'
<1>1. PICK place, s, e, v : /\ place = "created" /\ s = kern[p].ip
                            /\ e = [kern[p] EXCEPT !.ip = None] /\ v = 0
  OBVIOUS
<1>2. At(p, place) /\ UnlockPutReturn(p, fs, e, s, v) /\ ftable' = ftable
  BY <1>1 DEF Created
<1>3. place \in WithIp \ WithDp /\ place # "chdirSet" /\ place \in HoldsIp
  BY <1>1 DEF WithIp, WithDp, HoldsIp
<1>4. /\ place \in KernPlaces /\ place \notin {"walk", "chdirSet"} /\ IsSystem(fs)
      /\ s \in Slots /\ Holds(kern[p]) = {s} /\ PutsOne(p, s, e)
  BY <1>1, <1>2, <1>3, AtIp
<1> QED
  BY <1>2, <1>4, SameItself, HeldPuts

\* UnlinkDone keeps the invariant.
LEMMA UnlinkDoneKeeps ==
  ASSUME NEW calls, NEW texts, Inv(calls, texts), NEW p \in Procs, UnlinkDone(p)
  PROVE  Inv(calls, texts)'
<1>1. PICK place, s, e, v, f : /\ place = "unlinkDone" /\ s = kern[p].ip
                               /\ e = [kern[p] EXCEPT !.ip = None] /\ v = 0
                               /\ f = Unlinked(fs, s)
  OBVIOUS
<1>2. At(p, place) /\ UnlockPutReturn(p, f, e, s, v) /\ ftable' = ftable
  BY <1>1 DEF UnlinkDone
<1>3. place \in WithIp \ WithDp /\ place # "chdirSet" /\ place \in HoldsIp
  BY <1>1 DEF WithIp, WithDp, HoldsIp
<1>4. /\ place \in KernPlaces /\ place \notin {"walk", "chdirSet"} /\ IsSystem(fs)
      /\ s \in Slots /\ Holds(kern[p]) = {s} /\ PutsOne(p, s, e)
  BY <1>1, <1>2, <1>3, AtIp
<1>5. Same(fs, f)
  BY <1>1, <1>4, UnlinkedSame
<1> QED
  BY <1>2, <1>4, <1>5, HeldPuts

\* UnlinkBad keeps the invariant.
LEMMA UnlinkBadKeeps ==
  ASSUME NEW calls, NEW texts, Inv(calls, texts), NEW p \in Procs, UnlinkBad(p)
  PROVE  Inv(calls, texts)'
<1>1. PICK place, s, e, v : /\ place = "unlinkBad" /\ s = kern[p].dp
                            /\ e = [kern[p] EXCEPT !.dp = None] /\ v = -1
  OBVIOUS
<1>2. At(p, place) /\ UnlockPutReturn(p, fs, e, s, v) /\ ftable' = ftable
  BY <1>1 DEF UnlinkBad
<1>3. place \in WithDp \ WithIp /\ place \in HoldsDp
  BY <1>1 DEF WithIp, WithDp, HoldsDp
<1>4. /\ place \in KernPlaces /\ place \notin {"walk", "chdirSet"} /\ IsSystem(fs)
      /\ s \in Slots /\ Holds(kern[p]) = {s} /\ PutsOne(p, s, e)
  BY <1>1, <1>2, <1>3, AtDp
<1> QED
  BY <1>2, <1>4, SameItself, HeldPuts

\* LinkBad keeps the invariant.
LEMMA LinkBadKeeps ==
  ASSUME NEW calls, NEW texts, Inv(calls, texts), NEW p \in Procs, LinkBad(p)
  PROVE  Inv(calls, texts)'
<1>1. PICK place, s, f, e, v : /\ place = "linkBad" /\ s = kern[p].ip /\ f = Ilock(fs, s, p)
                               /\ e = [kern[p] EXCEPT !.ip = None] /\ v = -1
  OBVIOUS
<1>2. /\ At(p, place) /\ LockFree(fs, s) /\ UnlockPutReturn(p, Unlinked(f, s), e, s, v)
      /\ ftable' = ftable
  BY <1>1 DEF LinkBad
<1>3. place \in WithIp \ WithDp /\ place # "chdirSet" /\ place \notin HoldsIp
  BY <1>1 DEF WithIp, WithDp, HoldsIp
<1>4. /\ place \in KernPlaces /\ place \notin {"walk", "chdirSet"} /\ IsSystem(fs)
      /\ s \in Slots /\ Holds(kern[p]) = {} /\ PutsOne(p, s, e)
  BY <1>1, <1>2, <1>3, AtIp
<1>5. Same(f, Unlinked(f, s))
  BY <1>1, <1>4, IlockIs, UnlinkedSame DEF LockMoves
<1> QED
  BY <1>1, <1>2, <1>4, <1>5, VisitPuts

\* Exec keeps the invariant.
LEMMA ExecKeeps ==
  ASSUME NEW calls, NEW texts, Inv(calls, texts), NEW p \in Procs, Exec(p)
  PROVE  Inv(calls, texts)'
<1>1. PICK place, s, f, e, v : /\ place = "exec" /\ s = kern[p].ip /\ f = Ilock(fs, s, p)
                               /\ e = [kern[p] EXCEPT !.ip = None]
                               /\ v = IF f.icache[s].copy.type = "file" THEN 0 ELSE -1
  OBVIOUS
<1>2. /\ At(p, place) /\ LockFree(fs, s)
      /\ \/ f.panic # "" /\ fs' = f /\ UNCHANGED <<ftable, user, kern>>
         \/ UnlockPutReturn(p, f, e, s, v) /\ ftable' = ftable
  BY <1>1 DEF Exec
<1>3. place \in WithIp \ WithDp /\ place # "chdirSet" /\ place \notin HoldsIp
  BY <1>1 DEF WithIp, WithDp, HoldsIp
<1>4. /\ place \in KernPlaces /\ place \notin {"walk", "chdirSet"} /\ Up /\ IsSystem(fs)
      /\ s \in Slots /\ Holds(kern[p]) = {} /\ PutsOne(p, s, e)
  BY <1>1, <1>2, <1>3, AtIp
<1>5. LockMoves(fs, f, s, p) /\ Same(f, f)
  BY <1>1, <1>4, LockedIs
<1>6. CASE f.panic # "" /\ fs' = f /\ UNCHANGED <<ftable, user, kern>>
  BY <1>4, <1>5, <1>6, KernPanics
<1>7. CASE UnlockPutReturn(p, f, e, s, v) /\ ftable' = ftable
  BY <1>1, <1>2, <1>4, <1>5, <1>7, VisitPuts
<1> QED
  BY <1>2, <1>6, <1>7

-----------------------------------------------------------------------------
(* Calls that go on with what they have                                    *)

HeldAt(k, pc) == (IF pc \in HoldsIp THEN {k.ip} ELSE {}) \cup (IF pc \in HoldsDp THEN {k.dp} ELSE {})

\* A call that goes on to another place with the same pointers.
LEMMA GoesOn ==
  ASSUME NEW calls, NEW texts, Inv(calls, texts), NEW p \in Procs, NEW place \in KernPlaces,
         place \notin {"walk", "chdirSet"}, At(p, place),
         NEW pc \in KernPlaces, pc \notin {"walk", "chdirSet"},
         place \in WithIp <=> pc \in WithIp, place \in WithDp <=> pc \in WithDp,
         NEW l, l = [kern[p] EXCEPT !.pc = pc]
  PROVE  /\ IsKern(l, texts) /\ ProcInv(user[p], l) /\ SamePtrs(p, l)
         /\ Holds(l) = HeldAt(kern[p], pc)
<1>1. PICK k, u : k = kern[p] /\ u = user[p]
  OBVIOUS
<1>2. /\ IsKern(k, texts) /\ k.put = None /\ k.at = None
      /\ u.inop /\ u.st = "running" /\ u.prog # <<>> /\ u.cwd # None
      /\ (k.ip # None <=> place \in WithIp) /\ (k.dp # None <=> place \in WithDp)
  BY <1>1, AtKern, Constants
<1>3. /\ IsKern(l, texts) /\ l.pc = pc /\ l.put = None /\ l.at = None /\ l.ip = k.ip /\ l.dp = k.dp
  BY <1>1, <1>2 DEF IsKern, KernFields
<1>4. pc \notin Iputs /\ pc \notin Frees /\ pc \notin {"user", "exitNext", "exited"}
  BY DEF KernPlaces, WithIp, WithDp, Iputs, Frees
<1>5. Place(l) = pc
  BY <1>3, <1>4 DEF Place
<1>6. PtrInv(l)
  <2>1. Place(l) \in {"walk"} \cup WithIp \cup WithDp \cup Without
    BY <1>5 DEF KernPlaces, Without
  <2> QED
    BY <1>2, <1>3, <1>4, <1>5, <2>1 DEF PtrInv
<1>7. ProcInv(u, l)
  BY <1>2, <1>3, <1>4, <1>5, <1>6 DEF ProcInv
<1>8. Holds(l) = HeldAt(k, pc)
  BY <1>3, <1>4, <1>5 DEF Holds, Below, HeldAt
<1>9. SamePtrs(p, l)
  BY <1>1, <1>2, <1>3 DEF SamePtrs, PtrCount
<1> QED
  BY <1>1, <1>3, <1>7, <1>8, <1>9

\* One of the pointers is put.
PutsIp(p, s, e) == s = kern[p].ip /\ e = [kern[p] EXCEPT !.ip = None]
PutsDp(p, s, e) == s = kern[p].dp /\ e = [kern[p] EXCEPT !.dp = None]
PutsEither(p, s, e) == PutsIp(p, s, e) \/ PutsDp(p, s, e)

\* What is left is what is needed where the process goes on.
Fits(e, after) == (after \in WithIp <=> e.ip # None) /\ (after \in WithDp <=> e.dp # None)

\* A call that puts one of its pointers and goes on.
LEMMA PutsOn ==
  ASSUME NEW calls, NEW texts, Inv(calls, texts), NEW p \in Procs, NEW place \in KernPlaces,
         place \notin {"walk", "chdirSet"}, At(p, place), NEW s \in Slots, NEW e,
         PutsEither(p, s, e), NEW after \in KernPlaces, after \notin {"walk", "chdirSet"},
         Fits(e, after), NEW m, m = Iput(e, s, after)
  PROVE  /\ IsKern(m, texts) /\ ProcInv(user[p], m) /\ SamePtrs(p, m)
         /\ Holds(m) = HeldAt(e, after)
<1>1. PICK k, u : k = kern[p] /\ u = user[p]
  OBVIOUS
<1>2. /\ IsKern(k, texts) /\ k.put = None /\ k.at = None
      /\ u.inop /\ u.st = "running" /\ u.prog # <<>> /\ u.cwd # None
  BY <1>1, AtKern, Constants
<1>3. IsKern(e, texts) /\ e.at = None
  BY <1>1, <1>2, DropIs DEF PutsEither, PutsIp, PutsDp, Ptr
<1>4. /\ IsKern(m, texts) /\ m.pc = "iput" /\ m.put = s /\ m.after = after /\ m.at = None
      /\ m.ip = e.ip /\ m.dp = e.dp
  BY <1>3, IputIs DEF Ptr
<1>5. Place(m) = after /\ after \notin {"user", "exitNext", "exited"}
  BY <1>4 DEF Place, Iputs, KernPlaces, WithIp, WithDp
<1>6. PtrInv(m)
  <2>1. Place(m) \in {"walk"} \cup WithIp \cup WithDp \cup Without
    BY <1>5 DEF KernPlaces, Without
  <2> QED
    BY <1>4, <1>5, <2>1, Constants DEF PtrInv, Iputs, Fits
<1>7. ProcInv(u, m)
  BY <1>2, <1>4, <1>5, <1>6 DEF ProcInv, Frees
<1>8. Holds(m) = HeldAt(e, after)
  BY <1>4, <1>5 DEF Holds, Frees, Below, HeldAt
<1>9. SamePtrs(p, m)
  <2>1. CASE PutsIp(p, s, e)
    <3>1. e.ip = None /\ e.dp = k.dp /\ s = k.ip
      BY <1>1, <1>2, <2>1 DEF PutsIp, IsKern, KernFields
    <3> QED
      BY <1>1, <1>2, <1>4, <3>1, Constants DEF SamePtrs, PtrCount, Bit
  <2>2. CASE PutsDp(p, s, e)
    <3>1. e.ip = k.ip /\ e.dp = None /\ s = k.dp
      BY <1>1, <1>2, <2>2 DEF PutsDp, IsKern, KernFields
    <3> QED
      BY <1>1, <1>2, <1>4, <3>1, Constants DEF SamePtrs, PtrCount, Bit
  <2> QED
    BY <2>1, <2>2 DEF PutsEither
<1> QED
  BY <1>1, <1>4, <1>7, <1>8, <1>9

\* CreateOld keeps the invariant.
LEMMA CreateOldKeeps ==
  ASSUME NEW calls, NEW texts, Inv(calls, texts), NEW p \in Procs, CreateOld(p)
  PROVE  Inv(calls, texts)'
<1>1. PICK place, s, f, e, v : /\ place = "createOld" /\ s = kern[p].ip /\ f = Ilock(fs, s, p)
                               /\ e = [kern[p] EXCEPT !.ip = None] /\ v = -1
  OBVIOUS
<1>2. /\ At(p, place) /\ LockFree(fs, s) /\ ftable' = ftable
      /\ \/ f.panic # "" /\ fs' = f /\ UNCHANGED <<user, kern>>
         \/ fs' = f /\ Step(p, [kern[p] EXCEPT !.pc = "openCreated"]) /\ user' = user
         \/ UnlockPutReturn(p, f, e, s, v)
  BY <1>1 DEF CreateOld
<1>3. place \in WithIp \ WithDp /\ place # "chdirSet" /\ place \notin HoldsIp
  BY <1>1 DEF WithIp, WithDp, HoldsIp
<1>4. /\ place \in KernPlaces /\ place \notin {"walk", "chdirSet"} /\ Up /\ IsSystem(fs)
      /\ s \in Slots /\ Holds(kern[p]) = {} /\ PutsOne(p, s, e)
  BY <1>1, <1>2, <1>3, AtIp
<1>5. LockMoves(fs, f, s, p) /\ Same(f, f)
  BY <1>1, <1>4, LockedIs
<1>6. CASE f.panic # "" /\ fs' = f /\ UNCHANGED <<user, kern>>
  BY <1>2, <1>4, <1>5, <1>6, KernPanics
<1>7. CASE fs' = f /\ Step(p, [kern[p] EXCEPT !.pc = "openCreated"]) /\ user' = user
  <2>1. PICK pc, l : pc = "openCreated" /\ l = [kern[p] EXCEPT !.pc = pc]
    OBVIOUS
  <2>2. /\ pc \in KernPlaces /\ pc \notin {"walk", "chdirSet"} /\ pc \in HoldsIp /\ pc \notin HoldsDp
        /\ place \in WithIp <=> pc \in WithIp
        /\ place \in WithDp <=> pc \in WithDp
    BY <1>1, <2>1 DEF KernPlaces, WithIp, WithDp, HoldsIp, HoldsDp
  <2>3. IsKern(l, texts) /\ ProcInv(user[p], l) /\ SamePtrs(p, l) /\ Holds(l) = HeldAt(kern[p], pc)
    BY <1>2, <1>4, <2>1, <2>2, GoesOn
  <2>4. Moves(p, l)
    BY <1>1, <1>2, <1>4, <1>5, <1>7, <2>2, <2>3 DEF Moves, HeldAt
  <2> QED
    BY <1>2, <1>4, <1>7, <2>1, <2>3, <2>4, KernMoves
<1>8. CASE UnlockPutReturn(p, f, e, s, v)
  BY <1>1, <1>2, <1>4, <1>5, <1>8, VisitPuts
<1> QED
  BY <1>2, <1>6, <1>7, <1>8

\* LinkOld keeps the invariant.
LEMMA LinkOldKeeps ==
  ASSUME NEW calls, NEW texts, Inv(calls, texts), NEW p \in Procs, LinkOld(p)
  PROVE  Inv(calls, texts)'
<1>1. PICK place, s, f, e, v, g :
        /\ place = "link" /\ s = kern[p].ip /\ f = Ilock(fs, s, p)
        /\ e = [kern[p] EXCEPT !.ip = None] /\ v = -1
        /\ g = Iupdate([f EXCEPT !.icache[s].copy.nlink = @ + 1], s)
  OBVIOUS
<1>2. /\ At(p, place) /\ LockFree(fs, s) /\ ftable' = ftable
      /\ \/ f.panic # "" /\ fs' = f /\ UNCHANGED <<user, kern>>
         \/ UnlockPutReturn(p, f, e, s, v)
         \/ fs' = Iunlock(g, s) /\ Step(p, [kern[p] EXCEPT !.pc = "linkNew"]) /\ user' = user
  BY <1>1 DEF LinkOld
<1>3. place \in WithIp \ WithDp /\ place # "chdirSet" /\ place \notin HoldsIp
  BY <1>1 DEF WithIp, WithDp, HoldsIp
<1>4. /\ place \in KernPlaces /\ place \notin {"walk", "chdirSet"} /\ Up /\ IsSystem(fs)
      /\ s \in Slots /\ Holds(kern[p]) = {} /\ PutsOne(p, s, e)
  BY <1>1, <1>2, <1>3, AtIp
<1>5. LockMoves(fs, f, s, p) /\ Same(f, f) /\ IsSystem(f)
  BY <1>1, <1>4, LockedIs
<1>6. CASE f.panic # "" /\ fs' = f /\ UNCHANGED <<user, kern>>
  BY <1>2, <1>4, <1>5, <1>6, KernPanics
<1>7. CASE fs' = Iunlock(g, s) /\ Step(p, [kern[p] EXCEPT !.pc = "linkNew"]) /\ user' = user
  <2>1. PICK pc, l : pc = "linkNew" /\ l = [kern[p] EXCEPT !.pc = pc]
    OBVIOUS
  <2>2. /\ pc \in KernPlaces /\ pc \notin {"walk", "chdirSet"} /\ pc \notin HoldsIp /\ pc \notin HoldsDp
        /\ place \in WithIp <=> pc \in WithIp
        /\ place \in WithDp <=> pc \in WithDp
    BY <1>1, <2>1 DEF KernPlaces, WithIp, WithDp, HoldsIp, HoldsDp
  <2>3. IsKern(l, texts) /\ ProcInv(user[p], l) /\ SamePtrs(p, l) /\ Holds(l) = HeldAt(kern[p], pc)
    BY <1>2, <1>4, <2>1, <2>2, GoesOn
  <2>4. Visits(fs, fs')
    <3>1. Same(f, g)
      BY <1>1, <1>4, <1>5, LinkedSame
    <3> QED
      BY <1>1, <1>2, <1>4, <1>7, <3>1, LockedVisit
  <2>5. Moves(p, l)
    BY <1>4, <2>2, <2>3, <2>4 DEF Moves, HeldAt
  <2> QED
    BY <1>2, <1>4, <1>7, <2>1, <2>3, <2>5, KernMoves
<1>8. CASE UnlockPutReturn(p, f, e, s, v)
  BY <1>1, <1>2, <1>4, <1>5, <1>8, VisitPuts
<1> QED
  BY <1>2, <1>6, <1>7, <1>8

\* Linked keeps the invariant.
LEMMA LinkedKeeps ==
  ASSUME NEW calls, NEW texts, Inv(calls, texts), NEW p \in Procs, Linked(p)
  PROVE  Inv(calls, texts)'
<1>1. PICK place, s, e, v : /\ place = "linked" /\ s = kern[p].ip
                            /\ e = [kern[p] EXCEPT !.ip = None] /\ v = 0
  OBVIOUS
<1>2. At(p, place) /\ Step(p, IputReturn(e, s, v)) /\ UNCHANGED <<fs, ftable, user>>
  BY <1>1 DEF Linked
<1>3. place \in WithIp \ WithDp /\ place # "chdirSet" /\ place \notin HoldsIp
  BY <1>1 DEF WithIp, WithDp, HoldsIp
<1>4. /\ place \in KernPlaces /\ place \notin {"walk", "chdirSet"} /\ Up /\ IsSystem(fs)
      /\ s \in Slots /\ Holds(kern[p]) = {} /\ PutsOne(p, s, e)
  BY <1>1, <1>2, <1>3, AtIp
<1>5. Gives(p, s)
  BY <1>2, <1>4, SameItself, SameVisits DEF Gives
<1> QED
  BY <1>2, <1>4, <1>5, PutsReturns

\* LinkExists keeps the invariant.
LEMMA LinkExistsKeeps ==
  ASSUME NEW calls, NEW texts, Inv(calls, texts), NEW p \in Procs, LinkExists(p)
  PROVE  Inv(calls, texts)'
<1>1. PICK place, s, e, after, m :
        /\ place = "linkExists" /\ s = kern[p].dp /\ e = [kern[p] EXCEPT !.dp = None]
        /\ after = "linkBad" /\ m = Iput(e, s, after)
  OBVIOUS
<1>2. At(p, place) /\ fs' = Iunlock(fs, s) /\ Step(p, m) /\ UNCHANGED <<ftable, user>>
  BY <1>1 DEF LinkExists
<1>3. /\ place \in KernPlaces /\ place \notin {"walk", "chdirSet"} /\ place \notin HoldsIp
      /\ place \in HoldsDp /\ place \in WithIp /\ place \in WithDp
      /\ after \in KernPlaces /\ after \notin {"walk", "chdirSet"} /\ after \in WithIp
      /\ after \notin WithDp /\ after \notin HoldsIp /\ after \notin HoldsDp
  BY <1>1 DEF KernPlaces, WithIp, WithDp, HoldsIp, HoldsDp
<1>4. /\ s \in Slots /\ kern[p].ip \in Slots /\ IsSystem(fs) /\ IsKern(kern[p], texts)
      /\ Holds(kern[p]) = {s}
  BY <1>1, <1>2, <1>3, AtKern DEF Below
<1>5. e.dp = None /\ e.ip = kern[p].ip
  BY <1>1, <1>4 DEF IsKern, KernFields
<1>6. /\ IsKern(m, texts) /\ ProcInv(user[p], m) /\ SamePtrs(p, m) /\ Holds(m) = HeldAt(e, after)
  <2>1. PutsEither(p, s, e)
    BY <1>1 DEF PutsEither, PutsDp
  <2>2. Fits(e, after)
    BY <1>3, <1>4, <1>5, Constants DEF Fits
  <2> QED
    BY <1>1, <1>2, <1>3, <1>4, <2>1, <2>2, PutsOn
<1>7. LockMoves(fs, fs', s, None)
  BY <1>2, <1>4, SameItself, GivenBack
<1>8. Moves(p, m)
  BY <1>3, <1>4, <1>6, <1>7 DEF Moves, HeldAt
<1> QED
  BY <1>2, <1>3, <1>6, <1>8, KernMoves

\* The directory changes: the old one is put.
LEMMA ChdirKeeps ==
  ASSUME NEW calls, NEW texts, Inv(calls, texts), NEW p \in Procs, Chdir(p)
  PROVE  Inv(calls, texts)'
<1>1. PICK place, s, f, e, v, k, c, m :
        /\ place = "chdir" /\ s = kern[p].ip /\ f = Ilock(fs, s, p)
        /\ e = [kern[p] EXCEPT !.ip = None] /\ v = -1
        /\ k = kern[p] /\ c = user[p].cwd /\ m = Iput(k, c, "chdirSet")
  OBVIOUS
<1>2. /\ At(p, place) /\ LockFree(fs, s) /\ ftable' = ftable
      /\ \/ f.panic # "" /\ fs' = f /\ UNCHANGED <<user, kern>>
         \/ UnlockPutReturn(p, f, e, s, v)
         \/ fs' = Iunlock(f, s) /\ Step(p, m) /\ user' = [user EXCEPT ![p].cwd = None]
  BY <1>1 DEF Chdir
<1>3. place \in WithIp \ WithDp /\ place # "chdirSet" /\ place \notin HoldsIp
  BY <1>1 DEF WithIp, WithDp, HoldsIp
<1>4. /\ place \in KernPlaces /\ place \notin {"walk", "chdirSet"} /\ Up /\ IsSystem(fs)
      /\ s \in Slots /\ Holds(kern[p]) = {} /\ PutsOne(p, s, e) /\ k.dp = None
  BY <1>1, <1>2, <1>3, AtIp
<1>5. LockMoves(fs, f, s, p) /\ Same(f, f) /\ IsSystem(f)
  BY <1>1, <1>4, LockedIs
<1>6. CASE f.panic # "" /\ fs' = f /\ UNCHANGED <<user, kern>>
  BY <1>2, <1>4, <1>5, <1>6, KernPanics
<1>7. CASE UnlockPutReturn(p, f, e, s, v)
  BY <1>1, <1>2, <1>4, <1>5, <1>7, VisitPuts
<1>8. CASE fs' = Iunlock(f, s) /\ Step(p, m) /\ user' = [user EXCEPT ![p].cwd = None]
  <2>1. /\ IsKern(k, texts) /\ k.put = None /\ k.at = None /\ c \in Slots
        /\ IsUser(user[p], calls) /\ user[p].inop /\ user[p].st = "running" /\ user[p].prog # <<>>
    BY <1>1, <1>2, <1>4, AtKern
  <2>2. PICK u : u = [user[p] EXCEPT !.cwd = None]
    OBVIOUS
  <2>3. /\ u = [x \in UserFields |-> u[x]] /\ u.cwd = None /\ u.ofile = user[p].ofile
        /\ u.inop = user[p].inop /\ u.st = user[p].st /\ u.prog = user[p].prog
    BY <2>1, <2>2 DEF IsUser, UserFields
  <2>4. IsUser(u, calls)
    BY <2>1, <2>3 DEF IsUser, Ptr
  <2>5. /\ IsKern(m, texts) /\ m.pc = "iput" /\ m.put = c /\ m.after = "chdirSet"
        /\ m.at = None /\ m.ip = s /\ m.dp = None
    <3>1. PICK after : after = "chdirSet"
      OBVIOUS
    <3>2. c \in Ptr /\ m = Iput(k, c, after)
      BY <1>1, <2>1, <3>1 DEF Ptr
    <3> QED
      BY <1>1, <1>4, <2>1, <3>1, <3>2, IputIs
  <2>6. Place(m) = "chdirSet"
    BY <2>5 DEF Place, Iputs
  <2>7. PtrInv(m)
    BY <1>4, <2>1, <2>5, <2>6, Constants DEF PtrInv, Iputs, WithIp, WithDp
  <2>8. ProcInv(u, m)
    BY <2>1, <2>3, <2>5, <2>6, <2>7 DEF ProcInv, Frees
  <2>9. Becomes(calls, texts, p, u, m)
    BY <1>8, <2>1, <2>2, <2>3, <2>4, <2>5, <2>8 DEF Becomes, Step
  <2>10. SameTotals(p, u, m)
    BY <1>1, <1>4, <2>1, <2>3, <2>5, Constants DEF SameTotals, Total, PtrCount, Bit
  <2>11. Visits(fs, fs')
    BY <1>1, <1>2, <1>4, <1>5, <1>8, LockedVisit
  <2>12. Holds(m) = {}
    BY <2>5, <2>6 DEF Holds, Below, Frees, HoldsIp, HoldsDp
  <2> QED
    BY <1>2, <1>4, <2>3, <2>9, <2>10, <2>11, <2>12, Visiting
<1> QED
  BY <1>2, <1>6, <1>7, <1>8

\* ChdirSet keeps the invariant: the pointers change places.
LEMMA ChdirSetKeeps ==
  ASSUME NEW calls, NEW texts, Inv(calls, texts), NEW p \in Procs, ChdirSet(p)
  PROVE  Inv(calls, texts)'
<1>1. PICK place, k, s, w : /\ place = "chdirSet" /\ k = kern[p] /\ s = k.ip
                            /\ w = [user[p] EXCEPT !.cwd = s]
  OBVIOUS
<1>2. At(p, place) /\ UNCHANGED <<fs, ftable>> /\ ReturnWith(p, w, 0, <<>>)
  BY <1>1 DEF ChdirSet
<1>3. place \in KernPlaces /\ place \in WithIp /\ place \notin WithDp /\ place # "walk"
  BY <1>1 DEF KernPlaces, WithIp, WithDp
<1>4. /\ Up /\ k.put = None /\ k.at = None /\ s \in Slots /\ k.dp = None
      /\ user[p].prog # <<>> /\ user[p].st = "running" /\ user[p].cwd = None
      /\ IsUser(user[p], calls) /\ IsSystem(fs)
      /\ Place(k) = place /\ Holds(k) = Below(k)
  BY <1>1, <1>2, <1>3, AtKern
<1>5. /\ w = [x \in UserFields |-> w[x]] /\ w.cwd = s /\ w.ofile = user[p].ofile
      /\ w.st = user[p].st /\ w.prog = user[p].prog
  BY <1>1, <1>4 DEF IsUser, UserFields
<1>6. IsUser(w, calls) /\ w.prog # <<>> /\ w.st = "running" /\ w.cwd # None
  BY <1>4, <1>5, Constants DEF IsUser, Ptr
<1>7. PICK u : Becomes(calls, texts, p, u, Idle) /\ u.ofile = w.ofile /\ u.cwd = w.cwd
  <2>1. PICK v, words : v = 0 /\ words = <<>>
    OBVIOUS
  <2>2. ReturnWith(p, w, v, words)
    BY <1>2, <2>1
  <2> QED
    BY <1>4, <1>6, <2>2, Returns
<1>8. Holds(k) = {}
  BY <1>1, <1>4 DEF Below, HoldsIp, HoldsDp
<1>9. SameTotals(p, u, Idle)
  <2>1. ASSUME NEW t \in Slots
        PROVE  /\ PtrCount(k, t) = Bit(t = s) /\ PtrCount(Idle, t) = 0
               /\ Bit(u.cwd = t) = Bit(t = s) /\ Bit(user[p].cwd = t) = 0
    BY <1>1, <1>4, <1>5, <1>7, IdleIs, Constants DEF PtrCount, Bit
  <2>2. ASSUME NEW t \in Slots
        PROVE  Total(u, Idle, t) = Total(user[p], kern[p], t)
    BY <1>1, <2>1 DEF Total, Bit
  <2> QED
    BY <2>2 DEF SameTotals
<1>10. Visits(fs, fs')
  BY <1>2, <1>4, SameItself, SameVisits
<1> QED
  BY <1>1, <1>2, <1>4, <1>5, <1>7, <1>8, <1>9, <1>10, IdleIs, Visiting

-----------------------------------------------------------------------------
(* Calls that get another inode                                            *)

\* A reference to t comes to the state g, which has the counts of fs.
SameCounts(f, g) == \A s \in Slots : g.icache[s].ref = f.icache[s].ref
LocksGo(g, p, m) == g.panic = "" => LocksMove(fs, g, p, m)
PtrsGain(p, m, t) == \A s \in Slots : PtrCount(m, s) = PtrCount(kern[p], s) + Bit(s = t)

\* A step that gets another inode, which the call points to from then on.
LEMMA KernGains ==
  ASSUME NEW calls, NEW texts, Inv(calls, texts), NEW p \in Procs, NEW place \in KernPlaces,
         At(p, place), NEW m, IsKern(m, texts), Up' => ProcInv(user[p], m), Step(p, m),
         NEW g, SameCounts(fs, g), Once(g), LocksGo(g, p, m),
         NEW t, Gains(g, fs', t), PtrsGain(p, m, t), UNCHANGED <<ftable, user>>
  PROVE  Inv(calls, texts)'
<1>1. Up /\ user[p].inop /\ IsSystem(fs)
  BY AtKern
<1>2. Becomes(calls, texts, p, user[p], m)
  BY <1>1, KernStep
<1>3. FsBecomes(p, m)
  <2>1. IsSystem(fs') /\ Once(fs') /\ (Up' => g.panic = "")
    BY DEF Gains, Up
  <2>2. ASSUME LocksMove(fs, g, p, m) PROVE LocksMove(fs, fs', p, m)
    BY ZenonT(60), <2>2 DEF Gains, LocksMove
  <2> QED
    BY <2>1, <2>2 DEF FsBecomes, LocksGo
<1>4. PtrsMove(p, m)
  <2>1. ASSUME NEW s \in Slots
        PROVE  fs'.icache[s].ref = fs.icache[s].ref + PtrCount(m, s) - PtrCount(kern[p], s)
    <3>1. fs'.icache[s].ref = fs.icache[s].ref + Bit(s = t) /\ fs.icache[s].ref \in Int
      BY <1>1, RefType DEF Gains, SameCounts
    <3>2. PtrCount(m, s) = PtrCount(kern[p], s) + Bit(s = t)
      BY DEF PtrsGain
    <3>3. PICK c : c = Bit(s = t)
      OBVIOUS
    <3>4. c \in Int
      BY <3>3 DEF Bit
    <3>5. PtrCount(m, s) \in Int /\ PtrCount(kern[p], s) \in Int
      BY CountType
    <3> QED
      BY <3>1, <3>2, <3>3, <3>4, <3>5
  <2> QED
    BY <2>1 DEF PtrsMove
<1> QED
  BY <1>1, <1>2, <1>3, <1>4, KernRefs

\* One lock is taken and another given back.
LEMMA KernSwaps ==
  ASSUME NEW calls, NEW texts, Inv(calls, texts), NEW p \in Procs, NEW place \in KernPlaces,
         At(p, place), NEW m, IsKern(m, texts), ProcInv(user[p], m), SamePtrs(p, m), Step(p, m),
         NEW s \in Slots, LockFree(fs, s), NEW f, LockMoves(fs, f, s, p),
         NEW t \in Slots, Holds(kern[p]) = {t}, Holds(m) = {s},
         LockMoves(f, fs', t, None), UNCHANGED <<ftable, user>>
  PROVE  Inv(calls, texts)'
<1>1. Up /\ user[p].inop /\ LockInv /\ Once(fs)
  BY AtKern
<1>2. Becomes(calls, texts, p, user[p], m)
  BY <1>1, KernStep
<1>3. SameTotals(p, user[p], m)
  BY DEF SamePtrs, SameTotals, Total
<1>4. /\ IsSystem(fs') /\ Once(fs') /\ (Up' => f.panic = "")
      /\ \A r \in Slots : fs'.icache[r].ref = fs.icache[r].ref
  BY <1>1, LockMovesOnce DEF LockMoves, Up
<1>5. Up' => LocksMove(fs, fs', p, m)
  <2> SUFFICES ASSUME Up' PROVE LocksMove(fs, fs', p, m)
    OBVIOUS
  <2>1. LockSet(fs, f, s, p) /\ LockSet(f, fs', t, None)
    BY <1>4 DEF LockMoves, Up
  <2>2. s # t
    BY <1>1, Constants DEF LockInv, LockFree
  <2>3. ASSUME NEW r \in Slots
        PROVE  fs'.icache[r].lock = IF r = t THEN None ELSE IF r = s THEN p ELSE fs.icache[r].lock
    BY <2>1 DEF LockSet
  <2>4. ASSUME NEW r \in Slots PROVE fs'.icache[r].lock = p <=> r \in Holds(m)
    BY <1>1, <2>2, <2>3, Constants DEF LockInv
  <2>5. ASSUME NEW r \in Slots, NEW q \in Procs, q # p
        PROVE  fs'.icache[r].lock = q <=> fs.icache[r].lock = q
    <3>1. fs.icache[t].lock = p /\ fs.icache[s].lock = None
      BY <1>1 DEF LockInv, LockFree
    <3> QED
      BY <2>3, <2>5, <3>1, Constants
  <2> QED
    BY <2>4, <2>5 DEF LocksMove
<1>6. FsBecomes(p, m)
  BY <1>4, <1>5 DEF FsBecomes
<1>7. user[p].ofile = user[p].ofile /\ ftable' = ftable
  OBVIOUS
<1> QED
  BY <1>1, <1>2, <1>3, <1>4, <1>6, <1>7, SameRefs

\* CreateAlloc keeps the invariant.
LEMMA CreateAllocKeeps ==
  ASSUME NEW calls, NEW texts, Inv(calls, texts), NEW p \in Procs, CreateAlloc(p)
  PROVE  Inv(calls, texts)'
<1>1. PICK place, k, f, i, t, l :
        /\ place = "createAlloc" /\ k = kern[p] /\ f = Ialloc(fs, NewType(Cur(p)))
        /\ i = IallocNum(fs) /\ t = SlotFor(f, i)
        /\ l = [k EXCEPT !.pc = "createInit", !.ip = t]
  OBVIOUS
<1>2. /\ At(p, place) /\ UNCHANGED <<ftable, user>>
      /\ \/ f.panic # "" /\ fs' = f /\ UNCHANGED kern
         \/ fs' = Iget(f, i) /\ Step(p, l)
  BY <1>1 DEF CreateAlloc
<1>3. place \in WithDp \ WithIp /\ place \in HoldsDp /\ place \in KernPlaces /\ place \notin {"walk", "chdirSet"}
  BY <1>1 DEF WithDp, WithIp, HoldsDp, KernPlaces
<1>4. /\ Up /\ IsSystem(fs) /\ Once(fs) /\ LockInv /\ k.dp \in Slots /\ k.ip = None /\ k.at = None
      /\ k.put = None /\ Holds(k) = {k.dp} /\ IsKern(k, texts) /\ user[p].inop
      /\ user[p].st = "running" /\ user[p].prog # <<>> /\ user[p].cwd # None
  <2>1. Holds(k) = {k.dp}
    BY <1>1, <1>2, <1>3, AtDp
  <2>2. k.ip = None
    BY <1>1, <1>2, <1>3, AtDp
  <2> QED
    BY ZenonT(60), <1>1, <1>2, <1>3, <2>1, <2>2, AtKern, Constants
<1>5. Same(fs, f) /\ IsSystem(f)
  BY <1>1, <1>4, IallocSame, SameSystem
<1>6. CASE f.panic # "" /\ fs' = f /\ UNCHANGED kern
  BY <1>2, <1>4, <1>5, <1>6, PanicKeeps DEF Same
<1>7. CASE fs' = Iget(f, i) /\ Step(p, l)
  <2>1. Gains(f, fs', t) /\ t \in Ptr /\ (fs'.panic = "" => t # None)
    BY <1>1, <1>5, <1>7, IgetIs DEF Ptr
  <2>2. /\ IsKern(l, texts) /\ l.pc = "createInit" /\ l.ip = t /\ l.dp = k.dp /\ l.at = None
        /\ l.put = None
    BY <1>1, <1>4, <2>1 DEF IsKern, KernFields
  <2>3. Place(l) = "createInit" /\ Holds(l) = Holds(k)
    BY <1>4, <2>2 DEF Place, Iputs, Holds, Below, Frees, HoldsIp, HoldsDp
  <2>4. Up' => ProcInv(user[p], l)
    <3> SUFFICES ASSUME t # None PROVE ProcInv(user[p], l)
      BY <2>1 DEF Up
    <3>1. PtrInv(l)
      BY <1>4, <2>2, <2>3, Constants DEF PtrInv, Iputs, WithIp, WithDp
    <3> QED
      BY <1>4, <2>2, <2>3, <3>1 DEF ProcInv, Frees
  <2>5. LocksGo(f, p, l)
    BY <1>1, <1>4, <1>5, <2>3, LocksStay DEF Same, SameLocks, LocksGo
  <2>6. PtrsGain(p, l, t)
    BY <1>1, <1>4, <2>2, Constants DEF PtrsGain, PtrCount, Bit
  <2>7. SameCounts(fs, f) /\ Once(f)
    BY <1>4, <1>5, SameOnce DEF Same, SameCounts
  <2> QED
    BY <1>2, <1>3, <1>7, <2>1, <2>2, <2>4, <2>5, <2>6, <2>7, KernGains
<1> QED
  BY <1>2, <1>6, <1>7

\* Create keeps the invariant: on each of its paths the parent is held, or put.
LEMMA CreateKeeps ==
  ASSUME NEW calls, NEW texts, Inv(calls, texts), NEW p \in Procs, Create(p)
  PROVE  Inv(calls, texts)'
<1>1. PICK place, k, s, f, i, g, t, e, m :
        /\ place = "create" /\ k = kern[p] /\ s = k.dp /\ f = Ilock(fs, s, p)
        /\ i = Dirlookup(f, s, k.name) /\ g = Iunlock(f, s) /\ t = SlotFor(g, i)
        /\ e = [k EXCEPT !.ip = t, !.dp = None] /\ m = Iput(e, s, "createOld")
  OBVIOUS
<1>2. /\ At(p, place) /\ LockFree(fs, s) /\ UNCHANGED <<ftable, user>>
      /\ \/ f.panic # "" /\ fs' = f /\ UNCHANGED kern
         \/ fs' = Iget(g, i) /\ Step(p, m)
         \/ fs' = f /\ Step(p, [k EXCEPT !.pc = "createAlloc"])
  BY <1>1 DEF Create
<1>3. place \in WithDp \ WithIp /\ place \notin HoldsDp /\ place \in KernPlaces /\ place \notin {"walk", "chdirSet"}
  BY <1>1 DEF WithDp, WithIp, HoldsDp, KernPlaces
<1>4. /\ Up /\ IsSystem(fs) /\ Once(fs) /\ LockInv /\ s \in Slots /\ k.ip = None /\ k.at = None
      /\ k.put = None /\ Holds(k) = {} /\ IsKern(k, texts) /\ user[p].inop
      /\ user[p].st = "running" /\ user[p].prog # <<>> /\ user[p].cwd # None
  <2>1. Holds(k) = {} /\ k.ip = None
    BY <1>1, <1>2, <1>3, AtDp
  <2> QED
    BY ZenonT(60), <1>1, <1>2, <1>3, <2>1, AtKern, Constants
<1>5. LockMoves(fs, f, s, p) /\ Same(f, f) /\ IsSystem(f)
  BY <1>1, <1>4, LockedIs
<1>6. CASE f.panic # "" /\ fs' = f /\ UNCHANGED kern
  BY <1>2, <1>4, <1>5, <1>6, KernPanics
<1>7. CASE fs' = f /\ Step(p, [k EXCEPT !.pc = "createAlloc"])
  <2>1. PICK pc, l : pc = "createAlloc" /\ l = [k EXCEPT !.pc = pc]
    OBVIOUS
  <2>2. /\ pc \in KernPlaces /\ pc \notin {"walk", "chdirSet"} /\ pc \notin HoldsIp /\ pc \in HoldsDp
        /\ place \in WithIp <=> pc \in WithIp
        /\ place \in WithDp <=> pc \in WithDp
    BY <1>1, <2>1 DEF KernPlaces, WithIp, WithDp, HoldsIp, HoldsDp
  <2>3. IsKern(l, texts) /\ ProcInv(user[p], l) /\ SamePtrs(p, l) /\ Holds(l) = HeldAt(kern[p], pc)
    BY <1>1, <1>2, <1>3, <2>1, <2>2, GoesOn
  <2>4. Moves(p, l)
    BY <1>1, <1>2, <1>4, <1>5, <1>7, <2>2, <2>3 DEF Moves, HeldAt
  <2> QED
    BY <1>2, <1>3, <1>7, <2>1, <2>3, <2>4, KernMoves
<1>8. CASE fs' = Iget(g, i) /\ Step(p, m)
  <2>1. Visits(fs, g) /\ IsSystem(g)
    <3>1. Visits(fs, g)
      BY <1>1, <1>2, <1>4, <1>5, LockedVisit
    <3> QED
      BY <3>1 DEF Visits
  <2>2. Gains(g, fs', t) /\ t \in Ptr /\ (fs'.panic = "" => t # None)
    BY <1>1, <1>8, <2>1, IgetIs DEF Ptr
  <2>3. IsKern(e, texts) /\ e.at = None /\ e.ip = t /\ e.dp = None /\ e.put = None
    BY <1>1, <1>4, <2>2 DEF IsKern, KernFields, Ptr
  <2>4. /\ IsKern(m, texts) /\ m.pc = "iput" /\ m.put = s /\ m.after = "createOld"
        /\ m.at = None /\ m.ip = t /\ m.dp = None
    <3>1. PICK after : after = "createOld"
      OBVIOUS
    <3>2. s \in Ptr /\ m = Iput(e, s, after)
      BY <1>1, <1>4, <3>1 DEF Ptr
    <3> QED
      BY <2>3, <3>1, <3>2, IputIs
  <2>5. Place(m) = "createOld" /\ Holds(m) = {}
    BY <2>4 DEF Place, Iputs, Holds, Below, Frees, HoldsIp, HoldsDp
  <2>6. Up' => ProcInv(user[p], m)
    <3> SUFFICES ASSUME t # None PROVE ProcInv(user[p], m)
      BY <2>2 DEF Up
    <3>1. PtrInv(m)
      BY <1>4, <2>4, <2>5, Constants DEF PtrInv, Iputs, WithIp, WithDp
    <3> QED
      BY <1>4, <2>4, <2>5, <3>1 DEF ProcInv, Frees
  <2>7. LocksGo(g, p, m)
    BY ZenonT(60), <1>1, <1>4, <2>1, <2>5, LocksStay DEF Visits, LocksGo
  <2>8. PtrsGain(p, m, t)
    BY <1>1, <1>4, <2>4, Constants DEF PtrsGain, PtrCount, Bit
  <2>9. SameCounts(fs, g) /\ Once(g)
    BY <1>4, <2>1 DEF Visits, SameCounts
  <2> QED
    BY <1>2, <1>3, <1>8, <2>2, <2>4, <2>6, <2>7, <2>8, <2>9, KernGains
<1> QED
  BY <1>2, <1>6, <1>7, <1>8

\* CreateInit keeps the invariant: the parent is unlocked, the new inode stays locked.
LEMMA CreateInitKeeps ==
  ASSUME NEW calls, NEW texts, Inv(calls, texts), NEW p \in Procs, CreateInit(p)
  PROVE  Inv(calls, texts)'
<1>1. PICK place, k, s, t, f, g, h, d :
        /\ place = "createInit" /\ k = kern[p] /\ s = k.ip /\ t = k.dp
        /\ f = Ilock(fs, s, p)
        /\ g = Iupdate([f EXCEPT !.icache[s].copy.nlink = 1], s)
        /\ h = (IF NewType(Cur(p)) = "dir" THEN Dots(g, s, t) ELSE g)
        /\ d = Dirlink(h, t, k.name, f.icache[s].inum)
  OBVIOUS
<1>2. PICK after, e, m : /\ after = (IF Cur(p).op = "open" THEN "openCreated" ELSE "created")
                         /\ e = [k EXCEPT !.dp = None] /\ m = Iput(e, t, after)
  OBVIOUS
<1>3. /\ At(p, place) /\ LockFree(fs, s) /\ UNCHANGED <<ftable, user>>
      /\ \/ f.panic # "" /\ fs' = f /\ UNCHANGED kern
         \/ fs' = Iunlock(d, t) /\ Step(p, m)
  BY <1>1, <1>2 DEF CreateInit
<1>4. /\ place \in WithDp /\ place \in WithIp /\ place \in HoldsDp /\ place \notin HoldsIp
      /\ place \in KernPlaces /\ place \notin {"walk", "chdirSet"}
      /\ after \in KernPlaces /\ after \notin {"walk", "chdirSet"} /\ after \in WithIp
      /\ after \notin WithDp /\ after \in HoldsIp /\ after \notin HoldsDp
  BY <1>1, <1>2 DEF WithDp, WithIp, HoldsDp, HoldsIp, KernPlaces
<1>5. /\ Up /\ IsSystem(fs) /\ s \in Slots /\ t \in Slots /\ IsKern(k, texts) /\ Holds(k) = {t}
  BY <1>1, <1>3, <1>4, AtKern DEF Below
<1>6. LockMoves(fs, f, s, p) /\ Same(f, f) /\ IsSystem(f)
  BY <1>1, <1>5, LockedIs
<1>7. CASE f.panic # "" /\ fs' = f /\ UNCHANGED kern
  BY <1>3, <1>5, <1>6, <1>7, KernPanics
<1>8. CASE fs' = Iunlock(d, t) /\ Step(p, m)
  <2>1. Same(f, g) /\ IsSystem(g)
    <3>1. IsSystem(f) /\ s \in Slots
      BY <1>5, <1>6
    <3>2. Same(f, Iupdate([f EXCEPT !.icache[s].copy.nlink = 1], s))
      BY <3>1, LinkedSame
    <3>3. Same(f, g)
      BY <1>1, <3>2
    <3> QED
      BY <3>3, SameSystem
  <2>2. Same(f, h) /\ IsSystem(h)
    <3>1. Same(g, h)
      BY ZenonT(60), <1>1, <1>5, <2>1, DotsSame, SameItself
    <3> QED
      BY <2>1, <3>1, SameTransitive, SameSystem
  <2>3. Same(f, d)
    <3>1. PICK name, inum : name = k.name /\ inum = f.icache[s].inum
      OBVIOUS
    <3>2. d = Dirlink(h, t, name, inum)
      BY <1>1, <3>1
    <3>3. Same(h, d)
      BY <1>5, <2>2, <3>2, DirlinkSame
    <3> QED
      BY <2>2, <3>3, SameTransitive
  <2>4. LockMoves(f, fs', t, None)
    BY <1>5, <1>8, <2>3, GivenBack
  <2>5. e.dp = None /\ e.ip = s
    BY <1>1, <1>2, <1>5 DEF IsKern, KernFields
  <2>6. IsKern(m, texts) /\ ProcInv(user[p], m) /\ SamePtrs(p, m) /\ Holds(m) = HeldAt(e, after)
    <3>1. PutsEither(p, t, e)
      BY <1>1, <1>2 DEF PutsEither, PutsDp
    <3>2. Fits(e, after)
      BY <1>4, <1>5, <2>5, Constants DEF Fits
    <3>3. /\ place \in KernPlaces /\ place \notin {"walk", "chdirSet"} /\ At(p, place) /\ t \in Slots
          /\ after \in KernPlaces /\ after \notin {"walk", "chdirSet"} /\ m = Iput(e, t, after)
      BY <1>2, <1>3, <1>4, <1>5
    <3> QED
      BY <3>1, <3>2, <3>3, PutsOn
  <2>7. Holds(m) = {s}
    BY <1>4, <2>5, <2>6 DEF HeldAt
  <2>8. /\ At(p, place) /\ place \in KernPlaces /\ LockFree(fs, s) /\ UNCHANGED <<ftable, user>>
        /\ Step(p, m) /\ Holds(kern[p]) = {t}
    BY <1>1, <1>3, <1>4, <1>5, <1>8
  <2> QED
    BY <1>5, <1>6, <2>4, <2>6, <2>7, <2>8, KernSwaps
<1> QED
  BY <1>3, <1>7, <1>8

\* Unlink keeps the invariant: the parent stays locked while the child is got.
LEMMA UnlinkKeeps ==
  ASSUME NEW calls, NEW texts, Inv(calls, texts), NEW p \in Procs, Unlink(p)
  PROVE  Inv(calls, texts)'
<1>1. PICK place, k, s, f, i, t, e, v, l :
        /\ place = "unlink" /\ k = kern[p] /\ s = k.dp /\ f = Ilock(fs, s, p)
        /\ i = Dirlookup(f, s, k.name) /\ t = SlotFor(f, i)
        /\ e = [k EXCEPT !.dp = None] /\ v = -1
        /\ l = [k EXCEPT !.pc = "unlinkInode", !.ip = t]
  OBVIOUS
<1>2. /\ At(p, place) /\ LockFree(fs, s) /\ ftable' = ftable
      /\ \/ f.panic # "" /\ fs' = f /\ UNCHANGED <<user, kern>>
         \/ UnlockPutReturn(p, f, e, s, v)
         \/ fs' = Iget(f, i) /\ Step(p, l) /\ user' = user
  BY <1>1 DEF Unlink
<1>3. place \in WithDp \ WithIp /\ place \notin HoldsDp /\ place \in KernPlaces /\ place \notin {"walk", "chdirSet"}
  BY <1>1 DEF WithDp, WithIp, HoldsDp, KernPlaces
<1>4. /\ Up /\ IsSystem(fs) /\ Once(fs) /\ LockInv /\ s \in Slots /\ k.ip = None /\ k.at = None
      /\ k.put = None /\ Holds(k) = {} /\ IsKern(k, texts) /\ user[p].inop /\ PutsOne(p, s, e)
      /\ user[p].st = "running" /\ user[p].prog # <<>> /\ user[p].cwd # None
  <2>1. Holds(k) = {} /\ k.ip = None /\ PutsOne(p, s, e)
    BY <1>1, <1>2, <1>3, AtDp
  <2> QED
    BY ZenonT(60), <1>1, <1>2, <1>3, <2>1, AtKern, Constants
<1>5. LockMoves(fs, f, s, p) /\ Same(f, f) /\ IsSystem(f)
  BY <1>1, <1>4, LockedIs
<1>6. CASE f.panic # "" /\ fs' = f /\ UNCHANGED <<user, kern>>
  BY <1>2, <1>4, <1>5, <1>6, KernPanics
<1>7. CASE UnlockPutReturn(p, f, e, s, v)
  BY <1>1, <1>2, <1>3, <1>4, <1>5, <1>7, VisitPuts
<1>8. CASE fs' = Iget(f, i) /\ Step(p, l) /\ user' = user
  <2>1. Gains(f, fs', t) /\ t \in Ptr /\ (fs'.panic = "" => t # None)
    BY <1>1, <1>5, <1>8, IgetIs DEF Ptr
  <2>2. /\ IsKern(l, texts) /\ l.pc = "unlinkInode" /\ l.ip = t /\ l.dp = s /\ l.at = None
        /\ l.put = None
    BY <1>1, <1>4, <2>1 DEF IsKern, KernFields
  <2>3. Place(l) = "unlinkInode" /\ Holds(l) = Holds(k) \cup {s}
    BY <1>4, <2>2 DEF Place, Iputs, Holds, Below, Frees, HoldsIp, HoldsDp
  <2>4. Up' => ProcInv(user[p], l)
    <3> SUFFICES ASSUME t # None PROVE ProcInv(user[p], l)
      BY <2>1 DEF Up
    <3>1. PtrInv(l)
      BY <1>4, <2>2, <2>3, Constants DEF PtrInv, Iputs, WithIp, WithDp
    <3> QED
      BY <1>4, <2>2, <2>3, <3>1 DEF ProcInv, Frees
  <2>5. LocksGo(f, p, l)
    BY <1>1, <1>2, <1>4, <1>5, <2>3, LockTaken DEF LockMoves, LocksGo
  <2>6. PtrsGain(p, l, t)
    BY <1>1, <1>4, <2>2, Constants DEF PtrsGain, PtrCount, Bit
  <2>7. SameCounts(fs, f) /\ Once(f)
    <3>1. Once(f)
      BY <1>4, <1>5, LockMovesOnce
    <3> QED
      BY <1>5, <3>1 DEF LockMoves, SameCounts
  <2> QED
    BY <1>2, <1>3, <1>8, <2>1, <2>2, <2>4, <2>5, <2>6, <2>7, KernGains
<1> QED
  BY <1>2, <1>6, <1>7, <1>8

\* UnlinkInode keeps the invariant: of the two locks one is left.
LEMMA UnlinkInodeKeeps ==
  ASSUME NEW calls, NEW texts, Inv(calls, texts), NEW p \in Procs, UnlinkInode(p)
  PROVE  Inv(calls, texts)'
<1>1. PICK place, k, s, t, f, off :
        /\ place = "unlinkInode" /\ k = kern[p] /\ s = k.ip /\ t = k.dp
        /\ f = Ilock(fs, s, p) /\ off = Min(Found(f, t, k.name))
  OBVIOUS
<1>2. PICK bad, done, d, e, m, n :
        /\ bad = "unlinkBad" /\ d = [k EXCEPT !.ip = None] /\ m = Iput(d, s, bad)
        /\ done = "unlinkDone" /\ e = [k EXCEPT !.dp = None] /\ n = Iput(e, t, done)
  OBVIOUS
<1>3. /\ At(p, place) /\ LockFree(fs, s) /\ UNCHANGED <<ftable, user>>
      /\ \/ f.panic # "" /\ fs' = f /\ UNCHANGED kern
         \/ fs' = Panic(f, "unlink: nlink < 1") /\ UNCHANGED kern
         \/ fs' = Iunlock(f, s) /\ Step(p, m)
         \/ fs' = Iunlock(Erase(f, k, off), t) /\ Step(p, n)
  BY <1>1, <1>2 DEF UnlinkInode
<1>4. /\ place \in WithDp /\ place \in WithIp /\ place \in HoldsDp /\ place \notin HoldsIp
      /\ place \in KernPlaces /\ place \notin {"walk", "chdirSet"}
  BY <1>1 DEF WithDp, WithIp, HoldsDp, HoldsIp, KernPlaces
<1>5. /\ Up /\ IsSystem(fs) /\ s \in Slots /\ t \in Slots /\ IsKern(k, texts) /\ Holds(k) = {t}
  BY <1>1, <1>3, <1>4, AtKern DEF Below
<1>6. LockMoves(fs, f, s, p) /\ Same(f, f) /\ IsSystem(f)
  BY <1>1, <1>5, LockedIs
<1>7. CASE f.panic # "" /\ fs' = f /\ UNCHANGED kern
  BY <1>3, <1>5, <1>6, <1>7, KernPanics
<1>8. CASE fs' = Panic(f, "unlink: nlink < 1") /\ UNCHANGED kern
  <2>1. Same(f, fs') /\ fs'.panic # ""
    BY <1>6, <1>8, PanicSame
  <2>2. LockMoves(fs, fs', s, p)
    BY <1>6, <2>1, LockThenSame
  <2> QED
    BY <1>3, <1>5, <1>8, <2>1, <2>2, KernPanics
<1>9. CASE fs' = Iunlock(f, s) /\ Step(p, m)
  <2>1. /\ bad \in KernPlaces /\ bad \notin {"walk", "chdirSet"} /\ bad \notin WithIp
        /\ bad \in WithDp /\ bad \notin HoldsIp /\ bad \in HoldsDp
    BY <1>2 DEF WithDp, WithIp, HoldsDp, HoldsIp, KernPlaces
  <2>2. d.ip = None /\ d.dp = t
    BY <1>1, <1>2, <1>5 DEF IsKern, KernFields
  <2>3. IsKern(m, texts) /\ ProcInv(user[p], m) /\ SamePtrs(p, m) /\ Holds(m) = HeldAt(d, bad)
    <3>1. PutsEither(p, s, d)
      BY <1>1, <1>2 DEF PutsEither, PutsIp
    <3>2. Fits(d, bad)
      BY <1>5, <2>1, <2>2, Constants DEF Fits
    <3>3. At(p, place) /\ m = Iput(d, s, bad)
      BY <1>2, <1>3
    <3> QED
      BY <1>4, <1>5, <2>1, <3>1, <3>2, <3>3, PutsOn
  <2>4. Visits(fs, fs')
    BY <1>1, <1>3, <1>5, <1>6, <1>9, LockedVisit
  <2>5. Moves(p, m)
    BY <1>1, <1>5, <2>1, <2>2, <2>3, <2>4 DEF Moves, HeldAt
  <2> QED
    BY <1>3, <1>4, <1>9, <2>3, <2>5, KernMoves
<1>10. CASE fs' = Iunlock(Erase(f, k, off), t) /\ Step(p, n)
  <2>1. /\ done \in KernPlaces /\ done \notin {"walk", "chdirSet"} /\ done \in WithIp
        /\ done \notin WithDp /\ done \in HoldsIp /\ done \notin HoldsDp
    BY <1>2 DEF WithDp, WithIp, HoldsDp, HoldsIp, KernPlaces
  <2>2. e.ip = s /\ e.dp = None
    BY <1>1, <1>2, <1>5 DEF IsKern, KernFields
  <2>3. IsKern(n, texts) /\ ProcInv(user[p], n) /\ SamePtrs(p, n) /\ Holds(n) = HeldAt(e, done)
    <3>1. PutsEither(p, t, e)
      BY <1>1, <1>2 DEF PutsEither, PutsDp
    <3>2. Fits(e, done)
      BY <1>5, <2>1, <2>2, Constants DEF Fits
    <3>3. At(p, place) /\ n = Iput(e, t, done)
      BY <1>2, <1>3
    <3> QED
      BY <1>4, <1>5, <2>1, <3>1, <3>2, <3>3, PutsOn
  <2>4. LockMoves(f, fs', t, None)
    <3>1. Same(f, Erase(f, k, off))
      BY <1>1, <1>5, <1>6, EraseSame
    <3> QED
      BY <1>5, <1>10, <3>1, GivenBack
  <2>5. Holds(n) = {s}
    BY <2>1, <2>2, <2>3 DEF HeldAt
  <2>6. /\ At(p, place) /\ place \in KernPlaces /\ LockFree(fs, s) /\ UNCHANGED <<ftable, user>>
        /\ Step(p, n) /\ Holds(kern[p]) = {t}
    BY <1>1, <1>3, <1>4, <1>5, <1>10
  <2> QED
    BY <1>5, <1>6, <2>3, <2>4, <2>5, <2>6, KernSwaps
<1> QED
  BY <1>3, <1>7, <1>8, <1>9, <1>10

\* LinkDir keeps the invariant.
LEMMA LinkDirKeeps ==
  ASSUME NEW calls, NEW texts, Inv(calls, texts), NEW p \in Procs, LinkDir(p)
  PROVE  Inv(calls, texts)'
<1>1. PICK place, k, s, f, i, h, t :
        /\ place = "linkDir" /\ k = kern[p] /\ s = k.dp /\ f = Ilock(fs, s, p)
        /\ i = Dirlookup(f, s, k.name) /\ h = Dirlink(f, s, k.name, f.icache[k.ip].inum)
        /\ t = SlotFor(f, i)
  OBVIOUS
<1>2. PICK done, e, m, n :
        /\ m = Iput(k, t, "linkExists")
        /\ done = "linked" /\ e = [k EXCEPT !.dp = None] /\ n = Iput(e, s, done)
  OBVIOUS
<1>3. /\ At(p, place) /\ LockFree(fs, s) /\ UNCHANGED <<ftable, user>>
      /\ \/ f.panic # "" /\ fs' = f /\ UNCHANGED kern
         \/ fs' = Iget(f, i) /\ Step(p, m)
         \/ fs' = Iunlock(h, s) /\ Step(p, n)
  BY <1>1, <1>2 DEF LinkDir
<1>4. /\ place \in WithDp /\ place \in WithIp /\ place \notin HoldsDp /\ place \notin HoldsIp
      /\ place \in KernPlaces /\ place \notin {"walk", "chdirSet"}
  BY <1>1 DEF WithDp, WithIp, HoldsDp, HoldsIp, KernPlaces
<1>5. /\ Up /\ IsSystem(fs) /\ s \in Slots /\ k.ip \in Slots /\ IsKern(k, texts) /\ Holds(k) = {}
      /\ k.put = None /\ k.at = None /\ user[p].inop /\ LockInv /\ Once(fs)
      /\ user[p].st = "running" /\ user[p].prog # <<>> /\ user[p].cwd # None
  BY ZenonT(60), <1>1, <1>3, <1>4, AtKern, Constants DEF Below
<1>6. LockMoves(fs, f, s, p) /\ Same(f, f) /\ IsSystem(f)
  BY <1>1, <1>5, LockedIs
<1>7. CASE f.panic # "" /\ fs' = f /\ UNCHANGED kern
  BY <1>3, <1>5, <1>6, <1>7, KernPanics
<1>8. CASE fs' = Iget(f, i) /\ Step(p, m)
  <2>1. Gains(f, fs', t) /\ t \in Ptr /\ (fs'.panic = "" => t # None)
    BY <1>1, <1>6, <1>8, IgetIs DEF Ptr
  <2>2. /\ IsKern(m, texts) /\ m.pc = "iput" /\ m.put = t /\ m.after = "linkExists"
        /\ m.at = None /\ m.ip = k.ip /\ m.dp = s
    <3>1. PICK after : after = "linkExists"
      OBVIOUS
    <3>2. m = Iput(k, t, after)
      BY <1>2, <3>1
    <3>3. /\ IsKern(m, texts) /\ m.pc = "iput" /\ m.put = t /\ m.after = after
          /\ m.at = k.at /\ m.ip = k.ip /\ m.dp = k.dp
      <4>1. t \in Ptr
        BY <2>1
      <4> QED
        BY <1>5, <3>2, <4>1, IputIs
    <3> QED
      BY <1>1, <1>5, <3>1, <3>3
  <2>3. Place(m) = "linkExists" /\ Holds(m) = {s}
    BY <2>2 DEF Place, Iputs, Holds, Below, Frees, HoldsIp, HoldsDp
  <2>4. Up' => ProcInv(user[p], m)
    <3> SUFFICES ASSUME t # None PROVE ProcInv(user[p], m)
      BY <2>1 DEF Up
    <3>1. PtrInv(m)
      BY <1>5, <2>2, <2>3, Constants DEF PtrInv, Iputs, WithIp, WithDp
    <3> QED
      BY <1>5, <2>2, <2>3, <3>1 DEF ProcInv, Frees
  <2>5. LocksGo(f, p, m)
    <3>1. Holds(m) = Holds(kern[p]) \cup {s}
      BY <1>1, <1>5, <2>3
    <3> QED
      BY <1>3, <1>5, <1>6, <3>1, LockTaken DEF LockMoves, LocksGo
  <2>6. PtrsGain(p, m, t)
    BY <1>1, <1>5, <2>2, Constants DEF PtrsGain, PtrCount, Bit
  <2>7. SameCounts(fs, f) /\ Once(f)
    <3>1. Once(f)
      BY <1>5, <1>6, LockMovesOnce
    <3> QED
      BY <1>6, <3>1 DEF LockMoves, SameCounts
  <2> QED
    BY <1>3, <1>4, <1>8, <2>1, <2>2, <2>4, <2>5, <2>6, <2>7, KernGains
<1>9. CASE fs' = Iunlock(h, s) /\ Step(p, n)
  <2>1. /\ done \in KernPlaces /\ done \notin {"walk", "chdirSet"} /\ done \in WithIp
        /\ done \notin WithDp /\ done \notin HoldsIp /\ done \notin HoldsDp
    BY <1>2 DEF WithDp, WithIp, HoldsDp, HoldsIp, KernPlaces
  <2>2. e.ip = k.ip /\ e.dp = None
    BY <1>1, <1>2, <1>5 DEF IsKern, KernFields
  <2>3. IsKern(n, texts) /\ ProcInv(user[p], n) /\ SamePtrs(p, n) /\ Holds(n) = HeldAt(e, done)
    <3>1. PutsEither(p, s, e)
      BY <1>1, <1>2 DEF PutsEither, PutsDp
    <3>2. Fits(e, done)
      BY <1>5, <2>1, <2>2, Constants DEF Fits
    <3>3. At(p, place) /\ n = Iput(e, s, done)
      BY <1>2, <1>3
    <3> QED
      BY <1>4, <1>5, <2>1, <3>1, <3>2, <3>3, PutsOn
  <2>4. Visits(fs, fs')
    <3>1. PICK name, inum : name = k.name /\ inum = f.icache[k.ip].inum
      OBVIOUS
    <3>2. h = Dirlink(f, s, name, inum)
      BY <1>1, <3>1
    <3>3. Same(f, h)
      BY <1>5, <1>6, <3>2, DirlinkSame
    <3> QED
      BY <1>1, <1>3, <1>5, <1>9, <3>3, LockedVisit
  <2>5. Moves(p, n)
    BY <1>1, <1>5, <2>1, <2>2, <2>3, <2>4 DEF Moves, HeldAt
  <2> QED
    BY <1>3, <1>4, <1>9, <2>3, <2>5, KernMoves
<1> QED
  BY <1>3, <1>7, <1>8, <1>9

-----------------------------------------------------------------------------
(* Calls that begin with a path                                            *)

\* An entry that is somebody's directory is counted.
LEMMA CwdCounted ==
  ASSUME Refs, NEW p \in Procs, user[p].cwd \in Slots
  PROVE  fs.icache[user[p].cwd].ref > 0
<1>1. PICK s \in Slots : s = user[p].cwd
  OBVIOUS
<1>2. PICK X : X = {q \in Procs : user[q].cwd = s}
  OBVIOUS
<1>3. X \in SUBSET Procs /\ p \in X
  BY <1>1, <1>2
<1>4. Cardinality(X) \in Nat /\ Cardinality(X) # 0
  BY <1>3, Finite, FS_Subset, FS_CardinalityType, FS_EmptySet
<1>5. Cwds(user, s) = Cardinality(X)
  BY <1>2 DEF Cwds
<1>6. Opens(ftable, s) \in Nat /\ Ptrs(kern, s) \in Nat
  BY OpensSame, PtrsChange
<1>7. fs.icache[s].ref = Opens(ftable, s) + Cwds(user, s) + Ptrs(kern, s)
  BY DEF Refs
<1> QED
  BY <1>1, <1>4, <1>5, <1>6, <1>7

\* The start of a walk.
LEMMA StartIs ==
  ASSUME NEW calls, NEW texts, Inv(calls, texts), NEW p \in Procs, user[p].cwd \in Slots, NEW path
  PROVE  /\ Gains(fs, StartInode(fs, p, path), StartSlot(fs, p, path))
         /\ StartSlot(fs, p, path) \in Ptr
         /\ StartInode(fs, p, path).panic = "" => StartSlot(fs, p, path) # None
<1>1. IsSystem(fs) /\ Refs
  BY DEF Inv, Shapes
<1>2. CASE path.abs
  BY <1>1, <1>2, IgetIs DEF StartInode, StartSlot, Ptr
<1>3. CASE ~path.abs
  <2>1. PICK s \in Slots : s = user[p].cwd
    OBVIOUS
  <2>2. fs.icache[s].ref > 0
    BY <1>1, <2>1, CwdCounted
  <2>3. Gains(fs, Idup(fs, s), s)
    BY <1>1, <2>2, IdupIs
  <2>4. s \in Ptr /\ s # None
    BY <2>1, Constants DEF Ptr
  <2> QED
    BY <1>3, <2>1, <2>3, <2>4 DEF StartInode, StartSlot
<1> QED
  BY <1>2, <1>3

\* The links are counted, and the new name is looked up.
LEMMA LinkNewKeeps ==
  ASSUME NEW calls, NEW texts, Inv(calls, texts), NEW p \in Procs, LinkNew(p)
  PROVE  Inv(calls, texts)'
<1>0. PICK k : k = kern[p]
  OBVIOUS
<1>1. PICK place, path, t, m :
        /\ place = "linkNew" /\ path = Cur(p).new /\ t = StartSlot(fs, p, path)
        /\ m = Namex(k, p, path, TRUE, "linkDir", "linkBad")
  OBVIOUS
<1>2. /\ At(p, place) /\ UNCHANGED <<ftable, user>>
      /\ fs' = StartInode(fs, p, path) /\ Step(p, m)
  <2>1. m = Namex(kern[p], p, Cur(p).new, TRUE, "linkDir", "linkBad")
    BY <1>0, <1>1
  <2> QED
    BY <1>1, <2>1 DEF LinkNew
<1>3. /\ place \notin WithDp /\ place \in WithIp /\ place \notin HoldsDp /\ place \notin HoldsIp
      /\ place \in KernPlaces /\ place \notin {"walk", "chdirSet"}
  BY <1>1 DEF WithDp, WithIp, HoldsDp, HoldsIp, KernPlaces
<1>4. /\ Up /\ IsSystem(fs) /\ k.ip \in Slots /\ k.dp = None /\ IsKern(k, texts) /\ Holds(k) = {}
      /\ k.put = None /\ k.at = None /\ user[p].inop /\ LockInv /\ Once(fs)
      /\ user[p].st = "running" /\ user[p].prog # <<>> /\ user[p].cwd \in Slots
  BY <1>0, <1>2, <1>3, AtKern DEF Below
<1>5. Gains(fs, fs', t) /\ t \in Ptr /\ (fs'.panic = "" => t # None)
  BY <1>1, <1>2, <1>4, StartIs
<1>6. /\ IsKern(m, texts) /\ m.pc = "walk" /\ m.parent /\ m.then = "linkDir"
      /\ m.else = "linkBad" /\ m.at = t /\ m.ip = k.ip /\ m.dp = None /\ m.put = None
  <2>1. StartSlot(fs, p, path) \in Ptr
    BY <1>1, <1>5
  <2> QED
    BY <1>1, <1>4, <2>1 DEF IsKern, KernFields, Namex
<1>7. Place(m) = "walk" /\ Holds(m) = {}
  BY <1>6 DEF Place, Iputs, Holds, Below, Frees, HoldsIp, HoldsDp
<1>8. Up' => ProcInv(user[p], m)
  <2> SUFFICES ASSUME t # None PROVE ProcInv(user[p], m)
    BY <1>5 DEF Up
  <2>1. Walks(m)
    BY <1>6 DEF Walks
  <2>2. PtrInv(m)
    BY <1>4, <1>6, <1>7, <2>1, Constants DEF PtrInv, Iputs, WithIp, WithDp
  <2> QED
    BY <1>4, <1>6, <1>7, <2>2, Constants DEF ProcInv, Frees
<1>9. LocksGo(fs, p, m)
  BY <1>0, <1>4, <1>7, LocksStay DEF LocksGo, SameLocks
<1>10. PtrsGain(p, m, t)
  BY <1>0, <1>4, <1>6, Constants DEF PtrsGain, PtrCount, Bit
<1>11. SameCounts(fs, fs)
  BY DEF SameCounts
<1> QED
  BY <1>2, <1>3, <1>4, <1>5, <1>6, <1>8, <1>9, <1>10, <1>11, KernGains

\* What is known of a process in its program.
LEMMA AtUser ==
  ASSUME NEW calls, NEW texts, Inv(calls, texts), NEW p \in Procs, At(p, "user")
  PROVE  /\ Up /\ kern[p].pc = "user" /\ Place(kern[p]) = "user"
         /\ kern[p].put = None /\ kern[p].at = None /\ kern[p].ip = None /\ kern[p].dp = None
         /\ Holds(kern[p]) = {} /\ \A s \in Slots : PtrCount(kern[p], s) = 0
         /\ IsKern(kern[p], texts) /\ IsUser(user[p], calls) /\ ProcInv(user[p], kern[p])
         /\ LockInv /\ IsSystem(fs) /\ Once(fs)
         /\ user[p].st = "running" /\ user[p].cwd \in Slots
<1>1. PICK k : k = kern[p]
  OBVIOUS
<1>2. Up /\ k.pc = "user" /\ user[p].st = "running" /\ Ready(calls, texts, p)
  BY <1>1, IsReady DEF At
<1>3. /\ IsKern(k, texts) /\ IsUser(user[p], calls) /\ ProcInv(user[p], k)
      /\ LockInv /\ IsSystem(fs) /\ Once(fs)
  BY <1>1, <1>2 DEF Ready
<1>4. Place(k) = "user"
  BY <1>2 DEF Place, Iputs
<1>5. k.put = None /\ k.at = None /\ k.ip = None /\ k.dp = None
  BY <1>2, <1>3, <1>4 DEF ProcInv, PtrInv, Iputs, WithIp, WithDp
<1>6. Holds(k) = {}
  BY <1>2, <1>4 DEF Holds, Below, Frees, HoldsIp, HoldsDp
<1>7. \A s \in Slots : PtrCount(k, s) = 0
  BY <1>5, Constants DEF PtrCount, Bit
<1>8. user[p].cwd \in Slots
  BY <1>2, <1>3, <1>4 DEF ProcInv, IsUser, Ptr
<1> QED
  BY <1>1, <1>2, <1>3, <1>4, <1>5, <1>6, <1>7, <1>8

\* PathCall keeps the invariant: a walk begins with one count.
LEMMA PathCallKeeps ==
  ASSUME NEW calls, NEW texts, Inv(calls, texts), NEW p \in Procs, PathCall(p)
  PROVE  Inv(calls, texts)'
<1>1. PICK k, i, path, parent, then, t, m :
        /\ k = kern[p] /\ i = Cur(p) /\ path = i.path /\ parent = WantsParent(i)
        /\ then = Target(i) /\ t = StartSlot(fs, p, path)
        /\ m = Namex(k, p, path, parent, then, "fail")
  OBVIOUS
<1>2. PICK u : u = [user[p] EXCEPT !.inop = TRUE]
  OBVIOUS
<1>3. /\ At(p, "user") /\ ftable' = ftable /\ user[p].prog # <<>> /\ i.op \in PathCalls
      /\ user' = [user EXCEPT ![p] = u] /\ fs' = StartInode(fs, p, path) /\ Step(p, m)
  BY <1>1, <1>2 DEF PathCall
<1>4. /\ Up /\ k.put = None /\ k.ip = None /\ k.dp = None /\ Holds(k) = {}
      /\ IsKern(k, texts) /\ IsUser(user[p], calls) /\ ProcInv(user[p], k)
      /\ LockInv /\ IsSystem(fs) /\ Once(fs)
      /\ user[p].st = "running" /\ user[p].cwd \in Slots
      /\ \A s \in Slots : PtrCount(k, s) = 0
  BY <1>1, <1>3, AtUser
<1>5. Gains(fs, fs', t) /\ t \in Ptr /\ (fs'.panic = "" => t # None)
  BY <1>1, <1>3, <1>4, StartIs
<1>6. /\ IsUser(u, calls) /\ u.inop /\ u.st = "running" /\ u.prog # <<>>
      /\ u.cwd = user[p].cwd /\ u.ofile = user[p].ofile
  BY <1>2, <1>3, <1>4 DEF IsUser, UserFields
<1>7. /\ IsKern(m, texts) /\ m.pc = "walk" /\ m.parent = parent /\ m.then = then
      /\ m.else = "fail" /\ m.at = t /\ m.ip = None /\ m.dp = None /\ m.put = None
  <2>1. StartSlot(fs, p, path) \in Ptr
    BY <1>1, <1>5
  <2> QED
    BY <1>1, <1>4, <2>1 DEF IsKern, KernFields, Namex
<1>8. Place(m) = "walk" /\ Holds(m) = {}
  BY <1>7 DEF Place, Iputs, Holds, Below, Frees, HoldsIp, HoldsDp
<1>9. Walks(m)
  <2>1. CASE Creates(i)
    BY <1>1, <1>7, <2>1 DEF Walks, WantsParent, Target
  <2>2. CASE ~Creates(i)
    BY <1>1, <1>3, <1>7, <2>2 DEF Walks, WantsParent, Target, Creates, PathCalls
  <2> QED
    BY <2>1, <2>2
<1>10. Up' => ProcInv(u, m)
  <2> SUFFICES ASSUME t # None PROVE ProcInv(u, m)
    BY <1>5 DEF Up
  <2>2. PtrInv(m)
    BY <1>7, <1>8, <1>9, Constants DEF PtrInv, Iputs, WithIp, WithDp
  <2> QED
    BY <1>4, <1>6, <1>7, <1>8, <2>2, Constants DEF ProcInv, Frees
<1>11. Becomes(calls, texts, p, u, m)
  BY <1>3, <1>6, <1>7, <1>10 DEF Becomes, Step
<1>12. FsBecomes(p, m)
  BY <1>1, <1>4, <1>5, <1>8, LocksStay DEF FsBecomes, SameLocks, Gains
<1>13. RefsMove(p, u, m)
  <2>1. ASSUME NEW s \in Slots
        PROVE  fs'.icache[s].ref = fs.icache[s].ref + Bit(u.cwd = s) - Bit(user[p].cwd = s)
                      + PtrCount(m, s) - PtrCount(kern[p], s)
    <3>1. PtrCount(m, s) = Bit(s = t) /\ PtrCount(kern[p], s) = 0
      BY <1>1, <1>4, <1>7, Constants DEF PtrCount, Bit
    <3>2. fs'.icache[s].ref = fs.icache[s].ref + Bit(s = t)
      BY <1>5 DEF Gains
    <3>3. fs.icache[s].ref \in Int
      BY <1>4, RefType
    <3> QED
      BY <1>6, <3>1, <3>2, <3>3 DEF Bit
  <2> QED
    BY <2>1 DEF RefsMove
<1> QED
  BY <1>3, <1>4, <1>6, <1>11, <1>12, <1>13, FilesStay

-----------------------------------------------------------------------------
(* Calls that return at once                                               *)

\* The files keep their counts and inodes.
FilesSame(ft) ==
  /\ FilesOK(ft)
  /\ \A f \in Files : /\ ft[f].ref = ftable[f].ref /\ ft[f].type = ftable[f].type
                      /\ ft[f].ip = ftable[f].ip

\* A step that visits inodes and changes offsets only of the files.
LEMMA FilesVisit ==
  ASSUME NEW calls, NEW texts, Inv(calls, texts), Up, NEW p \in Procs, NEW u, NEW k,
         Becomes(calls, texts, p, u, k), FilesSame(ftable'), u.ofile = user[p].ofile,
         SameTotals(p, u, k), Visits(fs, fs'), Holds(k) = Holds(kern[p])
  PROVE  Inv(calls, texts)'
<1>1. FsBecomes(p, k)
  BY LocksStay DEF FsBecomes, Visits, Inv, UpInv, Up
<1>2. user'[p] = u /\ kern'[p] = k
  BY DEF Becomes, Inv, Shapes
<1>3. Balance(p)
  <2>1. ASSUME NEW s \in Slots
        PROVE fs'.icache[s].ref = fs.icache[s].ref + Opens(ftable', s) - Opens(ftable, s)
                           + Bit(user'[p].cwd = s) - Bit(user[p].cwd = s)
                           + PtrCount(kern'[p], s) - PtrCount(kern[p], s)
    <3>1. Opens(ftable', s) = Opens(ftable, s) /\ Opens(ftable, s) \in Nat
      <4>1. PICK ft : ft = ftable'
        OBVIOUS
      <4>2. \A h \in Files : IsOpen(ftable[h], s) <=> IsOpen(ft[h], s)
        BY <4>1 DEF FilesSame, IsOpen
      <4>3. Opens(ft, s) = Opens(ftable, s) /\ Opens(ftable, s) \in Nat
        BY <4>2, OpensSame
      <4> QED
        BY <4>1, <4>3
    <3>2. fs.icache[s].ref \in Int /\ fs'.icache[s].ref = fs.icache[s].ref
      BY RefType DEF Inv, Shapes, Visits
    <3>3. Bit(u.cwd = s) + PtrCount(k, s) = Bit(user[p].cwd = s) + PtrCount(kern[p], s)
      BY DEF SameTotals, Total
    <3>4. /\ PtrCount(k, s) \in Nat /\ PtrCount(kern[p], s) \in Nat
          /\ Bit(u.cwd = s) \in Nat /\ Bit(user[p].cwd = s) \in Nat
      BY CountType DEF Bit
    <3> QED
      BY <1>2, <3>1, <3>2, <3>3, <3>4
  <2>2. ASSUME NEW f \in Files
        PROVE ftable'[f].ref = ftable[f].ref + FdCount(user'[p].ofile, f) - FdCount(user[p].ofile, f)
    <3>1. FdCount(user[p].ofile, f) \in Nat
      <4>1. {d \in Fds : user[p].ofile[d] = f} \in SUBSET Fds
        OBVIOUS
      <4> QED
        BY <4>1, Finite, FS_Subset, FS_CardinalityType DEF FdCount
    <3>2. ftable[f].ref \in Int /\ ftable'[f].ref = ftable[f].ref
      BY DEF Inv, Shapes, IsFile, FilesSame
    <3> QED
      BY <1>2, <3>1, <3>2
  <2> QED
    BY <2>1, <2>2 DEF Balance
<1> QED
  BY <1>1, <1>3, StepKeeps DEF FilesSame

\* A new offset leaves what the counts are about.
LEMMA FilesAreSame ==
  ASSUME NEW calls, NEW texts, Inv(calls, texts)
  PROVE  /\ FilesSame(ftable)
         /\ \A n \in Files : \A x : FilesSame([ftable EXCEPT ![n].off = x])
<1>1. ftable = [f \in Files |-> ftable[f]] /\ \A f \in Files : IsFile(ftable[f])
  BY DEF Inv, Shapes
<1>2. ASSUME NEW n \in Files, NEW x PROVE FilesSame([ftable EXCEPT ![n].off = x])
  <2>1. PICK e : e = [ftable[n] EXCEPT !.off = x]
    OBVIOUS
  <2>2. IsFile(e) /\ e.ref = ftable[n].ref /\ e.type = ftable[n].type /\ e.ip = ftable[n].ip
    BY <1>1, <2>1 DEF IsFile, FileFields
  <2>3. PICK ft : ft = [ftable EXCEPT ![n] = e]
    OBVIOUS
  <2>4. ft = [f \in Files |-> ft[f]] /\ ft[n] = e /\ \A f \in Files : f # n => ft[f] = ftable[f]
    BY <1>1, <2>3
  <2>5. FilesSame(ft)
    BY <1>1, <2>2, <2>4 DEF FilesSame, FilesOK
  <2> QED
    BY <2>1, <2>3, <2>5
<1> QED
  BY <1>1, <1>2 DEF FilesSame, FilesOK

\* A call that returns at once.
LEMMA UserReturns ==
  ASSUME NEW calls, NEW texts, Inv(calls, texts), NEW p \in Procs, At(p, "user"),
         user[p].prog # <<>>, NEW v, NEW words, ReturnWith(p, user[p], v, words),
         Visits(fs, fs'), FilesSame(ftable')
  PROVE  Inv(calls, texts)'
<1>1. /\ Up /\ Holds(kern[p]) = {} /\ IsUser(user[p], calls) /\ user[p].st = "running"
      /\ user[p].cwd # None /\ \A s \in Slots : PtrCount(kern[p], s) = 0
  BY AtUser, Constants
<1>2. PICK u : Becomes(calls, texts, p, u, Idle) /\ u.ofile = user[p].ofile /\ u.cwd = user[p].cwd
  BY <1>1, Returns
<1>3. SameTotals(p, u, Idle)
  BY <1>1, <1>2, IdleIs DEF SameTotals, Total
<1> QED
  BY <1>1, <1>2, <1>3, IdleIs, FilesVisit

\* What leaves file system and files alone is such a visit.
LEMMA StaySame ==
  ASSUME NEW calls, NEW texts, Inv(calls, texts), UNCHANGED <<fs, ftable>>
  PROVE  Visits(fs, fs') /\ FilesSame(ftable')
BY SameItself, SameVisits, FilesAreSame DEF Inv, Shapes

\* A call with a bad descriptor keeps the invariant.
LEMMA BadFdKeeps ==
  ASSUME NEW calls, NEW texts, Inv(calls, texts), NEW p \in Procs, At(p, "user"),
         user[p].prog # <<>>, BadFd(p)
  PROVE  Inv(calls, texts)'
<1>1. PICK v, words : v = -1 /\ words = <<>>
  OBVIOUS
<1>2. ReturnWith(p, user[p], v, words) /\ UNCHANGED <<fs, ftable>>
  BY <1>1 DEF BadFd, Return
<1>3. Visits(fs, fs') /\ FilesSame(ftable')
  BY <1>2, StaySame
<1> QED
  BY <1>2, <1>3, UserReturns

\* A file of p.
LEMMA FileIs ==
  ASSUME NEW calls, NEW texts, Inv(calls, texts), NEW p \in Procs, HasFile(p)
  PROVE  /\ FileOf(p) \in Files /\ Cur(p).fd \in Fds /\ IsFile(ftable[FileOf(p)])
         /\ ftable[FileOf(p)].type = "inode" => ftable[FileOf(p)].ip \in Slots
<1>1. IsUser(user[p], calls) /\ \A f \in Files : IsFile(ftable[f])
  BY DEF Inv, Shapes
<1>2. PICK f, d : f = FileOf(p) /\ d = Cur(p).fd
  OBVIOUS
<1>3. d \in Fds /\ f # None /\ f = user[p].ofile[d]
  BY <1>2 DEF HasFile, FileOf
<1>4. f \in Files
  BY <1>1, <1>3 DEF IsUser
<1>5. ftable[f].type = "inode" => ftable[f].ip \in Slots
  BY <1>1, <1>4 DEF IsFile, Ptr
<1> QED
  BY <1>1, <1>2, <1>3, <1>4, <1>5

\* The inode of a file is locked and unlocked.
LEMMA InodeVisit ==
  ASSUME NEW calls, NEW texts, Inv(calls, texts), NEW p, NEW s \in Slots, LockFree(fs, s)
  PROVE  Visits(fs, Iunlock(Ilock(fs, s, p), s))
<1>1. IsSystem(fs)
  BY DEF Inv, Shapes
<1>2. PICK f : f = Ilock(fs, s, p)
  OBVIOUS
<1>3. Same(f, f)
  BY <1>1, <1>2, LockedIs
<1> QED
  BY <1>1, <1>2, <1>3, LockedVisit

\* Fstat keeps the invariant.
LEMMA FstatKeeps ==
  ASSUME NEW calls, NEW texts, Inv(calls, texts), NEW p \in Procs, Fstat(p)
  PROVE  Inv(calls, texts)'
<1>1. PICK n, s, f, v, words : /\ n = FileOf(p) /\ s = ftable[n].ip /\ f = Ilock(fs, s, p)
                               /\ v = f.icache[s].copy.nlink /\ words = <<>>
  OBVIOUS
<1>2. At(p, "user") /\ user[p].prog # <<>>
  BY DEF Fstat, Calling
<1>3. CASE BadFd(p)
  BY <1>2, <1>3, BadFdKeeps
<1>4. CASE /\ HasFile(p) /\ ftable[n].type = "inode" /\ LockFree(fs, s) /\ fs' = Iunlock(f, s)
           /\ ReturnWith(p, user[p], v, words) /\ ftable' = ftable
  <2>1. s \in Slots
    BY <1>1, <1>4, FileIs
  <2>2. Visits(fs, fs')
    BY <1>1, <1>4, <2>1, InodeVisit
  <2>3. FilesSame(ftable')
    BY <1>4, FilesAreSame
  <2> QED
    BY <1>2, <1>4, <2>2, <2>3, UserReturns
<1> QED
  BY <1>1, <1>3, <1>4 DEF Fstat, Return

\* ReadInode keeps the invariant.
LEMMA ReadInodeKeeps ==
  ASSUME NEW calls, NEW texts, Inv(calls, texts), NEW p \in Procs, ReadInode(p)
  PROVE  Inv(calls, texts)'
<1>1. PICK n, s, f, words, v, x :
        /\ n = FileOf(p) /\ s = ftable[n].ip /\ f = Ilock(fs, s, p)
        /\ words = ReadWords(f, s, ftable[n].off, Cur(p).n)
        /\ v = Len(words) /\ x = ftable[n].off + v
  OBVIOUS
<1>2. /\ At(p, "user") /\ user[p].prog # <<>> /\ HasFile(p) /\ ftable[n].type = "inode"
      /\ LockFree(fs, s) /\ fs' = Iunlock(f, s) /\ ReturnWith(p, user[p], v, words)
      /\ ftable' = [ftable EXCEPT ![n].off = x]
  BY <1>1 DEF ReadInode, Calling
<1>3. s \in Slots /\ n \in Files
  BY <1>1, <1>2, FileIs
<1>4. Visits(fs, fs')
  BY <1>1, <1>2, <1>3, InodeVisit
<1>5. FilesSame(ftable')
  BY <1>2, <1>3, FilesAreSame
<1> QED
  BY <1>2, <1>4, <1>5, UserReturns

\* A read or a write that the file's mode forbids keeps the invariant.
LEMMA RefusedKeeps ==
  ASSUME NEW calls, NEW texts, Inv(calls, texts), NEW p \in Procs, ReadRefused(p) \/ WriteRefused(p)
  PROVE  Inv(calls, texts)'
BY BadFdKeeps DEF ReadRefused, WriteRefused, Calling

\* WriteDevice keeps the invariant.
LEMMA WriteDeviceKeeps ==
  ASSUME NEW calls, NEW texts, Inv(calls, texts), NEW p \in Procs, WriteDevice(p)
  PROVE  Inv(calls, texts)'
<1>1. PICK n, s, f, v, words : /\ n = FileOf(p) /\ s = ftable[n].ip /\ f = Ilock(fs, s, p)
                               /\ v = Len(Cur(p).words) /\ words = <<>>
  OBVIOUS
<1>2. /\ At(p, "user") /\ user[p].prog # <<>> /\ HasFile(p) /\ ftable[n].type = "inode"
      /\ LockFree(fs, s) /\ fs' = Iunlock(f, s) /\ ReturnWith(p, user[p], v, words)
      /\ ftable' = ftable
  BY <1>1 DEF WriteDevice, Calling, Return
<1>3. s \in Slots
  BY <1>1, <1>2, FileIs
<1>4. Visits(fs, fs')
  BY <1>1, <1>2, <1>3, InodeVisit
<1>5. FilesSame(ftable')
  BY <1>2, FilesAreSame
<1> QED
  BY <1>2, <1>4, <1>5, UserReturns

\* ReadPipe keeps the invariant.
LEMMA ReadPipeKeeps ==
  ASSUME NEW calls, NEW texts, Inv(calls, texts), NEW p \in Procs, ReadPipe(p)
  PROVE  Inv(calls, texts)'
<1>1. PICK q : q = pipes[ftable[FileOf(p)].pipe].words
  OBVIOUS
<1>2. PICK v : v = Min({Cur(p).n, Len(q)})
  OBVIOUS
<1>3. PICK words : words = SubSeq(q, 1, v)
  OBVIOUS
<1>4. /\ At(p, "user") /\ user[p].prog # <<>> /\ ReturnWith(p, user[p], v, words)
      /\ UNCHANGED <<fs, ftable>>
  BY <1>1, <1>2, <1>3 DEF ReadPipe, Calling
<1>5. Visits(fs, fs') /\ FilesSame(ftable')
  BY <1>4, StaySame
<1> QED
  BY <1>4, <1>5, UserReturns

\* A write that has not written everything.
LEMMA WritesOn ==
  ASSUME NEW calls, NEW texts, Inv(calls, texts), NEW p \in Procs, At(p, "user"),
         NEW words \in Seq(texts), NEW k, k = [kern[p] EXCEPT !.words = words], Step(p, k),
         user' = user, Visits(fs, fs'), FilesSame(ftable')
  PROVE  Inv(calls, texts)'
<1>1. PICK l, u : l = kern[p] /\ u = user[p]
  OBVIOUS
<1>2. /\ Up /\ l.put = None /\ Holds(l) = {} /\ IsKern(l, texts) /\ IsUser(u, calls) /\ ProcInv(u, l)
      /\ l.pc = "user" /\ Place(l) = "user" /\ \A s \in Slots : PtrCount(l, s) = 0
  BY <1>1, AtUser
<1>3. /\ IsKern(k, texts) /\ k.pc = l.pc /\ k.put = l.put /\ k.at = l.at /\ k.ip = l.ip
      /\ k.dp = l.dp /\ k.then = l.then /\ k.else = l.else /\ k.parent = l.parent
  BY <1>1, <1>2 DEF IsKern, KernFields
<1>4. Place(k) = Place(l) /\ Holds(k) = {}
  BY <1>2, <1>3 DEF Place, Iputs, Holds, Below, Frees, HoldsIp, HoldsDp
<1>5. ProcInv(u, k)
  <2>1. PtrInv(k)
    BY <1>2, <1>3, <1>4 DEF ProcInv, PtrInv, Iputs
  <2> QED
    BY <1>2, <1>3, <1>4, <2>1 DEF ProcInv, Frees
<1>6. user' = [user EXCEPT ![p] = u]
  BY <1>1 DEF Inv, Shapes
<1>7. Becomes(calls, texts, p, u, k)
  BY <1>2, <1>3, <1>5, <1>6 DEF Becomes, Step
<1>8. SameTotals(p, u, k)
  BY <1>1, <1>3 DEF SameTotals, Total, PtrCount
<1> QED
  BY <1>1, <1>2, <1>4, <1>7, <1>8, FilesVisit

\* What is left to write.
LEMMA TodoIs ==
  ASSUME NEW calls, NEW texts, AreCalls(calls, texts), Inv(calls, texts), NEW p \in Procs,
         Calling(p, "write"), NEW todo,
         todo = IF kern[p].words = <<>> THEN Cur(p).words ELSE kern[p].words
  PROVE  /\ At(p, "user") /\ user[p].prog # <<>>
         /\ todo \in Seq(texts) /\ Len(todo) \in Nat
         /\ \A n \in Nat : n <= Len(todo) => SubSeq(todo, n + 1, Len(todo)) \in Seq(texts)
<1>1. At(p, "user") /\ user[p].prog # <<>> /\ Cur(p).op = "write"
  BY DEF Calling
<1>2. IsKern(kern[p], texts) /\ IsUser(user[p], calls)
  BY DEF Inv, Shapes
<1>3. Cur(p) \in calls
  <2>1. PICK s : s = user[p].prog
    OBVIOUS
  <2>2. s \in Seq(calls) /\ s # <<>>
    BY <1>1, <1>2, <2>1 DEF IsUser
  <2>3. Head(s) \in calls
    BY <2>2
  <2> QED
    BY <2>1, <2>3 DEF Cur
<1>4. Cur(p).words \in Seq(texts)
  BY <1>1, <1>3 DEF AreCalls
<1>5. kern[p].words \in Seq(texts)
  BY <1>2 DEF IsKern
<1>6. todo \in Seq(texts)
  BY <1>4, <1>5
<1>7. Len(todo) \in Nat
  BY <1>6
<1>8. ASSUME NEW n \in Nat, n <= Len(todo) PROVE SubSeq(todo, n + 1, Len(todo)) \in Seq(texts)
  BY <1>6, <1>7, <1>8
<1> QED
  BY <1>1, <1>6, <1>7, <1>8

\* WriteInode keeps the invariant.
LEMMA WriteInodeKeeps ==
  ASSUME NEW calls, NEW texts, AreCalls(calls, texts), Inv(calls, texts), NEW p \in Procs, WriteInode(p)
  PROVE  Inv(calls, texts)'
<1>1. PICK h, s, off, f, todo :
        /\ h = FileOf(p) /\ s = ftable[h].ip /\ off = ftable[h].off /\ f = Ilock(fs, s, p)
        /\ todo = IF kern[p].words = <<>> THEN Cur(p).words ELSE kern[p].words
  OBVIOUS
<1>2. PICK n : n = Min({Len(todo), MaxGroup})
  OBVIOUS
<1>3. PICK group : group = [i \in 1 .. n |-> <<0, todo[i]>>]
  OBVIOUS
<1>4. PICK g : g = WriteWords(f, s, off, group)
  OBVIOUS
<1>5. PICK x, v, words, rest, k :
        /\ x = off + n /\ v = Len(Cur(p).words) /\ words = <<>>
        /\ rest = SubSeq(todo, n + 1, Len(todo)) /\ k = [kern[p] EXCEPT !.words = rest]
  OBVIOUS
<1>6. PICK w : w = -1
  OBVIOUS
<1>7. /\ Calling(p, "write") /\ HasFile(p) /\ ftable[h].type = "inode" /\ LockFree(fs, s)
      /\ \/ fs' = Iunlock(f, s) /\ ReturnWith(p, user[p], w, words) /\ ftable' = ftable
         \/ /\ fs' = Iunlock(g, s) /\ ftable' = [ftable EXCEPT ![h].off = x]
            /\ \/ ReturnWith(p, user[p], v, words)
               \/ Step(p, k) /\ user' = user
  BY <1>1, <1>2, <1>3, <1>4, <1>5, <1>6 DEF WriteInode, Return
<1>8. /\ At(p, "user") /\ user[p].prog # <<>> /\ todo \in Seq(texts) /\ Len(todo) \in Nat
      /\ \A j \in Nat : j <= Len(todo) => SubSeq(todo, j + 1, Len(todo)) \in Seq(texts)
  BY <1>1, <1>7, TodoIs
<1>9. n \in Nat /\ n <= Len(todo)
  <2>1. MaxGroup \in Nat
    BY TablesAssumption
  <2>2. PICK T : T = {Len(todo), MaxGroup}
    OBVIOUS
  <2>3. T \in SUBSET Nat /\ T # {}
    BY <1>8, <2>1, <2>2
  <2>4. Min(T) \in T /\ \A j \in T : Min(T) <= j
    BY <2>3, MinIs
  <2> QED
    BY <1>2, <1>8, <2>1, <2>2, <2>4
<1>10. s \in Slots /\ h \in Files
  BY <1>1, <1>7, FileIs
<1>11. IsSystem(fs)
  BY DEF Inv, Shapes
<1>12. Same(f, f) /\ IsSystem(f)
  BY <1>1, <1>10, <1>11, LockedIs
<1>13. Same(f, g)
  <2>1. Len(group) = n
    BY <1>3, <1>9
  <2> QED
    BY <1>4, <1>9, <1>10, <1>12, <2>1, WriteWordsSame
<1>14. FilesSame(ftable')
  BY <1>7, <1>10, FilesAreSame
<1>15. Visits(fs, fs')
  BY <1>1, <1>7, <1>10, <1>11, <1>12, <1>13, LockedVisit
<1>16. CASE ReturnWith(p, user[p], w, words)
  BY <1>8, <1>14, <1>15, <1>16, UserReturns
<1>17. CASE ReturnWith(p, user[p], v, words)
  BY <1>8, <1>14, <1>15, <1>17, UserReturns
<1>18. CASE Step(p, k) /\ user' = user
  <2>1. rest \in Seq(texts)
    BY <1>5, <1>8, <1>9
  <2> QED
    BY <1>5, <1>8, <1>14, <1>15, <1>18, <2>1, WritesOn
<1> QED
  BY <1>7, <1>16, <1>17, <1>18

\* The pipes hold what was written, and no more than fits.
PipeFields == {"words", "readopen", "writeopen"}
IsPipe(q, texts) ==
  /\ q = [x \in PipeFields |-> q[x]]
  /\ q.words \in Seq(texts) /\ Len(q.words) <= PIPESIZE
PipeInv(texts) ==
  pipes = [f \in Files |-> pipes[f]] /\ \A f \in Files : IsPipe(pipes[f], texts)

\* The number of words that a write to a pipe moves.
LEMMA PipeRoom ==
  ASSUME NEW texts, NEW q, IsPipe(q, texts), NEW todo \in Seq(texts)
  PROVE  LET n == Min({Len(todo), PIPESIZE - Len(q.words)}) IN
         n \in Nat /\ n <= Len(todo) /\ n <= PIPESIZE - Len(q.words)
<1>1. Len(q.words) \in Nat /\ PIPESIZE \in Nat /\ Len(todo) \in Nat /\ Len(q.words) <= PIPESIZE
  BY TablesAssumption DEF IsPipe
<1>2. PICK T : T = {Len(todo), PIPESIZE - Len(q.words)}
  OBVIOUS
<1>3. T \in SUBSET Nat /\ T # {}
  BY <1>1, <1>2
<1>4. Min(T) \in T /\ \A j \in T : Min(T) <= j
  BY <1>3, MinIs
<1>5. Min(T) \in Nat /\ Min(T) <= Len(todo) /\ Min(T) <= PIPESIZE - Len(q.words)
  BY <1>2, <1>3, <1>4
<1> QED
  BY <1>2, <1>5

\* WritePipe keeps the invariant.
LEMMA WritePipeKeeps ==
  ASSUME NEW calls, NEW texts, AreCalls(calls, texts), Inv(calls, texts), PipeInv(texts),
         NEW p \in Procs, WritePipe(p)
  PROVE  Inv(calls, texts)'
<1>1. PICK e, q, todo :
        /\ e = ftable[FileOf(p)] /\ q = pipes[e.pipe]
        /\ todo = IF kern[p].words = <<>> THEN Cur(p).words ELSE kern[p].words
  OBVIOUS
<1>2. PICK n : n = Min({Len(todo), PIPESIZE - Len(q.words)})
  OBVIOUS
<1>3. PICK v, words, rest, k :
        /\ v = Len(Cur(p).words) /\ words = <<>>
        /\ rest = SubSeq(todo, n + 1, Len(todo)) /\ k = [kern[p] EXCEPT !.words = rest]
  OBVIOUS
<1>4. PICK w : w = -1
  OBVIOUS
<1>5. /\ Calling(p, "write") /\ HasFile(p) /\ e.type = "pipe" /\ UNCHANGED <<fs, ftable>>
      /\ \/ ReturnWith(p, user[p], v, words)
         \/ ReturnWith(p, user[p], w, words)
         \/ Step(p, k) /\ user' = user
  BY <1>1, <1>2, <1>3, <1>4 DEF WritePipe, Return
<1>6. /\ At(p, "user") /\ user[p].prog # <<>> /\ todo \in Seq(texts) /\ Len(todo) \in Nat
      /\ \A j \in Nat : j <= Len(todo) => SubSeq(todo, j + 1, Len(todo)) \in Seq(texts)
  BY <1>1, <1>5, TodoIs
<1>7. IsPipe(q, texts)
  BY <1>1, <1>5, FileIs DEF PipeInv, IsFile
<1>8. n \in Nat /\ n <= Len(todo)
  BY <1>2, <1>6, <1>7, PipeRoom
<1>9. Visits(fs, fs') /\ FilesSame(ftable')
  BY <1>5, StaySame
<1>10. CASE ReturnWith(p, user[p], w, words)
  BY <1>6, <1>9, <1>10, UserReturns
<1>11. CASE ReturnWith(p, user[p], v, words)
  BY <1>6, <1>9, <1>11, UserReturns
<1>12. CASE Step(p, k) /\ user' = user
  <2>1. rest \in Seq(texts)
    BY <1>3, <1>6, <1>8
  <2> QED
    BY <1>3, <1>6, <1>9, <1>12, <2>1, WritesOn
<1> QED
  BY <1>5, <1>10, <1>11, <1>12

-----------------------------------------------------------------------------
(* Descriptors                                                             *)

\* A file that somebody has open is counted.
LEMMA DescCounted ==
  ASSUME NEW calls, NEW texts, Inv(calls, texts), NEW p \in Procs, NEW d \in Fds, NEW f \in Files,
         user[p].ofile[d] = f
  PROVE  ftable[f].ref \in Nat /\ ftable[f].ref > 0
<1>1. PICK X : X = {pd \in Procs \X Fds : user[pd[1]].ofile[pd[2]] = f}
  OBVIOUS
<1>2. X \in SUBSET (Procs \X Fds) /\ <<p, d>> \in X
  BY <1>1
<1>3. Cardinality(X) \in Nat /\ Cardinality(X) # 0
  <2>1. IsFiniteSet(Procs \X Fds)
    BY Finite, FS_Product
  <2> QED
    BY <1>2, <2>1, FS_Subset, FS_CardinalityType, FS_EmptySet
<1>4. ftable[f].ref = Cardinality(X)
  BY <1>1 DEF Inv, Refs, Descs
<1> QED
  BY <1>3, <1>4

\* What fileclose makes of the entry n.
Closed(n) == IF ftable[n].ref > 1 THEN [ftable[n] EXCEPT !.ref = @ - 1] ELSE NoFile

\* A file with a reference less: the last one takes its inode.
LEMMA ClosedIs ==
  ASSUME NEW n \in Files, ftable = [f \in Files |-> ftable[f]], IsFile(ftable[n]), ftable[n].ref > 0,
         NEW e, e = Closed(n)
  PROVE  /\ IsFile(e) /\ Fileclose(n) = [ftable EXCEPT ![n] = e] /\ e.ref = ftable[n].ref - 1
         /\ ~Closes(n, "inode") => \A s : IsOpen(e, s) <=> IsOpen(ftable[n], s)
         /\ Closes(n, "inode") => \A s : ~IsOpen(e, s) /\ (IsOpen(ftable[n], s) <=> ftable[n].ip = s)
<1>0. ftable[n].ref \in Int
  BY DEF IsFile
<1>1. CASE ftable[n].ref > 1
  <2>1. /\ e = [x \in FileFields |-> e[x]] /\ e.ref = ftable[n].ref - 1
        /\ e.type = ftable[n].type /\ e.ip = ftable[n].ip /\ e.pipe = ftable[n].pipe
    BY <1>1 DEF IsFile, FileFields, Closed
  <2>2. IsFile(e)
    BY <1>0, <1>1, <2>1 DEF IsFile
  <2>3. Fileclose(n) = [ftable EXCEPT ![n] = e]
    BY <1>1 DEF Fileclose, Closed
  <2>4. \A s : IsOpen(e, s) <=> IsOpen(ftable[n], s)
    BY <1>0, <1>1, <2>1 DEF IsOpen
  <2> QED
    BY <1>0, <1>1, <2>1, <2>2, <2>3, <2>4 DEF Closes
<1>2. CASE ~(ftable[n].ref > 1)
  <2>1. e = NoFile /\ ftable[n].ref = 1
    BY <1>0, <1>2 DEF Closed
  <2>2. e.ref = 0 /\ e.type = "none" /\ e.ip = None /\ e = [x \in FileFields |-> e[x]]
    BY <2>1 DEF NoFile, FileFields
  <2>3. IsFile(e)
    BY <2>2 DEF IsFile, Ptr
  <2>4. Fileclose(n) = [ftable EXCEPT ![n] = e]
    BY <1>2, <2>1 DEF Fileclose
  <2>5. \A s : ~IsOpen(e, s) /\ (IsOpen(ftable[n], s) <=> ftable[n].type = "inode" /\ ftable[n].ip = s)
    BY <2>1, <2>2 DEF IsOpen
  <2> QED
    BY <2>1, <2>2, <2>3, <2>4, <2>5 DEF Closes
<1> QED
  BY <1>1, <1>2

\* Nothing in the file system changes.
LEMMA StaysFs ==
  ASSUME NEW calls, NEW texts, Inv(calls, texts), Up, NEW p \in Procs, NEW k,
         Holds(k) = Holds(kern[p]), fs' = fs
  PROVE  FsBecomes(p, k)
BY LocksStay DEF FsBecomes, SameLocks, Inv, Shapes, UpInv

Closing(p, place) == place = "exitNext" \/ (place = "return" /\ user[p].prog # <<>>)

\* A descriptor that is closed: the call has the inode to put if it was the file's last.
LEMMA CloseThenKeeps ==
  ASSUME NEW calls, NEW texts, Inv(calls, texts), NEW p \in Procs, At(p, "user"), NEW d \in Fds,
         NEW n, n = user[p].ofile[d], n # None, NEW w, w = [user[p] EXCEPT !.ofile[d] = None],
         NEW place, Closing(p, place), CloseThen(p, w, n, place)
  PROVE  Inv(calls, texts)'
<1>1. PICK k : k = kern[p]
  OBVIOUS
<1>2. /\ Up /\ k.pc = "user" /\ k.put = None /\ k.at = None /\ k.ip = None /\ k.dp = None
      /\ Holds(k) = {} /\ IsKern(k, texts) /\ IsUser(user[p], calls)
      /\ user[p].st = "running" /\ user[p].cwd \in Slots
      /\ \A s \in Slots : PtrCount(k, s) = 0 /\ fs.icache[s].ref \in Int
  BY <1>1, AtUser, RefType
<1>3. n \in Files
  BY <1>2 DEF IsUser
<1>4. ftable = [f \in Files |-> ftable[f]] /\ \A f \in Files : IsFile(ftable[f])
  BY DEF Inv, Shapes
<1>5. ftable[n].ref > 0
  BY <1>3, DescCounted
<1>6. PICK e : e = Closed(n)
  OBVIOUS
<1>7. /\ IsFile(e) /\ ftable' = [ftable EXCEPT ![n] = e] /\ e.ref = ftable[n].ref - 1
      /\ ~Closes(n, "inode") => \A s : IsOpen(e, s) <=> IsOpen(ftable[n], s)
      /\ Closes(n, "inode") => \A s : ~IsOpen(e, s) /\ (IsOpen(ftable[n], s) <=> ftable[n].ip = s)
  <2>1. ftable' = Fileclose(n)
    BY DEF CloseThen
  <2> QED
    BY <1>3, <1>4, <1>5, <1>6, <2>1, ClosedIs
<1>8. PICK x : x = None
  OBVIOUS
<1>9. /\ w = [y \in UserFields |-> w[y]] /\ w.ofile = [user[p].ofile EXCEPT ![d] = x]
      /\ w.cwd = user[p].cwd /\ w.prog = user[p].prog /\ w.st = user[p].st
  BY <1>2, <1>8 DEF IsUser, UserFields
<1>10. IsUser(w, calls)
  BY <1>2, <1>8, <1>9 DEF IsUser
<1>11. fs' = fs
  BY DEF CloseThen
<1>12. DescsMove(p, n, e, d, x)
  <2>1. \A f \in Files : ftable[f].ref \in Int
    BY <1>4 DEF IsFile
  <2> QED
    BY <1>3, <1>7, <1>8, <2>1, Constants DEF DescsMove, Bit
<1>13. ASSUME NEW u, NEW m, Becomes(calls, texts, p, u, m), u.ofile = w.ofile, u.cwd = w.cwd,
              Holds(m) = {}, OpensMove(p, u, m, n, e)
       PROVE  Inv(calls, texts)'
  <2>1. FsBecomes(p, m)
    BY <1>1, <1>2, <1>11, <1>13, StaysFs
  <2> QED
    BY <1>2, <1>3, <1>7, <1>9, <1>12, <1>13, <2>1, FileMoves
<1>14. CASE Closes(n, "inode")
  <2>1. PICK u, s, m : u = [w EXCEPT !.inop = TRUE] /\ s = ftable[n].ip /\ m = Iput(k, s, place)
    OBVIOUS
  <2>2. user' = [user EXCEPT ![p] = u] /\ Step(p, m)
    BY <1>1, <1>14, <2>1 DEF CloseThen
  <2>3. s \in Slots
    BY <1>3, <1>4, <1>14, <2>1 DEF IsFile, Ptr, Closes
  <2>4. /\ IsUser(u, calls) /\ u.inop /\ u.st = "running" /\ u.prog = w.prog
        /\ u.cwd = w.cwd /\ u.ofile = w.ofile
    BY <1>2, <1>9, <1>10, <2>1 DEF IsUser, UserFields
  <2>5. /\ IsKern(m, texts) /\ m.pc = "iput" /\ m.put = s /\ m.after = place /\ m.at = None
        /\ m.ip = None /\ m.dp = None
    <3>1. s \in Ptr
      BY <2>3 DEF Ptr
    <3>2. IsKern(k, texts) /\ k.at = None /\ k.ip = None /\ k.dp = None
      BY <1>2
    <3> QED
      BY ONLY <2>1, <3>1, <3>2, IputIs
  <2>6. Place(m) = place /\ Holds(m) = {}
    <3>1. place \notin HoldsIp \cup HoldsDp
      BY DEF Closing, HoldsIp, HoldsDp
    <3> QED
      BY <2>5, <3>1 DEF Place, Iputs, Holds, Below, Frees
  <2>7. ProcInv(u, m)
    <3>1. place \in Without /\ place \notin {"walk", "chdirSet", "exited"} /\ place \notin WithIp \cup WithDp
      BY DEF Closing, Without, WithIp, WithDp
    <3>2. PtrInv(m)
      BY <2>3, <2>5, <2>6, <3>1, Constants DEF PtrInv, Iputs
    <3>3. place \notin {"user", "exitNext", "exited"} => u.prog # <<>>
      BY <1>9, <2>4 DEF Closing
    <3> QED
      BY <1>2, <1>9, <2>4, <2>5, <2>6, <3>1, <3>2, <3>3, Constants DEF ProcInv, Frees
  <2>8. Becomes(calls, texts, p, u, m)
    BY <2>2, <2>4, <2>5, <2>7 DEF Becomes, Step
  <2>9. OpensMove(p, u, m, n, e)
    <3>1. ASSUME NEW t \in Slots
          PROVE  /\ PtrCount(m, t) = Bit(s = t) /\ Bit(IsOpen(ftable[n], t)) = Bit(s = t)
                 /\ Bit(IsOpen(e, t)) = 0
      <4>1. t # None
        BY Constants
      <4>2. PtrCount(m, t) = Bit(s = t)
        BY ONLY <2>5, <4>1 DEF PtrCount, Bit
      <4>3. IsOpen(ftable[n], t) <=> s = t
        BY <1>7, <1>14, <2>1
      <4>4. ~IsOpen(e, t)
        BY <1>7, <1>14
      <4> QED
        BY ONLY <4>2, <4>3, <4>4 DEF Bit
    <3> QED
      BY <1>1, <1>2, <1>9, <1>11, <2>4, <3>1 DEF OpensMove, Bit
  <2> QED
    BY <1>13, <2>4, <2>6, <2>8, <2>9
<1>15. CASE ~Closes(n, "inode")
  <2>1. ASSUME NEW u, NEW m, u.cwd = user[p].cwd, \A s \in Slots : PtrCount(m, s) = 0
        PROVE  OpensMove(p, u, m, n, e)
    <3>1. \A s \in Slots : Bit(IsOpen(ftable[n], s)) = Bit(IsOpen(e, s))
      BY <1>7, <1>15 DEF Bit
    <3> QED
      BY <1>1, <1>2, <1>11, <2>1, <3>1 DEF OpensMove, Bit
  <2>2. CASE place = "return"
    <3>1. PICK v, words : v = 0 /\ words = <<>>
      OBVIOUS
    <3>2. ReturnWith(p, w, v, words) /\ w.prog # <<>>
      BY <1>9, <1>15, <2>2, <3>1 DEF CloseThen, Closing
    <3>3. PICK u : Becomes(calls, texts, p, u, Idle) /\ u.ofile = w.ofile /\ u.cwd = w.cwd
      <4>1. w.st = "running" /\ w.cwd # None
        BY <1>2, <1>9, Constants
      <4>2. Inv(calls, texts) /\ Up /\ ReturnWith(p, w, v, words) /\ w.prog # <<>> /\ p \in Procs
        BY <1>2, <3>2
      <4> QED
        BY ONLY <1>10, <4>1, <4>2, Returns
    <3> QED
      BY <1>9, <1>13, <2>1, <3>3, IdleIs
  <2>3. CASE place = "exitNext"
    <3>1. PICK m : m = [k EXCEPT !.pc = place]
      OBVIOUS
    <3>2. user' = [user EXCEPT ![p] = w] /\ Step(p, m)
      BY <1>1, <1>15, <2>3, <3>1 DEF CloseThen
    <3>3. /\ IsKern(m, texts) /\ m.pc = "exitNext" /\ m.put = None /\ m.at = None
          /\ m.ip = None /\ m.dp = None
      BY <1>2, <2>3, <3>1 DEF IsKern, KernFields
    <3>4. Place(m) = "exitNext" /\ Holds(m) = {}
      BY <3>3 DEF Place, Iputs, Holds, Below, Frees, HoldsIp, HoldsDp
    <3>5. PtrInv(m)
      BY <3>3, <3>4 DEF PtrInv, Iputs, WithIp, WithDp, Without
    <3>6. ProcInv(w, m)
      BY <1>2, <1>9, <3>3, <3>4, <3>5, Constants DEF ProcInv, Frees
    <3>7. Becomes(calls, texts, p, w, m)
      BY <1>10, <3>2, <3>3, <3>6 DEF Becomes, Step
    <3>8. \A s \in Slots : PtrCount(m, s) = 0
      BY <3>3, Constants DEF PtrCount, Bit
    <3> QED
      BY <1>9, <1>13, <2>1, <3>4, <3>7, <3>8
  <2> QED
    BY <2>2, <2>3 DEF Closing
<1> QED
  BY <1>14, <1>15

\* Close keeps the invariant.
LEMMA CloseKeeps ==
  ASSUME NEW calls, NEW texts, Inv(calls, texts), NEW p \in Procs, Close(p)
  PROVE  Inv(calls, texts)'
<1>1. PICK n, d, w, place : /\ n = FileOf(p) /\ d = Cur(p).fd /\ place = "return"
                            /\ w = [user[p] EXCEPT !.ofile[d] = None]
  OBVIOUS
<1>2. /\ At(p, "user") /\ user[p].prog # <<>>
      /\ IF HasFile(p) THEN CloseThen(p, w, n, place) ELSE BadFd(p)
  BY <1>1 DEF Close, Calling
<1>3. CASE BadFd(p)
  BY <1>2, <1>3, BadFdKeeps
<1>4. CASE HasFile(p) /\ CloseThen(p, w, n, place)
  <2>1. d \in Fds /\ n # None /\ n = user[p].ofile[d] /\ Closing(p, place)
    BY <1>1, <1>2, <1>4 DEF HasFile, FileOf, Closing
  <2> QED
    BY <1>1, <1>2, <1>4, <2>1, CloseThenKeeps
<1> QED
  BY <1>2, <1>3, <1>4

\* ExitClose keeps the invariant.
LEMMA ExitCloseKeeps ==
  ASSUME NEW calls, NEW texts, Inv(calls, texts), NEW p \in Procs, ExitClose(p)
  PROVE  Inv(calls, texts)'
<1>1. PICK d : d = Min(OpenFds(p))
  OBVIOUS
<1>2. PICK n, w, place : /\ n = user[p].ofile[d] /\ place = "exitNext"
                         /\ w = [user[p] EXCEPT !.ofile[d] = None]
  OBVIOUS
<1>3. At(p, "user") /\ CloseThen(p, w, n, place) /\ OpenFds(p) # {}
  BY <1>1, <1>2 DEF ExitClose
<1>4. d \in OpenFds(p)
  <2>1. PICK T : T = OpenFds(p)
    OBVIOUS
  <2>2. T \in SUBSET Nat /\ T # {}
    BY <1>3, <2>1, Constants DEF OpenFds
  <2> QED
    BY <1>1, <2>1, <2>2, MinIs
<1>5. d \in Fds /\ n # None /\ Closing(p, place)
  BY <1>2, <1>4 DEF OpenFds, Closing
<1> QED
  BY <1>2, <1>3, <1>5, CloseThenKeeps

\* Dup keeps the invariant.
LEMMA DupKeeps ==
  ASSUME NEW calls, NEW texts, Inv(calls, texts), NEW p \in Procs, Dup(p)
  PROVE  Inv(calls, texts)'
<1>1. PICK n, d, e, w :
        /\ n = FileOf(p) /\ d = Min(FreeFd(p)) /\ e = [ftable[n] EXCEPT !.ref = @ + 1]
        /\ w = [user[p] EXCEPT !.ofile[d] = n]
  OBVIOUS
<1>2. PICK words : words = <<>>
  OBVIOUS
<1>3. At(p, "user") /\ user[p].prog # <<>>
  BY DEF Dup, Calling
<1>4. CASE BadFd(p)
  BY <1>3, <1>4, BadFdKeeps
<1>5. CASE /\ HasFile(p) /\ FreeFd(p) # {} /\ ftable' = [ftable EXCEPT ![n] = e]
           /\ ReturnWith(p, w, d, words) /\ fs' = fs
  <2>1. n \in Files /\ d \in Fds /\ user[p].ofile[d] = None /\ IsFile(ftable[n])
    BY <1>1, <1>5, FileIs, FreeIs
  <2>2. ftable[n].ref \in Nat /\ ftable[n].ref > 0
    <3>1. PICK b : b = Cur(p).fd
      OBVIOUS
    <3>2. b \in Fds /\ user[p].ofile[b] = n
      BY <1>1, <1>5, <3>1 DEF HasFile, FileOf
    <3> QED
      BY <2>1, <3>2, DescCounted
  <2>3. /\ e = [x \in FileFields |-> e[x]] /\ e.ref = ftable[n].ref + 1
        /\ e.type = ftable[n].type /\ e.ip = ftable[n].ip /\ e.pipe = ftable[n].pipe
    BY <1>1, <2>1 DEF IsFile, FileFields
  <2>4. IsFile(e)
    BY <2>1, <2>2, <2>3 DEF IsFile
  <2>5. /\ Up /\ Holds(kern[p]) = {} /\ IsUser(user[p], calls) /\ user[p].st = "running"
        /\ user[p].cwd \in Slots /\ \A s \in Slots : PtrCount(kern[p], s) = 0
    BY <1>3, AtUser
  <2>6. /\ w = [y \in UserFields |-> w[y]] /\ w.ofile = [user[p].ofile EXCEPT ![d] = n]
        /\ w.cwd = user[p].cwd /\ w.prog = user[p].prog /\ w.st = user[p].st
    BY <1>1, <2>5 DEF IsUser, UserFields
  <2>7. IsUser(w, calls)
    BY <2>1, <2>5, <2>6 DEF IsUser
  <2>8. PICK u : Becomes(calls, texts, p, u, Idle) /\ u.ofile = w.ofile /\ u.cwd = w.cwd
    <3>1. w.st = "running" /\ w.cwd # None /\ w.prog # <<>>
      BY <1>3, <2>5, <2>6, Constants
    <3>2. Inv(calls, texts) /\ Up /\ ReturnWith(p, w, d, words) /\ p \in Procs
      BY <1>5, <2>5
    <3> QED
      BY ONLY <2>7, <3>1, <3>2, Returns
  <2>9. FsBecomes(p, Idle)
    BY <1>5, <2>5, IdleIs, StaysFs
  <2>10. OpensMove(p, u, Idle, n, e)
    <3>1. \A s \in Slots : /\ Bit(IsOpen(ftable[n], s)) = Bit(IsOpen(e, s))
                           /\ fs.icache[s].ref \in Int
      BY <2>2, <2>3, RefType DEF Bit, IsOpen, Inv, Shapes
    <3> QED
      BY <1>5, <2>5, <2>6, <2>8, <3>1, IdleIs DEF OpensMove, Bit
  <2>11. DescsMove(p, n, e, d, n)
    <3>1. \A g \in Files : ftable[g].ref \in Int
      BY DEF Inv, Shapes, IsFile
    <3> QED
      BY <2>1, <2>3, <3>1, Constants DEF DescsMove, Bit
  <2> QED
    BY <1>5, <2>1, <2>4, <2>5, <2>6, <2>8, <2>9, <2>10, <2>11, FileMoves
<1> QED
  BY <1>1, <1>2, <1>4, <1>5 DEF Dup

\* Two free entries, and two free descriptors.
LEMMA TwoFree ==
  ASSUME NEW T \in SUBSET Nat, ~(Cardinality(T) < 2)
  PROVE  /\ Min(T) \in T /\ Min(T \ {Min(T)}) \in T
         /\ Min(T \ {Min(T)}) # Min(T)
<1>1. T # {}
  BY FS_EmptySet
<1>2. PICK r : r = Min(T)
  OBVIOUS
<1>3. r \in T
  BY <1>1, <1>2, MinIs
<1>4. PICK S : S = T \ {r}
  OBVIOUS
<1>5. S # {}
  <2>1. SUFFICES ASSUME S = {} PROVE FALSE
    OBVIOUS
  <2>2. T = {r}
    BY <1>3, <1>4, <2>1
  <2>3. Cardinality({r}) = 1
    BY FS_Singleton
  <2>4. Cardinality(T) = 1
    BY <2>2, <2>3
  <2> QED
    BY <2>4
<1>6. S \in SUBSET Nat
  BY <1>4
<1>7. Min(S) \in S
  BY <1>5, <1>6, MinIs
<1> QED
  BY <1>2, <1>3, <1>4, <1>7

\* PipeCall keeps the invariant.
LEMMA PipeCallKeeps ==
  ASSUME NEW calls, NEW texts, Inv(calls, texts), NEW p \in Procs, PipeCall(p)
  PROVE  Inv(calls, texts)'
<1>1. PICK r, a : r = Min(FreeFile) /\ a = Min(FreeFd(p))
  OBVIOUS
<1>2. PICK w, b : w = Min(FreeFile \ {r}) /\ b = Min(FreeFd(p) \ {a})
  OBVIOUS
<1>3. PICK e, g : /\ e = [NoFile EXCEPT !.type = "pipe", !.ref = 1, !.pipe = r,
                                        !.readable = TRUE, !.writable = FALSE]
                  /\ g = [NoFile EXCEPT !.type = "pipe", !.ref = 1, !.pipe = r,
                                        !.readable = FALSE, !.writable = TRUE]
  OBVIOUS
<1>4. PICK x, v, words : /\ x = [user[p] EXCEPT !.ofile[a] = r, !.ofile[b] = w]
                         /\ v = 0 /\ words = <<>>
  OBVIOUS
<1>5. At(p, "user") /\ user[p].prog # <<>>
  BY DEF PipeCall, Calling
<1>6. CASE BadFd(p)
  BY <1>5, <1>6, BadFdKeeps
<1>7. CASE /\ ~(Cardinality(FreeFile) < 2) /\ ~(Cardinality(FreeFd(p)) < 2)
           /\ ftable' = [ftable EXCEPT ![r] = e, ![w] = g]
           /\ ReturnWith(p, x, v, words) /\ fs' = fs
  <2>1. /\ r \in Files /\ w \in Files /\ r # w /\ ftable[r].ref = 0 /\ ftable[w].ref = 0
        /\ a \in Fds /\ b \in Fds /\ a # b /\ user[p].ofile[a] = None /\ user[p].ofile[b] = None
    <3>1. PICK A, B : A = FreeFile /\ B = FreeFd(p)
      OBVIOUS
    <3>2. A \in SUBSET Nat /\ B \in SUBSET Nat
      BY <3>1, Constants DEF FreeFile, FreeFd
    <3>3. r \in A /\ w \in A /\ r # w
      BY <1>1, <1>2, <1>7, <3>1, <3>2, TwoFree
    <3>4. a \in B /\ b \in B /\ a # b
      BY <1>1, <1>2, <1>7, <3>1, <3>2, TwoFree
    <3> QED
      BY <3>1, <3>3, <3>4 DEF FreeFile, FreeFd
  <2>2. /\ e = [y \in FileFields |-> e[y]] /\ e.ref = 1 /\ e.type = "pipe" /\ e.pipe = r /\ e.ip = None
        /\ g = [y \in FileFields |-> g[y]] /\ g.ref = 1 /\ g.type = "pipe" /\ g.pipe = r /\ g.ip = None
    BY <1>3 DEF NoFile, FileFields
  <2>3. IsFile(e) /\ IsFile(g)
    BY <2>1, <2>2 DEF IsFile, Ptr
  <2>4. ftable = [f \in Files |-> ftable[f]] /\ \A f \in Files : IsFile(ftable[f])
    BY DEF Inv, Shapes
  <2>5. /\ ftable' = [f \in Files |-> ftable'[f]] /\ ftable'[r] = e /\ ftable'[w] = g
        /\ \A f \in Files : f # r /\ f # w => ftable'[f] = ftable[f]
    BY <1>7, <2>1, <2>4
  <2>6. FilesOK(ftable')
    BY <2>3, <2>4, <2>5 DEF FilesOK
  <2>7. /\ Up /\ Holds(kern[p]) = {} /\ IsUser(user[p], calls) /\ user[p].st = "running"
        /\ user[p].cwd \in Slots /\ \A s \in Slots : PtrCount(kern[p], s) = 0
    BY <1>5, AtUser
  <2>8. PICK o1, o2 : o1 = [user[p].ofile EXCEPT ![a] = r] /\ o2 = [o1 EXCEPT ![b] = w]
    OBVIOUS
  <2>9. /\ x = [y \in UserFields |-> x[y]] /\ x.ofile = o2
        /\ x.cwd = user[p].cwd /\ x.prog = user[p].prog /\ x.st = user[p].st
    BY <1>4, <2>7, <2>8 DEF IsUser, UserFields
  <2>10. /\ o1 \in [Fds -> Files \cup {None}] /\ o2 \in [Fds -> Files \cup {None}]
         /\ o1[a] = r /\ o1[b] = None /\ o2[b] = w
         /\ OtherFds(user[p].ofile, o1, a) /\ OtherFds(o1, o2, b)
    BY <2>1, <2>7, <2>8 DEF IsUser, OtherFds
  <2>11. IsUser(x, calls)
    BY <2>7, <2>9, <2>10 DEF IsUser
  <2>12. PICK u : Becomes(calls, texts, p, u, Idle) /\ u.ofile = x.ofile /\ u.cwd = x.cwd
    <3>1. x.st = "running" /\ x.cwd # None /\ x.prog # <<>>
      BY <1>5, <2>7, <2>9, Constants
    <3>2. Inv(calls, texts) /\ Up /\ ReturnWith(p, x, v, words) /\ p \in Procs
      BY <1>7, <2>7
    <3> QED
      BY ONLY <2>11, <3>1, <3>2, Returns
  <2>13. FsBecomes(p, Idle)
    BY <1>7, <2>7, IdleIs, StaysFs
  <2>14. user'[p] = u /\ kern'[p] = Idle
    BY <2>12 DEF Becomes, Inv, Shapes
  <2>15. ASSUME NEW s \in Slots
         PROVE fs'.icache[s].ref = fs.icache[s].ref + Opens(ftable', s) - Opens(ftable, s)
                           + Bit(user'[p].cwd = s) - Bit(user[p].cwd = s)
                           + PtrCount(kern'[p], s) - PtrCount(kern[p], s)
    <3>1. Opens(ftable', s) = Opens(ftable, s) /\ Opens(ftable, s) \in Nat
      <4>1. PICK ft : ft = ftable'
        OBVIOUS
      <4>2. \A h \in Files : IsOpen(ftable[h], s) <=> IsOpen(ft[h], s)
        BY <2>1, <2>2, <2>5, <4>1 DEF IsOpen
      <4>3. Opens(ft, s) = Opens(ftable, s) /\ Opens(ftable, s) \in Nat
        BY <4>2, OpensSame
      <4> QED
        BY <4>1, <4>3
    <3>2. fs.icache[s].ref \in Int
      BY RefType DEF Inv, Shapes
    <3>3. PtrCount(Idle, s) = 0 /\ PtrCount(kern[p], s) = 0
      BY <2>7, IdleIs
    <3> QED
      BY <1>7, <2>9, <2>12, <2>14, <3>1, <3>2, <3>3 DEF Bit
  <2>16. ASSUME NEW f \in Files
         PROVE ftable'[f].ref = ftable[f].ref + FdCount(user'[p].ofile, f) - FdCount(user[p].ofile, f)
    <3>1. PICK o : o = user[p].ofile
      OBVIOUS
    <3>2. /\ FdCount(o1, f) = FdCount(o, f) + Bit(o1[a] = f) - Bit(o[a] = f)
          /\ FdCount(o, f) \in Nat
      BY <2>1, <2>10, <3>1, FdsChange
    <3>3. FdCount(o2, f) = FdCount(o1, f) + Bit(o2[b] = f) - Bit(o1[b] = f)
      BY <2>1, <2>10, FdsChange
    <3>4. FdCount(o2, f) = FdCount(o, f) + Bit(r = f) + Bit(w = f)
      BY <2>1, <2>10, <3>1, <3>2, <3>3, Constants DEF Bit
    <3>5. ftable'[f].ref = ftable[f].ref + Bit(r = f) + Bit(w = f) /\ ftable[f].ref \in Int
      BY <2>1, <2>2, <2>4, <2>5 DEF Bit, IsFile
    <3> QED
      BY <2>9, <2>12, <2>14, <3>1, <3>2, <3>4, <3>5 DEF Bit
  <2>17. Balance(p)
    BY <2>15, <2>16 DEF Balance
  <2> QED
    BY <2>6, <2>7, <2>12, <2>13, <2>17, StepKeeps
<1> QED
  BY <1>1, <1>2, <1>3, <1>4, <1>6, <1>7 DEF PipeCall

-----------------------------------------------------------------------------
(* exit                                                                    *)

\* ExitNext keeps the invariant.
LEMMA ExitNextKeeps ==
  ASSUME NEW calls, NEW texts, Inv(calls, texts), NEW p \in Procs, ExitNext(p)
  PROVE  Inv(calls, texts)'
<1>1. PICK k, u, m : k = kern[p] /\ u = [user[p] EXCEPT !.inop = FALSE] /\ m = Idle
  OBVIOUS
<1>2. /\ Up /\ k.pc = "exitNext" /\ user[p].st = "running" /\ Ready(calls, texts, p)
      /\ user' = [user EXCEPT ![p] = u] /\ Step(p, m) /\ UNCHANGED <<fs, ftable>>
  BY <1>1, IsReady DEF ExitNext, At
<1>3. IsKern(k, texts) /\ IsUser(user[p], calls) /\ ProcInv(user[p], k) /\ IsSystem(fs)
  BY <1>1, <1>2 DEF Ready
<1>4. Place(k) = "exitNext" /\ Holds(k) = {}
  BY <1>2 DEF Place, Iputs, Holds, Below, Frees, HoldsIp, HoldsDp
<1>5. k.put = None /\ k.at = None /\ k.ip = None /\ k.dp = None
  BY <1>2, <1>3, <1>4 DEF ProcInv, PtrInv, Iputs, WithIp, WithDp
<1>6. user[p].cwd # None
  BY <1>2, <1>3, <1>4 DEF ProcInv
<1>7. /\ IsUser(u, calls) /\ u.st = "running" /\ u.cwd = user[p].cwd /\ u.ofile = user[p].ofile
  BY <1>1, <1>2, <1>3 DEF IsUser, UserFields
<1>8. /\ IsKern(m, texts) /\ Place(m) = "user" /\ m.put = None /\ PtrInv(m) /\ m.pc = "user"
      /\ Holds(m) = {} /\ \A s \in Slots : PtrCount(m, s) = 0
  BY <1>1, IdleIs DEF Idle
<1>9. ProcInv(u, m)
  BY <1>6, <1>7, <1>8 DEF ProcInv, Frees
<1>10. Becomes(calls, texts, p, u, m)
  BY <1>2, <1>7, <1>8, <1>9 DEF Becomes, Step
<1>11. SameTotals(p, u, m)
  <2>1. \A s \in Slots : PtrCount(k, s) = 0
    BY <1>5, Constants DEF PtrCount, Bit
  <2> QED
    BY <1>1, <1>7, <1>8, <2>1 DEF SameTotals, Total
<1>12. Visits(fs, fs')
  BY <1>2, <1>3, SameItself, SameVisits
<1> QED
  BY <1>1, <1>2, <1>4, <1>7, <1>8, <1>10, <1>11, <1>12, Visiting

\* ExitCwd keeps the invariant.
LEMMA ExitCwdKeeps ==
  ASSUME NEW calls, NEW texts, Inv(calls, texts), NEW p \in Procs, ExitCwd(p)
  PROVE  Inv(calls, texts)'
<1>1. PICK k, s, x : k = kern[p] /\ s = user[p].cwd /\ x = None
  OBVIOUS
<1>2. PICK u, m : u = [user[p] EXCEPT !.cwd = x, !.inop = TRUE] /\ m = Iput(k, s, "exited")
  OBVIOUS
<1>3. /\ At(p, "user") /\ OpenFds(p) = {}
      /\ user' = [user EXCEPT ![p] = u] /\ Step(p, m) /\ UNCHANGED <<fs, ftable>>
  BY <1>1, <1>2 DEF ExitCwd
<1>4. /\ Up /\ k.put = None /\ k.at = None /\ k.ip = None /\ k.dp = None /\ Holds(k) = {}
      /\ IsKern(k, texts) /\ IsUser(user[p], calls) /\ IsSystem(fs)
      /\ user[p].st = "running" /\ s \in Slots /\ \A t \in Slots : PtrCount(k, t) = 0
  BY <1>1, <1>3, AtUser
<1>5. /\ IsUser(u, calls) /\ u.st = "running" /\ u.cwd = None /\ u.ofile = user[p].ofile /\ u.inop
  BY <1>1, <1>2, <1>4 DEF IsUser, UserFields, Ptr
<1>6. /\ IsKern(m, texts) /\ m.pc = "iput" /\ m.put = s /\ m.after = "exited" /\ m.at = None
      /\ m.ip = None /\ m.dp = None
  <2>1. PICK after : after = "exited"
    OBVIOUS
  <2>2. m = Iput(k, s, after) /\ s \in Ptr
    BY <1>2, <1>4, <2>1 DEF Ptr
  <2>3. /\ IsKern(m, texts) /\ m.pc = "iput" /\ m.put = s /\ m.after = after
        /\ m.at = k.at /\ m.ip = k.ip /\ m.dp = k.dp
    BY <1>4, <2>2, IputIs
  <2> QED
    BY <1>4, <2>1, <2>3
<1>7. Place(m) = "exited" /\ Holds(m) = {}
  BY <1>6 DEF Place, Iputs, Holds, Below, Frees, HoldsIp, HoldsDp
<1>8. PtrInv(m)
  BY <1>4, <1>6, <1>7, Constants DEF PtrInv, Iputs, WithIp, WithDp, Without
<1>9. \A d \in Fds : u.ofile[d] = None
  BY <1>3, <1>5 DEF OpenFds
<1>10. ProcInv(u, m)
  BY <1>5, <1>6, <1>7, <1>8, <1>9 DEF ProcInv, Frees
<1>11. Becomes(calls, texts, p, u, m)
  BY <1>3, <1>5, <1>6, <1>10 DEF Becomes, Step
<1>12. SameTotals(p, u, m)
  <2>1. ASSUME NEW t \in Slots
        PROVE  /\ PtrCount(m, t) = Bit(s = t) /\ Bit(u.cwd = t) = 0
    BY <1>5, <1>6, Constants DEF PtrCount, Bit
  <2>2. ASSUME NEW t \in Slots PROVE Total(u, m, t) = Total(user[p], k, t)
    BY <1>1, <1>4, <2>1 DEF Total, Bit
  <2> QED
    BY <1>1, <2>2 DEF SameTotals
<1>13. Visits(fs, fs')
  BY <1>3, <1>4, SameItself, SameVisits
<1> QED
  BY <1>1, <1>3, <1>4, <1>5, <1>7, <1>11, <1>12, <1>13, Visiting

-----------------------------------------------------------------------------
(* fork, exit, wait and kill, which change several processes               *)

\* Every process stays right: r is what each of them becomes.
AllRight(calls, texts) ==
  /\ user' = [q \in Procs |-> user'[q]] /\ kern' = [q \in Procs |-> kern'[q]]
  /\ \A q \in Procs : /\ IsUser(user'[q], calls) /\ IsKern(kern'[q], texts)
                      /\ ProcInv(user'[q], kern'[q]) /\ Holds(kern'[q]) = Holds(kern[q])
                      /\ kern'[q].put # None => user'[q].inop

\* A step that changes several processes, with the balance of one.
LEMMA AllStepKeeps ==
  ASSUME NEW calls, NEW texts, Inv(calls, texts), Up, NEW p \in Procs, AllRight(calls, texts),
         IsSystem(fs'), Once(fs'), SameLocks(fs, fs'), FilesOK(ftable'), Balance(p), Others(p)
  PROVE  Inv(calls, texts)'
<1>1. Shapes(calls, texts)'
  BY DEF Shapes, AllRight, FilesOK
<1>2. Refs'
  BY RefsKept DEF Inv
<1>3. IputInTransaction'
  BY DEF IputInTransaction, AllRight
<1>4. LockInv'
  BY DEF LockInv, Inv, UpInv, SameLocks, AllRight
<1>5. UpInv'
  BY <1>4 DEF UpInv, AllRight
<1> QED
  BY <1>1, <1>2, <1>3, <1>5 DEF Inv

\* What a process was, and what it becomes: the pointers are the same.
Stays(calls, texts, u, k, v, l) ==
  /\ IsUser(v, calls) /\ IsKern(l, texts) /\ ProcInv(v, l) /\ Holds(l) = Holds(k)
  /\ l.put # None => v.inop
  /\ v.ofile = u.ofile /\ v.cwd = u.cwd
  /\ \A x \in PtrFields : l[x] = k[x]
AllStay(calls, texts) ==
  /\ user' = [q \in Procs |-> user'[q]] /\ kern' = [q \in Procs |-> kern'[q]]
  /\ \A q \in Procs : Stays(calls, texts, user[q], kern[q], user'[q], kern'[q])

\* A step that changes several processes and none of their pointers.
LEMMA AllStayKeeps ==
  ASSUME NEW calls, NEW texts, Inv(calls, texts), Up, NEW p \in Procs, AllStay(calls, texts),
         UNCHANGED <<fs, ftable>>
  PROVE  Inv(calls, texts)'
<1>1. AllRight(calls, texts)
  BY DEF AllStay, AllRight, Stays
<1>2. IsSystem(fs) /\ Once(fs) /\ FilesOK(ftable)
  BY DEF Inv, Shapes, FilesOK
<1>3. \A q \in Procs : /\ user'[q].ofile = user[q].ofile /\ user'[q].cwd = user[q].cwd
                       /\ \A x \in PtrFields : kern'[q][x] = kern[q][x]
  BY DEF AllStay, Stays
<1>4. Others(p)
  BY <1>3 DEF Others
<1>5. Balance(p)
  <2>1. ASSUME NEW s \in Slots
        PROVE fs'.icache[s].ref = fs.icache[s].ref + Opens(ftable', s) - Opens(ftable, s)
                           + Bit(user'[p].cwd = s) - Bit(user[p].cwd = s)
                           + PtrCount(kern'[p], s) - PtrCount(kern[p], s)
    <3>1. fs.icache[s].ref \in Int
      BY <1>2, RefType
    <3>2. Opens(ftable, s) \in Nat
      BY OpensSame
    <3>3. PtrCount(kern'[p], s) = PtrCount(kern[p], s) /\ PtrCount(kern[p], s) \in Nat
      BY <1>3, CountType DEF PtrCount, PtrFields
    <3> QED
      BY <1>3, <3>1, <3>2, <3>3 DEF Bit
  <2>2. ASSUME NEW f \in Files
        PROVE ftable'[f].ref = ftable[f].ref + FdCount(user'[p].ofile, f) - FdCount(user[p].ofile, f)
    <3>1. FdCount(user[p].ofile, f) \in Nat
      <4>1. {d \in Fds : user[p].ofile[d] = f} \in SUBSET Fds
        OBVIOUS
      <4> QED
        BY <4>1, Finite, FS_Subset, FS_CardinalityType DEF FdCount
    <3>2. ftable[f].ref \in Int
      BY DEF Inv, Shapes, IsFile
    <3> QED
      BY <1>3, <3>1, <3>2
  <2> QED
    BY <2>1, <2>2 DEF Balance
<1> QED
  BY <1>1, <1>2, <1>4, <1>5, AllStepKeeps DEF SameLocks

\* What holds of every process.
LEMMA EachIs ==
  ASSUME NEW calls, NEW texts, Inv(calls, texts), Up, NEW q \in Procs
  PROVE  /\ IsUser(user[q], calls) /\ IsKern(kern[q], texts) /\ ProcInv(user[q], kern[q])
         /\ kern[q].put # None => user[q].inop
         /\ Stays(calls, texts, user[q], kern[q], user[q], kern[q])
<1>1. /\ IsUser(user[q], calls) /\ IsKern(kern[q], texts) /\ ProcInv(user[q], kern[q])
      /\ kern[q].put # None => user[q].inop
  BY DEF Inv, Shapes, UpInv, IputInTransaction
<1> QED
  BY <1>1 DEF Stays

\* The program of a process changes, or its parent does.
LEMMA UserStays ==
  ASSUME NEW calls, NEW texts, NEW u, NEW k, Stays(calls, texts, u, k, u, k), NEW prog \in Seq(calls),
         u.prog # <<>> => prog # <<>> \/ k.pc = "user"
  PROVE  /\ \A v : v = [u EXCEPT !.prog = prog] => Stays(calls, texts, u, k, v, k)
         /\ \A v, x : v = [u EXCEPT !.parent = x] => Stays(calls, texts, u, k, v, k)
<1>1. ASSUME NEW v, NEW x, v = [u EXCEPT !.prog = prog] \/ v = [u EXCEPT !.parent = x]
      PROVE  Stays(calls, texts, u, k, v, k)
  <2>1. /\ IsUser(v, calls) /\ v.st = u.st /\ v.cwd = u.cwd /\ v.ofile = u.ofile /\ v.inop = u.inop
        /\ v.prog \in {prog, u.prog}
    BY <1>1 DEF Stays, IsUser, UserFields
  <2>2. IsKern(k, texts) /\ ProcInv(u, k) /\ (k.put # None => u.inop)
    BY DEF Stays
  <2>3. Place(k) \notin {"user", "exitNext", "exited"} => v.prog # <<>>
    <3>1. k.pc = "user" => Place(k) = "user"
      BY DEF Place, Iputs
    <3> QED
      BY <2>1, <2>2, <3>1 DEF ProcInv
  <2>4. ProcInv(v, k)
    BY <2>1, <2>2, <2>3 DEF ProcInv
  <2> QED
    BY <2>1, <2>2, <2>4 DEF Stays
<1> QED
  BY <1>1

\* A process that is not running has nothing.
LEMMA DeadHasNothing ==
  ASSUME NEW calls, NEW texts, NEW u, NEW k, Stays(calls, texts, u, k, u, k), u.st # "running"
  PROVE  /\ k.pc = "user" /\ u.cwd = None /\ u.ofile = [d \in Fds |-> None]
         /\ Stays(calls, texts, u, k, Unborn, k)
<1>1. IsUser(u, calls) /\ IsKern(k, texts) /\ ProcInv(u, k)
  BY DEF Stays
<1>2. k.pc = "user" /\ u.cwd = None /\ \A d \in Fds : u.ofile[d] = None
  BY <1>1 DEF ProcInv
<1>3. u.ofile = [d \in Fds |-> None]
  BY <1>1, <1>2 DEF IsUser
<1>4. PICK v : v = Unborn
  OBVIOUS
<1>5. /\ v = [x \in UserFields |-> v[x]] /\ v.st = "unused" /\ v.ofile = [d \in Fds |-> None]
      /\ v.cwd = None /\ v.prog = <<>>
  BY <1>4 DEF Unborn, UserFields
<1>6. IsUser(v, calls)
  <2>1. v.ofile \in [Fds -> Files \cup {None}]
    BY <1>5
  <2>2. v.prog \in Seq(calls)
    <3>1. PICK e : e = v.prog
      OBVIOUS
    <3>2. e = <<>>
      BY <1>5, <3>1
    <3> QED
      BY ONLY <3>1, <3>2
  <2>3. v.cwd \in Ptr
    BY <1>5 DEF Ptr
  <2>4. v = [x \in UserFields |-> v[x]]
    BY <1>5
  <2> QED
    BY <2>1, <2>2, <2>3, <2>4 DEF IsUser
<1>7. Place(k) = "user" /\ PtrInv(k)
  BY <1>1, <1>2 DEF Place, Iputs, ProcInv
<1>8. ProcInv(v, k)
  BY <1>2, <1>5, <1>7 DEF ProcInv, Frees
<1>9. k.put = None
  BY <1>2, <1>7 DEF PtrInv, Iputs
<1>10. Stays(calls, texts, u, k, v, k)
  BY <1>1, <1>2, <1>3, <1>5, <1>6, <1>8, <1>9 DEF Stays
<1> QED
  BY <1>2, <1>3, <1>4, <1>10

\* The rest of a program, and its first call.
LEMMA TailIs ==
  ASSUME NEW calls, NEW s \in Seq(calls), s # <<>>
  PROVE  Tail(s) \in Seq(calls) /\ SubSeq(s, 1, 1) \in Seq(calls) /\ SubSeq(s, 1, 1) # <<>>
<1>1. Len(s) \in Nat /\ Len(s) > 0 /\ Tail(s) \in Seq(calls)
  OBVIOUS
<1>2. SubSeq(s, 1, 1) \in Seq(calls) /\ Len(SubSeq(s, 1, 1)) = 1
  BY <1>1
<1>3. SubSeq(s, 1, 1) # <<>>
  BY <1>2
<1> QED
  BY <1>1, <1>2, <1>3

\* Wait keeps the invariant.
LEMMA WaitKeeps ==
  ASSUME NEW calls, NEW texts, Inv(calls, texts), NEW p \in Procs, Wait(p)
  PROVE  Inv(calls, texts)'
<1>1. At(p, "user") /\ user[p].prog # <<>>
  BY DEF Wait, Calling
<1>2. CASE BadFd(p)
  BY <1>1, <1>2, BadFdKeeps
<1>3. CASE \E q \in ChildrenOf(p) :
             /\ user[q].st = "zombie"
             /\ user' = [user EXCEPT ![p].prog = Tail(@), ![q] = Unborn]
             /\ UNCHANGED <<fs, ftable, kern>>
  <2>1. PICK q \in Procs : /\ user[q].st = "zombie"
                           /\ user' = [user EXCEPT ![p].prog = Tail(@), ![q] = Unborn]
                           /\ UNCHANGED <<fs, ftable, kern>>
    BY <1>3 DEF ChildrenOf
  <2>2. /\ Up /\ kern[p].pc = "user" /\ user[p].st = "running" /\ IsUser(user[p], calls)
    BY <1>1, AtUser
  <2>3. user = [r \in Procs |-> user[r]] /\ kern = [r \in Procs |-> kern[r]]
    BY DEF Inv, Shapes
  <2>4. PICK v : v = [user[p] EXCEPT !.prog = Tail(user[p].prog)]
    OBVIOUS
  <2>5. /\ user' = [r \in Procs |-> user'[r]] /\ user'[p] = v /\ user'[q] = Unborn
        /\ \A r \in Procs : r # p /\ r # q => user'[r] = user[r]
    BY <2>1, <2>2, <2>3, <2>4
  <2>6. Stays(calls, texts, user[p], kern[p], v, kern[p])
    <3>1. Tail(user[p].prog) \in Seq(calls)
      BY <1>1, <2>2, TailIs DEF IsUser
    <3>2. Stays(calls, texts, user[p], kern[p], user[p], kern[p])
      BY <2>2, EachIs
    <3> QED
      BY <2>2, <2>4, <3>1, <3>2, UserStays
  <2>7. Stays(calls, texts, user[q], kern[q], Unborn, kern[q])
    <3>1. Stays(calls, texts, user[q], kern[q], user[q], kern[q])
      BY <2>2, EachIs
    <3> QED
      BY <2>1, <3>1, DeadHasNothing
  <2>8. ASSUME NEW r \in Procs
        PROVE  Stays(calls, texts, user[r], kern[r], user'[r], kern'[r])
    <3>1. kern'[r] = kern[r]
      BY <2>1
    <3>2. CASE r = p
      BY <2>5, <2>6, <3>1, <3>2
    <3>3. CASE r = q
      BY <2>5, <2>7, <3>1, <3>3
    <3>4. CASE r # p /\ r # q
      <4>1. Stays(calls, texts, user[r], kern[r], user[r], kern[r])
        BY <2>2, EachIs
      <4> QED
        BY <2>5, <3>1, <3>4, <4>1
    <3> QED
      BY <3>2, <3>3, <3>4
  <2>9. AllStay(calls, texts)
    BY <2>1, <2>3, <2>5, <2>8 DEF AllStay
  <2> QED
    BY <2>1, <2>2, <2>9, AllStayKeeps
<1> QED
  BY <1>2, <1>3 DEF Wait

\* A process that kill finds in its program, and one that it finds in a call.
LEMMA IdleStays ==
  ASSUME NEW calls, NEW texts, NEW u, NEW k, Stays(calls, texts, u, k, u, k), k.pc = "user",
         NEW v, IsUser(v, calls), v.st = u.st, v.cwd = u.cwd, v.ofile = u.ofile
  PROVE  Stays(calls, texts, u, k, v, Idle)
<1>1. IsUser(u, calls) /\ IsKern(k, texts) /\ ProcInv(u, k)
  BY DEF Stays
<1>2. Place(k) = "user" /\ PtrInv(k)
  BY <1>1 DEF Place, Iputs, ProcInv
<1>3. k.put = None /\ k.at = None /\ k.ip = None /\ k.dp = None /\ Holds(k) = {}
  BY <1>2 DEF PtrInv, Iputs, WithIp, WithDp, Holds, Below, Frees, HoldsIp, HoldsDp
<1>4. PICK l : l = Idle
  OBVIOUS
<1>5. /\ IsKern(l, texts) /\ Place(l) = "user" /\ l.put = None /\ PtrInv(l) /\ l.pc = "user"
      /\ Holds(l) = {} /\ l.at = None /\ l.ip = None /\ l.dp = None
  BY <1>4, IdleIs DEF Idle
<1>6. ProcInv(v, l)
  BY <1>1, <1>2, <1>5 DEF ProcInv, Frees
<1>7. \A x \in PtrFields : l[x] = k[x]
  BY <1>3, <1>5 DEF PtrFields
<1>8. Stays(calls, texts, u, k, v, l)
  BY <1>3, <1>5, <1>6, <1>7 DEF Stays
<1> QED
  BY <1>4, <1>8

\* Kill keeps the invariant.
LEMMA KillKeeps ==
  ASSUME NEW calls, NEW texts, Inv(calls, texts), NEW p \in Procs, Kill(p)
  PROVE  Inv(calls, texts)'
<1>1. PICK victims : victims = {q \in ChildrenOf(p) : user[q].st = "running"}
  OBVIOUS
<1>2. /\ At(p, "user") /\ user[p].prog # <<>> /\ UNCHANGED <<fs, ftable>>
      /\ user' = [q \in Procs |->
           IF q = p THEN [user[q] EXCEPT !.prog = Tail(@)]
           ELSE IF q \in victims THEN [user[q] EXCEPT !.prog =
                  IF Midway(q) /\ @ # <<>> THEN SubSeq(@, 1, 1) ELSE <<>>]
           ELSE user[q]]
      /\ kern' = [q \in Procs |-> IF q \in victims /\ ~Midway(q) THEN Idle ELSE kern[q]]
  BY <1>1 DEF Kill, Calling
<1>3. /\ Up /\ kern[p].pc = "user" /\ user[p].st = "running" /\ IsUser(user[p], calls)
  BY <1>2, AtUser
<1>4. ASSUME NEW q \in Procs
      PROVE  Stays(calls, texts, user[q], kern[q], user'[q], kern'[q])
  <2>1. Stays(calls, texts, user[q], kern[q], user[q], kern[q]) /\ IsUser(user[q], calls)
    BY <1>3, EachIs
  <2>2. PICK s \in Seq(calls) : s = user[q].prog
    BY <2>1 DEF IsUser
  <2>3. PICK t : t = IF q = p THEN Tail(s)
                     ELSE IF q \in victims THEN (IF Midway(q) /\ s # <<>> THEN SubSeq(s, 1, 1) ELSE <<>>)
                     ELSE s
    OBVIOUS
  <2>4. PICK v : v = [user[q] EXCEPT !.prog = t]
    OBVIOUS
  <2>5. user'[q] = v
    <3>1. CASE q = p
      BY <1>2, <2>2, <2>3, <2>4, <3>1
    <3>2. CASE q # p /\ q \in victims
      BY <1>2, <2>2, <2>3, <2>4, <3>2
    <3>3. CASE q # p /\ q \notin victims
      BY <1>2, <2>1, <2>2, <2>3, <2>4, <3>3 DEF IsUser, UserFields
    <3> QED
      BY <3>1, <3>2, <3>3
  <2>6. t \in Seq(calls)
    <3>1. q = p => s # <<>>
      BY <1>2, <2>2
    <3>2. <<>> \in Seq(calls)
      OBVIOUS
    <3> QED
      BY <2>2, <2>3, <3>1, <3>2, TailIs
  <2>7. /\ IsUser(v, calls) /\ v.st = user[q].st /\ v.cwd = user[q].cwd /\ v.ofile = user[q].ofile
    BY <2>1, <2>4, <2>6 DEF IsUser, UserFields
  <2>8. CASE q \in victims /\ ~Midway(q)
    <3>1. kern'[q] = Idle /\ kern[q].pc = "user"
      BY <1>2, <2>8 DEF Midway
    <3> QED
      BY <2>1, <2>5, <2>7, <3>1, IdleStays
  <2>9. CASE ~(q \in victims /\ ~Midway(q))
    <3>1. kern'[q] = kern[q]
      BY <1>2, <2>9
    <3>2. user[q].prog # <<>> => t # <<>> \/ kern[q].pc = "user"
      BY <1>3, <2>2, <2>3, <2>9, TailIs
    <3>3. Stays(calls, texts, user[q], kern[q], v, kern[q])
      BY <2>1, <2>4, <2>6, <3>2, UserStays
    <3> QED
      BY <2>5, <3>1, <3>3
  <2> QED
    BY <2>8, <2>9
<1>5. user' = [q \in Procs |-> user'[q]] /\ kern' = [q \in Procs |-> kern'[q]]
  <2>1. PICK U, K : U = user' /\ K = kern'
    OBVIOUS
  <2>2. U = [q \in Procs |-> U[q]] /\ K = [q \in Procs |-> K[q]]
    BY <1>2, <2>1
  <2> QED
    BY <2>1, <2>2
<1>6. AllStay(calls, texts)
  BY <1>4, <1>5 DEF AllStay
<1> QED
  BY <1>2, <1>3, <1>6, AllStayKeeps

\* A process without anything, and what a new record of it without anything is.
Bare(u) == u.cwd = None /\ u.prog = <<>> /\ u.st # "running" /\ u.ofile = [d \in Fds |-> None]

\* A process with nothing is well formed.
LEMMA BareIs ==
  ASSUME NEW calls, NEW u, u = [x \in UserFields |-> u[x]], Bare(u)
  PROVE  IsUser(u, calls)
<1>1. u.ofile \in [Fds -> Files \cup {None}]
  BY DEF Bare
<1>2. u.prog \in Seq(calls)
  <2>1. PICK e : e = u.prog
    OBVIOUS
  <2>2. e = <<>>
    BY <2>1 DEF Bare
  <2> QED
    BY ONLY <2>1, <2>2
<1>3. u.cwd \in Ptr
  BY DEF Bare, Ptr
<1> QED
  BY <1>1, <1>2, <1>3 DEF IsUser

\* Exited keeps the invariant: the children go to init.
LEMMA ExitedKeeps ==
  ASSUME NEW calls, NEW texts, Inv(calls, texts), NEW p \in Procs, Exited(p)
  PROVE  Inv(calls, texts)'
<1>1. PICK k, l : k = kern[p] /\ l = Idle
  OBVIOUS
<1>2. PICK v : v = IF user[p].parent = Init0 THEN Unborn
                   ELSE [Unborn EXCEPT !.st = "zombie", !.parent = user[p].parent]
  OBVIOUS
<1>3. /\ Up /\ k.pc = "exited" /\ user[p].st = "running" /\ Ready(calls, texts, p)
      /\ user' = [q \in Procs |->
           IF q = p THEN v
           ELSE IF user[q].parent # p \/ user[q].st = "unused" THEN user[q]
           ELSE IF user[q].st = "zombie" THEN Unborn
           ELSE [user[q] EXCEPT !.parent = Init0]]
      /\ Step(p, l) /\ UNCHANGED <<fs, ftable>>
  BY <1>1, <1>2, IsReady DEF Exited, At
<1>4. IsKern(k, texts) /\ IsUser(user[p], calls) /\ ProcInv(user[p], k)
  BY <1>1, <1>3 DEF Ready
<1>5. Place(k) = "exited" /\ Holds(k) = {}
  BY <1>3 DEF Place, Iputs, Holds, Below, Frees, HoldsIp, HoldsDp
<1>6. k.put = None /\ k.at = None /\ k.ip = None /\ k.dp = None
  BY <1>3, <1>4, <1>5 DEF ProcInv, PtrInv, Iputs, WithIp, WithDp
<1>7. user[p].cwd = None /\ user[p].ofile = [d \in Fds |-> None]
  <2>1. user[p].cwd = None /\ \A d \in Fds : user[p].ofile[d] = None
    BY <1>4, <1>5 DEF ProcInv
  <2> QED
    BY <1>4, <2>1 DEF IsUser
<1>8. v = [x \in UserFields |-> v[x]] /\ Bare(v)
  BY <1>2 DEF Unborn, UserFields, Bare
<1>9. /\ IsKern(l, texts) /\ Place(l) = "user" /\ l.put = None /\ PtrInv(l) /\ l.pc = "user"
      /\ Holds(l) = {} /\ l.at = None /\ l.ip = None /\ l.dp = None
  BY <1>1, IdleIs DEF Idle
<1>10. Stays(calls, texts, user[p], k, v, l)
  <2>1. IsUser(v, calls)
    BY <1>8, BareIs
  <2>2. ProcInv(v, l)
    BY <1>8, <1>9 DEF ProcInv, Frees, Bare
  <2>3. \A x \in PtrFields : l[x] = k[x]
    BY <1>6, <1>9 DEF PtrFields
  <2> QED
    BY <1>5, <1>7, <1>8, <1>9, <2>1, <2>2, <2>3 DEF Stays, Bare
<1>11. user = [q \in Procs |-> user[q]] /\ kern = [q \in Procs |-> kern[q]]
  BY DEF Inv, Shapes
<1>12. kern' = [q \in Procs |-> kern'[q]] /\ kern'[p] = l /\ \A q \in Procs : q # p => kern'[q] = kern[q]
  BY <1>3, <1>11 DEF Step
<1>13. user' = [q \in Procs |-> user'[q]]
  <2>1. PICK U : U = user'
    OBVIOUS
  <2>2. U = [q \in Procs |-> U[q]]
    BY <1>3, <2>1
  <2> QED
    BY <2>1, <2>2
<1>14. ASSUME NEW q \in Procs
       PROVE  Stays(calls, texts, user[q], kern[q], user'[q], kern'[q])
  <2>1. CASE q = p
    <3>1. user'[q] = v
      BY <1>3, <2>1
    <3> QED
      BY <1>1, <1>10, <1>12, <2>1, <3>1
  <2>2. CASE q # p
    <3>1. Stays(calls, texts, user[q], kern[q], user[q], kern[q]) /\ kern'[q] = kern[q]
      BY <1>3, <1>12, <2>2, EachIs
    <3>2. CASE user[q].parent # p \/ user[q].st = "unused"
      <4>1. user'[q] = user[q]
        BY <1>3, <2>2, <3>2
      <4> QED
        BY <3>1, <4>1
    <3>3. CASE user[q].parent = p /\ user[q].st = "zombie"
      <4>1. user'[q] = Unborn
        BY <1>3, <2>2, <3>3
      <4>2. Stays(calls, texts, user[q], kern[q], Unborn, kern[q])
        BY <3>1, <3>3, DeadHasNothing
      <4> QED
        BY <3>1, <4>1, <4>2
    <3>4. CASE user[q].parent = p /\ user[q].st \notin {"unused", "zombie"}
      <4>1. PICK w, x : w = [user[q] EXCEPT !.parent = x] /\ x = Init0
        OBVIOUS
      <4>2. user'[q] = w
        BY <1>3, <2>2, <3>4, <4>1
      <4>3. user[q].prog \in Seq(calls)
        BY <3>1 DEF Stays, IsUser
      <4>4. Stays(calls, texts, user[q], kern[q], w, kern[q])
        BY <3>1, <4>1, <4>3, UserStays
      <4> QED
        BY <3>1, <4>2, <4>4
    <3> QED
      BY <3>2, <3>3, <3>4
  <2> QED
    BY <2>1, <2>2
<1>15. AllStay(calls, texts)
  BY <1>12, <1>13, <1>14 DEF AllStay
<1> QED
  BY <1>3, <1>15, AllStayKeeps

\* A child has the files and the directory of its parent.
LEMMA ForkKeeps ==
  ASSUME NEW calls, NEW texts, AreCalls(calls, texts), Inv(calls, texts), NEW p \in Procs, Fork(p)
  PROVE  Inv(calls, texts)'
<1>1. PICK free : free = {q \in Procs : user[q].st = "unused"}
  OBVIOUS
<1>2. PICK q, s : q = Min(free) /\ s = user[p].cwd
  OBVIOUS
<1>3. PICK v, w : /\ v = [user[p] EXCEPT !.prog = Tail(user[p].prog)]
                  /\ w = [user[p] EXCEPT !.parent = p, !.prog = Cur(p).child]
  OBVIOUS
<1>4. At(p, "user") /\ user[p].prog # <<>> /\ Cur(p).op = "fork"
  BY DEF Fork, Calling
<1>5. CASE BadFd(p)
  BY <1>4, <1>5, BadFdKeeps
<1>6. CASE /\ free # {}
           /\ ftable' = [f \in Files |-> [ftable[f] EXCEPT !.ref = @ + FdCount(user[p].ofile, f)]]
           /\ fs' = Idup(fs, s)
           /\ user' = [user EXCEPT ![p].prog = Tail(@), ![q] = w]
           /\ kern' = kern
  <2>1. /\ Up /\ kern[p].pc = "user" /\ user[p].st = "running" /\ IsUser(user[p], calls) /\ s \in Slots
        /\ IsSystem(fs) /\ Once(fs)
    BY <1>2, <1>4, AtUser
  <2>2. q \in Procs /\ user[q].st = "unused" /\ q # p
    <3>1. free \in SUBSET Nat
      BY <1>1, Constants
    <3>2. q \in free
      BY <1>2, <1>6, <3>1, MinIs
    <3> QED
      BY <1>1, <2>1, <3>2
  <2>3. user = [r \in Procs |-> user[r]] /\ kern = [r \in Procs |-> kern[r]]
    BY DEF Inv, Shapes
  <2>4. /\ user' = [r \in Procs |-> user'[r]] /\ user'[p] = v /\ user'[q] = w
        /\ \A r \in Procs : r # p /\ r # q => user'[r] = user[r]
    BY <1>3, <1>6, <2>2, <2>3
  <2>5. Stays(calls, texts, user[p], kern[p], v, kern[p])
    <3>1. Tail(user[p].prog) \in Seq(calls)
      BY <1>4, <2>1, TailIs DEF IsUser
    <3>2. Stays(calls, texts, user[p], kern[p], user[p], kern[p])
      BY <2>1, EachIs
    <3> QED
      BY <1>3, <2>1, <3>1, <3>2, UserStays
  <2>6. /\ kern[q].pc = "user" /\ user[q].cwd = None /\ user[q].ofile = [d \in Fds |-> None]
        /\ IsKern(kern[q], texts) /\ ProcInv(user[q], kern[q])
    <3>1. Stays(calls, texts, user[q], kern[q], user[q], kern[q])
      BY <2>1, <2>2, EachIs
    <3> QED
      BY <2>1, <2>2, <3>1, DeadHasNothing, EachIs
  <2>7. /\ IsUser(w, calls) /\ w.st = "running" /\ w.cwd = s /\ w.ofile = user[p].ofile
    <3>1. Cur(p).child \in Seq(calls)
      <4>1. PICK prog : prog = user[p].prog
        OBVIOUS
      <4>2. prog \in Seq(calls) /\ prog # <<>>
        BY <1>4, <2>1, <4>1 DEF IsUser
      <4>3. Head(prog) \in calls
        BY <4>2
      <4> QED
        BY <1>4, <4>1, <4>3 DEF Cur, AreCalls
    <3> QED
      BY <1>2, <1>3, <2>1, <3>1 DEF IsUser, UserFields
  <2>8. Place(kern[q]) = "user" /\ PtrInv(kern[q]) /\ kern[q].put = None
    BY <2>6 DEF Place, Iputs, ProcInv, PtrInv
  <2>9. ProcInv(w, kern[q])
    BY <2>1, <2>6, <2>7, <2>8, Constants DEF ProcInv, Frees
  <2>10. AllRight(calls, texts)
    <3>1. ASSUME NEW r \in Procs
          PROVE  /\ IsUser(user'[r], calls) /\ IsKern(kern'[r], texts)
                 /\ ProcInv(user'[r], kern'[r]) /\ Holds(kern'[r]) = Holds(kern[r])
                 /\ kern'[r].put # None => user'[r].inop
      <4>1. CASE r = p
        BY <1>6, <2>4, <2>5, <4>1 DEF Stays
      <4>2. CASE r = q
        BY <1>6, <2>4, <2>6, <2>7, <2>8, <2>9, <4>2
      <4>3. CASE r # p /\ r # q
        BY <1>6, <2>1, <2>4, <4>3, EachIs
      <4> QED
        BY <4>1, <4>2, <4>3
    <3> QED
      BY <1>6, <2>3, <2>4, <3>1 DEF AllRight
  <2>11. Gains(fs, fs', s)
    <3>1. fs.icache[s].ref > 0
      BY <1>2, <2>1, CwdCounted DEF Inv
    <3> QED
      BY <1>6, <2>1, <3>1, IdupIs
  <2>12. IsSystem(fs') /\ Once(fs') /\ SameLocks(fs, fs')
    BY <2>1, <2>11 DEF Gains, SameLocks
  <2>13. ASSUME NEW f \in Files
         PROVE  /\ IsFile(ftable'[f]) /\ ftable'[f].ref = ftable[f].ref + FdCount(user[p].ofile, f)
                /\ \A t : IsOpen(ftable[f], t) <=> IsOpen(ftable'[f], t)
    <3>1. PICK n : n = FdCount(user[p].ofile, f)
      OBVIOUS
    <3>2. n \in Nat
      <4>1. {d \in Fds : user[p].ofile[d] = f} \in SUBSET Fds
        OBVIOUS
      <4> QED
        BY <3>1, <4>1, Finite, FS_Subset, FS_CardinalityType DEF FdCount
    <3>3. IsFile(ftable[f]) /\ ftable[f].ref \in Nat
      <4>1. ftable[f].ref = Descs(user, f)
        BY DEF Inv, Refs
      <4>2. Descs(user, f) \in Nat
        BY DescsChange
      <4> QED
        BY <4>1, <4>2 DEF Inv, Shapes
    <3>4. PICK e : e = [ftable[f] EXCEPT !.ref = @ + n]
      OBVIOUS
    <3>5. /\ e = [x \in FileFields |-> e[x]] /\ e.ref = ftable[f].ref + n
          /\ e.type = ftable[f].type /\ e.ip = ftable[f].ip /\ e.pipe = ftable[f].pipe
      BY <3>3, <3>4 DEF IsFile, FileFields
    <3>6. IsFile(e) /\ \A t : IsOpen(ftable[f], t) <=> IsOpen(e, t)
      BY <3>2, <3>3, <3>5 DEF IsFile, IsOpen
    <3>7. ftable'[f] = e
      BY <1>6, <3>1, <3>4
    <3> QED
      BY <3>1, <3>5, <3>6, <3>7
  <2>14. FilesOK(ftable')
    <3>1. PICK T : T = ftable'
      OBVIOUS
    <3>2. T = [f \in Files |-> T[f]]
      BY <1>6, <3>1
    <3> QED
      BY <2>13, <3>1, <3>2 DEF FilesOK
  <2>15. Others(q)
    <3>1. ASSUME NEW r \in Procs, r # q
          PROVE  user'[r].ofile = user[r].ofile /\ user'[r].cwd = user[r].cwd
      BY <2>4, <2>5, <3>1 DEF Stays
    <3> QED
      BY <1>6, <3>1 DEF Others
  <2>16. ASSUME NEW t \in Slots
         PROVE fs'.icache[t].ref = fs.icache[t].ref + Opens(ftable', t) - Opens(ftable, t)
                           + Bit(user'[q].cwd = t) - Bit(user[q].cwd = t)
                           + PtrCount(kern'[q], t) - PtrCount(kern[q], t)
    <3>1. Opens(ftable', t) = Opens(ftable, t) /\ Opens(ftable, t) \in Nat
      <4>1. PICK ft : ft = ftable'
        OBVIOUS
      <4>2. \A h \in Files : IsOpen(ftable[h], t) <=> IsOpen(ft[h], t)
        BY <2>13, <4>1
      <4>3. Opens(ft, t) = Opens(ftable, t) /\ Opens(ftable, t) \in Nat
        BY <4>2, OpensSame
      <4> QED
        BY <4>1, <4>3
    <3>2. fs'.icache[t].ref = fs.icache[t].ref + Bit(t = s) /\ fs.icache[t].ref \in Int
      BY <2>1, <2>11, RefType DEF Gains
    <3>3. Bit(user'[q].cwd = t) = Bit(t = s) /\ Bit(user[q].cwd = t) = 0
      BY <2>4, <2>6, <2>7, Constants DEF Bit
    <3>4. PtrCount(kern'[q], t) = PtrCount(kern[q], t) /\ PtrCount(kern[q], t) \in Nat
      BY <1>6, CountType
    <3> QED
      BY <3>1, <3>2, <3>3, <3>4 DEF Bit
  <2>17. ASSUME NEW f \in Files
         PROVE ftable'[f].ref = ftable[f].ref + FdCount(user'[q].ofile, f) - FdCount(user[q].ofile, f)
    <3>1. FdCount(user[q].ofile, f) = 0
      <4>1. {d \in Fds : user[q].ofile[d] = f} = {}
        BY <2>6, Constants
      <4> QED
        BY <4>1, FS_EmptySet DEF FdCount
    <3>2. FdCount(user'[q].ofile, f) = FdCount(user[p].ofile, f)
      BY <2>4, <2>7
    <3>3. FdCount(user[p].ofile, f) \in Nat /\ ftable[f].ref \in Int
      <4>1. {d \in Fds : user[p].ofile[d] = f} \in SUBSET Fds
        OBVIOUS
      <4> QED
        BY <4>1, Finite, FS_Subset, FS_CardinalityType DEF FdCount, Inv, Shapes, IsFile
    <3> QED
      BY <2>13, <3>1, <3>2, <3>3
  <2>18. Balance(q)
    BY <2>16, <2>17 DEF Balance
  <2> QED
    BY <2>1, <2>2, <2>10, <2>12, <2>14, <2>15, <2>18, AllStepKeeps
<1> QED
  BY <1>1, <1>2, <1>3, <1>5, <1>6 DEF Fork, FdCount

-----------------------------------------------------------------------------
(* What is in the pipes                                                    *)

\* One pipe that changes to a good one.
LEMMA SetPipe ==
  ASSUME NEW texts, PipeInv(texts), NEW g \in Files, NEW r, IsPipe(r, texts),
         pipes' = [pipes EXCEPT ![g] = r]
  PROVE  PipeInv(texts)'
<1>1. pipes' = [f \in Files |-> IF f = g THEN r ELSE pipes[f]]
  BY DEF PipeInv
<1>2. pipes' = [f \in Files |-> pipes'[f]] /\ \A f \in Files : IsPipe(pipes'[f], texts)
  BY <1>1 DEF PipeInv
<1> QED
  BY <1>2 DEF PipeInv

\* No pipe that changes.
LEMMA SamePipes ==
  ASSUME NEW texts, PipeInv(texts), pipes' = pipes
  PROVE  PipeInv(texts)'
BY DEF PipeInv

\* The last reference to a pipe's end closes it.
LEMMA ClosePipes ==
  ASSUME NEW calls, NEW texts, Inv(calls, texts), PipeInv(texts), NEW p \in Procs, NEW d \in Fds,
         NEW n, n = user[p].ofile[d], n # None,
         pipes' = IF Closes(n, "pipe") THEN PipeWithout(n) ELSE pipes
  PROVE  PipeInv(texts)'
<1>1. n \in Files
  BY DEF Inv, Shapes, IsUser
<1>2. CASE Closes(n, "pipe")
  <2>1. PICK g : g = ftable[n].pipe
    OBVIOUS
  <2>2. g \in Files
    BY <1>1, <1>2, <2>1 DEF Inv, Shapes, IsFile, Closes
  <2>3. IsPipe(pipes[g], texts) /\ pipes = [f \in Files |-> pipes[f]]
    BY <2>2 DEF PipeInv
  <2>4. PICK r, s : /\ r = [pipes[g] EXCEPT !.writeopen = FALSE]
                    /\ s = [pipes[g] EXCEPT !.readopen = FALSE]
    OBVIOUS
  <2>5. /\ r = [x \in PipeFields |-> r[x]] /\ r.words = pipes[g].words
        /\ s = [x \in PipeFields |-> s[x]] /\ s.words = pipes[g].words
    BY <2>3, <2>4 DEF IsPipe, PipeFields
  <2>6. IsPipe(r, texts) /\ IsPipe(s, texts)
    BY <2>3, <2>5 DEF IsPipe
  <2>7. pipes' = [pipes EXCEPT ![g] = r] \/ pipes' = [pipes EXCEPT ![g] = s]
    BY <1>2, <2>1, <2>4 DEF PipeWithout
  <2> QED
    BY <2>2, <2>6, <2>7, SetPipe
<1>3. CASE ~Closes(n, "pipe")
  BY <1>3, SamePipes
<1> QED
  BY <1>2, <1>3

\* Close keeps the pipes.
LEMMA ClosePipesKept ==
  ASSUME NEW calls, NEW texts, Inv(calls, texts), PipeInv(texts), NEW p \in Procs, Close(p)
  PROVE  PipeInv(texts)'
<1>1. CASE HasFile(p)
  <2>1. PICK d, n : d = Cur(p).fd /\ n = FileOf(p)
    OBVIOUS
  <2>2. d \in Fds /\ n = user[p].ofile[d] /\ n # None
    BY <1>1, <2>1 DEF HasFile, FileOf
  <2>3. pipes' = IF Closes(n, "pipe") THEN PipeWithout(n) ELSE pipes
    BY <1>1, <2>1 DEF Close, CloseThen
  <2> QED
    BY <2>2, <2>3, ClosePipes
<1>2. CASE ~HasFile(p)
  BY <1>2, SamePipes DEF Close, BadFd
<1> QED
  BY <1>1, <1>2

\* ExitClose keeps the pipes.
LEMMA ExitPipesKept ==
  ASSUME NEW calls, NEW texts, Inv(calls, texts), PipeInv(texts), NEW p \in Procs, ExitClose(p)
  PROVE  PipeInv(texts)'
<1>1. PICK A : A = OpenFds(p)
  OBVIOUS
<1>2. A \in SUBSET Nat /\ A # {} /\ A \in SUBSET Fds
  BY <1>1, Constants DEF ExitClose, OpenFds
<1>3. PICK d : d = Min(A)
  OBVIOUS
<1>4. d \in A
  BY <1>2, <1>3, MinIs
<1>5. PICK n : n = user[p].ofile[d]
  OBVIOUS
<1>6. d \in Fds /\ n # None
  BY <1>1, <1>2, <1>4, <1>5 DEF OpenFds
<1>7. pipes' = IF Closes(n, "pipe") THEN PipeWithout(n) ELSE pipes
  BY <1>1, <1>3, <1>5 DEF ExitClose, CloseThen
<1> QED
  BY <1>5, <1>6, <1>7, ClosePipes

\* PipeCall makes an empty pipe.
LEMMA PipeCallPipesKept ==
  ASSUME NEW texts, PipeInv(texts), NEW p \in Procs, PipeCall(p)
  PROVE  PipeInv(texts)'
<1>1. PICK A, r : A = FreeFile /\ r = Min(A)
  OBVIOUS
<1>2. CASE BadFd(p)
  BY <1>2, SamePipes DEF BadFd
<1>3. PICK q, e : q = [words |-> e, readopen |-> TRUE, writeopen |-> TRUE] /\ e = <<>>
  OBVIOUS
<1>4. CASE ~(Cardinality(A) < 2) /\ pipes' = [pipes EXCEPT ![r] = q]
  <2>1. A \in SUBSET Nat /\ A \in SUBSET Files /\ IsFiniteSet(A)
    BY <1>1, Constants, Finite, FS_Subset DEF FreeFile
  <2>2. A # {}
    BY <1>4, FS_EmptySet
  <2>3. r \in Files
    BY <1>1, <2>1, <2>2, MinIs
  <2>4. q = [x \in PipeFields |-> q[x]] /\ q.words = e
    BY <1>3 DEF PipeFields
  <2>5. e \in Seq(texts) /\ Len(e) = 0 /\ PIPESIZE \in Nat
    BY <1>3, TablesAssumption
  <2>6. q.words \in Seq(texts) /\ Len(q.words) <= PIPESIZE
    <3>1. PICK x : x = q.words
      OBVIOUS
    <3>2. x \in Seq(texts) /\ Len(x) = 0
      BY <2>4, <2>5, <3>1
    <3> QED
      BY <2>5, <3>1, <3>2
  <2>7. IsPipe(q, texts)
    BY ONLY <2>4, <2>6 DEF IsPipe
  <2> QED
    BY <1>4, <2>3, <2>7, SetPipe
<1> QED
  BY <1>1, <1>2, <1>3, <1>4 DEF PipeCall

\* The current call of a process is one of the calls.
LEMMA CurIs ==
  ASSUME NEW calls, NEW texts, Inv(calls, texts), NEW p \in Procs, user[p].prog # <<>>
  PROVE  Cur(p) \in calls
<1>1. PICK s : s = user[p].prog
  OBVIOUS
<1>2. s \in Seq(calls) /\ s # <<>>
  BY <1>1 DEF Inv, Shapes, IsUser
<1>3. Head(s) \in calls
  BY <1>2
<1> QED
  BY <1>1, <1>3 DEF Cur

\* ReadPipe takes words out.
LEMMA ReadPipePipesKept ==
  ASSUME NEW calls, NEW texts, AreCalls(calls, texts), Inv(calls, texts), PipeInv(texts),
         NEW p \in Procs, ReadPipe(p)
  PROVE  PipeInv(texts)'
<1>1. PICK g : g = ftable[FileOf(p)].pipe
  OBVIOUS
<1>2. PICK w, m : w = pipes[g].words /\ m = Cur(p).n
  OBVIOUS
<1>3. PICK n : n = Min({m, Len(w)})
  OBVIOUS
<1>4. PICK rest : rest = SubSeq(w, n + 1, Len(w))
  OBVIOUS
<1>5. PICK r : r = [pipes[g] EXCEPT !.words = rest]
  OBVIOUS
<1>6. /\ Calling(p, "read") /\ HasFile(p) /\ ftable[FileOf(p)].type = "pipe"
      /\ pipes' = [pipes EXCEPT ![g] = r]
  BY <1>1, <1>2, <1>3, <1>4, <1>5 DEF ReadPipe
<1>7. g \in Files
  BY <1>1, <1>6, FileIs DEF IsFile
<1>8. IsPipe(pipes[g], texts)
  BY <1>7 DEF PipeInv
<1>9. m \in Nat
  <2>1. user[p].prog # <<>> /\ Cur(p).op = "read"
    BY <1>6 DEF Calling
  <2> QED
    BY <1>2, <2>1, CurIs DEF AreCalls
<1>10. w \in Seq(texts) /\ Len(w) \in Nat /\ Len(w) <= PIPESIZE /\ PIPESIZE \in Nat
  BY <1>2, <1>8, TablesAssumption DEF IsPipe
<1>11. n \in Nat /\ n <= Len(w)
  <2>1. PICK T : T = {m, Len(w)}
    OBVIOUS
  <2>2. T \in SUBSET Nat /\ T # {}
    BY <1>9, <1>10, <2>1
  <2>3. Min(T) \in T /\ \A j \in T : Min(T) <= j
    BY <2>2, MinIs
  <2> QED
    BY <1>3, <1>9, <1>10, <2>1, <2>3
<1>12. rest \in Seq(texts) /\ Len(rest) = Len(w) - n
  BY <1>4, <1>10, <1>11
<1>13. r = [x \in PipeFields |-> r[x]] /\ r.words = rest
  BY <1>5, <1>8 DEF IsPipe, PipeFields
<1>14. IsPipe(r, texts)
  BY <1>10, <1>11, <1>12, <1>13 DEF IsPipe
<1> QED
  BY <1>6, <1>7, <1>14, SetPipe

\* WritePipe adds words that fit.
LEMMA WritePipePipesKept ==
  ASSUME NEW calls, NEW texts, AreCalls(calls, texts), Inv(calls, texts), PipeInv(texts),
         NEW p \in Procs, WritePipe(p)
  PROVE  PipeInv(texts)'
<1>1. PICK g : g = ftable[FileOf(p)].pipe
  OBVIOUS
<1>2. PICK w, todo : /\ w = pipes[g].words
                     /\ todo = IF kern[p].words = <<>> THEN Cur(p).words ELSE kern[p].words
  OBVIOUS
<1>3. PICK n : n = Min({Len(todo), PIPESIZE - Len(w)})
  OBVIOUS
<1>4. PICK all : all = w \o SubSeq(todo, 1, n)
  OBVIOUS
<1>5. PICK r : r = [pipes[g] EXCEPT !.words = all]
  OBVIOUS
<1>6. /\ Calling(p, "write") /\ HasFile(p) /\ ftable[FileOf(p)].type = "pipe"
      /\ pipes' = [pipes EXCEPT ![g] = r]
  BY <1>1, <1>2, <1>3, <1>4, <1>5 DEF WritePipe
<1>7. g \in Files
  BY <1>1, <1>6, FileIs DEF IsFile
<1>8. IsPipe(pipes[g], texts)
  BY <1>7 DEF PipeInv
<1>9. todo \in Seq(texts) /\ Len(todo) \in Nat
  BY <1>2, <1>6, TodoIs
<1>10. w \in Seq(texts) /\ Len(w) \in Nat /\ Len(w) <= PIPESIZE /\ PIPESIZE \in Nat
  BY <1>2, <1>8, TablesAssumption DEF IsPipe
<1>11. n \in Nat /\ n <= Len(todo) /\ n <= PIPESIZE - Len(w)
  BY <1>2, <1>3, <1>8, <1>9, PipeRoom
<1>12. SubSeq(todo, 1, n) \in Seq(texts) /\ Len(SubSeq(todo, 1, n)) = n
  BY <1>9, <1>11
<1>13. all \in Seq(texts) /\ Len(all) = Len(w) + n
  BY <1>4, <1>10, <1>11, <1>12
<1>14. r = [x \in PipeFields |-> r[x]] /\ r.words = all
  BY <1>5, <1>8 DEF IsPipe, PipeFields
<1>15. IsPipe(r, texts)
  BY <1>10, <1>11, <1>13, <1>14 DEF IsPipe
<1> QED
  BY <1>6, <1>7, <1>15, SetPipe

\* The steps that leave the pipes alone.
LEMMA PipesStay ==
  ASSUME NEW p \in Procs,
         \/ Walk(p) \/ IputTest(p) \/ IputFree(p) \/ IputClear(p) \/ IputUnref(p)
         \/ PathCall(p) \/ Fail(p)
         \/ OpenInode(p) \/ OpenCreated(p)
         \/ Create(p) \/ CreateOld(p) \/ CreateAlloc(p) \/ CreateInit(p) \/ Created(p)
         \/ Unlink(p) \/ UnlinkInode(p) \/ UnlinkBad(p) \/ UnlinkDone(p)
         \/ LinkOld(p) \/ LinkNew(p) \/ LinkDir(p) \/ LinkExists(p) \/ Linked(p) \/ LinkBad(p)
         \/ Chdir(p) \/ ChdirSet(p) \/ Exec(p)
         \/ Dup(p) \/ Fstat(p)
         \/ ReadInode(p) \/ ReadRefused(p) \/ WriteInode(p) \/ WriteDevice(p) \/ WriteRefused(p)
         \/ Fork(p) \/ ExitNext(p) \/ ExitCwd(p) \/ Exited(p) \/ Wait(p) \/ Kill(p)
  PROVE  pipes' = pipes
<1>1. CASE Walk(p) \/ IputTest(p) \/ IputFree(p) \/ IputClear(p) \/ IputUnref(p)
  BY <1>1 DEF Walk, IputTest, IputFree, IputClear, IputUnref
<1>2. CASE PathCall(p) \/ Fail(p) \/ OpenInode(p) \/ OpenCreated(p)
  BY <1>2 DEF PathCall, Fail, OpenInode, OpenCreated
<1>3. CASE Create(p) \/ CreateOld(p) \/ CreateAlloc(p) \/ CreateInit(p) \/ Created(p)
  BY <1>3 DEF Create, CreateOld, CreateAlloc, CreateInit, Created
<1>4. CASE Unlink(p) \/ UnlinkInode(p) \/ UnlinkBad(p) \/ UnlinkDone(p)
  BY <1>4 DEF Unlink, UnlinkInode, UnlinkBad, UnlinkDone
<1>5. CASE LinkOld(p) \/ LinkNew(p) \/ LinkDir(p) \/ LinkExists(p) \/ Linked(p) \/ LinkBad(p)
  BY <1>5 DEF LinkOld, LinkNew, LinkDir, LinkExists, Linked, LinkBad
<1>6. CASE Chdir(p) \/ ChdirSet(p) \/ Exec(p) \/ Dup(p) \/ Fstat(p)
  BY <1>6 DEF Chdir, ChdirSet, Exec, Dup, Fstat, BadFd
<1>7. CASE ReadInode(p) \/ ReadRefused(p) \/ WriteInode(p) \/ WriteDevice(p) \/ WriteRefused(p)
  BY <1>7 DEF ReadInode, ReadRefused, WriteInode, WriteDevice, WriteRefused, BadFd
<1>8. CASE Fork(p) \/ ExitNext(p) \/ ExitCwd(p) \/ Exited(p) \/ Wait(p) \/ Kill(p)
  BY <1>8 DEF Fork, ExitNext, ExitCwd, Exited, Wait, Kill, BadFd
<1> QED
  BY <1>1, <1>2, <1>3, <1>4, <1>5, <1>6, <1>7, <1>8

\* What every step keeps.
FsInv(calls, texts) == Inv(calls, texts) /\ PipeInv(texts)

\* Every step keeps the invariant.
LEMMA StepsKeep ==
  ASSUME NEW calls, NEW texts, AreCalls(calls, texts), FsInv(calls, texts), [Next]_vars
  PROVE  FsInv(calls, texts)'
<1>0. Inv(calls, texts) /\ PipeInv(texts)
  BY DEF FsInv
<1>1. CASE UNCHANGED vars
  <2>1. /\ fs' = fs /\ ftable' = ftable /\ pipes' = pipes /\ user' = user /\ kern' = kern
    BY <1>1 DEF vars
  <2>2. Inv(calls, texts)'
    BY <1>0, <2>1 DEF Inv, Shapes, Refs, IputInTransaction, UpInv, LockInv, Up
  <2> QED
    BY <1>0, <2>1, <2>2, SamePipes DEF FsInv
<1>2. ASSUME NEW p \in Procs,
             \/ Walk(p) \/ IputTest(p) \/ IputFree(p) \/ IputClear(p) \/ IputUnref(p)
             \/ PathCall(p) \/ Fail(p)
      PROVE  FsInv(calls, texts)'
  <2>1. Inv(calls, texts)'
    BY <1>0, <1>2, WalkKeeps, IputTestKeeps, IputFreeKeeps, IputClearKeeps, IputUnrefKeeps,
       PathCallKeeps, FailKeeps
  <2>2. pipes' = pipes
    BY <1>2, PipesStay
  <2> QED
    BY <1>0, <2>1, <2>2, SamePipes DEF FsInv
<1>3. ASSUME NEW p \in Procs,
             \/ OpenInode(p) \/ OpenCreated(p)
             \/ Create(p) \/ CreateOld(p) \/ CreateAlloc(p) \/ CreateInit(p) \/ Created(p)
      PROVE  FsInv(calls, texts)'
  <2>1. Inv(calls, texts)'
    BY <1>0, <1>3, OpenInodeKeeps, OpenCreatedKeeps, CreateKeeps, CreateOldKeeps, CreateAllocKeeps,
       CreateInitKeeps, CreatedKeeps
  <2>2. pipes' = pipes
    BY <1>3, PipesStay
  <2> QED
    BY <1>0, <2>1, <2>2, SamePipes DEF FsInv
<1>4. ASSUME NEW p \in Procs,
             \/ Unlink(p) \/ UnlinkInode(p) \/ UnlinkBad(p) \/ UnlinkDone(p)
             \/ LinkOld(p) \/ LinkNew(p) \/ LinkDir(p) \/ LinkExists(p) \/ Linked(p) \/ LinkBad(p)
      PROVE  FsInv(calls, texts)'
  <2>1. Inv(calls, texts)'
    BY <1>0, <1>4, UnlinkKeeps, UnlinkInodeKeeps, UnlinkBadKeeps, UnlinkDoneKeeps, LinkOldKeeps,
       LinkNewKeeps, LinkDirKeeps, LinkExistsKeeps, LinkedKeeps, LinkBadKeeps
  <2>2. pipes' = pipes
    BY <1>4, PipesStay
  <2> QED
    BY <1>0, <2>1, <2>2, SamePipes DEF FsInv
<1>5. ASSUME NEW p \in Procs, Chdir(p) \/ ChdirSet(p) \/ Exec(p) \/ Dup(p) \/ Fstat(p)
      PROVE  FsInv(calls, texts)'
  <2>1. Inv(calls, texts)'
    BY <1>0, <1>5, ChdirKeeps, ChdirSetKeeps, ExecKeeps, DupKeeps, FstatKeeps
  <2>2. pipes' = pipes
    BY <1>5, PipesStay
  <2> QED
    BY <1>0, <2>1, <2>2, SamePipes DEF FsInv
<1>6. ASSUME NEW p \in Procs,
             ReadInode(p) \/ ReadRefused(p) \/ WriteInode(p) \/ WriteDevice(p) \/ WriteRefused(p)
      PROVE  FsInv(calls, texts)'
  <2>1. Inv(calls, texts)'
    BY <1>0, <1>6, ReadInodeKeeps, RefusedKeeps, WriteInodeKeeps, WriteDeviceKeeps
  <2>2. pipes' = pipes
    BY <1>6, PipesStay
  <2> QED
    BY <1>0, <2>1, <2>2, SamePipes DEF FsInv
<1>7. ASSUME NEW p \in Procs, Fork(p) \/ ExitNext(p) \/ ExitCwd(p) \/ Exited(p) \/ Wait(p) \/ Kill(p)
      PROVE  FsInv(calls, texts)'
  <2>1. Inv(calls, texts)'
    BY <1>0, <1>7, ForkKeeps, ExitNextKeeps, ExitCwdKeeps, ExitedKeeps, WaitKeeps, KillKeeps
  <2>2. pipes' = pipes
    BY <1>7, PipesStay
  <2> QED
    BY <1>0, <2>1, <2>2, SamePipes DEF FsInv
<1>8. ASSUME NEW p \in Procs, Close(p) \/ ExitClose(p) \/ PipeCall(p) \/ ReadPipe(p) \/ WritePipe(p)
      PROVE  FsInv(calls, texts)'
  <2>1. Inv(calls, texts)'
    BY <1>0, <1>8, CloseKeeps, ExitCloseKeeps, PipeCallKeeps, ReadPipeKeeps, WritePipeKeeps
  <2>2. PipeInv(texts)'
    BY <1>0, <1>8, ClosePipesKept, ExitPipesKept, PipeCallPipesKept, ReadPipePipesKept,
       WritePipePipesKept
  <2> QED
    BY <2>1, <2>2 DEF FsInv
<1>9. CASE Next
  BY <1>2, <1>3, <1>4, <1>5, <1>6, <1>7, <1>8, <1>9 DEF Next
<1> QED
  BY <1>1, <1>9

-----------------------------------------------------------------------------
(* What the invariant says                                                 *)

\* A pointer that a process holds is counted.
LEMMA PtrCounted ==
  ASSUME Refs, NEW p \in Procs, NEW x \in PtrFields, NEW s \in Slots, kern[p][x] = s
  PROVE  fs.icache[s].ref > 0
<1>1. PICK X : X = {pf \in Procs \X PtrFields : kern[pf[1]][pf[2]] = s}
  OBVIOUS
<1>2. X \in SUBSET (Procs \X PtrFields) /\ <<p, x>> \in X
  BY <1>1
<1>3. Cardinality(X) \in Nat /\ Cardinality(X) # 0
  <2>1. IsFiniteSet(Procs \X PtrFields)
    BY Finite, FinitePtrFields, FS_Product
  <2> QED
    BY <1>2, <2>1, FS_Subset, FS_CardinalityType, FS_EmptySet
<1>4. Ptrs(kern, s) = Cardinality(X)
  BY <1>1 DEF Ptrs
<1>5. Opens(ftable, s) \in Nat /\ Cwds(user, s) \in Nat
  BY OpensSame, CwdsChange DEF SameCwds
<1>6. fs.icache[s].ref = Opens(ftable, s) + Cwds(user, s) + Ptrs(kern, s)
  BY DEF Refs
<1> QED
  BY <1>3, <1>4, <1>5, <1>6

\* Who holds a lock is in a call, and points to the inode.
LEMMA HeldInCall ==
  ASSUME NEW k, NEW s \in Holds(k)
  PROVE  k.pc # "user" /\ s \in {k.ip, k.dp, k.put}
BY DEF Holds, Below, Place, HoldsIp, HoldsDp, Frees, Iputs

\* The invariant says that the inodes are sound.
LEMMA InvIsSound ==
  ASSUME NEW calls, NEW texts, Inv(calls, texts)
  PROVE  InodesSound
<1>1. CountsAgree
  BY DEF CountsAgree, Inv, Refs, Owners, Opens, Cwds, Ptrs, Descs, PtrFields
<1>2. CachedOnce
  BY DEF CachedOnce, Inv, Once
<1>3. ASSUME Up, NEW s \in Slots, NEW p \in Procs, fs.icache[s].lock = p
      PROVE  kern[p].pc # "user" /\ fs.icache[s].ref > 0
  <2>1. s \in Holds(kern[p])
    BY <1>3 DEF Inv, UpInv, LockInv
  <2>2. kern[p].pc # "user" /\ s \in {kern[p].ip, kern[p].dp, kern[p].put}
    BY <2>1, HeldInCall
  <2>3. PICK a, b, c : a = "ip" /\ b = "dp" /\ c = "put"
    OBVIOUS
  <2>4. PICK x \in PtrFields : kern[p][x] = s
    <3>1. a \in PtrFields /\ b \in PtrFields /\ c \in PtrFields
      BY <2>3 DEF PtrFields
    <3>2. kern[p][a] = s \/ kern[p][b] = s \/ kern[p][c] = s
      BY <2>2, <2>3
    <3> QED
      BY <3>1, <3>2
  <2>5. fs.icache[s].ref > 0
    BY <2>4, PtrCounted DEF Inv
  <2> QED
    BY <2>2, <2>5
<1>4. LocksKept
  BY <1>3 DEF LocksKept
<1> QED
  BY <1>1, <1>2, <1>4 DEF InodesSound, Inv

-----------------------------------------------------------------------------
(* The start                                                               *)

\* A process that is not there yet.
LEMMA UnbornIs ==
  ASSUME NEW calls
  PROVE  /\ IsUser(Unborn, calls) /\ ProcInv(Unborn, Idle) /\ Unborn.cwd = None
         /\ Unborn.ofile = [d \in Fds |-> None]
<1>1. PICK u, e : u = Unborn /\ e = <<>>
  OBVIOUS
<1>2. /\ u = [x \in UserFields |-> u[x]] /\ u.ofile = [d \in Fds |-> None] /\ u.cwd = None
      /\ u.prog = e /\ u.st = "unused"
  BY <1>1 DEF Unborn, UserFields
<1>3. e \in Seq(calls)
  BY <1>1
<1>4. IsUser(u, calls)
  BY <1>2, <1>3 DEF IsUser, Ptr
<1>5. PICK k : k = Idle
  OBVIOUS
<1>6. PtrInv(k) /\ Place(k) = "user" /\ k.pc = "user"
  BY <1>5, IdleIs DEF Idle
<1>7. ProcInv(u, k)
  BY <1>2, <1>6 DEF ProcInv, Frees
<1> QED
  BY <1>1, <1>2, <1>4, <1>5, <1>7

\* One of the first processes.
LEMMA BornIs ==
  ASSUME NEW calls, NEW prog \in Seq(calls), NEW u,
         u = [Unborn EXCEPT !.st = "running", !.prog = prog, !.cwd = 1]
  PROVE  /\ IsUser(u, calls) /\ ProcInv(u, Idle) /\ u.cwd = 1
         /\ u.ofile = [d \in Fds |-> None]
<1>1. /\ u = [x \in UserFields |-> u[x]] /\ u.ofile = [d \in Fds |-> None] /\ u.cwd = 1
      /\ u.prog = prog /\ u.st = "running"
  BY DEF Unborn, UserFields
<1>2. 1 \in Slots
  BY DiskAssumption DEF Slots
<1>3. IsUser(u, calls)
  BY <1>1, <1>2 DEF IsUser, Ptr
<1>4. PICK k : k = Idle
  OBVIOUS
<1>5. PtrInv(k) /\ Place(k) = "user" /\ k.pc = "user"
  BY <1>4, IdleIs DEF Idle
<1>6. ProcInv(u, k)
  BY <1>1, <1>2, <1>5, Constants DEF ProcInv, Frees
<1> QED
  BY <1>1, <1>3, <1>4, <1>6

\* With n current directories, and what that is.
Booted(image, n) == [image EXCEPT !.icache[1] = [@ EXCEPT !.inum = ROOTINO, !.ref = n]]
IsBooted(g, n) ==
  /\ IsSystem(g) /\ Once(g) /\ g.panic = ""
  /\ \A s \in Slots : /\ g.icache[s].ref = IF s = 1 THEN n ELSE 0
                      /\ g.icache[s].lock = None

\* The file system when the kernel has started.
LEMMA StartSystem ==
  ASSUME NEW image, IsImage(image), NEW n \in Nat, NEW g, g = Booted(image, n)
  PROVE  IsBooted(g, n)
<1>1. PICK e : e = [FreeSlot EXCEPT !.inum = ROOTINO, !.ref = n]
  OBVIOUS
<1>2. e = [x \in EntryFields |-> e[x]] /\ e.ref = n /\ e.lock = None
  BY <1>1 DEF FreeSlot, EntryFields
<1>3. PICK z : z = FreeSlot
  OBVIOUS
<1>4. z = [x \in EntryFields |-> z[x]] /\ z.ref = 0 /\ z.lock = None
  BY <1>3 DEF FreeSlot, EntryFields
<1>5. 1 \in Slots
  BY DiskAssumption DEF Slots
<1>6. image = [x \in SystemFields |-> image[x]] /\ image.icache = [s \in Slots |-> z]
  BY <1>3 DEF IsImage
<1>7. g = [image EXCEPT !.icache[1] = e]
  BY <1>1, <1>3, <1>5, <1>6 DEF Booted
<1>8. /\ g = [x \in SystemFields |-> g[x]] /\ g.panic = image.panic
      /\ g.icache = [image.icache EXCEPT ![1] = e]
  BY <1>6, <1>7 DEF SystemFields
<1>9. g.icache = [s \in Slots |-> IF s = 1 THEN e ELSE z]
  BY <1>6, <1>8
<1>10. g.icache = [s \in Slots |-> g.icache[s]]
  BY <1>9
<1>11. \A s \in Slots : g.icache[s] = IF s = 1 THEN e ELSE z
  BY <1>9
<1>12. IsEntry(e) /\ IsEntry(z)
  BY <1>2, <1>4 DEF IsEntry
<1>13. IsSystem(g)
  BY <1>8, <1>10, <1>11, <1>12 DEF IsSystem
<1>14. ASSUME NEW s \in Slots
       PROVE  g.icache[s].ref = (IF s = 1 THEN n ELSE 0) /\ g.icache[s].lock = None
  <2>1. CASE s = 1
    <3>1. g.icache[s] = e
      BY <1>11, <2>1
    <3> QED
      BY <1>2, <2>1, <3>1
  <2>2. CASE s # 1
    <3>1. g.icache[s] = z
      BY <1>11, <2>2
    <3> QED
      BY <1>4, <2>2, <3>1
  <2> QED
    BY <2>1, <2>2
<1>15. Once(g)
  BY <1>14 DEF Once
<1> QED
  BY <1>8, <1>13, <1>14, <1>15 DEF IsImage, IsBooted

\* The root is counted once for each of the first processes.
LEMMA StartRefs ==
  ASSUME NEW n \in Nat, n <= NPROC,
         \A s \in Slots : fs.icache[s].ref = IF s = 1 THEN n ELSE 0,
         \A f \in Files : ftable[f] = NoFile,
         \A p \in Procs : user[p].cwd = IF p <= n THEN 1 ELSE None,
         \A p \in Procs : user[p].ofile = [d \in Fds |-> None] /\ kern[p] = Idle
  PROVE  Refs
<1>1. ASSUME NEW s \in Slots
      PROVE  fs.icache[s].ref = Opens(ftable, s) + Cwds(user, s) + Ptrs(kern, s)
  <2>1. Opens(ftable, s) = 0
    <3>1. {f \in Files : ftable[f].ref > 0 /\ ftable[f].type = "inode" /\ ftable[f].ip = s} = {}
      BY DEF NoFile
    <3> QED
      BY <3>1, FS_EmptySet DEF Opens
  <2>2. Ptrs(kern, s) = 0
    <3>1. ASSUME NEW p \in Procs, NEW x \in PtrFields PROVE kern[p][x] # s
      <4>1. PICK a, b, c, d : a = "at" /\ b = "ip" /\ c = "dp" /\ d = "put"
        OBVIOUS
      <4>2. PICK k : k = Idle
        OBVIOUS
      <4>3. k[a] = None /\ k[b] = None /\ k[c] = None /\ k[d] = None
        BY <4>1, <4>2 DEF Idle
      <4>4. x \in {a, b, c, d}
        BY <4>1 DEF PtrFields
      <4>5. k[x] = None
        BY <4>3, <4>4
      <4> QED
        BY <4>2, <4>5, Constants
    <3>2. PICK X : X = {pf \in Procs \X PtrFields : kern[pf[1]][pf[2]] = s}
      OBVIOUS
    <3>3. X = {}
      BY <3>1, <3>2
    <3> QED
      BY <3>2, <3>3, FS_EmptySet DEF Ptrs
  <2>3. Cwds(user, s) = IF s = 1 THEN n ELSE 0
    <3>1. PICK X : X = {p \in Procs : user[p].cwd = s}
      OBVIOUS
    <3>2. CASE s = 1
      <4>1. 1 # None /\ NPROC \in Nat
        BY TablesAssumption DEF None
      <4>2. \A p : p \in X <=> p \in Procs /\ p <= n
        BY <3>1, <3>2, <4>1
      <4>3. X = 1 .. n
        <5>1. \A p \in X : p \in 1 .. n
          BY <4>1, <4>2 DEF Procs
        <5>2. \A p \in 1 .. n : p \in Procs /\ p <= n
          BY <4>1 DEF Procs
        <5> QED
          BY <4>2, <5>1, <5>2
      <4>4. Cardinality(1 .. n) = n
        <5>1. PICK m : m = 1
          OBVIOUS
        <5>2. m \in Int /\ n \in Int
          BY <5>1
        <5>3. Cardinality(m .. n) = IF m > n THEN 0 ELSE n - m + 1
          BY ONLY <5>2, FS_Interval
        <5> QED
          BY <5>1, <5>3
      <4> QED
        BY <3>1, <3>2, <4>3, <4>4 DEF Cwds
    <3>3. CASE s # 1
      <4>1. X = {}
        BY <3>1, <3>3, Constants
      <4> QED
        BY <3>1, <3>3, <4>1, FS_EmptySet DEF Cwds
    <3> QED
      BY <3>2, <3>3
  <2> QED
    BY <2>1, <2>2, <2>3
<1>2. ASSUME NEW f \in Files
      PROVE  ftable[f].ref = Descs(user, f)
  <2>1. ASSUME NEW p \in Procs, NEW d \in Fds PROVE user[p].ofile[d] # f
    BY Constants
  <2>2. PICK X : X = {pd \in Procs \X Fds : user[pd[1]].ofile[pd[2]] = f}
    OBVIOUS
  <2>3. X = {}
    BY <2>1, <2>2
  <2>4. ftable[f].ref = 0
    BY DEF NoFile
  <2> QED
    BY <2>2, <2>3, <2>4, FS_EmptySet DEF Descs
<1> QED
  BY <1>1, <1>2 DEF Refs

\* The invariant holds at the start.
LEMMA StartHolds ==
  ASSUME NEW calls, NEW texts, NEW image, IsImage(image), NEW programs, ArePrograms(programs, calls),
         Start(image, programs)
  PROVE  FsInv(calls, texts)
<1>1. PICK n : n = Len(programs)
  OBVIOUS
<1>2. n \in Nat /\ n <= NPROC
  BY <1>1 DEF ArePrograms
<1>3. fs = Booted(image, n)
  BY <1>1 DEF Start, Booted
<1>4. /\ IsSystem(fs) /\ Once(fs) /\ fs.panic = ""
      /\ \A s \in Slots : /\ fs.icache[s].ref = IF s = 1 THEN n ELSE 0
                          /\ fs.icache[s].lock = None
  <2>1. IsBooted(fs, n)
    BY <1>2, <1>3, StartSystem
  <2> QED
    BY <2>1 DEF IsBooted
<1>5. ftable = [f \in Files |-> ftable[f]] /\ \A f \in Files : ftable[f] = NoFile
  BY DEF Start
<1>6. IsFile(NoFile)
  <2>1. PICK e : e = NoFile
    OBVIOUS
  <2>2. e = [x \in FileFields |-> e[x]] /\ e.ref = 0 /\ e.ip = None /\ e.type = "none"
    BY <2>1 DEF NoFile, FileFields
  <2>3. IsFile(e)
    BY <2>2 DEF IsFile, Ptr
  <2> QED
    BY <2>1, <2>3
<1>7. kern = [p \in Procs |-> kern[p]] /\ \A p \in Procs : kern[p] = Idle
  BY DEF Start
<1>8. ASSUME NEW p \in Procs
      PROVE  /\ IsUser(user[p], calls) /\ ProcInv(user[p], Idle)
             /\ user[p].cwd = (IF p <= n THEN 1 ELSE None)
             /\ user[p].ofile = [d \in Fds |-> None]
  <2>1. CASE p <= n
    <3>1. p \in 1 .. Len(programs)
      BY <1>1, <1>2, <2>1, TablesAssumption DEF Procs
    <3>2. programs[p] \in Seq(calls)
      BY <3>1 DEF ArePrograms
    <3>3. user[p] = [Unborn EXCEPT !.st = "running", !.prog = programs[p], !.cwd = 1]
      BY <1>1, <2>1 DEF Start
    <3>4. PICK u, prog : u = user[p] /\ prog = programs[p]
      OBVIOUS
    <3>5. /\ IsUser(u, calls) /\ ProcInv(u, Idle) /\ u.cwd = 1
          /\ u.ofile = [d \in Fds |-> None]
      <4>1. prog \in Seq(calls) /\ u = [Unborn EXCEPT !.st = "running", !.prog = prog, !.cwd = 1]
        BY <3>2, <3>3, <3>4
      <4> QED
        BY ONLY <4>1, BornIs
    <3> QED
      BY <2>1, <3>4, <3>5
  <2>2. CASE ~(p <= n)
    <3>1. user[p] = Unborn
      BY <1>1, <2>2 DEF Start
    <3> QED
      BY <2>2, <3>1, UnbornIs
  <2> QED
    BY <2>1, <2>2
<1>9. user = [p \in Procs |-> user[p]]
  BY DEF Start
<1>10. Shapes(calls, texts)
  BY <1>4, <1>5, <1>6, <1>7, <1>8, <1>9, IdleIs DEF Shapes
<1>11. Refs
  BY <1>2, <1>4, <1>5, <1>7, <1>8, StartRefs
<1>12. IputInTransaction
  BY <1>7, IdleIs DEF IputInTransaction
<1>13. LockInv
  BY <1>4, <1>7, IdleIs, Constants DEF LockInv
<1>14. UpInv
  BY <1>7, <1>8, <1>13 DEF UpInv
<1>15. PipeInv(texts)
  <2>1. PICK q, e : q = NoPipe /\ e = <<>>
    OBVIOUS
  <2>2. q = [x \in PipeFields |-> q[x]] /\ q.words = e
    BY <2>1 DEF NoPipe, PipeFields
  <2>3. e \in Seq(texts) /\ Len(e) = 0 /\ PIPESIZE \in Nat
    BY <2>1, TablesAssumption
  <2>6. q.words \in Seq(texts) /\ Len(q.words) <= PIPESIZE
    <3>1. PICK x : x = q.words
      OBVIOUS
    <3>2. x \in Seq(texts) /\ Len(x) = 0
      BY <2>2, <2>3, <3>1
    <3> QED
      BY <2>3, <3>1, <3>2
  <2>4. IsPipe(q, texts)
    BY ONLY <2>2, <2>6 DEF IsPipe
  <2>5. pipes = [f \in Files |-> q]
    BY <2>1 DEF Start
  <2> QED
    BY <2>4, <2>5 DEF PipeInv
<1> QED
  BY <1>4, <1>10, <1>11, <1>12, <1>14, <1>15 DEF FsInv, Inv

-----------------------------------------------------------------------------
(* The theorems                                                            *)

\* The inductive invariant.
THEOREM FsInvHolds ==
  ASSUME NEW CONSTANT image, NEW CONSTANT programs, NEW CONSTANT calls, NEW CONSTANT texts,
         IsImage(image), ArePrograms(programs, calls), AreCalls(calls, texts)
  PROVE  Start(image, programs) /\ [][Next]_vars => []FsInv(calls, texts)
<1>1. Start(image, programs) => FsInv(calls, texts)
  BY StartHolds
<1>2. FsInv(calls, texts) /\ [Next]_vars => FsInv(calls, texts)'
  BY StepsKeep
<1> QED
  BY <1>1, <1>2, PTL

\* Whatever processes run and the disk holds, and also when tables are full or the kernel
\* panics: every pointer to an inode of the cache and every descriptor is counted once, an
\* inode is in one cache entry, an inode lock is held within a call and on a counted entry
\* only, and iput happens in a transaction (fs.c, file.c, sysfile.c, proc.c).
THEOREM InodesAreSound ==
  ASSUME NEW CONSTANT image, NEW CONSTANT programs, NEW CONSTANT calls, NEW CONSTANT texts,
         IsImage(image), ArePrograms(programs, calls), AreCalls(calls, texts)
  PROVE  Start(image, programs) /\ [][Next]_vars => []InodesSound
<1>1. Start(image, programs) /\ [][Next]_vars => []FsInv(calls, texts)
  BY FsInvHolds
<1>2. FsInv(calls, texts) => InodesSound
  BY InvIsSound DEF FsInv
<1> QED
  BY <1>1, <1>2, PTL

\* A pipe never holds more than its buffer, and what it holds was written (pipe.c).
THEOREM PipesFit ==
  ASSUME NEW CONSTANT image, NEW CONSTANT programs, NEW CONSTANT calls, NEW CONSTANT texts,
         IsImage(image), ArePrograms(programs, calls), AreCalls(calls, texts)
  PROVE  Start(image, programs) /\ [][Next]_vars => []PipeInv(texts)
<1>1. Start(image, programs) /\ [][Next]_vars => []FsInv(calls, texts)
  BY FsInvHolds
<1>2. FsInv(calls, texts) => PipeInv(texts)
  BY DEF FsInv
<1> QED
  BY <1>1, <1>2, PTL

=============================================================================
