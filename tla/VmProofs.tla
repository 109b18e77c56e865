------------------------------ MODULE VmProofs -------------------------------
(***************************************************************************)
(* Every frame of memory is in one place, and who runs has the pages below *)
(* its size, or none: proofs about Vm.                                     *)
(***************************************************************************)
EXTENDS Vm, FiniteSetTheorems, WellFoundedInduction, TLAPS

-----------------------------------------------------------------------------
(* Numbers                                                                 *)

\* A set of natural numbers has a least element.
LEMMA Least ==
  ASSUME NEW T \in SUBSET Nat, T # {}
  PROVE  \E k \in T : \A j \in T : k <= j
<1>1. \E k \in T : \A j \in T : ~(<<j, k>> \in OpToRel(<, Nat))
  BY NatLessThanWellFounded, WFMin
<1>2. PICK k \in T : \A j \in T : ~(<<j, k>> \in OpToRel(<, Nat))
  BY <1>1
<1>3. ASSUME NEW j \in T, j < k PROVE FALSE
  <2>1. <<j, k>> \in OpToRel(<, Nat)
    BY <1>3 DEF OpToRel
  <2> QED
    BY <1>2, <2>1
<1>4. \A j \in T : k <= j
  BY <1>3
<1> QED
  BY <1>4

\* Induction, over a set of numbers.
LEMMA Induction ==
  ASSUME NEW S, 0 \in S, \A k \in Nat : k \in S => k + 1 \in S
  PROVE  \A k \in Nat : k \in S
<1> SUFFICES ASSUME Nat \ S # {} PROVE FALSE
  OBVIOUS
<1>1. PICK k \in Nat \ S : \A j \in Nat \ S : k <= j
  BY Least
<1>2. k # 0 /\ k - 1 \in Nat /\ k - 1 \notin Nat \ S
  BY <1>1
<1> QED
  BY <1>1, <1>2

\* Division with remainder.
LEMMA Remainder ==
  ASSUME NEW m \in Nat, m > 0
  PROVE  /\ \A x \in Int : x % m \in 0 .. m - 1 /\ x \div m \in Int /\ x % m = x - m * (x \div m)
         /\ \A x \in 0 .. m - 1 : x % m = x
         /\ \A q \in Int : (m * q) % m = 0
<1>1. ASSUME NEW x \in Int PROVE x % m \in 0 .. m - 1 /\ x \div m \in Int
  OBVIOUS
<1>2. ASSUME NEW x \in Int PROVE x % m = x - m * (x \div m)
  BY <1>1
<1>4. ASSUME NEW x \in 0 .. m - 1 PROVE x % m = x
  OBVIOUS
<1>5. ASSUME NEW q \in Int PROVE (m * q) % m = 0
  OBVIOUS
<1> QED
  BY <1>1, <1>2, <1>4, <1>5

-----------------------------------------------------------------------------
(* One use of every frame: on the free list, in a slot of one table c, or in  *)
(* the set U of the frames that others use.                                   *)

OneUse(fr, c, U) ==
  /\ fr \in [Frames -> 0 .. 1]
  /\ U \subseteq Frames
  /\ \A f \in Frames : fr[f] = 1 => f \notin U /\ \A s \in DOMAIN c : c[s] # f
  /\ \A f \in U : \A s \in DOMAIN c : c[s] # f
  /\ \A s, t \in DOMAIN c : c[s] \in Frames /\ c[s] = c[t] => s = t
  /\ \A f \in Frames : fr[f] = 1 \/ f \in U \/ \E s \in DOMAIN c : c[s] = f

\* kalloc: the frame has a user, who has yet to put it in a slot.
LEMMA UseTake ==
  ASSUME NEW fr, NEW c, NEW U, NEW f \in Frames, fr[f] = 1, OneUse(fr, c, U)
  PROVE  f \notin U /\ OneUse([fr EXCEPT ![f] = fr[f] - 1], c, U \cup {f})
BY DEF OneUse

\* kfree of a frame in no slot
LEMMA UseGive ==
  ASSUME NEW fr, NEW c, NEW U, NEW f \in Frames, f \notin U, OneUse(fr, c, U \cup {f})
  PROVE  OneUse([fr EXCEPT ![f] = fr[f] + 1], c, U)
<1>1. fr[f] = 0
  BY DEF OneUse
<1> QED
  BY <1>1 DEF OneUse

\* A frame is put in an empty slot.
Put(c, s, f) == [c EXCEPT ![s] = f]
\* The frame in hand is in that slot from then on.
LEMMA UsePut ==
  ASSUME NEW fr, NEW c, NEW U, NEW f \in Frames, f \notin U, OneUse(fr, c, U \cup {f}),
         NEW s \in DOMAIN c, c[s] = None
  PROVE  OneUse(fr, Put(c, s, f), U)
<1> DEFINE d == Put(c, s, f)
<1>1. DOMAIN d = DOMAIN c /\ d[s] = f /\ \A t \in DOMAIN c : t # s => d[t] = c[t]
  BY DEF Put
<1>2. \A g \in Frames : g # None
  BY DEF Frames, None
<1> HIDE DEF d
<1>3. OneUse(fr, d, U)
  BY <1>1, <1>2 DEF OneUse
<1> QED
  BY <1>3 DEF d

\* The slots T are emptied, and what was in them goes to the free list.
LEMMA UseEmpty ==
  ASSUME NEW fr, NEW c, NEW U, OneUse(fr, c, U), NEW T \in SUBSET DOMAIN c,
         NEW d, DOMAIN d = DOMAIN c, \A s \in DOMAIN c : d[s] = IF s \in T THEN None ELSE c[s],
         NEW gr \in [Frames -> 0 .. 1],
         \A f \in Frames : gr[f] = 1 <=> (fr[f] = 1 \/ \E s \in T : c[s] = f)
  PROVE  OneUse(gr, d, U)
<1>1. \A g \in Frames : g # None
  BY DEF Frames, None
<1>2. \A f \in U : gr[f] # 1
  BY DEF OneUse
<1>3. \A f \in Frames : gr[f] = 1 => f \notin U /\ \A s \in DOMAIN d : d[s] # f
  BY <1>1, <1>2 DEF OneUse
<1>4. \A f \in U : \A s \in DOMAIN d : d[s] # f
  BY <1>1 DEF OneUse
<1>5. \A s, t \in DOMAIN d : d[s] \in Frames /\ d[s] = d[t] => s = t
  BY <1>1 DEF OneUse
<1>6. \A f \in Frames : gr[f] = 1 \/ f \in U \/ \E s \in DOMAIN d : d[s] = f
  BY <1>1 DEF OneUse
<1>7. U \subseteq Frames
  BY DEF OneUse
<1> QED
  BY <1>3, <1>4, <1>5, <1>6, <1>7 DEF OneUse

\* Attention passes from one table to another that is in use.
Full(c) == {c[s] : s \in DOMAIN c} \ {None}
\* The tables change places: what one holds is then what others use.
LEMMA UseSwap ==
  ASSUME NEW fr, NEW c, NEW d, NEW V,
         \A s \in DOMAIN c : c[s] \in Frames \cup {None},
         \A s \in DOMAIN d : d[s] \in Frames \cup {None},
         \A s, t \in DOMAIN d : d[s] \in Frames /\ d[s] = d[t] => s = t,
         V \cap Full(d) = {},
         OneUse(fr, c, V \cup Full(d))
  PROVE  OneUse(fr, d, V \cup Full(c))  /\ V \cap Full(c) = {}
<1>1. \A g \in Frames : g # None
  BY DEF Frames, None
<1>2. \A s \in DOMAIN c : c[s] \in Frames => c[s] \in Full(c)
  BY <1>1 DEF Full
<1>3. \A s \in DOMAIN d : d[s] \in Frames => d[s] \in Full(d)
  BY <1>1 DEF Full
<1>4. \A g \in Full(c) : g \in Frames /\ \E s \in DOMAIN c : c[s] = g
  BY DEF Full
<1>5. \A g \in Full(d) : g \in Frames /\ \E s \in DOMAIN d : d[s] = g
  BY DEF Full
<1>6. V \cap Full(c) = {}
  BY <1>4 DEF OneUse
<1>7. \A f \in Frames : fr[f] = 1 => f \notin V \cup Full(c) /\ \A s \in DOMAIN d : d[s] # f
  BY <1>3, <1>4 DEF OneUse
<1>8. \A f \in V \cup Full(c) : \A s \in DOMAIN d : d[s] # f
  BY <1>3, <1>4 DEF OneUse
<1>9. \A f \in Frames : fr[f] = 1 \/ f \in V \cup Full(c) \/ \E s \in DOMAIN d : d[s] = f
  BY <1>2, <1>5 DEF OneUse
<1> QED
  BY <1>6, <1>7, <1>8, <1>9, <1>4 DEF OneUse

-----------------------------------------------------------------------------
(* A page directory as a table: its slots, and what is in them.               *)

Pgdirs == [dir : Frames \cup {None}, ktabs : Seq(Frames), tab : [Tables -> Frames \cup {None}],
           pte : [UPages -> Frames \cup {None}], user : [UPages -> BOOLEAN]]
Memories == [free : [Frames -> 0 .. 1], content : [Frames -> Words], pd : Pgdirs, ok : BOOLEAN]

Slots == ({"dir"} \X {0}) \cup ({"ktab"} \X Nat) \cup ({"tab"} \X Tables) \cup ({"page"} \X UPages)
In(pd, kind, i) ==
  CASE kind = "dir"  -> pd.dir
    [] kind = "ktab" -> IF i \in 1 .. Len(pd.ktabs) THEN pd.ktabs[i] ELSE None
    [] kind = "tab"  -> pd.tab[i]
    [] OTHER         -> pd.pte[i]
Cell(pd) == [s \in Slots |-> In(pd, s[1], s[2])]

\* What the constants say of the sets made from them.
LEMMA Sizes ==
  /\ NPROC \in Nat /\ NFRAMES \in Nat /\ PGSIZE \in Nat /\ NPTENTRIES \in Nat
  /\ KERNBASE \in Nat /\ UintRange \in Nat /\ KTABLES \in Nat
  /\ NPROC > 0 /\ NFRAMES > 0 /\ PGSIZE > 0 /\ NPTENTRIES > 0 /\ KERNBASE > 0
  /\ KERNBASE % PGSIZE = 0 /\ KERNBASE < UintRange
  /\ Procs \subseteq Nat /\ Frames \subseteq Nat /\ UPages \subseteq Nat
  /\ \A a \in UPages : PDX(a) \in Tables
  /\ None \notin Frames
BY SizesAssumption DEF Procs, Frames, UPages, Tables, None

\* The contents that the model names.
LEMMA WordsKnown ==
  /\ "junk" \in Words /\ "zero" \in Words /\ "stack" \in Words
  /\ "initcode" \in Words /\ "stored" \in Words /\ "args" \in Words
BY DEF Words

\* The slots of a page directory hold frames or nothing.
LEMMA CellType ==
  ASSUME NEW pd \in Pgdirs
  PROVE  /\ Cell(pd) \in [Slots -> Frames \cup {None}]
         /\ Cell(pd)[<<"dir", 0>>] = pd.dir
         /\ \A i \in Nat : Cell(pd)[<<"ktab", i>>] = IF i \in 1 .. Len(pd.ktabs) THEN pd.ktabs[i] ELSE None
         /\ \A t \in Tables : Cell(pd)[<<"tab", t>>] = pd.tab[t]
         /\ \A a \in UPages : Cell(pd)[<<"page", a>>] = pd.pte[a]
<1>1. <<"dir", 0>> \in Slots /\ Cell(pd)[<<"dir", 0>>] = pd.dir
  BY DEF Slots, Cell, In
<1>2. \A i \in Nat : /\ <<"ktab", i>> \in Slots
                     /\ Cell(pd)[<<"ktab", i>>] = IF i \in 1 .. Len(pd.ktabs) THEN pd.ktabs[i] ELSE None
  BY DEF Slots, Cell, In
<1>3. \A t \in Tables : <<"tab", t>> \in Slots /\ Cell(pd)[<<"tab", t>>] = pd.tab[t]
  BY DEF Slots, Cell, In
<1>4. \A a \in UPages : <<"page", a>> \in Slots /\ Cell(pd)[<<"page", a>>] = pd.pte[a]
  BY DEF Slots, Cell, In
<1>5. ASSUME NEW s \in Slots PROVE Cell(pd)[s] \in Frames \cup {None}
  <2>1. CASE s = <<"dir", 0>>
    BY <1>1, <2>1 DEF Pgdirs
  <2>2. CASE \E i \in Nat : s = <<"ktab", i>>
    <3>1. PICK i \in Nat : s = <<"ktab", i>>
      BY <2>2
    <3>2. i \in 1 .. Len(pd.ktabs) => pd.ktabs[i] \in Frames
      BY DEF Pgdirs
    <3> QED
      BY <1>2, <3>1, <3>2
  <2>3. CASE \E t \in Tables : s = <<"tab", t>>
    BY <1>3, <2>3 DEF Pgdirs
  <2>4. CASE \E a \in UPages : s = <<"page", a>>
    BY <1>4, <2>4 DEF Pgdirs
  <2> QED
    BY <2>1, <2>2, <2>3, <2>4 DEF Slots
<1> QED
  BY <1>1, <1>2, <1>3, <1>4, <1>5 DEF Cell

\* The slots there are.
LEMMA SlotCases ==
  ASSUME NEW s \in Slots
  PROVE  \/ s = <<"dir", 0>>
         \/ \E i \in Nat : s = <<"ktab", i>>
         \/ \E t \in Tables : s = <<"tab", t>>
         \/ \E a \in UPages : s = <<"page", a>>
BY DEF Slots

\* A page is put in, and a page table, a page table of the kernel's, the directory.
WithPage(pd, a, f, u) == [pd EXCEPT !.pte[a] = f, !.user[a] = u]
\* The frame is in the slot for page a, and nothing else has changed.
LEMMA CellWithPage ==
  ASSUME NEW pd \in Pgdirs, NEW a \in UPages, NEW f \in Frames, NEW u \in BOOLEAN
  PROVE  /\ WithPage(pd, a, f, u) \in Pgdirs
         /\ WithPage(pd, a, f, u).pte = [pd.pte EXCEPT ![a] = f]
         /\ WithPage(pd, a, f, u).user = [pd.user EXCEPT ![a] = u]
         /\ WithPage(pd, a, f, u).dir = pd.dir /\ WithPage(pd, a, f, u).tab = pd.tab
         /\ WithPage(pd, a, f, u).ktabs = pd.ktabs
         /\ Cell(WithPage(pd, a, f, u)) = Put(Cell(pd), <<"page", a>>, f)
<1> DEFINE new == WithPage(pd, a, f, u)
<1>1. /\ new.dir = pd.dir /\ new.ktabs = pd.ktabs /\ new.tab = pd.tab
      /\ new.pte = [pd.pte EXCEPT ![a] = f] /\ new.user = [pd.user EXCEPT ![a] = u]
  BY DEF WithPage, Pgdirs
<1>2. new \in Pgdirs
  BY DEF WithPage, Pgdirs
<1>a. \A b \in UPages : new.pte[b] = IF b = a THEN f ELSE pd.pte[b]
  BY <1>1 DEF Pgdirs
<1> HIDE DEF new
<1>3. ASSUME NEW s \in Slots PROVE Cell(new)[s] = [Cell(pd) EXCEPT ![<<"page", a>>] = f][s]
  <2>1. Cell(pd) \in [Slots -> Frames \cup {None}]
    BY CellType
  <2>2. CASE s = <<"dir", 0>>
    BY <1>1, <1>2, <2>1, <2>2, CellType
  <2>3. CASE \E i \in Nat : s = <<"ktab", i>>
    BY <1>1, <1>2, <2>1, <2>3, CellType
  <2>4. CASE \E t \in Tables : s = <<"tab", t>>
    BY <1>1, <1>2, <2>1, <2>4, CellType
  <2>5. CASE \E b \in UPages : s = <<"page", b>>
    BY <1>a, <1>2, <2>1, <2>5, CellType
  <2> QED
    BY <2>2, <2>3, <2>4, <2>5, SlotCases
<1>4. Cell(new) = Put(Cell(pd), <<"page", a>>, f)
  <2>1. Cell(new) \in [Slots -> Frames \cup {None}] /\ Cell(pd) \in [Slots -> Frames \cup {None}]
    BY <1>2, CellType
  <2> QED
    BY <1>3, <2>1 DEF Put
<1> QED
  BY <1>1, <1>2, <1>4 DEF new

WithTable(pd, t, f) == [pd EXCEPT !.tab[t] = f]
\* The frame is in the slot for table t, and nothing else has changed.
LEMMA CellWithTable ==
  ASSUME NEW pd \in Pgdirs, NEW t \in Tables, NEW f \in Frames
  PROVE  /\ WithTable(pd, t, f) \in Pgdirs
         /\ WithTable(pd, t, f).pte = pd.pte /\ WithTable(pd, t, f).user = pd.user
         /\ WithTable(pd, t, f).tab = [pd.tab EXCEPT ![t] = f]
         /\ Cell(WithTable(pd, t, f)) = Put(Cell(pd), <<"tab", t>>, f)
<1> DEFINE new == WithTable(pd, t, f)
<1>1. /\ new.dir = pd.dir /\ new.ktabs = pd.ktabs /\ new.tab = [pd.tab EXCEPT ![t] = f]
      /\ new.pte = pd.pte /\ new.user = pd.user
  BY DEF WithTable, Pgdirs
<1>2. new \in Pgdirs
  BY DEF WithTable, Pgdirs
<1>a. \A b \in Tables : new.tab[b] = IF b = t THEN f ELSE pd.tab[b]
  BY <1>1 DEF Pgdirs
<1> HIDE DEF new
<1>3. ASSUME NEW s \in Slots PROVE Cell(new)[s] = [Cell(pd) EXCEPT ![<<"tab", t>>] = f][s]
  <2>1. Cell(pd) \in [Slots -> Frames \cup {None}]
    BY CellType
  <2>2. CASE s = <<"dir", 0>>
    BY <1>1, <1>2, <2>1, <2>2, CellType
  <2>3. CASE \E i \in Nat : s = <<"ktab", i>>
    BY <1>1, <1>2, <2>1, <2>3, CellType
  <2>4. CASE \E b \in Tables : s = <<"tab", b>>
    BY <1>a, <1>2, <2>1, <2>4, CellType
  <2>5. CASE \E b \in UPages : s = <<"page", b>>
    BY <1>1, <1>2, <2>1, <2>5, CellType
  <2> QED
    BY <2>2, <2>3, <2>4, <2>5, SlotCases
<1>4. Cell(new) = Put(Cell(pd), <<"tab", t>>, f)
  <2>1. Cell(new) \in [Slots -> Frames \cup {None}] /\ Cell(pd) \in [Slots -> Frames \cup {None}]
    BY <1>2, CellType
  <2> QED
    BY <1>3, <2>1 DEF Put
<1> QED
  BY <1>1, <1>2, <1>4 DEF new

WithKtable(pd, f) == [pd EXCEPT !.ktabs = Append(pd.ktabs, f)]
\* The frame is in the slot after the last of the kernel's tables.
LEMMA CellWithKtable ==
  ASSUME NEW pd \in Pgdirs, NEW f \in Frames
  PROVE  /\ WithKtable(pd, f) \in Pgdirs
         /\ WithKtable(pd, f).pte = pd.pte /\ WithKtable(pd, f).user = pd.user
         /\ <<"ktab", Len(pd.ktabs) + 1>> \in Slots
         /\ Cell(pd)[<<"ktab", Len(pd.ktabs) + 1>>] = None
         /\ Cell(WithKtable(pd, f)) = Put(Cell(pd), <<"ktab", Len(pd.ktabs) + 1>>, f)
<1> DEFINE new == WithKtable(pd, f)
           n == Len(pd.ktabs)
           longer == Append(pd.ktabs, f)
<1>1. /\ new.dir = pd.dir /\ new.ktabs = longer /\ new.tab = pd.tab
      /\ new.pte = pd.pte /\ new.user = pd.user
  BY DEF WithKtable, Pgdirs
<1>2. pd.ktabs \in Seq(Frames) /\ n \in Nat
  BY DEF Pgdirs
<1>4. /\ longer \in Seq(Frames) /\ Len(longer) = n + 1
      /\ \A i \in 1 .. n : longer[i] = pd.ktabs[i]
      /\ longer[n + 1] = f
  BY <1>2
<1>3. new \in Pgdirs
  BY <1>4 DEF WithKtable, Pgdirs
<1> HIDE DEF new, longer
<1>5. <<"ktab", n + 1>> \in Slots /\ Cell(pd)[<<"ktab", n + 1>>] = None
  BY <1>2, CellType DEF Slots
<1>6. ASSUME NEW i \in Nat
      PROVE  Cell(new)[<<"ktab", i>>] = IF i = n + 1 THEN f ELSE Cell(pd)[<<"ktab", i>>]
  <2>1. Cell(new)[<<"ktab", i>>] = IF i \in 1 .. n + 1 THEN longer[i] ELSE None
    BY <1>1, <1>3, <1>4, CellType
  <2>2. Cell(pd)[<<"ktab", i>>] = IF i \in 1 .. n THEN pd.ktabs[i] ELSE None
    BY CellType
  <2> QED
    BY <1>2, <1>4, <2>1, <2>2
<1>7. ASSUME NEW s \in Slots PROVE Cell(new)[s] = [Cell(pd) EXCEPT ![<<"ktab", n + 1>>] = f][s]
  <2>1. Cell(pd) \in [Slots -> Frames \cup {None}]
    BY CellType
  <2>2. CASE s = <<"dir", 0>>
    BY <1>1, <1>3, <2>1, <2>2, CellType
  <2>3. CASE \E i \in Nat : s = <<"ktab", i>>
    BY <1>5, <1>6, <2>1, <2>3
  <2>4. CASE \E t \in Tables : s = <<"tab", t>>
    BY <1>1, <1>3, <2>1, <2>4, CellType
  <2>5. CASE \E b \in UPages : s = <<"page", b>>
    BY <1>1, <1>3, <2>1, <2>5, CellType
  <2> QED
    BY <2>2, <2>3, <2>4, <2>5, SlotCases
<1>8. Cell(new) = Put(Cell(pd), <<"ktab", n + 1>>, f)
  <2>1. Cell(new) \in [Slots -> Frames \cup {None}] /\ Cell(pd) \in [Slots -> Frames \cup {None}]
    BY <1>3, CellType
  <2> QED
    BY <1>7, <2>1 DEF Put
<1> QED
  BY <1>1, <1>3, <1>5, <1>8 DEF new

\* No page directory holds nothing.
LEMMA CellNoPgdir ==
  /\ NoPgdir \in Pgdirs
  /\ NoPgdir.pte = [a \in UPages |-> None] /\ NoPgdir.user = [a \in UPages |-> FALSE]
  /\ NoPgdir.tab = [t \in Tables |-> None]
  /\ NoPgdir.dir = None /\ NoPgdir.ktabs = << >>
  /\ Cell(NoPgdir) = [s \in Slots |-> None]
<1>1. NoPgdir \in Pgdirs
  BY DEF NoPgdir, Pgdirs
<1>2. /\ NoPgdir.pte = [a \in UPages |-> None] /\ NoPgdir.user = [a \in UPages |-> FALSE]
      /\ NoPgdir.tab = [t \in Tables |-> None] /\ NoPgdir.dir = None /\ NoPgdir.ktabs = << >>
  BY DEF NoPgdir
<1>3. Len(NoPgdir.ktabs) = 0
  BY <1>2
<1>4. ASSUME NEW s \in Slots PROVE Cell(NoPgdir)[s] = None
  BY <1>1, <1>2, <1>3, CellType, SlotCases
<1> QED
  BY <1>1, <1>2, <1>4, CellType

-----------------------------------------------------------------------------
(* kalloc.c and vm.c on a memory: m is sound beside the frames U that others  *)
(* use, and pages that the user may touch are there.                          *)

UserMapped(pd) == \A a \in UPages : pd.user[a] => pd.pte[a] # None
Sound(m, U) == m \in Memories /\ OneUse(m.free, Cell(m.pd), U) /\ UserMapped(m.pd)

\* kalloc finds a free frame if there is one.
LEMMA TopIsFree ==
  ASSUME NEW fr \in [Frames -> 0 .. 1], ~NoneFree(fr)
  PROVE  Top(fr) \in Frames /\ fr[Top(fr)] = 1
<1> DEFINE S == {f \in Frames : fr[f] > 0}
<1>a. PICK f \in Frames : fr[f] # 0
  BY DEF NoneFree
<1>b. fr[f] > 0
  BY <1>a
<1>1. S # {} /\ S \in SUBSET Nat
  BY <1>b, Sizes
<1>2. PICK k \in S : \A g \in S : k <= g
  BY <1>1, Least
<1>3. k \in Frames /\ fr[k] > 0 /\ \A g \in 1 .. k - 1 : fr[g] = 0
  BY <1>2, Sizes DEF Frames
<1>4. Top(fr) \in Frames /\ fr[Top(fr)] > 0
  BY <1>3 DEF Top
<1> QED
  BY <1>4

\* The parts of a memory.
LEMMA MemoryType ==
  ASSUME NEW m \in Memories
  PROVE  /\ m.free \in [Frames -> 0 .. 1] /\ m.content \in [Frames -> Words]
         /\ m.pd \in Pgdirs /\ m.ok \in BOOLEAN
BY DEF Memories

\* A memory is its parts.
LEMMA MemoryOf ==
  ASSUME NEW fr \in [Frames -> 0 .. 1], NEW co \in [Frames -> Words], NEW pd \in Pgdirs, NEW ok \in BOOLEAN
  PROVE  [free |-> fr, content |-> co, pd |-> pd, ok |-> ok] \in Memories
BY DEF Memories

\* The free list and the contents of a memory change.
With(m, fr, co) == [[m EXCEPT !.free = fr] EXCEPT !.content = co]
\* It is a memory then, of which the rest is as it was.
LEMMA MemoryWith ==
  ASSUME NEW m \in Memories, NEW fr \in [Frames -> 0 .. 1], NEW co \in [Frames -> Words],
         NEW n, n = With(m, fr, co)
  PROVE  n \in Memories /\ n.free = fr /\ n.content = co /\ n.pd = m.pd /\ n.ok = m.ok
<1>1. n = [free |-> fr, content |-> co, pd |-> m.pd, ok |-> m.ok]
  BY DEF Memories, With
<1>2. m.pd \in Pgdirs /\ m.ok \in BOOLEAN
  BY MemoryType
<1>3. [free |-> fr, content |-> co, pd |-> m.pd, ok |-> m.ok] \in Memories
  BY <1>2 DEF Memories
<1>4. n.free = fr /\ n.content = co /\ n.pd = m.pd /\ n.ok = m.ok
  BY <1>1
<1> QED
  BY <1>1, <1>3, <1>4, Zenon

\* A failure changes nothing else.
LEMMA FailedSound ==
  ASSUME NEW m, NEW U, Sound(m, U)
  PROVE  /\ Sound(Failed(m), U)
         /\ Failed(m).pd = m.pd /\ Failed(m).content = m.content /\ Failed(m).free = m.free
         /\ Failed(m).ok = FALSE
<1>1. m \in Memories
  BY DEF Sound
<1>2. /\ Failed(m) \in Memories
      /\ Failed(m).pd = m.pd /\ Failed(m).content = m.content /\ Failed(m).free = m.free
      /\ Failed(m).ok = FALSE
  BY <1>1 DEF Failed, Memories
<1> QED
  BY <1>2 DEF Sound

\* kalloc takes a frame that is in no other use.
LEMMA KallocSound ==
  ASSUME NEW m, NEW U, Sound(m, U), ~NoneFree(m.free), NEW what \in Words
  PROVE  /\ Top(m.free) \in Frames /\ Top(m.free) \notin U
         /\ Sound(Kalloc(m, what), U \cup {Top(m.free)})
         /\ Kalloc(m, what).pd = m.pd /\ Kalloc(m, what).ok = m.ok
         /\ \A f \in Frames : f # Top(m.free) => Kalloc(m, what).content[f] = m.content[f]
<1> DEFINE f == Top(m.free)
           n == Kalloc(m, what)
<1>1. m \in Memories /\ m.free \in [Frames -> 0 .. 1] /\ m.content \in [Frames -> Words]
  BY MemoryType DEF Sound
<1>2. f \in Frames /\ m.free[f] = 1
  BY <1>1, TopIsFree
<1> HIDE DEF f
<1> DEFINE fr == [m.free EXCEPT ![f] = m.free[f] - 1]
           co == [m.content EXCEPT ![f] = what]
<1>3. n = With(m, fr, co)
  BY <1>1 DEF With, Kalloc, f, Memories
<1>4. fr \in [Frames -> 0 .. 1] /\ co \in [Frames -> Words]
  <2>1. fr \in [Frames -> 0 .. 1]
    BY <1>1, <1>2
  <2>2. co \in [Frames -> Words]
    BY <1>1, WordsKnown
  <2> QED
    BY <2>1, <2>2
<1>5. n \in Memories /\ n.free = fr /\ n.content = co /\ n.pd = m.pd /\ n.ok = m.ok
  <2> HIDE DEF fr, co, n
  <2> QED
    BY <1>1, <1>3, <1>4, MemoryWith
<1>6. f \notin U /\ OneUse(n.free, Cell(n.pd), U \cup {f})
  BY <1>2, <1>5, UseTake DEF Sound
<1>7. \A g \in Frames : g # f => n.content[g] = m.content[g]
  BY <1>1, <1>5
<1> QED
  BY <1>2, <1>5, <1>6, <1>7 DEF Sound, f

\* kfree of a frame that is in no slot
LEMMA KfreeSound ==
  ASSUME NEW m, NEW U, NEW f \in Frames, f \notin U, Sound(m, U \cup {f})
  PROVE  /\ Sound(Kfree(m, f), U)
         /\ Kfree(m, f).pd = m.pd /\ Kfree(m, f).ok = m.ok
         /\ \A g \in Frames : g # f => Kfree(m, f).content[g] = m.content[g]
<1> DEFINE n == Kfree(m, f)
<1>1. m \in Memories /\ m.free \in [Frames -> 0 .. 1] /\ m.content \in [Frames -> Words]
  BY MemoryType DEF Sound
<1>2. m.free[f] = 0
  BY DEF Sound, OneUse
<1> DEFINE fr == [m.free EXCEPT ![f] = m.free[f] + 1]
           co == [m.content EXCEPT ![f] = "junk"]
<1>3. n = With(m, fr, co)
  BY <1>1 DEF With, Kfree, Memories
<1>4. fr \in [Frames -> 0 .. 1] /\ co \in [Frames -> Words]
  <2>1. fr \in [Frames -> 0 .. 1]
    BY <1>1, <1>2
  <2>2. co \in [Frames -> Words]
    BY <1>1, WordsKnown
  <2> QED
    BY <2>1, <2>2
<1>5. n \in Memories /\ n.free = fr /\ n.content = co /\ n.pd = m.pd /\ n.ok = m.ok
  <2> HIDE DEF fr, co, n
  <2> QED
    BY <1>1, <1>3, <1>4, MemoryWith
<1>6. OneUse(n.free, Cell(n.pd), U)
  BY <1>5, UseGive DEF Sound
<1>7. \A g \in Frames : g # f => n.content[g] = m.content[g]
  BY <1>1, <1>5
<1> QED
  BY <1>5, <1>6, <1>7 DEF Sound

\* kfree of no frame (the address 0): nothing is freed.
LEMMA KfreeNone ==
  ASSUME NEW m \in Memories
  PROVE  Kfree(m, None) = m
<1>1. m.free \in [Frames -> 0 .. 1] /\ m.content \in [Frames -> Words]
  BY MemoryType
<1>2. None \notin Frames
  BY Sizes
<1>3. Kfree(m, None) = [[m EXCEPT !.free = [m.free EXCEPT ![None] = m.free[None] + 1]]
                           EXCEPT !.content = [m.content EXCEPT ![None] = "junk"]]
  BY DEF Kfree, Memories
<1>4. [m.free EXCEPT ![None] = m.free[None] + 1] = m.free /\ [m.content EXCEPT ![None] = "junk"] = m.content
  BY <1>1, <1>2
<1>5. Kfree(m, None) = With(m, m.free, m.content)
  BY <1>3, <1>4 DEF With
<1>6. m = [free |-> m.free, content |-> m.content, pd |-> m.pd, ok |-> m.ok]
  BY DEF Memories
<1>7. With(m, m.free, m.content) = [free |-> m.free, content |-> m.content, pd |-> m.pd, ok |-> m.ok]
  BY DEF Memories, With
<1> QED
  BY <1>5, <1>6, <1>7

\* A frame in hand is put in an empty slot of the page directory.
LEMMA PutSound ==
  ASSUME NEW m, NEW U, NEW f \in Frames, f \notin U, Sound(m, U \cup {f}),
         NEW pd \in Pgdirs, NEW s \in Slots, Cell(m.pd)[s] = None,
         Cell(pd) = Put(Cell(m.pd), s, f), UserMapped(pd),
         NEW n \in Memories, n.pd = pd, n.free = m.free
  PROVE  Sound(n, U)
<1>1. Cell(m.pd) \in [Slots -> Frames \cup {None}]
  BY MemoryType, CellType DEF Sound
<1> QED
  BY <1>1, UsePut DEF Sound

\* What others hold keeps its content, and so do the pages B, where they are.
Keeps(m, n, U, B) ==
  /\ \A f \in U : n.content[f] = m.content[f]
  /\ \A b \in B : /\ n.pd.pte[b] = m.pd.pte[b] /\ n.pd.user[b] = m.pd.user[b]
                  /\ m.pd.pte[b] # None => n.content[m.pd.pte[b]] = m.content[m.pd.pte[b]]

\* What has the same contents and the same pages keeps them.
LEMMA KeepsSame ==
  ASSUME NEW m, NEW n, NEW U, NEW B, n.content = m.content, n.pd.pte = m.pd.pte, n.pd.user = m.pd.user
  PROVE  Keeps(m, n, U, B)
BY DEF Keeps

\* A frame is in the slot of one page only.
LEMMA PagesApart ==
  ASSUME NEW m, NEW U, Sound(m, U), NEW a \in UPages, NEW b \in UPages,
         m.pd.pte[a] # None, m.pd.pte[a] = m.pd.pte[b]
  PROVE  a = b
<1>1. m.pd \in Pgdirs
  BY MemoryType DEF Sound
<1>2. PICK s, t : s = <<"page", a>> /\ t = <<"page", b>>
  OBVIOUS
<1>3. /\ s \in DOMAIN Cell(m.pd) /\ Cell(m.pd)[s] = m.pd.pte[a]
      /\ t \in DOMAIN Cell(m.pd) /\ Cell(m.pd)[t] = m.pd.pte[b]
  BY <1>1, <1>2, CellType DEF Slots
<1>4. Cell(m.pd)[s] \in Frames
  BY <1>1, <1>3 DEF Pgdirs
<1>5. s = t
  BY <1>3, <1>4 DEF Sound, OneUse
<1> QED
  BY <1>2, <1>5

\* Two steps keep what each of them keeps.
LEMMA KeepsTrans ==
  ASSUME NEW m, NEW n, NEW o, NEW U, NEW V, NEW W, NEW B, NEW C, NEW D,
         Keeps(m, n, U, B), Keeps(n, o, V, C), W \subseteq U, W \subseteq V, D \subseteq B, D \subseteq C
  PROVE  Keeps(m, o, W, D)
BY DEF Keeps

\* A frame in a slot for a page is in no other use.
LEMMA PageFrames ==
  ASSUME NEW m, NEW U, Sound(m, U), NEW a \in UPages, m.pd.pte[a] # None
  PROVE  m.pd.pte[a] \in Frames /\ m.free[m.pd.pte[a]] = 0 /\ m.pd.pte[a] \notin U
<1>1. m.pd \in Pgdirs /\ m.free \in [Frames -> 0 .. 1]
  BY MemoryType DEF Sound
<1>2. m.pd.pte[a] \in Frames
  BY <1>1 DEF Pgdirs
<1>3. <<"page", a>> \in DOMAIN Cell(m.pd) /\ Cell(m.pd)[<<"page", a>>] = m.pd.pte[a]
  BY <1>1, CellType DEF Slots
<1>4. m.pd.pte[a] \notin U /\ m.free[m.pd.pte[a]] # 1
  BY <1>2, <1>3 DEF Sound, OneUse
<1> QED
  BY <1>1, <1>2, <1>4

\* kalloc changes no content of a frame in use,
LEMMA KallocKeeps ==
  ASSUME NEW m, NEW U, Sound(m, U), ~NoneFree(m.free), NEW what \in Words
  PROVE  Keeps(m, Kalloc(m, what), U, UPages)
<1>1. m.free \in [Frames -> 0 .. 1] /\ U \subseteq Frames
  BY MemoryType DEF Sound, OneUse
<1>2. m.free[Top(m.free)] = 1
  BY <1>1, TopIsFree
<1>3. \A f \in U : f # Top(m.free)
  BY KallocSound
<1>4. \A b \in UPages : m.pd.pte[b] # None => m.pd.pte[b] \in Frames /\ m.pd.pte[b] # Top(m.free)
  BY <1>2, PageFrames
<1> QED
  BY <1>1, <1>3, <1>4, KallocSound DEF Keeps

\* nor does kfree of another frame.
LEMMA KfreeKeeps ==
  ASSUME NEW m, NEW U, NEW f \in Frames, f \notin U, Sound(m, U \cup {f})
  PROVE  Keeps(m, Kfree(m, f), U, UPages)
<1>1. U \subseteq Frames
  BY DEF Sound, OneUse
<1>2. \A b \in UPages : m.pd.pte[b] # None => m.pd.pte[b] \in Frames /\ m.pd.pte[b] # f
  BY PageFrames
<1> QED
  BY ZenonT(60), <1>1, <1>2, KfreeSound DEF Keeps

\* walkpgdir finds the page table, or adds one, or fails.
LEMMA WalkpgdirSound ==
  ASSUME NEW m, NEW U, Sound(m, U), NEW a \in UPages
  PROVE  /\ Sound(Walkpgdir(m, a), U)
         /\ Keeps(m, Walkpgdir(m, a), U, UPages)
         /\ Walkpgdir(m, a).pd.pte = m.pd.pte /\ Walkpgdir(m, a).pd.user = m.pd.user
         /\ Walkpgdir(m, a).ok => m.ok
<1> DEFINE n == Walkpgdir(m, a)
<1>1. PICK t \in Tables : t = PDX(a)
  BY Sizes
<1>2. CASE m.pd.tab[t] # None
  BY <1>1, <1>2, KeepsSame DEF Walkpgdir
<1>3. CASE m.pd.tab[t] = None /\ NoneFree(m.free)
  <2>1. n = Failed(m)
    BY <1>1, <1>3 DEF Walkpgdir
  <2> QED
    BY <2>1, FailedSound, KeepsSame
<1>4. CASE m.pd.tab[t] = None /\ ~NoneFree(m.free)
  <2>1. PICK k, f : k = Kalloc(m, "zero") /\ f = Top(m.free)
    OBVIOUS
  <2>2. /\ f \in Frames /\ f \notin U /\ Sound(k, U \cup {f}) /\ k.pd = m.pd /\ k.ok = m.ok
        /\ Keeps(m, k, U, UPages)
    BY <1>4, <2>1, WordsKnown, KallocSound, KallocKeeps
  <2>3. k \in Memories /\ k.pd \in Pgdirs
    BY <2>2, MemoryType DEF Sound
  <2>4. n = [k EXCEPT !.pd.tab[t] = f]
    BY <1>1, <1>4, <2>1 DEF Walkpgdir
  <2>5. /\ n.pd = WithTable(k.pd, t, f) /\ n.free = k.free /\ n.content = k.content /\ n.ok = k.ok
    BY <2>3, <2>4 DEF WithTable, Memories
  <2>6. /\ n.pd \in Pgdirs /\ n.pd.pte = k.pd.pte /\ n.pd.user = k.pd.user
        /\ Cell(n.pd) = Put(Cell(k.pd), <<"tab", t>>, f)
    <3>1. k.pd \in Pgdirs /\ t \in Tables /\ f \in Frames
      BY <1>1, <2>2, <2>3
    <3>2. /\ WithTable(k.pd, t, f) \in Pgdirs
          /\ WithTable(k.pd, t, f).pte = k.pd.pte /\ WithTable(k.pd, t, f).user = k.pd.user
          /\ Cell(WithTable(k.pd, t, f)) = Put(Cell(k.pd), <<"tab", t>>, f)
      BY ZenonT(60), <3>1, CellWithTable
    <3> QED
      BY <2>5, <3>2, Zenon
  <2>7. n = [free |-> k.free, content |-> k.content, pd |-> WithTable(k.pd, t, f), ok |-> k.ok]
    BY <2>3, <2>4 DEF WithTable, Memories
  <2>8. n \in Memories
    BY <2>3, <2>5, <2>6, <2>7, MemoryOf, MemoryType
  <2>9. Cell(k.pd)[<<"tab", t>>] = None /\ <<"tab", t>> \in Slots
    BY <1>1, <1>4, <2>2, <2>3, CellType DEF Slots
  <2>10. UserMapped(n.pd)
    BY <2>2, <2>6 DEF Sound, UserMapped
  <2>11. Sound(n, U)
    BY <2>2, <2>5, <2>6, <2>8, <2>9, <2>10, PutSound
  <2>12. Keeps(m, n, U, UPages)
    BY <2>2, <2>5, <2>6, KeepsSame, KeepsTrans
  <2> QED
    BY <2>2, <2>5, <2>6, <2>11, <2>12
<1> QED
  BY <1>2, <1>3, <1>4

\* A frame in hand becomes the page at a.
LEMMA SetPteSound ==
  ASSUME NEW m, NEW U, NEW f \in Frames, f \notin U, Sound(m, U \cup {f}), m.ok,
         NEW a \in UPages, m.pd.pte[a] = None, NEW user \in BOOLEAN
  PROVE  /\ Sound(SetPte(m, a, f, user), U)
         /\ Keeps(m, SetPte(m, a, f, user), U, UPages \ {a})
         /\ SetPte(m, a, f, user).ok
         /\ SetPte(m, a, f, user).pd.pte[a] = f /\ SetPte(m, a, f, user).pd.user[a] = user
         /\ SetPte(m, a, f, user).content = m.content
<1> DEFINE n == SetPte(m, a, f, user)
           new == WithPage(m.pd, a, f, user)
<1>1. m \in Memories /\ m.pd \in Pgdirs
  BY MemoryType DEF Sound
<1>2. n = [[m EXCEPT !.pd.pte[a] = f] EXCEPT !.pd.user[a] = user]
  BY <1>1 DEF SetPte, Memories
<1>3. /\ new \in Pgdirs
      /\ new.pte = [m.pd.pte EXCEPT ![a] = f] /\ new.user = [m.pd.user EXCEPT ![a] = user]
      /\ Cell(new) = Put(Cell(m.pd), <<"page", a>>, f)
  BY <1>1, CellWithPage
<1>4. n = [m EXCEPT !.pd = new]
  BY <1>1, <1>2 DEF WithPage, Memories
<1> HIDE DEF new
<1>5. /\ n = [free |-> m.free, content |-> m.content, pd |-> new, ok |-> m.ok]
      /\ n.pd = new /\ n.free = m.free /\ n.content = m.content /\ n.ok = m.ok
  BY <1>1, <1>4 DEF Memories
<1>6. n \in Memories
  <2>1. m.free \in [Frames -> 0 .. 1] /\ m.content \in [Frames -> Words] /\ m.ok \in BOOLEAN
    BY <1>1, MemoryType
  <2> QED
    BY ONLY <1>3, <1>5, <2>1 DEF Memories
<1>7. m.pd.pte \in [UPages -> Frames \cup {None}] /\ m.pd.user \in [UPages -> BOOLEAN]
  BY <1>1 DEF Pgdirs
<1>8. Cell(m.pd)[<<"page", a>>] = None /\ <<"page", a>> \in Slots
  BY <1>1, CellType DEF Slots
<1>9. UserMapped(new)
  BY <1>3, <1>7, Sizes DEF Sound, UserMapped
<1>10. Sound(n, U)
  BY <1>3, <1>5, <1>6, <1>8, <1>9, PutSound
<1>11. Keeps(m, n, U, UPages \ {a})
  BY <1>3, <1>5, <1>7 DEF Keeps
<1>12. n.pd.pte[a] = f /\ n.pd.user[a] = user
  BY <1>3, <1>5, <1>7
<1> QED
  BY <1>5, <1>10, <1>11, <1>12

\* A page is added at a, or nothing is: what kalloc gave goes back when there is no
\* page table for it.
AddsPage(m, n, U, a, what, user) ==
  /\ Sound(n, U) /\ Keeps(m, n, U, UPages \ {a})
  /\ n.ok => n.pd.pte[a] # None /\ n.pd.user[a] = user /\ n.content[n.pd.pte[a]] = what
  /\ ~n.ok => n.pd.pte[a] = None
\* The memory is sound either way.
LEMMA AddPageSound ==
  ASSUME NEW m, NEW U, Sound(m, U), m.ok, NEW a \in UPages, m.pd.pte[a] = None,
         NEW what \in Words, NEW user \in BOOLEAN, NEW n, n = AddPage(m, a, what, user)
  PROVE  AddsPage(m, n, U, a, what, user)
<1> USE DEF AddsPage
<1>1. CASE NoneFree(m.free)
  <2>1. n = Failed(m)
    BY <1>1 DEF AddPage
  <2> QED
    BY <2>1, FailedSound, KeepsSame, KeepsTrans
<1>2. CASE ~NoneFree(m.free)
  <2>1. PICK f, k, w : f = Top(m.free) /\ k = Kalloc(m, what) /\ w = Walkpgdir(k, a)
    OBVIOUS
  <2>2. /\ f \in Frames /\ f \notin U /\ Sound(k, U \cup {f}) /\ k.pd = m.pd /\ k.ok = m.ok
        /\ Keeps(m, k, U, UPages)
    BY <1>2, <2>1, KallocSound, KallocKeeps
  <2>3. /\ Sound(w, U \cup {f}) /\ Keeps(k, w, U \cup {f}, UPages)
        /\ w.pd.pte = m.pd.pte /\ w.ok \in BOOLEAN
    <3>1. Sound(w, U \cup {f}) /\ Keeps(k, w, U \cup {f}, UPages) /\ w.pd.pte = k.pd.pte
      BY <2>1, <2>2, WalkpgdirSound, Zenon
    <3>2. w.ok \in BOOLEAN
      BY <3>1, MemoryType DEF Sound
    <3> QED
      BY <2>2, <3>1, <3>2
  <2>4. k.content[f] = what
    <3>1. m \in Memories /\ m.content \in [Frames -> Words]
      BY MemoryType DEF Sound
    <3>2. k.content = [m.content EXCEPT ![f] = what]
      BY <2>1, <3>1 DEF Kalloc, Memories
    <3> QED
      BY <2>2, <3>1, <3>2
  <2>5. w.content[f] = what
    BY <2>3, <2>4 DEF Keeps
  <2>6. n = GiveBack(SetPte(w, a, f, user), f)
    BY <1>2, <2>1 DEF AddPage, Mappages
  <2>7. CASE w.ok
    <3>1. PICK o : o = SetPte(w, a, f, user)
      OBVIOUS
    <3>2. /\ Sound(o, U) /\ Keeps(w, o, U, UPages \ {a}) /\ o.ok
          /\ o.pd.pte[a] = f /\ o.pd.user[a] = user /\ o.content = w.content
      BY <2>2, <2>3, <2>7, <3>1, SetPteSound
    <3>3. n = o
      BY <2>6, <3>1, <3>2 DEF GiveBack
    <3>4. Keeps(m, w, U, UPages)
      BY <2>2, <2>3, KeepsTrans
    <3>5. Keeps(m, n, U, UPages \ {a})
      BY <3>2, <3>3, <3>4, KeepsTrans
    <3> QED
      BY <2>2, <2>5, <3>2, <3>3, <3>5, Sizes
  <2>8. CASE ~w.ok
    <3>1. n = Kfree(w, f)
      BY <2>6, <2>8 DEF GiveBack, SetPte
    <3>2. Sound(n, U) /\ n.pd = w.pd /\ n.ok = w.ok /\ Keeps(w, n, U, UPages)
      BY <2>2, <2>3, <3>1, KfreeSound, KfreeKeeps
    <3>3. Keeps(m, w, U, UPages)
      BY <2>2, <2>3, KeepsTrans
    <3>4. Keeps(m, n, U, UPages \ {a})
      BY <3>2, <3>3, KeepsTrans
    <3> QED
      BY <2>3, <2>8, <3>2, <3>4
  <2> QED
    BY <2>3, <2>7, <2>8
<1> QED
  BY <1>1, <1>2

\* A size in pages: 0 for 0, no more than there are below KERNBASE, and back from pages.
LEMMA UpFacts ==
  /\ \A n \in Nat : Up(n) \in Nat
  /\ \A n, k \in Nat : n <= k => Up(n) <= Up(k)
  /\ \A q \in Nat : Up(q * PGSIZE) = q
  /\ Up(0) = 0
  /\ UPages = 0 .. Up(KERNBASE) - 1
  /\ \A n \in Nat : n > 0 => Up(n) > 0
<1>1. PGSIZE \in Nat /\ PGSIZE > 0 /\ KERNBASE \in Nat /\ KERNBASE % PGSIZE = 0
  BY Sizes
<1>2. ASSUME NEW n \in Nat
      PROVE  Up(n) \in Nat /\ n <= PGSIZE * Up(n) /\ PGSIZE * Up(n) < n + PGSIZE
  <2>1. PICK x \in Nat : x = n + PGSIZE - 1
    BY <1>1
  <2>2. PICK d \in Int, r \in 0 .. PGSIZE - 1 : d = x \div PGSIZE /\ r = x % PGSIZE /\ r = x - PGSIZE * d
    BY <1>1, Remainder
  <2>3. d >= 0
    <3>1. d <= -1 => PGSIZE * d <= -PGSIZE
      BY <1>1
    <3> QED
      BY <1>1, <2>2, <3>1
  <2>4. Up(n) = d
    BY <2>1, <2>2 DEF Up
  <2>5. PICK e \in Int : e = PGSIZE * d
    BY <1>1
  <2> QED
    BY <1>1, <2>1, <2>2, <2>3, <2>4, <2>5
<1>3. ASSUME NEW n \in Nat, NEW q \in Nat, n <= PGSIZE * q, PGSIZE * q < n + PGSIZE
      PROVE  Up(n) = q
  <2>1. PICK u \in Nat : u = Up(n)
    BY <1>2
  <2>2. n <= PGSIZE * u /\ PGSIZE * u < n + PGSIZE
    BY <1>2, <2>1
  <2>3. u >= q + 1 => PGSIZE * u >= PGSIZE * q + PGSIZE
    BY <1>1
  <2>4. q >= u + 1 => PGSIZE * q >= PGSIZE * u + PGSIZE
    BY <1>1
  <2>5. PICK e \in Int, h \in Int : e = PGSIZE * u /\ h = PGSIZE * q
    BY <1>1
  <2> QED
    BY <1>1, <1>3, <2>1, <2>2, <2>3, <2>4, <2>5
<1>4. ASSUME NEW n \in Nat, NEW k \in Nat, n <= k PROVE Up(n) <= Up(k)
  <2>1. PICK u \in Nat, v \in Nat : u = Up(n) /\ v = Up(k)
    BY <1>2
  <2>2. PGSIZE * u < n + PGSIZE /\ k <= PGSIZE * v
    BY <1>2, <2>1
  <2>3. u >= v + 1 => PGSIZE * u >= PGSIZE * v + PGSIZE
    BY <1>1
  <2>4. PICK e \in Int, h \in Int : e = PGSIZE * u /\ h = PGSIZE * v
    BY <1>1
  <2> QED
    BY <1>1, <1>4, <2>1, <2>2, <2>3, <2>4
<1>5. ASSUME NEW q \in Nat PROVE Up(q * PGSIZE) = q
  <2>1. PICK n \in Nat : n = q * PGSIZE /\ n = PGSIZE * q
    BY <1>1
  <2>2. n <= PGSIZE * q /\ PGSIZE * q < n + PGSIZE
    BY <1>1, <2>1
  <2> QED
    BY <1>3, <2>1, <2>2
<1>6. Up(0) = 0
  <2>1. PGSIZE * 0 = 0
    BY <1>1
  <2> QED
    BY <1>1, <1>3, <2>1
<1>7. UPages = 0 .. Up(KERNBASE) - 1
  <2>1. PICK d \in Int : d = KERNBASE \div PGSIZE /\ 0 = KERNBASE - PGSIZE * d
    BY <1>1, Remainder
  <2>2. d >= 0
    <3>1. d <= -1 => PGSIZE * d <= -PGSIZE
      BY <1>1
    <3>2. PICK e \in Int : e = PGSIZE * d
      BY <1>1
    <3> QED
      BY <1>1, <2>1, <3>1, <3>2
  <2>3. Up(KERNBASE) = d
    <3>1. PICK e \in Int : e = PGSIZE * d
      BY <1>1
    <3> QED
      BY <1>1, <1>3, <2>1, <2>2, <3>1
  <2> QED
    BY <2>1, <2>3 DEF UPages
<1>8. ASSUME NEW n \in Nat, n > 0 PROVE Up(n) > 0
  <2>1. PICK u \in Nat : u = Up(n) /\ n <= PGSIZE * u
    BY <1>2
  <2>2. u = 0 => PGSIZE * u = 0
    BY <1>1
  <2> QED
    BY <1>8, <2>1, <2>2
<1> QED
  BY <1>2, <1>4, <1>5, <1>6, <1>7, <1>8

\* The pages from address a up to b
Between(a, b) == {i \in UPages : a <= i /\ i < b}
\* As an interval they are the loops' pages, which are the user's.
LEMMA BetweenIs ==
  ASSUME NEW a \in Nat, NEW b \in Nat, b <= Up(KERNBASE)
  PROVE  Between(a, b) = a .. b - 1 /\ Between(a, b) \subseteq UPages
<1>1. UPages = 0 .. Up(KERNBASE) - 1 /\ Up(KERNBASE) \in Nat
  BY UpFacts, Sizes
<1> QED
  BY <1>1 DEF Between

-----------------------------------------------------------------------------
(* The loop of allocuvm and copyuvm: what it is defined as exists, turn by turn. *)

\* The memories that lead to the page before i, from m.
Turns(g, m, a, c, what, user) ==
  g = [i \in a .. c |-> IF i = a THEN m ELSE AddPage(g[i - 1], i - 1, what[i - 1], user[i - 1])]

\* The function that AddPages chooses exists, for any number of pages.
LEMMA TurnsExist ==
  ASSUME NEW m, NEW a \in Nat, NEW what, NEW user
  PROVE  \A k \in Nat : \E g : Turns(g, m, a, a + k, what, user)
<1> DEFINE S == {k \in Nat : \E g : Turns(g, m, a, a + k, what, user)}
<1>1. 0 \in S
  <2> DEFINE g == [i \in a .. a |-> m]
  <2>1. g = [i \in a .. a + 0 |-> IF i = a THEN m ELSE AddPage(g[i - 1], i - 1, what[i - 1], user[i - 1])]
    OBVIOUS
  <2> HIDE DEF g
  <2>2. Turns(g, m, a, a + 0, what, user)
    BY <2>1 DEF Turns
  <2> QED
    BY <2>2
<1>2. ASSUME NEW k \in Nat, k \in S PROVE k + 1 \in S
  <2>1. PICK g : Turns(g, m, a, a + k, what, user)
    BY <1>2
  <2>2. PICK last : last = AddPage(g[a + k], a + k, what[a + k], user[a + k])
    OBVIOUS
  <2> DEFINE h == [i \in a .. a + (k + 1) |-> IF i = a + k + 1 THEN last ELSE g[i]]
  <2>3. ASSUME NEW i \in a .. a + (k + 1)
        PROVE  h[i] = IF i = a THEN m ELSE AddPage(h[i - 1], i - 1, what[i - 1], user[i - 1])
    <3>1. CASE i = a + k + 1
      <4>1. i # a /\ i - 1 = a + k /\ h[i] = last /\ h[i - 1] = g[a + k]
        BY <3>1
      <4> QED
        BY <4>1, <2>2
    <3>2. CASE i # a + k + 1
      <4>1. i \in a .. a + k /\ h[i] = g[i]
        BY <3>2
      <4>2. g[i] = IF i = a THEN m ELSE AddPage(g[i - 1], i - 1, what[i - 1], user[i - 1])
        BY <2>1, <4>1 DEF Turns
      <4>3. i # a => h[i - 1] = g[i - 1]
        BY <4>1
      <4> QED
        BY <4>1, <4>2, <4>3
    <3> QED
      BY <3>1, <3>2
  <2>4. h = [i \in a .. a + (k + 1) |-> IF i = a THEN m ELSE AddPage(h[i - 1], i - 1, what[i - 1], user[i - 1])]
    <3>1. h = [i \in a .. a + (k + 1) |-> h[i]]
      OBVIOUS
    <3> HIDE DEF h
    <3> QED
      BY <2>3, <3>1
  <2> HIDE DEF h
  <2>5. Turns(h, m, a, a + (k + 1), what, user)
    BY <2>4 DEF Turns
  <2> QED
    BY <2>5
<1>3. \A k \in Nat : k \in S
  <2> HIDE DEF S
  <2> QED
    BY <1>1, <1>2, Induction
<1> QED
  BY <1>3

\* Pages are added from a up to b, as many as there is memory for; of others, none changes.
AddsPages(m, n, U, new, what, user) ==
  /\ Sound(n, U) /\ Keeps(m, n, U, UPages \ new)
  /\ n.ok => \A i \in new : n.pd.pte[i] # None /\ n.pd.user[i] = user[i] /\ n.content[n.pd.pte[i]] = what[i]
\* The loop keeps the memory sound, by induction over its turns.
LEMMA AddPagesSound ==
  ASSUME NEW m, NEW U, Sound(m, U), m.ok, NEW a \in Nat, NEW b \in Nat, NEW what, NEW user,
         b <= Up(KERNBASE),
         \A i \in Between(a, b) : m.pd.pte[i] = None /\ what[i] \in Words /\ user[i] \in BOOLEAN
  PROVE  AddsPages(m, AddPages(m, a, b, what, user), U, Between(a, b), what, user)
<1> DEFINE n == AddPages(m, a, b, what, user)
<1>a. Between(a, b) = a .. b - 1
  BY BetweenIs
<1>b. \A i \in a .. b - 1 : i \in UPages /\ m.pd.pte[i] = None /\ what[i] \in Words /\ user[i] \in BOOLEAN
  BY BetweenIs
<1> SUFFICES /\ Sound(n, U) /\ Keeps(m, n, U, UPages \ (a .. b - 1))
             /\ n.ok => \A i \in a .. b - 1 : /\ n.pd.pte[i] # None /\ n.pd.user[i] = user[i]
                                              /\ n.content[n.pd.pte[i]] = what[i]
  BY <1>a DEF AddsPages
<1>1. CASE ~(a < b)
  <2>1. n = m /\ a .. b - 1 = {}
    BY <1>1 DEF AddPages
  <2> QED
    BY <2>1, KeepsSame
<1>2. CASE a < b
  <2>1. PICK upto : Turns(upto, m, a, b, what, user) /\ n = upto[b]
    <3> DEFINE g == CHOOSE g : Turns(g, m, a, b, what, user)
    <3>1. b - a \in Nat /\ a + (b - a) = b
      BY <1>2
    <3>2. \E h : Turns(h, m, a, b, what, user)
      BY <3>1, TurnsExist
    <3>3. Turns(g, m, a, b, what, user)
      BY <3>2
    <3>4. n = g[b]
      BY <1>2 DEF AddPages, Turns
    <3> QED
      BY <3>3, <3>4
  <2> DEFINE Holds(k) ==
        LET o == upto[a + k] IN
        /\ Sound(o, U) /\ Keeps(m, o, U, UPages \ (a .. b - 1))
        /\ \A i \in a + k .. b - 1 : o.ok => o.pd.pte[i] = None
        /\ o.ok => \A i \in a .. a + k - 1 : /\ o.pd.pte[i] # None /\ o.pd.user[i] = user[i]
                                             /\ o.content[o.pd.pte[i]] = what[i]
             S == {k \in Nat : a + k <= b => Holds(k)}
  <2>2. 0 \in S
    <3>1. upto[a + 0] = m
      BY <1>2, <2>1 DEF Turns
    <3>2. Keeps(m, m, U, UPages \ (a .. b - 1))
      BY KeepsSame
    <3> QED
      BY <1>b, <3>1, <3>2
  <2>3. ASSUME NEW k \in Nat, k \in S PROVE k + 1 \in S
    <3> SUFFICES ASSUME a + (k + 1) <= b PROVE Holds(k + 1)
      OBVIOUS
    <3>1. PICK o, p, i : o = upto[a + k] /\ p = upto[a + (k + 1)] /\ i = a + k
      OBVIOUS
    <3>2. Holds(k) /\ i \in a .. b - 1
      BY <2>3, <3>1
    <3>3. p = AddPage(o, i, what[i], user[i])
      <4>1. PICK j : j = a + (k + 1)
        OBVIOUS
      <4>2. j \in a .. b /\ j # a /\ j - 1 = i /\ upto[j] = p /\ upto[i] = o
        BY <3>1, <4>1
      <4>3. \A l \in a .. b : upto[l] = IF l = a THEN m
                                        ELSE AddPage(upto[l - 1], l - 1, what[l - 1], user[l - 1])
        BY <2>1 DEF Turns
      <4> QED
        BY ONLY <4>2, <4>3
    <3>4. CASE ~o.ok
      <4>1. p = o
        BY <3>3, <3>4 DEF AddPage
      <4> QED
        BY <3>1, <3>2, <3>4, <4>1
    <3>5. CASE o.ok
      <4>1. /\ Sound(o, U) /\ o.pd.pte[i] = None /\ i \in UPages
            /\ what[i] \in Words /\ user[i] \in BOOLEAN
        <5>1. i \in UPages /\ what[i] \in Words /\ user[i] \in BOOLEAN
          BY <1>b, <3>2
        <5> QED
          BY <1>b, <3>1, <3>2, <3>5, <5>1
      <4>2. /\ Sound(p, U) /\ Keeps(o, p, U, UPages \ {i})
            /\ p.ok => p.pd.pte[i] # None /\ p.pd.user[i] = user[i] /\ p.content[p.pd.pte[i]] = what[i]
        <5>1. PICK w \in Words, u \in BOOLEAN : w = what[i] /\ u = user[i]
          BY <4>1
        <5>2. p = AddPage(o, i, w, u)
          BY <3>3, <5>1
        <5>3. AddsPage(o, p, U, i, w, u)
          BY <3>5, <4>1, <5>2, AddPageSound
        <5> QED
          BY <5>1, <5>3 DEF AddsPage
      <4>3. Keeps(m, p, U, UPages \ (a .. b - 1))
        <5>1. Keeps(m, o, U, UPages \ (a .. b - 1))
          BY <3>1, <3>2
        <5>2. UPages \ (a .. b - 1) \subseteq UPages \ {i}
          BY <3>2
        <5> QED
          BY <4>2, <5>1, <5>2, KeepsTrans
      <4>4. \A j \in a .. b - 1 : j # i => /\ p.pd.pte[j] = o.pd.pte[j] /\ p.pd.user[j] = o.pd.user[j]
                                           /\ o.pd.pte[j] # None => p.content[o.pd.pte[j]] = o.content[o.pd.pte[j]]
        <5>1. \A j \in a .. b - 1 : j # i => j \in UPages \ {i}
          BY <1>b
        <5> QED
          BY <4>2, <5>1 DEF Keeps
      <4>5. \A j \in a + (k + 1) .. b - 1 : p.ok => p.pd.pte[j] = None
        BY <3>1, <3>2, <3>5, <4>4
      <4>6. p.ok => \A j \in a .. a + (k + 1) - 1 :
                      /\ p.pd.pte[j] # None /\ p.pd.user[j] = user[j] /\ p.content[p.pd.pte[j]] = what[j]
        <5> SUFFICES ASSUME p.ok, NEW j \in a .. a + (k + 1) - 1
                     PROVE  p.pd.pte[j] # None /\ p.pd.user[j] = user[j] /\ p.content[p.pd.pte[j]] = what[j]
          OBVIOUS
        <5>1. CASE j = i
          BY <4>2, <5>1
        <5>2. CASE j # i
          <6>1. j \in a .. a + k - 1 /\ j \in a .. b - 1
            BY <3>1, <3>2, <5>2
          <6>2. o.pd.pte[j] # None /\ o.pd.user[j] = user[j] /\ o.content[o.pd.pte[j]] = what[j]
            BY <3>1, <3>2, <3>5, <6>1
          <6> QED
            BY <4>4, <5>2, <6>1, <6>2
        <5> QED
          BY <5>1, <5>2
      <4> QED
        BY <3>1, <4>2, <4>3, <4>5, <4>6
    <3> QED
      BY <3>4, <3>5
  <2>4. b - a \in S
    <3>1. \A k \in Nat : k \in S
      <4> HIDE DEF S
      <4> QED
        BY <2>2, <2>3, Induction
    <3>2. b - a \in Nat
      BY <1>2
    <3> HIDE DEF S
    <3> QED
      BY <3>1, <3>2
  <2>5. a + (b - a) = b /\ a + (b - a) <= b
    OBVIOUS
  <2> QED
    BY <2>1, <2>4, <2>5
<1> QED
  BY <1>1, <1>2

-----------------------------------------------------------------------------
(* Freeing: the frames a table holds, the pages of a range, a whole space.    *)

\* The frames in a table that holds none twice go to the free list, once.
LEMMA KfreeAllFrees ==
  ASSUME NEW m \in Memories, NEW table,
         \A i \in DOMAIN table : table[i] \in Frames => m.free[table[i]] = 0,
         \A i, j \in DOMAIN table : table[i] \in Frames /\ table[i] = table[j] => i = j,
         NEW n, n = KfreeAll(m, table)
  PROVE  /\ n \in Memories /\ n.pd = m.pd /\ n.ok = m.ok
         /\ \A f \in Frames : n.free[f] = 1 <=> (m.free[f] = 1 \/ \E i \in DOMAIN table : table[i] = f)
         /\ \A f \in Frames : (\A i \in DOMAIN table : table[i] # f) => n.content[f] = m.content[f]
<1> DEFINE fr == [f \in Frames |-> m.free[f] + Cardinality(Holding(table, f))]
           co == [f \in Frames |-> IF Holding(table, f) = {} THEN m.content[f] ELSE "junk"]
<1>1. m.free \in [Frames -> 0 .. 1] /\ m.content \in [Frames -> Words]
  BY MemoryType
<1>2. ASSUME NEW f \in Frames
      PROVE  Cardinality(Holding(table, f)) = IF \E i \in DOMAIN table : table[i] = f THEN 1 ELSE 0
  <2>1. CASE \E i \in DOMAIN table : table[i] = f
    <3>1. PICK i \in DOMAIN table : table[i] = f
      BY <2>1
    <3>2. Holding(table, f) = {i}
      BY <3>1 DEF Holding
    <3>3. Cardinality(Holding(table, f)) = 1
      BY <3>2, FS_Singleton
    <3> QED
      BY <2>1, <3>3
  <2>2. CASE ~\E i \in DOMAIN table : table[i] = f
    <3>1. Holding(table, f) = {}
      BY <2>2 DEF Holding
    <3>2. Cardinality(Holding(table, f)) = 0
      BY <3>1, FS_EmptySet
    <3> QED
      BY <2>2, <3>2
  <2> QED
    BY <2>1, <2>2
<1>3. ASSUME NEW f \in Frames
      PROVE  fr[f] \in 0 .. 1 /\ (fr[f] = 1 <=> (m.free[f] = 1 \/ \E i \in DOMAIN table : table[i] = f))
  <2>1. fr[f] = m.free[f] + Cardinality(Holding(table, f)) /\ m.free[f] \in 0 .. 1
    BY <1>1
  <2>2. CASE \E i \in DOMAIN table : table[i] = f
    BY <1>2, <2>1, <2>2
  <2>3. CASE ~\E i \in DOMAIN table : table[i] = f
    BY <1>2, <2>1, <2>3
  <2> QED
    BY <2>2, <2>3
<1>4. fr \in [Frames -> 0 .. 1]
  BY <1>3
<1>5. co \in [Frames -> Words]
  BY <1>1, WordsKnown
<1>6. \A f \in Frames : (\A i \in DOMAIN table : table[i] # f) => co[f] = m.content[f]
  BY DEF Holding
<1>7. n = With(m, fr, co)
  BY DEF KfreeAll, With, Memories
<1> HIDE DEF fr, co
<1>8. n \in Memories /\ n.free = fr /\ n.content = co /\ n.pd = m.pd /\ n.ok = m.ok
  BY <1>4, <1>5, <1>7, MemoryWith
<1> QED
  BY <1>3, <1>6, <1>8

\* A page directory without the pages gone
WithoutPages(pd, gone) ==
  [[pd EXCEPT !.pte = [i \in UPages |-> IF i \in gone THEN None ELSE pd.pte[i]]]
      EXCEPT !.user = [i \in UPages |-> i \notin gone /\ pd.user[i]]]
\* It is a page directory then, with the slots of those pages empty.
LEMMA WithoutPagesType ==
  ASSUME NEW pd \in Pgdirs, NEW gone \in SUBSET UPages, NEW new, new = WithoutPages(pd, gone)
  PROVE  /\ new \in Pgdirs /\ new.dir = pd.dir /\ new.ktabs = pd.ktabs /\ new.tab = pd.tab
         /\ new.pte = [i \in UPages |-> IF i \in gone THEN None ELSE pd.pte[i]]
         /\ new.user = [i \in UPages |-> i \notin gone /\ pd.user[i]]
         /\ \A s \in Slots : Cell(new)[s] = IF s \in {<<"page", i>> : i \in gone} THEN None ELSE Cell(pd)[s]
<1> DEFINE pte == [i \in UPages |-> IF i \in gone THEN None ELSE pd.pte[i]]
           user == [i \in UPages |-> i \notin gone /\ pd.user[i]]
<1>1. pd.pte \in [UPages -> Frames \cup {None}] /\ pd.user \in [UPages -> BOOLEAN]
  BY DEF Pgdirs
<1>2. pte \in [UPages -> Frames \cup {None}]
  BY <1>1
<1>3. user \in [UPages -> BOOLEAN]
  BY <1>1
<1>4. new = [[pd EXCEPT !.pte = pte] EXCEPT !.user = user]
  BY DEF WithoutPages
<1>a. \A i \in UPages : pte[i] = IF i \in gone THEN None ELSE pd.pte[i]
  OBVIOUS
<1> HIDE DEF pte, user
<1>5. new = [dir |-> pd.dir, ktabs |-> pd.ktabs, tab |-> pd.tab, pte |-> pte, user |-> user]
  BY <1>4 DEF Pgdirs
<1>6. pd.dir \in Frames \cup {None} /\ pd.ktabs \in Seq(Frames) /\ pd.tab \in [Tables -> Frames \cup {None}]
  BY DEF Pgdirs
<1>7. new \in Pgdirs
  BY <1>2, <1>3, <1>5, <1>6 DEF Pgdirs
<1>8. new.dir = pd.dir /\ new.ktabs = pd.ktabs /\ new.tab = pd.tab /\ new.pte = pte /\ new.user = user
  BY <1>5
<1>9. ASSUME NEW s \in Slots
      PROVE  Cell(new)[s] = IF s \in {<<"page", i>> : i \in gone} THEN None ELSE Cell(pd)[s]
  <2>1. CASE s = <<"dir", 0>>
    BY <1>7, <1>8, <2>1, CellType
  <2>2. CASE \E i \in Nat : s = <<"ktab", i>>
    BY <1>7, <1>8, <2>2, CellType
  <2>3. CASE \E t \in Tables : s = <<"tab", t>>
    BY <1>7, <1>8, <2>3, CellType
  <2>4. CASE \E b \in UPages : s = <<"page", b>>
    <3>1. PICK b \in UPages : s = <<"page", b>>
      BY <2>4
    <3>2. Cell(new)[s] = pte[b] /\ Cell(pd)[s] = pd.pte[b]
      BY <1>7, <1>8, <3>1, CellType
    <3>3. s \in {<<"page", i>> : i \in gone} <=> b \in gone
      BY <3>1
    <3> QED
      BY <1>a, <3>2, <3>3
  <2> QED
    BY <2>1, <2>2, <2>3, <2>4, SlotCases
<1> QED
  BY <1>7, <1>8, <1>9 DEF pte, user

\* The pages from a up to b are freed, those that are there, and none else.
FreesPages(m, n, U, gone) ==
  /\ Sound(n, U) /\ Keeps(m, n, U, UPages \ gone) /\ n.ok = m.ok
  /\ n.pd.dir = m.pd.dir /\ n.pd.ktabs = m.pd.ktabs /\ n.pd.tab = m.pd.tab
  /\ \A i \in gone : n.pd.pte[i] = None
\* What the pages held is free again, and the memory sound.
LEMMA FreePagesSound ==
  ASSUME NEW m, NEW U, Sound(m, U), NEW a \in Nat, NEW b \in Nat, b <= Up(KERNBASE)
  PROVE  FreesPages(m, FreePages(m, a, b), U, Between(a, b))
<1> DEFINE table == [i \in a .. b - 1 |-> m.pd.pte[i]]
           n == FreePages(m, a, b)
<1>1. PICK gone \in SUBSET UPages : gone = a .. b - 1 /\ gone = Between(a, b)
  BY BetweenIs
<1>2. gone \in SUBSET UPages /\ DOMAIN table = gone /\ \A i \in gone : table[i] = m.pd.pte[i]
  BY <1>1
<1>3. m \in Memories /\ m.pd \in Pgdirs /\ None \notin Frames
  BY MemoryType, Sizes DEF Sound
<1>4. PICK l : l = KfreeAll(m, table)
  OBVIOUS
<1>5. n = [[l EXCEPT !.pd.pte = [i \in UPages |-> IF i \in gone THEN None ELSE m.pd.pte[i]]]
              EXCEPT !.pd.user = [i \in UPages |-> i \notin gone /\ m.pd.user[i]]]
  BY <1>1, <1>4 DEF FreePages
<1> HIDE DEF table, n
<1>6. \A i \in gone : <<"page", i>> \in Slots /\ Cell(m.pd)[<<"page", i>>] = table[i]
  BY <1>2, <1>3, CellType DEF Slots
<1>7. DOMAIN Cell(m.pd) = Slots
  BY DEF Cell
<1>8. \A i, j \in DOMAIN table : table[i] \in Frames /\ table[i] = table[j] => i = j
  <2> SUFFICES ASSUME NEW i \in gone, NEW j \in gone, table[i] \in Frames, table[i] = table[j] PROVE i = j
    BY <1>2
  <2>1. PICK s \in Slots, t \in Slots : s = <<"page", i>> /\ t = <<"page", j>>
    BY <1>6
  <2>2. Cell(m.pd)[s] = table[i] /\ Cell(m.pd)[t] = table[i]
    BY <1>6, <2>1
  <2>3. s = t
    BY <1>7, <2>2 DEF Sound, OneUse
  <2> QED
    BY <2>1, <2>3
<1>9. \A i \in DOMAIN table : table[i] \in Frames => m.free[table[i]] = 0
  BY <1>2, <1>3, PageFrames
<1>10. /\ l \in Memories /\ l.pd = m.pd /\ l.ok = m.ok
       /\ \A f \in Frames : l.free[f] = 1 <=> (m.free[f] = 1 \/ \E i \in gone : table[i] = f)
       /\ \A f \in Frames : (\A i \in gone : table[i] # f) => l.content[f] = m.content[f]
  BY <1>2, <1>3, <1>4, <1>8, <1>9, KfreeAllFrees
<1>11. PICK new : new = WithoutPages(m.pd, gone)
  OBVIOUS
<1>12. /\ new \in Pgdirs /\ new.dir = m.pd.dir /\ new.ktabs = m.pd.ktabs /\ new.tab = m.pd.tab
       /\ new.pte = [i \in UPages |-> IF i \in gone THEN None ELSE m.pd.pte[i]]
       /\ new.user = [i \in UPages |-> i \notin gone /\ m.pd.user[i]]
       /\ \A s \in Slots : Cell(new)[s] = IF s \in {<<"page", i>> : i \in gone} THEN None ELSE Cell(m.pd)[s]
  BY <1>2, <1>3, <1>11, WithoutPagesType
<1>13. n.pd = new /\ n.free = l.free /\ n.content = l.content /\ n.ok = l.ok
       /\ n = [free |-> l.free, content |-> l.content, pd |-> new, ok |-> l.ok]
  <2> DEFINE pte == [i \in UPages |-> IF i \in gone THEN None ELSE m.pd.pte[i]]
             user == [i \in UPages |-> i \notin gone /\ m.pd.user[i]]
  <2>1. n = [[l EXCEPT !.pd.pte = pte] EXCEPT !.pd.user = user] /\ new = [[l.pd EXCEPT !.pte = pte] EXCEPT !.user = user]
    BY <1>5, <1>10, <1>11 DEF WithoutPages
  <2> HIDE DEF pte, user
  <2>2. n = [l EXCEPT !.pd = new]
    BY <1>10, <2>1 DEF Memories
  <2> QED
    BY <1>10, <2>2 DEF Memories
<1>14. n \in Memories
  <2>1. l.free \in [Frames -> 0 .. 1] /\ l.content \in [Frames -> Words] /\ l.ok \in BOOLEAN
    BY <1>10, MemoryType
  <2> QED
    BY ONLY <1>12, <1>13, <2>1 DEF Memories
<1>15. OneUse(n.free, Cell(n.pd), U)
  <2> DEFINE T == {<<"page", i>> : i \in gone}
  <2>1. T \in SUBSET DOMAIN Cell(m.pd)
    BY <1>6, <1>7
  <2>2. DOMAIN Cell(new) = DOMAIN Cell(m.pd)
    BY DEF Cell
  <2>3. \A s \in DOMAIN Cell(m.pd) : Cell(new)[s] = IF s \in T THEN None ELSE Cell(m.pd)[s]
    BY <1>7, <1>12
  <2>4. l.free \in [Frames -> 0 .. 1]
    BY <1>10, MemoryType
  <2>5. \A f \in Frames : l.free[f] = 1 <=> (m.free[f] = 1 \/ \E s \in T : Cell(m.pd)[s] = f)
    <3>1. ASSUME NEW f \in Frames
          PROVE  (\E i \in gone : table[i] = f) <=> (\E s \in T : Cell(m.pd)[s] = f)
      <4>1. ASSUME NEW i \in gone, table[i] = f PROVE \E s \in T : Cell(m.pd)[s] = f
        <5>1. <<"page", i>> \in T /\ Cell(m.pd)[<<"page", i>>] = f
          BY <1>6, <4>1
        <5> QED
          BY <5>1
      <4>2. ASSUME NEW s \in T, Cell(m.pd)[s] = f PROVE \E i \in gone : table[i] = f
        <5>1. PICK i \in gone : s = <<"page", i>>
          OBVIOUS
        <5> QED
          BY <1>6, <4>2, <5>1
      <4> QED
        BY <4>1, <4>2
    <3> QED
      BY <1>10, <3>1
  <2>6. OneUse(m.free, Cell(m.pd), U)
    BY DEF Sound
  <2> HIDE DEF T
  <2>7. OneUse(l.free, Cell(new), U)
    BY <2>1, <2>2, <2>3, <2>4, <2>5, <2>6, UseEmpty
  <2> QED
    BY <1>13, <2>7
<1>16. UserMapped(n.pd)
  BY <1>12, <1>13 DEF UserMapped, Sound
<1>17. Keeps(m, n, U, UPages \ gone)
  <2>1. ASSUME NEW f \in U PROVE n.content[f] = m.content[f]
    <3>1. f \in Frames /\ \A i \in gone : table[i] # f
      BY <1>6, <1>7 DEF Sound, OneUse
    <3> QED
      BY <1>10, <1>13, <3>1
  <2>2. ASSUME NEW b1 \in UPages \ gone, m.pd.pte[b1] # None
        PROVE  n.content[m.pd.pte[b1]] = m.content[m.pd.pte[b1]]
    <3>1. m.pd.pte[b1] \in Frames
      BY <2>2, PageFrames
    <3>2. <<"page", b1>> \in Slots /\ Cell(m.pd)[<<"page", b1>>] = m.pd.pte[b1]
      BY <1>3, CellType DEF Slots
    <3>3. ASSUME NEW i \in gone PROVE table[i] # m.pd.pte[b1]
      <4>1. <<"page", i>> # <<"page", b1>>
        BY <2>2
      <4> QED
        BY <1>6, <1>7, <3>1, <3>2, <4>1 DEF Sound, OneUse
    <3> QED
      BY <1>10, <1>13, <3>1, <3>3
  <2>3. \A c \in UPages \ gone : n.pd.pte[c] = m.pd.pte[c] /\ n.pd.user[c] = m.pd.user[c]
    <3>1. m.pd.user \in [UPages -> BOOLEAN]
      BY <1>3 DEF Pgdirs
    <3> QED
      BY <1>12, <1>13, <3>1
  <2> QED
    BY <2>1, <2>2, <2>3 DEF Keeps
<1> QED
  BY <1>1, <1>10, <1>12, <1>13, <1>14, <1>15, <1>16, <1>17 DEF Sound, FreesPages, n

\* freevm frees all that the page directory leads to, and the directory.
LEMMA FreevmSound ==
  ASSUME NEW m, NEW U, Sound(m, U), NEW n, n = Freevm(m)
  PROVE  Sound(n, U) /\ Keeps(m, n, U, {}) /\ n.ok = m.ok /\ n.pd = NoPgdir
<1>1. PICK d, e, g, h : /\ d = Deallocuvm(m, KERNBASE, 0) /\ e = KfreeAll(d, m.pd.tab)
                        /\ g = KfreeAll(e, m.pd.ktabs) /\ h = Kfree(g, m.pd.dir)
  OBVIOUS
<1>2. n = [h EXCEPT !.pd = NoPgdir]
  BY <1>1 DEF Freevm
<1>3. m.pd \in Pgdirs /\ None \notin Frames
  BY MemoryType, Sizes DEF Sound
<1>4. /\ Sound(d, U) /\ Keeps(m, d, U, {}) /\ d.ok = m.ok
      /\ d.pd.dir = m.pd.dir /\ d.pd.ktabs = m.pd.ktabs /\ d.pd.tab = m.pd.tab
      /\ \A i \in UPages : d.pd.pte[i] = None
  <2>1. PICK b \in Nat : b = Up(KERNBASE)
    BY Sizes, UpFacts
  <2>2. d = FreePages(m, 0, b)
    BY <1>1, <2>1, UpFacts DEF Deallocuvm
  <2>3. UPages = Between(0, b)
    BY <2>1, UpFacts DEF Between
  <2>4. FreesPages(m, d, U, UPages)
    BY <2>1, <2>2, <2>3, FreePagesSound
  <2> QED
    BY <2>4 DEF FreesPages, Keeps
<1>5. d \in Memories /\ d.pd \in Pgdirs /\ OneUse(d.free, Cell(d.pd), U)
  BY <1>4, MemoryType DEF Sound
<1> DEFINE C == Cell(d.pd)
           tab == d.pd.tab
           ktabs == d.pd.ktabs
           dir == d.pd.dir
<1>6. /\ C \in [Slots -> Frames \cup {None}] /\ C[<<"dir", 0>>] = dir
      /\ \A i \in Nat : C[<<"ktab", i>>] = IF i \in 1 .. Len(ktabs) THEN ktabs[i] ELSE None
      /\ \A t \in Tables : C[<<"tab", t>>] = tab[t]
      /\ \A a \in UPages : C[<<"page", a>>] = None
  BY <1>4, <1>5, CellType
<1>7. /\ <<"dir", 0>> \in Slots /\ \A i \in Nat : <<"ktab", i>> \in Slots
      /\ \A t \in Tables : <<"tab", t>> \in Slots
  BY DEF Slots
<1>8. DOMAIN tab = Tables /\ DOMAIN ktabs = 1 .. Len(ktabs) /\ Len(ktabs) \in Nat /\ ktabs \in Seq(Frames)
  BY <1>5 DEF Pgdirs
<1>9. /\ \A s \in Slots : C[s] \in Frames => d.free[C[s]] = 0 /\ C[s] \notin U
      /\ \A s, t \in Slots : C[s] \in Frames /\ C[s] = C[t] => s = t
      /\ d.free \in [Frames -> 0 .. 1]
  <2>1. DOMAIN C = Slots
    BY <1>6
  <2> QED
    BY <1>5, <2>1 DEF OneUse
<1> HIDE DEF C, tab, ktabs, dir
<1>a. \A i \in 1 .. Len(ktabs) : <<"ktab", i>> \in Slots /\ C[<<"ktab", i>>] = ktabs[i] /\ ktabs[i] \in Frames
  <2> SUFFICES ASSUME NEW i \in 1 .. Len(ktabs)
               PROVE  <<"ktab", i>> \in Slots /\ C[<<"ktab", i>>] = ktabs[i] /\ ktabs[i] \in Frames
    OBVIOUS
  <2>1. i \in Nat
    BY <1>8
  <2>2. ktabs[i] \in Frames
    BY <1>8
  <2> QED
    BY <1>6, <1>7, <2>1, <2>2
<1>10. \A i, j \in Tables : tab[i] \in Frames /\ tab[i] = tab[j] => i = j
  <2> SUFFICES ASSUME NEW i \in Tables, NEW j \in Tables, tab[i] \in Frames, tab[i] = tab[j] PROVE i = j
    OBVIOUS
  <2>1. PICK s \in Slots, t \in Slots : s = <<"tab", i>> /\ t = <<"tab", j>>
    BY <1>7
  <2>2. s = t
    BY <1>6, <1>9, <2>1
  <2> QED
    BY <2>1, <2>2
<1>11. \A i \in Tables : tab[i] \in Frames => d.free[tab[i]] = 0
  BY <1>6, <1>7, <1>9
<1>12. /\ e \in Memories /\ e.pd = d.pd /\ e.ok = d.ok
       /\ \A f \in Frames : e.free[f] = 1 <=> (d.free[f] = 1 \/ \E i \in Tables : tab[i] = f)
       /\ \A f \in Frames : (\A i \in Tables : tab[i] # f) => e.content[f] = d.content[f]
  <2>1. e = KfreeAll(d, tab)
    BY <1>1, <1>4 DEF tab
  <2> QED
    BY <1>5, <1>8, <1>10, <1>11, <2>1, KfreeAllFrees
<1>13. \A i, j \in 1 .. Len(ktabs) : ktabs[i] \in Frames /\ ktabs[i] = ktabs[j] => i = j
  <2> SUFFICES ASSUME NEW i \in 1 .. Len(ktabs), NEW j \in 1 .. Len(ktabs), ktabs[i] = ktabs[j] PROVE i = j
    OBVIOUS
  <2>1. PICK s \in Slots, t \in Slots : s = <<"ktab", i>> /\ t = <<"ktab", j>>
    BY <1>a
  <2>2. C[s] = ktabs[i] /\ C[t] = ktabs[i] /\ ktabs[i] \in Frames
    BY <1>a, <2>1
  <2>3. s = t
    BY <1>9, <2>2
  <2> QED
    BY <2>1, <2>3
<1>14. \A i \in 1 .. Len(ktabs) : ktabs[i] \in Frames => e.free[ktabs[i]] = 0
  <2> SUFFICES ASSUME NEW i \in 1 .. Len(ktabs), ktabs[i] \in Frames PROVE e.free[ktabs[i]] = 0
    OBVIOUS
  <2>1. <<"ktab", i>> \in Slots /\ C[<<"ktab", i>>] = ktabs[i]
    BY <1>6, <1>7, <1>8
  <2>2. d.free[ktabs[i]] = 0
    BY <1>9, <2>1
  <2>3. \A t \in Tables : tab[t] # ktabs[i]
    <3>1. \A t \in Tables : <<"tab", t>> # <<"ktab", i>>
      OBVIOUS
    <3> QED
      BY <1>6, <1>7, <1>9, <2>1, <3>1
  <2>4. e.free \in [Frames -> 0 .. 1]
    BY <1>12, MemoryType
  <2> QED
    BY <1>12, <2>2, <2>3, <2>4
<1>15. /\ g \in Memories /\ g.pd = d.pd /\ g.ok = d.ok
       /\ \A f \in Frames : g.free[f] = 1 <=> (e.free[f] = 1 \/ \E i \in 1 .. Len(ktabs) : ktabs[i] = f)
       /\ \A f \in Frames : (\A i \in 1 .. Len(ktabs) : ktabs[i] # f) => g.content[f] = e.content[f]
  <2>1. g = KfreeAll(e, ktabs)
    BY <1>1, <1>4 DEF ktabs
  <2> QED
    BY <1>8, <1>12, <1>13, <1>14, <2>1, KfreeAllFrees
<1>16. dir \in Frames \cup {None} /\ h = Kfree(g, dir)
  BY <1>1, <1>4, <1>5 DEF dir, Pgdirs
<1>17. dir \in Frames => g.free[dir] = 0
  <2> SUFFICES ASSUME dir \in Frames PROVE g.free[dir] = 0
    OBVIOUS
  <2>1. d.free[dir] = 0
    BY <1>6, <1>7, <1>9
  <2>2. \A t \in Tables : tab[t] # dir
    <3>1. \A t \in Tables : <<"tab", t>> # <<"dir", 0>>
      OBVIOUS
    <3> QED
      BY <1>6, <1>7, <1>9, <3>1
  <2>3. \A i \in 1 .. Len(ktabs) : ktabs[i] # dir
    <3> SUFFICES ASSUME NEW i \in 1 .. Len(ktabs), ktabs[i] = dir PROVE FALSE
      OBVIOUS
    <3>1. PICK s \in Slots, t \in Slots : s = <<"ktab", i>> /\ t = <<"dir", 0>>
      BY <1>7, <1>a
    <3>2. s # t
      BY <3>1
    <3>3. C[s] = dir /\ C[t] = dir
      BY <1>6, <1>a, <3>1
    <3> QED
      BY <1>9, <3>2, <3>3
  <2>4. g.free \in [Frames -> 0 .. 1]
    BY <1>15, MemoryType
  <2> QED
    BY <1>12, <1>15, <2>1, <2>2, <2>3, <2>4
<1>18. /\ h \in Memories /\ h.pd = d.pd /\ h.ok = d.ok
       /\ \A f \in Frames : h.free[f] = 1 <=> (g.free[f] = 1 \/ dir = f)
       /\ \A f \in Frames : dir # f => h.content[f] = g.content[f]
  <2>1. CASE dir = None
    <3>1. h = g
      BY <1>15, <1>16, <2>1, KfreeNone
    <3> QED
      BY <1>3, <1>15, <2>1, <3>1
  <2>2. CASE dir \in Frames
    <3> DEFINE fr == [g.free EXCEPT ![dir] = g.free[dir] + 1]
               co == [g.content EXCEPT ![dir] = "junk"]
    <3>1. h = With(g, fr, co)
      BY <1>15, <1>16 DEF With, Kfree, Memories
    <3>2. g.free \in [Frames -> 0 .. 1] /\ g.content \in [Frames -> Words]
      BY <1>15, MemoryType
    <3>3. fr \in [Frames -> 0 .. 1]
      BY <1>17, <2>2, <3>2
    <3>4. co \in [Frames -> Words]
      BY <3>2, WordsKnown
    <3>5. \A f \in Frames : /\ fr[f] = 1 <=> (g.free[f] = 1 \/ dir = f)
                            /\ dir # f => co[f] = g.content[f]
      BY <1>17, <2>2, <3>2
    <3> HIDE DEF fr, co
    <3>6. h \in Memories /\ h.free = fr /\ h.content = co /\ h.pd = g.pd /\ h.ok = g.ok
      BY <1>15, <3>1, <3>3, <3>4, MemoryWith
    <3> QED
      BY <1>15, <3>5, <3>6
  <2> QED
    BY <1>16, <2>1, <2>2
<1>19. /\ n = [free |-> h.free, content |-> h.content, pd |-> NoPgdir, ok |-> h.ok]
       /\ n.free = h.free /\ n.content = h.content /\ n.pd = NoPgdir /\ n.ok = h.ok
  BY <1>2, <1>18 DEF Memories
<1>20. n \in Memories
  <2>1. h.free \in [Frames -> 0 .. 1] /\ h.content \in [Frames -> Words] /\ h.ok \in BOOLEAN
    BY <1>18, MemoryType
  <2>2. NoPgdir \in Pgdirs
    BY CellNoPgdir
  <2> QED
    BY ONLY <1>19, <2>1, <2>2 DEF Memories
<1>21. \A f \in Frames : h.free[f] = 1 <=> (d.free[f] = 1 \/ \E s \in Slots : C[s] = f)
  <2> SUFFICES ASSUME NEW f \in Frames
               PROVE  h.free[f] = 1 <=> (d.free[f] = 1 \/ \E s \in Slots : C[s] = f)
    OBVIOUS
  <2>1. ASSUME NEW s \in Slots, C[s] = f
        PROVE  (\E i \in Tables : tab[i] = f) \/ (\E i \in 1 .. Len(ktabs) : ktabs[i] = f) \/ dir = f
    <3>1. CASE s = <<"dir", 0>>
      BY <1>6, <2>1, <3>1
    <3>2. CASE \E i \in Nat : s = <<"ktab", i>>
      BY <1>3, <1>6, <2>1, <3>2
    <3>3. CASE \E t \in Tables : s = <<"tab", t>>
      BY <1>6, <2>1, <3>3
    <3>4. CASE \E a \in UPages : s = <<"page", a>>
      BY <1>3, <1>6, <2>1, <3>4
    <3> QED
      BY <3>1, <3>2, <3>3, <3>4, SlotCases
  <2>2. (\E i \in Tables : tab[i] = f) => \E s \in Slots : C[s] = f
    BY <1>6, <1>7
  <2>3. (\E i \in 1 .. Len(ktabs) : ktabs[i] = f) => \E s \in Slots : C[s] = f
    BY <1>a
  <2>4. dir = f => \E s \in Slots : C[s] = f
    BY <1>6, <1>7
  <2>5. /\ e.free[f] = 1 <=> (d.free[f] = 1 \/ \E i \in Tables : tab[i] = f)
        /\ g.free[f] = 1 <=> (e.free[f] = 1 \/ \E i \in 1 .. Len(ktabs) : ktabs[i] = f)
        /\ h.free[f] = 1 <=> (g.free[f] = 1 \/ dir = f)
    BY <1>12, <1>15, <1>18
  <2> QED
    BY <2>1, <2>2, <2>3, <2>4, <2>5, Zenon
<1>22. OneUse(n.free, Cell(n.pd), U)
  <2>1. DOMAIN C = Slots /\ DOMAIN Cell(NoPgdir) = Slots
    BY <1>6 DEF Cell
  <2>2. \A s \in DOMAIN C : Cell(NoPgdir)[s] = IF s \in Slots THEN None ELSE C[s]
    BY <2>1, CellNoPgdir
  <2>3. h.free \in [Frames -> 0 .. 1]
    BY <1>18, MemoryType
  <2>4. OneUse(d.free, C, U)
    BY <1>5 DEF C
  <2>5. OneUse(h.free, Cell(NoPgdir), U)
    BY <1>21, <2>1, <2>2, <2>3, <2>4, UseEmpty
  <2> QED
    BY <1>19, <2>5
<1>23. UserMapped(n.pd)
  BY <1>19, CellNoPgdir DEF UserMapped
<1>24. \A f \in U : n.content[f] = m.content[f]
  <2> SUFFICES ASSUME NEW f \in U PROVE n.content[f] = m.content[f]
    OBVIOUS
  <2>1. f \in Frames /\ \A s \in Slots : C[s] # f
    <3>1. DOMAIN C = Slots
      BY <1>6
    <3> QED
      BY <1>5, <3>1 DEF OneUse, C
  <2>2. (\A t \in Tables : tab[t] # f) /\ (\A i \in 1 .. Len(ktabs) : ktabs[i] # f) /\ dir # f
    <3>1. \A t \in Tables : tab[t] # f
      BY <1>6, <1>7, <2>1
    <3>2. \A i \in 1 .. Len(ktabs) : ktabs[i] # f
      BY <1>a, <2>1
    <3>3. dir # f
      BY <1>6, <1>7, <2>1
    <3> QED
      BY <3>1, <3>2, <3>3
  <2> QED
    BY <1>4, <1>12, <1>15, <1>18, <1>19, <2>1, <2>2 DEF Keeps
<1> QED
  BY <1>4, <1>18, <1>19, <1>20, <1>22, <1>23, <1>24 DEF Sound, Keeps

-----------------------------------------------------------------------------
(* Growing and copying. The pages of a space of a size are those below it.    *)

Pages(pd, size) == \A a \in UPages : pd.pte[a] # None <=> a < Up(size)
NoPages(pd) == \A a \in UPages : pd.pte[a] = None

\* The pages of a size that a process may have are pages there are.
LEMMA BelowKernbase ==
  ASSUME NEW n \in Nat, n <= KERNBASE
  PROVE  Up(n) \in Nat /\ Up(n) <= Up(KERNBASE)
BY UpFacts, Sizes

\* deallocuvm: the space is of the new size.
LEMMA DeallocuvmSound ==
  ASSUME NEW m, NEW U, Sound(m, U), NEW oldsz \in 0 .. KERNBASE, NEW newsz \in 0 .. KERNBASE,
         NEW n, n = Deallocuvm(m, oldsz, newsz)
  PROVE  /\ Sound(n, U) /\ n.ok = m.ok
         /\ Keeps(m, n, U, {a \in UPages : a < Up(newsz) \/ a >= Up(oldsz)})
         /\ \A a \in UPages : Up(newsz) <= a /\ a < Up(oldsz) => n.pd.pte[a] = None
<1>1. PICK a, b \in Nat : a = Up(newsz) /\ b = Up(oldsz) /\ b <= Up(KERNBASE)
  BY BelowKernbase, Sizes
<1>2. FreesPages(m, n, U, Between(a, b))
  BY <1>1, FreePagesSound DEF Deallocuvm
<1>3. {i \in UPages : i < a \/ i >= b} = UPages \ Between(a, b)
  <2>1. ASSUME NEW i \in UPages PROVE (i < a \/ i >= b) <=> ~(a <= i /\ i < b)
    BY <1>1, Sizes
  <2> QED
    BY <2>1 DEF Between
<1> QED
  BY <1>1, <1>2, <1>3 DEF FreesPages, Between

\* allocuvm: the space is of the size given, or of the one it had, and no page that was
\* there changes, unless a size of 0 was asked for.
Allocates(m, g, U, oldsz, newsz) ==
  /\ Sound(g.m, U) /\ g.size \in 0 .. KERNBASE
  /\ Keeps(m, g.m, U, {a \in UPages : a < Up(oldsz)})
  /\ g.size = 0 => Pages(g.m.pd, oldsz)
  /\ g.size # 0 => /\ g.m.ok /\ Pages(g.m.pd, g.size)
                   /\ g.size >= oldsz /\ g.size >= newsz /\ g.size \in {oldsz, newsz}
                   /\ \A a \in UPages : Up(oldsz) <= a /\ a < Up(g.size) =>
                        g.m.pd.user[a] /\ g.m.content[g.m.pd.pte[a]] = "zero"
\* So it does, also where kalloc fails on the way.
LEMMA AllocuvmSound ==
  ASSUME NEW m, NEW U, Sound(m, U), m.ok, NEW oldsz \in 0 .. KERNBASE, Pages(m.pd, oldsz),
         NEW newsz \in Nat, NEW g, g = Allocuvm(m, oldsz, newsz)
  PROVE  Allocates(m, g, U, oldsz, newsz)
<1> USE DEF Allocates
<1>1. KERNBASE \in Nat /\ oldsz \in Nat /\ oldsz <= KERNBASE
  BY Sizes
<1>2. CASE newsz >= KERNBASE
  <2>1. g.m = Failed(m) /\ g.size = 0
    BY <1>2 DEF Allocuvm
  <2>2. Sound(g.m, U) /\ g.m.pd = m.pd /\ g.m.content = m.content
    BY <2>1, FailedSound
  <2> QED
    BY <1>1, <2>1, <2>2, KeepsSame
<1>3. CASE newsz < KERNBASE /\ newsz < oldsz
  <2>1. g.m = m /\ g.size = oldsz
    BY <1>1, <1>3 DEF Allocuvm
  <2>2. \A a \in UPages : ~(Up(oldsz) <= a /\ a < Up(oldsz))
    <3>1. Up(oldsz) \in Nat /\ UPages \subseteq Nat
      BY <1>1, UpFacts, Sizes
    <3> QED
      BY ONLY <3>1
  <2> QED
    BY <1>1, <1>3, <2>1, <2>2, KeepsSame
<1>4. CASE newsz < KERNBASE /\ newsz >= oldsz
  <2> DEFINE what == [a \in UPages |-> "zero"]
             user == [a \in UPages |-> TRUE]
  <2>1. PICK a, b \in Nat : a = Up(oldsz) /\ b = Up(newsz) /\ b <= Up(KERNBASE)
    BY <1>1, <1>4, BelowKernbase
  <2>2. PICK l : l = AddPages(m, a, b, what, user)
    OBVIOUS
  <2>3. g = Grown(l, oldsz, newsz)
    BY <1>1, <1>4, <2>1, <2>2 DEF Allocuvm
  <2> DEFINE new == Between(a, b)
  <2>4. \A i \in new : m.pd.pte[i] = None /\ what[i] \in Words /\ user[i] \in BOOLEAN
    <3> SUFFICES ASSUME NEW i \in new PROVE m.pd.pte[i] = None /\ what[i] \in Words /\ user[i] \in BOOLEAN
      OBVIOUS
    <3>1. i \in UPages /\ a <= i
      BY DEF Between
    <3>2. ~(i < Up(oldsz))
      BY <2>1, <3>1, Sizes
    <3>3. m.pd.pte[i] = None
      BY <3>1, <3>2 DEF Pages
    <3>4. what[i] = "zero" /\ user[i] = TRUE
      BY <3>1
    <3> QED
      BY <3>3, <3>4, WordsKnown
  <2>5. \A i \in new : what[i] = "zero" /\ user[i] = TRUE
    BY DEF Between
  <2>7. \A i \in UPages : i \in new <=> a <= i /\ i < b
    BY DEF Between
  <2> HIDE DEF what, user
  <2>a. AddsPages(m, l, U, new, what, user)
    BY <2>1, <2>2, <2>4, AddPagesSound
  <2> HIDE DEF new
  <2>6. /\ Sound(l, U) /\ Keeps(m, l, U, UPages \ new)
        /\ l.ok => \A i \in new : /\ l.pd.pte[i] # None /\ l.pd.user[i] = user[i]
                                 /\ l.content[l.pd.pte[i]] = what[i]
    BY <2>a DEF AddsPages
  <2>8. Keeps(m, l, U, {i \in UPages : i < a})
    BY <2>1, <2>6, <2>7, Sizes DEF Keeps
  <2>9. CASE l.ok
    <3>1. g.m = l /\ g.size = newsz
      BY <2>3, <2>9 DEF Grown
    <3>2. Pages(l.pd, newsz)
      <4> SUFFICES ASSUME NEW i \in UPages PROVE l.pd.pte[i] # None <=> i < b
        BY <2>1 DEF Pages
      <4>1. CASE i \in new
        BY <2>6, <2>7, <2>9, <4>1
      <4>2. CASE i \notin new
        <5>1. l.pd.pte[i] = m.pd.pte[i]
          BY <2>6, <4>2 DEF Keeps
        <5>2. a <= b
          BY <1>1, <1>4, <2>1, UpFacts
        <5> QED
          BY <2>1, <2>7, <4>2, <5>1, <5>2, Sizes DEF Pages
      <4> QED
        BY <4>1, <4>2
    <3>3. \A i \in UPages : a <= i /\ i < b => l.pd.user[i] /\ l.content[l.pd.pte[i]] = "zero"
      BY <2>5, <2>6, <2>7, <2>9
    <3>4. newsz = 0 => oldsz = 0
      BY <1>1, <1>4
    <3> QED
      BY <1>1, <1>4, <2>1, <2>6, <2>8, <2>9, <3>1, <3>2, <3>3, <3>4
  <2>10. CASE ~l.ok
    <3>1. g.m = Deallocuvm(l, newsz, oldsz) /\ g.size = 0
      BY <2>3, <2>10 DEF Grown
    <3>2. /\ Sound(g.m, U) /\ Keeps(l, g.m, U, {i \in UPages : i < Up(oldsz) \/ i >= Up(newsz)})
          /\ \A i \in UPages : Up(oldsz) <= i /\ i < Up(newsz) => g.m.pd.pte[i] = None
      BY <1>1, <1>4, <2>6, <3>1, DeallocuvmSound
    <3>3. Keeps(m, g.m, U, {i \in UPages : i < a})
      BY <2>1, <2>8, <3>2, KeepsTrans
    <3>4. Pages(g.m.pd, oldsz)
      <4> SUFFICES ASSUME NEW i \in UPages PROVE g.m.pd.pte[i] # None <=> i < a
        BY <2>1 DEF Pages
      <4>1. CASE i \in new
        BY <2>1, <2>7, <3>2, <4>1, Sizes
      <4>2. CASE i \notin new
        <5>1. l.pd.pte[i] = m.pd.pte[i]
          BY <2>6, <4>2 DEF Keeps
        <5>2. i < a \/ i >= b
          BY <2>1, <2>7, <4>2, Sizes
        <5>3. g.m.pd.pte[i] = l.pd.pte[i]
          BY <2>1, <3>2, <5>2 DEF Keeps
        <5> QED
          BY <2>1, <5>1, <5>3 DEF Pages
      <4> QED
        BY <4>1, <4>2
    <3> QED
      BY <1>1, <2>1, <3>1, <3>2, <3>3, <3>4
  <2>11. l.ok \in BOOLEAN
    BY <2>6, MemoryType DEF Sound
  <2> QED
    BY <2>9, <2>10, <2>11
<1> QED
  BY <1>1, <1>2, <1>3, <1>4

-----------------------------------------------------------------------------
(* setupkvm and copyuvm                                                       *)

\* A directory is put in.
WithDir(pd, f) == [pd EXCEPT !.dir = f]
\* The frame is in the directory's slot, and nothing else has changed.
LEMMA CellWithDir ==
  ASSUME NEW pd \in Pgdirs, NEW f \in Frames
  PROVE  /\ WithDir(pd, f) \in Pgdirs
         /\ WithDir(pd, f).pte = pd.pte /\ WithDir(pd, f).user = pd.user
         /\ <<"dir", 0>> \in Slots
         /\ Cell(WithDir(pd, f)) = Put(Cell(pd), <<"dir", 0>>, f)
<1> DEFINE new == WithDir(pd, f)
<1>1. /\ new.dir = f /\ new.ktabs = pd.ktabs /\ new.tab = pd.tab
      /\ new.pte = pd.pte /\ new.user = pd.user
  BY DEF WithDir, Pgdirs
<1>2. new \in Pgdirs
  BY DEF WithDir, Pgdirs
<1> HIDE DEF new
<1>3. <<"dir", 0>> \in Slots
  BY DEF Slots
<1>4. ASSUME NEW s \in Slots PROVE Cell(new)[s] = [Cell(pd) EXCEPT ![<<"dir", 0>>] = f][s]
  <2>1. Cell(pd) \in [Slots -> Frames \cup {None}]
    BY CellType
  <2>2. CASE s = <<"dir", 0>>
    BY <1>1, <1>2, <2>1, <2>2, CellType
  <2>3. CASE \E i \in Nat : s = <<"ktab", i>>
    BY <1>1, <1>2, <2>1, <2>3, CellType
  <2>4. CASE \E t \in Tables : s = <<"tab", t>>
    BY <1>1, <1>2, <2>1, <2>4, CellType
  <2>5. CASE \E b \in UPages : s = <<"page", b>>
    BY <1>1, <1>2, <2>1, <2>5, CellType
  <2> QED
    BY <2>2, <2>3, <2>4, <2>5, SlotCases
<1>5. Cell(new) = Put(Cell(pd), <<"dir", 0>>, f)
  <2>1. Cell(new) \in [Slots -> Frames \cup {None}] /\ Cell(pd) \in [Slots -> Frames \cup {None}]
    BY <1>2, CellType
  <2> QED
    BY <1>4, <2>1 DEF Put
<1> QED
  BY <1>1, <1>2, <1>3, <1>5 DEF new

\* A page table of the kernel's is added, or the memory has failed.
LEMMA AddKtableSound ==
  ASSUME NEW m, NEW U, Sound(m, U), NEW n, n = AddKtable(m)
  PROVE  /\ Sound(n, U) /\ Keeps(m, n, U, UPages)
         /\ n.pd.pte = m.pd.pte /\ n.pd.user = m.pd.user
<1>1. CASE ~m.ok
  BY <1>1, KeepsSame DEF AddKtable
<1>2. CASE m.ok /\ NoneFree(m.free)
  <2>1. n = Failed(m)
    BY <1>2 DEF AddKtable
  <2> QED
    BY <2>1, FailedSound, KeepsSame
<1>3. CASE m.ok /\ ~NoneFree(m.free)
  <2>1. PICK k, f : k = Kalloc(m, "zero") /\ f = Top(m.free)
    OBVIOUS
  <2>2. /\ f \in Frames /\ f \notin U /\ Sound(k, U \cup {f}) /\ k.pd = m.pd /\ k.ok = m.ok
        /\ Keeps(m, k, U, UPages)
    BY <1>3, <2>1, WordsKnown, KallocSound, KallocKeeps
  <2>3. k \in Memories /\ k.pd \in Pgdirs
    BY <2>2, MemoryType DEF Sound
  <2>4. n = [k EXCEPT !.pd = WithKtable(k.pd, f)]
    BY <1>3, <2>1, <2>3 DEF AddKtable, WithKtable, Memories
  <2>5. PICK new, s : new = WithKtable(k.pd, f) /\ s = <<"ktab", Len(k.pd.ktabs) + 1>>
    OBVIOUS
  <2>6. /\ new \in Pgdirs /\ new.pte = k.pd.pte /\ new.user = k.pd.user
        /\ s \in Slots /\ Cell(k.pd)[s] = None /\ Cell(new) = Put(Cell(k.pd), s, f)
    BY <2>2, <2>3, <2>5, CellWithKtable
  <2>7. /\ n = [free |-> k.free, content |-> k.content, pd |-> new, ok |-> k.ok]
        /\ n.free = k.free /\ n.content = k.content /\ n.pd = new
    BY <2>3, <2>4, <2>5 DEF Memories
  <2>8. n \in Memories
    BY <2>3, <2>6, <2>7, MemoryOf, MemoryType
  <2>9. UserMapped(new)
    BY <2>2, <2>6 DEF Sound, UserMapped
  <2>10. Sound(n, U)
    BY <2>2, <2>6, <2>7, <2>8, <2>9, PutSound
  <2>11. Keeps(m, n, U, UPages)
    <3>1. Keeps(k, n, U, UPages)
      BY <2>6, <2>7, KeepsSame
    <3> QED
      BY <2>2, <3>1, KeepsTrans
  <2> QED
    BY <2>2, <2>6, <2>7, <2>10, <2>11
<1>4. m.ok \in BOOLEAN
  BY MemoryType DEF Sound
<1> QED
  BY <1>1, <1>2, <1>3, <1>4

\* The loop of setupkvm, turn by turn
TableTurns(g, m, n) == g = [k \in 0 .. n |-> IF k = 0 THEN m ELSE AddKtable(g[k - 1])]
\* The function that AddKtables chooses exists, for any number of tables.
LEMMA TableTurnsExist ==
  ASSUME NEW m
  PROVE  \A n \in Nat : \E g : TableTurns(g, m, n)
<1> DEFINE S == {n \in Nat : \E g : TableTurns(g, m, n)}
<1>1. 0 \in S
  <2> DEFINE g == [k \in 0 .. 0 |-> m]
  <2>1. g = [k \in 0 .. 0 |-> IF k = 0 THEN m ELSE AddKtable(g[k - 1])]
    OBVIOUS
  <2> HIDE DEF g
  <2> QED
    BY <2>1 DEF TableTurns
<1>2. ASSUME NEW n \in Nat, n \in S PROVE n + 1 \in S
  <2>1. PICK g : TableTurns(g, m, n)
    BY <1>2
  <2>2. PICK last : last = AddKtable(g[n])
    OBVIOUS
  <2> DEFINE h == [k \in 0 .. n + 1 |-> IF k = n + 1 THEN last ELSE g[k]]
  <2>3. ASSUME NEW k \in 0 .. n + 1
        PROVE  h[k] = IF k = 0 THEN m ELSE AddKtable(h[k - 1])
    <3>1. CASE k = n + 1
      <4>1. k # 0 /\ k - 1 = n /\ h[k] = last /\ h[k - 1] = g[n]
        BY <3>1
      <4> QED
        BY <4>1, <2>2
    <3>2. CASE k # n + 1
      <4>1. k \in 0 .. n /\ h[k] = g[k]
        BY <3>2
      <4>2. g[k] = IF k = 0 THEN m ELSE AddKtable(g[k - 1])
        BY <2>1, <4>1 DEF TableTurns
      <4>3. k # 0 => h[k - 1] = g[k - 1]
        BY <4>1
      <4> QED
        BY <4>1, <4>2, <4>3
    <3> QED
      BY <3>1, <3>2
  <2>4. h = [k \in 0 .. n + 1 |-> IF k = 0 THEN m ELSE AddKtable(h[k - 1])]
    <3>1. h = [k \in 0 .. n + 1 |-> h[k]]
      OBVIOUS
    <3> HIDE DEF h
    <3> QED
      BY <2>3, <3>1
  <2> HIDE DEF h
  <2>5. TableTurns(h, m, n + 1)
    BY <2>4 DEF TableTurns
  <2> QED
    BY <2>5
<1>3. \A n \in Nat : n \in S
  <2> HIDE DEF S
  <2> QED
    BY <1>1, <1>2, Induction
<1> QED
  BY <1>3

\* Any number of page tables of the kernel's are added, or the memory has failed.
LEMMA AddKtablesSound ==
  ASSUME NEW m, NEW U, Sound(m, U), NEW n \in Nat, NEW o, o = AddKtables(m, n)
  PROVE  /\ Sound(o, U) /\ Keeps(m, o, U, UPages)
         /\ o.pd.pte = m.pd.pte /\ o.pd.user = m.pd.user
<1>1. PICK upto : TableTurns(upto, m, n) /\ o = upto[n]
  <2> DEFINE g == CHOOSE g : TableTurns(g, m, n)
  <2>1. TableTurns(g, m, n)
    <3>1. \E h : TableTurns(h, m, n)
      BY TableTurnsExist
    <3> QED
      BY <3>1
  <2>2. o = g[n]
    BY DEF AddKtables, TableTurns
  <2> QED
    BY <2>1, <2>2
<1> DEFINE Holds(p) == /\ Sound(p, U) /\ Keeps(m, p, U, UPages)
                       /\ p.pd.pte = m.pd.pte /\ p.pd.user = m.pd.user
           S == {k \in Nat : k <= n => Holds(upto[k])}
<1>2. 0 \in S
  <2>1. upto[0] = m
    BY <1>1 DEF TableTurns
  <2> QED
    BY <2>1, KeepsSame
<1>3. ASSUME NEW k \in Nat, k \in S PROVE k + 1 \in S
  <2> SUFFICES ASSUME k + 1 <= n PROVE Holds(upto[k + 1])
    OBVIOUS
  <2>1. PICK p, q : p = upto[k] /\ q = upto[k + 1]
    OBVIOUS
  <2>2. Holds(p)
    BY <1>3, <2>1
  <2>3. q = AddKtable(p)
    BY <1>1, <2>1 DEF TableTurns
  <2>4. Sound(q, U) /\ Keeps(p, q, U, UPages) /\ q.pd.pte = p.pd.pte /\ q.pd.user = p.pd.user
    BY <2>2, <2>3, AddKtableSound
  <2>5. Keeps(m, q, U, UPages)
    BY <2>2, <2>4, KeepsTrans
  <2> QED
    BY <2>1, <2>2, <2>4, <2>5
<1>4. n \in S
  <2> HIDE DEF S
  <2>1. \A k \in Nat : k \in S
    BY <1>2, <1>3, Induction
  <2> QED
    BY <2>1
<1> QED
  BY <1>1, <1>4

\* setupkvm makes a page directory without pages, or none.
LEMMA SetupkvmSound ==
  ASSUME NEW m, NEW U, Sound(m, U), m.ok, m.pd = NoPgdir, NEW n, n = Setupkvm(m)
  PROVE  /\ Sound(n, U) /\ Keeps(m, n, U, {}) /\ NoPages(n.pd)
         /\ ~n.ok => n.pd = NoPgdir
<1>0. NoPages(NoPgdir)
  BY CellNoPgdir DEF NoPages
<1>1. CASE NoneFree(m.free)
  <2>1. n = Failed(m)
    BY <1>1 DEF Setupkvm
  <2>2. Sound(n, U) /\ n.pd = m.pd /\ n.content = m.content
    BY <2>1, FailedSound
  <2> QED
    BY <1>0, <2>2, KeepsSame
<1>2. CASE ~NoneFree(m.free)
  <2>1. PICK k, f : k = Kalloc(m, "zero") /\ f = Top(m.free)
    OBVIOUS
  <2>2. /\ f \in Frames /\ f \notin U /\ Sound(k, U \cup {f}) /\ k.pd = NoPgdir
        /\ Keeps(m, k, U, UPages)
    BY <1>2, <2>1, WordsKnown, KallocSound, KallocKeeps
  <2>3. k \in Memories /\ NoPgdir \in Pgdirs
    BY <2>2, MemoryType, CellNoPgdir DEF Sound
  <2>4. PICK new, s, d, o : /\ new = WithDir(NoPgdir, f) /\ s = <<"dir", 0>>
                            /\ d = [k EXCEPT !.pd = new] /\ o = AddKtables(d, KTABLES)
    OBVIOUS
  <2>5. n = OrFreed(o)
    BY <1>2, <2>1, <2>4 DEF Setupkvm, WithDir
  <2>6. /\ new \in Pgdirs /\ new.pte = NoPgdir.pte /\ new.user = NoPgdir.user
        /\ s \in Slots /\ Cell(new) = Put(Cell(NoPgdir), s, f)
    BY <2>2, <2>3, <2>4, CellWithDir
  <2>7. Cell(k.pd)[s] = None
    BY <2>2, <2>6, CellNoPgdir
  <2>8. /\ d = [free |-> k.free, content |-> k.content, pd |-> new, ok |-> k.ok]
        /\ d.free = k.free /\ d.content = k.content /\ d.pd = new
    BY <2>3, <2>4 DEF Memories
  <2>9. d \in Memories
    BY <2>3, <2>6, <2>8, MemoryOf, MemoryType
  <2>10. UserMapped(new) /\ NoPages(new)
    BY <2>6, CellNoPgdir DEF UserMapped, NoPages
  <2>11. Sound(d, U)
    BY <2>2, <2>6, <2>7, <2>8, <2>9, <2>10, PutSound
  <2>12. Sound(o, U) /\ Keeps(d, o, U, UPages) /\ o.pd.pte = d.pd.pte
    <3>1. o = AddKtables(d, KTABLES) /\ KTABLES \in Nat
      BY <2>4, Sizes
    <3> QED
      BY ONLY <2>11, <3>1, AddKtablesSound
  <2>13. Keeps(m, o, U, {})
    <3>1. Keeps(k, d, U, {})
      BY <2>8 DEF Keeps
    <3>2. Keeps(m, d, U, {})
      BY <2>2, <3>1, KeepsTrans
    <3> QED
      BY <2>12, <3>2, KeepsTrans
  <2>14. CASE o.ok
    BY <2>5, <2>8, <2>10, <2>12, <2>13, <2>14 DEF OrFreed, NoPages
  <2>15. CASE ~o.ok
    <3>1. n = Freevm(o)
      BY <2>5, <2>15 DEF OrFreed
    <3>2. Sound(n, U) /\ Keeps(o, n, U, {}) /\ n.pd = NoPgdir
      BY <2>12, <3>1, FreevmSound
    <3>3. Keeps(m, n, U, {})
      BY <2>13, <3>2, KeepsTrans
    <3> QED
      BY <1>0, <3>2, <3>3
  <2> QED
    BY <2>14, <2>15
<1> QED
  BY <1>1, <1>2

\* copyuvm gives the new space a copy of every page of the old one, or makes none.
LEMMA CopyuvmSound ==
  ASSUME NEW m, NEW U, Sound(m, U), m.ok, m.pd = NoPgdir,
         NEW old \in Pgdirs, NEW size \in 0 .. KERNBASE, Pages(old, size),
         \A a \in UPages : old.pte[a] # None => old.pte[a] \in U,
         NEW n, n = Copyuvm(m, old, size)
  PROVE  /\ Sound(n, U) /\ Keeps(m, n, U, {})
         /\ ~n.ok => n.pd = NoPgdir
         /\ n.ok => /\ Pages(n.pd, size)
                    /\ \A a \in UPages : a < Up(size) =>
                         n.pd.user[a] = old.user[a] /\ n.content[n.pd.pte[a]] = m.content[old.pte[a]]
<1>1. PICK s : s = Setupkvm(m)
  OBVIOUS
<1>2. Sound(s, U) /\ Keeps(m, s, U, {}) /\ NoPages(s.pd) /\ (~s.ok => s.pd = NoPgdir)
  BY <1>1, SetupkvmSound
<1>3. CASE ~s.ok
  <2>1. n = s
    BY <1>1, <1>3 DEF Copyuvm, CopyTo
  <2> QED
    BY <1>2, <1>3, <2>1
<1>4. CASE s.ok
  <2> DEFINE what == [a \in 0 .. Up(size) - 1 |-> s.content[old.pte[a]]]
  <2>1. PICK b \in Nat : b = Up(size) /\ b <= Up(KERNBASE)
    BY BelowKernbase, Sizes
  <2>2. PICK o : o = AddPages(s, 0, b, what, old.user)
    OBVIOUS
  <2>3. n = OrFreed(o)
    BY <1>1, <1>4, <2>1, <2>2 DEF Copyuvm, CopyTo, CopyPages
  <2>4. PICK new : new = Between(0, b)
    OBVIOUS
  <2>5. \A i \in UPages : i \in new <=> i < b
    BY <2>4, Sizes DEF Between
  <2>6. \A i \in new : i \in UPages /\ i \in 0 .. Up(size) - 1
    BY <2>1, <2>4, BetweenIs
  <2>7. \A i \in new : what[i] = s.content[old.pte[i]] /\ old.pte[i] \in U
    BY <2>1, <2>5, <2>6 DEF Pages
  <2> HIDE DEF what
  <2>8. \A i \in new : s.pd.pte[i] = None /\ what[i] \in Words /\ old.user[i] \in BOOLEAN
    <3> SUFFICES ASSUME NEW i \in new PROVE s.pd.pte[i] = None /\ what[i] \in Words /\ old.user[i] \in BOOLEAN
      OBVIOUS
    <3>1. old.user[i] \in BOOLEAN /\ s.pd.pte[i] = None
      BY <1>2, <2>6 DEF Pgdirs, NoPages
    <3>2. s.content \in [Frames -> Words] /\ old.pte[i] \in Frames
      BY <1>2, <2>7, MemoryType DEF Sound, OneUse
    <3> QED
      BY <2>7, <3>1, <3>2
  <2>9. AddsPages(s, o, U, new, what, old.user)
    BY <1>2, <1>4, <2>1, <2>2, <2>4, <2>8, AddPagesSound
  <2>10. /\ Sound(o, U) /\ Keeps(s, o, U, UPages \ new)
         /\ o.ok => \A i \in new : /\ o.pd.pte[i] # None /\ o.pd.user[i] = old.user[i]
                                  /\ o.content[o.pd.pte[i]] = what[i]
    BY <2>9 DEF AddsPages
  <2>11. Keeps(m, o, U, {})
    BY <1>2, <2>10, KeepsTrans
  <2>12. CASE o.ok
    <3>1. n = o
      BY <2>3, <2>12 DEF OrFreed
    <3>2. Pages(n.pd, size)
      <4> SUFFICES ASSUME NEW i \in UPages PROVE n.pd.pte[i] # None <=> i < b
        BY <2>1 DEF Pages
      <4>1. CASE i \in new
        BY <2>5, <2>10, <2>12, <3>1, <4>1
      <4>2. CASE i \notin new
        BY <1>2, <2>5, <2>10, <3>1, <4>2 DEF Keeps, NoPages
      <4> QED
        BY <4>1, <4>2
    <3>3. ASSUME NEW a \in UPages, a < b
          PROVE  n.pd.user[a] = old.user[a] /\ n.content[n.pd.pte[a]] = m.content[old.pte[a]]
      <4>1. a \in new
        BY <2>5, <3>3
      <4>2. s.content[old.pte[a]] = m.content[old.pte[a]]
        BY <1>2, <2>7, <4>1 DEF Keeps
      <4> QED
        BY <2>7, <2>10, <2>12, <3>1, <4>1, <4>2
    <3> QED
      BY <2>1, <2>10, <2>11, <2>12, <3>1, <3>2, <3>3
  <2>13. CASE ~o.ok
    <3>1. n = Freevm(o)
      BY <2>3, <2>13 DEF OrFreed
    <3>2. Sound(n, U) /\ Keeps(o, n, U, {}) /\ n.ok = o.ok /\ n.pd = NoPgdir
      BY <2>10, <3>1, FreevmSound
    <3>3. Keeps(m, n, U, {})
      BY <2>11, <3>2, KeepsTrans
    <3> QED
      BY <2>13, <3>2, <3>3
  <2> QED
    BY <2>12, <2>13
<1> QED
  BY <1>3, <1>4

-----------------------------------------------------------------------------
(* exec.c: the new image                                                      *)

\* An image in the making is of its size as long as nothing has failed.
Building(x, U) ==
  /\ x \in [m : Memories, size : 0 .. KERNBASE]
  /\ Sound(x.m, U)
  /\ x.m.ok => Pages(x.m.pd, x.size)
Segments == [vaddr : Nat, memsz : Nat, filesz : Nat, text : Texts, read : {"all", "header", "none"}]

\* A pair of a memory and a size is one, whatever was in it before.
LEMMA BuildingOf ==
  ASSUME NEW m, NEW U, Sound(m, U), NEW size \in 0 .. KERNBASE, m.ok => Pages(m.pd, size)
  PROVE  Building([m |-> m, size |-> size], U)
BY DEF Building, Sound

\* What fails changes nothing else.
LEMMA BuildingFails ==
  ASSUME NEW x, NEW U, Building(x, U), NEW m, Sound(m, U), Keeps(x.m, m, U, {}),
         NEW y, y = [x EXCEPT !.m = Failed(m)]
  PROVE  Building(y, U) /\ Keeps(x.m, y.m, U, {}) /\ ~y.m.ok
<1>1. Sound(Failed(m), U) /\ Failed(m).content = m.content /\ Failed(m).ok = FALSE
  BY FailedSound
<1>2. y = [m |-> Failed(m), size |-> x.size] /\ y.m = Failed(m)
  BY DEF Building
<1>3. Building(y, U)
  BY <1>1, <1>2, BuildingOf DEF Building
<1> QED
  BY <1>1, <1>2, <1>3 DEF Keeps

\* The pages that get words of a segment
Covers(seg, a) == a \in seg.vaddr \div PGSIZE .. Up(seg.vaddr + seg.filesz) - 1
\* What is in a page that is there
At(m, a) == m.content[m.pd.pte[a]]

\* loaduvm puts the segment in its pages, and nothing in others.
Loads(m, n, U, seg, size) ==
  /\ Sound(n, U) /\ n.pd = m.pd /\ n.ok = m.ok /\ Keeps(m, n, U, {})
  /\ \A a \in UPages : Covers(seg, a) => a < Up(size)
  /\ \A a \in UPages : a < Up(size) => At(n, a) = IF Covers(seg, a) THEN seg.text ELSE At(m, a)
\* So it does in a space that has those pages.
LEMMA LoaduvmSound ==
  ASSUME NEW m, NEW U, Sound(m, U), NEW seg \in Segments, NEW size \in 0 .. KERNBASE,
         Pages(m.pd, size), seg.vaddr + seg.filesz <= size, NEW n, n = Loaduvm(m, seg)
  PROVE  Loads(m, n, U, seg, size)
<1> DEFINE range == seg.vaddr \div PGSIZE .. Up(seg.vaddr + seg.filesz) - 1
           loaded == {m.pd.pte[a] : a \in range}
           co == [f \in Frames |-> IF f \in loaded THEN seg.text ELSE m.content[f]]
<1>1. m \in Memories /\ m.content \in [Frames -> Words] /\ m.free \in [Frames -> 0 .. 1]
  BY MemoryType DEF Sound
<1>2. co \in [Frames -> Words]
  BY <1>1 DEF Words, Segments
<1>3. n = With(m, m.free, co)
  BY <1>1 DEF Loaduvm, With, Memories
<1>4. \A f \in Frames : f \notin loaded => co[f] = m.content[f]
  OBVIOUS
<1>5. \A a \in range : a \in UPages /\ a < Up(size)
  <2>1. PICK v, w, e \in Nat : v = seg.vaddr /\ w = seg.vaddr + seg.filesz /\ e = seg.vaddr \div PGSIZE
    <3>1. seg.vaddr \in Nat /\ seg.filesz \in Nat /\ PGSIZE \in Nat /\ PGSIZE > 0
      BY Sizes DEF Segments
    <3>2. seg.vaddr \div PGSIZE \in Nat
      <4>1. PICK v \in Nat : v = seg.vaddr
        BY <3>1
      <4>2. PICK d \in Int, r \in 0 .. PGSIZE - 1 : d = v \div PGSIZE /\ r = v % PGSIZE /\ r = v - PGSIZE * d
        BY <3>1, Remainder
      <4>3. d <= -1 => PGSIZE * d <= -PGSIZE
        BY <3>1
      <4>4. PICK h \in Int : h = PGSIZE * d
        BY <3>1
      <4> QED
        BY <3>1, <4>1, <4>2, <4>3, <4>4
    <3> QED
      BY <3>1, <3>2
  <2>2. Up(w) <= Up(size) /\ Up(size) <= Up(KERNBASE) /\ Up(w) \in Nat /\ Up(size) \in Nat
    BY <2>1, Sizes, UpFacts
  <2>3. UPages = 0 .. Up(KERNBASE) - 1 /\ Up(KERNBASE) \in Nat
    BY UpFacts, Sizes
  <2> QED
    BY <2>1, <2>2, <2>3
<1>6. \A f \in U : f \notin loaded
  <2> SUFFICES ASSUME NEW a \in range PROVE m.pd.pte[a] \notin U
    OBVIOUS
  <2>1. a \in UPages /\ m.pd.pte[a] # None
    BY <1>5 DEF Pages
  <2> QED
    BY <2>1, PageFrames
<1>9. ASSUME NEW a \in UPages, a < Up(size)
      PROVE  /\ m.pd.pte[a] \in Frames /\ m.pd.pte[a] # None
             /\ m.pd.pte[a] \in loaded <=> Covers(seg, a)
  <2>1. m.pd.pte[a] # None
    BY <1>9 DEF Pages
  <2>2. m.pd.pte[a] \in Frames
    BY <2>1, PageFrames
  <2>3. ASSUME NEW b \in range, m.pd.pte[a] = m.pd.pte[b] PROVE a = b
    BY <1>5, <2>1, <2>3, PagesApart
  <2>4. Covers(seg, a) <=> a \in range
    BY DEF Covers
  <2> QED
    BY <2>1, <2>2, <2>3, <2>4
<1>10. \A a \in UPages : Covers(seg, a) => a < Up(size)
  BY <1>5 DEF Covers
<1>11. \A f \in Frames : co[f] = IF f \in loaded THEN seg.text ELSE m.content[f]
  OBVIOUS
<1> HIDE DEF co, loaded, range
<1>7. n \in Memories /\ n.free = m.free /\ n.content = co /\ n.pd = m.pd /\ n.ok = m.ok
  BY <1>1, <1>2, <1>3, MemoryWith
<1>8. U \subseteq Frames
  BY DEF Sound, OneUse
<1>12. Sound(n, U) /\ Keeps(m, n, U, {})
  BY <1>4, <1>6, <1>7, <1>8 DEF Sound, Keeps
<1>13. ASSUME NEW a \in UPages, a < Up(size)
       PROVE  At(n, a) = IF Covers(seg, a) THEN seg.text ELSE At(m, a)
  BY <1>7, <1>9, <1>11, <1>13 DEF At
<1> QED
  BY <1>7, <1>10, <1>12, <1>13 DEF Loads

\* A segment is put in, the pages it needs added, or the image has failed.
Puts(x, y, U, seg) ==
  /\ Building(y, U) /\ Keeps(x.m, y.m, U, {})
  /\ y.m.ok =>
       /\ x.m.ok /\ y.size >= x.size /\ y.size >= seg.vaddr + seg.memsz
       /\ y.size \in {x.size, seg.vaddr + seg.memsz}
       /\ \A a \in UPages : Covers(seg, a) => a < Up(y.size)
       /\ \A a \in UPages : a < Up(y.size) =>
            At(y.m, a) = IF Covers(seg, a) THEN seg.text ELSE IF a < Up(x.size) THEN At(x.m, a) ELSE "zero"
\* One turn of the loop does so.
LEMMA LoadSegmentSound ==
  ASSUME NEW x, NEW U, Building(x, U), NEW seg \in Segments, NEW y, y = LoadSegment(x, seg)
  PROVE  Puts(x, y, U, seg)
<1> USE DEF Puts
<1>1. /\ x \in [m : Memories, size : 0 .. KERNBASE] /\ Sound(x.m, U) /\ x.m.ok \in BOOLEAN
      /\ seg.vaddr \in Nat /\ seg.memsz \in Nat /\ seg.filesz \in Nat /\ PGSIZE \in Nat
  BY Sizes, MemoryType DEF Building, Segments
<1>2. CASE ~x.m.ok
  BY <1>2, KeepsSame DEF LoadSegment
<1>3. CASE x.m.ok /\ (seg.read = "none" \/ seg.memsz < seg.filesz \/ Uint(seg.vaddr + seg.memsz) < seg.vaddr)
  <2>1. y = [x EXCEPT !.m = Failed(x.m)]
    BY <1>1, <1>3 DEF LoadSegment
  <2> QED
    BY <1>1, <2>1, BuildingFails, KeepsSame
<1>4. CASE x.m.ok /\ ~(seg.read = "none" \/ seg.memsz < seg.filesz \/ Uint(seg.vaddr + seg.memsz) < seg.vaddr)
  <2>1. PICK newsz \in Nat : newsz = seg.vaddr + seg.memsz
    BY <1>1
  <2>2. PICK g : g = Allocuvm(x.m, x.size, newsz)
    OBVIOUS
  <2>3. y = Filled(x, seg, g)
    BY <1>4, <2>1, <2>2 DEF LoadSegment
  <2>4. /\ Sound(g.m, U) /\ g.size \in 0 .. KERNBASE
        /\ Keeps(x.m, g.m, U, {a \in UPages : a < Up(x.size)})
        /\ g.size # 0 => /\ g.m.ok /\ Pages(g.m.pd, g.size)
                         /\ g.size >= x.size /\ g.size >= newsz /\ g.size \in {x.size, newsz}
                         /\ \A a \in UPages : Up(x.size) <= a /\ a < Up(g.size) => At(g.m, a) = "zero"
    <3>1. Pages(x.m.pd, x.size) /\ x.size \in 0 .. KERNBASE
      BY <1>4 DEF Building
    <3>2. PICK m, size : m = x.m /\ size = x.size
      OBVIOUS
    <3>3. Sound(m, U) /\ m.ok /\ size \in 0 .. KERNBASE /\ Pages(m.pd, size) /\ g = Allocuvm(m, size, newsz)
      BY <1>1, <1>4, <2>2, <3>1, <3>2
    <3>4. Allocates(m, g, U, size, newsz)
      BY ONLY <3>3, AllocuvmSound
    <3>5. Allocates(x.m, g, U, x.size, newsz)
      BY <3>2, <3>4
    <3> QED
      BY <3>5 DEF Allocates, At
  <2>5. Keeps(x.m, g.m, U, {})
    BY <2>4 DEF Keeps
  <2>6. CASE g.size = 0 \/ seg.vaddr % PGSIZE # 0 \/ seg.read = "header"
    <3>1. y = [x EXCEPT !.m = Failed(g.m)]
      BY <2>3, <2>6 DEF Filled
    <3> QED
      BY <2>4, <2>5, <3>1, BuildingFails
  <2>7. CASE ~(g.size = 0 \/ seg.vaddr % PGSIZE # 0 \/ seg.read = "header")
    <3>1. PICK l : l = Loaduvm(g.m, seg)
      OBVIOUS
    <3>2. y = [m |-> l, size |-> g.size]
      BY <2>3, <2>7, <3>1 DEF Filled
    <3>3. seg.vaddr + seg.filesz <= g.size
      BY <1>1, <1>4, <2>1, <2>4, <2>7, Sizes
    <3>7. Loads(g.m, l, U, seg, g.size)
      <4>1. PICK m, size : m = g.m /\ size = g.size
        OBVIOUS
      <4>2. /\ Sound(m, U) /\ size \in 0 .. KERNBASE /\ Pages(m.pd, size)
            /\ seg.vaddr + seg.filesz <= size /\ l = Loaduvm(m, seg)
        BY <2>4, <2>7, <3>1, <3>3, <4>1
      <4>3. Loads(m, l, U, seg, size)
        BY <4>2, LoaduvmSound
      <4> QED
        BY <4>1, <4>3
    <3>4. Sound(l, U) /\ l.pd = g.m.pd /\ Keeps(g.m, l, U, {})
      BY <3>7 DEF Loads
    <3>5. Building(y, U)
      BY <2>4, <2>7, <3>2, <3>4, BuildingOf
    <3>6. Keeps(x.m, l, U, {})
      BY <2>5, <3>4, KeepsTrans
    <3>8. y.m = l /\ y.size = g.size
      BY <3>2
    <3>9. ASSUME NEW a \in UPages, a < Up(x.size) PROVE At(g.m, a) = At(x.m, a)
      <4>1. x.m.pd.pte[a] # None
        BY <1>4, <3>9 DEF Building, Pages
      <4> QED
        BY <2>4, <3>9, <4>1 DEF Keeps, At
    <3>10. ASSUME NEW a \in UPages, a < Up(g.size), ~(a < Up(x.size)) PROVE At(g.m, a) = "zero"
      <4>1. Up(x.size) \in Nat /\ a \in Nat
        BY <1>1, UpFacts, Sizes
      <4> QED
        BY <2>4, <2>7, <3>10, <4>1
    <3>11. ASSUME NEW a \in UPages, a < Up(g.size)
           PROVE  At(l, a) = IF Covers(seg, a) THEN seg.text ELSE IF a < Up(x.size) THEN At(x.m, a) ELSE "zero"
      BY <3>7, <3>9, <3>10, <3>11 DEF Loads
    <3>12. \A a \in UPages : Covers(seg, a) => a < Up(g.size)
      BY <3>7 DEF Loads
    <3> QED
      BY <1>4, <2>1, <2>4, <2>7, <3>5, <3>6, <3>8, <3>11, <3>12
  <2> QED
    BY <2>6, <2>7
<1> QED
  BY <1>1, <1>2, <1>3, <1>4

\* The loop over the program headers, turn by turn
SegmentTurns(g, x, segs, n) == g = [k \in 0 .. n |-> IF k = 0 THEN x ELSE LoadSegment(g[k - 1], segs[k])]
\* The function that LoadSegments chooses exists, for any number of segments.
LEMMA SegmentTurnsExist ==
  ASSUME NEW x, NEW segs
  PROVE  \A n \in Nat : \E g : SegmentTurns(g, x, segs, n)
<1> DEFINE S == {n \in Nat : \E g : SegmentTurns(g, x, segs, n)}
<1>1. 0 \in S
  <2> DEFINE g == [k \in 0 .. 0 |-> x]
  <2>1. g = [k \in 0 .. 0 |-> IF k = 0 THEN x ELSE LoadSegment(g[k - 1], segs[k])]
    OBVIOUS
  <2> HIDE DEF g
  <2> QED
    BY <2>1 DEF SegmentTurns
<1>2. ASSUME NEW n \in Nat, n \in S PROVE n + 1 \in S
  <2>1. PICK g : SegmentTurns(g, x, segs, n)
    BY <1>2
  <2>2. PICK last : last = LoadSegment(g[n], segs[n + 1])
    OBVIOUS
  <2> DEFINE h == [k \in 0 .. n + 1 |-> IF k = n + 1 THEN last ELSE g[k]]
  <2>3. ASSUME NEW k \in 0 .. n + 1
        PROVE  h[k] = IF k = 0 THEN x ELSE LoadSegment(h[k - 1], segs[k])
    <3>1. CASE k = n + 1
      <4>1. k # 0 /\ k - 1 = n /\ h[k] = last /\ h[k - 1] = g[n]
        BY <3>1
      <4> QED
        BY <3>1, <4>1, <2>2
    <3>2. CASE k # n + 1
      <4>1. k \in 0 .. n /\ h[k] = g[k]
        BY <3>2
      <4>2. g[k] = IF k = 0 THEN x ELSE LoadSegment(g[k - 1], segs[k])
        BY <2>1, <4>1 DEF SegmentTurns
      <4>3. k # 0 => h[k - 1] = g[k - 1]
        BY <4>1
      <4> QED
        BY <4>1, <4>2, <4>3
    <3> QED
      BY <3>1, <3>2
  <2>4. h = [k \in 0 .. n + 1 |-> IF k = 0 THEN x ELSE LoadSegment(h[k - 1], segs[k])]
    <3>1. h = [k \in 0 .. n + 1 |-> h[k]]
      OBVIOUS
    <3> HIDE DEF h
    <3> QED
      BY <2>3, <3>1
  <2> HIDE DEF h
  <2>5. SegmentTurns(h, x, segs, n + 1)
    BY <2>4 DEF SegmentTurns
  <2> QED
    BY <2>5
<1>3. \A n \in Nat : n \in S
  <2> HIDE DEF S
  <2> QED
    BY <1>1, <1>2, Induction
<1> QED
  BY <1>3

\* What is in page a after the first k segments: the last one's words that has any for it,
\* or zeroes.
Lies(w, segs, k, a) ==
  \/ w = "zero" /\ \A j \in 1 .. k : ~Covers(segs[j], a)
  \/ \E i \in 1 .. k : /\ Covers(segs[i], a) /\ w = segs[i].text
                      /\ \A j \in 1 .. k : Covers(segs[j], a) => j <= i
\* They end where the last of them ends, and all their words are there.
Laid(x, segs, k) ==
  /\ \A j \in 1 .. k : segs[j].vaddr + segs[j].memsz <= x.size
  /\ x.size = 0 \/ \E j \in 1 .. k : x.size = segs[j].vaddr + segs[j].memsz
  /\ \A a \in UPages : \A j \in 1 .. k : Covers(segs[j], a) => a < Up(x.size)
  /\ \A a \in UPages : a < Up(x.size) => Lies(At(x.m, a), segs, k, a)

\* One more segment
LEMMA LaidNext ==
  ASSUME NEW segs \in Seq(Segments), NEW k \in Nat, k + 1 <= Len(segs),
         NEW x, NEW y, NEW U, Building(x, U), Laid(x, segs, k), Puts(x, y, U, segs[k + 1]), y.m.ok
  PROVE  Laid(y, segs, k + 1)
<1>1. PICK seg \in Segments : seg = segs[k + 1]
  OBVIOUS
<1>2. PICK end \in Nat : end = seg.vaddr + seg.memsz
  BY DEF Segments
<1>3. /\ x.m.ok /\ y.size >= x.size /\ y.size >= end /\ y.size \in {x.size, end}
      /\ x.size \in Nat /\ y.size \in Nat
      /\ \A a \in UPages : Covers(seg, a) => a < Up(y.size)
      /\ \A a \in UPages : a < Up(y.size) =>
           At(y.m, a) = IF Covers(seg, a) THEN seg.text ELSE IF a < Up(x.size) THEN At(x.m, a) ELSE "zero"
  BY <1>1, <1>2, Sizes DEF Puts, Building
<1>4. \A j \in 1 .. k + 1 : j \in 1 .. k \/ j = k + 1
  OBVIOUS
<1>5. \A j \in 1 .. k : j \in 1 .. k + 1 /\ j <= k + 1 /\ ~(k + 1 <= j)
  OBVIOUS
<1>6. k + 1 \in 1 .. k + 1 /\ k + 1 <= k + 1
  OBVIOUS
<1>7. \A j \in 1 .. k : segs[j].vaddr + segs[j].memsz \in Nat
  <2> SUFFICES ASSUME NEW j \in 1 .. k PROVE segs[j].vaddr + segs[j].memsz \in Nat
    OBVIOUS
  <2>1. PICK s \in Segments : s = segs[j]
    OBVIOUS
  <2>2. s.vaddr + s.memsz \in Nat
    BY ONLY s \in Segments DEF Segments
  <2> QED
    BY <2>1, <2>2
<1>8. Up(x.size) \in Nat /\ Up(y.size) \in Nat /\ Up(x.size) <= Up(y.size) /\ UPages \subseteq Nat
  BY <1>3, UpFacts, Sizes
<1>9. ASSUME NEW j \in 1 .. k + 1 PROVE segs[j].vaddr + segs[j].memsz <= y.size
  <2>1. CASE j = k + 1
    BY <1>1, <1>2, <1>3, <2>1
  <2>2. CASE j \in 1 .. k
    <3>1. PICK e \in Nat : e = segs[j].vaddr + segs[j].memsz /\ e <= x.size
      BY <1>7, <2>2 DEF Laid
    <3> QED
      BY <1>3, <3>1
  <2> QED
    BY <1>4, <2>1, <2>2
<1>10. y.size = 0 \/ \E j \in 1 .. k + 1 : y.size = segs[j].vaddr + segs[j].memsz
  <2>1. CASE y.size = end
    BY <1>1, <1>2, <1>6, <2>1
  <2>2. CASE y.size = x.size
    BY <1>5, <2>2 DEF Laid
  <2> QED
    BY <1>3, <2>1, <2>2
<1>11. ASSUME NEW a \in UPages, NEW j \in 1 .. k + 1, Covers(segs[j], a) PROVE a < Up(y.size)
  <2>1. CASE j = k + 1
    BY <1>1, <1>3, <1>11, <2>1
  <2>2. CASE j \in 1 .. k
    <3>1. a < Up(x.size)
      BY <1>11, <2>2 DEF Laid
    <3> QED
      BY <1>8, <3>1
  <2> QED
    BY <1>4, <2>1, <2>2
<1>12. ASSUME NEW a \in UPages, a < Up(y.size) PROVE Lies(At(y.m, a), segs, k + 1, a)
  <2>1. CASE Covers(seg, a)
    <3>1. At(y.m, a) = segs[k + 1].text /\ Covers(segs[k + 1], a)
      BY <1>1, <1>3, <1>12, <2>1
    <3>2. \A j \in 1 .. k + 1 : j <= k + 1
      OBVIOUS
    <3> QED
      BY <1>6, <3>1, <3>2 DEF Lies
  <2>2. CASE ~Covers(seg, a) /\ a < Up(x.size)
    <3>1. PICK w : w = At(x.m, a)
      OBVIOUS
    <3>2. At(y.m, a) = w /\ Lies(w, segs, k, a) /\ ~Covers(segs[k + 1], a)
      BY <1>1, <1>3, <1>12, <2>2, <3>1 DEF Laid
    <3>3. Lies(w, segs, k + 1, a)
      BY ONLY <1>4, <1>5, <3>2 DEF Lies
    <3> QED
      BY <3>2, <3>3
  <2>3. CASE ~Covers(seg, a) /\ ~(a < Up(x.size))
    <3>1. At(y.m, a) = "zero" /\ ~Covers(segs[k + 1], a)
      BY <1>1, <1>3, <1>12, <2>3
    <3>2. \A j \in 1 .. k : ~Covers(segs[j], a)
      BY <2>3 DEF Laid
    <3> QED
      BY <1>4, <3>1, <3>2 DEF Lies
  <2> QED
    BY <2>1, <2>2, <2>3
<1> QED
  BY <1>9, <1>10, <1>11, <1>12 DEF Laid

\* The segments of a file are put in, or the image has failed.
LEMMA LoadSegmentsSound ==
  ASSUME NEW x, NEW U, Building(x, U), x.size = 0,
         NEW segs \in Seq(Segments), NEW y, y = LoadSegments(x, segs)
  PROVE  /\ Building(y, U) /\ Keeps(x.m, y.m, U, {})
         /\ y.m.ok => Laid(y, segs, Len(segs))
<1>1. PICK n \in Nat : n = Len(segs)
  OBVIOUS
<1>2. PICK upto : SegmentTurns(upto, x, segs, n) /\ y = upto[n]
  <2> DEFINE g == CHOOSE g : SegmentTurns(g, x, segs, n)
  <2>1. SegmentTurns(g, x, segs, n)
    <3>1. \E h : SegmentTurns(h, x, segs, n)
      BY SegmentTurnsExist
    <3> QED
      BY <3>1
  <2>2. y = g[n]
    BY <1>1 DEF LoadSegments, SegmentTurns
  <2> QED
    BY <2>1, <2>2
<1> DEFINE Holds(z, k) == Building(z, U) /\ Keeps(x.m, z.m, U, {}) /\ (z.m.ok => Laid(z, segs, k))
           S == {k \in Nat : k <= n => Holds(upto[k], k)}
<1>3. 0 \in S
  <2>1. upto[0] = x
    BY <1>2 DEF SegmentTurns
  <2>2. \A a \in UPages : ~(a < Up(0))
    BY UpFacts, Sizes
  <2>3. \A j \in 1 .. 0 : FALSE
    OBVIOUS
  <2>4. Laid(x, segs, 0)
    BY <2>2, <2>3 DEF Laid
  <2> QED
    BY <2>1, <2>4, KeepsSame
<1>4. ASSUME NEW k \in Nat, k \in S PROVE k + 1 \in S
  <2> SUFFICES ASSUME k + 1 <= n PROVE Holds(upto[k + 1], k + 1)
    OBVIOUS
  <2>1. PICK v, w, seg : v = upto[k] /\ w = upto[k + 1] /\ seg = segs[k + 1]
    OBVIOUS
  <2>2. Holds(v, k) /\ seg \in Segments
    BY <1>1, <1>4, <2>1
  <2>3. w = LoadSegment(v, seg)
    BY <1>2, <2>1 DEF SegmentTurns
  <2>4. Puts(v, w, U, seg)
    BY <2>2, <2>3, LoadSegmentSound
  <2>5. Keeps(x.m, w.m, U, {}) /\ Building(w, U) /\ (w.m.ok => v.m.ok)
    BY <2>2, <2>4, KeepsTrans DEF Puts
  <2>6. w.m.ok => Laid(w, segs, k + 1)
    <3>1. SUFFICES ASSUME w.m.ok PROVE Laid(w, segs, k + 1)
      OBVIOUS
    <3>2. Building(v, U) /\ Laid(v, segs, k) /\ Puts(v, w, U, segs[k + 1]) /\ k + 1 <= Len(segs)
      BY <1>1, <2>1, <2>2, <2>4, <2>5, <3>1
    <3> QED
      BY <3>1, <3>2, LaidNext
  <2> QED
    BY <2>1, <2>5, <2>6
<1>5. n \in S
  <2> HIDE DEF S
  <2>1. \A k \in Nat : k \in S
    BY <1>3, <1>4, Induction
  <2> QED
    BY <2>1
<1> QED
  BY <1>1, <1>2, <1>5

\* The two pages of the stack are put on top, or the image has failed.
Tops(x, y, U) ==
  /\ Building(y, U) /\ Keeps(x.m, y.m, U, {})
  /\ y.m.ok =>
       /\ x.m.ok /\ Up(y.size) = Up(x.size) + 2
       /\ \A a \in UPages : a < Up(y.size) =>
            At(y.m, a) = IF a = Up(x.size) + 1 THEN "args" ELSE IF a < Up(x.size) THEN At(x.m, a) ELSE "zero"
\* exec's last part does so.
LEMMA AddStackSound ==
  ASSUME NEW x, NEW U, Building(x, U), NEW argsFit \in BOOLEAN, NEW y, y = AddStack(x, argsFit)
  PROVE  Tops(x, y, U)
<1> USE DEF Tops
<1>1. x \in [m : Memories, size : 0 .. KERNBASE] /\ Sound(x.m, U) /\ x.m.ok \in BOOLEAN
  BY MemoryType DEF Building
<1>2. CASE ~x.m.ok
  BY <1>2, KeepsSame DEF AddStack
<1>3. CASE x.m.ok
  <2>1. PICK top \in Nat : top = Up(x.size) /\ top <= Up(KERNBASE)
    BY <1>1, BelowKernbase, Sizes
  <2>2. PICK oldsz, newsz \in Nat : /\ oldsz = top * PGSIZE /\ newsz = (top + 2) * PGSIZE
                                    /\ oldsz < newsz
    <3>1. top * PGSIZE \in Nat /\ (top + 2) * PGSIZE \in Nat /\ top * PGSIZE < (top + 2) * PGSIZE
      <4>1. PICK h \in Nat : h = top * PGSIZE
        BY Sizes
      <4>2. (top + 2) * PGSIZE = h + PGSIZE + PGSIZE
        BY <4>1, Sizes
      <4> QED
        BY <4>1, <4>2, Sizes
    <3> QED
      BY <3>1
  <2>3. PICK g : g = Allocuvm(x.m, oldsz, newsz)
    OBVIOUS
  <2>4. y = Stacked(x, argsFit, g)
    BY <1>3, <2>1, <2>2, <2>3 DEF AddStack
  <2>5. Up(oldsz) = top /\ Up(newsz) = top + 2
    BY <2>1, <2>2, UpFacts
  <2>6. oldsz <= KERNBASE
    <3>1. PICK d \in Int : KERNBASE = PGSIZE * d
      <4>1. 0 = KERNBASE - PGSIZE * (KERNBASE \div PGSIZE) /\ KERNBASE \div PGSIZE \in Int
        BY Sizes, Remainder
      <4>2. PICK d \in Int : d = KERNBASE \div PGSIZE /\ 0 = KERNBASE - PGSIZE * d
        BY <4>1
      <4>3. PICK e \in Int : e = PGSIZE * d
        BY Sizes
      <4> QED
        BY <4>2, <4>3, Sizes
    <3>2. d \in Nat
      <4>1. d <= -1 => PGSIZE * d <= -PGSIZE
        BY Sizes
      <4> QED
        BY <3>1, <4>1, Sizes
    <3>3. KERNBASE = d * PGSIZE
      BY <3>1, Sizes
    <3>4. Up(KERNBASE) = d
      BY <3>2, <3>3, UpFacts
    <3>5. top <= d
      BY <2>1, <3>4
    <3>6. top * PGSIZE <= d * PGSIZE
      BY <3>2, <3>5, Sizes
    <3> QED
      BY <2>2, <3>3, <3>6
  <2>7. Allocates(x.m, g, U, oldsz, newsz)
    <3>1. Pages(x.m.pd, x.size)
      BY <1>3 DEF Building
    <3>2. Pages(x.m.pd, oldsz)
      BY <2>1, <2>5, <3>1 DEF Pages
    <3>3. PICK m : m = x.m
      OBVIOUS
    <3>4. Sound(m, U) /\ m.ok /\ oldsz \in 0 .. KERNBASE /\ Pages(m.pd, oldsz) /\ g = Allocuvm(m, oldsz, newsz)
      BY <1>1, <1>3, <2>2, <2>3, <2>6, <3>2, <3>3, Sizes
    <3>5. Allocates(m, g, U, oldsz, newsz)
      BY ONLY <3>4, AllocuvmSound
    <3> QED
      BY <3>3, <3>5
  <2>8. Sound(g.m, U) /\ Keeps(x.m, g.m, U, {})
    BY <2>7 DEF Allocates, Keeps
  <2>9. CASE g.size = 0 \/ ~argsFit
    <3>1. y = [x EXCEPT !.m = Failed(g.m)]
      BY <2>4, <2>9 DEF Stacked
    <3> QED
      BY <2>8, <3>1, BuildingFails
  <2>10. CASE ~(g.size = 0 \/ ~argsFit)
    <3>1. /\ g.m.ok /\ g.size = newsz /\ g.size \in 0 .. KERNBASE /\ Pages(g.m.pd, newsz)
      BY <2>2, <2>7, <2>10 DEF Allocates
    <3>2. top \in UPages /\ top + 1 \in UPages
      <4>1. Up(newsz) <= Up(KERNBASE) /\ UPages = 0 .. Up(KERNBASE) - 1 /\ Up(KERNBASE) \in Nat
        BY <2>2, <3>1, UpFacts, Sizes
      <4> QED
        BY <2>1, <2>5, <4>1
    <3>3. PICK m, f : m = g.m /\ f = m.pd.pte[top + 1]
      OBVIOUS
    <3>4. m.pd.pte[top + 1] # None
      BY <2>1, <2>5, <3>1, <3>2, <3>3 DEF Pages
    <3>5. f \in Frames /\ f \notin U
      BY <2>8, <3>2, <3>3, <3>4, PageFrames
    <3> DEFINE user == [m.pd.user EXCEPT ![top] = FALSE]
               co == [m.content EXCEPT ![f] = "args"]
               pd == [m.pd EXCEPT !.user = user]
    <3>6. m \in Memories /\ m.pd \in Pgdirs /\ m.content \in [Frames -> Words] /\ m.free \in [Frames -> 0 .. 1]
      BY <2>8, <3>3, MemoryType DEF Sound
    <3>7. user \in [UPages -> BOOLEAN] /\ \A a \in UPages : user[a] => m.pd.user[a]
      BY <3>2, <3>6 DEF Pgdirs
    <3>8. co \in [Frames -> Words] /\ \A h \in Frames : h # f => co[h] = m.content[h]
      BY <3>6, WordsKnown
    <3>9. PICK n : n = [[m EXCEPT !.pd = pd] EXCEPT !.content = co]
      OBVIOUS
    <3>10. y = [m |-> n, size |-> newsz]
      <4>1. y = [m |-> Copyout([g.m EXCEPT !.pd.user[top] = FALSE], top + 1, "args"), size |-> g.size]
        BY <2>1, <2>4, <2>10 DEF Stacked
      <4>2. PICK o : o = [m EXCEPT !.pd.user[top] = FALSE]
        OBVIOUS
      <4>3. o = [m EXCEPT !.pd = pd]
        BY <3>6, <4>2 DEF Memories, Pgdirs
      <4>4. o.pd.pte[top + 1] = f /\ [o EXCEPT !.content[f] = "args"] = n
        BY <3>3, <3>6, <3>9, <4>3 DEF Memories, Pgdirs
      <4>5. Copyout(o, top + 1, "args") = n
        BY <4>4 DEF Copyout
      <4> QED
        BY <3>1, <3>3, <4>1, <4>2, <4>5
    <3> HIDE DEF user, co
    <3>11. /\ pd \in Pgdirs /\ pd.dir = m.pd.dir /\ pd.ktabs = m.pd.ktabs /\ pd.tab = m.pd.tab
           /\ pd.pte = m.pd.pte /\ pd.user = user
      BY <3>6, <3>7 DEF Pgdirs
    <3> HIDE DEF pd
    <3>12. Cell(pd) = Cell(m.pd)
      <4>1. ASSUME NEW s \in Slots PROVE Cell(pd)[s] = Cell(m.pd)[s]
        <5>1. CASE s = <<"dir", 0>>
          BY <3>6, <3>11, <5>1, CellType
        <5>2. CASE \E i \in Nat : s = <<"ktab", i>>
          BY <3>6, <3>11, <5>2, CellType
        <5>3. CASE \E t \in Tables : s = <<"tab", t>>
          BY <3>6, <3>11, <5>3, CellType
        <5>4. CASE \E b \in UPages : s = <<"page", b>>
          BY <3>6, <3>11, <5>4, CellType
        <5> QED
          BY <5>1, <5>2, <5>3, <5>4, SlotCases
      <4> QED
        BY <4>1 DEF Cell
    <3>13. /\ n = [free |-> m.free, content |-> co, pd |-> pd, ok |-> m.ok]
           /\ n.free = m.free /\ n.content = co /\ n.pd = pd /\ n.ok = m.ok
      BY <3>6, <3>9 DEF Memories
    <3>14. n \in Memories
      <4>1. m.ok \in BOOLEAN
        BY <3>6, MemoryType
      <4> QED
        BY ONLY <3>6, <3>8, <3>11, <3>13, <4>1 DEF Memories
    <3>15. UserMapped(pd)
      BY <2>8, <3>3, <3>7, <3>11 DEF UserMapped, Sound
    <3>16. Sound(n, U)
      BY <2>8, <3>3, <3>12, <3>13, <3>14, <3>15 DEF Sound
    <3>17. Building(y, U)
      <4>1. Pages(pd, newsz)
        BY <3>1, <3>3, <3>11 DEF Pages
      <4> QED
        BY <3>1, <3>10, <3>13, <3>16, <4>1, BuildingOf
    <3>18. Keeps(m, n, U, {})
      <4>1. U \subseteq Frames
        BY <2>8 DEF Sound, OneUse
      <4> QED
        BY <3>5, <3>8, <3>13, <4>1 DEF Keeps
    <3>19. Keeps(x.m, n, U, {})
      BY <2>8, <3>3, <3>18, KeepsTrans
    <3>20. ASSUME NEW a \in UPages, a < top PROVE At(m, a) = At(x.m, a)
      <4>1. x.m.pd.pte[a] # None
        BY <1>3, <2>1, <3>20 DEF Building, Pages
      <4>2. Keeps(x.m, m, U, {b \in UPages : b < top})
        BY <2>5, <2>7, <3>3 DEF Allocates
      <4> QED
        BY <3>20, <4>1, <4>2 DEF Keeps, At
    <3>21. At(m, top) = "zero"
      <4>1. top <= top /\ top < top + 2
        BY <2>1
      <4> QED
        BY <2>5, <2>7, <2>10, <3>1, <3>2, <3>3, <4>1 DEF Allocates, At
    <3>22. ASSUME NEW a \in UPages, a < top + 2, a # top + 1 PROVE At(n, a) = At(m, a)
      <4>1. m.pd.pte[a] # None
        BY <2>5, <3>1, <3>3, <3>22 DEF Pages
      <4>2. m.pd.pte[a] \in Frames
        BY <2>8, <3>3, <4>1, PageFrames
      <4>3. m.pd.pte[a] # f
        BY <2>8, <3>2, <3>3, <3>22, <4>1, PagesApart
      <4> QED
        BY <3>8, <3>11, <3>13, <4>2, <4>3 DEF At
    <3>23. At(n, top + 1) = "args"
      <4>1. co[f] = "args"
        BY <3>5, <3>6 DEF co
      <4> QED
        BY <3>3, <3>11, <3>13, <4>1 DEF At
    <3>24. ASSUME NEW a \in UPages, a < top + 2
           PROVE  At(n, a) = IF a = top + 1 THEN "args" ELSE IF a < top THEN At(x.m, a) ELSE "zero"
      <4>1. a \in Nat
        BY Sizes
      <4>2. CASE a = top + 1
        BY <3>23, <4>2
      <4>3. CASE a < top
        BY <2>1, <3>20, <3>22, <3>24, <4>3
      <4>4. CASE a = top
        BY <2>1, <3>21, <3>22, <3>24, <4>4
      <4> QED
        BY <2>1, <3>24, <4>1, <4>2, <4>3, <4>4
    <3>25. y.m = n /\ y.size = newsz
      BY <3>10
    <3> QED
      BY <1>3, <2>1, <2>5, <3>17, <3>19, <3>24, <3>25
  <2> QED
    BY <2>9, <2>10
<1> QED
  BY <1>1, <1>2, <1>3

\* What a process sees of a memory
Shown(co, pd) == [a \in UPages |-> IF pd.pte[a] = None THEN "absent" ELSE co[pd.pte[a]]]

\* The file's layout, from the segments one by one: the largest of their ends, and for a page
\* the last that has words for it.
LEMMA LayoutIs ==
  ASSUME NEW image, image.segs \in Seq(Segments), NEW x, NEW y, NEW U,
         Building(x, U), Laid(x, image.segs, Len(image.segs)), Tops(x, y, U), y.m.ok
  PROVE  Up(y.size) = Layout(image).size /\ Shown(y.m.content, y.m.pd) = Layout(image).memory
<1> DEFINE segs == image.segs
           ends == {s.vaddr + s.memsz : s \in ToSet(segs)} \cup {0}
           end == CHOOSE e \in ends : \A d \in ends : d <= e
           top == Up(end)
           Text(a) == {i \in 1 .. Len(segs) : Covers(segs[i], a)}
           Said(a) == IF a >= top + 2 THEN "absent"
                      ELSE IF a = top + 1 THEN "args"
                      ELSE IF Text(a) # {} THEN segs[CHOOSE i \in Text(a) : \A j \in Text(a) : j <= i].text
                      ELSE "zero"
<1>1. Layout(image) = [size |-> top + 2, memory |-> [a \in UPages |-> Said(a)]]
  BY DEF Layout, Covers
<1>2. PICK n \in Nat : n = Len(segs)
  OBVIOUS
<1>3. ToSet(segs) = {segs[i] : i \in 1 .. n}
  BY <1>2 DEF ToSet
<1>4. \A a : \A i : i \in Text(a) <=> i \in 1 .. n /\ Covers(segs[i], a)
  BY <1>2
<1>5. /\ Laid(x, segs, n) /\ x.size \in Nat /\ Up(x.size) \in Nat /\ UPages \subseteq Nat
      /\ Up(y.size) = Up(x.size) + 2
      /\ \A a \in UPages : a < Up(y.size) =>
            At(y.m, a) = IF a = Up(x.size) + 1 THEN "args" ELSE IF a < Up(x.size) THEN At(x.m, a) ELSE "zero"
      /\ Pages(y.m.pd, y.size)
  <2>1. x.size \in Nat /\ UPages \subseteq Nat
    BY Sizes DEF Building
  <2> QED
    BY <1>2, <2>1, UpFacts DEF Tops, Building
<1>6. end = x.size
  <2>1. x.size \in ends
    BY <1>3, <1>5 DEF Laid
  <2>2. \A d \in ends : d <= x.size
    BY <1>3, <1>5 DEF Laid
  <2>3. \A d \in ends : d \in Nat
    <3>1. ASSUME NEW i \in 1 .. n PROVE segs[i].vaddr + segs[i].memsz \in Nat
      <4>1. PICK s \in Segments : s = segs[i]
        BY <1>2
      <4>2. s.vaddr + s.memsz \in Nat
        BY ONLY s \in Segments DEF Segments
      <4> QED
        BY <4>1, <4>2
    <3> QED
      BY <1>3, <3>1
  <2> HIDE DEF ends
  <2>4. end \in ends /\ x.size <= end
    BY <2>1, <2>2
  <2> HIDE DEF end
  <2>5. end <= x.size /\ end \in Nat
    BY <2>2, <2>3, <2>4
  <2> QED
    BY <1>5, <2>4, <2>5
<1>7. top = Up(x.size) /\ top \in Nat
  BY <1>5, <1>6
<1> HIDE DEF segs, end, top, Text
<1>8. ASSUME NEW a \in UPages, a < top
      PROVE  At(y.m, a) = IF Text(a) # {} THEN segs[CHOOSE i \in Text(a) : \A j \in Text(a) : j <= i].text ELSE "zero"
  <2>1. PICK w, T : w = At(y.m, a) /\ T = Text(a)
    OBVIOUS
  <2>2. Lies(w, segs, n, a)
    <3>1. a < Up(y.size) /\ a # Up(x.size) + 1 /\ a < Up(x.size)
      BY <1>5, <1>7, <1>8
    <3>2. w = At(x.m, a)
      BY <1>5, <2>1, <3>1
    <3> QED
      BY <1>5, <3>1, <3>2 DEF Laid
  <2>3. \A i : i \in T <=> i \in 1 .. n /\ Covers(segs[i], a)
    BY <1>4, <2>1
  <2>4. CASE T = {}
    BY <2>1, <2>2, <2>3, <2>4 DEF Lies
  <2>5. CASE T # {}
    <3>1. PICK i \in 1 .. n : /\ Covers(segs[i], a) /\ w = segs[i].text
                              /\ \A j \in 1 .. n : Covers(segs[j], a) => j <= i
      BY <2>2, <2>3, <2>5 DEF Lies
    <3> DEFINE last == CHOOSE k \in T : \A j \in T : j <= k
    <3>2. i \in T /\ \A j \in T : j <= i
      BY <2>3, <3>1
    <3>3. last \in T /\ \A j \in T : j <= last
      BY <3>2
    <3> HIDE DEF last
    <3>4. last = i
      <4>1. last <= i /\ i <= last /\ last \in Nat /\ i \in Nat
        BY <2>3, <3>2, <3>3
      <4> QED
        BY <4>1
    <3>5. w = segs[last].text
      BY <3>1, <3>4
    <3> QED
      BY <2>1, <2>5, <3>5 DEF last
  <2> QED
    BY <2>4, <2>5
<1>9. Text(top) = {}
  <2>1. ASSUME NEW i \in Text(top) PROVE FALSE
    <3>1. i \in 1 .. n /\ Covers(segs[i], top)
      BY <1>4
    <3>2. CASE top \in UPages
      BY <1>5, <1>7, <3>1, <3>2 DEF Laid
    <3>3. CASE top \notin UPages
      <4>1. Up(y.size) <= Up(KERNBASE) /\ UPages = 0 .. Up(KERNBASE) - 1 /\ Up(KERNBASE) \in Nat
        BY UpFacts, Sizes DEF Tops, Building
      <4> QED
        BY <1>5, <1>7, <3>3, <4>1
    <3> QED
      BY <3>2, <3>3
  <2> QED
    BY <2>1
<1>10. ASSUME NEW a \in UPages
       PROVE  (IF y.m.pd.pte[a] = None THEN "absent" ELSE y.m.content[y.m.pd.pte[a]]) = Said(a)
  <2>1. a \in Nat /\ (y.m.pd.pte[a] # None <=> a < top + 2)
    BY <1>5, <1>7 DEF Pages
  <2>2. PICK w : w = At(y.m, a)
    OBVIOUS
  <2>3. a < top + 2 => w = IF a = top + 1 THEN "args" ELSE IF a < top THEN At(x.m, a) ELSE "zero"
    BY <1>5, <1>7, <2>2
  <2>4. CASE a >= top + 2
    BY <1>7, <2>1, <2>4
  <2>5. CASE a = top + 1
    BY <1>7, <2>1, <2>2, <2>3, <2>5 DEF At
  <2>6. CASE a = top
    <3>1. w = "zero" /\ a < top + 2 /\ a # top + 1 /\ ~(a >= top + 2)
      BY <1>7, <2>3, <2>6
    <3> QED
      BY <1>9, <2>1, <2>2, <2>6, <3>1 DEF At
  <2>7. CASE a < top
    <3>1. a < top + 2 /\ a # top + 1 /\ ~(a >= top + 2)
      BY <1>7, <2>1, <2>7
    <3> QED
      BY <1>8, <2>1, <2>2, <2>7, <3>1 DEF At
  <2> QED
    BY <1>7, <2>1, <2>4, <2>5, <2>6, <2>7
<1>11. Shown(y.m.content, y.m.pd) = Layout(image).memory
  <2> HIDE DEF Said
  <2>1. Layout(image).memory = [a \in UPages |-> Said(a)]
    BY <1>1
  <2> QED
    BY <1>10, <2>1 DEF Shown
<1>12. Layout(image).size = top + 2
  BY <1>1
<1> QED
  BY <1>5, <1>7, <1>11, <1>12

\* exec makes an image of its size, with what the file says in it, or none.
Made(m, x, U, image) ==
  /\ Sound(x.m, U) /\ Keeps(m, x.m, U, {}) /\ x.size \in 0 .. KERNBASE
  /\ x.m.ok => /\ Pages(x.m.pd, x.size) /\ Up(x.size) = Layout(image).size
               /\ Shown(x.m.content, x.m.pd) = Layout(image).memory
  /\ ~x.m.ok => x.m.pd = NoPgdir
\* So it does, for any file and wherever it fails.
LEMMA NewImageSound ==
  ASSUME NEW m, NEW U, Sound(m, U), m.ok, m.pd = NoPgdir, NEW image \in Images,
         NEW x, x = NewImage(m, image)
  PROVE  Made(m, x, U, image)
<1>0. /\ image.argsFit \in BOOLEAN /\ image.segs \in Seq(Segments) /\ image.elf \in BOOLEAN
      /\ 0 \in 0 .. KERNBASE
  <2>1. Images \subseteq [elf : BOOLEAN, argsFit : BOOLEAN, segs : Seq(Segments)]
    BY ONLY InputsAssumption DEF Segments
  <2>2. image \in [elf : BOOLEAN, argsFit : BOOLEAN, segs : Seq(Segments)]
    BY <2>1
  <2>3. 0 \in 0 .. KERNBASE
    BY Sizes
  <2> HIDE DEF Segments
  <2> QED
    BY ONLY <2>2, <2>3
<1>1. CASE ~image.elf
  <2>1. x.m = Failed(m) /\ x.size = 0
    BY <1>1 DEF NewImage
  <2>2. Sound(x.m, U) /\ x.m.pd = NoPgdir /\ x.m.content = m.content /\ x.m.ok = FALSE
    BY <2>1, FailedSound
  <2> QED
    BY <1>0, <2>1, <2>2 DEF Made, Keeps
<1>2. CASE image.elf
  <2>1. PICK s : s = Setupkvm(m)
    OBVIOUS
  <2>2. Sound(s, U) /\ Keeps(m, s, U, {}) /\ NoPages(s.pd) /\ (~s.ok => s.pd = NoPgdir)
    BY <2>1, SetupkvmSound
  <2>3. x = BuildImage(s, image)
    BY <1>2, <2>1 DEF NewImage
  <2>4. CASE ~s.ok
    <3>1. x = [m |-> s, size |-> 0]
      BY <2>3, <2>4 DEF BuildImage
    <3> QED
      BY <1>0, <2>2, <2>4, <3>1 DEF Made
  <2>5. CASE s.ok
    <3>1. PICK e, l, k : /\ e = [m |-> s, size |-> 0] /\ l = LoadSegments(e, image.segs)
                         /\ k = AddStack(l, image.argsFit)
      OBVIOUS
    <3>2. x = Complete(k)
      BY <2>3, <2>5, <3>1 DEF BuildImage
    <3>3. Pages(s.pd, 0)
      <4>1. \A a \in UPages : ~(a < Up(0))
        BY UpFacts, Sizes
      <4> QED
        BY <2>2, <4>1 DEF Pages, NoPages
    <3>4. Building(e, U) /\ e.m = s
      BY <1>0, <2>2, <3>1, <3>3, BuildingOf
    <3>5. Building(l, U) /\ Keeps(s, l.m, U, {}) /\ (l.m.ok => Laid(l, image.segs, Len(image.segs)))
      <4>1. PICK segs \in Seq(Segments) : segs = image.segs
        BY <1>0
      <4>2. l = LoadSegments(e, segs)
        BY <3>1, <4>1
      <4>3. e.size = 0
        BY <3>1
      <4>4. Building(l, U) /\ Keeps(e.m, l.m, U, {}) /\ (l.m.ok => Laid(l, segs, Len(segs)))
        BY ONLY <3>4, <4>2, <4>3, LoadSegmentsSound
      <4> QED
        BY <3>4, <4>1, <4>4
    <3>a. Tops(l, k, U)
      BY <1>0, <3>1, <3>5, AddStackSound
    <3>6. Building(k, U) /\ Keeps(l.m, k.m, U, {})
      BY <3>a DEF Tops
    <3>7. Keeps(m, k.m, U, {})
      <4>1. Keeps(m, l.m, U, {})
        BY <2>2, <3>5, KeepsTrans
      <4> QED
        BY <3>6, <4>1, KeepsTrans
    <3>8. CASE k.m.ok
      <4>1. x = k
        BY <3>2, <3>8 DEF Complete
      <4>2. Up(k.size) = Layout(image).size /\ Shown(k.m.content, k.m.pd) = Layout(image).memory
        <5>1. Laid(l, image.segs, Len(image.segs))
          BY <3>5, <3>8, <3>a DEF Tops
        <5>2. PICK i : i = image
          OBVIOUS
        <5>3. i.segs \in Seq(Segments) /\ Building(l, U) /\ Laid(l, i.segs, Len(i.segs))
          BY <1>0, <3>5, <5>1, <5>2
        <5>4. Up(k.size) = Layout(i).size /\ Shown(k.m.content, k.m.pd) = Layout(i).memory
          BY ONLY <3>8, <3>a, <5>3, LayoutIs
        <5> QED
          BY <5>2, <5>4
      <4> QED
        BY <3>6, <3>7, <3>8, <4>1, <4>2 DEF Building, Made
    <3>9. CASE ~k.m.ok
      <4>1. PICK n : n = Freevm(k.m)
        OBVIOUS
      <4>2. x = [m |-> n, size |-> 0]
        BY <3>2, <3>9, <4>1 DEF Complete
      <4>3. Sound(n, U) /\ Keeps(k.m, n, U, {}) /\ n.ok = k.m.ok /\ n.pd = NoPgdir
        BY <3>6, <4>1, FreevmSound DEF Building
      <4>4. Keeps(m, n, U, {})
        BY <3>7, <4>3, KeepsTrans
      <4> QED
        BY <1>0, <3>9, <4>2, <4>3, <4>4 DEF Made
    <3> QED
      BY <3>8, <3>9
  <2> QED
    BY <2>4, <2>5
<1> QED
  BY <1>0, <1>1, <1>2

-----------------------------------------------------------------------------
(* All processes: each frame is free, or held by one process in one way.       *)

Held(ks, pds, q) == Full(Cell(pds[q])) \cup ({ks[q]} \ {None})
Rest(ks, pds, p) == {f \in Frames : \E q \in Procs \ {p} : f \in Held(ks, pds, q)}
Splits(fr, ks, pds) ==
  /\ fr \in [Frames -> 0 .. 1]
  /\ \A p \in Procs : \A s, t \in Slots :
       Cell(pds[p])[s] \in Frames /\ Cell(pds[p])[s] = Cell(pds[p])[t] => s = t
  /\ \A p \in Procs : ks[p] \notin Full(Cell(pds[p]))
  /\ \A p, q \in Procs : p # q => Held(ks, pds, p) \cap Held(ks, pds, q) = {}
  /\ \A f \in Frames : fr[f] = 1 <=> \A p \in Procs : f \notin Held(ks, pds, p)

\* What is in the slots of a page directory is frames.
LEMMA FullIs ==
  ASSUME NEW pd \in Pgdirs
  PROVE  /\ DOMAIN Cell(pd) = Slots
         /\ \A f : f \in Full(Cell(pd)) <=> f \in Frames /\ \E s \in Slots : Cell(pd)[s] = f
<1>1. Cell(pd) \in [Slots -> Frames \cup {None}] /\ None \notin Frames
  BY CellType, Sizes
<1> QED
  BY <1>1 DEF Full

\* Of the frames in use those of one process's page directory are one table, and the
\* rest and its kernel stack what others use.
LEMMA SplitFor ==
  ASSUME NEW fr, NEW ks \in [Procs -> Frames \cup {None}], NEW pds \in [Procs -> Pgdirs],
         Splits(fr, ks, pds), NEW p \in Procs
  PROVE  /\ OneUse(fr, Cell(pds[p]), Rest(ks, pds, p) \cup ({ks[p]} \ {None}))
         /\ ks[p] \notin Rest(ks, pds, p)
<1> DEFINE c == Cell(pds[p])
           U == Rest(ks, pds, p) \cup ({ks[p]} \ {None})
<1>1. /\ DOMAIN c = Slots
      /\ \A f : f \in Full(c) <=> f \in Frames /\ \E s \in Slots : c[s] = f
  BY FullIs
<1>2. \A f : f \in Held(ks, pds, p) <=> f \in Full(c) \/ (f = ks[p] /\ f # None)
  BY DEF Held
<1>3. ks[p] \in Frames \cup {None} /\ None \notin Frames /\ ks[p] \notin Full(c)
  BY Sizes DEF Splits
<1>4. \A f : f \in Rest(ks, pds, p) <=> f \in Frames /\ \E q \in Procs : q # p /\ f \in Held(ks, pds, q)
  BY DEF Rest
<1>5. \A q \in Procs : q # p => Held(ks, pds, p) \cap Held(ks, pds, q) = {}
  BY DEF Splits
<1>6. \A f \in Rest(ks, pds, p) : f \notin Held(ks, pds, p)
  BY <1>4, <1>5
<1>7. U \subseteq Frames
  BY <1>3, <1>4
<1>8. fr \in [Frames -> 0 .. 1] /\ \A f \in Frames : fr[f] = 1 <=> \A q \in Procs : f \notin Held(ks, pds, q)
  BY DEF Splits
<1>9. \A f \in Frames : fr[f] = 1 => f \notin U /\ \A s \in Slots : c[s] # f
  BY <1>1, <1>2, <1>3, <1>4, <1>8
<1>10. \A f \in U : f \in Frames /\ \A s \in Slots : c[s] # f
  BY <1>1, <1>2, <1>3, <1>6, <1>7
<1>11. \A f \in Frames : fr[f] = 1 \/ f \in U \/ \E s \in Slots : c[s] = f
  <2> SUFFICES ASSUME NEW f \in Frames, fr[f] # 1, f \notin U PROVE \E s \in Slots : c[s] = f
    OBVIOUS
  <2>1. PICK q \in Procs : f \in Held(ks, pds, q)
    BY <1>8
  <2>2. q = p
    BY <1>4, <2>1
  <2> QED
    BY <1>1, <1>2, <1>3, <2>1, <2>2
<1>12. \A s, t \in Slots : c[s] \in Frames /\ c[s] = c[t] => s = t
  BY DEF Splits
<1>13. ks[p] \notin Rest(ks, pds, p)
  BY <1>2, <1>3, <1>4, <1>6
<1> HIDE DEF c, U
<1>14. OneUse(fr, c, U)
  BY <1>1, <1>7, <1>8, <1>9, <1>10, <1>11, <1>12 DEF OneUse
<1> QED
  BY <1>13, <1>14 DEF c, U

\* A page directory and a kernel stack (or none) that are sound beside the rest
\* become a process's own.
LEMMA JoinFor ==
  ASSUME NEW fr, NEW ks \in [Procs -> Frames \cup {None}], NEW pds \in [Procs -> Pgdirs],
         Splits(fr, ks, pds), NEW p \in Procs,
         NEW gr, NEW k \in Frames \cup {None}, NEW pd \in Pgdirs,
         k \notin Rest(ks, pds, p),
         OneUse(gr, Cell(pd), Rest(ks, pds, p) \cup ({k} \ {None})),
         NEW ks2, ks2 = Put(ks, p, k), NEW pds2, pds2 = Put(pds, p, pd)
  PROVE  Splits(gr, ks2, pds2)
<1> DEFINE c == Cell(pd)
           R == Rest(ks, pds, p)
<1>1. /\ DOMAIN c = Slots
      /\ \A f : f \in Full(c) <=> f \in Frames /\ \E s \in Slots : c[s] = f
  BY FullIs
<1>2. None \notin Frames
  BY Sizes
<1>3. /\ ks2[p] = k /\ pds2[p] = pd
      /\ \A q \in Procs : q # p => ks2[q] = ks[q] /\ pds2[q] = pds[q]
  BY DEF Put
<1>4. \A f : f \in R <=> f \in Frames /\ \E q \in Procs : q # p /\ f \in Held(ks, pds, q)
  BY DEF Rest
<1>5. \A q \in Procs : q # p => Held(ks2, pds2, q) = Held(ks, pds, q)
  BY <1>3 DEF Held
<1>6. \A f : f \in Held(ks2, pds2, p) <=> f \in Full(c) \/ (f = k /\ f # None)
  BY <1>3 DEF Held
<1>7. ASSUME NEW q \in Procs PROVE Held(ks, pds, q) \subseteq Frames
  <2>1. pds[q] \in Pgdirs /\ ks[q] \in Frames \cup {None}
    OBVIOUS
  <2> QED
    BY <2>1, FullIs DEF Held
<1> HIDE DEF c, R
<1>8. OneUse(gr, c, R \cup ({k} \ {None}))
  BY DEF c, R
<1>9. /\ gr \in [Frames -> 0 .. 1]
      /\ \A f \in Frames : gr[f] = 1 => f \notin R /\ (f = k => f = None) /\ \A s \in Slots : c[s] # f
      /\ \A f \in R : \A s \in Slots : c[s] # f
      /\ k # None => \A s \in Slots : c[s] # k
      /\ \A s, t \in Slots : c[s] \in Frames /\ c[s] = c[t] => s = t
      /\ \A f \in Frames : gr[f] = 1 \/ f \in R \/ (f = k /\ k # None) \/ \E s \in Slots : c[s] = f
  BY <1>1, <1>8 DEF OneUse
<1>10. \A q \in Procs : \A s, t \in Slots :
         Cell(pds2[q])[s] \in Frames /\ Cell(pds2[q])[s] = Cell(pds2[q])[t] => s = t
  <2> SUFFICES ASSUME NEW q \in Procs
               PROVE  \A s, t \in Slots :
                        Cell(pds2[q])[s] \in Frames /\ Cell(pds2[q])[s] = Cell(pds2[q])[t] => s = t
    OBVIOUS
  <2>1. CASE q = p
    BY <1>3, <1>9, <2>1 DEF c
  <2>2. CASE q # p
    BY <1>3, <2>2 DEF Splits
  <2> QED
    BY <2>1, <2>2
<1>11. \A q \in Procs : ks2[q] \notin Full(Cell(pds2[q]))
  <2>1. k \notin Full(c)
    BY <1>1, <1>2, <1>9
  <2> QED
    BY <1>3, <2>1 DEF Splits, c
<1>12. \A f \in R : f \notin Held(ks2, pds2, p)
  <2> SUFFICES ASSUME NEW f \in R PROVE f \notin Held(ks2, pds2, p)
    OBVIOUS
  <2>1. f # k
    BY DEF R
  <2>2. f \notin Full(c)
    BY <1>1, <1>9
  <2> QED
    BY <1>6, <2>1, <2>2
<1>13. \A q \in Procs : q # p => Held(ks2, pds2, p) \cap Held(ks2, pds2, q) = {}
  <2> SUFFICES ASSUME NEW q \in Procs, q # p, NEW f \in Held(ks2, pds2, q) PROVE f \notin Held(ks2, pds2, p)
    OBVIOUS
  <2>1. f \in R
    BY <1>4, <1>5, <1>7
  <2> QED
    BY <1>12, <2>1
<1>14. \A q, r \in Procs : q # r => Held(ks2, pds2, q) \cap Held(ks2, pds2, r) = {}
  <2>1. \A q, r \in Procs : q # r => Held(ks, pds, q) \cap Held(ks, pds, r) = {}
    BY DEF Splits
  <2> QED
    BY <1>5, <1>13, <2>1
<1>15. \A f \in Frames : gr[f] = 1 <=> \A q \in Procs : f \notin Held(ks2, pds2, q)
  <2> SUFFICES ASSUME NEW f \in Frames
               PROVE  gr[f] = 1 <=> \A q \in Procs : f \notin Held(ks2, pds2, q)
    OBVIOUS
  <2>1. ASSUME gr[f] = 1, NEW q \in Procs PROVE f \notin Held(ks2, pds2, q)
    <3>1. f \notin R /\ (f = k => f = None) /\ f \notin Full(c)
      BY <1>1, <1>9, <2>1
    <3>2. CASE q = p
      BY <1>6, <3>1, <3>2
    <3>3. CASE q # p
      BY <1>4, <1>5, <3>1, <3>3
    <3> QED
      BY <3>2, <3>3
  <2>2. ASSUME \A q \in Procs : f \notin Held(ks2, pds2, q) PROVE gr[f] = 1
    <3>1. f \notin R
      BY <1>4, <1>5, <2>2
    <3>2. f \notin Full(c) /\ ~(f = k /\ k # None)
      BY <1>6, <2>2
    <3> QED
      BY <1>1, <1>9, <3>1, <3>2
  <2> QED
    BY <2>1, <2>2
<1>16. gr \in [Frames -> 0 .. 1]
  BY <1>9
<1> QED
  BY <1>10, <1>11, <1>14, <1>15, <1>16 DEF Splits

-----------------------------------------------------------------------------
(* The invariant: every frame is free or in one place, a free slot of the     *)
(* process table has no memory, and a process has the pages below its size or *)
(* none. It is what each call needs of memory and leaves of it.               *)

VmTypes ==
  /\ content \in [Frames -> Words]
  /\ state \in [Procs -> {"UNUSED", "RUNNABLE", "ZOMBIE"}]
  /\ parent \in [Procs -> Procs \cup {None}]
  /\ kstack \in [Procs -> Frames \cup {None}]
  /\ pgdir \in [Procs -> Pgdirs]
  /\ sz \in [Procs -> 0 .. KERNBASE]
FramesSplit == Splits(free, kstack, pgdir)
UnusedEmpty == \A p \in Procs :
  /\ state[p] = "UNUSED" => kstack[p] = None /\ pgdir[p] = NoPgdir
  /\ state[p] # "UNUSED" => kstack[p] # None
PagesMapped == \A p \in Procs : UserMapped(pgdir[p])
SizesFit == \A p \in Procs : Pages(pgdir[p], sz[p]) \/ NoPages(pgdir[p])
SpaceInv == VmTypes /\ FramesSplit /\ UnusedEmpty /\ PagesMapped /\ SizesFit

\* Only who has been left without pages runs with old translations.
StaleFits ==
  /\ stale \in [Procs -> BOOLEAN] /\ lost \in BOOLEAN
  /\ \A p \in Procs : stale[p] => state[p] = "RUNNABLE" /\ NoPages(pgdir[p])
VmInv == SpaceInv /\ StaleFits

\* What all but the page directory of process p use
Others(p) == Rest(kstack, pgdir, p) \cup ({kstack[p]} \ {None})

\* A process's memory is sound beside what others use.
LEMMA SpaceSound ==
  ASSUME SpaceInv, NEW p \in Procs
  PROVE  /\ Sound(Memory(pgdir[p]), Others(p))
         /\ Memory(pgdir[p]).pd = pgdir[p] /\ Memory(pgdir[p]).ok
         /\ Memory(pgdir[p]).free = free /\ Memory(pgdir[p]).content = content
         /\ kstack[p] \in Frames \cup {None} /\ kstack[p] \notin Rest(kstack, pgdir, p)
         /\ pgdir[p] \in Pgdirs /\ sz[p] \in 0 .. KERNBASE
<1> DEFINE m == Memory(pgdir[p])
<1>1. /\ pgdir \in [Procs -> Pgdirs] /\ kstack \in [Procs -> Frames \cup {None}]
      /\ content \in [Frames -> Words] /\ sz \in [Procs -> 0 .. KERNBASE]
      /\ Splits(free, kstack, pgdir) /\ UserMapped(pgdir[p])
  BY DEF SpaceInv, VmTypes, FramesSplit, PagesMapped
<1>2. free \in [Frames -> 0 .. 1]
  BY <1>1 DEF Splits
<1>3. /\ m = [free |-> free, content |-> content, pd |-> pgdir[p], ok |-> TRUE]
      /\ m.pd = pgdir[p] /\ m.ok /\ m.free = free /\ m.content = content
  BY DEF Memory
<1>4. pgdir[p] \in Pgdirs /\ kstack[p] \in Frames \cup {None} /\ sz[p] \in 0 .. KERNBASE
  BY <1>1
<1>5. m \in Memories
  BY ONLY <1>1, <1>2, <1>3, <1>4 DEF Memories
<1>6. OneUse(free, Cell(pgdir[p]), Others(p)) /\ kstack[p] \notin Rest(kstack, pgdir, p)
  BY <1>1, SplitFor DEF Others
<1> QED
  BY <1>1, <1>3, <1>4, <1>5, <1>6 DEF Sound

\* Who runs has pages, those below its size.
LEMMA RunnerHasPages ==
  ASSUME SpaceInv, NEW p \in Procs, Runs(p)
  PROVE  Pages(pgdir[p], sz[p])
<1>1. PICK a \in UPages : pgdir[p].user[a]
  BY DEF Runs
<1>2. pgdir[p].pte[a] # None
  BY <1>1 DEF SpaceInv, PagesMapped, UserMapped
<1> QED
  BY <1>1, <1>2 DEF SpaceInv, SizesFit, NoPages

\* What a call has made of the memory of process p becomes the state.
LEMMA BecomesSound ==
  ASSUME SpaceInv, NEW p \in Procs, NEW k \in Frames \cup {None}, k \notin Rest(kstack, pgdir, p),
         NEW m, NEW U, U = Rest(kstack, pgdir, p) \cup ({k} \ {None}), Sound(m, U), Becomes(m),
         kstack' = [kstack EXCEPT ![p] = k], pgdir' = [pgdir EXCEPT ![p] = m.pd]
  PROVE  /\ FramesSplit' /\ PagesMapped'
         /\ content' \in [Frames -> Words]
         /\ kstack' \in [Procs -> Frames \cup {None}]
         /\ pgdir' \in [Procs -> Pgdirs]
         /\ pgdir'[p] = m.pd /\ kstack'[p] = k
         /\ \A q \in Procs : q # p => pgdir'[q] = pgdir[q] /\ kstack'[q] = kstack[q]
<1>1. /\ pgdir \in [Procs -> Pgdirs] /\ kstack \in [Procs -> Frames \cup {None}]
      /\ Splits(free, kstack, pgdir)
  BY DEF SpaceInv, VmTypes, FramesSplit
<1>2. m.pd \in Pgdirs /\ m.content \in [Frames -> Words] /\ OneUse(m.free, Cell(m.pd), U) /\ UserMapped(m.pd)
  BY MemoryType DEF Sound
<1>3. free' = m.free /\ content' = m.content
  BY DEF Becomes
<1>4. PICK pd \in Pgdirs : pd = m.pd
  BY <1>2
<1>5. Splits(free', kstack', pgdir')
  <2>1. kstack' = Put(kstack, p, k) /\ pgdir' = Put(pgdir, p, pd)
    BY <1>4 DEF Put
  <2>2. OneUse(free', Cell(pd), Rest(kstack, pgdir, p) \cup ({k} \ {None}))
    BY <1>2, <1>3, <1>4
  <2>3. PICK fr, ks, pds, gr, ks2, pds2 :
          fr = free /\ ks = kstack /\ pds = pgdir /\ gr = free' /\ ks2 = kstack' /\ pds2 = pgdir'
    OBVIOUS
  <2>4. /\ ks \in [Procs -> Frames \cup {None}] /\ pds \in [Procs -> Pgdirs] /\ Splits(fr, ks, pds)
        /\ p \in Procs /\ k \in Frames \cup {None} /\ pd \in Pgdirs /\ k \notin Rest(ks, pds, p)
        /\ OneUse(gr, Cell(pd), Rest(ks, pds, p) \cup ({k} \ {None}))
        /\ ks2 = Put(ks, p, k) /\ pds2 = Put(pds, p, pd)
    BY <1>1, <2>1, <2>2, <2>3
  <2>5. Splits(gr, ks2, pds2)
    BY ONLY <2>4, JoinFor
  <2> QED
    BY <2>3, <2>5
<1>6. /\ kstack' \in [Procs -> Frames \cup {None}] /\ pgdir' \in [Procs -> Pgdirs]
      /\ pgdir'[p] = m.pd /\ kstack'[p] = k
      /\ \A q \in Procs : q # p => pgdir'[q] = pgdir[q] /\ kstack'[q] = kstack[q]
  BY <1>1, <1>2
<1>7. PagesMapped'
  BY <1>2, <1>6 DEF SpaceInv, PagesMapped
<1> QED
  BY <1>2, <1>3, <1>5, <1>6, <1>7 DEF FramesSplit

\* userinit makes a page directory with the one page of the first process.
LEMMA UserinitSound ==
  ASSUME NEW m, m = AddPage(Setupkvm(Kalloc(Freerange, "stack")), 0, "initcode", TRUE), m.ok,
         NEW f, f = Top(Freerange.free)
  PROVE  /\ f \in Frames /\ Sound(m, {f}) /\ Pages(m.pd, PGSIZE) /\ At(m, 0) = "initcode"
         /\ PGSIZE <= KERNBASE /\ Up(PGSIZE) = 1 /\ 0 \in UPages
<1>1. PICK r, k, s : r = Freerange /\ k = Kalloc(r, "stack") /\ s = Setupkvm(k) /\ m = AddPage(s, 0, "initcode", TRUE)
  OBVIOUS
<1> DEFINE all == [g \in Frames |-> 1]
<1>2. NoPgdir \in Pgdirs /\ 1 \in Frames /\ None \notin Frames
  BY CellNoPgdir, Sizes DEF Frames
<1>3. r \in Memories /\ r.free = all /\ r.pd = NoPgdir /\ r.ok
  <2>1. all \in [Frames -> 0 .. 1]
    OBVIOUS
  <2>2. [g \in Frames |-> "junk"] \in [Frames -> Words]
    BY WordsKnown
  <2>3. r = [free |-> all, content |-> [g \in Frames |-> "junk"], pd |-> NoPgdir, ok |-> TRUE]
    BY <1>1 DEF Freerange
  <2> HIDE DEF all
  <2>4. r \in Memories
    BY <1>2, <2>1, <2>2, <2>3, MemoryOf
  <2> QED
    BY <2>3, <2>4
<1>4. Sound(r, {})
  <2>1. OneUse(all, Cell(NoPgdir), {})
    BY <1>2, CellNoPgdir DEF OneUse
  <2>2. UserMapped(NoPgdir)
    BY CellNoPgdir DEF UserMapped
  <2> QED
    BY <1>3, <2>1, <2>2 DEF Sound
<1>5. ~NoneFree(r.free)
  BY <1>2, <1>3 DEF NoneFree
<1>6. f \in Frames /\ Sound(k, {f}) /\ k.pd = NoPgdir /\ k.ok
  <2>1. f \in Frames /\ Sound(k, {} \cup {f}) /\ k.pd = r.pd /\ k.ok = r.ok
    BY <1>1, <1>4, <1>5, WordsKnown, KallocSound
  <2> QED
    BY <1>3, <2>1
<1>7. Sound(s, {f}) /\ NoPages(s.pd)
  BY <1>1, <1>6, SetupkvmSound
<1>8. 0 \in UPages
  BY UpFacts, Sizes
<1>9. PGSIZE <= KERNBASE /\ Up(PGSIZE) = 1
  <2>1. Up(1 * PGSIZE) = 1
    BY UpFacts
  <2>2. KERNBASE < PGSIZE => KERNBASE % PGSIZE = KERNBASE
    BY Sizes, Remainder
  <2> QED
    BY <2>1, <2>2, Sizes
<1>10. s.ok
  BY <1>1 DEF AddPage
<1>11. PICK what, user, U, a : what = "initcode" /\ user = TRUE /\ U = {f} /\ a = 0
  OBVIOUS
<1>12. AddsPage(s, m, U, a, what, user)
  <2>1. s.pd.pte[0] = None
    BY <1>7, <1>8 DEF NoPages
  <2>2. /\ Sound(s, U) /\ a \in UPages /\ s.pd.pte[a] = None /\ what \in Words /\ user \in BOOLEAN
        /\ m = AddPage(s, a, what, user)
    BY <1>1, <1>7, <1>8, <1>11, <2>1, WordsKnown
  <2> QED
    BY ONLY <1>10, <2>2, AddPageSound
<1>13. /\ Sound(m, {f}) /\ m.pd.pte[0] # None /\ At(m, 0) = "initcode"
       /\ \A b \in UPages : b # 0 => m.pd.pte[b] = None
  <2>1. Keeps(s, m, {f}, UPages \ {0})
    BY <1>11, <1>12 DEF AddsPage
  <2> QED
    BY <1>7, <1>11, <1>12, <2>1 DEF AddsPage, At, Keeps, NoPages
<1>14. Pages(m.pd, PGSIZE)
  <2> SUFFICES ASSUME NEW b \in UPages PROVE m.pd.pte[b] # None <=> b < 1
    BY <1>9 DEF Pages
  <2>1. b < 1 <=> b = 0
    <3>1. b \in Nat
      BY Sizes
    <3> QED
      BY ONLY <3>1
  <2>2. m.pd.pte[b] # None <=> b = 0
    BY <1>13
  <2> QED
    BY ONLY <2>1, <2>2
<1> QED
  BY <1>6, <1>8, <1>9, <1>13, <1>14

\* userinit: the first process has all there is in use.
LEMMA SpaceInit == Init => SpaceInv
<1> SUFFICES ASSUME Init PROVE SpaceInv
  OBVIOUS
<1>1. PICK m : /\ m = AddPage(Setupkvm(Kalloc(Freerange, "stack")), 0, "initcode", TRUE)
               /\ m.ok
               /\ free = m.free /\ content = m.content
               /\ state = [p \in Procs |-> IF p = 1 THEN "RUNNABLE" ELSE "UNUSED"]
               /\ parent = [p \in Procs |-> None]
               /\ kstack = [p \in Procs |-> IF p = 1 THEN Top(Freerange.free) ELSE None]
               /\ pgdir = [p \in Procs |-> IF p = 1 THEN m.pd ELSE NoPgdir]
               /\ sz = [p \in Procs |-> IF p = 1 THEN PGSIZE ELSE 0]
  BY DEF Init
<1>2. PICK f : f = Top(Freerange.free)
  OBVIOUS
<1> DEFINE all == [g \in Frames |-> 1]
           ks == [p \in Procs |-> None]
           pds == [p \in Procs |-> NoPgdir]
<1>3. NoPgdir \in Pgdirs /\ 1 \in Procs /\ None \notin Frames
  BY CellNoPgdir, Sizes DEF Procs
<1>4. Cell(NoPgdir) = [t \in Slots |-> None]
  BY CellNoPgdir
<1>5. f \in Frames /\ Sound(m, {f}) /\ Pages(m.pd, PGSIZE) /\ PGSIZE <= KERNBASE
  BY <1>1, <1>2, UserinitSound
<1>6. m.pd \in Pgdirs /\ m.content \in [Frames -> Words] /\ UserMapped(m.pd) /\ OneUse(m.free, Cell(m.pd), {f})
  BY <1>5, MemoryType DEF Sound
<1>7. Splits(free, kstack, pgdir)
  <2>1. ks \in [Procs -> Frames \cup {None}] /\ pds \in [Procs -> Pgdirs]
    BY <1>3
  <2>2. \A p \in Procs : Held(ks, pds, p) = {}
    BY <1>4 DEF Held, Full
  <2>3. Splits(all, ks, pds)
    <3>1. \A p \in Procs : Full(Cell(pds[p])) = {}
      BY <1>4 DEF Full
    <3>2. \A p \in Procs : \A t \in Slots : Cell(pds[p])[t] = None
      BY <1>4
    <3> QED
      BY <1>3, <2>2, <3>1, <3>2 DEF Splits
  <2>4. Rest(ks, pds, 1) = {}
    BY <2>2 DEF Rest
  <2>5. kstack = Put(ks, 1, f) /\ pgdir = Put(pds, 1, m.pd)
    BY <1>1, <1>2 DEF Put
  <2> HIDE DEF all, ks, pds
  <2>6. f \in Frames \cup {None} /\ f \notin Rest(ks, pds, 1) /\ Rest(ks, pds, 1) \cup ({f} \ {None}) = {f}
    BY <1>3, <1>5, <2>4
  <2>7. OneUse(free, Cell(m.pd), Rest(ks, pds, 1) \cup ({f} \ {None}))
    BY <1>1, <1>6, <2>6
  <2> QED
    BY <1>3, <1>6, <2>1, <2>3, <2>5, <2>6, <2>7, JoinFor
<1>8. VmTypes
  <2>1. content \in [Frames -> Words]
    BY <1>1, <1>6
  <2>2. kstack \in [Procs -> Frames \cup {None}] /\ pgdir \in [Procs -> Pgdirs]
    BY <1>1, <1>2, <1>3, <1>5, <1>6
  <2>3. sz \in [Procs -> 0 .. KERNBASE]
    BY <1>1, <1>5, Sizes
  <2>4. state \in [Procs -> {"UNUSED", "RUNNABLE", "ZOMBIE"}] /\ parent \in [Procs -> Procs \cup {None}]
    BY <1>1
  <2> QED
    BY <2>1, <2>2, <2>3, <2>4 DEF VmTypes
<1>9. UnusedEmpty
  BY <1>1, <1>2, <1>3, <1>5 DEF UnusedEmpty
<1>10. PagesMapped
  <2>1. UserMapped(NoPgdir)
    BY CellNoPgdir DEF UserMapped
  <2> QED
    BY <1>1, <1>6, <2>1 DEF PagesMapped
<1>11. SizesFit
  <2>1. NoPages(NoPgdir)
    BY CellNoPgdir DEF NoPages
  <2> QED
    BY <1>1, <1>5, <2>1 DEF SizesFit
<1> QED
  BY <1>7, <1>8, <1>9, <1>10, <1>11 DEF SpaceInv, FramesSplit

\* A store changes what is in a page, and nothing else.
LEMMA StoreInv ==
  ASSUME SpaceInv, NEW p \in Procs, NEW a, Store(p, a)
  PROVE  SpaceInv'
<1>1. /\ content' = [content EXCEPT ![pgdir[p].pte[a]] = "stored"]
      /\ UNCHANGED <<free, state, parent, kstack, pgdir, sz>>
  BY DEF Store
<1>2. content' \in [Frames -> Words]
  BY <1>1, WordsKnown DEF SpaceInv, VmTypes
<1> QED
  BY <1>1, <1>2 DEF SpaceInv, VmTypes, FramesSplit, UnusedEmpty, PagesMapped, SizesFit

\* exit leaves all memory for wait.
LEMMA ExitInv ==
  ASSUME SpaceInv, NEW p \in Procs, Exit(p)
  PROVE  SpaceInv'
<1>1. /\ state' = [state EXCEPT ![p] = "ZOMBIE"] /\ state[p] = "RUNNABLE"
      /\ parent' = [q \in Procs |-> IF parent[q] = p THEN 1 ELSE parent[q]]
      /\ UNCHANGED <<free, content, kstack, pgdir, sz>>
  BY DEF Exit
<1>2. state' \in [Procs -> {"UNUSED", "RUNNABLE", "ZOMBIE"}] /\ parent' \in [Procs -> Procs \cup {None}]
  <2>1. 1 \in Procs
    BY Sizes DEF Procs
  <2> QED
    BY <1>1, <2>1 DEF SpaceInv, VmTypes
<1>3. \A q \in Procs : state'[q] = "UNUSED" <=> state[q] = "UNUSED"
  BY <1>1 DEF SpaceInv, VmTypes
<1> QED
  BY <1>1, <1>2, <1>3 DEF SpaceInv, VmTypes, FramesSplit, UnusedEmpty, PagesMapped, SizesFit

\* fork: the child has a kernel stack and a space of the parent's size, or all is as it was.
LEMMA ForkInv ==
  ASSUME SpaceInv, NEW p \in Procs, Fork(p)
  PROVE  SpaceInv'
<1>1. PICK c \in Procs :
        /\ state[c] = "UNUSED" /\ ~NoneFree(free)
        /\ \E m \in {Copyuvm(Kalloc(Memory(NoPgdir), "stack"), pgdir[p], sz[p])} :
             IF m.ok
             THEN /\ Becomes(m)
                  /\ pgdir' = [pgdir EXCEPT ![c] = m.pd]
                  /\ kstack' = [kstack EXCEPT ![c] = Top(free)]
                  /\ state' = [state EXCEPT ![c] = "RUNNABLE"]
                  /\ parent' = [parent EXCEPT ![c] = p]
                  /\ sz' = [sz EXCEPT ![c] = sz[p]]
             ELSE /\ Becomes(Kfree(m, Top(free)))
                  /\ UNCHANGED <<state, parent, kstack, pgdir, sz>>
  BY DEF Fork
<1>2. pgdir[c] = NoPgdir /\ kstack[c] = None
  BY <1>1 DEF SpaceInv, UnusedEmpty
<1>3. Pages(pgdir[p], sz[p]) /\ pgdir[p] \in Pgdirs /\ sz[p] \in 0 .. KERNBASE
  BY RunnerHasPages, SpaceSound DEF Fork
<1>4. PICK b, k, f, m, R : /\ b = Memory(NoPgdir) /\ k = Kalloc(b, "stack") /\ f = Top(free)
                           /\ m = Copyuvm(k, pgdir[p], sz[p]) /\ R = Rest(kstack, pgdir, c)
  OBVIOUS
<1>5. Sound(b, R) /\ b.pd = NoPgdir /\ b.ok /\ b.free = free /\ b.content = content
  <2>1. Others(c) = R
    BY <1>2, <1>4 DEF Others
  <2> QED
    BY <1>2, <1>4, <2>1, SpaceSound
<1>6. f \in Frames /\ f \notin R /\ Sound(k, R \cup {f}) /\ k.pd = NoPgdir /\ k.ok
  BY SMTT(30), <1>1, <1>4, <1>5, WordsKnown, KallocSound
<1>7. \A a \in UPages : pgdir[p].pte[a] # None => pgdir[p].pte[a] \in R \cup {f}
  <2> SUFFICES ASSUME NEW a \in UPages, pgdir[p].pte[a] # None PROVE pgdir[p].pte[a] \in R
    OBVIOUS
  <2>1. pgdir[p].pte[a] \in Frames
    BY <1>3 DEF Pgdirs
  <2>2. <<"page", a>> \in Slots /\ Cell(pgdir[p])[<<"page", a>>] = pgdir[p].pte[a]
    BY <1>3, CellType DEF Slots
  <2>3. pgdir[p].pte[a] \in Full(Cell(pgdir[p]))
    BY <1>3, <2>1, <2>2, FullIs
  <2>4. c # p
    BY <1>1 DEF Fork, Runs
  <2> QED
    BY <1>4, <2>1, <2>3, <2>4 DEF Rest, Held
<1>8. Sound(m, R \cup {f}) /\ (~m.ok => m.pd = NoPgdir) /\ (m.ok => Pages(m.pd, sz[p]))
  <2>1. PICK U, old, size : U = R \cup {f} /\ old = pgdir[p] /\ size = sz[p]
    OBVIOUS
  <2>2. /\ Sound(k, U) /\ k.ok /\ k.pd = NoPgdir /\ old \in Pgdirs /\ size \in 0 .. KERNBASE
        /\ Pages(old, size) /\ m = Copyuvm(k, old, size)
        /\ \A a \in UPages : old.pte[a] # None => old.pte[a] \in U
    BY <1>3, <1>4, <1>6, <1>7, <2>1
  <2>3. Sound(m, U) /\ (~m.ok => m.pd = NoPgdir) /\ (m.ok => Pages(m.pd, size))
    BY ONLY <2>2, CopyuvmSound
  <2> QED
    BY <2>1, <2>3
<1>9. VmTypes
  BY DEF SpaceInv
<1>10. CASE m.ok
  <2>1. /\ Becomes(m) /\ pgdir' = [pgdir EXCEPT ![c] = m.pd] /\ kstack' = [kstack EXCEPT ![c] = f]
        /\ state' = [state EXCEPT ![c] = "RUNNABLE"] /\ parent' = [parent EXCEPT ![c] = p]
        /\ sz' = [sz EXCEPT ![c] = sz[p]]
    BY <1>1, <1>4, <1>10
  <2>2. f # None /\ f \in Frames \cup {None}
    BY <1>6, Sizes
  <2>3. R \cup {f} = Rest(kstack, pgdir, c) \cup ({f} \ {None}) /\ f \notin Rest(kstack, pgdir, c)
    BY <1>4, <1>6, <2>2
  <2>4. /\ FramesSplit' /\ PagesMapped'
        /\ content' \in [Frames -> Words]
        /\ kstack' \in [Procs -> Frames \cup {None}]
        /\ pgdir' \in [Procs -> Pgdirs]
        /\ pgdir'[c] = m.pd /\ kstack'[c] = f
        /\ \A q \in Procs : q # c => pgdir'[q] = pgdir[q] /\ kstack'[q] = kstack[q]
    BY <1>8, <2>1, <2>2, <2>3, BecomesSound
  <2>5. VmTypes'
    BY <1>9, <2>1, <2>4 DEF VmTypes
  <2>6. UnusedEmpty'
    BY <1>9, <2>1, <2>2, <2>4 DEF SpaceInv, UnusedEmpty, VmTypes
  <2>7. SizesFit'
    BY <1>8, <1>9, <1>10, <2>1, <2>4 DEF SpaceInv, SizesFit, VmTypes
  <2> QED
    BY <2>4, <2>5, <2>6, <2>7 DEF SpaceInv
<1>11. CASE ~m.ok
  <2>1. PICK n : n = Kfree(m, f)
    OBVIOUS
  <2>2. Becomes(n) /\ UNCHANGED <<state, parent, kstack, pgdir, sz>>
    BY <1>1, <1>4, <1>11, <2>1
  <2>3. Sound(n, R) /\ n.pd = NoPgdir
    BY <1>6, <1>8, <1>11, <2>1, KfreeSound
  <2>4. /\ None \in Frames \cup {None} /\ R = Rest(kstack, pgdir, c) \cup ({None} \ {None})
        /\ None \notin Rest(kstack, pgdir, c)
    BY <1>4, Sizes DEF Rest
  <2>5. kstack' = [kstack EXCEPT ![c] = None] /\ pgdir' = [pgdir EXCEPT ![c] = n.pd]
    BY <1>2, <1>9, <2>2, <2>3 DEF VmTypes
  <2>6. FramesSplit' /\ PagesMapped' /\ content' \in [Frames -> Words]
    BY <2>2, <2>3, <2>4, <2>5, BecomesSound
  <2> QED
    BY <1>9, <2>2, <2>6 DEF SpaceInv, VmTypes, UnusedEmpty, SizesFit
<1> QED
  BY <1>10, <1>11

\* sbrk upwards: the space is of the new size, or of the one it had.
LEMMA SbrkGrowsInv ==
  ASSUME SpaceInv, NEW p \in Procs, NEW n \in Sbrks, SbrkGrows(p, n)
  PROVE  SpaceInv'
<1>1. PICK g, newsz : g = Allocuvm(Memory(pgdir[p]), sz[p], newsz) /\ newsz = Uint(sz[p] + n)
  OBVIOUS
<1>2. /\ Becomes(g.m) /\ pgdir' = [pgdir EXCEPT ![p] = g.m.pd]
      /\ sz' = IF g.size = 0 THEN sz ELSE [sz EXCEPT ![p] = g.size]
      /\ UNCHANGED <<state, parent, kstack>>
  BY <1>1 DEF SbrkGrows
<1>3. Pages(pgdir[p], sz[p])
  BY RunnerHasPages DEF SbrkGrows
<1>4. VmTypes /\ sz[p] \in 0 .. KERNBASE
  BY SpaceSound DEF SpaceInv
<1>5. newsz \in Nat
  <2>1. PICK s \in Int, u \in Nat : s = sz[p] + n /\ u = UintRange /\ u > 0
    BY <1>4, InputsAssumption, Sizes
  <2>2. s % u \in Nat
    BY <2>1
  <2> QED
    BY <1>1, <2>1, <2>2 DEF Uint
<1>6. Allocates(Memory(pgdir[p]), g, Others(p), sz[p], newsz)
  <2>1. PICK m, U, oldsz : m = Memory(pgdir[p]) /\ U = Others(p) /\ oldsz = sz[p]
    OBVIOUS
  <2>2. /\ Sound(m, U) /\ m.ok /\ oldsz \in 0 .. KERNBASE /\ Pages(m.pd, oldsz) /\ newsz \in Nat
        /\ g = Allocuvm(m, oldsz, newsz)
    BY <1>1, <1>3, <1>4, <1>5, <2>1, SpaceSound
  <2>3. Allocates(m, g, U, oldsz, newsz)
    BY ONLY <2>2, AllocuvmSound
  <2> QED
    BY <2>1, <2>3
<1>7. /\ Sound(g.m, Others(p)) /\ g.size \in 0 .. KERNBASE
      /\ g.size = 0 => Pages(g.m.pd, sz[p])
      /\ g.size # 0 => Pages(g.m.pd, g.size)
  BY <1>6 DEF Allocates
<1>8. kstack' = [kstack EXCEPT ![p] = kstack[p]]
  BY <1>2, <1>4 DEF VmTypes
<1>9. /\ FramesSplit' /\ PagesMapped' /\ content' \in [Frames -> Words]
      /\ pgdir' \in [Procs -> Pgdirs] /\ pgdir'[p] = g.m.pd
      /\ \A q \in Procs : q # p => pgdir'[q] = pgdir[q]
  <2>1. /\ kstack[p] \in Frames \cup {None} /\ kstack[p] \notin Rest(kstack, pgdir, p)
        /\ Others(p) = Rest(kstack, pgdir, p) \cup ({kstack[p]} \ {None})
    BY SpaceSound DEF Others
  <2>2. PICK m, U, k : m = g.m /\ U = Others(p) /\ k = kstack[p]
    OBVIOUS
  <2> QED
    BY <1>2, <1>7, <1>8, <2>1, <2>2, BecomesSound
<1>10. VmTypes'
  BY <1>2, <1>4, <1>7, <1>9 DEF VmTypes
<1>11. UnusedEmpty'
  <2>1. state[p] # "UNUSED"
    BY DEF SbrkGrows, Runs
  <2> QED
    BY <1>2, <1>9, <2>1 DEF SpaceInv, UnusedEmpty
<1>12. SizesFit'
  BY <1>2, <1>4, <1>7, <1>9 DEF SpaceInv, SizesFit, VmTypes
<1> QED
  BY <1>9, <1>10, <1>11, <1>12 DEF SpaceInv

\* sbrk downwards: the space is of the new size; at a new size of 0 it has no pages.
LEMMA SbrkShrinksInv ==
  ASSUME SpaceInv, NEW p \in Procs, NEW n \in Sbrks, SbrkShrinks(p, n)
  PROVE  /\ SpaceInv'
         /\ Uint(sz[p] + n) = 0 => NoPages(pgdir'[p])
<1>1. PICK newsz, m : /\ newsz = Uint(sz[p] + n)
                      /\ m = IF newsz >= sz[p] THEN Memory(pgdir[p]) ELSE Deallocuvm(Memory(pgdir[p]), sz[p], newsz)
  OBVIOUS
<1>2. /\ Becomes(m) /\ pgdir' = [pgdir EXCEPT ![p] = m.pd]
      /\ sz' = IF newsz = 0 \/ newsz >= sz[p] THEN sz ELSE [sz EXCEPT ![p] = newsz]
      /\ UNCHANGED <<state, parent, kstack>>
  BY <1>1 DEF SbrkShrinks
<1>3. Pages(pgdir[p], sz[p])
  BY RunnerHasPages DEF SbrkShrinks
<1>4. VmTypes /\ sz[p] \in 0 .. KERNBASE /\ KERNBASE \in Nat
  BY SpaceSound, Sizes DEF SpaceInv
<1>5. newsz \in Nat
  <2>1. PICK s \in Int, u \in Nat : s = sz[p] + n /\ u = UintRange /\ u > 0
    BY <1>4, InputsAssumption, Sizes
  <2>2. s % u \in Nat
    BY <2>1
  <2> QED
    BY <1>1, <2>1, <2>2 DEF Uint
<1>6. /\ Sound(m, Others(p))
      /\ newsz >= sz[p] => Pages(m.pd, sz[p])
      /\ newsz < sz[p] => Pages(m.pd, newsz)
  <2>1. CASE newsz >= sz[p]
    BY <1>1, <1>3, <1>4, <1>5, <2>1, SpaceSound
  <2>2. CASE newsz < sz[p]
    <3>1. PICK b, U, oldsz : b = Memory(pgdir[p]) /\ U = Others(p) /\ oldsz = sz[p]
      OBVIOUS
    <3>2. /\ Sound(b, U) /\ oldsz \in 0 .. KERNBASE /\ newsz \in 0 .. KERNBASE
          /\ m = Deallocuvm(b, oldsz, newsz) /\ Pages(b.pd, oldsz)
      BY <1>1, <1>3, <1>4, <1>5, <2>2, <3>1, SpaceSound
    <3>3. /\ Sound(m, U)
          /\ Keeps(b, m, U, {a \in UPages : a < Up(newsz) \/ a >= Up(oldsz)})
          /\ \A a \in UPages : Up(newsz) <= a /\ a < Up(oldsz) => m.pd.pte[a] = None
      BY <3>2, DeallocuvmSound
    <3>4. Pages(m.pd, newsz)
      <4> SUFFICES ASSUME NEW a \in UPages PROVE m.pd.pte[a] # None <=> a < Up(newsz)
        BY DEF Pages
      <4>1. Up(newsz) \in Nat /\ Up(oldsz) \in Nat /\ Up(newsz) <= Up(oldsz) /\ a \in Nat
        <5>1. newsz \in Nat /\ oldsz \in Nat /\ newsz <= oldsz
          BY <1>4, <1>5, <2>2, <3>1
        <5> QED
          BY <5>1, UpFacts, Sizes
      <4>2. CASE Up(newsz) <= a /\ a < Up(oldsz)
        BY <3>3, <4>1, <4>2
      <4>3. CASE ~(Up(newsz) <= a /\ a < Up(oldsz))
        <5>1. a < Up(newsz) \/ a >= Up(oldsz)
          BY <4>1, <4>3
        <5>2. m.pd.pte[a] = b.pd.pte[a]
          BY <3>3, <5>1 DEF Keeps
        <5> QED
          BY <3>2, <4>1, <5>1, <5>2 DEF Pages
      <4> QED
        BY <4>2, <4>3
    <3> QED
      BY <1>4, <1>5, <2>2, <3>1, <3>3, <3>4
  <2> QED
    BY <1>4, <1>5, <2>1, <2>2
<1>8. kstack' = [kstack EXCEPT ![p] = kstack[p]]
  BY <1>2, <1>4 DEF VmTypes
<1>9. /\ FramesSplit' /\ PagesMapped' /\ content' \in [Frames -> Words]
      /\ pgdir' \in [Procs -> Pgdirs] /\ pgdir'[p] = m.pd
      /\ \A q \in Procs : q # p => pgdir'[q] = pgdir[q]
  <2>1. /\ kstack[p] \in Frames \cup {None} /\ kstack[p] \notin Rest(kstack, pgdir, p)
        /\ Others(p) = Rest(kstack, pgdir, p) \cup ({kstack[p]} \ {None})
    BY SpaceSound DEF Others
  <2>2. PICK U, k : U = Others(p) /\ k = kstack[p]
    OBVIOUS
  <2> QED
    BY <1>2, <1>6, <1>8, <2>1, <2>2, BecomesSound
<1>10. VmTypes'
  BY <1>2, <1>4, <1>5, <1>9 DEF VmTypes
<1>11. UnusedEmpty'
  <2>1. state[p] # "UNUSED"
    BY DEF SbrkShrinks, Runs
  <2> QED
    BY <1>2, <1>9, <2>1 DEF SpaceInv, UnusedEmpty
<1>12. Pages(m.pd, sz'[p]) \/ NoPages(m.pd)
  <2>1. CASE newsz >= sz[p]
    BY <1>2, <1>6, <2>1
  <2>2. CASE newsz < sz[p] /\ newsz = 0
    <3>1. \A a \in UPages : ~(a < Up(0))
      BY UpFacts, Sizes
    <3> QED
      BY <1>6, <2>2, <3>1 DEF Pages, NoPages
  <2>3. CASE newsz < sz[p] /\ newsz # 0
    <3>1. sz'[p] = newsz
      BY <1>2, <1>4, <1>5, <2>3 DEF VmTypes
    <3> QED
      BY <1>6, <2>3, <3>1
  <2> QED
    BY <1>4, <1>5, <2>1, <2>2, <2>3
<1>13. SizesFit'
  <2>1. \A q \in Procs : q # p => sz'[q] = sz[q]
    BY <1>2, <1>4 DEF VmTypes
  <2> QED
    BY <1>9, <1>12, <2>1 DEF SpaceInv, SizesFit
<1>14. ASSUME newsz = 0 PROVE NoPages(m.pd)
  <2>1. Pages(m.pd, 0)
    BY <1>4, <1>5, <1>6, <1>14
  <2>2. \A a \in UPages : ~(a < Up(0))
    BY UpFacts, Sizes
  <2> QED
    BY <2>1, <2>2 DEF Pages, NoPages
<1> QED
  BY <1>1, <1>9, <1>10, <1>11, <1>13, <1>14 DEF SpaceInv

\* wait frees all that the child had.
LEMMA WaitInv ==
  ASSUME SpaceInv, NEW p \in Procs, Wait(p)
  PROVE  SpaceInv'
<1>1. PICK c \in Procs :
        /\ state[c] = "ZOMBIE"
        /\ Becomes(Freevm(Kfree(Memory(pgdir[c]), kstack[c])))
        /\ kstack' = [kstack EXCEPT ![c] = None]
        /\ pgdir' = [pgdir EXCEPT ![c] = NoPgdir]
        /\ state' = [state EXCEPT ![c] = "UNUSED"]
        /\ parent' = [parent EXCEPT ![c] = None]
        /\ sz' = [sz EXCEPT ![c] = 0]
  BY DEF Wait
<1>2. PICK b, k, m, n, R : /\ b = Memory(pgdir[c]) /\ k = kstack[c] /\ m = Kfree(b, k) /\ n = Freevm(m)
                           /\ R = Rest(kstack, pgdir, c)
  OBVIOUS
<1>3. VmTypes /\ KERNBASE \in Nat
  BY Sizes DEF SpaceInv
<1>4. k \in Frames /\ k # None
  BY <1>1, <1>2, <1>3 DEF SpaceInv, UnusedEmpty, VmTypes
<1>5. Sound(b, R \cup {k}) /\ k \notin R
  <2>1. Others(c) = R \cup {k}
    BY <1>2, <1>4 DEF Others
  <2> QED
    BY <1>2, <2>1, SpaceSound
<1>6. Sound(m, R)
  BY <1>2, <1>4, <1>5, KfreeSound
<1>7. Sound(n, R) /\ n.pd = NoPgdir
  BY <1>2, <1>6, FreevmSound
<1>8. /\ None \in Frames \cup {None} /\ R = Rest(kstack, pgdir, c) \cup ({None} \ {None})
      /\ None \notin Rest(kstack, pgdir, c)
  BY <1>2, Sizes DEF Rest
<1>9. Becomes(n) /\ pgdir' = [pgdir EXCEPT ![c] = n.pd]
  BY <1>1, <1>2, <1>7
<1>10. /\ FramesSplit' /\ PagesMapped'
       /\ content' \in [Frames -> Words]
       /\ kstack' \in [Procs -> Frames \cup {None}]
       /\ pgdir' \in [Procs -> Pgdirs]
       /\ pgdir'[c] = n.pd /\ kstack'[c] = None
       /\ \A q \in Procs : q # c => pgdir'[q] = pgdir[q] /\ kstack'[q] = kstack[q]
  BY <1>1, <1>7, <1>8, <1>9, BecomesSound
<1>11. VmTypes'
  BY <1>1, <1>3, <1>10 DEF VmTypes
<1>12. UnusedEmpty'
  BY <1>1, <1>3, <1>7, <1>10 DEF SpaceInv, UnusedEmpty, VmTypes
<1>13. SizesFit'
  <2>1. NoPages(NoPgdir)
    BY CellNoPgdir DEF NoPages
  <2> QED
    BY <1>1, <1>3, <1>7, <1>10, <2>1 DEF SpaceInv, SizesFit, VmTypes
<1> QED
  BY <1>10, <1>11, <1>12, <1>13 DEF SpaceInv

\* While exec builds the new image, the old one is what others use.
LEMMA BesideOld ==
  ASSUME SpaceInv, NEW p \in Procs
  PROVE  /\ Sound(Memory(NoPgdir), Others(p) \cup Full(Cell(pgdir[p])))
         /\ Others(p) \cap Full(Cell(pgdir[p])) = {}
         /\ Memory(NoPgdir).pd = NoPgdir /\ Memory(NoPgdir).ok
<1> DEFINE c == Cell(pgdir[p])
           d == Cell(NoPgdir)
           m == Memory(NoPgdir)
<1>1. /\ OneUse(free, c, Others(p)) /\ pgdir[p] \in Pgdirs
      /\ free \in [Frames -> 0 .. 1] /\ content \in [Frames -> Words]
  <2>1. Sound(Memory(pgdir[p]), Others(p)) /\ Memory(pgdir[p]).pd = pgdir[p] /\ Memory(pgdir[p]).free = free
    BY SpaceSound
  <2>2. OneUse(free, c, Others(p))
    BY <2>1 DEF Sound
  <2> QED
    BY <2>2, SpaceSound DEF SpaceInv, VmTypes, FramesSplit, Splits
<1>2. d = [s \in Slots |-> None] /\ NoPgdir \in Pgdirs /\ None \notin Frames
  BY CellNoPgdir, Sizes
<1>3. c \in [Slots -> Frames \cup {None}]
  BY <1>1, CellType
<1>4. Full(d) = {}
  BY <1>2 DEF Full
<1>5. \A s \in DOMAIN c : c[s] \in Frames \cup {None}
  BY <1>3
<1>6. \A s \in DOMAIN d : d[s] \in Frames \cup {None} /\ d[s] \notin Frames
  BY <1>2
<1> HIDE DEF c, d
<1>7. OneUse(free, d, Others(p) \cup Full(c)) /\ Others(p) \cap Full(c) = {}
  <2>1. PICK V : V = Others(p)
    OBVIOUS
  <2>2. OneUse(free, c, V \cup Full(d)) /\ V \cap Full(d) = {}
    BY <1>1, <1>4, <2>1
  <2>3. OneUse(free, d, V \cup Full(c)) /\ V \cap Full(c) = {}
    BY <1>5, <1>6, <2>2, UseSwap
  <2> QED
    BY <2>1, <2>3
<1>8. m = [free |-> free, content |-> content, pd |-> NoPgdir, ok |-> TRUE]
  BY DEF Memory
<1>9. m \in Memories
  BY ONLY <1>1, <1>2, <1>8 DEF Memories
<1>10. UserMapped(NoPgdir)
  BY CellNoPgdir DEF UserMapped
<1>11. m.free = free /\ m.pd = NoPgdir /\ m.ok
  BY <1>8
<1>12. Sound(m, Others(p) \cup Full(c))
  BY <1>7, <1>9, <1>10, <1>11 DEF Sound, d
<1> QED
  BY <1>7, <1>11, <1>12 DEF c

\* What a memory m shows once old is put in its page table's place.
LooksAt(m, n, V, old) ==
  /\ Sound(n, V \cup Full(Cell(m.pd))) /\ V \cap Full(Cell(m.pd)) = {}
  /\ n.pd = old /\ n.ok = m.ok /\ n.free = m.free /\ n.content = m.content

\* Of two page directories, beside which the frames V are in use, either can be looked at
\* as the one at hand, and the other's as what others use.
LEMMA LookAt ==
  ASSUME NEW m, NEW V, NEW old \in Pgdirs, UserMapped(old), Sound(m, V \cup Full(Cell(old))),
         V \cap Full(Cell(old)) = {},
         \A s, t \in Slots : Cell(old)[s] \in Frames /\ Cell(old)[s] = Cell(old)[t] => s = t,
         NEW n, n = [m EXCEPT !.pd = old]
  PROVE  LooksAt(m, n, V, old)
<1>1. /\ m \in Memories /\ m.pd \in Pgdirs /\ m.free \in [Frames -> 0 .. 1]
      /\ m.content \in [Frames -> Words] /\ m.ok \in BOOLEAN
      /\ OneUse(m.free, Cell(m.pd), V \cup Full(Cell(old)))
  BY MemoryType DEF Sound
<1>2. /\ n = [free |-> m.free, content |-> m.content, pd |-> old, ok |-> m.ok]
      /\ n.pd = old /\ n.ok = m.ok /\ n.free = m.free /\ n.content = m.content
  BY <1>1 DEF Memories
<1>3. n \in Memories
  BY ONLY <1>1, <1>2, old \in Pgdirs DEF Memories
<1>4. PICK c, d : c = Cell(m.pd) /\ d = Cell(old)
  OBVIOUS
<1>5. c \in [Slots -> Frames \cup {None}] /\ d \in [Slots -> Frames \cup {None}]
  BY <1>1, <1>4, CellType
<1>6. /\ \A s \in DOMAIN c : c[s] \in Frames \cup {None}
      /\ \A s \in DOMAIN d : d[s] \in Frames \cup {None}
      /\ \A s, t \in DOMAIN d : d[s] \in Frames /\ d[s] = d[t] => s = t
      /\ V \cap Full(d) = {} /\ OneUse(m.free, c, V \cup Full(d))
  BY <1>1, <1>4, <1>5
<1>7. OneUse(m.free, d, V \cup Full(c)) /\ V \cap Full(c) = {}
  BY <1>6, UseSwap
<1> QED
  BY <1>2, <1>3, <1>4, <1>7 DEF Sound, LooksAt

\* exec: the new image is put in the old one's place and the old one freed, or the other way round.
LEMMA ExecInv ==
  ASSUME SpaceInv, NEW p \in Procs, NEW image \in Images, Exec(p, image)
  PROVE  SpaceInv'
<1>1. PICK b, x, old, V : /\ b = Memory(NoPgdir) /\ x = NewImage(b, image)
                          /\ old = pgdir[p] /\ V = Others(p)
  OBVIOUS
<1>2. /\ IF x.m.ok
         THEN /\ Becomes(Freevm([x.m EXCEPT !.pd = old]))
              /\ pgdir' = [pgdir EXCEPT ![p] = x.m.pd]
              /\ sz' = [sz EXCEPT ![p] = x.size]
         ELSE Becomes(x.m) /\ UNCHANGED <<pgdir, sz>>
      /\ UNCHANGED <<state, parent, kstack>>
  BY <1>1 DEF Exec
<1>3. /\ Sound(b, V \cup Full(Cell(old))) /\ V \cap Full(Cell(old)) = {}
      /\ b.pd = NoPgdir /\ b.ok
  BY <1>1, BesideOld
<1>4. Made(b, x, V \cup Full(Cell(old)), image)
  BY <1>1, <1>3, NewImageSound
<1>5. /\ VmTypes /\ old \in Pgdirs /\ kstack[p] \in Frames \cup {None}
      /\ kstack[p] \notin Rest(kstack, pgdir, p)
      /\ V = Rest(kstack, pgdir, p) \cup ({kstack[p]} \ {None})
  BY <1>1, SpaceSound DEF SpaceInv, Others
<1>6. /\ UserMapped(old)
      /\ \A s, t \in Slots : Cell(old)[s] \in Frames /\ Cell(old)[s] = Cell(old)[t] => s = t
  BY <1>1 DEF SpaceInv, PagesMapped, FramesSplit, Splits
<1>7. PICK m, n : m = x.m /\ n = [m EXCEPT !.pd = old]
  OBVIOUS
<1>8. /\ Sound(n, V \cup Full(Cell(m.pd))) /\ V \cap Full(Cell(m.pd)) = {}
      /\ n.pd = old /\ n.ok = m.ok /\ n.free = m.free /\ n.content = m.content
      /\ Sound(m, V \cup Full(Cell(old)))
  <2>1. Sound(m, V \cup Full(Cell(old)))
    BY <1>4, <1>7 DEF Made
  <2>2. /\ old \in Pgdirs /\ UserMapped(old) /\ V \cap Full(Cell(old)) = {}
        /\ \A s, t \in Slots : Cell(old)[s] \in Frames /\ Cell(old)[s] = Cell(old)[t] => s = t
        /\ n = [m EXCEPT !.pd = old]
    BY <1>3, <1>5, <1>6, <1>7
  <2>3. /\ Sound(n, V \cup Full(Cell(m.pd))) /\ V \cap Full(Cell(m.pd)) = {}
        /\ n.pd = old /\ n.ok = m.ok /\ n.free = m.free /\ n.content = m.content
    <3>1. LooksAt(m, n, V, old)
      BY ONLY <2>1, <2>2, LookAt
    <3> QED
      BY <3>1 DEF LooksAt
  <2> QED
    BY <2>1, <2>3
<1>9. kstack' = [kstack EXCEPT ![p] = kstack[p]]
  BY <1>2, <1>5 DEF VmTypes
<1>10. state[p] # "UNUSED"
  BY DEF Exec, Runs
<1>11. PICK k : k = kstack[p]
  OBVIOUS
<1>12. CASE m.ok
  <2>1. PICK o, new : o = Freevm(n) /\ new = m.pd
    OBVIOUS
  <2>2. Becomes(o) /\ pgdir' = [pgdir EXCEPT ![p] = new] /\ sz' = [sz EXCEPT ![p] = x.size]
    BY <1>2, <1>7, <1>12, <2>1
  <2>3. Sound(o, V \cup Full(Cell(new))) /\ o.pd = NoPgdir
    BY <1>8, <2>1, FreevmSound
  <2>4. /\ new \in Pgdirs /\ UserMapped(new)
        /\ \A s, t \in Slots : Cell(new)[s] \in Frames /\ Cell(new)[s] = Cell(new)[t] => s = t
    <3>1. DOMAIN Cell(new) = Slots
      BY DEF Cell
    <3> QED
      BY <1>8, <2>1, <3>1, MemoryType DEF Sound, OneUse
  <2>5. PICK z : z = [o EXCEPT !.pd = new]
    OBVIOUS
  <2>6. Sound(z, V) /\ z.pd = new /\ z.free = o.free /\ z.content = o.content
    <3>1. /\ Sound(z, V \cup Full(Cell(o.pd)))
          /\ z.pd = new /\ z.free = o.free /\ z.content = o.content
      <4>1. LooksAt(o, z, V, new)
        BY <1>8, <2>1, <2>3, <2>4, <2>5, LookAt
      <4> QED
        BY <2>3, <2>5, <4>1 DEF LooksAt
    <3>2. Full(Cell(o.pd)) = {}
      BY <2>3, CellNoPgdir DEF Full
    <3> QED
      BY <3>1, <3>2
  <2>7. Becomes(z) /\ pgdir' = [pgdir EXCEPT ![p] = z.pd]
    BY <2>2, <2>6 DEF Becomes
  <2>8. /\ FramesSplit' /\ PagesMapped' /\ content' \in [Frames -> Words]
        /\ pgdir' \in [Procs -> Pgdirs] /\ pgdir'[p] = z.pd
        /\ \A q \in Procs : q # p => pgdir'[q] = pgdir[q]
    BY <1>5, <1>9, <1>11, <2>6, <2>7, BecomesSound
  <2>9. x.size \in 0 .. KERNBASE /\ Pages(new, x.size)
    BY <1>4, <1>7, <1>12, <2>1 DEF Made
  <2>10. VmTypes'
    BY <1>2, <1>5, <2>2, <2>8, <2>9 DEF VmTypes
  <2>11. UnusedEmpty'
    BY <1>2, <1>10, <2>8 DEF SpaceInv, UnusedEmpty
  <2>12. SizesFit'
    BY <1>5, <2>2, <2>6, <2>8, <2>9 DEF SpaceInv, SizesFit, VmTypes
  <2> QED
    BY <2>8, <2>10, <2>11, <2>12 DEF SpaceInv
<1>13. CASE ~m.ok
  <2>1. Becomes(m) /\ UNCHANGED <<pgdir, sz>>
    BY <1>2, <1>7, <1>13
  <2>2. m.pd = NoPgdir
    BY <1>4, <1>7, <1>13 DEF Made
  <2>3. Sound(n, V)
    <3>1. Full(Cell(m.pd)) = {}
      BY <2>2, CellNoPgdir DEF Full
    <3> QED
      BY <1>8, <3>1
  <2>4. Becomes(n) /\ pgdir' = [pgdir EXCEPT ![p] = n.pd]
    BY <1>1, <1>5, <1>8, <2>1 DEF Becomes, VmTypes
  <2>5. FramesSplit' /\ PagesMapped' /\ content' \in [Frames -> Words]
    BY <1>5, <1>9, <1>11, <2>3, <2>4, BecomesSound
  <2> QED
    BY <1>2, <1>5, <2>1, <2>5 DEF SpaceInv, VmTypes, UnusedEmpty, SizesFit
<1> QED
  BY <1>12, <1>13

\* A running process is not left without pages, so it has no old translations.
LEMMA RunnerIsFresh ==
  ASSUME VmInv, NEW p \in Procs, Runs(p)
  PROVE  ~stale[p]
<1>1. PICK a \in UPages : pgdir[p].user[a]
  BY DEF Runs
<1>2. pgdir[p].pte[a] # None
  BY <1>1 DEF VmInv, SpaceInv, PagesMapped, UserMapped
<1> QED
  BY <1>1, <1>2 DEF VmInv, StaleFits, NoPages

\* Calls that end with a switch, or that change no page table of a running process, leave
\* nobody with old translations who has pages.
LEMMA StaleStays ==
  ASSUME VmInv, stale' = stale, lost' \in BOOLEAN,
         \A q \in Procs : stale[q] => state'[q] = "RUNNABLE" /\ pgdir'[q] = pgdir[q]
  PROVE  StaleFits'
BY DEF VmInv, StaleFits, NoPages

LEMMA StaleAfterSwitch ==
  ASSUME VmInv, NEW p \in Procs, Switchuvm(p), lost' = lost,
         \A q \in Procs : q # p /\ stale[q] => state'[q] = "RUNNABLE" /\ pgdir'[q] = pgdir[q]
  PROVE  StaleFits'
BY DEF VmInv, StaleFits, NoPages, Switchuvm

\* Stores, steps of the processor, exit, fork and wait
LEMMA OtherStale ==
  ASSUME VmInv, NEW p \in Procs,
         Fork(p) \/ Wait(p) \/ Exit(p) \/ RunsOn(p) \/ Yield(p) \/ \E a \in Stores : Store(p, a)
  PROVE  StaleFits'
<1>0. /\ stale \in [Procs -> BOOLEAN] /\ lost \in BOOLEAN /\ state \in [Procs -> {"UNUSED", "RUNNABLE", "ZOMBIE"}]
      /\ pgdir \in [Procs -> Pgdirs] /\ \A q \in Procs : stale[q] => state[q] = "RUNNABLE"
  BY DEF VmInv, SpaceInv, VmTypes, StaleFits
<1>1. CASE Fork(p)
  <2>1. /\ UNCHANGED <<stale, lost>>
        /\ \E c \in Procs : /\ state[c] = "UNUSED"
                             /\ state' \in {state, [state EXCEPT ![c] = "RUNNABLE"]}
                             /\ \A q \in Procs : q # c => pgdir'[q] = pgdir[q]
    BY <1>0, <1>1 DEF Fork
  <2> QED
    BY <1>0, <2>1, StaleStays
<1>2. CASE Wait(p)
  <2>1. /\ UNCHANGED <<stale, lost>>
        /\ \E c \in Procs : /\ state[c] = "ZOMBIE"
                             /\ \A q \in Procs : q # c => state'[q] = state[q] /\ pgdir'[q] = pgdir[q]
    BY <1>0, <1>2 DEF Wait
  <2> QED
    BY <1>0, <2>1, StaleStays
<1>3. CASE Exit(p)
  <2>1. Switchuvm(p) /\ lost' = lost /\ pgdir' = pgdir /\ \A q \in Procs : q # p => state'[q] = state[q]
    BY <1>0, <1>3 DEF Exit
  <2> QED
    BY <1>0, <2>1, StaleAfterSwitch
<1>4. CASE RunsOn(p)
  BY <1>0, <1>4, StaleStays DEF RunsOn
<1>5. CASE Yield(p)
  BY <1>0, <1>5, StaleAfterSwitch DEF Yield
<1>6. CASE \E a \in Stores : Store(p, a)
  <2>1. UNCHANGED <<state, pgdir, stale, lost>>
    BY <1>6 DEF Store
  <2> QED
    BY <1>0, <2>1, StaleStays
<1> QED
  BY <1>1, <1>2, <1>3, <1>4, <1>5, <1>6

\* exec and sbrk
LEMMA CallerStale ==
  ASSUME VmInv, NEW p \in Procs,
         \/ \E image \in Images : Exec(p, image)
         \/ \E n \in Sbrks : SbrkGrows(p, n) \/ SbrkShrinks(p, n)
  PROVE  StaleFits'
<1>0. /\ stale \in [Procs -> BOOLEAN] /\ lost \in BOOLEAN /\ pgdir \in [Procs -> Pgdirs]
      /\ \A q \in Procs : stale[q] => state[q] = "RUNNABLE" /\ NoPages(pgdir[q])
  BY DEF VmInv, SpaceInv, VmTypes, StaleFits
<1>1. Runs(p) /\ state' = state /\ lost' = lost /\ ~stale[p]
  <2>1. Runs(p) /\ state' = state /\ lost' = lost
    BY DEF Exec, SbrkGrows, SbrkShrinks
  <2> QED
    BY <2>1, RunnerIsFresh
<1>2. \A q \in Procs : q # p => pgdir'[q] = pgdir[q]
  <2>1. CASE \E image \in Images : Exec(p, image)
    BY <1>0, <2>1 DEF Exec
  <2>2. CASE \E n \in Sbrks : SbrkGrows(p, n)
    BY <1>0, <2>2 DEF SbrkGrows
  <2>3. CASE \E n \in Sbrks : SbrkShrinks(p, n)
    BY <1>0, <2>3 DEF SbrkShrinks
  <2> QED
    BY <2>1, <2>2, <2>3
<1>3. CASE stale' = stale
  BY <1>0, <1>1, <1>2, <1>3, StaleStays
<1>4. CASE Switchuvm(p)
  BY <1>0, <1>1, <1>2, <1>4, StaleAfterSwitch
<1>5. CASE stale' = [stale EXCEPT ![p] = TRUE] /\ NoPages(pgdir'[p])
  <2>1. state'[p] = "RUNNABLE"
    BY <1>1 DEF Runs
  <2>2. \A q \in Procs : q # p /\ stale'[q] => state'[q] = "RUNNABLE" /\ NoPages(pgdir'[q])
    BY <1>0, <1>1, <1>2, <1>5
  <2>3. stale' \in [Procs -> BOOLEAN] /\ lost' \in BOOLEAN
    BY <1>0, <1>1, <1>5
  <2> QED
    BY <1>5, <2>1, <2>2, <2>3 DEF StaleFits, NoPages
<1>6. CASE \E image \in Images : Exec(p, image)
  <2>1. stale' = stale \/ Switchuvm(p)
    BY <1>6 DEF Exec
  <2> QED
    BY <1>3, <1>4, <2>1
<1>7. CASE \E n \in Sbrks : SbrkGrows(p, n)
  <2>1. stale' = stale \/ Switchuvm(p)
    BY <1>7 DEF SbrkGrows
  <2> QED
    BY <1>3, <1>4, <2>1
<1>8. CASE \E n \in Sbrks : SbrkShrinks(p, n)
  <2>1. PICK n \in Sbrks : SbrkShrinks(p, n)
    BY <1>8
  <2>2. IF Uint(sz[p] + n) = 0 THEN stale' = [stale EXCEPT ![p] = TRUE] ELSE Switchuvm(p)
    BY <2>1 DEF SbrkShrinks
  <2>3. Uint(sz[p] + n) = 0 => NoPages(pgdir'[p])
    BY <2>1, SbrkShrinksInv DEF VmInv
  <2> QED
    BY <1>4, <1>5, <2>2, <2>3
<1> QED
  BY <1>6, <1>7, <1>8

\* What the processor does with old translations changes no memory that is looked after.
LEMMA ProcessorInv ==
  ASSUME SpaceInv, NEW p \in Procs, RunsOn(p) \/ Yield(p)
  PROVE  SpaceInv'
<1>1. UNCHANGED <<free, content, state, parent, kstack, pgdir, sz>>
  BY DEF RunsOn, Yield
<1> QED
  BY <1>1 DEF SpaceInv, VmTypes, FramesSplit, UnusedEmpty, PagesMapped, SizesFit

\* Each call takes the invariant with it.
LEMMA VmNextInv ==
  ASSUME VmInv, Next
  PROVE  VmInv'
<1>1. PICK p \in Procs :
        \/ Fork(p) \/ Exit(p) \/ Wait(p) \/ RunsOn(p) \/ Yield(p)
        \/ \E image \in Images : Exec(p, image)
        \/ p # 1 /\ \E a \in Stores : Store(p, a)
        \/ p # 1 /\ \E n \in Sbrks : SbrkGrows(p, n) \/ SbrkShrinks(p, n)
  BY DEF Next
<1>2. SpaceInv
  BY DEF VmInv
<1>3. CASE Fork(p)
  BY <1>2, <1>3, ForkInv, OtherStale DEF VmInv
<1>4. CASE Exit(p)
  BY <1>2, <1>4, ExitInv, OtherStale DEF VmInv
<1>5. CASE Wait(p)
  BY <1>2, <1>5, WaitInv, OtherStale DEF VmInv
<1>6. CASE RunsOn(p) \/ Yield(p)
  BY <1>2, <1>6, ProcessorInv, OtherStale DEF VmInv
<1>7. CASE \E image \in Images : Exec(p, image)
  BY <1>2, <1>7, ExecInv, CallerStale DEF VmInv
<1>8. CASE \E a \in Stores : Store(p, a)
  BY <1>2, <1>8, StoreInv, OtherStale DEF VmInv
<1>9. CASE \E n \in Sbrks : SbrkGrows(p, n)
  BY <1>2, <1>9, SbrkGrowsInv, CallerStale DEF VmInv
<1>10. CASE \E n \in Sbrks : SbrkShrinks(p, n)
  BY <1>2, <1>10, SbrkShrinksInv, CallerStale DEF VmInv
<1> QED
  BY <1>1, <1>3, <1>4, <1>5, <1>6, <1>7, <1>8, <1>9, <1>10

-----------------------------------------------------------------------------
(* The theorems                                                               *)

\* The invariant holds of every state.
THEOREM VmInvariant == Spec => []VmInv
<1>1. Init => VmInv
  <2>1. Init => StaleFits
    BY DEF Init, StaleFits
  <2> QED
    BY <2>1, SpaceInit DEF VmInv
<1>2. VmInv /\ [Next]_vars => VmInv'
  <2> SUFFICES ASSUME VmInv, [Next]_vars PROVE VmInv'
    OBVIOUS
  <2>1. CASE Next
    BY <2>1, VmNextInv
  <2>2. CASE UNCHANGED vars
    <3>1. SpaceInv'
      BY <2>2 DEF VmInv, SpaceInv, VmTypes, FramesSplit, UnusedEmpty, PagesMapped, SizesFit, vars
    <3>2. StaleFits'
      BY <2>2 DEF VmInv, StaleFits, vars
    <3> QED
      BY <3>1, <3>2 DEF VmInv
  <2> QED
    BY <2>1, <2>2
<1> QED
  BY <1>1, <1>2, PTL DEF Spec

\* What it says of frames and pages, which most of what follows needs.
LEMMA SpaceInvariant == Spec => []SpaceInv
<1>1. VmInv => SpaceInv
  BY DEF VmInv
<1> QED
  BY <1>1, VmInvariant, PTL

\* The variables keep their types: among them, no count of a frame on the free list is
\* negative and no size is beyond KERNBASE.
THEOREM VmTypeCorrect == Spec => []TypeOK
<1>1. VmInv => TypeOK
  <2> SUFFICES ASSUME VmInv PROVE TypeOK
    OBVIOUS
  <2>1. free \in [Frames -> Nat]
    BY DEF VmInv, SpaceInv, FramesSplit, Splits
  <2>2. pgdir \in [Procs -> [dir : Frames \cup {None}, ktabs : Seq(Frames), tab : [Tables -> Frames \cup {None}],
                             pte : [UPages -> Frames \cup {None}], user : [UPages -> BOOLEAN]]]
    BY DEF VmInv, SpaceInv, VmTypes, Pgdirs
  <2> QED
    BY <2>1, <2>2 DEF VmInv, SpaceInv, StaleFits, VmTypes, TypeOK
<1> QED
  BY <1>1, VmInvariant, PTL

\* The places that hold a frame are the free list's, the kernel stacks and the slots of
\* the page directories.
FreePlace(f) == <<"free", 0, 0, f>>
StackPlace(p) == <<"kstack", p, 0, kstack[p]>>
SlotPlace(p, s) == <<s[1], p, s[2], Cell(pgdir[p])[s]>>
\* What Places lists is what the slots hold, the kernel stacks and the free frames.
LEMMA PlacesAre ==
  ASSUME SpaceInv
  PROVE  /\ \A x \in Places : x[4] # None =>
              \/ \E f \in Frames : free[f] = 1 /\ x = FreePlace(f)
              \/ \E p \in Procs : kstack[p] \in Frames /\ x = StackPlace(p)
              \/ \E p \in Procs : \E s \in Slots : Cell(pgdir[p])[s] \in Frames /\ x = SlotPlace(p, s)
         /\ \A f \in Frames : free[f] = 1 => FreePlace(f) \in Places
         /\ \A p \in Procs : StackPlace(p) \in Places
         /\ \A p \in Procs : \A s \in Slots : Cell(pgdir[p])[s] \in Frames => SlotPlace(p, s) \in Places
<1>0. None \notin Frames
  BY Sizes
<1>1. /\ free \in [Frames -> 0 .. 1] /\ kstack \in [Procs -> Frames \cup {None}]
      /\ \A p \in Procs : pgdir[p] \in Pgdirs
  BY DEF SpaceInv, VmTypes, FramesSplit, Splits
<1>2. \A p \in Procs : Cell(pgdir[p]) \in [Slots -> Frames \cup {None}]
  BY <1>1, CellType
<1>3. ASSUME NEW x \in Places, x[4] # None
      PROVE  \/ \E f \in Frames : free[f] = 1 /\ x = FreePlace(f)
             \/ \E p \in Procs : kstack[p] \in Frames /\ x = StackPlace(p)
             \/ \E p \in Procs : \E s \in Slots : Cell(pgdir[p])[s] \in Frames /\ x = SlotPlace(p, s)
  <2>1. \/ x \in {<<"free", 0, 0, f>> : f \in {g \in Frames : free[g] > 0}}
        \/ \E p \in Procs :
             \/ x = <<"kstack", p, 0, kstack[p]>>
             \/ x = <<"dir", p, 0, pgdir[p].dir>>
             \/ x \in {<<"ktab", p, i, pgdir[p].ktabs[i]>> : i \in 1 .. Len(pgdir[p].ktabs)}
             \/ x \in {<<"tab", p, t, pgdir[p].tab[t]>> : t \in Tables}
             \/ x \in {<<"page", p, a, pgdir[p].pte[a]>> : a \in UPages}
    BY DEF Places
  <2>2. CASE x \in {<<"free", 0, 0, f>> : f \in {g \in Frames : free[g] > 0}}
    <3>1. PICK f \in Frames : free[f] > 0 /\ x = FreePlace(f)
      BY <2>2 DEF FreePlace
    <3>2. free[f] = 1
      BY <1>1, <3>1
    <3> QED
      BY <3>1, <3>2
  <2>3. ASSUME NEW p \in Procs,
               \/ x = <<"kstack", p, 0, kstack[p]>>
               \/ x = <<"dir", p, 0, pgdir[p].dir>>
               \/ x \in {<<"ktab", p, i, pgdir[p].ktabs[i]>> : i \in 1 .. Len(pgdir[p].ktabs)}
               \/ x \in {<<"tab", p, t, pgdir[p].tab[t]>> : t \in Tables}
               \/ x \in {<<"page", p, a, pgdir[p].pte[a]>> : a \in UPages}
        PROVE  \/ kstack[p] \in Frames /\ x = StackPlace(p)
               \/ \E s \in Slots : Cell(pgdir[p])[s] \in Frames /\ x = SlotPlace(p, s)
    <3>a. pgdir[p] \in Pgdirs /\ Cell(pgdir[p]) \in [Slots -> Frames \cup {None}]
      BY <1>1, <1>2
    <3>1. CASE x = <<"kstack", p, 0, kstack[p]>>
      BY <1>1, <1>3, <3>1 DEF StackPlace
    <3>b. ASSUME NEW s \in Slots, x = SlotPlace(p, s)
          PROVE  Cell(pgdir[p])[s] \in Frames
      <4>1. x[4] = Cell(pgdir[p])[s]
        BY <3>b DEF SlotPlace
      <4> QED
        BY <1>3, <3>a, <4>1
    <3>2. CASE x = <<"dir", p, 0, pgdir[p].dir>>
      <4>1. <<"dir", 0>> \in Slots /\ x = SlotPlace(p, <<"dir", 0>>)
        BY <3>a, <3>2, CellType DEF Slots, SlotPlace
      <4> QED
        BY <3>b, <4>1
    <3>3. CASE x \in {<<"ktab", p, i, pgdir[p].ktabs[i]>> : i \in 1 .. Len(pgdir[p].ktabs)}
      <4>1. PICK i \in 1 .. Len(pgdir[p].ktabs) : x = <<"ktab", p, i, pgdir[p].ktabs[i]>>
        BY <3>3
      <4>2. i \in Nat
        BY <3>a DEF Pgdirs
      <4>3. Cell(pgdir[p])[<<"ktab", i>>] = pgdir[p].ktabs[i]
        BY <3>a, <4>2, CellType
      <4>4. <<"ktab", i>> \in Slots /\ x = SlotPlace(p, <<"ktab", i>>)
        BY <4>1, <4>2, <4>3 DEF Slots, SlotPlace
      <4> QED
        BY <3>b, <4>4
    <3>4. CASE x \in {<<"tab", p, t, pgdir[p].tab[t]>> : t \in Tables}
      <4>1. PICK t \in Tables : x = <<"tab", p, t, pgdir[p].tab[t]>>
        BY <3>4
      <4>2. <<"tab", t>> \in Slots /\ x = SlotPlace(p, <<"tab", t>>)
        BY <3>a, <4>1, CellType DEF Slots, SlotPlace
      <4> QED
        BY <3>b, <4>2
    <3>5. CASE x \in {<<"page", p, a, pgdir[p].pte[a]>> : a \in UPages}
      <4>1. PICK a \in UPages : x = <<"page", p, a, pgdir[p].pte[a]>>
        BY <3>5
      <4>2. <<"page", a>> \in Slots /\ x = SlotPlace(p, <<"page", a>>)
        BY <3>a, <4>1, CellType DEF Slots, SlotPlace
      <4> QED
        BY <3>b, <4>2
    <3> QED
      BY <2>3, <3>1, <3>2, <3>3, <3>4, <3>5
  <2> QED
    BY <2>1, <2>2, <2>3
<1>4. ASSUME NEW f \in Frames, free[f] = 1 PROVE FreePlace(f) \in Places
  BY <1>4 DEF Places, FreePlace
<1>5. ASSUME NEW p \in Procs PROVE StackPlace(p) \in Places
  BY DEF Places, StackPlace
<1>6. ASSUME NEW p \in Procs, NEW s \in Slots, Cell(pgdir[p])[s] \in Frames PROVE SlotPlace(p, s) \in Places
  <2>a. pgdir[p] \in Pgdirs
    BY <1>1
  <2>b. ASSUME NEW x, \/ x = <<"dir", p, 0, pgdir[p].dir>>
                      \/ x \in {<<"ktab", p, i, pgdir[p].ktabs[i]>> : i \in 1 .. Len(pgdir[p].ktabs)}
                      \/ x \in {<<"tab", p, t, pgdir[p].tab[t]>> : t \in Tables}
                      \/ x \in {<<"page", p, a, pgdir[p].pte[a]>> : a \in UPages}
        PROVE  x \in Places
    BY <2>b DEF Places
  <2>1. CASE s = <<"dir", 0>>
    <3>1. SlotPlace(p, s) = <<"dir", p, 0, pgdir[p].dir>>
      BY <2>a, <2>1, CellType DEF SlotPlace
    <3> QED
      BY <2>b, <3>1
  <2>2. CASE \E i \in Nat : s = <<"ktab", i>>
    <3>1. PICK i \in Nat : s = <<"ktab", i>>
      BY <2>2
    <3>2. i \in 1 .. Len(pgdir[p].ktabs) /\ Cell(pgdir[p])[s] = pgdir[p].ktabs[i]
      BY <1>0, <1>6, <2>a, <3>1, CellType
    <3>3. SlotPlace(p, s) = <<"ktab", p, i, pgdir[p].ktabs[i]>>
      BY <3>1, <3>2 DEF SlotPlace
    <3> QED
      BY <2>b, <3>2, <3>3
  <2>3. CASE \E t \in Tables : s = <<"tab", t>>
    <3>1. PICK t \in Tables : s = <<"tab", t>>
      BY <2>3
    <3>2. SlotPlace(p, s) = <<"tab", p, t, pgdir[p].tab[t]>>
      BY <2>a, <3>1, CellType DEF SlotPlace
    <3> QED
      BY <2>b, <3>2
  <2>4. CASE \E a \in UPages : s = <<"page", a>>
    <3>1. PICK a \in UPages : s = <<"page", a>>
      BY <2>4
    <3>2. SlotPlace(p, s) = <<"page", p, a, pgdir[p].pte[a]>>
      BY <2>a, <3>1, CellType DEF SlotPlace
    <3> QED
      BY <2>b, <3>2
  <2> QED
    BY <2>1, <2>2, <2>3, <2>4, SlotCases
<1> QED
  BY <1>3, <1>4, <1>5, <1>6

\* Every frame is free once or in one place of one process, for any sizes of memory and
\* whichever kalloc fails: none is lost, freed twice or shared.
THEOREM FramesAreOwnedOnce == Spec => []FramesOwnedOnce
<1>1. SpaceInv => FramesOwnedOnce
  <2> SUFFICES ASSUME SpaceInv PROVE FramesOwnedOnce
    OBVIOUS
  <2> DEFINE full == {x \in Places : x[4] # None}
             F == [f \in Frames |-> CHOOSE x \in full : x[4] = f]
  <2>0. None \notin Frames
    BY Sizes
  <2>1. /\ free \in [Frames -> 0 .. 1] /\ kstack \in [Procs -> Frames \cup {None}]
        /\ \A p \in Procs : pgdir[p] \in Pgdirs
        /\ \A p \in Procs : kstack[p] \notin Full(Cell(pgdir[p]))
        /\ \A p \in Procs : \A s, t \in Slots :
             Cell(pgdir[p])[s] \in Frames /\ Cell(pgdir[p])[s] = Cell(pgdir[p])[t] => s = t
        /\ \A p, q \in Procs : p # q => Held(kstack, pgdir, p) \cap Held(kstack, pgdir, q) = {}
        /\ \A f \in Frames : free[f] = 1 <=> \A p \in Procs : f \notin Held(kstack, pgdir, p)
    BY DEF SpaceInv, VmTypes, FramesSplit, Splits
  <2>2. /\ \A p \in Procs : \A s \in Slots : Cell(pgdir[p])[s] \in Frames =>
             /\ Cell(pgdir[p])[s] \in Full(Cell(pgdir[p]))
             /\ Cell(pgdir[p])[s] \in Held(kstack, pgdir, p)
        /\ \A p \in Procs : kstack[p] \in Frames => kstack[p] \in Held(kstack, pgdir, p)
        /\ \A p \in Procs : \A f \in Held(kstack, pgdir, p) :
             f \in Frames /\ (f = kstack[p] \/ \E s \in Slots : Cell(pgdir[p])[s] = f)
    BY <2>0, <2>1, FullIs DEF Held
  <2>3. \A x \in full :
          \/ \E f \in Frames : free[f] = 1 /\ x = FreePlace(f)
          \/ \E p \in Procs : kstack[p] \in Frames /\ x = StackPlace(p)
          \/ \E p \in Procs : \E s \in Slots : Cell(pgdir[p])[s] \in Frames /\ x = SlotPlace(p, s)
    BY PlacesAre
  <2>4. \A f, p : FreePlace(f)[4] = f /\ StackPlace(p)[4] = kstack[p]
    BY DEF FreePlace, StackPlace
  <2>5. \A p, s : SlotPlace(p, s)[4] = Cell(pgdir[p])[s]
    BY DEF SlotPlace
  <2>6. \A x \in full : x[4] \in Frames
    BY <2>3, <2>4, <2>5
  <2>7. \A f \in Frames : \E x \in full : x[4] = f
    <3> SUFFICES ASSUME NEW f \in Frames PROVE \E x \in Places : x[4] = f
      BY <2>0
    <3>1. CASE free[f] = 1
      BY <2>4, <3>1, PlacesAre
    <3>2. CASE free[f] # 1
      <4>1. PICK p \in Procs : f \in Held(kstack, pgdir, p)
        BY <2>1, <3>2
      <4>2. CASE f = kstack[p]
        BY <2>4, <4>2, PlacesAre
      <4>3. CASE \E s \in Slots : Cell(pgdir[p])[s] = f
        BY <2>5, <4>3, PlacesAre
      <4> QED
        BY <2>2, <4>1, <4>2, <4>3
    <3> QED
      BY <3>1, <3>2
  <2>8. ASSUME NEW x \in full, NEW y \in full, x[4] = y[4] PROVE x = y
    <3>1. PICK f \in Frames : x[4] = f /\ y[4] = f
      BY <2>6, <2>8
    <3>2. CASE free[f] = 1
      <4>1. \A p \in Procs : f \notin Held(kstack, pgdir, p)
        BY <2>1, <3>2
      <4>2. x = FreePlace(f)
        BY <2>2, <2>3, <2>4, <2>5, <3>1, <4>1
      <4>3. y = FreePlace(f)
        BY <2>2, <2>3, <2>4, <2>5, <3>1, <4>1
      <4> QED
        BY <4>2, <4>3
    <3>3. CASE free[f] # 1
      <4>1. PICK p \in Procs : f \in Held(kstack, pgdir, p)
        BY <2>1, <3>3
      <4>2. \A q \in Procs : q # p => f \notin Held(kstack, pgdir, q)
        BY <2>1, <4>1
      <4>3. \A z \in full : z[4] = f => \/ kstack[p] = f /\ z = StackPlace(p)
                                        \/ \E s \in Slots : Cell(pgdir[p])[s] = f /\ z = SlotPlace(p, s)
        <5> SUFFICES ASSUME NEW z \in full, z[4] = f
                     PROVE  \/ kstack[p] = f /\ z = StackPlace(p)
                            \/ \E s \in Slots : Cell(pgdir[p])[s] = f /\ z = SlotPlace(p, s)
          OBVIOUS
        <5>1. CASE \E g \in Frames : free[g] = 1 /\ z = FreePlace(g)
          BY <2>4, <3>3, <5>1
        <5>2. CASE \E q \in Procs : kstack[q] \in Frames /\ z = StackPlace(q)
          <6>1. PICK q \in Procs : kstack[q] \in Frames /\ z = StackPlace(q)
            BY <5>2
          <6>2. kstack[q] = f
            BY <2>4, <6>1
          <6>3. q = p
            BY <2>2, <4>2, <6>1, <6>2
          <6> QED
            BY <6>1, <6>2, <6>3
        <5>3. CASE \E q \in Procs : \E s \in Slots : Cell(pgdir[q])[s] \in Frames /\ z = SlotPlace(q, s)
          <6>1. PICK q \in Procs, s \in Slots : Cell(pgdir[q])[s] \in Frames /\ z = SlotPlace(q, s)
            BY <5>3
          <6>2. Cell(pgdir[q])[s] = f
            BY <2>5, <6>1
          <6>3. q = p
            BY <2>2, <4>2, <6>1, <6>2
          <6> QED
            BY <6>1, <6>2, <6>3
        <5> QED
          BY <2>3, <5>1, <5>2, <5>3
      <4>4. CASE kstack[p] = f
        <5>1. \A s \in Slots : Cell(pgdir[p])[s] # f
          BY <2>1, <2>2, <4>4
        <5> QED
          BY <3>1, <4>3, <5>1
      <4>5. CASE kstack[p] # f
        <5>1. PICK s \in Slots : Cell(pgdir[p])[s] = f /\ x = SlotPlace(p, s)
          BY <3>1, <4>3, <4>5
        <5>2. PICK t \in Slots : Cell(pgdir[p])[t] = f /\ y = SlotPlace(p, t)
          BY <3>1, <4>3, <4>5
        <5>3. s = t
          BY <2>1, <5>1, <5>2
        <5> QED
          BY <5>1, <5>2, <5>3
      <4> QED
        BY <4>4, <4>5
    <3> QED
      BY <3>2, <3>3
  <2>9. {x[4] : x \in full} = Frames
    <3> HIDE DEF full
    <3> QED
      BY <2>6, <2>7
  <2>10. Cardinality(full) = NFRAMES
    <3> HIDE DEF full
    <3>1. \A f \in Frames : F[f] \in full /\ F[f][4] = f
      BY <2>7
    <3>2. F \in [Frames -> full]
      BY <3>1
    <3>3. \A f, g \in Frames : F[f] = F[g] => f = g
      BY <3>1
    <3>4. \A x \in full : \E f \in Frames : F[f] = x
      BY <2>6, <2>8, <3>1
    <3> HIDE DEF F
    <3>5. F \in Bijection(Frames, full)
      BY <3>2, <3>3, <3>4 DEF Bijection, Injection, Surjection, IsInjective
    <3>6. ExistsBijection(1 .. NFRAMES, full) /\ NFRAMES \in Nat
      BY <3>5, Sizes DEF ExistsBijection, Frames
    <3> QED
      BY <3>6, FS_CountingElements
  <2> HIDE DEF full
  <2>11. \A f \in Frames : free[f] \in 0 .. 1
    BY <2>1
  <2> QED
    BY <2>9, <2>10, <2>11 DEF FramesOwnedOnce, full
<1> QED
  BY <1>1, SpaceInvariant, PTL

\* A process has the pages below its size and no other, and no translations but those:
\* after fork, exec and sbrk, failed ones too; or it has no page at all, which only a sbrk
\* to size 0 does, and what it runs on then is old translations or nothing.
THEOREM SizesAreMapped == Spec => []SizeIsMapped
<1>1. VmInv => SizeIsMapped
  <2> SUFFICES ASSUME VmInv, NEW p \in Procs, state[p] = "RUNNABLE", ~Emptied(p)
               PROVE  ~stale[p] /\ \A a \in UPages : (pgdir[p].pte[a] # None) = (a < Up(sz[p]))
    BY DEF SizeIsMapped
  <2>1. ~NoPages(pgdir[p])
    BY DEF Emptied, NoPages
  <2>2. ~stale[p]
    BY <2>1 DEF VmInv, StaleFits
  <2>3. Pages(pgdir[p], sz[p])
    BY <2>1 DEF VmInv, SpaceInv, SizesFit
  <2> QED
    BY <2>2, <2>3 DEF Pages
<1> QED
  BY <1>1, VmInvariant, PTL

-----------------------------------------------------------------------------
(* Each process has a memory of its own: the refinement of PrivateMemory. A   *)
(* call changes what one process is shown, and none of the frames of others.  *)

Mem == [p \in Procs |-> Shown(content, pgdir[p])]
Size == [p \in Procs |-> Up(sz[p])]
Empty == [a \in UPages |-> "absent"]

\* Where there is a page, there is something in it.
LEMMA NotAbsent == "absent" \notin Words
BY InputsAssumption DEF Words

\* Two page directories show the same if each of their pages does.
LEMMA ShownSame ==
  ASSUME NEW co, NEW pd, NEW cp, NEW qd,
         \A a \in UPages : /\ qd.pte[a] = None <=> pd.pte[a] = None
                           /\ pd.pte[a] # None => cp[qd.pte[a]] = co[pd.pte[a]]
  PROVE  Shown(cp, qd) = Shown(co, pd)
<1>1. ASSUME NEW a \in UPages
      PROVE  (IF qd.pte[a] = None THEN "absent" ELSE cp[qd.pte[a]])
             = IF pd.pte[a] = None THEN "absent" ELSE co[pd.pte[a]]
  <2>1. CASE pd.pte[a] = None
    BY <2>1
  <2>2. CASE pd.pte[a] # None
    BY <2>2
  <2> QED
    BY <2>1, <2>2
<1> QED
  BY <1>1 DEF Shown

\* No page directory, no page
LEMMA ShownNothing ==
  ASSUME NEW co
  PROVE  Shown(co, NoPgdir) = Empty
BY CellNoPgdir DEF Shown, Empty

\* The pages of another process are among what others use.
LEMMA PagesOfOthers ==
  ASSUME SpaceInv, NEW p \in Procs, NEW q \in Procs, p # q, NEW a \in UPages, pgdir[q].pte[a] # None
  PROVE  pgdir[q].pte[a] \in Rest(kstack, pgdir, p)
<1>1. pgdir[q] \in Pgdirs
  BY DEF SpaceInv, VmTypes
<1>2. pgdir[q].pte[a] \in Frames
  BY <1>1 DEF Pgdirs
<1>3. <<"page", a>> \in Slots /\ Cell(pgdir[q])[<<"page", a>>] = pgdir[q].pte[a]
  BY <1>1, CellType DEF Slots
<1>4. pgdir[q].pte[a] \in Full(Cell(pgdir[q]))
  BY <1>1, <1>2, <1>3, FullIs
<1> QED
  BY <1>2, <1>4 DEF Rest, Held

\* A call that changes nothing others use changes one row.
LEMMA OneRow ==
  ASSUME SpaceInv, NEW p \in Procs, \A f \in Rest(kstack, pgdir, p) : content'[f] = content[f],
         \A q \in Procs : q # p => pgdir'[q] = pgdir[q],
         NEW row, Shown(content', pgdir'[p]) = row
  PROVE  Mem' = [Mem EXCEPT ![p] = row]
<1>1. ASSUME NEW q \in Procs, q # p PROVE Shown(content', pgdir'[q]) = Shown(content, pgdir[q])
  <2>1. pgdir'[q] = pgdir[q]
    BY <1>1
  <2>2. \A a \in UPages : pgdir[q].pte[a] # None => content'[pgdir[q].pte[a]] = content[pgdir[q].pte[a]]
    BY <1>1, PagesOfOthers
  <2> QED
    BY <2>1, <2>2, ShownSame
<1>2. Mem' = [q \in Procs |-> Shown(content', pgdir'[q])]
  BY DEF Mem
<1> QED
  BY <1>1, <1>2 DEF Mem

\* A row that shows what it did is no change.
LEMMA SameRow ==
  ASSUME NEW p \in Procs, Mem' = [Mem EXCEPT ![p] = Shown(content, pgdir[p])]
  PROVE  Mem' = Mem
BY DEF Mem

\* What a process is told of its size
LEMMA OneSize ==
  ASSUME SpaceInv, NEW p \in Procs, NEW s, sz' = [sz EXCEPT ![p] = s]
  PROVE  Size' = [Size EXCEPT ![p] = Up(s)]
BY DEF SpaceInv, VmTypes, Size

\* It is a number of pages there may be.
LEMMA SizesThereAre ==
  ASSUME NEW n \in 0 .. KERNBASE
  PROVE  Up(n) \in {0} \cup {a + 1 : a \in UPages}
<1>1. PICK u \in Nat : u = Up(n) /\ u <= Up(KERNBASE)
  BY BelowKernbase, Sizes
<1>2. u # 0 => u - 1 \in UPages /\ u = (u - 1) + 1
  <2>1. PICK k \in Nat : k = Up(KERNBASE)
    BY UpFacts, Sizes
  <2>2. UPages = 0 .. k - 1
    BY <2>1, UpFacts
  <2> QED
    BY <1>1, <2>1, <2>2
<1> QED
  BY <1>1, <1>2

\* A store is seen in one page of one process.
LEMMA StoreIsPrivate ==
  ASSUME SpaceInv, NEW p \in Procs, NEW a \in Stores, Store(p, a)
  PROVE  Private!Store(p, a, "stored")
<1>1. PICK f : f = pgdir[p].pte[a]
  OBVIOUS
<1>2. /\ content' = [content EXCEPT ![f] = "stored"] /\ pgdir[p].user[a]
      /\ UNCHANGED <<free, state, parent, kstack, pgdir, sz>>
  BY <1>1 DEF Store
<1>3. a \in UPages
  BY InputsAssumption
<1>4. /\ f \in Frames /\ f # None /\ f \notin Rest(kstack, pgdir, p) /\ content \in [Frames -> Words]
      /\ \A b \in UPages : b # a /\ pgdir[p].pte[b] # None => pgdir[p].pte[b] # f
  <2>1. Sound(Memory(pgdir[p]), Others(p)) /\ Memory(pgdir[p]).pd = pgdir[p]
    BY SpaceSound
  <2>2. f # None
    BY <1>1, <1>2, <1>3 DEF SpaceInv, PagesMapped, UserMapped
  <2>3. f \in Frames /\ f \notin Others(p)
    BY <1>1, <1>3, <2>1, <2>2, PageFrames
  <2>4. \A b \in UPages : pgdir[p].pte[b] # None /\ pgdir[p].pte[b] = f => b = a
    BY <1>1, <1>3, <2>1, PagesApart
  <2> QED
    BY <2>2, <2>3, <2>4 DEF Others, SpaceInv, VmTypes
<1> DEFINE row == [Mem[p] EXCEPT ![a] = "stored"]
<1>5. Shown(content', pgdir'[p]) = row
  <2>1. content'[f] = "stored" /\ \A g \in Frames : g # f => content'[g] = content[g]
    BY <1>2, <1>4
  <2>2. \A b \in UPages : pgdir[p].pte[b] \in Frames \cup {None}
    BY DEF SpaceInv, VmTypes, Pgdirs
  <2>3. \A b \in UPages : b # a /\ pgdir[p].pte[b] # None => content'[pgdir[p].pte[b]] = content[pgdir[p].pte[b]]
    BY <1>4, <2>1, <2>2
  <2>4. Mem[p] = [b \in UPages |-> IF pgdir[p].pte[b] = None THEN "absent" ELSE content[pgdir[p].pte[b]]]
    BY DEF Mem, Shown
  <2>5. Shown(content', pgdir'[p]) = [b \in UPages |-> IF pgdir[p].pte[b] = None THEN "absent" ELSE content'[pgdir[p].pte[b]]]
    BY <1>2 DEF Shown
  <2> QED
    BY <1>1, <1>3, <1>4, <2>1, <2>3, <2>4, <2>5
<1>6. \A g \in Rest(kstack, pgdir, p) : content'[g] = content[g]
  BY <1>2, <1>4 DEF Rest
<1> HIDE DEF row
<1>7. Mem' = [Mem EXCEPT ![p] = row]
  BY <1>2, <1>5, <1>6, OneRow
<1>8. Mem[p][a] # "absent"
  <2>1. Mem[p][a] = content[f]
    BY <1>1, <1>3, <1>4 DEF Mem, Shown
  <2> QED
    BY <1>4, <2>1, NotAbsent
<1>9. UNCHANGED Size
  BY <1>2 DEF Size
<1> QED
  BY <1>7, <1>8, <1>9 DEF Private!Store, Mem, Size, Shown, row

\* exit changes nothing of it.
LEMMA ExitIsPrivate ==
  ASSUME NEW p \in Procs, Exit(p)
  PROVE  UNCHANGED <<Size, Mem>>
BY DEF Exit, Size, Mem

\* wait ends the child's memory.
LEMMA WaitIsPrivate ==
  ASSUME SpaceInv, NEW p \in Procs, Wait(p)
  PROVE  \E c \in Procs : Private!End(c)
<1>1. PICK c \in Procs :
        /\ state[c] = "ZOMBIE"
        /\ Becomes(Freevm(Kfree(Memory(pgdir[c]), kstack[c])))
        /\ pgdir' = [pgdir EXCEPT ![c] = NoPgdir]
        /\ sz' = [sz EXCEPT ![c] = 0]
  BY DEF Wait
<1>2. PICK b, k, m, n, R : /\ b = Memory(pgdir[c]) /\ k = kstack[c] /\ m = Kfree(b, k) /\ n = Freevm(m)
                           /\ R = Rest(kstack, pgdir, c)
  OBVIOUS
<1>3. k \in Frames /\ k # None
  BY <1>1, <1>2 DEF SpaceInv, UnusedEmpty, VmTypes
<1>4. Sound(b, R \cup {k}) /\ k \notin R /\ b.content = content
  <2>1. Others(c) = R \cup {k}
    BY <1>2, <1>3 DEF Others
  <2> QED
    BY <1>2, <2>1, SpaceSound
<1>5. Sound(m, R) /\ Keeps(b, m, R, UPages)
  BY <1>2, <1>3, <1>4, KfreeSound, KfreeKeeps
<1>6. Keeps(m, n, R, {})
  BY <1>2, <1>5, FreevmSound
<1>7. \A f \in R : content'[f] = content[f]
  BY <1>1, <1>2, <1>4, <1>5, <1>6 DEF Keeps, Becomes
<1>8. /\ \A q \in Procs : q # c => pgdir'[q] = pgdir[q]
      /\ pgdir'[c] = NoPgdir
  BY <1>1 DEF SpaceInv, VmTypes
<1>9. Mem' = [Mem EXCEPT ![c] = Empty]
  <2>1. Shown(content', pgdir'[c]) = Empty
    BY <1>8, ShownNothing
  <2> QED
    BY <1>2, <1>7, <1>8, <2>1, OneRow
<1>10. Size' = [Size EXCEPT ![c] = 0]
  BY <1>1, OneSize, UpFacts
<1> QED
  BY <1>9, <1>10 DEF Private!End, Private!Nothing, Mem, Size, Shown, Empty

\* sbrk upwards: a size, and zeroes up to it, or nothing.
LEMMA SbrkGrowsIsPrivate ==
  ASSUME SpaceInv, NEW p \in Procs, NEW n \in Sbrks, SbrkGrows(p, n)
  PROVE  UNCHANGED <<Size, Mem>> \/ \E s \in {0} \cup {a + 1 : a \in UPages} : Private!Grow(p, s)
<1>1. PICK g, newsz, m, U, oldsz, old :
         /\ g = Allocuvm(m, oldsz, newsz) /\ newsz = Uint(sz[p] + n)
         /\ m = Memory(old) /\ U = Others(p) /\ oldsz = sz[p] /\ old = pgdir[p]
  OBVIOUS
<1>2. /\ Becomes(g.m) /\ pgdir' = [pgdir EXCEPT ![p] = g.m.pd]
      /\ sz' = IF g.size = 0 THEN sz ELSE [sz EXCEPT ![p] = g.size]
  BY <1>1 DEF SbrkGrows
<1>3. Pages(old, oldsz)
  BY <1>1, RunnerHasPages DEF SbrkGrows
<1>4. /\ Sound(m, U) /\ m.ok /\ m.pd = old /\ m.content = content /\ oldsz \in 0 .. KERNBASE
      /\ Rest(kstack, pgdir, p) \subseteq U
  BY <1>1, SpaceSound DEF Others
<1>5. newsz \in Nat
  <2>1. PICK s \in Int, u \in Nat : s = sz[p] + n /\ u = UintRange /\ u > 0
    BY <1>1, <1>4, InputsAssumption, Sizes
  <2>2. s % u \in Nat
    BY <2>1
  <2> QED
    BY <1>1, <2>1, <2>2 DEF Uint
<1>6. Allocates(m, g, U, oldsz, newsz)
  <2>1. Pages(m.pd, oldsz) /\ g = Allocuvm(m, oldsz, newsz)
    BY <1>1, <1>3, <1>4
  <2> QED
    BY ONLY <1>4, <1>5, <2>1, AllocuvmSound
<1>7. /\ \A f \in Rest(kstack, pgdir, p) : content'[f] = content[f]
      /\ \A q \in Procs : q # p => pgdir'[q] = pgdir[q]
      /\ pgdir'[p] = g.m.pd /\ content' = g.m.content
  BY <1>2, <1>4, <1>6 DEF Allocates, Keeps, Becomes, SpaceInv, VmTypes
<1>8. \A a \in UPages : a < Up(oldsz) => /\ g.m.pd.pte[a] = old.pte[a] /\ old.pte[a] # None
                                       /\ content'[old.pte[a]] = content[old.pte[a]]
  BY <1>3, <1>4, <1>6, <1>7 DEF Allocates, Keeps, Pages
<1>9. CASE g.size = 0
  <2>1. \A a \in UPages : (g.m.pd.pte[a] # None <=> a < Up(oldsz)) /\ (old.pte[a] # None <=> a < Up(oldsz))
    BY <1>3, <1>6, <1>9 DEF Allocates, Pages
  <2>2. Shown(content', g.m.pd) = Shown(content, old)
    BY <1>8, <2>1, ShownSame
  <2>3. Mem' = [Mem EXCEPT ![p] = Shown(content, pgdir[p])]
    BY <1>1, <1>7, <2>2, OneRow
  <2>4. Mem' = Mem
    BY <2>3, SameRow
  <2>5. Size' = Size
    BY <1>2, <1>9 DEF Size
  <2> QED
    BY <2>4, <2>5
<1>10. CASE g.size # 0
  <2>1. PICK t \in Nat, s \in Nat : t = Up(oldsz) /\ s = Up(g.size) /\ t <= s
    <3>1. oldsz \in Nat /\ g.size \in Nat /\ oldsz <= g.size
      BY <1>4, <1>6, <1>10, Sizes DEF Allocates
    <3> QED
      BY <3>1, UpFacts
  <2> DEFINE row == [a \in UPages |-> IF a \in t .. s - 1 THEN "zero" ELSE Mem[p][a]]
  <2>2. Shown(content', g.m.pd) = row
    <3>1. ASSUME NEW a \in UPages
          PROVE  (IF g.m.pd.pte[a] = None THEN "absent" ELSE content'[g.m.pd.pte[a]])
                 = IF a \in t .. s - 1 THEN "zero" ELSE Mem[p][a]
      <4>1. a \in Nat
        BY Sizes
      <4>2. /\ g.m.pd.pte[a] # None <=> a < s
            /\ old.pte[a] # None <=> a < t
        BY <1>3, <1>6, <1>10, <2>1 DEF Allocates, Pages
      <4>3. Mem[p][a] = IF old.pte[a] = None THEN "absent" ELSE content[old.pte[a]]
        BY <1>1 DEF Mem, Shown
      <4>4. CASE a < t
        <5>1. a < s /\ ~(a \in t .. s - 1)
          BY <2>1, <4>1, <4>4
        <5> QED
          BY <1>8, <2>1, <4>2, <4>3, <4>4, <5>1
      <4>5. CASE ~(a < t) /\ a < s
        <5>1. t <= a /\ a \in t .. s - 1
          BY <2>1, <4>1, <4>5
        <5>2. g.m.content[g.m.pd.pte[a]] = "zero"
          BY <1>6, <1>10, <2>1, <4>5, <5>1 DEF Allocates
        <5> QED
          BY <1>7, <4>2, <4>5, <5>1, <5>2
      <4>6. CASE ~(a < s)
        <5>1. ~(a < t) /\ ~(a \in t .. s - 1)
          BY <2>1, <4>1, <4>6
        <5> QED
          BY <4>2, <4>3, <4>6, <5>1
      <4> QED
        BY <4>4, <4>5, <4>6
    <3> QED
      BY <3>1 DEF Shown
  <2> HIDE DEF row
  <2>3. Mem' = [Mem EXCEPT ![p] = row]
    BY <1>7, <2>2, OneRow
  <2>4. Size' = [Size EXCEPT ![p] = s] /\ Size[p] = t
    <3>1. sz' = [sz EXCEPT ![p] = g.size]
      BY <1>2, <1>10
    <3> QED
      BY <1>1, <2>1, <3>1, OneSize DEF Size
  <2>5. s \in {0} \cup {a + 1 : a \in UPages}
    BY <1>6, <2>1, SizesThereAre DEF Allocates
  <2>6. Private!Grow(p, s)
    BY <2>1, <2>3, <2>4 DEF Private!Grow, Mem, Size, Shown, row
  <2> QED
    BY <2>5, <2>6
<1> QED
  BY <1>9, <1>10

\* sbrk downwards: the pages above the new size go, or nothing changes.
LEMMA SbrkShrinksIsPrivate ==
  ASSUME SpaceInv, NEW p \in Procs, NEW n \in Sbrks, SbrkShrinks(p, n)
  PROVE  UNCHANGED <<Size, Mem>> \/ \E s \in {0} \cup {a + 1 : a \in UPages} : Private!Shrink(p, s)
<1>1. PICK newsz, b, m, U, oldsz, old :
         /\ newsz = Uint(sz[p] + n) /\ b = Memory(old) /\ U = Others(p) /\ oldsz = sz[p] /\ old = pgdir[p]
         /\ m = IF newsz >= oldsz THEN b ELSE Deallocuvm(b, oldsz, newsz)
  OBVIOUS
<1>2. /\ Becomes(m) /\ pgdir' = [pgdir EXCEPT ![p] = m.pd]
      /\ sz' = IF newsz = 0 \/ newsz >= oldsz THEN sz ELSE [sz EXCEPT ![p] = newsz]
  BY <1>1 DEF SbrkShrinks
<1>3. Pages(old, oldsz)
  BY <1>1, RunnerHasPages DEF SbrkShrinks
<1>4. /\ Sound(b, U) /\ b.pd = old /\ b.content = content /\ oldsz \in 0 .. KERNBASE
      /\ KERNBASE \in Nat /\ Rest(kstack, pgdir, p) \subseteq U
  BY <1>1, SpaceSound, Sizes DEF Others
<1>5. newsz \in Nat
  <2>1. PICK s \in Int, u \in Nat : s = oldsz + n /\ u = UintRange /\ u > 0
    BY <1>4, InputsAssumption, Sizes
  <2>2. s % u \in Nat
    BY <2>1
  <2> QED
    BY <1>1, <2>1, <2>2 DEF Uint
<1>6. /\ \A q \in Procs : q # p => pgdir'[q] = pgdir[q]
      /\ pgdir'[p] = m.pd /\ content' = m.content
  BY <1>2 DEF Becomes, SpaceInv, VmTypes
<1>7. CASE newsz >= oldsz
  <2>1. m = b
    BY <1>1, <1>7
  <2>2. Mem' = [Mem EXCEPT ![p] = Shown(content, pgdir[p])]
    BY <1>1, <1>4, <1>6, <2>1, OneRow
  <2>3. Mem' = Mem
    BY <2>2, SameRow
  <2>4. Size' = Size
    BY <1>2, <1>7 DEF Size
  <2> QED
    BY <2>3, <2>4
<1>8. CASE ~(newsz >= oldsz)
  <2>1. newsz \in 0 .. KERNBASE /\ newsz <= oldsz /\ oldsz \in Nat
    BY <1>4, <1>5, <1>8
  <2>2. m = Deallocuvm(b, oldsz, newsz)
    BY <1>1, <1>8
  <2>3. /\ Keeps(b, m, U, {a \in UPages : a < Up(newsz) \/ a >= Up(oldsz)})
        /\ \A a \in UPages : Up(newsz) <= a /\ a < Up(oldsz) => m.pd.pte[a] = None
    BY <1>4, <2>1, <2>2, DeallocuvmSound
  <2>4. PICK s \in Nat, t \in Nat : s = Up(newsz) /\ t = Up(oldsz) /\ s <= t /\ (s = 0 <=> newsz = 0)
    BY <1>5, <2>1, UpFacts
  <2> DEFINE row == [a \in UPages |-> IF a < s THEN Mem[p][a] ELSE "absent"]
  <2>5. Shown(content', m.pd) = row
    <3>1. ASSUME NEW a \in UPages
          PROVE  (IF m.pd.pte[a] = None THEN "absent" ELSE content'[m.pd.pte[a]])
                 = IF a < s THEN Mem[p][a] ELSE "absent"
      <4>1. a \in Nat
        BY Sizes
      <4>2. old.pte[a] # None <=> a < t
        BY <1>3, <2>4 DEF Pages
      <4>3. Mem[p][a] = IF old.pte[a] = None THEN "absent" ELSE content[old.pte[a]]
        BY <1>1 DEF Mem, Shown
      <4>4. CASE a < s
        <5>1. a < t
          BY <2>4, <4>1, <4>4
        <5>2. m.pd.pte[a] = old.pte[a] /\ m.content[old.pte[a]] = content[old.pte[a]]
          BY <1>4, <2>3, <2>4, <4>2, <4>4, <5>1 DEF Keeps
        <5> QED
          BY <1>6, <4>2, <4>3, <4>4, <5>1, <5>2
      <4>5. CASE ~(a < s) /\ a < t
        BY <2>3, <2>4, <4>1, <4>5
      <4>6. CASE ~(a < t)
        <5>1. a >= t /\ ~(a < s)
          BY <2>4, <4>1, <4>6
        <5>2. m.pd.pte[a] = old.pte[a]
          BY <1>4, <2>3, <2>4, <5>1 DEF Keeps
        <5> QED
          BY <4>2, <4>6, <5>1, <5>2
      <4> QED
        BY <4>4, <4>5, <4>6
    <3> QED
      BY <3>1 DEF Shown
  <2> HIDE DEF row
  <2>6. \A f \in Rest(kstack, pgdir, p) : content'[f] = content[f]
    BY <1>4, <1>6, <2>3 DEF Keeps
  <2>7. Mem' = [Mem EXCEPT ![p] = row]
    BY <1>6, <2>5, <2>6, OneRow
  <2>8. Size[p] = t /\ Size' = IF s = 0 THEN Size ELSE [Size EXCEPT ![p] = s]
    <3>1. CASE s = 0
      BY <1>1, <1>2, <2>4, <3>1 DEF Size
    <3>2. CASE s # 0
      <4>1. sz' = [sz EXCEPT ![p] = newsz]
        BY <1>2, <1>8, <2>4, <3>2
      <4> QED
        BY <1>1, <2>4, <3>2, <4>1, OneSize DEF Size
    <3> QED
      BY <3>1, <3>2
  <2>9. s \in {0} \cup {a + 1 : a \in UPages}
    BY <2>1, <2>4, SizesThereAre
  <2>10. Private!Shrink(p, s)
    BY <2>4, <2>7, <2>8 DEF Private!Shrink, Mem, Size, Shown, row
  <2> QED
    BY <2>9, <2>10
<1> QED
  BY <1>7, <1>8

\* fork: the child has what the parent has, or nothing changes.
LEMMA ForkIsPrivate ==
  ASSUME SpaceInv, NEW p \in Procs, Fork(p)
  PROVE  UNCHANGED <<Size, Mem>> \/ \E c \in Procs : Private!Fork(p, c)
<1>1. PICK c \in Procs :
        /\ state[c] = "UNUSED" /\ ~NoneFree(free)
        /\ \E m \in {Copyuvm(Kalloc(Memory(NoPgdir), "stack"), pgdir[p], sz[p])} :
             IF m.ok
             THEN /\ Becomes(m)
                  /\ pgdir' = [pgdir EXCEPT ![c] = m.pd]
                  /\ sz' = [sz EXCEPT ![c] = sz[p]]
             ELSE /\ Becomes(Kfree(m, Top(free)))
                  /\ UNCHANGED <<state, parent, kstack, pgdir, sz>>
  BY DEF Fork
<1>2. pgdir[c] = NoPgdir /\ kstack[c] = None /\ c # p
  BY <1>1 DEF SpaceInv, UnusedEmpty, Fork, Runs
<1>3. Pages(pgdir[p], sz[p]) /\ pgdir[p] \in Pgdirs /\ sz[p] \in 0 .. KERNBASE
  BY RunnerHasPages, SpaceSound DEF Fork
<1>4. PICK b, k, f, m, R, U, old, size :
        /\ b = Memory(NoPgdir) /\ k = Kalloc(b, "stack") /\ f = Top(free)
        /\ old = pgdir[p] /\ size = sz[p]
        /\ m = Copyuvm(k, old, size) /\ R = Rest(kstack, pgdir, c) /\ U = R \cup {f}
  OBVIOUS
<1>5. Sound(b, R) /\ b.pd = NoPgdir /\ b.ok /\ b.free = free /\ b.content = content
  <2>1. Others(c) = R
    BY <1>2, <1>4 DEF Others
  <2> QED
    BY <1>2, <1>4, <2>1, SpaceSound
<1>6. f \in Frames /\ f \notin R /\ Sound(k, U) /\ k.pd = NoPgdir /\ k.ok /\ Keeps(b, k, R, UPages)
  <2>1. PICK what : what = "stack"
    OBVIOUS
  <2>2. Sound(b, R) /\ ~NoneFree(b.free) /\ what \in Words /\ k = Kalloc(b, what) /\ f = Top(b.free)
    BY <1>1, <1>4, <1>5, <2>1, WordsKnown
  <2>3. f \in Frames /\ f \notin R /\ Sound(k, R \cup {f}) /\ k.pd = b.pd /\ k.ok = b.ok
    BY ONLY <2>2, KallocSound
  <2>4. Keeps(b, k, R, UPages)
    BY ONLY <2>2, KallocKeeps
  <2> QED
    BY <1>4, <1>5, <2>3, <2>4
<1>7. \A a \in UPages : old.pte[a] # None => old.pte[a] \in R
  BY <1>2, <1>4, PagesOfOthers
<1>8. /\ Sound(m, U) /\ Keeps(k, m, U, {})
      /\ m.ok => /\ Pages(m.pd, size)
                 /\ \A a \in UPages : a < Up(size) => m.content[m.pd.pte[a]] = k.content[old.pte[a]]
  <2>1. /\ Sound(k, U) /\ k.ok /\ k.pd = NoPgdir /\ old \in Pgdirs /\ size \in 0 .. KERNBASE
        /\ Pages(old, size) /\ m = Copyuvm(k, old, size)
        /\ \A a \in UPages : old.pte[a] # None => old.pte[a] \in U
    BY <1>3, <1>4, <1>6, <1>7
  <2> QED
    BY ONLY <2>1, CopyuvmSound
<1>9. \A g \in R : k.content[g] = content[g] /\ m.content[g] = content[g]
  BY <1>4, <1>5, <1>6, <1>8 DEF Keeps
<1>10. CASE m.ok
  <2>1. Becomes(m) /\ pgdir' = [pgdir EXCEPT ![c] = m.pd] /\ sz' = [sz EXCEPT ![c] = sz[p]]
    BY <1>1, <1>4, <1>10
  <2>2. /\ \A g \in Rest(kstack, pgdir, c) : content'[g] = content[g]
        /\ \A q \in Procs : q # c => pgdir'[q] = pgdir[q]
        /\ pgdir'[c] = m.pd /\ content' = m.content
    BY <1>4, <1>9, <2>1 DEF Becomes, SpaceInv, VmTypes
  <2>3. Shown(content', pgdir'[c]) = Shown(content, old)
    <3>1. ASSUME NEW a \in UPages
          PROVE  /\ m.pd.pte[a] = None <=> old.pte[a] = None
                 /\ old.pte[a] # None => m.content[m.pd.pte[a]] = content[old.pte[a]]
      BY <1>3, <1>4, <1>7, <1>8, <1>9, <1>10 DEF Pages
    <3> QED
      BY <2>2, <3>1, ShownSame
  <2>4. Mem' = [Mem EXCEPT ![c] = Mem[p]] /\ Mem[c] = Empty
    <3>1. Mem[p] = Shown(content, old) /\ Mem[c] = Empty
      BY <1>2, <1>4, ShownNothing DEF Mem
    <3> QED
      BY <2>2, <2>3, <3>1, OneRow
  <2>5. Size' = [Size EXCEPT ![c] = Size[p]]
    BY <2>1, OneSize DEF Size
  <2>6. Private!Fork(p, c)
    BY <2>4, <2>5 DEF Private!Fork, Private!Nothing, Mem, Size, Shown, Empty
  <2> QED
    BY <2>6
<1>11. CASE ~m.ok
  <2>1. PICK n : n = Kfree(m, f)
    OBVIOUS
  <2>2. Becomes(n) /\ UNCHANGED <<kstack, pgdir, sz>>
    BY <1>1, <1>4, <1>11, <2>1
  <2>3. Keeps(m, n, R, UPages)
    BY <1>4, <1>6, <1>8, <2>1, KfreeKeeps
  <2>4. /\ \A g \in Rest(kstack, pgdir, c) : content'[g] = content[g]
        /\ \A q \in Procs : q # c => pgdir'[q] = pgdir[q]
    BY <1>4, <1>9, <2>2, <2>3 DEF Becomes, Keeps
  <2>5. Shown(content', pgdir'[c]) = Shown(content, pgdir[c])
    BY <1>2, <2>2, ShownNothing
  <2>6. Mem' = [Mem EXCEPT ![c] = Shown(content, pgdir[c])]
    BY <2>4, <2>5, OneRow
  <2> QED
    BY <2>2, <2>6, SameRow DEF Size
<1> QED
  BY <1>10, <1>11

\* exec: what the file says, or nothing changes.
LEMMA ExecIsPrivate ==
  ASSUME SpaceInv, NEW p \in Procs, NEW image \in Images, Exec(p, image)
  PROVE  UNCHANGED <<Size, Mem>> \/ Private!Exec(p, Layout(image))
<1>1. PICK b, x, old, V, W : /\ b = Memory(NoPgdir) /\ x = NewImage(b, image)
                             /\ old = pgdir[p] /\ V = Others(p) /\ W = V \cup Full(Cell(old))
  OBVIOUS
<1>2. IF x.m.ok
      THEN /\ Becomes(Freevm([x.m EXCEPT !.pd = old]))
           /\ pgdir' = [pgdir EXCEPT ![p] = x.m.pd]
           /\ sz' = [sz EXCEPT ![p] = x.size]
      ELSE Becomes(x.m) /\ UNCHANGED <<pgdir, sz>>
  BY <1>1 DEF Exec
<1>3. /\ Sound(b, W) /\ V \cap Full(Cell(old)) = {} /\ b.pd = NoPgdir /\ b.ok /\ b.content = content
  BY <1>1, BesideOld DEF Memory
<1>4. Made(b, x, W, image)
  BY <1>1, <1>3, NewImageSound
<1>5. old \in Pgdirs /\ Rest(kstack, pgdir, p) \subseteq V /\ pgdir \in [Procs -> Pgdirs]
  BY <1>1, SpaceSound DEF SpaceInv, VmTypes, Others
<1>6. /\ UserMapped(old)
      /\ \A s, t \in Slots : Cell(old)[s] \in Frames /\ Cell(old)[s] = Cell(old)[t] => s = t
  BY <1>1 DEF SpaceInv, PagesMapped, FramesSplit, Splits
<1>7. PICK m, n : m = x.m /\ n = [m EXCEPT !.pd = old]
  OBVIOUS
<1>8. Sound(m, W) /\ \A g \in W : m.content[g] = content[g]
  BY <1>3, <1>4, <1>7 DEF Made, Keeps
<1>9. CASE m.ok
  <2>1. PICK o, new, F : o = Freevm(n) /\ new = m.pd /\ F = V \cup Full(Cell(new))
    OBVIOUS
  <2>2. Becomes(o) /\ pgdir' = [pgdir EXCEPT ![p] = new] /\ sz' = [sz EXCEPT ![p] = x.size]
    BY <1>2, <1>7, <1>9, <2>1
  <2>3. Sound(n, F) /\ n.content = m.content
    <3>1. LooksAt(m, n, V, old)
      BY <1>1, <1>3, <1>5, <1>6, <1>7, <1>8, LookAt
    <3> QED
      BY <2>1, <3>1 DEF LooksAt
  <2>4. Keeps(n, o, F, {})
    BY <2>1, <2>3, FreevmSound
  <2>5. \A g \in F : content'[g] = m.content[g]
    BY <2>2, <2>3, <2>4 DEF Keeps, Becomes
  <2>6. \A g \in Rest(kstack, pgdir, p) : content'[g] = content[g]
    BY <1>1, <1>5, <1>8, <2>1, <2>5
  <2>7. \A a \in UPages : new.pte[a] # None => new.pte[a] \in F
    <3>1. new \in Pgdirs
      BY <1>8, <2>1, MemoryType DEF Sound
    <3> SUFFICES ASSUME NEW a \in UPages, new.pte[a] # None PROVE new.pte[a] \in F
      OBVIOUS
    <3>2. new.pte[a] \in Frames
      BY <3>1 DEF Pgdirs
    <3>3. <<"page", a>> \in Slots /\ Cell(new)[<<"page", a>>] = new.pte[a]
      BY <3>1, CellType DEF Slots
    <3> QED
      BY <2>1, <3>1, <3>2, <3>3, FullIs
  <2>8. Shown(content', new) = Layout(image).memory
    <3>1. Shown(content', new) = Shown(m.content, new)
      BY <2>5, <2>7, ShownSame
    <3> QED
      BY <1>4, <1>7, <1>9, <2>1, <3>1 DEF Made
  <2>9. /\ \A q \in Procs : q # p => pgdir'[q] = pgdir[q]
        /\ pgdir'[p] = new
    BY <1>5, <2>2
  <2>10. PICK row : row = Layout(image).memory
    OBVIOUS
  <2>11. Mem' = [Mem EXCEPT ![p] = row]
    BY <2>6, <2>8, <2>9, <2>10, OneRow
  <2>12. Size' = [Size EXCEPT ![p] = Layout(image).size]
    <3>1. Up(x.size) = Layout(image).size
      BY <1>4, <1>7, <1>9 DEF Made
    <3> QED
      BY <2>2, <3>1, OneSize
  <2>13. Private!Exec(p, Layout(image))
    BY <2>10, <2>11, <2>12 DEF Private!Exec, Mem, Size, Shown
  <2> QED
    BY <2>13
<1>10. CASE ~m.ok
  <2>1. Becomes(m) /\ UNCHANGED <<pgdir, sz>>
    BY <1>2, <1>7, <1>10
  <2>2. \A a \in UPages : old.pte[a] # None => old.pte[a] \in W
    <3> SUFFICES ASSUME NEW a \in UPages, old.pte[a] # None PROVE old.pte[a] \in W
      OBVIOUS
    <3>1. old.pte[a] \in Frames
      BY <1>5 DEF Pgdirs
    <3>2. <<"page", a>> \in Slots /\ Cell(old)[<<"page", a>>] = old.pte[a]
      BY <1>5, CellType DEF Slots
    <3> QED
      BY <1>1, <1>5, <3>1, <3>2, FullIs
  <2>3. Shown(content', pgdir'[p]) = Shown(content, pgdir[p])
    <3>1. content' = m.content /\ pgdir'[p] = old /\ pgdir[p] = old
      BY <1>1, <2>1 DEF Becomes
    <3> QED
      BY <1>8, <2>2, <3>1, ShownSame
  <2>4. \A g \in Rest(kstack, pgdir, p) : content'[g] = content[g]
    BY <1>1, <1>5, <1>8, <2>1 DEF Becomes
  <2>5. Mem' = [Mem EXCEPT ![p] = Shown(content, pgdir[p])]
    BY <2>1, <2>3, <2>4, OneRow
  <2> QED
    BY <2>1, <2>5, SameRow DEF Size
<1> QED
  BY <1>9, <1>10

\* userinit: the first process has the page with its program, the others have none.
LEMMA InitIsPrivate == Init => Private!Init
<1> SUFFICES ASSUME Init PROVE Private!Init
  OBVIOUS
<1>1. PICK m : /\ m = AddPage(Setupkvm(Kalloc(Freerange, "stack")), 0, "initcode", TRUE)
               /\ m.ok
               /\ content = m.content
               /\ pgdir = [p \in Procs |-> IF p = 1 THEN m.pd ELSE NoPgdir]
               /\ sz = [p \in Procs |-> IF p = 1 THEN PGSIZE ELSE 0]
  BY DEF Init
<1>2. Pages(m.pd, PGSIZE) /\ At(m, 0) = "initcode" /\ Up(PGSIZE) = 1 /\ 0 \in UPages
  BY <1>1, UserinitSound
<1>3. Shown(content, m.pd) = InitCode.memory /\ InitCode.size = 1
  <2>1. ASSUME NEW a \in UPages
        PROVE  (IF m.pd.pte[a] = None THEN "absent" ELSE m.content[m.pd.pte[a]])
               = IF a = 0 THEN "initcode" ELSE "absent"
    <3>1. a \in Nat /\ (m.pd.pte[a] # None <=> a < 1)
      BY <1>2, Sizes DEF Pages
    <3> QED
      BY <1>2, <3>1 DEF At
  <2> QED
    BY <1>1, <2>1 DEF Shown, InitCode
<1>4. 1 \in Procs
  BY Sizes DEF Procs
<1>5. Mem = [q \in Procs |-> IF q = 1 THEN InitCode.memory ELSE Empty]
  BY <1>1, <1>3, ShownNothing DEF Mem
<1>6. Size = [q \in Procs |-> IF q = 1 THEN InitCode.size ELSE 0]
  BY <1>1, <1>2, <1>3, UpFacts DEF Size
<1>7. PICK program : program = InitCode
  OBVIOUS
<1>8. program \in {Layout(image) : image \in Images} \cup {InitCode}
  BY <1>7
<1> QED
  BY <1>4, <1>5, <1>6, <1>7, <1>8 DEF Private!Init, Private!Nothing, Mem, Size, Shown, Empty

\* Every step is one of PrivateMemory, or changes nothing of it.
LEMMA NextIsPrivate ==
  ASSUME SpaceInv, [Next]_vars
  PROVE  [Private!Next]_(Private!mvars)
<1>1. SUFFICES Private!Next \/ UNCHANGED <<Size, Mem>>
  BY DEF Private!mvars, Mem, Size, Shown
<1>2. ASSUME NEW p \in Procs, Fork(p) PROVE Private!Next \/ UNCHANGED <<Size, Mem>>
  BY <1>2, ForkIsPrivate DEF Private!Next
<1>3. ASSUME NEW p \in Procs, Exit(p) PROVE Private!Next \/ UNCHANGED <<Size, Mem>>
  BY <1>3, ExitIsPrivate
<1>4. ASSUME NEW p \in Procs, Wait(p) PROVE Private!Next \/ UNCHANGED <<Size, Mem>>
  BY <1>4, WaitIsPrivate DEF Private!Next
<1>5. ASSUME NEW p \in Procs, NEW image \in Images, Exec(p, image) PROVE Private!Next \/ UNCHANGED <<Size, Mem>>
  BY <1>5, ExecIsPrivate DEF Private!Next
<1>6. ASSUME NEW p \in Procs, NEW a \in Stores, Store(p, a) PROVE Private!Next \/ UNCHANGED <<Size, Mem>>
  <2>1. a \in UPages
    BY InputsAssumption
  <2> QED
    BY <1>6, <2>1, StoreIsPrivate DEF Private!Next
<1>7. ASSUME NEW p \in Procs, NEW n \in Sbrks, SbrkGrows(p, n) PROVE Private!Next \/ UNCHANGED <<Size, Mem>>
  BY <1>7, SbrkGrowsIsPrivate DEF Private!Next
<1>8. ASSUME NEW p \in Procs, NEW n \in Sbrks, SbrkShrinks(p, n) PROVE Private!Next \/ UNCHANGED <<Size, Mem>>
  BY <1>8, SbrkShrinksIsPrivate DEF Private!Next
<1>9. ASSUME NEW p \in Procs, RunsOn(p) \/ Yield(p) PROVE UNCHANGED <<Size, Mem>>
  <2>1. UNCHANGED <<content, pgdir, sz>>
    BY <1>9 DEF RunsOn, Yield
  <2> QED
    BY <2>1 DEF Size, Mem
<1>10. CASE UNCHANGED vars
  BY <1>10 DEF vars, Size, Mem
<1> QED
  BY <1>2, <1>3, <1>4, <1>5, <1>6, <1>7, <1>8, <1>9, <1>10 DEF Next

\* Each process has a memory of its own, whatever page tables and frames are behind it: a
\* child gets a copy of the whole, exec what the file says, sbrk zeroes, and a call that
\* fails, for want of memory at any point of it or of a good image, changes nothing for anybody.
THEOREM VmIsPrivateMemory == Spec => ImplementsPrivateMemory
<1>1. Init => Private!Init
  BY InitIsPrivate
<1>2. SpaceInv /\ [Next]_vars => [Private!Next]_(Private!mvars)
  BY NextIsPrivate
<1> QED
  BY <1>1, <1>2, SpaceInvariant, PTL DEF Spec, ImplementsPrivateMemory, Private!Spec

=============================================================================
