----------------------------- MODULE PagerProofs -----------------------------
(***************************************************************************)
(* Demand paging: the list of pages in memory, the entries and the page    *)
(* table agree after every move of a page, and the limits of allocuvm hold, *)
(* for any sizes of memory, of the swap file and of the address space.     *)
(***************************************************************************)
EXTENDS Pager, FiniteSetTheorems, WellFoundedInduction, TLAPS

-----------------------------------------------------------------------------
(* Numbers                                                                 *)

\* A set of natural numbers has a least element.
LEMMA Least ==
  ASSUME NEW T \in SUBSET Nat, T # {}
  PROVE  \E k \in T : \A j \in T : k <= j
<1>1. \E k \in T : \A j \in T : ~(<<j, k>> \in OpToRel(<, Nat))
  BY NatLessThanWellFounded, WFMin
<1>2. PICK k \in T : \A j \in T : ~(<<j, k>> \in OpToRel(<, Nat))
  BY <1>1
<1>3. ASSUME NEW j \in T, j < k PROVE FALSE
  <2>1. <<j, k>> \in OpToRel(<, Nat)
    BY <1>3 DEF OpToRel
  <2> QED
    BY <1>2, <2>1
<1>4. \A j \in T : k <= j
  BY <1>3
<1> QED
  BY <1>4

\* Induction, over a set of numbers.
LEMMA Induction ==
  ASSUME NEW S, 0 \in S, \A k \in Nat : k \in S => k + 1 \in S
  PROVE  \A k \in Nat : k \in S
<1> SUFFICES ASSUME Nat \ S # {} PROVE FALSE
  OBVIOUS
<1>1. PICK k \in Nat \ S : \A j \in Nat \ S : k <= j
  BY Least
<1>2. k # 0 /\ k - 1 \in Nat /\ k - 1 \notin Nat \ S
  BY <1>1
<1> QED
  BY <1>1, <1>2

-----------------------------------------------------------------------------
Entry == [va : Pages \cup {NoPage}, st : 0 .. 2, off : Slots \cup {NoSlot},
          cnt : 0 .. MaxTime, next : Entries \cup {Nil}, prev : Entries \cup {Nil}]

\* The values of m.
Memory == [pte : [Pages -> {"none", "present", "paged"}],
           frame : [Pages -> Pages \cup {NoPage}],
           disk : [Slots -> Pages \cup {NoPage}],
           ent : [Entries -> Entry],
           head : Entries \cup {Nil},
           mem : Nat,
           file : 0 .. Cardinality(Slots)]

St(x, k) == {f \in Entries : x.ent[f].st = k}

\* The list as a sequence: entries L[1] .. L[N], each once, each linked to its
\* neighbours, and nothing else linked.
Chain(x, N, L) ==
  /\ \A i, j \in 1 .. N : L[i] = L[j] => i = j
  /\ x.head = IF N = 0 THEN Nil ELSE L[1]
  /\ \A i \in 1 .. N : /\ x.ent[L[i]].next = IF i = N THEN Nil ELSE L[i + 1]
                       /\ x.ent[L[i]].prev = IF i = 1 THEN Nil ELSE L[i - 1]
  /\ \A f \in Entries : (\A i \in 1 .. N : L[i] # f) => x.ent[f].next = Nil /\ x.ent[f].prev = Nil

\* S is the set of entries on the list.
Linked(x, S) ==
  \E N \in Nat : \E L \in [1 .. N -> Entries] : Chain(x, N, L) /\ S = {L[i] : i \in 1 .. N}

\* x and y differ in the links at most.
SameData(x, y) ==
  /\ y.pte = x.pte /\ y.frame = x.frame /\ y.disk = x.disk /\ y.mem = x.mem /\ y.file = x.file
  /\ \A f \in Entries : /\ y.ent[f].va = x.ent[f].va /\ y.ent[f].st = x.ent[f].st
                        /\ y.ent[f].off = x.ent[f].off /\ y.ent[f].cnt = x.ent[f].cnt

-----------------------------------------------------------------------------
(* The list.                                                               *)

\* What the assumption says of the sizes.
LEMMA PagerSizes ==
  /\ MaxPhys \in Nat /\ MaxPhys > 1 /\ MaxTotal \in Nat /\ MaxTotal > MaxPhys
  /\ Top \in Nat /\ Top > 0 /\ MaxTime \in Nat
  /\ 1 \in Entries /\ Nil \notin Entries /\ NoPage \notin Pages /\ NoSlot \notin Slots /\ 0 \in Slots
  /\ IsFiniteSet(Entries) /\ Cardinality(Entries) = MaxTotal
  /\ IsFiniteSet(Slots) /\ Cardinality(Slots) = MaxTotal - MaxPhys
  /\ Cardinality(Slots) \in Nat
<1>1. /\ MaxPhys \in Nat /\ MaxPhys > 1 /\ MaxTotal \in Nat /\ MaxTotal > MaxPhys
      /\ Top \in Nat /\ Top > 0 /\ MaxTime \in Nat
  BY PagerAssumption
<1>2. 1 \in Entries /\ Nil \notin Entries /\ NoPage \notin Pages /\ NoSlot \notin Slots /\ 0 \in Slots
  BY <1>1 DEF Entries, Nil, NoPage, Pages, NoSlot, Slots
<1>3. IsFiniteSet(Entries) /\ Cardinality(Entries) = MaxTotal
  BY <1>1, FS_Interval DEF Entries
<1>4. IsFiniteSet(Slots) /\ Cardinality(Slots) = MaxTotal - MaxPhys
  <2>1. PICK b \in Int : b = MaxTotal - MaxPhys - 1 /\ 0 <= b /\ b - 0 + 1 = MaxTotal - MaxPhys
    BY <1>1
  <2>2. IsFiniteSet(0 .. b) /\ Cardinality(0 .. b) = b - 0 + 1
    BY <2>1, FS_Interval
  <2> QED
    BY <2>1, <2>2 DEF Slots
<1> QED
  BY <1>1, <1>2, <1>3, <1>4

\* What updateListPointers does to each link.
LEMMA UnlinkLinks ==
  ASSUME NEW x \in Memory, NEW e \in Entries,
         NEW p, p = x.ent[e].prev, NEW n, n = x.ent[e].next, p # e, n # e, NEW y, y = Unlink(x, e)
  PROVE  /\ y \in Memory /\ SameData(x, y)
         /\ y.head = IF p = Nil THEN n ELSE x.head
         /\ \A f \in Entries :
              /\ y.ent[f].next = IF f = e THEN Nil ELSE IF f = p THEN n ELSE x.ent[f].next
              /\ y.ent[f].prev = IF f = e THEN Nil ELSE IF f = n THEN p ELSE x.ent[f].prev
<1> DEFINE ent1 == IF p # Nil THEN [x.ent EXCEPT ![p].next = n] ELSE x.ent
           ent2 == IF n # Nil THEN [ent1 EXCEPT ![n].prev = p] ELSE ent1
           ent3 == [ent2 EXCEPT ![e].prev = Nil, ![e].next = Nil]
           h == IF p = Nil THEN n ELSE x.head
<1>1. x.ent \in [Entries -> Entry] /\ p \in Entries \cup {Nil} /\ n \in Entries \cup {Nil} /\ Nil \notin Entries
  BY PagerSizes DEF Memory, Entry
<1>2. /\ ent1 \in [Entries -> Entry]
      /\ \A f \in Entries :
           /\ ent1[f].va = x.ent[f].va /\ ent1[f].st = x.ent[f].st
           /\ ent1[f].off = x.ent[f].off /\ ent1[f].cnt = x.ent[f].cnt
           /\ ent1[f].next = IF f = p THEN n ELSE x.ent[f].next
           /\ ent1[f].prev = x.ent[f].prev
  BY <1>1 DEF Entry
<1> HIDE DEF ent1
<1>3. /\ ent2 \in [Entries -> Entry]
      /\ \A f \in Entries :
           /\ ent2[f].va = x.ent[f].va /\ ent2[f].st = x.ent[f].st
           /\ ent2[f].off = x.ent[f].off /\ ent2[f].cnt = x.ent[f].cnt
           /\ ent2[f].next = IF f = p THEN n ELSE x.ent[f].next
           /\ ent2[f].prev = IF f = n THEN p ELSE x.ent[f].prev
  BY <1>1, <1>2 DEF Entry
<1> HIDE DEF ent2
<1>4. /\ ent3 \in [Entries -> Entry]
      /\ \A f \in Entries :
           /\ ent3[f].va = x.ent[f].va /\ ent3[f].st = x.ent[f].st
           /\ ent3[f].off = x.ent[f].off /\ ent3[f].cnt = x.ent[f].cnt
           /\ ent3[f].next = IF f = e THEN Nil ELSE IF f = p THEN n ELSE x.ent[f].next
           /\ ent3[f].prev = IF f = e THEN Nil ELSE IF f = n THEN p ELSE x.ent[f].prev
  <2> DEFINE one == [ent2 EXCEPT ![e].prev = Nil]
             two == [one EXCEPT ![e].next = Nil]
  <2>1. ent3 = two
    BY <1>3
  <2>2. /\ one \in [Entries -> Entry]
        /\ \A f \in Entries :
             /\ one[f].va = x.ent[f].va /\ one[f].st = x.ent[f].st
             /\ one[f].off = x.ent[f].off /\ one[f].cnt = x.ent[f].cnt
             /\ one[f].next = IF f = p THEN n ELSE x.ent[f].next
             /\ one[f].prev = IF f = e THEN Nil ELSE IF f = n THEN p ELSE x.ent[f].prev
    BY <1>1, <1>3 DEF Entry
  <2> HIDE DEF one
  <2>3. /\ two \in [Entries -> Entry]
        /\ \A f \in Entries :
             /\ two[f].va = x.ent[f].va /\ two[f].st = x.ent[f].st
             /\ two[f].off = x.ent[f].off /\ two[f].cnt = x.ent[f].cnt
             /\ two[f].next = IF f = e THEN Nil ELSE IF f = p THEN n ELSE x.ent[f].next
             /\ two[f].prev = IF f = e THEN Nil ELSE IF f = n THEN p ELSE x.ent[f].prev
    BY <1>1, <2>2 DEF Entry
  <2> HIDE DEF two, ent3
  <2> QED
    BY <2>1, <2>3
<1> HIDE DEF ent3
<1>5. y = [x EXCEPT !.head = h, !.ent = ent3]
  BY ZenonT(60) DEF Unlink, ent1, ent2, ent3
<1>6. h \in Entries \cup {Nil}
  BY <1>1 DEF Memory
<1> HIDE DEF h
<1>7. /\ y \in Memory /\ y.ent = ent3 /\ y.head = h
      /\ y.pte = x.pte /\ y.frame = x.frame /\ y.disk = x.disk /\ y.mem = x.mem /\ y.file = x.file
  BY <1>4, <1>5, <1>6 DEF Memory
<1> QED
  BY <1>4, <1>7 DEF SameData, h

\* The list has no more entries than there are.
LEMMA ChainLength ==
  ASSUME NEW x, NEW N \in Nat, NEW L \in [1 .. N -> Entries], Chain(x, N, L)
  PROVE  N <= MaxTotal
<1>1. L \in Injection(1 .. N, Entries)
  BY DEF Chain, Injection, IsInjective
<1>2. Cardinality(1 .. N) <= Cardinality(Entries)
  BY <1>1, PagerSizes, FS_Injection
<1>3. Cardinality(1 .. N) = N
  BY FS_Interval
<1> QED
  BY <1>2, <1>3, PagerSizes

\* Walking along the links from the head meets the entries in order.
LEMMA WalkIs ==
  ASSUME NEW x, NEW N \in Nat, NEW L \in [1 .. N -> Entries], Chain(x, N, L)
  PROVE  \A k \in 0 .. MaxTotal : Walk(x)[k] = IF k < N THEN L[k + 1] ELSE Nil
<1> DEFINE list == [k \in 0 .. MaxTotal |-> IF k < N THEN L[k + 1] ELSE Nil]
           step(g, k) == IF k = 0 THEN x.head ELSE IF g[k - 1] = Nil THEN Nil ELSE x.ent[g[k - 1]].next
<1>0. MaxTotal \in Nat /\ Nil \notin Entries
  BY PagerSizes
<1>1. ASSUME NEW k \in 0 .. MaxTotal PROVE list[k] = step(list, k)
  <2>1. CASE k = 0
    BY <1>0, <2>1 DEF Chain
  <2>2. CASE k # 0
    <3>1. k - 1 \in 0 .. MaxTotal /\ (k - 1) + 1 = k
      BY <1>0, <2>2
    <3>2. CASE k - 1 < N
      <4>1. list[k - 1] = L[k] /\ k \in 1 .. N
        BY <2>2, <3>1, <3>2
      <4>2. L[k] \in Entries /\ x.ent[L[k]].next = IF k = N THEN Nil ELSE L[k + 1]
        BY <4>1 DEF Chain
      <4> QED
        BY <1>0, <2>2, <4>1, <4>2
    <3>3. CASE ~(k - 1 < N)
      BY <2>2, <3>1, <3>3
    <3> QED
      BY <3>2, <3>3
  <2> QED
    BY <2>1, <2>2
<1>2. list = [k \in 0 .. MaxTotal |-> step(list, k)]
  BY <1>1
<1> HIDE DEF list
<1>3. Walk(x) = [k \in 0 .. MaxTotal |-> step(Walk(x), k)]
  BY <1>2 DEF Walk
<1> DEFINE same == {k \in Nat : k <= MaxTotal => Walk(x)[k] = list[k]}
<1>4. 0 \in same
  <2>1. 0 \in 0 .. MaxTotal
    BY <1>0
  <2> QED
    BY <1>2, <1>3, <2>1
<1>5. ASSUME NEW k \in Nat, k \in same PROVE k + 1 \in same
  <2>1. SUFFICES ASSUME k + 1 <= MaxTotal PROVE Walk(x)[k + 1] = list[k + 1]
    OBVIOUS
  <2>2. k + 1 \in 0 .. MaxTotal /\ k + 1 # 0 /\ (k + 1) - 1 = k /\ Walk(x)[k] = list[k]
    BY <1>0, <1>5, <2>1
  <2>3. Walk(x)[k + 1] = step(Walk(x), k + 1)
    BY <1>3, <2>2
  <2>4. list[k + 1] = step(list, k + 1)
    BY <1>2, <2>2
  <2> QED
    BY <2>2, <2>3, <2>4
<1>6. \A k \in Nat : k \in same
  BY <1>4, <1>5, Induction
<1>7. \A k \in 0 .. MaxTotal : Walk(x)[k] = list[k]
  BY <1>6
<1> QED
  BY <1>7 DEF list

\* So what is listed is what is linked.
LEMMA ListedIs ==
  ASSUME NEW x, NEW S, Linked(x, S)
  PROVE  Listed(x) = S /\ S \subseteq Entries
<1>1. PICK N \in Nat : \E L \in [1 .. N -> Entries] : Chain(x, N, L) /\ S = {L[i] : i \in 1 .. N}
  BY DEF Linked
<1>2. PICK L \in [1 .. N -> Entries] : Chain(x, N, L) /\ S = {L[i] : i \in 1 .. N}
  BY <1>1
<1>3. \A k \in 0 .. MaxTotal : Walk(x)[k] = IF k < N THEN L[k + 1] ELSE Nil
  BY <1>2, WalkIs
<1>4. N <= MaxTotal /\ MaxTotal \in Nat /\ Nil \notin Entries
  BY <1>2, ChainLength, PagerSizes
<1>5. ASSUME NEW i \in 1 .. N PROVE L[i] \in Listed(x)
  <2>1. i - 1 \in 0 .. MaxTotal /\ i - 1 < N /\ (i - 1) + 1 = i /\ L[i] # Nil
    BY <1>4
  <2>2. Walk(x)[i - 1] = L[i]
    BY <1>3, <2>1
  <2> QED
    BY <2>1, <2>2 DEF Listed
<1>6. ASSUME NEW f \in Listed(x) PROVE f \in S
  <2>1. PICK k \in 0 .. MaxTotal : f = Walk(x)[k] /\ f # Nil
    BY DEF Listed
  <2>2. k < N /\ f = L[k + 1] /\ k + 1 \in 1 .. N
    BY <1>3, <2>1
  <2> QED
    BY <1>2, <2>2
<1> QED
  BY <1>2, <1>5, <1>6

\* The head, and each entry's neighbours, are on the list.
LEMMA LinkFacts ==
  ASSUME NEW x \in Memory, NEW S, Linked(x, S)
  PROVE  /\ x.head = Nil <=> S = {}
         /\ x.head # Nil => x.ent[x.head].prev = Nil
         /\ \A f, g \in Entries : x.ent[f].next = g <=> x.ent[g].prev = f
         /\ \A f \in Entries \ S : x.ent[f].next = Nil /\ x.ent[f].prev = Nil
         /\ \A f \in Entries : x.ent[f].next # f /\ x.ent[f].prev # f
<1>1. PICK N \in Nat : \E L \in [1 .. N -> Entries] : Chain(x, N, L) /\ S = {L[i] : i \in 1 .. N}
  BY DEF Linked
<1>2. PICK L \in [1 .. N -> Entries] : Chain(x, N, L) /\ S = {L[i] : i \in 1 .. N}
  BY <1>1
<1>3. Nil \notin Entries
  BY PagerSizes
<1>4. x.head = Nil <=> S = {}
  <2>1. CASE N = 0
    BY <1>2, <2>1 DEF Chain
  <2>2. CASE N # 0
    <3>1. 1 \in 1 .. N /\ x.head = L[1]
      BY <1>2, <2>2 DEF Chain
    <3> QED
      BY <1>2, <1>3, <3>1
  <2> QED
    BY <2>1, <2>2
<1>5. x.head # Nil => x.ent[x.head].prev = Nil
  <2>1. SUFFICES ASSUME x.head # Nil PROVE x.ent[x.head].prev = Nil
    OBVIOUS
  <2>2. 1 \in 1 .. N /\ x.head = L[1]
    BY <1>2, <2>1 DEF Chain
  <2> QED
    BY <1>2, <2>2 DEF Chain
<1>6. \A f \in Entries \ S : x.ent[f].next = Nil /\ x.ent[f].prev = Nil
  BY <1>2 DEF Chain
<1>7. ASSUME NEW f \in Entries, NEW g \in Entries, x.ent[f].next = g
      PROVE  x.ent[g].prev = f /\ f # g
  <2>1. PICK i \in 1 .. N : f = L[i]
    BY <1>2, <1>3, <1>6, <1>7
  <2>2. i # N /\ g = L[i + 1]
    BY <1>2, <1>3, <1>7, <2>1 DEF Chain
  <2>3. i + 1 \in 1 .. N /\ i + 1 # 1 /\ (i + 1) - 1 = i /\ i + 1 # i
    BY <2>2
  <2>4. x.ent[L[i + 1]].prev = L[i] /\ L[i + 1] # L[i]
    BY <1>2, <2>3 DEF Chain
  <2> QED
    BY <2>1, <2>2, <2>4
<1>8. ASSUME NEW f \in Entries, NEW g \in Entries, x.ent[g].prev = f
      PROVE  x.ent[f].next = g /\ f # g
  <2>1. PICK i \in 1 .. N : g = L[i]
    BY <1>2, <1>3, <1>6, <1>8
  <2>2. i # 1 /\ f = L[i - 1]
    BY <1>2, <1>3, <1>8, <2>1 DEF Chain
  <2>3. i - 1 \in 1 .. N /\ i - 1 # N /\ (i - 1) + 1 = i /\ i - 1 # i
    BY <2>2
  <2>4. x.ent[L[i - 1]].next = L[i] /\ L[i - 1] # L[i]
    BY <1>2, <2>3 DEF Chain
  <2> QED
    BY <2>1, <2>2, <2>4
<1> QED
  BY <1>4, <1>5, <1>6, <1>7, <1>8

\* Taking an entry out of the list leaves the others listed, in the same order.
LEMMA UnlinkKeeps ==
  ASSUME NEW x \in Memory, NEW S, Linked(x, S), NEW e \in S, NEW y, y = Unlink(x, e)
  PROVE  y \in Memory /\ SameData(x, y) /\ Linked(y, S \ {e})
<1>1. PICK N \in Nat : \E L \in [1 .. N -> Entries] : Chain(x, N, L) /\ S = {L[k] : k \in 1 .. N}
  BY DEF Linked
<1>2. PICK L \in [1 .. N -> Entries] : Chain(x, N, L) /\ S = {L[k] : k \in 1 .. N}
  BY <1>1
<1>3. PICK i \in 1 .. N : e = L[i]
  BY <1>2
<1>4. PICK p, n : /\ p = x.ent[e].prev /\ p = IF i = 1 THEN Nil ELSE L[i - 1]
                  /\ n = x.ent[e].next /\ n = IF i = N THEN Nil ELSE L[i + 1]
  BY <1>2, <1>3 DEF Chain
<1>5. /\ y \in Memory /\ SameData(x, y)
      /\ y.head = IF p = Nil THEN n ELSE x.head
      /\ \A f \in Entries :
           /\ y.ent[f].next = IF f = e THEN Nil ELSE IF f = p THEN n ELSE x.ent[f].next
           /\ y.ent[f].prev = IF f = e THEN Nil ELSE IF f = n THEN p ELSE x.ent[f].prev
  <2>1. e \in Entries
    BY <1>3
  <2>2. \A f \in Entries : x.ent[f].next # f /\ x.ent[f].prev # f
    BY LinkFacts
  <2>3. p = x.ent[e].prev /\ n = x.ent[e].next
    BY <1>4
  <2>4. p # e /\ n # e
    BY <2>1, <2>2, <2>3
  <2> QED
    BY <2>1, <2>3, <2>4, UnlinkLinks
<1> DEFINE ix(a) == IF a < i THEN a ELSE a + 1
           M == [a \in 1 .. N - 1 |-> L[ix(a)]]
<1>6. Nil \notin Entries /\ N - 1 \in Nat
  BY <1>3, PagerSizes
<1>7. \A a \in 1 .. N - 1 : ix(a) \in 1 .. N /\ ix(a) # i /\ M[a] = L[ix(a)] /\ M[a] \in Entries
  BY <1>3
<1>8. \A a, b \in 1 .. N : L[a] = L[b] => a = b
  BY <1>2 DEF Chain
<1>9. ASSUME NEW a \in 1 .. N - 1, NEW b \in 1 .. N - 1, M[a] = M[b] PROVE a = b
  <2>1. ix(a) = ix(b)
    BY <1>7, <1>8, <1>9
  <2> QED
    BY <2>1
<1>10. S \ {e} = {M[a] : a \in 1 .. N - 1}
  <2>1. ASSUME NEW f \in S \ {e} PROVE \E a \in 1 .. N - 1 : f = M[a]
    <3>1. PICK k \in 1 .. N : f = L[k] /\ k # i
      BY <1>2, <1>3
    <3>2. CASE k < i
      BY <3>1, <3>2
    <3>3. CASE k > i
      <4>1. k - 1 \in 1 .. N - 1 /\ ~(k - 1 < i) /\ (k - 1) + 1 = k
        BY <3>3
      <4>2. M[k - 1] = L[k]
        BY <4>1
      <4> QED
        BY <3>1, <4>1, <4>2
    <3> QED
      BY <3>1, <3>2, <3>3
  <2>2. ASSUME NEW a \in 1 .. N - 1 PROVE M[a] \in S \ {e}
    BY <1>2, <1>3, <1>7, <1>8
  <2> QED
    BY <2>1, <2>2
<1>11. y.head = IF N - 1 = 0 THEN Nil ELSE M[1]
  <2>1. CASE i = 1
    <3>1. y.head = n /\ (N - 1 = 0 <=> i = N)
      BY <1>4, <1>5, <2>1
    <3>2. CASE i = N
      BY <1>4, <3>1, <3>2
    <3>3. CASE i # N
      <4>1. 1 \in 1 .. N - 1 /\ M[1] = L[2] /\ n = L[2]
        BY <1>4, <2>1, <3>3
      <4> QED
        BY <3>1, <3>3, <4>1
    <3> QED
      BY <3>2, <3>3
  <2>2. CASE i # 1
    <3>1. p # Nil /\ y.head = x.head
      BY <1>4, <1>5, <1>6, <2>2
    <3>2. N - 1 # 0 /\ M[1] = L[1] /\ x.head = L[1]
      BY <1>2, <2>2 DEF Chain
    <3> QED
      BY <3>1, <3>2
  <2> QED
    BY <2>1, <2>2
<1>12. ASSUME NEW a \in 1 .. N - 1 PROVE y.ent[M[a]].next = IF a = N - 1 THEN Nil ELSE M[a + 1]
  <2>1. /\ M[a] \in Entries /\ M[a] = L[ix(a)] /\ M[a] # e
        /\ x.ent[L[ix(a)]].next = IF ix(a) = N THEN Nil ELSE L[ix(a) + 1]
    BY <1>2, <1>3, <1>7, <1>8 DEF Chain
  <2>2. CASE a = i - 1
    <3>1. M[a] = p
      BY <1>4, <2>2
    <3>2. y.ent[M[a]].next = n
      BY <1>5, <2>1, <3>1
    <3>3. a # N - 1 => M[a + 1] = L[i + 1]
      BY <2>2
    <3> QED
      BY <1>4, <2>2, <3>2, <3>3
  <2>3. CASE a # i - 1
    <3>1. M[a] # p
      BY <1>4, <1>6, <1>7, <1>8, <2>3
    <3>2. y.ent[M[a]].next = IF ix(a) = N THEN Nil ELSE L[ix(a) + 1]
      BY <1>5, <2>1, <3>1
    <3>3. ix(a) = N <=> a = N - 1
      BY <2>3
    <3>4. a # N - 1 => M[a + 1] = L[ix(a) + 1]
      BY <2>3
    <3> QED
      BY <3>2, <3>3, <3>4
  <2> QED
    BY <2>2, <2>3
<1>13. ASSUME NEW a \in 1 .. N - 1 PROVE y.ent[M[a]].prev = IF a = 1 THEN Nil ELSE M[a - 1]
  <2>1. /\ M[a] \in Entries /\ M[a] = L[ix(a)] /\ M[a] # e
        /\ x.ent[L[ix(a)]].prev = IF ix(a) = 1 THEN Nil ELSE L[ix(a) - 1]
    BY <1>2, <1>3, <1>7, <1>8 DEF Chain
  <2>2. CASE a = i
    <3>1. M[a] = n
      BY <1>4, <2>2
    <3>2. y.ent[M[a]].prev = p
      BY <1>5, <2>1, <3>1
    <3>3. a # 1 => M[a - 1] = L[i - 1]
      BY <2>2
    <3> QED
      BY <1>4, <2>2, <3>2, <3>3
  <2>3. CASE a # i
    <3>1. M[a] # n
      BY <1>4, <1>6, <1>7, <1>8, <2>3
    <3>2. y.ent[M[a]].prev = IF ix(a) = 1 THEN Nil ELSE L[ix(a) - 1]
      BY <1>5, <2>1, <3>1
    <3>3. ix(a) = 1 <=> a = 1
      BY <2>3
    <3>4. a # 1 => M[a - 1] = L[ix(a) - 1]
      BY <2>3
    <3> QED
      BY <3>2, <3>3, <3>4
  <2> QED
    BY <2>2, <2>3
<1>14. ASSUME NEW f \in Entries, \A a \in 1 .. N - 1 : M[a] # f
       PROVE  y.ent[f].next = Nil /\ y.ent[f].prev = Nil
  <2>1. CASE f = e
    BY <1>5, <2>1
  <2>2. CASE f # e
    <3>1. f \notin S
      BY <1>10, <1>14, <2>2
    <3>2. f # p /\ f # n /\ x.ent[f].next = Nil /\ x.ent[f].prev = Nil
      BY <1>2, <1>4, <1>6, <3>1 DEF Chain
    <3> QED
      BY <1>5, <2>2, <3>2
  <2> QED
    BY <2>1, <2>2
<1>15. M \in [1 .. N - 1 -> Entries]
  BY <1>7
<1> HIDE DEF M, ix
<1>16. Chain(y, N - 1, M)
  BY <1>9, <1>11, <1>12, <1>13, <1>14 DEF Chain
<1> QED
  BY <1>5, <1>6, <1>10, <1>15, <1>16 DEF Linked

\* The tail is the entry with no next.
LEMMA TailIs ==
  ASSUME NEW x \in Memory, NEW N \in Nat, NEW L \in [1 .. N -> Entries], Chain(x, N, L), N > 0
  PROVE  Tail(x) = L[N]
<1>1. Listed(x) = {L[i] : i \in 1 .. N}
  <2>1. Linked(x, {L[i] : i \in 1 .. N})
    BY DEF Linked
  <2> QED
    BY <2>1, ListedIs
<1>2. N \in 1 .. N /\ Nil \notin Entries
  BY PagerSizes
<1>3. L[N] \in Listed(x) /\ x.ent[L[N]].next = Nil
  BY <1>1, <1>2 DEF Chain
<1>4. ASSUME NEW f \in Listed(x), x.ent[f].next = Nil PROVE f = L[N]
  <2>1. PICK i \in 1 .. N : f = L[i]
    BY <1>1
  <2>2. i = N
    <3>1. i # N => x.ent[L[i]].next = L[i + 1] /\ L[i + 1] \in Entries
      BY DEF Chain
    <3> QED
      BY <1>2, <1>4, <2>1, <3>1
  <2> QED
    BY <2>1, <2>2
<1> QED
  BY <1>3, <1>4 DEF Tail

\* Linking an entry behind the tail lists it last.
LEMMA AppendKeeps ==
  ASSUME NEW x \in Memory, NEW S, Linked(x, S), S # {}, NEW e \in Entries \ S, NEW y, y = Append(x, e)
  PROVE  y \in Memory /\ SameData(x, y) /\ Linked(y, S \cup {e}) /\ y.ent[e].next = Nil /\ y.head = x.head
<1>1. PICK N \in Nat : \E L \in [1 .. N -> Entries] : Chain(x, N, L) /\ S = {L[k] : k \in 1 .. N}
  BY DEF Linked
<1>2. PICK L \in [1 .. N -> Entries] : Chain(x, N, L) /\ S = {L[k] : k \in 1 .. N}
  BY <1>1
<1>3. N > 0 /\ N \in 1 .. N
  BY <1>2
<1>4. PICK t \in Entries : t = Tail(x) /\ t = L[N] /\ t # e
  BY <1>2, <1>3, TailIs
<1>5. /\ y \in Memory /\ SameData(x, y) /\ y.head = x.head
      /\ \A f \in Entries : /\ y.ent[f].next = IF f = t THEN e ELSE x.ent[f].next
                            /\ y.ent[f].prev = IF f = e THEN t ELSE x.ent[f].prev
  <2> DEFINE one == [x.ent EXCEPT ![t].next = e]
             two == [one EXCEPT ![e].prev = t]
  <2>0. x.ent \in [Entries -> Entry] /\ e \in Entries \cup {Nil} /\ t \in Entries \cup {Nil} /\ e \in Entries
    BY DEF Memory
  <2>1. /\ one \in [Entries -> Entry]
        /\ \A f \in Entries :
             /\ one[f].va = x.ent[f].va /\ one[f].st = x.ent[f].st
             /\ one[f].off = x.ent[f].off /\ one[f].cnt = x.ent[f].cnt
             /\ one[f].next = IF f = t THEN e ELSE x.ent[f].next
             /\ one[f].prev = x.ent[f].prev
    BY <2>0 DEF Entry
  <2>2. y = [x EXCEPT !.ent = two]
    BY <1>4, <2>0 DEF Append
  <2> HIDE DEF one
  <2>3. /\ two \in [Entries -> Entry]
        /\ \A f \in Entries :
             /\ two[f].va = x.ent[f].va /\ two[f].st = x.ent[f].st
             /\ two[f].off = x.ent[f].off /\ two[f].cnt = x.ent[f].cnt
             /\ two[f].next = IF f = t THEN e ELSE x.ent[f].next
             /\ two[f].prev = IF f = e THEN t ELSE x.ent[f].prev
    <3>1. /\ [one[e] EXCEPT !.prev = t] \in Entry
          /\ two = [one EXCEPT ![e] = [one[e] EXCEPT !.prev = t]]
      BY <2>0, <2>1 DEF Entry
    <3>2. two \in [Entries -> Entry]
      BY <2>0, <2>1, <3>1
    <3>3. /\ two[e] = [one[e] EXCEPT !.prev = t] /\ one[e] \in Entry
          /\ \A f \in Entries : f # e => two[f] = one[f]
      BY <2>0, <2>1, <3>1
    <3> QED
      BY <2>1, <3>2, <3>3 DEF Entry
  <2> HIDE DEF two
  <2>4. /\ y \in Memory /\ y.ent = two /\ y.head = x.head
        /\ y.pte = x.pte /\ y.frame = x.frame /\ y.disk = x.disk /\ y.mem = x.mem /\ y.file = x.file
    BY <2>2, <2>3 DEF Memory
  <2> QED
    BY <2>3, <2>4 DEF SameData
<1> DEFINE M == [a \in 1 .. N + 1 |-> IF a <= N THEN L[a] ELSE e]
<1>6. Nil \notin Entries /\ N + 1 \in Nat
  BY PagerSizes
<1>7. /\ \A a, b \in 1 .. N : L[a] = L[b] => a = b
      /\ \A a \in 1 .. N : L[a] # e /\ L[a] \in Entries /\ M[a] = L[a] /\ a \in 1 .. N + 1
      /\ M[N + 1] = e
      /\ \A a \in 1 .. N + 1 : a \in 1 .. N \/ a = N + 1
  BY <1>2 DEF Chain
<1>8. M \in [1 .. N + 1 -> Entries]
  OBVIOUS
<1>9. S \cup {e} = {M[a] : a \in 1 .. N + 1}
  <2>1. N + 1 \in 1 .. N + 1
    OBVIOUS
  <2> QED
    BY <1>2, <1>7, <2>1
<1> HIDE DEF M
<1>10. ASSUME NEW a \in 1 .. N + 1, NEW b \in 1 .. N + 1, M[a] = M[b] PROVE a = b
  BY <1>7, <1>10
<1>11. y.head = IF N + 1 = 0 THEN Nil ELSE M[1]
  BY <1>2, <1>3, <1>5, <1>7 DEF Chain
<1>12. ASSUME NEW a \in 1 .. N + 1
       PROVE  /\ y.ent[M[a]].next = IF a = N + 1 THEN Nil ELSE M[a + 1]
              /\ y.ent[M[a]].prev = IF a = 1 THEN Nil ELSE M[a - 1]
  <2>1. CASE a = N + 1
    <3>1. x.ent[e].next = Nil /\ M[a] = e /\ a - 1 = N /\ a # 1
      BY <1>2, <1>3, <1>7, <2>1 DEF Chain
    <3> QED
      BY <1>3, <1>4, <1>5, <1>7, <2>1, <3>1
  <2>2. CASE a \in 1 .. N
    <3>1. M[a] = L[a] /\ L[a] \in Entries /\ L[a] # e
      BY <1>7, <2>2
    <3>2. y.ent[L[a]].prev = IF a = 1 THEN Nil ELSE M[a - 1]
      <4>1. x.ent[L[a]].prev = IF a = 1 THEN Nil ELSE L[a - 1]
        BY <1>2, <2>2 DEF Chain
      <4>2. a # 1 => a - 1 \in 1 .. N
        BY <2>2
      <4> QED
        BY <1>5, <1>7, <3>1, <4>1, <4>2
    <3>3. y.ent[L[a]].next = M[a + 1]
      <4>1. CASE a = N
        BY <1>4, <1>5, <1>7, <3>1, <4>1
      <4>2. CASE a # N
        <5>1. x.ent[L[a]].next = L[a + 1] /\ a + 1 \in 1 .. N /\ L[a] # t
          BY <1>2, <1>3, <1>4, <1>7, <2>2, <4>2 DEF Chain
        <5> QED
          BY <1>5, <1>7, <3>1, <5>1
      <4> QED
        BY <4>1, <4>2
    <3> QED
      BY <2>2, <3>1, <3>2, <3>3
  <2> QED
    BY <1>7, <2>1, <2>2
<1>13. ASSUME NEW f \in Entries, \A a \in 1 .. N + 1 : M[a] # f
       PROVE  y.ent[f].next = Nil /\ y.ent[f].prev = Nil
  <2>1. f # e /\ f # t /\ \A a \in 1 .. N : L[a] # f
    <3>1. N + 1 \in 1 .. N + 1
      OBVIOUS
    <3> QED
      BY <1>3, <1>4, <1>7, <1>13, <3>1
  <2> QED
    BY <1>2, <1>5, <2>1 DEF Chain
<1>14. Chain(y, N + 1, M)
  BY <1>10, <1>11, <1>12, <1>13 DEF Chain
<1>15. y.ent[e].next = Nil
  BY <1>2, <1>4, <1>5 DEF Chain
<1> QED
  BY <1>5, <1>6, <1>8, <1>9, <1>14, <1>15 DEF Linked

-----------------------------------------------------------------------------
(* The books: the entries and the page table agree, and the counts count.  *)

Matched(x) ==
  /\ \A f \in Entries :
       /\ x.ent[f].st = 0 => x.ent[f].va = NoPage
       /\ x.ent[f].st # 0 => x.ent[f].va \in Pages
       /\ x.ent[f].st = 1 => x.pte[x.ent[f].va] = "present"
       /\ x.ent[f].st = 2 => x.pte[x.ent[f].va] = "paged" /\ x.ent[f].off # NoSlot
  /\ \A v \in Pages : x.pte[v] = "paged" => \E f \in Entries : x.ent[f].st = 2 /\ x.ent[f].va = v
  /\ \A f, g \in Entries :
       x.ent[f].st # 0 /\ x.ent[g].st # 0 /\ x.ent[f].va = x.ent[g].va => f = g

Counts(x) == x.mem = Cardinality(St(x, 1)) /\ x.file = Cardinality(St(x, 2))

\* S is what is linked: the pages in memory, and an entry that is being deleted.
Books(x, S) == x \in Memory /\ Linked(x, S) /\ Matched(x) /\ Counts(x)

\* Links alone make the list.
LEMMA LinkedSame ==
  ASSUME NEW x, NEW y, NEW S, Linked(x, S), y.head = x.head,
         \A f \in Entries : y.ent[f].next = x.ent[f].next /\ y.ent[f].prev = x.ent[f].prev
  PROVE  Linked(y, S)
<1>1. PICK N \in Nat : \E L \in [1 .. N -> Entries] : Chain(x, N, L) /\ S = {L[k] : k \in 1 .. N}
  BY DEF Linked
<1>2. PICK L \in [1 .. N -> Entries] : Chain(x, N, L) /\ S = {L[k] : k \in 1 .. N}
  BY <1>1
<1>3. Chain(y, N, L)
  BY <1>2 DEF Chain
<1> QED
  BY <1>2, <1>3 DEF Linked

\* The states' sets are finite.
LEMMA StFinite ==
  ASSUME NEW x, NEW k
  PROVE  IsFiniteSet(St(x, k)) /\ Cardinality(St(x, k)) \in Nat /\ Cardinality(St(x, k)) <= MaxTotal
         /\ (Cardinality(St(x, k)) = 0 <=> St(x, k) = {})
<1>1. St(x, k) \in SUBSET Entries
  BY DEF St
<1>2. IsFiniteSet(St(x, k)) /\ Cardinality(St(x, k)) <= MaxTotal
  BY <1>1, PagerSizes, FS_Subset
<1> QED
  BY <1>2, FS_CardinalityType, FS_EmptySet

\* An entry leaves a set of entries, or joins it.
LEMMA CountMoves ==
  ASSUME NEW T \in SUBSET Entries, NEW f
  PROVE  /\ f \in T => Cardinality(T \ {f}) = Cardinality(T) - 1
         /\ f \notin T => Cardinality(T \cup {f}) = Cardinality(T) + 1
<1>1. IsFiniteSet(T)
  BY PagerSizes, FS_Subset
<1> QED
  BY <1>1, FS_AddElement, FS_RemoveElement

\* The first of some entries is one of them.
LEMMA FirstIs ==
  ASSUME NEW T \in SUBSET Entries, T # {}
  PROVE  First(T) \in T
<1>1. T \in SUBSET Nat
  BY DEF Entries
<1> QED
  BY <1>1, Least DEF First

\* The victim is listed.
LEMMA VictimIs ==
  ASSUME NEW x \in Memory, NEW S, Linked(x, S), S # {}
  PROVE  Victim(x) \in S
<1>1. PICK N \in Nat : \E L \in [1 .. N -> Entries] : Chain(x, N, L) /\ S = {L[k] : k \in 1 .. N}
  BY DEF Linked
<1>2. PICK L \in [1 .. N -> Entries] : Chain(x, N, L) /\ S = {L[k] : k \in 1 .. N}
  BY <1>1
<1>3. PICK w : w = Walk(x) /\ \A k \in 0 .. MaxTotal : w[k] = IF k < N THEN L[k + 1] ELSE Nil
  BY <1>2, WalkIs
<1> DEFINE Live == {k \in 0 .. MaxTotal : w[k] # Nil}
           cnt(k) == x.ent[w[k]].cnt
           least(k) == \A j \in Live : cnt(k) < cnt(j) \/ (cnt(k) = cnt(j) /\ k <= j)
<1>4. Nil \notin Entries /\ MaxTotal \in Nat
  BY PagerSizes
<1>5. \A k \in Live : k \in Nat /\ w[k] \in S /\ w[k] \in Entries /\ cnt(k) \in Nat
  <2>1. ASSUME NEW k \in Live PROVE k < N /\ w[k] = L[k + 1] /\ k + 1 \in 1 .. N /\ k \in Nat
    BY <1>3, <1>4
  <2>2. x.ent \in [Entries -> Entry] /\ \A f \in Entries : x.ent[f].cnt \in 0 .. MaxTime
    BY DEF Memory, Entry
  <2>3. \A k \in Live : k \in Nat /\ w[k] \in S /\ w[k] \in Entries
    BY <1>2, <2>1
  <2> QED
    BY <2>2, <2>3, PagerSizes
<1>6. 0 \in Live
  BY <1>2, <1>3, <1>4
<1> HIDE DEF Live, cnt
<1>7. PICK c \in {cnt(k) : k \in Live} : \A d \in {cnt(k) : k \in Live} : c <= d
  <2>1. {cnt(k) : k \in Live} \in SUBSET Nat /\ {cnt(k) : k \in Live} # {}
    BY <1>5, <1>6
  <2> QED
    BY <2>1, Least
<1>8. PICK i \in {k \in Live : cnt(k) = c} : \A j \in {k \in Live : cnt(k) = c} : i <= j
  <2>1. {k \in Live : cnt(k) = c} \in SUBSET Nat /\ {k \in Live : cnt(k) = c} # {}
    BY <1>5, <1>7
  <2> QED
    BY <2>1, Least
<1>9. least(i)
  <2>1. ASSUME NEW j \in Live PROVE cnt(i) < cnt(j) \/ (cnt(i) = cnt(j) /\ i <= j)
    <3>1. cnt(i) = c /\ c <= cnt(j) /\ cnt(i) \in Nat /\ cnt(j) \in Nat
      BY <1>5, <1>7, <1>8
    <3>2. cnt(j) = c => i <= j
      BY <1>8
    <3> QED
      BY <3>1, <3>2
  <2> QED
    BY <2>1
<1>10. Victim(x) = w[CHOOSE k \in Live : least(k)]
  BY <1>3 DEF Victim, Live, cnt
<1> HIDE DEF least
<1>11. (CHOOSE k \in Live : least(k)) \in Live
  BY <1>8, <1>9
<1> QED
  BY <1>5, <1>10, <1>11

-----------------------------------------------------------------------------
(* Moving pages.                                                           *)

\* mem2File: a listed page goes to the file.
LEMMA Mem2FileKeeps ==
  ASSUME NEW x, NEW S, Books(x, S), NEW e \in S, x.ent[e].st = 1, x.file < Cardinality(Slots),
         NEW y, y = Mem2File(x, e)
  PROVE  /\ Books(y, S \ {e}) /\ y.mem = x.mem - 1 /\ y.file = x.file + 1
         /\ \A f \in Entries : /\ y.ent[f].st = IF f = e THEN 2 ELSE x.ent[f].st
                               /\ y.ent[f].va = x.ent[f].va
         /\ \A v \in Pages : y.pte[v] = IF v = x.ent[e].va THEN "paged" ELSE x.pte[v]
         /\ x.ent[e].va \in Pages /\ x.pte[x.ent[e].va] = "present"
<1>1. x \in Memory /\ Linked(x, S) /\ Matched(x) /\ Counts(x)
  BY DEF Books
<1>2. e \in Entries
  BY <1>1, ListedIs
<1> DEFINE slot == x.file
           v == x.ent[e].va
           z == WritePageToFile(x, e)
           u == Unlink(z, e)
<1>3. x.file \in Slots /\ x.file + 1 \in 0 .. Cardinality(Slots) /\ slot # NoSlot /\ slot \in Slots \cup {NoSlot}
  <2>1. x.file \in Nat
    BY <1>1, PagerSizes DEF Memory
  <2> QED
    BY <2>1, PagerSizes DEF Slots
<1>4. v \in Pages /\ x.pte[v] = "present"
  BY <1>1, <1>2 DEF Matched
<1>5. /\ x.ent \in [Entries -> Entry] /\ x.disk \in [Slots -> Pages \cup {NoPage}]
      /\ x.frame \in [Pages -> Pages \cup {NoPage}] /\ x.frame[v] \in Pages \cup {NoPage}
      /\ x.pte \in [Pages -> {"none", "present", "paged"}]
  BY <1>1, <1>4 DEF Memory
<1> DEFINE one == [x.ent EXCEPT ![e].off = slot]
           two == [one EXCEPT ![e].st = 2]
<1>6. /\ two \in [Entries -> Entry]
      /\ \A f \in Entries :
           /\ two[f].va = x.ent[f].va /\ two[f].cnt = x.ent[f].cnt
           /\ two[f].next = x.ent[f].next /\ two[f].prev = x.ent[f].prev
           /\ two[f].off = IF f = e THEN slot ELSE x.ent[f].off
           /\ two[f].st = IF f = e THEN 2 ELSE x.ent[f].st
  <2>1. /\ one \in [Entries -> Entry]
        /\ \A f \in Entries :
             /\ one[f].va = x.ent[f].va /\ one[f].cnt = x.ent[f].cnt
             /\ one[f].next = x.ent[f].next /\ one[f].prev = x.ent[f].prev
             /\ one[f].off = IF f = e THEN slot ELSE x.ent[f].off
             /\ one[f].st = x.ent[f].st
    BY <1>2, <1>3, <1>5 DEF Entry
  <2> HIDE DEF one
  <2> QED
    BY <1>2, <2>1 DEF Entry
<1>7. /\ z.ent = two /\ z.head = x.head /\ z.pte = x.pte /\ z.frame = x.frame
      /\ z.mem = x.mem /\ z.file = x.file + 1 /\ z \in Memory
  <2>1. z = [x EXCEPT !.disk = [x.disk EXCEPT ![slot] = x.frame[v]], !.ent = two, !.file = x.file + 1]
    <3> DEFINE a == [x EXCEPT !.disk[slot] = x.frame[v]]
               b == [a EXCEPT !.ent[e].off = slot]
               c == [b EXCEPT !.ent[e].st = 2]
               d == [c EXCEPT !.file = x.file + 1]
    <3>1. z = d
      BY DEF WritePageToFile, WriteToSwapFile
    <3>2. a = [x EXCEPT !.disk = [x.disk EXCEPT ![slot] = x.frame[v]]]
      BY <1>1 DEF Memory
    <3>3. b = [x EXCEPT !.disk = [x.disk EXCEPT ![slot] = x.frame[v]], !.ent = one]
      BY <1>1, <3>2 DEF Memory
    <3>4. c = [x EXCEPT !.disk = [x.disk EXCEPT ![slot] = x.frame[v]], !.ent = two]
      <4>1. c = [b EXCEPT !.ent = [b.ent EXCEPT ![e].st = 2]]
        BY <1>1, <3>3 DEF Memory
      <4> HIDE DEF one
      <4>2. b.ent = one
        BY <1>1, <3>3 DEF Memory
      <4> HIDE DEF b, c
      <4> QED
        BY <1>1, <3>3, <4>1, <4>2 DEF Memory
    <3> HIDE DEF c
    <3> QED
      BY <1>1, <3>1, <3>4 DEF Memory
  <2>2. [x.disk EXCEPT ![slot] = x.frame[v]] \in [Slots -> Pages \cup {NoPage}]
    BY <1>5
  <2> HIDE DEF two, z
  <2> QED
    BY <1>1, <1>3, <1>6, <2>1, <2>2 DEF Memory
<1> HIDE DEF one, two, z
<1>8. Linked(z, S)
  BY <1>1, <1>6, <1>7, LinkedSame
<1>9. u \in Memory /\ SameData(z, u) /\ Linked(u, S \ {e})
  BY <1>7, <1>8, UnlinkKeeps
<1> HIDE DEF u
<1>10. /\ \A f \in Entries :
            /\ u.ent[f].va = x.ent[f].va
            /\ u.ent[f].off = IF f = e THEN slot ELSE x.ent[f].off
            /\ u.ent[f].st = IF f = e THEN 2 ELSE x.ent[f].st
       /\ u.pte = x.pte /\ u.mem = x.mem /\ u.file = x.file + 1
  BY <1>6, <1>7, <1>9 DEF SameData
<1>11. x.mem - 1 \in Nat
  <2>1. e \in St(x, 1)
    BY <1>2 DEF St
  <2>2. x.mem \in Nat /\ x.mem # 0
    BY <1>1, <2>1, StFinite DEF Counts
  <2> QED
    BY <2>2
<1>12. /\ y.ent = u.ent /\ y.head = u.head /\ y.mem = x.mem - 1 /\ y.file = x.file + 1
       /\ y.pte = [x.pte EXCEPT ![v] = "paged"] /\ y \in Memory
  <2>1. y = [u EXCEPT !.pte = [u.pte EXCEPT ![v] = "paged"],
                      !.frame = [u.frame EXCEPT ![v] = NoPage], !.mem = u.mem - 1]
    <3>1. y = [u EXCEPT !.pte[u.ent[e].va] = "paged", !.frame[u.ent[e].va] = NoPage, !.mem = @ - 1]
      BY DEF Mem2File, u, z
    <3>2. u.ent[e].va = v
      BY <1>2, <1>10
    <3> QED
      BY <1>9, <3>1, <3>2 DEF Memory
  <2>2. [u.pte EXCEPT ![v] = "paged"] \in [Pages -> {"none", "present", "paged"}]
    BY <1>5, <1>10
  <2>3. [u.frame EXCEPT ![v] = NoPage] \in [Pages -> Pages \cup {NoPage}]
    BY <1>9 DEF Memory
  <2>4. u.pte = x.pte /\ u.mem = x.mem /\ u.file = x.file + 1
    BY <1>10
  <2>5. /\ y.ent = u.ent /\ y.head = u.head /\ y.mem = u.mem - 1 /\ y.file = u.file
        /\ y.pte = [u.pte EXCEPT ![v] = "paged"]
    BY <1>9, <2>1 DEF Memory
  <2>6. y \in Memory
    <3>1. u.mem - 1 \in Nat
      BY <1>11, <2>4
    <3> QED
      BY <1>9, <2>1, <2>2, <2>3, <3>1 DEF Memory
  <2> QED
    BY <2>4, <2>5, <2>6
<1>13. \A w \in Pages : y.pte[w] = IF w = v THEN "paged" ELSE x.pte[w]
  BY <1>5, <1>12
<1>14. \A f \in Entries : /\ y.ent[f].va = x.ent[f].va
                          /\ y.ent[f].off = IF f = e THEN slot ELSE x.ent[f].off
                          /\ y.ent[f].st = IF f = e THEN 2 ELSE x.ent[f].st
  BY <1>10, <1>12
<1>15. Linked(y, S \ {e})
  BY <1>9, <1>12, LinkedSame
<1>16. Counts(y)
  <2>1. Cardinality(St(y, 1)) = Cardinality(St(x, 1)) - 1 /\ Cardinality(St(y, 2)) = Cardinality(St(x, 2)) + 1
    <3>1. /\ St(y, 1) = St(x, 1) \ {e} /\ e \in St(x, 1) /\ St(x, 1) \in SUBSET Entries
          /\ St(y, 2) = St(x, 2) \cup {e} /\ e \notin St(x, 2) /\ St(x, 2) \in SUBSET Entries
      BY <1>2, <1>14 DEF St
    <3>3. Cardinality(St(x, 1) \ {e}) = Cardinality(St(x, 1)) - 1
      BY <3>1, CountMoves
    <3>4. Cardinality(St(x, 2) \cup {e}) = Cardinality(St(x, 2)) + 1
      BY <3>1, CountMoves
    <3> QED
      BY <3>1, <3>3, <3>4
  <2> QED
    BY <1>1, <1>12, <2>1 DEF Counts
<1>17. Matched(y)
  <2>1. \A f \in Entries : f # e /\ x.ent[f].st # 0 => x.ent[f].va # v
    BY <1>1, <1>2 DEF Matched
  <2>2. ASSUME NEW f \in Entries
        PROVE  /\ y.ent[f].st = 0 => y.ent[f].va = NoPage
               /\ y.ent[f].st # 0 => y.ent[f].va \in Pages
               /\ y.ent[f].st = 1 => y.pte[y.ent[f].va] = "present"
               /\ y.ent[f].st = 2 => y.pte[y.ent[f].va] = "paged" /\ y.ent[f].off # NoSlot
    <3>1. CASE f = e
      BY <1>3, <1>4, <1>13, <1>14, <3>1
    <3>2. CASE f # e
      BY <1>1, <1>13, <1>14, <2>1, <3>2 DEF Matched
    <3> QED
      BY <3>1, <3>2
  <2>3. ASSUME NEW w \in Pages, y.pte[w] = "paged"
        PROVE  \E f \in Entries : y.ent[f].st = 2 /\ y.ent[f].va = w
    <3>1. CASE w = v
      BY <1>2, <1>14, <3>1
    <3>2. CASE w # v
      <4>1. PICK f \in Entries : x.ent[f].st = 2 /\ x.ent[f].va = w
        BY <1>1, <1>13, <2>3, <3>2 DEF Matched
      <4> QED
        BY <1>14, <4>1
    <3> QED
      BY <3>1, <3>2
  <2>4. ASSUME NEW f \in Entries, NEW g \in Entries,
               y.ent[f].st # 0, y.ent[g].st # 0, y.ent[f].va = y.ent[g].va
        PROVE  f = g
    <3>1. x.ent[f].st # 0 /\ x.ent[g].st # 0 /\ x.ent[f].va = x.ent[g].va
      BY <1>14, <2>4
    <3> QED
      BY <1>1, <3>1 DEF Matched
  <2> QED
    BY <2>2, <2>3, <2>4 DEF Matched
<1> QED
  BY <1>4, <1>12, <1>13, <1>14, <1>15, <1>16, <1>17 DEF Books

\* file2mem: a page of the file is listed last.
LEMMA File2MemKeeps ==
  ASSUME NEW x, NEW S, Books(x, S), S # {}, NEW e \in Entries \ S, x.ent[e].st = 2,
         NEW y, y = File2Mem(x, e)
  PROVE  /\ Books(y, S \cup {e}) /\ y.mem = x.mem + 1 /\ y.file = x.file - 1
         /\ \A f \in Entries : /\ y.ent[f].st = IF f = e THEN 1 ELSE x.ent[f].st
                               /\ y.ent[f].va = x.ent[f].va
         /\ \A w \in Pages : y.pte[w] = IF w = x.ent[e].va THEN "present" ELSE x.pte[w]
         /\ x.ent[e].va \in Pages /\ x.pte[x.ent[e].va] = "paged"
<1>1. x \in Memory /\ Linked(x, S) /\ Matched(x) /\ Counts(x)
  BY DEF Books
<1>2. e \in Entries
  OBVIOUS
<1> DEFINE v == x.ent[e].va
           d == x.disk[x.ent[e].off]
<1>3. v \in Pages /\ x.pte[v] = "paged" /\ x.ent[e].off # NoSlot
  BY <1>1, <1>2 DEF Matched
<1>4. /\ x.ent \in [Entries -> Entry] /\ x.ent[e].off \in Slots /\ d \in Pages \cup {NoPage}
      /\ x.frame \in [Pages -> Pages \cup {NoPage}]
      /\ x.pte \in [Pages -> {"none", "present", "paged"}]
  BY <1>1, <1>3 DEF Memory, Entry
<1>5. x.file - 1 \in 0 .. Cardinality(Slots) /\ x.mem + 1 \in Nat
  <2>1. e \in St(x, 2)
    BY <1>2 DEF St
  <2>2. x.file \in 0 .. Cardinality(Slots) /\ x.file # 0 /\ x.mem \in Nat
    BY <1>1, <2>1, StFinite DEF Counts, Memory
  <2> QED
    BY <2>2, PagerSizes
<1> DEFINE one == [x.ent EXCEPT ![e].off = NoSlot]
           two == [one EXCEPT ![e].st = 1]
           pt == [x.pte EXCEPT ![v] = "present"]
           fr == [x.frame EXCEPT ![v] = d]
           a == [x EXCEPT !.pte = pt, !.frame = fr, !.mem = x.mem + 1, !.file = x.file - 1]
           z == [a EXCEPT !.ent[e].off = NoSlot, !.ent[e].st = 1]
<1>6. /\ two \in [Entries -> Entry]
      /\ \A f \in Entries :
           /\ two[f].va = x.ent[f].va
           /\ two[f].next = x.ent[f].next /\ two[f].prev = x.ent[f].prev
           /\ two[f].off = IF f = e THEN NoSlot ELSE x.ent[f].off
           /\ two[f].st = IF f = e THEN 1 ELSE x.ent[f].st
  <2>1. /\ one \in [Entries -> Entry]
        /\ \A f \in Entries :
             /\ one[f].va = x.ent[f].va
             /\ one[f].next = x.ent[f].next /\ one[f].prev = x.ent[f].prev
             /\ one[f].off = IF f = e THEN NoSlot ELSE x.ent[f].off
             /\ one[f].st = x.ent[f].st
    BY <1>2, <1>4 DEF Entry
  <2> HIDE DEF one
  <2> QED
    BY <1>2, <2>1 DEF Entry
<1>7. pt \in [Pages -> {"none", "present", "paged"}] /\ fr \in [Pages -> Pages \cup {NoPage}]
  BY <1>4
<1>8. /\ z.ent = two /\ z.head = x.head /\ z.pte = pt /\ z.mem = x.mem + 1 /\ z.file = x.file - 1
      /\ z \in Memory
  <2> HIDE DEF pt, fr
  <2>1. /\ a.ent = x.ent /\ a.head = x.head /\ a.pte = pt /\ a.mem = x.mem + 1 /\ a.file = x.file - 1
        /\ a \in Memory
    BY <1>1, <1>5, <1>7 DEF Memory
  <2> DEFINE b == [a EXCEPT !.ent[e].off = NoSlot]
             c == [b EXCEPT !.ent[e].st = 1]
  <2>2. z = c
    OBVIOUS
  <2> HIDE DEF a, z
  <2>3. b = [a EXCEPT !.ent = one]
    BY <2>1 DEF Memory
  <2>4. c = [b EXCEPT !.ent = [b.ent EXCEPT ![e].st = 1]]
    BY <2>1, <2>3 DEF Memory
  <2> HIDE DEF one
  <2>5. b.ent = one
    BY <2>1, <2>3 DEF Memory
  <2> HIDE DEF b, c
  <2>6. c = [a EXCEPT !.ent = two]
    BY <2>1, <2>3, <2>4, <2>5 DEF Memory
  <2> HIDE DEF two
  <2> QED
    BY <1>6, <2>1, <2>2, <2>6 DEF Memory
<1> DEFINE u == Append(z, e)
<1>9. y = [u EXCEPT !.ent[e].next = Nil]
  <2>1. z = [x EXCEPT !.pte[v] = "present", !.frame[v] = d, !.mem = @ + 1, !.file = @ - 1,
                      !.ent[e].off = NoSlot, !.ent[e].st = 1]
    BY <1>1 DEF Memory
  <2> HIDE DEF z
  <2> QED
    BY <2>1 DEF File2Mem, ReadFromSwapFile
<1> HIDE DEF z, one, two
<1>10. Linked(z, S)
  BY <1>1, <1>6, <1>8, LinkedSame
<1>11. u \in Memory /\ SameData(z, u) /\ Linked(u, S \cup {e}) /\ u.ent[e].next = Nil
  BY <1>8, <1>10, AppendKeeps
<1> HIDE DEF u
<1>12. y \in Memory /\ SameData(u, y) /\ Linked(y, S \cup {e})
  <2> DEFINE nx == [u.ent EXCEPT ![e].next = Nil]
  <2>1. /\ nx \in [Entries -> Entry]
        /\ \A f \in Entries : nx[f] = u.ent[f]
    BY <1>11 DEF Memory, Entry
  <2>2. y = [u EXCEPT !.ent = nx]
    BY <1>9, <1>11 DEF Memory
  <2> HIDE DEF nx
  <2>3. /\ y.ent = nx /\ y.head = u.head /\ y.pte = u.pte /\ y.frame = u.frame /\ y.disk = u.disk
        /\ y.mem = u.mem /\ y.file = u.file /\ y \in Memory
    BY <1>11, <2>1, <2>2 DEF Memory
  <2>4. Linked(y, S \cup {e})
    BY <1>11, <2>1, <2>3, LinkedSame
  <2> QED
    BY <2>1, <2>3, <2>4 DEF SameData
<1>13. /\ \A f \in Entries :
            /\ y.ent[f].va = x.ent[f].va
            /\ y.ent[f].off = IF f = e THEN NoSlot ELSE x.ent[f].off
            /\ y.ent[f].st = IF f = e THEN 1 ELSE x.ent[f].st
       /\ y.pte = pt /\ y.mem = x.mem + 1 /\ y.file = x.file - 1
  BY <1>6, <1>8, <1>11, <1>12 DEF SameData
<1>14. \A w \in Pages : y.pte[w] = IF w = v THEN "present" ELSE x.pte[w]
  BY <1>4, <1>13
<1> HIDE DEF pt, fr, a
<1>16. Counts(y)
  <2>1. /\ St(y, 2) = St(x, 2) \ {e} /\ e \in St(x, 2) /\ St(x, 2) \in SUBSET Entries
        /\ St(y, 1) = St(x, 1) \cup {e} /\ e \notin St(x, 1) /\ St(x, 1) \in SUBSET Entries
    BY <1>2, <1>13 DEF St
  <2>2. Cardinality(St(x, 2) \ {e}) = Cardinality(St(x, 2)) - 1
    BY <2>1, CountMoves
  <2>3. Cardinality(St(x, 1) \cup {e}) = Cardinality(St(x, 1)) + 1
    BY <2>1, CountMoves
  <2> QED
    BY <1>1, <1>13, <2>1, <2>2, <2>3 DEF Counts
<1>17. Matched(y)
  <2>1. \A f \in Entries : f # e /\ x.ent[f].st # 0 => x.ent[f].va # v
    BY <1>1, <1>2 DEF Matched
  <2>2. ASSUME NEW f \in Entries
        PROVE  /\ y.ent[f].st = 0 => y.ent[f].va = NoPage
               /\ y.ent[f].st # 0 => y.ent[f].va \in Pages
               /\ y.ent[f].st = 1 => y.pte[y.ent[f].va] = "present"
               /\ y.ent[f].st = 2 => y.pte[y.ent[f].va] = "paged" /\ y.ent[f].off # NoSlot
    <3>1. CASE f = e
      BY <1>3, <1>13, <1>14, <3>1
    <3>2. CASE f # e
      BY <1>1, <1>13, <1>14, <2>1, <3>2 DEF Matched
    <3> QED
      BY <3>1, <3>2
  <2>3. ASSUME NEW w \in Pages, y.pte[w] = "paged"
        PROVE  \E f \in Entries : y.ent[f].st = 2 /\ y.ent[f].va = w
    <3>1. w # v /\ x.pte[w] = "paged"
      BY <1>14, <2>3
    <3>2. PICK f \in Entries : x.ent[f].st = 2 /\ x.ent[f].va = w
      BY <1>1, <3>1 DEF Matched
    <3>3. f # e
      BY <3>1, <3>2
    <3> QED
      BY <1>13, <3>2, <3>3
  <2>4. ASSUME NEW f \in Entries, NEW g \in Entries,
               y.ent[f].st # 0, y.ent[g].st # 0, y.ent[f].va = y.ent[g].va
        PROVE  f = g
    <3>1. x.ent[f].st # 0 /\ x.ent[g].st # 0 /\ x.ent[f].va = x.ent[g].va
      BY <1>13, <2>4
    <3> QED
      BY <1>1, <3>1 DEF Matched
  <2> QED
    BY <2>2, <2>3, <2>4 DEF Matched
<1> QED
  BY <1>3, <1>12, <1>13, <1>14, <1>16, <1>17 DEF Books

\* The entry found for a page.
LEMMA EntryFound ==
  ASSUME NEW x \in Memory, Matched(x), NEW v \in Pages, NEW e, e = First(EntriesOf(x, v))
  PROVE  /\ EntriesOf(x, v) # {} => e \in Entries /\ x.ent[e].va = v /\ x.ent[e].st # 0
         /\ x.pte[v] = "paged" => EntriesOf(x, v) # {} /\ x.ent[e].st = 2
         /\ x.pte[v] = "present" /\ EntriesOf(x, v) # {} => x.ent[e].st = 1
         /\ x.pte[v] = "none" => EntriesOf(x, v) = {}
<1>1. ASSUME NEW f \in Entries, x.ent[f].va = v
      PROVE  /\ x.ent[f].st # 0
             /\ x.ent[f].st = 1 => x.pte[v] = "present"
             /\ x.ent[f].st = 2 => x.pte[v] = "paged"
  BY <1>1, PagerSizes DEF Matched
<1>2. \A f \in Entries : x.ent[f].st \in 0 .. 2
  BY DEF Memory, Entry
<1>3. EntriesOf(x, v) # {} => e \in Entries /\ x.ent[e].va = v
  BY FirstIs DEF EntriesOf
<1>4. x.pte[v] = "paged" => EntriesOf(x, v) # {}
  BY DEF Matched, EntriesOf
<1>5. x.pte[v] = "none" => EntriesOf(x, v) = {}
  BY <1>1, <1>2 DEF EntriesOf
<1> QED
  BY <1>1, <1>2, <1>3, <1>4, <1>5

\* The books do not depend on the links.
LEMMA SameBooks ==
  ASSUME NEW x, NEW y, SameData(x, y)
  PROVE  /\ Matched(x) => Matched(y)
         /\ Counts(x) => Counts(y)
         /\ \A k : St(y, k) = St(x, k)
<1>1. \A k : St(y, k) = St(x, k)
  BY DEF SameData, St
<1>2. Counts(x) => Counts(y)
  BY <1>1 DEF SameData, Counts
<1>3. Matched(x) => Matched(y)
  <2>1. /\ y.pte = x.pte
        /\ \A f \in Entries : y.ent[f].va = x.ent[f].va /\ y.ent[f].st = x.ent[f].st /\ y.ent[f].off = x.ent[f].off
    BY DEF SameData
  <2> QED
    BY <2>1 DEF Matched
<1> QED
  BY <1>1, <1>2, <1>3

\* addNewPageToPhysMem: a mapped page gets a free entry, listed last.
LEMMA AddNewPageKeeps ==
  ASSUME NEW x, Books(x, St(x, 1)), NEW v \in Pages, x.pte[v] = "present", EntriesOf(x, v) = {},
         St(x, 0) # {}, St(x, 1) = {} => x.ent[1].st = 0,
         NEW y, y = AddNewPage(x, v)
  PROVE  /\ Books(y, St(y, 1)) /\ y.mem = x.mem + 1 /\ y.file = x.file /\ y.pte = x.pte
         /\ St(y, 2) = St(x, 2)
<1>1. x \in Memory /\ Linked(x, St(x, 1)) /\ Matched(x) /\ Counts(x)
  BY DEF Books
<1>2. x.head = Nil <=> St(x, 1) = {}
  BY <1>1, LinkFacts
<1>3. PICK e \in Entries : e = NewEntry(x, v) /\ x.ent[e].st = 0 /\ (x.head = Nil => e = 1)
  <2>1. CASE x.head = Nil
    BY <1>2, <2>1, PagerSizes DEF NewEntry
  <2>2. CASE x.head # Nil
    <3>1. St(x, 0) \in SUBSET Entries /\ St(x, 0) = {f \in Entries : x.ent[f].st = 0}
      BY DEF St
    <3>2. First(St(x, 0)) \in St(x, 0)
      BY <3>1, FirstIs
    <3> QED
      BY <2>2, <3>1, <3>2 DEF NewEntry
  <2> QED
    BY <2>1, <2>2
<1>4. e \notin St(x, 1) /\ e \notin St(x, 2)
  BY <1>3 DEF St
<1> DEFINE u == IF x.head = Nil THEN [x EXCEPT !.head = e] ELSE Append(x, e)
<1>5. u \in Memory /\ SameData(x, u) /\ Linked(u, St(x, 1) \cup {e}) /\ u.ent[e].next = Nil
  <2>1. CASE x.head = Nil
    <3>1. /\ u.ent = x.ent /\ u.head = e /\ u.pte = x.pte /\ u.frame = x.frame /\ u.disk = x.disk
          /\ u.mem = x.mem /\ u.file = x.file /\ u \in Memory
      BY <1>1, <2>1 DEF Memory
    <3>2. \A f \in Entries : x.ent[f].next = Nil /\ x.ent[f].prev = Nil
      BY <1>1, <1>2, <2>1, LinkFacts
    <3> HIDE DEF u
    <3>3. Linked(u, {e})
      <4> DEFINE L == [i \in 1 .. 1 |-> e]
      <4>1. L \in [1 .. 1 -> Entries] /\ \A i \in 1 .. 1 : i = 1 /\ L[i] = e
        OBVIOUS
      <4>2. Chain(u, 1, L)
        BY <3>1, <3>2, <4>1 DEF Chain
      <4>3. {e} = {L[i] : i \in 1 .. 1}
        BY <4>1
      <4> HIDE DEF L
      <4> QED
        BY <4>1, <4>2, <4>3 DEF Linked
    <3>4. St(x, 1) \cup {e} = {e}
      BY <1>2, <2>1
    <3> QED
      BY <3>1, <3>2, <3>3, <3>4 DEF SameData
  <2>2. CASE x.head # Nil
    <3>1. u = Append(x, e) /\ e \in Entries \ St(x, 1) /\ St(x, 1) # {}
      BY <1>2, <1>4, <2>2
    <3> HIDE DEF u
    <3> QED
      BY <1>1, <3>1, AppendKeeps
  <2> QED
    BY <2>1, <2>2
<1> DEFINE new == [va |-> v, st |-> 1, off |-> NoSlot, cnt |-> 0, next |-> Nil, prev |-> u.ent[e].prev]
           nx == [u.ent EXCEPT ![e] = new]
<1>6. y = [u EXCEPT !.ent = nx, !.mem = u.mem + 1]
  <2>1. y = [u EXCEPT !.ent[e] = [va |-> v, st |-> 1, off |-> NoSlot, cnt |-> 0,
                                  next |-> Nil, prev |-> @.prev],
                      !.mem = @ + 1]
    BY <1>3 DEF AddNewPage
  <2> HIDE DEF u
  <2> QED
    BY <1>5, <2>1 DEF Memory
<1> HIDE DEF u
<1>7. u.ent \in [Entries -> Entry] /\ u.mem + 1 \in Nat /\ u.ent[e].prev \in Entries \cup {Nil}
  BY <1>5 DEF Memory, Entry
<1>8. new \in Entry /\ nx \in [Entries -> Entry]
  BY <1>7, PagerSizes DEF Entry
<1>9. /\ nx[e] = new
      /\ \A f \in Entries : f # e => nx[f] = u.ent[f]
  BY <1>7
<1>10. /\ y.ent = nx /\ y.head = u.head /\ y.pte = u.pte /\ y.mem = u.mem + 1 /\ y.file = u.file
       /\ y \in Memory
  <2> HIDE DEF nx
  <2> QED
    BY <1>5, <1>6, <1>7, <1>8 DEF Memory
<1> HIDE DEF nx
<1>11. Linked(y, St(x, 1) \cup {e})
  <2>1. \A f \in Entries : y.ent[f].next = u.ent[f].next /\ y.ent[f].prev = u.ent[f].prev
    BY <1>5, <1>9, <1>10
  <2> HIDE DEF new
  <2> QED
    BY <1>5, <1>10, <2>1, LinkedSame
<1>12. /\ y.ent[e].va = v /\ y.ent[e].st = 1
       /\ \A f \in Entries : f # e => /\ y.ent[f].va = x.ent[f].va /\ y.ent[f].st = x.ent[f].st
                                      /\ y.ent[f].off = x.ent[f].off
       /\ y.pte = x.pte /\ y.mem = x.mem + 1 /\ y.file = x.file
  BY <1>5, <1>9, <1>10 DEF SameData
<1> HIDE DEF new
<1>13. St(y, 1) = St(x, 1) \cup {e} /\ St(y, 2) = St(x, 2)
  BY <1>3, <1>12 DEF St
<1>14. Counts(y)
  <2>1. St(x, 1) \in SUBSET Entries
    BY DEF St
  <2>2. Cardinality(St(x, 1) \cup {e}) = Cardinality(St(x, 1)) + 1
    BY <1>4, <2>1, CountMoves
  <2> QED
    BY <1>1, <1>12, <1>13, <2>2 DEF Counts
<1>15. Matched(y)
  <2>1. \A f \in Entries : x.ent[f].va # v
    BY DEF EntriesOf
  <2>2. ASSUME NEW f \in Entries
        PROVE  /\ y.ent[f].st = 0 => y.ent[f].va = NoPage
               /\ y.ent[f].st # 0 => y.ent[f].va \in Pages
               /\ y.ent[f].st = 1 => y.pte[y.ent[f].va] = "present"
               /\ y.ent[f].st = 2 => y.pte[y.ent[f].va] = "paged" /\ y.ent[f].off # NoSlot
    <3>1. CASE f = e
      BY <1>12, <3>1
    <3>2. CASE f # e
      BY <1>1, <1>12, <3>2 DEF Matched
    <3> QED
      BY <3>1, <3>2
  <2>3. ASSUME NEW w \in Pages, y.pte[w] = "paged"
        PROVE  \E f \in Entries : y.ent[f].st = 2 /\ y.ent[f].va = w
    <3>1. PICK f \in Entries : x.ent[f].st = 2 /\ x.ent[f].va = w
      BY <1>1, <1>12, <2>3 DEF Matched
    <3> QED
      BY <1>3, <1>12, <3>1
  <2>4. ASSUME NEW f \in Entries, NEW g \in Entries,
               y.ent[f].st # 0, y.ent[g].st # 0, y.ent[f].va = y.ent[g].va
        PROVE  f = g
    BY <1>1, <1>12, <2>1, <2>4 DEF Matched
  <2> QED
    BY <2>2, <2>3, <2>4 DEF Matched
<1> QED
  BY <1>10, <1>11, <1>12, <1>13, <1>14, <1>15 DEF Books

\* An entry that is reset, its page unmapped, is still linked until it is unlinked.
LEMMA BlankKeeps ==
  ASSUME NEW x, NEW S, Books(x, S), NEW e \in Entries, x.ent[e].st # 0,
         NEW y \in Memory, y.head = x.head,
         \A f \in Entries : y.ent[f].next = x.ent[f].next /\ y.ent[f].prev = x.ent[f].prev,
         \A f \in Entries : f # e => /\ y.ent[f].va = x.ent[f].va /\ y.ent[f].st = x.ent[f].st
                                     /\ y.ent[f].off = x.ent[f].off,
         y.ent[e].va = NoPage, y.ent[e].st = 0,
         \A w \in Pages : y.pte[w] = IF w = x.ent[e].va THEN "none" ELSE x.pte[w],
         y.mem = IF x.ent[e].st = 1 THEN x.mem - 1 ELSE x.mem,
         y.file = IF x.ent[e].st = 1 THEN x.file ELSE x.file - 1
  PROVE  /\ Books(y, S)
         /\ St(y, 1) = St(x, 1) \ {e} /\ St(y, 2) = St(x, 2) \ {e}
<1>1. x \in Memory /\ Linked(x, S) /\ Matched(x) /\ Counts(x)
  BY DEF Books
<1>2. x.ent[e].st \in {1, 2}
  BY <1>1 DEF Memory, Entry
<1>3. St(y, 1) = St(x, 1) \ {e} /\ St(y, 2) = St(x, 2) \ {e}
  BY DEF St
<1>4. Linked(y, S)
  BY <1>1, LinkedSame
<1>5. Counts(y)
  <2>1. St(x, 1) \in SUBSET Entries /\ St(x, 2) \in SUBSET Entries
    BY DEF St
  <2>2. CASE x.ent[e].st = 1
    <3>1. e \in St(x, 1) /\ St(y, 2) = St(x, 2)
      BY <1>3, <2>2 DEF St
    <3>2. Cardinality(St(y, 1)) = Cardinality(St(x, 1)) - 1
      BY <1>3, <2>1, <3>1, CountMoves
    <3> QED
      BY <1>1, <2>2, <3>1, <3>2 DEF Counts
  <2>3. CASE x.ent[e].st = 2
    <3>1. e \in St(x, 2) /\ St(y, 1) = St(x, 1)
      BY <1>3, <2>3 DEF St
    <3>2. Cardinality(St(y, 2)) = Cardinality(St(x, 2)) - 1
      BY <1>3, <2>1, <3>1, CountMoves
    <3> QED
      BY <1>1, <2>3, <3>1, <3>2 DEF Counts
  <2> QED
    BY <1>2, <2>2, <2>3
<1>6. Matched(y)
  <2>1. \A f \in Entries : f # e /\ x.ent[f].st # 0 => x.ent[f].va # x.ent[e].va
    BY <1>1 DEF Matched
  <2>2. ASSUME NEW f \in Entries
        PROVE  /\ y.ent[f].st = 0 => y.ent[f].va = NoPage
               /\ y.ent[f].st # 0 => y.ent[f].va \in Pages
               /\ y.ent[f].st = 1 => y.pte[y.ent[f].va] = "present"
               /\ y.ent[f].st = 2 => y.pte[y.ent[f].va] = "paged" /\ y.ent[f].off # NoSlot
    <3>1. CASE f = e
      BY <3>1
    <3>2. CASE f # e
      BY <1>1, <2>1, <3>2 DEF Matched
    <3> QED
      BY <3>1, <3>2
  <2>3. ASSUME NEW w \in Pages, y.pte[w] = "paged"
        PROVE  \E f \in Entries : y.ent[f].st = 2 /\ y.ent[f].va = w
    <3>1. w # x.ent[e].va /\ x.pte[w] = "paged"
      BY <2>3
    <3>2. PICK f \in Entries : x.ent[f].st = 2 /\ x.ent[f].va = w
      BY <1>1, <3>1 DEF Matched
    <3> QED
      BY <3>1, <3>2
  <2>4. ASSUME NEW f \in Entries, NEW g \in Entries,
               y.ent[f].st # 0, y.ent[g].st # 0, y.ent[f].va = y.ent[g].va
        PROVE  f = g
    <3>1. f # e /\ g # e
      BY <2>4
    <3>2. x.ent[f].st # 0 /\ x.ent[g].st # 0 /\ x.ent[f].va = x.ent[g].va
      BY <2>4, <3>1
    <3> QED
      BY <1>1, <3>2 DEF Matched
  <2> QED
    BY <2>2, <2>3, <2>4 DEF Matched
<1> QED
  BY <1>3, <1>4, <1>5, <1>6 DEF Books

\* What deallocuvm does to a page in memory before deletePage, and to a page in the file.
Unmapped(x, v) == [x EXCEPT !.pte[v] = "none", !.frame[v] = NoPage]
PagedFreed(x, v, e) ==
  [x EXCEPT !.pte[v] = "none", !.file = @ - 1,
            !.ent[e] = [EmptyEntry EXCEPT !.next = x.ent[e].next, !.prev = x.ent[e].prev]]

\* deletePage, of a page just unmapped: its entry leaves the list, and a page of the
\* file, if there is one, takes its place in memory.
LEMMA DeletePageKeeps ==
  ASSUME NEW x, Books(x, St(x, 1)), NEW v \in Pages, NEW e \in St(x, 1), x.ent[e].va = v,
         NEW y, y = DeletePage(Unmapped(x, v), e)
  PROVE  /\ Books(y, St(y, 1))
         /\ y.mem + y.file = x.mem + x.file - 1
         /\ \/ y.mem = x.mem
            \/ y.mem = x.mem - 1 /\ St(y, 2) = {}
         /\ \A w \in Pages : y.pte[w] = "none" <=> w = v \/ x.pte[w] = "none"
<1>1. x \in Memory /\ Linked(x, St(x, 1)) /\ Matched(x) /\ Counts(x)
  BY DEF Books
<1>2. e \in Entries /\ x.ent[e].st = 1
  BY DEF St
<1>3. x.mem \in Nat /\ x.mem > 0 /\ x.mem - 1 \in Nat /\ x.file \in Nat
  <2>1. St(x, 1) # {}
    OBVIOUS
  <2>2. Cardinality(St(x, 1)) \in Nat /\ Cardinality(St(x, 1)) # 0
        /\ Cardinality(St(x, 2)) \in Nat
    BY <2>1, StFinite
  <2> QED
    BY <1>1, <2>2 DEF Counts
<1> DEFINE pt == [x.pte EXCEPT ![v] = "none"]
           fr == [x.frame EXCEPT ![v] = NoPage]
           x1 == Unmapped(x, v)
           y0 == [x1 EXCEPT !.mem = IF @ > 0 THEN @ - 1 ELSE @,
                            !.ent[e].va = NoPage, !.ent[e].st = 0, !.ent[e].off = NoSlot]
<1>4. pt \in [Pages -> {"none", "present", "paged"}] /\ fr \in [Pages -> Pages \cup {NoPage}]
      /\ \A w \in Pages : pt[w] = IF w = v THEN "none" ELSE x.pte[w]
  BY <1>1 DEF Memory
<1>5. /\ x1.ent = x.ent /\ x1.head = x.head /\ x1.pte = pt /\ x1.mem = x.mem /\ x1.file = x.file
      /\ x1 \in Memory
  <2>1. x1 = [x EXCEPT !.pte = pt, !.frame = fr]
    BY <1>1 DEF Memory, Unmapped
  <2> HIDE DEF pt, fr, x1
  <2> QED
    BY <1>1, <1>4, <2>1 DEF Memory
<1> HIDE DEF pt, fr, x1
<1>6. /\ y0 \in Memory /\ y0.head = x.head /\ y0.pte = pt
      /\ y0.mem = x.mem - 1 /\ y0.file = x.file
      /\ \A f \in Entries : /\ y0.ent[f].next = x.ent[f].next /\ y0.ent[f].prev = x.ent[f].prev
                            /\ f # e => y0.ent[f] = x.ent[f]
      /\ y0.ent[e].va = NoPage /\ y0.ent[e].st = 0
  <2> DEFINE b == [x1 EXCEPT !.mem = x.mem - 1]
             c == [b EXCEPT !.ent[e].va = NoPage]
             d == [c EXCEPT !.ent[e].st = 0]
             g == [d EXCEPT !.ent[e].off = NoSlot]
  <2>1. y0 = g
    <3>1. x1.mem > 0 /\ x1.mem = x.mem
      BY <1>3, <1>5
    <3> QED
      BY <3>1
  <2> HIDE DEF y0
  <2>2. /\ b \in Memory /\ b.head = x.head /\ b.pte = pt /\ b.mem = x.mem - 1 /\ b.file = x.file
        /\ b.ent = x.ent
    BY <1>3, <1>5 DEF Memory
  <2> HIDE DEF b
  <2>3. /\ c \in Memory /\ c.head = x.head /\ c.pte = pt /\ c.mem = x.mem - 1 /\ c.file = x.file
        /\ \A f \in Entries : /\ c.ent[f].next = x.ent[f].next /\ c.ent[f].prev = x.ent[f].prev
                              /\ f # e => c.ent[f] = x.ent[f]
        /\ c.ent[e].va = NoPage
    <3> DEFINE E == [b.ent EXCEPT ![e].va = NoPage]
    <3>1. /\ E \in [Entries -> Entry]
          /\ \A f \in Entries : /\ E[f].next = x.ent[f].next /\ E[f].prev = x.ent[f].prev
                                /\ f # e => E[f] = x.ent[f]
          /\ E[e].va = NoPage
      BY <1>2, <2>2 DEF Memory, Entry
    <3>2. c = [b EXCEPT !.ent = E]
      BY <2>2 DEF Memory
    <3> HIDE DEF c, E
    <3> QED
      BY <2>2, <3>1, <3>2 DEF Memory
  <2> HIDE DEF c
  <2>4. /\ d \in Memory /\ d.head = x.head /\ d.pte = pt /\ d.mem = x.mem - 1 /\ d.file = x.file
        /\ \A f \in Entries : /\ d.ent[f].next = x.ent[f].next /\ d.ent[f].prev = x.ent[f].prev
                              /\ f # e => d.ent[f] = x.ent[f]
        /\ d.ent[e].va = NoPage /\ d.ent[e].st = 0
    <3> DEFINE E == [c.ent EXCEPT ![e].st = 0]
    <3>1. /\ E \in [Entries -> Entry]
          /\ \A f \in Entries : /\ E[f].next = x.ent[f].next /\ E[f].prev = x.ent[f].prev
                                /\ f # e => E[f] = x.ent[f]
          /\ E[e].va = NoPage /\ E[e].st = 0
      BY <1>2, <2>3 DEF Memory, Entry
    <3>2. d = [c EXCEPT !.ent = E]
      BY <2>3 DEF Memory
    <3> HIDE DEF d, E
    <3> QED
      BY <2>3, <3>1, <3>2 DEF Memory
  <2> HIDE DEF d
  <2> DEFINE E == [d.ent EXCEPT ![e].off = NoSlot]
  <2>5. /\ E \in [Entries -> Entry]
        /\ \A f \in Entries : /\ E[f].next = x.ent[f].next /\ E[f].prev = x.ent[f].prev
                              /\ f # e => E[f] = x.ent[f]
        /\ E[e].va = NoPage /\ E[e].st = 0
    BY <1>2, <2>4 DEF Memory, Entry
  <2>6. g = [d EXCEPT !.ent = E]
    BY <2>4 DEF Memory
  <2> HIDE DEF g, E
  <2>7. /\ g \in Memory /\ g.head = x.head /\ g.pte = pt /\ g.mem = x.mem - 1 /\ g.file = x.file
        /\ g.ent = E
    BY <2>4, <2>5, <2>6 DEF Memory
  <2> QED
    BY <2>1, <2>5, <2>7
<1>7. PICK z0 \in Memory : z0 = y0
  BY <1>6
<1>8. /\ Books(z0, St(x, 1))
      /\ St(z0, 1) = St(x, 1) \ {e} /\ St(z0, 2) = St(x, 2) \ {e}
  <2> HIDE DEF y0
  <2>1. /\ z0.head = x.head /\ z0.pte = pt /\ z0.mem = x.mem - 1 /\ z0.file = x.file
        /\ \A f \in Entries : /\ z0.ent[f].next = x.ent[f].next /\ z0.ent[f].prev = x.ent[f].prev
                              /\ f # e => z0.ent[f] = x.ent[f]
        /\ z0.ent[e].va = NoPage /\ z0.ent[e].st = 0
    BY <1>6, <1>7
  <2>2. \A w \in Pages : z0.pte[w] = IF w = x.ent[e].va THEN "none" ELSE x.pte[w]
    BY <1>4, <2>1
  <2> QED
    BY <1>2, <2>1, <2>2, BlankKeeps
<1>9. St(z0, 2) = St(x, 2)
  BY <1>2, <1>8 DEF St
<1> DEFINE InFile == {f \in Entries : z0.ent[f].st = 2}
           z == IF z0.file > 0 /\ InFile # {} THEN File2Mem(z0, First(InFile)) ELSE z0
<1>10. y = Unlink(z, e)
  BY SMTT(60), <1>7 DEF DeletePage, y0, x1
<1>11. InFile = St(z0, 2)
  BY DEF St
<1>12. z0.mem = x.mem - 1 /\ z0.file = x.file /\ z0.file = Cardinality(St(z0, 2))
       /\ \A w \in Pages : z0.pte[w] = IF w = v THEN "none" ELSE x.pte[w]
  <2> HIDE DEF y0
  <2>1. z0.file = Cardinality(St(z0, 2))
    BY <1>8 DEF Books, Counts
  <2> QED
    BY <1>4, <1>6, <1>7, <2>1
<1> HIDE DEF y0, InFile, z
<1>13. CASE St(z0, 2) = {}
  <2>1. z = z0
    BY <1>11, <1>13 DEF z
  <2>2. y \in Memory /\ SameData(z0, y) /\ Linked(y, St(x, 1) \ {e})
    <3>1. Linked(z0, St(x, 1))
      BY <1>8 DEF Books
    <3> QED
      BY <1>10, <2>1, <3>1, UnlinkKeeps
  <2>3. Matched(y) /\ Counts(y) /\ St(y, 1) = St(x, 1) \ {e} /\ St(y, 2) = {}
    <3>1. Matched(z0) /\ Counts(z0)
      BY <1>8 DEF Books
    <3> QED
      BY <1>8, <1>13, <2>2, <3>1, SameBooks
  <2>4. y.mem = x.mem - 1 /\ y.file = x.file /\ y.pte = z0.pte
    BY <1>12, <2>2 DEF SameData
  <2>5. y.mem + y.file = x.mem + x.file - 1
    BY <1>3, <2>4
  <2>6. \A w \in Pages : y.pte[w] = "none" <=> w = v \/ x.pte[w] = "none"
    BY <1>12, <2>4
  <2>7. Books(y, St(y, 1))
    BY <2>2, <2>3 DEF Books
  <2> QED
    BY <2>3, <2>4, <2>5, <2>6, <2>7
<1>14. CASE St(z0, 2) # {}
  <2>1. z0.file > 0
    BY <1>3, <1>12, <1>14, StFinite
  <2>2. PICK f \in Entries : f = First(St(z0, 2)) /\ z0.ent[f].st = 2
    <3>1. St(z0, 2) \in SUBSET Entries /\ \A g \in St(z0, 2) : z0.ent[g].st = 2
      BY DEF St
    <3> QED
      BY <1>14, <3>1, FirstIs
  <2>3. f \notin St(x, 1) /\ f # e
    <3>1. f \in St(x, 2)
      BY <1>9, <2>2 DEF St
    <3> QED
      BY <1>2, <3>1 DEF St
  <2>4. z = File2Mem(z0, f)
    BY <1>11, <1>14, <2>1, <2>2 DEF z
  <2>5. /\ Books(z, St(x, 1) \cup {f}) /\ z.mem = z0.mem + 1 /\ z.file = z0.file - 1
        /\ \A g \in Entries : z.ent[g].st = IF g = f THEN 1 ELSE z0.ent[g].st
        /\ \A w \in Pages : z.pte[w] = IF w = z0.ent[f].va THEN "present" ELSE z0.pte[w]
        /\ z0.ent[f].va \in Pages /\ z0.pte[z0.ent[f].va] = "paged"
    BY <1>8, <2>2, <2>3, <2>4, File2MemKeeps
  <2>6. z \in Memory /\ Linked(z, St(x, 1) \cup {f}) /\ Matched(z) /\ Counts(z)
    BY <2>5 DEF Books
  <2>7. St(z, 1) = (St(x, 1) \cup {f}) \ {e}
    <3>1. St(z, 1) = St(z0, 1) \cup {f}
      BY <2>5 DEF St
    <3> QED
      BY <1>8, <2>3, <3>1
  <2>8. y \in Memory /\ SameData(z, y) /\ Linked(y, (St(x, 1) \cup {f}) \ {e})
    BY <1>10, <2>6, UnlinkKeeps
  <2>9. Matched(y) /\ Counts(y) /\ St(y, 1) = (St(x, 1) \cup {f}) \ {e}
    BY <2>6, <2>7, <2>8, SameBooks
  <2>10. y.mem = z.mem /\ y.file = z.file /\ y.pte = z.pte
    BY <2>8 DEF SameData
  <2>11. \A w \in Pages : y.pte[w] = "none" <=> w = v \/ x.pte[w] = "none"
    BY <1>12, <2>5, <2>10
  <2>12. y.mem = x.mem /\ y.file = x.file - 1
    BY <1>3, <1>12, <2>5, <2>10
  <2> QED
    BY <1>3, <2>8, <2>9, <2>11, <2>12 DEF Books
<1> QED
  BY <1>13, <1>14

\* deallocuvm of a page in the file: its entry is reset.
LEMMA FreePagedKeeps ==
  ASSUME NEW x, Books(x, St(x, 1)), NEW v \in Pages, NEW e \in St(x, 2), x.ent[e].va = v,
         NEW y, y = PagedFreed(x, v, e)
  PROVE  /\ Books(y, St(y, 1)) /\ y.mem = x.mem /\ y.file = x.file - 1
         /\ St(y, 2) = St(x, 2) \ {e}
         /\ \A w \in Pages : y.pte[w] = "none" <=> w = v \/ x.pte[w] = "none"
<1>1. x \in Memory /\ Linked(x, St(x, 1)) /\ Matched(x) /\ Counts(x)
  BY DEF Books
<1>2. e \in Entries /\ x.ent[e].st = 2 /\ x.ent[e] \in Entry
  BY <1>1 DEF St, Memory
<1>3. x.file - 1 \in 0 .. Cardinality(Slots)
  <2>1. x.file # 0 /\ x.file \in 0 .. Cardinality(Slots)
    BY <1>1, StFinite DEF Counts, Memory
  <2> QED
    BY <2>1, PagerSizes
<1> DEFINE pt == [x.pte EXCEPT ![v] = "none"]
           new == [EmptyEntry EXCEPT !.next = x.ent[e].next, !.prev = x.ent[e].prev]
           E == [x.ent EXCEPT ![e] = new]
<1>4. /\ new \in Entry /\ new.va = NoPage /\ new.st = 0
      /\ new.next = x.ent[e].next /\ new.prev = x.ent[e].prev
  <2>1. EmptyEntry \in Entry /\ EmptyEntry.va = NoPage /\ EmptyEntry.st = 0
    BY PagerSizes DEF Entry, EmptyEntry
  <2>2. x.ent[e].next \in Entries \cup {Nil} /\ x.ent[e].prev \in Entries \cup {Nil}
    BY <1>2 DEF Entry
  <2> QED
    BY <2>1, <2>2 DEF Entry
<1>5. pt \in [Pages -> {"none", "present", "paged"}]
      /\ \A w \in Pages : pt[w] = IF w = v THEN "none" ELSE x.pte[w]
  BY <1>1 DEF Memory
<1>6. y = [x EXCEPT !.pte = pt, !.file = x.file - 1, !.ent = E]
  BY <1>1 DEF Memory, PagedFreed
<1> HIDE DEF pt, new
<1>7. E \in [Entries -> Entry] /\ E[e] = new /\ \A f \in Entries : f # e => E[f] = x.ent[f]
  BY <1>1, <1>2, <1>4 DEF Memory
<1> HIDE DEF E
<1>8. /\ y \in Memory /\ y.head = x.head /\ y.mem = x.mem /\ y.file = x.file - 1 /\ y.pte = pt
      /\ y.ent = E
  BY <1>1, <1>3, <1>5, <1>6, <1>7 DEF Memory
<1>9. \A w \in Pages : y.pte[w] = IF w = x.ent[e].va THEN "none" ELSE x.pte[w]
  BY <1>5, <1>8
<1>10. /\ \A f \in Entries : y.ent[f].next = x.ent[f].next /\ y.ent[f].prev = x.ent[f].prev
       /\ \A f \in Entries : f # e => y.ent[f] = x.ent[f]
       /\ y.ent[e].va = NoPage /\ y.ent[e].st = 0
  BY <1>4, <1>7, <1>8
<1>11. Books(y, St(x, 1)) /\ St(y, 1) = St(x, 1) \ {e} /\ St(y, 2) = St(x, 2) \ {e}
  <2>1. /\ x.ent[e].st # 0
        /\ y.mem = IF x.ent[e].st = 1 THEN x.mem - 1 ELSE x.mem
        /\ y.file = IF x.ent[e].st = 1 THEN x.file ELSE x.file - 1
    BY <1>2, <1>8
  <2>2. /\ y \in Memory /\ y.head = x.head
        /\ \A f \in Entries : f # e => /\ y.ent[f].va = x.ent[f].va /\ y.ent[f].st = x.ent[f].st
                                      /\ y.ent[f].off = x.ent[f].off
    BY <1>8, <1>10
  <2>3. PICK z \in Memory : z = y
    BY <1>8
  <2>4. Books(z, St(x, 1)) /\ St(z, 1) = St(x, 1) \ {e} /\ St(z, 2) = St(x, 2) \ {e}
    <3>1. /\ x.ent[e].st # 0
          /\ z.mem = IF x.ent[e].st = 1 THEN x.mem - 1 ELSE x.mem
          /\ z.file = IF x.ent[e].st = 1 THEN x.file ELSE x.file - 1
      BY <2>1, <2>3
    <3>2. /\ z.head = x.head
          /\ \A f \in Entries : f # e => /\ z.ent[f].va = x.ent[f].va /\ z.ent[f].st = x.ent[f].st
                                        /\ z.ent[f].off = x.ent[f].off
          /\ \A f \in Entries : z.ent[f].next = x.ent[f].next /\ z.ent[f].prev = x.ent[f].prev
          /\ z.ent[e].va = NoPage /\ z.ent[e].st = 0
          /\ \A w \in Pages : z.pte[w] = IF w = x.ent[e].va THEN "none" ELSE x.pte[w]
      BY <1>9, <1>10, <2>2, <2>3
    <3> QED
      BY ONLY Books(x, St(x, 1)), z \in Memory, <1>2, <3>1, <3>2, BlankKeeps
  <2> QED
    BY <2>3, <2>4
<1>12. St(y, 1) = St(x, 1)
  BY <1>2, <1>11 DEF St
<1> QED
  BY <1>8, <1>9, <1>11, <1>12

\* A page is unmapped that has no entry.
LEMMA UnmapKeeps ==
  ASSUME NEW x, Books(x, St(x, 1)), NEW v \in Pages, EntriesOf(x, v) = {},
         NEW y \in Memory, y.ent = x.ent, y.head = x.head, y.mem = x.mem, y.file = x.file,
         \A w \in Pages : w # v => y.pte[w] = x.pte[w], y.pte[v] # "paged"
  PROVE  /\ Books(y, St(y, 1)) /\ EntriesOf(y, v) = {}
         /\ \A k : St(y, k) = St(x, k)
<1>1. x \in Memory /\ Linked(x, St(x, 1)) /\ Matched(x) /\ Counts(x)
  BY DEF Books
<1>2. \A f \in Entries : x.ent[f].va # v
  BY DEF EntriesOf
<1>3. \A k : St(y, k) = St(x, k)
  BY DEF St
<1>4. Linked(y, St(x, 1))
  BY <1>1, LinkedSame
<1>5. Counts(y)
  BY <1>1, <1>3 DEF Counts
<1>6. Matched(y)
  BY <1>1, <1>2 DEF Matched
<1>7. EntriesOf(y, v) = {}
  BY <1>2 DEF EntriesOf
<1> QED
  BY <1>3, <1>4, <1>5, <1>6, <1>7 DEF Books

\* swapPages, of a page in the file, with the victim's offset overwritten before.
LEMMA SwapPagesKeeps ==
  ASSUME NEW x, Books(x, St(x, 1)), St(x, 1) # {}, NEW e \in St(x, 2),
         NEW y, y = SwapPages(x, e)
  PROVE  /\ Books(y, St(y, 1)) /\ y.mem = x.mem /\ y.file = x.file
         /\ \A w \in Pages : y.pte[w] = "none" <=> x.pte[w] = "none"
<1>1. x \in Memory /\ Linked(x, St(x, 1)) /\ Matched(x) /\ Counts(x)
  BY DEF Books
<1>2. e \in Entries /\ x.ent[e].st = 2
  BY DEF St
<1>3. PICK out \in St(x, 1) : out = Victim(x)
  BY <1>1, VictimIs
<1>4. out \in Entries /\ x.ent[out].st = 1 /\ out # e
  BY <1>2 DEF St
<1>5. x.file \in Nat /\ x.file > 0 /\ x.file <= Cardinality(Slots) /\ x.mem \in Nat
  <2>1. x.file # 0 /\ x.file \in 0 .. Cardinality(Slots) /\ x.mem \in Nat
    BY <1>1, StFinite DEF Counts, Memory
  <2> QED
    BY <2>1, PagerSizes
<1> DEFINE E == [x.ent EXCEPT ![out].off = x.ent[e].off]
           a == [x EXCEPT !.ent[out].off = x.ent[e].off]
           b == File2Mem(a, e)
<1>6. /\ E \in [Entries -> Entry]
      /\ \A f \in Entries : /\ E[f].st = x.ent[f].st /\ E[f].va = x.ent[f].va
                            /\ E[f].next = x.ent[f].next /\ E[f].prev = x.ent[f].prev
                            /\ f # out => E[f] = x.ent[f]
  <2>1. x.ent[e].off \in Slots \cup {NoSlot} /\ x.ent \in [Entries -> Entry]
    BY <1>1, <1>2 DEF Memory, Entry
  <2> QED
    BY <1>4, <2>1 DEF Entry
<1>7. a = [x EXCEPT !.ent = E]
  BY <1>1 DEF Memory
<1> HIDE DEF E, a
<1>8. /\ a \in Memory /\ a.ent = E /\ a.head = x.head /\ a.pte = x.pte
      /\ a.mem = x.mem /\ a.file = x.file
  BY <1>1, <1>6, <1>7 DEF Memory
<1>9. Books(a, St(x, 1)) /\ St(a, 1) = St(x, 1)
  <2>1. \A k : St(a, k) = St(x, k)
    BY <1>6, <1>8 DEF St
  <2>2. Counts(a)
    BY <1>1, <1>8, <2>1 DEF Counts
  <2>3. Linked(a, St(x, 1))
    BY <1>1, <1>6, <1>8, LinkedSame
  <2>4. Matched(a)
    <3>1. \A f \in Entries : a.ent[f].st = 2 => a.ent[f].off = x.ent[f].off
      BY <1>4, <1>6, <1>8
    <3>2. \A f \in Entries : a.ent[f].va = x.ent[f].va /\ a.ent[f].st = x.ent[f].st
      BY <1>6, <1>8
    <3> QED
      BY <1>1, <1>8, <3>1, <3>2 DEF Matched
  <2> QED
    BY <1>8, <2>1, <2>2, <2>3, <2>4 DEF Books
<1>10. e \in Entries \ St(x, 1) /\ a.ent[e].st = 2
  BY <1>2, <1>6, <1>8 DEF St
<1>11. /\ Books(b, St(x, 1) \cup {e}) /\ b.mem = a.mem + 1 /\ b.file = a.file - 1
       /\ \A f \in Entries : b.ent[f].st = IF f = e THEN 1 ELSE a.ent[f].st
       /\ \A w \in Pages : b.pte[w] = IF w = a.ent[e].va THEN "present" ELSE a.pte[w]
       /\ a.ent[e].va \in Pages /\ a.pte[a.ent[e].va] = "paged"
  BY <1>9, <1>10, File2MemKeeps
<1>12. y = Mem2File(b, out)
  BY <1>3 DEF SwapPages, a
<1> HIDE DEF b
<1>13. b.ent[out].st = 1 /\ out \in St(x, 1) \cup {e} /\ b.file < Cardinality(Slots)
  <2>1. b.file = x.file - 1
    BY <1>8, <1>11
  <2>2. Cardinality(Slots) \in Nat
    BY PagerSizes
  <2> QED
    BY <1>4, <1>5, <1>6, <1>8, <1>11, <2>1, <2>2
<1>14. /\ Books(y, (St(x, 1) \cup {e}) \ {out}) /\ y.mem = b.mem - 1 /\ y.file = b.file + 1
       /\ \A f \in Entries : y.ent[f].st = IF f = out THEN 2 ELSE b.ent[f].st
       /\ \A w \in Pages : y.pte[w] = IF w = b.ent[out].va THEN "paged" ELSE b.pte[w]
       /\ b.pte[b.ent[out].va] = "present"
  <2>1. PICK T : T = St(x, 1) \cup {e}
    OBVIOUS
  <2>2. Books(b, T) /\ out \in T
    BY <1>11, <1>13, <2>1
  <2>3. /\ Books(y, T \ {out}) /\ y.mem = b.mem - 1 /\ y.file = b.file + 1
        /\ \A f \in Entries : y.ent[f].st = IF f = out THEN 2 ELSE b.ent[f].st
        /\ \A w \in Pages : y.pte[w] = IF w = b.ent[out].va THEN "paged" ELSE b.pte[w]
        /\ b.pte[b.ent[out].va] = "present"
    BY <1>12, <1>13, <2>2, Mem2FileKeeps
  <2> QED
    BY <2>1, <2>3
<1>15. St(y, 1) = (St(x, 1) \cup {e}) \ {out}
  <2>1. \A f \in Entries : y.ent[f].st = IF f = out THEN 2 ELSE IF f = e THEN 1 ELSE x.ent[f].st
    BY <1>6, <1>8, <1>11, <1>14
  <2> QED
    BY <1>2, <1>4, <2>1 DEF St
<1>16. y.mem = x.mem /\ y.file = x.file
  BY <1>5, <1>8, <1>11, <1>14
<1>17. \A w \in Pages : y.pte[w] = "none" <=> x.pte[w] = "none"
  BY <1>8, <1>11, <1>14
<1> QED
  BY <1>14, <1>15, <1>16, <1>17

-----------------------------------------------------------------------------
(* The inductive invariant.                                                *)

\* The pages below Low are mapped; Low .. High - 1 are being freed; a page mapped at
\* High or above is left over from a growth that failed at the limit.
Low == CASE op.name = "user" -> sz [] op.name = "alloc" -> op.cur [] OTHER -> op.size
High == CASE op.name = "user" -> sz [] op.name = "alloc" -> op.cur [] OTHER -> op.end

OpShape ==
  /\ sz \in 1 .. Top /\ time \in 0 .. MaxTime
  /\ panic \in {"none", "copyuvm", "file2mem"}
  /\ op \in [name : {"user", "alloc", "dealloc"}, cur : 0 .. Top, end : 0 .. Top, size : 0 .. Top]
  /\ op.name = "alloc" => sz <= op.cur /\ op.cur <= op.end /\ op.end = op.size
  /\ op.name = "dealloc" => 1 <= op.size /\ op.size <= op.cur /\ op.cur <= op.end

NoneBelow(x, v) == {u \in Pages : u < v /\ x.pte[u] = "none"}

\* The limits.
Bounded(x) == x.mem <= MaxPhys /\ (St(x, 2) # {} => x.mem >= MaxPhys - 1)

Mapped(x, lo) == \A v \in Pages : v < lo => x.pte[v] # "none"
Freed(x, lo, hi) == \A v \in Pages : lo <= v /\ v < hi => x.pte[v] = "none"

\* A growth has as many pages to add, before it comes to a page left over, as the
\* limits leave room for.
Leftover(x, hi) ==
  \A v \in Pages : v >= hi /\ x.pte[v] # "none" =>
                   x.mem + x.file + Cardinality(NoneBelow(x, v)) >= MaxTotal

PInv ==
  /\ Books(m, St(m, 1))
  /\ Bounded(m)
  /\ OpShape
  /\ Mapped(m, Low)
  /\ op.name = "dealloc" => Freed(m, op.size, op.cur)
  /\ Leftover(m, High)
  /\ panic = "copyuvm" => St(m, 2) # {}

\* The counts of a memory are numbers.
LEMMA BookNumbers ==
  ASSUME NEW x \in Memory, Counts(x)
  PROVE  /\ x.mem \in Nat /\ x.file \in Nat /\ x.file <= MaxTotal - MaxPhys
         /\ (x.mem = 0 <=> St(x, 1) = {}) /\ (x.file = 0 <=> St(x, 2) = {})
<1>1. x.mem \in Nat /\ x.file \in 0 .. Cardinality(Slots)
  BY DEF Memory
<1>2. x.file \in Nat /\ x.file <= MaxTotal - MaxPhys
  BY <1>1, PagerSizes
<1> QED
  BY <1>1, <1>2, StFinite DEF Counts

\* Below the total limit there is a free entry.
LEMMA FreeEntry ==
  ASSUME NEW x \in Memory, Counts(x), x.mem + x.file < MaxTotal
  PROVE  St(x, 0) # {}
<1> SUFFICES ASSUME St(x, 0) = {} PROVE FALSE
  OBVIOUS
<1>1. IsFiniteSet(St(x, 1)) /\ IsFiniteSet(St(x, 2))
      /\ Cardinality(St(x, 1)) = x.mem /\ Cardinality(St(x, 2)) = x.file
  BY StFinite DEF Counts
<1>2. St(x, 1) \cup St(x, 2) = Entries /\ St(x, 1) \cap St(x, 2) = {}
  <2>1. \A f \in Entries : x.ent[f].st \in 0 .. 2 /\ x.ent[f].st # 0
    BY DEF Memory, Entry, St
  <2> QED
    BY <2>1 DEF St
<1>3. Cardinality(St(x, 1) \cup St(x, 2)) =
        Cardinality(St(x, 1)) + Cardinality(St(x, 2)) - Cardinality(St(x, 1) \cap St(x, 2))
  BY <1>1, FS_Union
<1>4. Cardinality(St(x, 1) \cap St(x, 2)) = 0
  BY <1>2, FS_EmptySet
<1>5. x.mem + x.file = MaxTotal
  <2>1. Cardinality(Entries) = x.mem + x.file - 0
    BY <1>1, <1>2, <1>3, <1>4
  <2>2. x.mem \in Nat /\ x.file \in Nat /\ Cardinality(Entries) = MaxTotal
    BY BookNumbers, PagerSizes
  <2> QED
    BY <2>1, <2>2
<1> QED
  BY <1>5, PagerSizes

\* The pages that are not mapped, below one of them, can be counted.
LEMMA NoneFinite ==
  ASSUME NEW x, NEW v
  PROVE  IsFiniteSet(NoneBelow(x, v)) /\ Cardinality(NoneBelow(x, v)) \in Nat
<1>1. IsFiniteSet(Pages)
  <2>1. PICK b \in Int : b = Top - 1
    BY PagerSizes
  <2> QED
    BY <2>1, FS_Interval DEF Pages
<1>2. NoneBelow(x, v) \in SUBSET Pages
  BY DEF NoneBelow
<1>3. IsFiniteSet(NoneBelow(x, v))
  BY <1>1, <1>2, FS_Subset
<1> QED
  BY <1>3, FS_CardinalityType

\* Pages that stay mapped or unmapped as they are.
LEMMA SamePages ==
  ASSUME NEW x, NEW y, \A w \in Pages : y.pte[w] = "none" <=> x.pte[w] = "none",
         y.mem + y.file = x.mem + x.file
  PROVE  /\ \A k : Mapped(x, k) => Mapped(y, k)
         /\ \A k, l : Freed(x, k, l) => Freed(y, k, l)
         /\ \A k : Leftover(x, k) => Leftover(y, k)
<1>1. \A k : Mapped(x, k) => Mapped(y, k)
  BY DEF Mapped
<1>2. \A k, l : Freed(x, k, l) => Freed(y, k, l)
  BY DEF Freed
<1>3. \A v : NoneBelow(y, v) = NoneBelow(x, v)
  BY DEF NoneBelow
<1>4. ASSUME NEW k, Leftover(x, k) PROVE Leftover(y, k)
  BY <1>3, <1>4 DEF Leftover
<1> QED
  BY <1>1, <1>2, <1>4

\* A page is added at the lowest page that may be left over.
LEMMA LeftoverTaken ==
  ASSUME NEW x, NEW y, NEW v \in Pages, Leftover(x, v), x.pte[v] = "none",
         \A w \in Pages : y.pte[w] = "none" <=> w # v /\ x.pte[w] = "none",
         NEW i \in Nat, i = x.mem + x.file, y.mem + y.file = i + 1
  PROVE  Leftover(y, v + 1)
<1>1. SUFFICES ASSUME NEW w \in Pages, w >= v + 1, y.pte[w] # "none"
               PROVE  y.mem + y.file + Cardinality(NoneBelow(y, w)) >= MaxTotal
  BY DEF Leftover
<1>2. v \in Nat /\ w \in Nat /\ v < w /\ w >= v
  BY <1>1, PagerSizes DEF Pages
<1>3. x.pte[w] # "none"
  BY <1>1, <1>2
<1>4. x.mem + x.file + Cardinality(NoneBelow(x, w)) >= MaxTotal
  BY <1>2, <1>3 DEF Leftover
<1>5. v \in NoneBelow(x, w) /\ NoneBelow(y, w) = NoneBelow(x, w) \ {v}
  BY <1>2 DEF NoneBelow
<1>6. /\ Cardinality(NoneBelow(y, w)) = Cardinality(NoneBelow(x, w)) - 1
      /\ Cardinality(NoneBelow(x, w)) \in Nat
  BY <1>5, NoneFinite, FS_RemoveElement
<1>7. PICK c \in Nat : c = Cardinality(NoneBelow(x, w))
  BY <1>6
<1>8. i + c >= MaxTotal /\ Cardinality(NoneBelow(y, w)) = c - 1
  BY <1>4, <1>6, <1>7
<1>9. (i + 1) + (c - 1) >= MaxTotal
  BY <1>8, PagerSizes
<1> QED
  BY <1>8, <1>9

\* A page is unmapped below the pages that may be left over.
LEMMA LeftoverFreed ==
  ASSUME NEW x, NEW y, NEW hi \in Nat, NEW v \in Pages, v < hi, Leftover(x, hi), x.pte[v] # "none",
         \A w \in Pages : y.pte[w] = "none" <=> w = v \/ x.pte[w] = "none",
         NEW i \in Nat, i = x.mem + x.file, NEW j \in Nat, j = y.mem + y.file, j + 1 >= i
  PROVE  Leftover(y, hi)
<1>1. SUFFICES ASSUME NEW w \in Pages, w >= hi, y.pte[w] # "none"
               PROVE  y.mem + y.file + Cardinality(NoneBelow(y, w)) >= MaxTotal
  BY DEF Leftover
<1>2. v \in Nat /\ w \in Nat /\ v < w
  BY <1>1, PagerSizes DEF Pages
<1>3. x.pte[w] # "none"
  BY <1>1
<1>4. x.mem + x.file + Cardinality(NoneBelow(x, w)) >= MaxTotal
  BY <1>1, <1>3 DEF Leftover
<1>5. v \notin NoneBelow(x, w) /\ NoneBelow(y, w) = NoneBelow(x, w) \cup {v}
  BY <1>2 DEF NoneBelow
<1>6. /\ Cardinality(NoneBelow(y, w)) = Cardinality(NoneBelow(x, w)) + 1
      /\ Cardinality(NoneBelow(x, w)) \in Nat
  BY <1>5, NoneFinite, FS_AddElement
<1>7. PICK c \in Nat : c = Cardinality(NoneBelow(x, w))
  BY <1>6
<1>8. i + c >= MaxTotal /\ Cardinality(NoneBelow(y, w)) = c + 1
  BY <1>4, <1>6, <1>7
<1>9. j + (c + 1) >= MaxTotal
  BY <1>8, PagerSizes
<1> QED
  BY <1>8, <1>9

\* allocuvm makes room in memory while the limits let it.
LEMMA MakeRoomKeeps ==
  ASSUME Books(m, St(m, 1)), Bounded(m), ~AtLimit, NEW y, y = MakeRoom
  PROVE  /\ Books(y, St(y, 1)) /\ Bounded(y) /\ y.mem < MaxPhys
         /\ y.mem + y.file = m.mem + m.file /\ y.mem + y.file < MaxTotal
         /\ \A w \in Pages : y.pte[w] = "none" <=> m.pte[w] = "none"
<1>1. m \in Memory /\ Linked(m, St(m, 1)) /\ Matched(m) /\ Counts(m)
  BY DEF Books
<1>2. /\ m.mem \in Nat /\ m.file \in Nat /\ m.file <= MaxTotal - MaxPhys
      /\ (m.mem = 0 <=> St(m, 1) = {})
  BY <1>1, BookNumbers
<1>3. m.mem <= MaxPhys
  BY DEF Bounded
<1>4. CASE Full
  <2>1. m.mem = MaxPhys /\ m.file # MaxTotal - MaxPhys /\ St(m, 1) # {}
    BY <1>2, <1>4, PagerSizes DEF Full, AtLimit
  <2>2. PICK e \in St(m, 1) : e = Victim(m)
    BY <1>1, <2>1, VictimIs
  <2>3. m.ent[e].st = 1 /\ e \in Entries
    BY DEF St
  <2>4. m.file < Cardinality(Slots)
    BY <1>2, <2>1, PagerSizes
  <2>5. y = Mem2File(m, e)
    BY <1>4, <2>2 DEF MakeRoom
  <2>6. /\ Books(y, St(m, 1) \ {e}) /\ y.mem = m.mem - 1 /\ y.file = m.file + 1
        /\ \A f \in Entries : y.ent[f].st = IF f = e THEN 2 ELSE m.ent[f].st
        /\ \A v \in Pages : y.pte[v] = IF v = m.ent[e].va THEN "paged" ELSE m.pte[v]
        /\ m.pte[m.ent[e].va] = "present"
    BY <2>3, <2>4, <2>5, Mem2FileKeeps
  <2>7. St(y, 1) = St(m, 1) \ {e}
    BY <2>6 DEF St
  <2>8. /\ y.mem < MaxPhys /\ y.mem <= MaxPhys /\ y.mem >= MaxPhys - 1
        /\ y.mem + y.file = m.mem + m.file /\ y.mem + y.file < MaxTotal
    BY <1>2, <2>1, <2>6, PagerSizes
  <2>9. \A w \in Pages : y.pte[w] = "none" <=> m.pte[w] = "none"
    BY <2>6
  <2> QED
    BY <2>6, <2>7, <2>8, <2>9 DEF Bounded
<1>5. CASE ~Full
  <2>1. y = m /\ m.mem < MaxPhys
    BY <1>2, <1>3, <1>5, PagerSizes DEF MakeRoom, Full
  <2>2. m.mem + m.file < MaxTotal
    BY <1>2, <2>1, PagerSizes
  <2> QED
    BY <2>1, <2>2
<1> QED
  BY <1>4, <1>5

\* Then the page is mapped and listed.
LEMMA AllocKeeps ==
  ASSUME Books(m, St(m, 1)), Bounded(m), ~AtLimit, NEW v \in Pages, m.pte[v] = "none",
         NEW y, y = AddNewPage([MakeRoom EXCEPT !.pte[v] = "present", !.frame[v] = v], v)
  PROVE  /\ Books(y, St(y, 1)) /\ Bounded(y) /\ y.mem + y.file = m.mem + m.file + 1
         /\ \A w \in Pages : y.pte[w] = "none" <=> w # v /\ m.pte[w] = "none"
<1>1. PICK z : z = MakeRoom
  OBVIOUS
<1>2. /\ Books(z, St(z, 1)) /\ Bounded(z) /\ z.mem < MaxPhys
      /\ z.mem + z.file = m.mem + m.file /\ z.mem + z.file < MaxTotal
      /\ \A w \in Pages : z.pte[w] = "none" <=> m.pte[w] = "none"
  BY <1>1, MakeRoomKeeps
<1>3. z \in Memory /\ Matched(z) /\ Counts(z)
  BY <1>2 DEF Books
<1>4. /\ z.mem \in Nat /\ z.file \in Nat
      /\ (z.mem = 0 <=> St(z, 1) = {})
  BY <1>3, BookNumbers
<1> DEFINE pt == [z.pte EXCEPT ![v] = "present"]
           fr == [z.frame EXCEPT ![v] = v]
           u == [z EXCEPT !.pte[v] = "present", !.frame[v] = v]
<1>5. pt \in [Pages -> {"none", "present", "paged"}] /\ fr \in [Pages -> Pages \cup {NoPage}]
      /\ \A w \in Pages : pt[w] = IF w = v THEN "present" ELSE z.pte[w]
  BY <1>3 DEF Memory
<1>6. u = [z EXCEPT !.pte = pt, !.frame = fr]
  BY <1>3 DEF Memory
<1>7. y = AddNewPage(u, v)
  BY <1>1
<1> HIDE DEF pt, fr, u
<1>8. /\ u \in Memory /\ u.ent = z.ent /\ u.head = z.head /\ u.mem = z.mem /\ u.file = z.file
      /\ u.pte = pt
  BY <1>3, <1>5, <1>6 DEF Memory
<1>9. EntriesOf(z, v) = {}
  BY <1>2, <1>3, EntryFound
<1>10. /\ Books(u, St(u, 1)) /\ EntriesOf(u, v) = {}
       /\ \A k : St(u, k) = St(z, k)
  <2>1. /\ \A w \in Pages : w # v => u.pte[w] = z.pte[w]
        /\ u.pte[v] # "paged"
    BY <1>5, <1>8
  <2> QED
    BY <1>2, <1>8, <1>9, <2>1, UnmapKeeps
<1>11. St(u, 0) # {}
  BY <1>2, <1>3, <1>10, FreeEntry
<1>12. St(u, 1) = {} => u.ent[1].st = 0
  <2> SUFFICES ASSUME St(u, 1) = {} PROVE u.ent[1].st = 0
    OBVIOUS
  <2>1. St(z, 2) = {} /\ St(z, 1) = {}
    <3>1. ~(z.mem >= MaxPhys - 1)
      BY <1>4, <1>10, PagerSizes
    <3> QED
      BY <1>2, <1>10, <3>1 DEF Bounded
  <2>2. z.ent[1].st \in 0 .. 2 /\ 1 \in Entries
    BY <1>3, PagerSizes DEF Memory, Entry
  <2> QED
    BY <1>8, <2>1, <2>2 DEF St
<1>13. /\ Books(y, St(y, 1)) /\ y.mem = u.mem + 1 /\ y.file = u.file /\ y.pte = u.pte
       /\ St(y, 2) = St(u, 2)
  <2>1. u.pte[v] = "present"
    BY <1>5, <1>8
  <2> QED
    BY <1>7, <1>10, <1>11, <1>12, <2>1, AddNewPageKeeps
<1>14. Bounded(y)
  <2>1. y.mem <= MaxPhys /\ (z.mem >= MaxPhys - 1 => y.mem >= MaxPhys - 1)
    BY <1>2, <1>4, <1>8, <1>13, PagerSizes
  <2> QED
    BY <1>2, <1>10, <1>13, <2>1 DEF Bounded
<1>15. y.mem + y.file = m.mem + m.file + 1
  <2>1. y.mem + y.file = z.mem + z.file + 1
    BY <1>4, <1>8, <1>13
  <2> QED
    BY <1>2, <2>1
<1>16. \A w \in Pages : y.pte[w] = "none" <=> w # v /\ m.pte[w] = "none"
  BY <1>2, <1>5, <1>8, <1>13
<1> QED
  BY <1>13, <1>14, <1>15, <1>16

-----------------------------------------------------------------------------
(* The invariant.                                                          *)

\* A step that has done these things keeps the invariant.
LEMMA PInvAfter ==
  ASSUME NEW y, m' = y, Books(y, St(y, 1)), Bounded(y), OpShape',
         NEW lo, lo = Low', NEW hi, hi = High', Mapped(y, lo),
         op'.name = "dealloc" => Freed(y, op'.size, op'.cur),
         Leftover(y, hi), panic' = "copyuvm" => St(y, 2) # {}
  PROVE  PInv'
BY DEF PInv

\* What the kind of call says of Low and High.
LEMMA Span ==
  /\ op.name = "user" => Low = sz /\ High = sz
  /\ op.name = "alloc" => Low = op.cur /\ High = op.cur
  /\ op.name = "dealloc" => Low = op.size /\ High = op.end
BY DEF Low, High

\* The process at its start: nothing in the file, at most MaxPhys pages on the list.
LEMMA PInvAtInit == Init => PInv
<1> SUFFICES ASSUME Init PROVE PInv
  OBVIOUS
<1>1. PICK n \in 1 .. Top : sz = n /\ (m = Reset(n) \/ (n <= MaxPhys /\ m = Listing(n)))
  BY DEF Init
<1>2. n \in Nat /\ n >= 1 /\ n \in 1 .. Top
  BY <1>1, PagerSizes
<1> DEFINE pt == [v \in Pages |-> IF v < n THEN "present" ELSE "none"]
           fr == [v \in Pages |-> IF v < n THEN v ELSE NoPage]
<1>3. /\ pt \in [Pages -> {"none", "present", "paged"}] /\ fr \in [Pages -> Pages \cup {NoPage}]
      /\ CreateSwapFile \in [Slots -> Pages \cup {NoPage}]
      /\ 0 \in 0 .. Cardinality(Slots)
  <2>1. Cardinality(Slots) \in Nat
    BY PagerSizes
  <2> QED
    BY <2>1 DEF CreateSwapFile
<1>4. EmptyEntry \in Entry
  BY PagerSizes DEF EmptyEntry, Entry
<1>5. ASSUME m = Reset(n)
      PROVE  m.pte = pt /\ m.mem <= MaxPhys /\ St(m, 2) = {} /\ Books(m, St(m, 1))
  <2>1. /\ m \in Memory /\ m.pte = pt /\ m.head = Nil /\ m.mem = 0 /\ m.file = 0
        /\ \A f \in Entries : m.ent[f] = EmptyEntry
    <3> DEFINE E == [e \in Entries |-> EmptyEntry]
    <3>1. E \in [Entries -> Entry] /\ \A f \in Entries : E[f] = EmptyEntry
      BY <1>4
    <3>2. m = [pte |-> pt, frame |-> fr, disk |-> CreateSwapFile, ent |-> E,
               head |-> Nil, mem |-> 0, file |-> 0]
      BY <1>5 DEF Reset
    <3> HIDE DEF pt, fr, E
    <3> QED
      BY <1>3, <3>1, <3>2 DEF Memory
  <2> HIDE DEF pt, fr
  <2>2. \A f \in Entries : m.ent[f].st = 0 /\ m.ent[f].va = NoPage /\ m.ent[f].next = Nil /\ m.ent[f].prev = Nil
    BY <2>1 DEF EmptyEntry
  <2>3. St(m, 1) = {} /\ St(m, 2) = {}
    BY <2>2 DEF St
  <2>4. Linked(m, {})
    <3> DEFINE L == [i \in 1 .. 0 |-> 1]
    <3>1. L \in [1 .. 0 -> Entries] /\ {} = {L[i] : i \in 1 .. 0}
      OBVIOUS
    <3>2. Chain(m, 0, L)
      BY <2>1, <2>2 DEF Chain
    <3> HIDE DEF L
    <3> QED
      BY <3>1, <3>2 DEF Linked
  <2>5. Counts(m)
    BY <2>1, <2>3, FS_EmptySet DEF Counts
  <2>6. Matched(m)
    <3>1. \A v \in Pages : m.pte[v] # "paged"
      BY <1>2, <2>1 DEF pt, Pages
    <3> QED
      BY <2>2, <3>1 DEF Matched
  <2> QED
    BY <2>1, <2>3, <2>4, <2>5, <2>6, PagerSizes DEF Books
<1>6. ASSUME m = Listing(n), n <= MaxPhys
      PROVE  m.pte = pt /\ m.mem <= MaxPhys /\ St(m, 2) = {} /\ Books(m, St(m, 1))
  <2>0. n <= MaxPhys /\ n < MaxTotal
    BY <1>2, <1>6, PagerSizes
  <2> DEFINE ith(e) == [va |-> e - 1, st |-> 1, off |-> NoSlot, cnt |-> 0,
                        next |-> IF e < n THEN e + 1 ELSE Nil, prev |-> e - 1]
             E == [e \in Entries |-> IF e > n THEN EmptyEntry ELSE ith(e)]
  <2>1. \A e \in Entries : e <= n => /\ e - 1 \in Pages /\ e - 1 \in Entries \cup {Nil}
                                     /\ (IF e < n THEN e + 1 ELSE Nil) \in Entries \cup {Nil}
    BY <1>2, <2>0, PagerSizes DEF Entries, Pages, Nil
  <2>2. /\ E \in [Entries -> Entry]
        /\ \A f \in Entries : E[f] = IF f > n THEN EmptyEntry ELSE ith(f)
    <3>1. \A f \in Entries : f <= n => ith(f) \in Entry
      BY <2>1, PagerSizes DEF Entry
    <3>2. \A f \in Entries : f > n \/ f <= n
      BY <1>2, <2>0 DEF Entries
    <3> HIDE DEF ith
    <3> QED
      BY <1>4, <3>1, <3>2
  <2>3. m \in Memory /\ m.pte = pt /\ m.head = 1 /\ m.mem = n /\ m.file = 0 /\ m.ent = E
    <3> DEFINE E0 == [e \in Entries |-> EmptyEntry]
    <3>1. Reset(n) = [pte |-> pt, frame |-> fr, disk |-> CreateSwapFile,
                      ent |-> E0, head |-> Nil, mem |-> 0, file |-> 0]
      BY DEF Reset
    <3>2. m = [Reset(n) EXCEPT !.ent = E, !.head = 1, !.mem = n]
      BY <1>6 DEF Listing
    <3> HIDE DEF pt, fr, E, E0
    <3>4. m = [pte |-> pt, frame |-> fr, disk |-> CreateSwapFile, ent |-> E,
               head |-> 1, mem |-> n, file |-> 0]
      <4> DEFINE a == [Reset(n) EXCEPT !.ent = E]
                 b == [a EXCEPT !.head = 1]
                 c == [b EXCEPT !.mem = n]
      <4>1. m = c
        BY <3>2
      <4>2. a = [pte |-> pt, frame |-> fr, disk |-> CreateSwapFile, ent |-> E,
                 head |-> Nil, mem |-> 0, file |-> 0]
        BY <3>1
      <4> HIDE DEF a, c
      <4>3. b = [pte |-> pt, frame |-> fr, disk |-> CreateSwapFile, ent |-> E,
                 head |-> 1, mem |-> 0, file |-> 0]
        BY <4>2
      <4> HIDE DEF b
      <4>4. c = [pte |-> pt, frame |-> fr, disk |-> CreateSwapFile, ent |-> E,
                 head |-> 1, mem |-> n, file |-> 0]
        BY <4>3 DEF c
      <4> QED
        BY <4>1, <4>4
    <3> QED
      BY <1>2, <2>0, <1>3, <2>2, <3>4, PagerSizes DEF Memory
  <2>4. \A f \in Entries :
          /\ f > n => /\ m.ent[f].st = 0 /\ m.ent[f].va = NoPage
                      /\ m.ent[f].next = Nil /\ m.ent[f].prev = Nil
          /\ f <= n => /\ m.ent[f].st = 1 /\ m.ent[f].va = f - 1
                       /\ m.ent[f].next = IF f < n THEN f + 1 ELSE Nil
                       /\ m.ent[f].prev = f - 1
    <3>1. \A f \in Entries : /\ f > n => m.ent[f] = EmptyEntry
                             /\ f <= n => m.ent[f] = ith(f)
      <4>1. \A f \in Entries : f <= n => ~(f > n)
        BY <1>2, <2>0 DEF Entries
      <4> HIDE DEF E, ith
      <4> QED
        BY <2>2, <2>3, <4>1
    <3>2. EmptyEntry.st = 0 /\ EmptyEntry.va = NoPage /\ EmptyEntry.next = Nil /\ EmptyEntry.prev = Nil
      BY DEF EmptyEntry
    <3>3. ASSUME NEW f \in Entries
          PROVE  /\ ith(f).st = 1 /\ ith(f).va = f - 1
                 /\ ith(f).next = (IF f < n THEN f + 1 ELSE Nil) /\ ith(f).prev = f - 1
      OBVIOUS
    <3> HIDE DEF E, ith
    <3> QED
      BY <3>1, <3>2, <3>3
  <2> HIDE DEF pt, fr, ith, E
  <2>5. St(m, 1) = 1 .. n /\ St(m, 2) = {}
    <3>1. \A f \in Entries : f \in Nat /\ (f > n \/ f <= n) /\ (f \in 1 .. n <=> f <= n)
      BY <1>2, <2>0 DEF Entries
    <3>2. 1 .. n \subseteq Entries
      BY <1>2, <2>0, PagerSizes DEF Entries
    <3> QED
      BY <2>4, <3>1, <3>2 DEF St
  <2>6. Linked(m, 1 .. n)
    <3> DEFINE L == [i \in 1 .. n |-> i]
    <3>1. L \in [1 .. n -> Entries] /\ 1 .. n = {L[i] : i \in 1 .. n} /\ \A i \in 1 .. n : L[i] = i
      <4>1. 1 .. n \subseteq Entries
        BY <1>2, <2>0, PagerSizes DEF Entries
      <4> QED
        BY <4>1
    <3> HIDE DEF L
    <3>2. Chain(m, n, L)
      <4>1. m.head = IF n = 0 THEN Nil ELSE L[1]
        BY <1>2, <2>0, <2>3, <3>1
      <4>2. ASSUME NEW i \in 1 .. n
            PROVE  /\ m.ent[L[i]].next = IF i = n THEN Nil ELSE L[i + 1]
                   /\ m.ent[L[i]].prev = IF i = 1 THEN Nil ELSE L[i - 1]
        <5>1. i \in Entries /\ i <= n /\ L[i] = i
          BY <1>2, <2>0, <3>1, PagerSizes DEF Entries
        <5>2. i # n => i < n /\ i + 1 \in 1 .. n
          BY <1>2
        <5>3. i # 1 => i - 1 \in 1 .. n
          BY <1>2
        <5>4. i = 1 => i - 1 = Nil
          BY DEF Nil
        <5>5. i = n => ~(i < n)
          BY <1>2
        <5> QED
          BY <2>4, <3>1, <5>1, <5>2, <5>3, <5>4, <5>5
      <4>3. ASSUME NEW f \in Entries, \A i \in 1 .. n : L[i] # f
            PROVE  m.ent[f].next = Nil /\ m.ent[f].prev = Nil
        <5>1. f > n
          BY <1>2, <2>0, <3>1, <4>3 DEF Entries
        <5> QED
          BY <2>4, <5>1
      <4>4. \A i, j \in 1 .. n : L[i] = L[j] => i = j
        BY <3>1
      <4> QED
        BY <4>1, <4>2, <4>3, <4>4 DEF Chain
    <3> QED
      BY <1>2, <2>0, <3>1, <3>2 DEF Linked
  <2>7. Counts(m)
    <3>1. Cardinality(1 .. n) = n - 1 + 1
      BY <1>2, <2>0, FS_Interval
    <3> QED
      <4>1. Cardinality(St(m, 1)) = n
        BY <1>2, <2>0, <2>5, <3>1
      <4>2. Cardinality(St(m, 2)) = 0
        BY <2>5, FS_EmptySet
      <4> QED
        BY <2>3, <4>1, <4>2 DEF Counts
  <2>8. Matched(m)
    <3>1. \A v \in Pages : m.pte[v] # "paged" /\ (v < n => m.pte[v] = "present")
      BY <1>2, <2>0, <2>3 DEF pt
    <3>2. ASSUME NEW f \in Entries
          PROVE  \/ f > n /\ m.ent[f].st = 0 /\ m.ent[f].va = NoPage
                 \/ m.ent[f].st = 1 /\ m.ent[f].va = f - 1 /\ f - 1 \in Pages /\ f - 1 < n
      BY <1>2, <2>0, <2>1, <2>4 DEF Entries
    <3>3. \A f, g \in Entries : f - 1 = g - 1 => f = g
      BY DEF Entries
    <3> QED
      BY <3>1, <3>2, <3>3 DEF Matched
  <2> QED
    BY <1>2, <2>0, <2>3, <2>5, <2>6, <2>7, <2>8 DEF Books
<1>7. m.pte = pt /\ m.mem <= MaxPhys /\ St(m, 2) = {} /\ Books(m, St(m, 1))
  BY <1>1, <1>5, <1>6
<1>8. op = Idle /\ time = 0 /\ panic = "none" /\ sz = n
  BY <1>1 DEF Init
<1>9. OpShape
  BY <1>2, <1>8, PagerSizes DEF OpShape, Idle
<1>10. Low = n /\ High = n /\ op.name # "dealloc"
  BY <1>8, Span DEF Idle
<1>11. \A v \in Pages : v \in Nat /\ (v < n <=> m.pte[v] # "none")
  BY <1>7, PagerSizes DEF Pages
<1>12. Mapped(m, Low) /\ Leftover(m, High)
  <2>1. \A v \in Pages : v >= n => ~(v < n)
    BY <1>2, <1>11
  <2> QED
    BY <1>10, <1>11, <2>1 DEF Mapped, Leftover
<1> QED
  BY <1>7, <1>8, <1>9, <1>10, <1>12 DEF PInv, Bounded

\* The same for the next state.
LEMMA SpanNext ==
  /\ op'.name = "user" => Low' = sz' /\ High' = sz'
  /\ op'.name = "alloc" => Low' = op'.cur /\ High' = op'.cur
  /\ op'.name = "dealloc" => Low' = op'.size /\ High' = op'.end
BY DEF Low, High

\* Less may be asked of the pages below, and of those left over.
LEMMA SpanWeakens ==
  ASSUME NEW x, NEW k \in Int, NEW l \in Int, k <= l
  PROVE  /\ Mapped(x, l) => Mapped(x, k)
         /\ Leftover(x, k) => Leftover(x, l)
<1>1. \A v \in Pages : v \in Int /\ (v < k => v < l) /\ (v >= l => v >= k)
  BY PagerSizes DEF Pages
<1> QED
  BY <1>1 DEF Mapped, Leftover

\* The time stamps are in no book.
LEMMA StampsKeep ==
  ASSUME NEW x, Books(x, St(x, 1)), NEW y \in Memory, y.head = x.head, y.pte = x.pte,
         y.mem = x.mem, y.file = x.file,
         \A f \in Entries : /\ y.ent[f].va = x.ent[f].va /\ y.ent[f].st = x.ent[f].st
                            /\ y.ent[f].off = x.ent[f].off
                            /\ y.ent[f].next = x.ent[f].next /\ y.ent[f].prev = x.ent[f].prev
  PROVE  Books(y, St(y, 1)) /\ St(y, 2) = St(x, 2)
<1>1. x \in Memory /\ Linked(x, St(x, 1)) /\ Matched(x) /\ Counts(x)
  BY DEF Books
<1>2. \A k : St(y, k) = St(x, k)
  BY DEF St
<1>3. Linked(y, St(x, 1))
  BY <1>1, LinkedSame
<1>4. Counts(y)
  BY <1>1, <1>2 DEF Counts
<1>5. Matched(y)
  BY <1>1 DEF Matched
<1> QED
  BY <1>2, <1>3, <1>4, <1>5 DEF Books

\* What the invariant says, in parts.
LEMMA PInvParts ==
  ASSUME PInv
  PROVE  /\ Books(m, St(m, 1)) /\ m \in Memory /\ Matched(m) /\ Counts(m) /\ Bounded(m)
         /\ m.mem \in Nat /\ m.file \in Nat /\ m.mem + m.file \in Nat
         /\ OpShape /\ sz \in Nat /\ op.cur \in Nat /\ op.end \in Nat /\ op.size \in Nat
         /\ sz >= 1 /\ sz <= Top /\ op.cur <= Top /\ op.end <= Top /\ op.size <= Top
         /\ Mapped(m, Low) /\ Leftover(m, High)
         /\ op.name = "dealloc" => Freed(m, op.size, op.cur)
         /\ panic = "copyuvm" => St(m, 2) # {}
<1>1. Books(m, St(m, 1)) /\ m \in Memory /\ Matched(m) /\ Counts(m)
  BY DEF PInv, Books
<1>2. m.mem \in Nat /\ m.file \in Nat /\ m.mem + m.file \in Nat
  BY <1>1, BookNumbers
<1>3. /\ OpShape /\ sz \in Nat /\ op.cur \in Nat /\ op.end \in Nat /\ op.size \in Nat
      /\ sz >= 1 /\ sz <= Top /\ op.cur <= Top /\ op.end <= Top /\ op.size <= Top
  BY PagerSizes DEF PInv, OpShape
<1> QED
  BY <1>1, <1>2, <1>3 DEF PInv

\* The timer stamps the pages in memory.
LEMMA TickKeeps == ASSUME PInv, Tick PROVE PInv'
<1>1. /\ Books(m, St(m, 1)) /\ m \in Memory /\ Bounded(m) /\ OpShape
      /\ Mapped(m, Low) /\ Leftover(m, High)
      /\ op.name = "dealloc" => Freed(m, op.size, op.cur)
      /\ panic = "copyuvm" => St(m, 2) # {}
  BY PInvParts
<1> DEFINE w == Walk(m)
           Counted == {k \in 0 .. MaxTotal :
                         w[k] # Nil /\ m.ent[w[k]].st = 1 /\ m.pte[m.ent[w[k]].va] # "none"}
           rank(k) == Cardinality({j \in Counted : j < k})
           stamp(f) == time + rank(CHOOSE k \in Counted : w[k] = f)
           E == [f \in Entries |-> IF \E k \in Counted : w[k] = f
                                     THEN [m.ent[f] EXCEPT !.cnt = stamp(f)]
                                     ELSE m.ent[f]]
<1>2. /\ time + Cardinality(Counted) <= MaxTime
      /\ m' = [m EXCEPT !.ent = E]
      /\ time' = time + Cardinality(Counted)
      /\ sz' = sz /\ op' = op /\ panic' = panic
  BY DEF Tick
<1>3. IsFiniteSet(Counted) /\ Cardinality(Counted) \in Nat
  <2>1. IsFiniteSet(0 .. MaxTotal)
    BY PagerSizes, FS_Interval
  <2>2. Counted \in SUBSET (0 .. MaxTotal)
    OBVIOUS
  <2> HIDE DEF Counted
  <2> QED
    BY <2>1, <2>2, FS_Subset, FS_CardinalityType
<1> HIDE DEF Counted
<1>4. time \in Nat /\ time <= MaxTime
  BY <1>1, PagerSizes DEF OpShape
<1>5. \A f : stamp(f) \in 0 .. MaxTime
  <2> SUFFICES ASSUME NEW f PROVE stamp(f) \in 0 .. MaxTime
    OBVIOUS
  <2> DEFINE B == {j \in Counted : j < (CHOOSE k \in Counted : w[k] = f)}
  <2>1. B \in SUBSET Counted
    OBVIOUS
  <2> HIDE DEF B
  <2>2. Cardinality(B) \in Nat /\ Cardinality(B) <= Cardinality(Counted)
    BY <1>3, <2>1, FS_Subset, FS_CardinalityType
  <2>3. stamp(f) = time + Cardinality(B)
    BY DEF B
  <2> HIDE DEF stamp
  <2> QED
    BY <1>2, <1>3, <1>4, <2>2, <2>3, PagerSizes
<1> HIDE DEF stamp
<1>6. /\ E \in [Entries -> Entry]
      /\ \A f \in Entries : /\ E[f].va = m.ent[f].va /\ E[f].st = m.ent[f].st
                            /\ E[f].off = m.ent[f].off
                            /\ E[f].next = m.ent[f].next /\ E[f].prev = m.ent[f].prev
  <2>1. \A f \in Entries : m.ent[f] \in Entry
    BY <1>1 DEF Memory
  <2>2. ASSUME NEW f \in Entries
        PROVE  /\ [m.ent[f] EXCEPT !.cnt = stamp(f)] \in Entry
               /\ [m.ent[f] EXCEPT !.cnt = stamp(f)].va = m.ent[f].va
               /\ [m.ent[f] EXCEPT !.cnt = stamp(f)].st = m.ent[f].st
               /\ [m.ent[f] EXCEPT !.cnt = stamp(f)].off = m.ent[f].off
               /\ [m.ent[f] EXCEPT !.cnt = stamp(f)].next = m.ent[f].next
               /\ [m.ent[f] EXCEPT !.cnt = stamp(f)].prev = m.ent[f].prev
    BY <1>5, <2>1 DEF Entry
  <2> DEFINE new(f) == [m.ent[f] EXCEPT !.cnt = stamp(f)]
  <2>3. \A f \in Entries : E[f] = IF \E k \in Counted : w[k] = f THEN new(f) ELSE m.ent[f]
    OBVIOUS
  <2>4. \A f \in Entries : new(f) \in Entry
    BY <2>2
  <2>5. E = [f \in Entries |-> IF \E k \in Counted : w[k] = f THEN new(f) ELSE m.ent[f]]
    OBVIOUS
  <2> HIDE DEF new, E
  <2>7. E \in [Entries -> Entry]
    BY <2>1, <2>4, <2>5
  <2>6. \A f \in Entries : /\ new(f).va = m.ent[f].va /\ new(f).st = m.ent[f].st
                           /\ new(f).off = m.ent[f].off
                           /\ new(f).next = m.ent[f].next /\ new(f).prev = m.ent[f].prev
    BY <2>2 DEF new
  <2> QED
    BY <2>3, <2>6, <2>7
<1> HIDE DEF E, w
<1>7. PICK y : y = m'
  OBVIOUS
<1>8. /\ y \in Memory /\ y.ent = E /\ y.head = m.head /\ y.pte = m.pte
      /\ y.mem = m.mem /\ y.file = m.file
  BY <1>1, <1>2, <1>6, <1>7 DEF Memory
<1>9. Books(y, St(y, 1)) /\ St(y, 2) = St(m, 2)
  BY <1>1, <1>6, <1>8, StampsKeep
<1>10. OpShape'
  <2>1. time' \in 0 .. MaxTime
    BY <1>2, <1>3, <1>4, PagerSizes
  <2> QED
    BY <1>1, <1>2, <2>1 DEF OpShape
<1>11. /\ \A k : Mapped(m, k) => Mapped(y, k)
       /\ \A k, l : Freed(m, k, l) => Freed(y, k, l)
       /\ \A k : Leftover(m, k) => Leftover(y, k)
  BY <1>8, SamePages
<1>12. Low' = Low /\ High' = High
  BY <1>2 DEF Low, High
<1>13. Bounded(y)
  BY <1>1, <1>8, <1>9 DEF Bounded
<1> QED
  BY <1>1, <1>2, <1>7, <1>9, <1>10, <1>11, <1>12, <1>13, PInvAfter

\* Calls, returns and panics move no page.
LEMMA QuietKeeps ==
  ASSUME PInv, m' = m,
         GrowCall \/ AllocLimit \/ ShrinkCall \/ Done \/ File2MemNoMem \/ Fork \/ UNCHANGED vars
  PROVE  PInv'
<1>1. /\ Books(m, St(m, 1)) /\ m \in Memory /\ Matched(m) /\ Counts(m) /\ Bounded(m)
      /\ m.mem \in Nat /\ m.file \in Nat /\ m.mem + m.file \in Nat
      /\ OpShape /\ sz \in Nat /\ op.cur \in Nat /\ op.end \in Nat /\ op.size \in Nat
      /\ sz >= 1 /\ sz <= Top /\ op.cur <= Top /\ op.end <= Top /\ op.size <= Top
      /\ Mapped(m, Low) /\ Leftover(m, High)
      /\ op.name = "dealloc" => Freed(m, op.size, op.cur)
      /\ panic = "copyuvm" => St(m, 2) # {}
  BY PInvParts
<1> SUFFICES /\ OpShape' /\ Mapped(m, Low') /\ Leftover(m, High')
             /\ op'.name = "dealloc" => Freed(m, op'.size, op'.cur)
             /\ panic' = "copyuvm" => St(m, 2) # {}
  BY <1>1, PInvAfter
<1>2. CASE GrowCall
  <2>1. PICK n \in 1 .. Top - sz :
          op' = [name |-> "alloc", cur |-> sz, end |-> sz + n, size |-> sz + n]
    BY <1>2 DEF GrowCall
  <2>2. op.name = "user" /\ panic = "none" /\ sz' = sz /\ time' = time /\ panic' = panic
    BY <1>2 DEF GrowCall, Up
  <2>3. op'.name = "alloc" /\ op'.cur = sz
    BY <2>1
  <2>4. OpShape'
    <3>1. n \in Nat /\ sz + n \in 0 .. Top /\ sz \in 0 .. Top /\ sz <= sz + n
      BY <1>1, PagerSizes
    <3> QED
      BY <1>1, <2>1, <2>2, <3>1 DEF OpShape
  <2> QED
    BY <1>1, <2>2, <2>3, <2>4, Span, SpanNext
<1>3. CASE AllocLimit
  <2>1. /\ op.name = "alloc" /\ panic = "none" /\ sz' = sz /\ time' = time /\ panic' = panic
        /\ op' = Idle /\ m.mem = MaxPhys /\ m.file = MaxTotal - MaxPhys
    BY <1>3 DEF AllocLimit, Allocating, Up, AtLimit, Full
  <2>2. OpShape'
    BY <1>1, <2>1, PagerSizes DEF OpShape, Idle
  <2>3. sz <= op.cur
    BY <1>1, <2>1 DEF OpShape
  <2>4. Mapped(m, sz)
    BY <1>1, <2>1, <2>3, Span, SpanWeakens
  <2>5. Leftover(m, sz)
    <3>1. m.mem + m.file = MaxTotal
      BY <2>1, PagerSizes
    <3>2. \A v : Cardinality(NoneBelow(m, v)) \in Nat
      BY NoneFinite
    <3> QED
      BY <3>1, <3>2, PagerSizes DEF Leftover
  <2>6. op'.name = "user"
    BY <2>1 DEF Idle
  <2> QED
    BY <1>1, <2>1, <2>2, <2>4, <2>5, <2>6, SpanNext
<1>4. CASE ShrinkCall
  <2>1. PICK n \in 1 .. sz - 1 :
          op' = [name |-> "dealloc", cur |-> sz - n, end |-> sz, size |-> sz - n]
    BY <1>4 DEF ShrinkCall
  <2>2. op.name = "user" /\ panic = "none" /\ sz' = sz /\ time' = time /\ panic' = panic
    BY <1>4 DEF ShrinkCall, Up
  <2>3. PICK l \in Nat : l = sz - n /\ l >= 1 /\ l <= sz /\ l \in 0 .. Top /\ sz \in 0 .. Top
    BY <1>1, PagerSizes
  <2>4. op' = [name |-> "dealloc", cur |-> l, end |-> sz, size |-> l]
    BY <2>1, <2>3
  <2>5. op'.name = "dealloc" /\ op'.size = l /\ op'.end = sz /\ op'.cur = l
    BY <2>4
  <2>6. OpShape'
    BY <1>1, <2>2, <2>3, <2>4 DEF OpShape
  <2>7. Mapped(m, l)
    BY <1>1, <2>2, <2>3, Span, SpanWeakens
  <2>8. Freed(m, l, l)
    BY <2>3, PagerSizes DEF Freed, Pages
  <2> QED
    BY <1>1, <2>2, <2>5, <2>6, <2>7, <2>8, Span, SpanNext
<1>5. CASE Done
  <2>1. /\ op.name \in {"alloc", "dealloc"} /\ op.cur = op.end /\ panic = "none"
        /\ sz' = op.size /\ op' = Idle /\ time' = time /\ panic' = panic
    BY <1>5 DEF Done, Up
  <2>2. op.size >= 1
    BY <1>1, <2>1 DEF OpShape
  <2>3. OpShape'
    BY <1>1, <2>1, <2>2, PagerSizes DEF OpShape, Idle
  <2>4. op'.name = "user" /\ Low' = op.size /\ High' = op.size
    BY <2>1, SpanNext DEF Idle
  <2>5. CASE op.name = "alloc"
    <3>1. Low = op.size /\ High = op.size
      BY <1>1, <2>1, <2>5, Span DEF OpShape
    <3> QED
      BY <1>1, <2>1, <2>3, <2>4, <3>1
  <2>6. CASE op.name = "dealloc"
    <3>1. Low = op.size /\ High = op.cur /\ Freed(m, op.size, op.cur)
      BY <1>1, <2>1, <2>6, Span
    <3>2. Leftover(m, op.size)
      <4>1. \A v \in Pages : v >= op.size /\ m.pte[v] # "none" => v >= op.cur
        BY <1>1, <3>1, PagerSizes DEF Freed, Pages
      <4> QED
        BY <1>1, <3>1, <4>1 DEF Leftover
    <3> QED
      BY <1>1, <2>1, <2>3, <2>4, <3>1, <3>2
  <2> QED
    BY <2>1, <2>5, <2>6
<1>6. CASE File2MemNoMem
  <2>1. panic' = "file2mem" /\ sz' = sz /\ op' = op /\ time' = time
    BY <1>6 DEF File2MemNoMem
  <2>2. OpShape'
    BY <1>1, <2>1 DEF OpShape
  <2>3. Low' = Low /\ High' = High
    BY <2>1 DEF Low, High
  <2> QED
    BY <1>1, <2>1, <2>2, <2>3
<1>7. CASE Fork
  <2>1. panic' = "copyuvm" /\ sz' = sz /\ op' = op /\ time' = time /\ op.name = "user"
    BY <1>7 DEF Fork
  <2>2. PICK v \in Pages : v < sz /\ m.pte[v] # "present"
    BY <1>7 DEF Fork
  <2>3. OpShape'
    BY <1>1, <2>1 DEF OpShape
  <2>4. Low' = Low /\ High' = High
    BY <2>1 DEF Low, High
  <2>5. m.pte[v] = "paged"
    <3>1. m.pte[v] # "none"
      BY <1>1, <2>1, <2>2, Span DEF Mapped
    <3> QED
      BY <1>1, <2>2, <3>1 DEF Memory
  <2>6. St(m, 2) # {}
    BY <1>1, <2>5 DEF Matched, St
  <2> QED
    BY <1>1, <2>1, <2>3, <2>4, <2>6
<1>8. CASE UNCHANGED vars
  <2>1. panic' = panic /\ sz' = sz /\ op' = op /\ time' = time
    BY <1>8 DEF vars
  <2>2. OpShape'
    BY <1>1, <2>1 DEF OpShape
  <2>3. Low' = Low /\ High' = High
    BY <2>1 DEF Low, High
  <2> QED
    BY <1>1, <2>1, <2>2, <2>3
<1> QED
  BY <1>2, <1>3, <1>4, <1>5, <1>6, <1>7, <1>8

\* A growth does not come to a page left over: it is at the limit before.
LEMMA NoRemap ==
  ASSUME PInv, op.name = "alloc", op.cur \in Pages, ~AtLimit
  PROVE  m.pte[op.cur] = "none"
<1> SUFFICES ASSUME m.pte[op.cur] # "none" PROVE FALSE
  OBVIOUS
<1>1. /\ m \in Memory /\ Counts(m) /\ Bounded(m) /\ op.cur \in Nat
      /\ Mapped(m, op.cur) /\ Leftover(m, op.cur)
  BY PInvParts, Span
<1>2. /\ m.mem \in Nat /\ m.file \in Nat /\ m.file <= MaxTotal - MaxPhys
      /\ m.mem <= MaxPhys
  BY <1>1, BookNumbers DEF Bounded
<1>3. NoneBelow(m, op.cur) = {}
  BY <1>1 DEF NoneBelow, Mapped
<1>4. PICK c : c = Cardinality(NoneBelow(m, op.cur)) /\ c = 0
  BY <1>3, FS_EmptySet
<1>5. m.mem + m.file + c >= MaxTotal
  <2>1. op.cur >= op.cur
    BY <1>1
  <2> QED
    BY <1>1, <1>4, <2>1 DEF Leftover
<1>6. m.mem = MaxPhys /\ m.file = MaxTotal - MaxPhys
  BY <1>2, <1>4, <1>5, PagerSizes
<1> QED
  BY <1>6 DEF AtLimit, Full

\* allocuvm adds a page.
LEMMA AllocPageKeeps == ASSUME PInv, AllocPage PROVE PInv'
<1>1. /\ Books(m, St(m, 1)) /\ Bounded(m) /\ OpShape
      /\ m.mem \in Nat /\ m.file \in Nat /\ m.mem + m.file \in Nat
      /\ op.cur \in Nat /\ op.end \in Nat /\ op.end <= Top
      /\ Mapped(m, Low) /\ Leftover(m, High)
  BY PInvParts
<1>2. /\ op.name = "alloc" /\ op.cur < op.end /\ panic = "none" /\ ~AtLimit
      /\ m' = AddNewPage([MakeRoom EXCEPT !.pte[op.cur] = "present", !.frame[op.cur] = op.cur], op.cur)
      /\ op' = [op EXCEPT !.cur = @ + 1]
      /\ sz' = sz /\ time' = time /\ panic' = panic
  BY DEF AllocPage, Allocating, Up
<1>3. op.cur \in Pages /\ op.cur + 1 <= op.end
  BY <1>1, <1>2, PagerSizes DEF Pages
<1>4. m.pte[op.cur] = "none"
  BY <1>2, NoRemap, <1>3
<1>5. PICK y : y = m'
  OBVIOUS
<1>6. /\ Books(y, St(y, 1)) /\ Bounded(y) /\ y.mem + y.file = m.mem + m.file + 1
      /\ \A w \in Pages : y.pte[w] = "none" <=> w # op.cur /\ m.pte[w] = "none"
  <2>1. y = AddNewPage([MakeRoom EXCEPT !.pte[op.cur] = "present", !.frame[op.cur] = op.cur], op.cur)
    BY <1>2, <1>5
  <2>2. Books(m, St(m, 1)) /\ Bounded(m) /\ ~AtLimit
    BY <1>1, <1>2
  <2> QED
    BY <1>3, <1>4, <2>1, <2>2, AllocKeeps, ZenonT(60)
<1>7. op'.name = "alloc" /\ op'.cur = op.cur + 1 /\ op'.end = op.end /\ op'.size = op.size
  BY <1>1, <1>2 DEF OpShape
<1>8. OpShape'
  <2>1. op.cur + 1 \in 0 .. Top
    BY <1>1, <1>3, PagerSizes
  <2>2. op' \in [name : {"user", "alloc", "dealloc"}, cur : 0 .. Top, end : 0 .. Top, size : 0 .. Top]
    BY <1>1, <1>2, <2>1 DEF OpShape
  <2>3. sz <= op.cur /\ op.end = op.size /\ sz \in Nat
    BY <1>1, <1>2, PInvParts DEF OpShape
  <2>4. sz <= op.cur + 1
    BY <1>1, <2>3
  <2> QED
    BY <1>1, <1>2, <1>3, <1>7, <2>2, <2>3, <2>4 DEF OpShape
<1>9. Mapped(y, op.cur + 1)
  <2>1. \A w \in Pages : w < op.cur + 1 => w < op.cur \/ w = op.cur
    BY <1>1, PagerSizes DEF Pages
  <2>2. Mapped(m, op.cur)
    BY <1>1, <1>2, Span
  <2> QED
    BY <1>6, <2>1, <2>2 DEF Mapped
<1>10. Leftover(y, op.cur + 1)
  <2>1. Leftover(m, op.cur)
    BY <1>1, <1>2, Span
  <2> QED
    BY <1>1, <1>3, <1>4, <1>6, <2>1, LeftoverTaken
<1> QED
  BY <1>2, <1>5, <1>6, <1>7, <1>8, <1>9, <1>10, SpanNext, PInvAfter

\* kalloc or mappages fails.
LEMMA AllocNoMemKeeps == ASSUME PInv, AllocNoMem PROVE PInv'
<1>1. /\ Books(m, St(m, 1)) /\ Bounded(m) /\ OpShape
      /\ sz \in Nat /\ sz >= 1 /\ sz <= Top
      /\ op.cur \in Nat /\ op.end \in Nat /\ op.end <= Top
      /\ Mapped(m, Low) /\ Leftover(m, High)
  BY PInvParts
<1>2. /\ op.name = "alloc" /\ panic = "none" /\ ~AtLimit /\ m' = MakeRoom
      /\ op' = [name |-> "dealloc", cur |-> sz, end |-> op.end, size |-> sz]
      /\ sz' = sz /\ time' = time /\ panic' = panic
  BY DEF AllocNoMem, Allocating, Up
<1>3. PICK y : y = m'
  OBVIOUS
<1>4. /\ Books(y, St(y, 1)) /\ Bounded(y) /\ y.mem + y.file = m.mem + m.file
      /\ \A w \in Pages : y.pte[w] = "none" <=> m.pte[w] = "none"
  BY <1>1, <1>2, <1>3, MakeRoomKeeps
<1>5. op'.name = "dealloc" /\ op'.cur = sz /\ op'.end = op.end /\ op'.size = sz
  BY <1>2
<1>6. sz <= op.cur /\ op.cur <= op.end
  BY <1>1, <1>2 DEF OpShape
<1>7. OpShape'
  <2>1. sz \in 0 .. Top /\ op.end \in 0 .. Top /\ sz <= op.end
    BY <1>1, <1>6, PagerSizes
  <2> QED
    BY <1>1, <1>2, <2>1 DEF OpShape
<1>8. Mapped(y, sz) /\ Leftover(y, op.end)
  <2>1. Mapped(m, sz) /\ Leftover(m, op.end)
    BY <1>1, <1>2, <1>6, Span, SpanWeakens
  <2> QED
    BY <1>4, <2>1, SamePages
<1>9. Freed(y, sz, sz)
  BY <1>1, PagerSizes DEF Freed, Pages
<1> QED
  BY <1>2, <1>3, <1>4, <1>5, <1>7, <1>8, <1>9, SpanNext, PInvAfter

\* deallocuvm goes on to the next page: the one it leaves is not mapped, whatever the
\* memory was before.
LEMMA NextPageKeeps ==
  ASSUME PInv, op.name = "dealloc", op.cur < op.end, panic = "none",
         NEW y, m' = y, Books(y, St(y, 1)), Bounded(y), NextPage,
         sz' = sz, time' = time, panic' = panic,
         \A w \in Pages : y.pte[w] = "none" <=> w = op.cur \/ m.pte[w] = "none",
         Leftover(y, op.end)
  PROVE  PInv'
<1>1. /\ OpShape /\ op.cur \in Nat /\ op.end \in Nat /\ op.end <= Top /\ op.size \in Nat
      /\ Mapped(m, op.size) /\ Freed(m, op.size, op.cur)
  BY PInvParts, Span
<1>2. /\ op'.name = "dealloc" /\ op'.cur = op.cur + 1 /\ op'.end = op.end /\ op'.size = op.size
      /\ op' = [op EXCEPT !.cur = @ + 1]
  BY <1>1 DEF OpShape, NextPage
<1>3. OpShape'
  <2>1. op.cur + 1 \in 0 .. Top /\ op.cur + 1 <= op.end
    BY <1>1, PagerSizes
  <2>2. op' \in [name : {"user", "alloc", "dealloc"}, cur : 0 .. Top, end : 0 .. Top, size : 0 .. Top]
    BY <1>1, <1>2, <2>1 DEF OpShape
  <2>3. 1 <= op.size /\ op.size <= op.cur
    BY <1>1 DEF OpShape
  <2>4. op.size <= op.cur + 1
    BY <1>1, <2>3
  <2> QED
    BY <1>1, <1>2, <2>1, <2>2, <2>3, <2>4 DEF OpShape
<1>4. Mapped(y, op.size)
  <2>1. \A w \in Pages : w < op.size => w # op.cur
    BY <1>1, PagerSizes DEF Pages, OpShape
  <2> QED
    BY <1>1, <2>1 DEF Mapped
<1>5. Freed(y, op.size, op.cur + 1)
  <2>1. \A w \in Pages : w < op.cur + 1 => w < op.cur \/ w = op.cur
    BY <1>1, PagerSizes DEF Pages
  <2> QED
    BY <1>1, <2>1 DEF Freed
<1> QED
  BY <1>2, <1>3, <1>4, <1>5, SpanNext, PInvAfter

\* deallocuvm of one page, in each of the states of a page.
LEMMA DeallocKeeps ==
  ASSUME PInv, NEW v \in Pages, DeallocNone(v) \/ DeallocPresent(v) \/ DeallocPaged(v)
  PROVE  PInv'
<1>1. /\ Books(m, St(m, 1)) /\ m \in Memory /\ Matched(m) /\ Counts(m) /\ Bounded(m)
      /\ m.mem \in Nat /\ m.file \in Nat /\ m.mem + m.file \in Nat
      /\ op.cur \in Nat /\ op.end \in Nat /\ Leftover(m, High)
  BY PInvParts
<1>2. /\ op.name = "dealloc" /\ op.cur < op.end /\ v = op.cur /\ panic = "none" /\ NextPage
      /\ sz' = sz /\ time' = time /\ panic' = panic
  BY DEF DeallocNone, DeallocPresent, DeallocPaged, Deallocating, Up
<1>3. Leftover(m, op.end)
  BY <1>1, <1>2, Span
<1>4. v < op.end /\ m.pte[v] \in {"none", "present", "paged"}
  BY <1>1, <1>2 DEF Memory
<1>5. CASE DeallocNone(v)
  <2>1. m' = m /\ m.pte[v] = "none"
    BY <1>5 DEF DeallocNone
  <2> QED
    BY <1>1, <1>2, <1>3, <2>1, NextPageKeeps
<1>6. CASE DeallocPresent(v)
  <2> DEFINE x == Unmapped(m, v)
  <2>1. /\ m.pte[v] = "present"
        /\ m' = IF EntriesOf(x, v) = {} THEN x ELSE DeletePage(x, First(EntriesOf(x, v)))
    BY <1>6 DEF DeallocPresent, Unmapped
  <2> DEFINE pt == [m.pte EXCEPT ![v] = "none"]
             fr == [m.frame EXCEPT ![v] = NoPage]
  <2>2. pt \in [Pages -> {"none", "present", "paged"}] /\ fr \in [Pages -> Pages \cup {NoPage}]
        /\ \A w \in Pages : pt[w] = IF w = v THEN "none" ELSE m.pte[w]
    BY <1>1 DEF Memory
  <2>3. x = [m EXCEPT !.pte = pt, !.frame = fr]
    BY <1>1 DEF Memory, Unmapped
  <2> HIDE DEF pt, fr, x
  <2>4. /\ x \in Memory /\ x.ent = m.ent /\ x.head = m.head /\ x.mem = m.mem /\ x.file = m.file
        /\ x.pte = pt
    BY <1>1, <2>2, <2>3 DEF Memory
  <2>5. EntriesOf(x, v) = EntriesOf(m, v)
    BY <2>4 DEF EntriesOf
  <2>6. CASE EntriesOf(m, v) = {}
    <3>1. m' = x
      BY <2>1, <2>5, <2>6
    <3>2. \A w \in Pages : w # v => x.pte[w] = m.pte[w]
      BY <2>2, <2>4
    <3>3. x.pte[v] = "none"
      BY <2>2, <2>4
    <3>4. Books(x, St(x, 1)) /\ St(x, 2) = St(m, 2)
      BY <1>1, <2>4, <2>6, <3>2, <3>3, UnmapKeeps
    <3>5. Bounded(x)
      BY <1>1, <2>4, <3>4 DEF Bounded
    <3>6. \A w \in Pages : x.pte[w] = "none" <=> w = v \/ m.pte[w] = "none"
      BY <3>2, <3>3
    <3>7. Leftover(x, op.end)
      <4>1. PICK i \in Nat : i = m.mem + m.file /\ i = x.mem + x.file /\ i + 1 >= i
        BY <1>1, <2>4
      <4> QED
        BY <1>1, <1>3, <1>4, <2>1, <3>6, <4>1, LeftoverFreed
    <3> QED
      BY <1>2, <3>1, <3>4, <3>5, <3>6, <3>7, NextPageKeeps
  <2>7. CASE EntriesOf(m, v) # {}
    <3>1. PICK e : e = First(EntriesOf(m, v))
      OBVIOUS
    <3>2. e \in Entries /\ m.ent[e].va = v /\ m.ent[e].st = 1
      BY <1>1, <2>1, <2>7, <3>1, EntryFound
    <3>3. PICK y : y = DeletePage(x, e)
      OBVIOUS
    <3>4. m' = y
      BY <2>1, <2>5, <2>7, <3>1, <3>3
    <3>5. e \in St(m, 1)
      BY <3>2 DEF St
    <3>6. y = DeletePage(Unmapped(m, v), e)
      BY <3>3 DEF x
    <3>7. /\ Books(y, St(y, 1))
          /\ y.mem + y.file = m.mem + m.file - 1
          /\ \/ y.mem = m.mem
             \/ y.mem = m.mem - 1 /\ St(y, 2) = {}
          /\ \A w \in Pages : y.pte[w] = "none" <=> w = v \/ m.pte[w] = "none"
      BY <1>1, <3>2, <3>5, <3>6, DeletePageKeeps
    <3>8. y.mem \in Nat /\ y.file \in Nat /\ (y.file = 0 <=> St(y, 2) = {})
      BY <3>7, BookNumbers DEF Books
    <3>9. Bounded(y)
      <4>1. y.mem <= MaxPhys
        BY <1>1, <3>7, PagerSizes DEF Bounded
      <4>2. ASSUME St(y, 2) # {} PROVE y.mem >= MaxPhys - 1
        <5>1. y.mem = m.mem /\ m.file # 0
          BY <1>1, <3>7, <3>8, <4>2
        <5>2. St(m, 2) # {}
          BY <1>1, <5>1, BookNumbers
        <5> QED
          BY <1>1, <5>1, <5>2 DEF Bounded
      <4> QED
        BY <4>1, <4>2 DEF Bounded
    <3>10. Leftover(y, op.end)
      <4>1. PICK i \in Nat : i = m.mem + m.file
        BY <1>1
      <4>2. PICK j \in Nat : j = y.mem + y.file
        BY <3>8
      <4>3. j + 1 >= i
        <5>1. y.mem + y.file = m.mem + m.file - 1
          BY <3>7
        <5>2. j = i - 1
          BY <1>1, <3>8, <4>1, <4>2, <5>1
        <5> QED
          BY <5>2
      <4> QED
        BY <1>1, <1>3, <1>4, <2>1, <3>7, <4>1, <4>2, <4>3, LeftoverFreed
    <3> QED
      BY <1>2, <3>4, <3>7, <3>9, <3>10, NextPageKeeps
  <2> QED
    BY <2>6, <2>7
<1>7. CASE DeallocPaged(v)
  <2>1. PICK e : e = First(EntriesOf(m, v))
    OBVIOUS
  <2>2. m.pte[v] = "paged"
    BY <1>7 DEF DeallocPaged
  <2>3. EntriesOf(m, v) # {} /\ e \in Entries /\ m.ent[e].va = v /\ m.ent[e].st = 2
    BY <1>1, <2>1, <2>2, EntryFound
  <2>4. PICK y : y = m'
    OBVIOUS
  <2>5. y = PagedFreed(m, v, e)
    BY <1>7, <2>1, <2>3, <2>4 DEF DeallocPaged, PagedFreed
  <2>6. e \in St(m, 2)
    BY <2>3 DEF St
  <2>7. /\ Books(y, St(y, 1)) /\ y.mem = m.mem /\ y.file = m.file - 1
        /\ St(y, 2) = St(m, 2) \ {e}
        /\ \A w \in Pages : y.pte[w] = "none" <=> w = v \/ m.pte[w] = "none"
    BY <1>1, <2>3, <2>5, <2>6, FreePagedKeeps
  <2>8. Bounded(y)
    <3>1. St(m, 2) # {}
      BY <2>6
    <3> QED
      BY <1>1, <2>7, <3>1 DEF Bounded
  <2>9. Leftover(y, op.end)
    <3>1. y.mem \in Nat /\ y.file \in Nat
      BY <2>7, BookNumbers DEF Books
    <3>2. PICK i \in Nat : i = m.mem + m.file
      BY <1>1
    <3>3. PICK j \in Nat : j = y.mem + y.file
      BY <3>1
    <3>4. j + 1 >= i
      BY <1>1, <2>7, <3>2, <3>3
    <3> QED
      BY <1>1, <1>3, <1>4, <2>2, <2>7, <3>2, <3>3, <3>4, LeftoverFreed
  <2> QED
    BY <1>2, <2>4, <2>7, <2>8, <2>9, NextPageKeeps
<1> QED
  BY <1>5, <1>6, <1>7

\* The page fault.
LEMMA FaultKeeps == ASSUME PInv, NEW v \in Pages, Fault(v) PROVE PInv'
<1>1. /\ Books(m, St(m, 1)) /\ m \in Memory /\ Matched(m) /\ Counts(m) /\ Bounded(m)
      /\ m.mem \in Nat /\ OpShape
      /\ Mapped(m, Low) /\ Leftover(m, High)
  BY PInvParts
<1>2. /\ op.name = "user" /\ panic = "none" /\ m.pte[v] = "paged" /\ EntriesOf(m, v) # {}
      /\ m' = SwapPages(m, First(EntriesOf(m, v)))
      /\ sz' = sz /\ op' = op /\ time' = time /\ panic' = panic
  BY DEF Fault, Up
<1>3. PICK e : e = First(EntriesOf(m, v))
  OBVIOUS
<1>4. e \in St(m, 2)
  <2>1. e \in Entries /\ m.ent[e].st = 2
    BY <1>1, <1>2, <1>3, EntryFound
  <2> QED
    BY <2>1 DEF St
<1>5. m.mem >= MaxPhys - 1 /\ m.mem # 0
  BY <1>1, <1>4, PagerSizes DEF Bounded
<1>6. St(m, 1) # {}
  BY <1>1, <1>5, BookNumbers
<1>7. PICK y : y = m'
  OBVIOUS
<1>8. /\ Books(y, St(y, 1)) /\ y.mem = m.mem /\ y.file = m.file
      /\ \A w \in Pages : y.pte[w] = "none" <=> m.pte[w] = "none"
  BY <1>1, <1>2, <1>3, <1>4, <1>6, <1>7, SwapPagesKeeps
<1>9. Bounded(y)
  BY <1>1, <1>5, <1>8 DEF Bounded
<1>10. Low' = Low /\ High' = High
  BY <1>2 DEF Low, High
<1>11. Mapped(y, Low) /\ Leftover(y, High)
  BY <1>1, <1>8, SamePages
<1>12. OpShape'
  BY <1>1, <1>2 DEF OpShape
<1> QED
  BY <1>2, <1>7, <1>8, <1>9, <1>10, <1>11, <1>12, PInvAfter

\* Every step.
LEMMA PInvStep == PInv /\ [Next]_vars => PInv'
<1> SUFFICES ASSUME PInv, [Next]_vars PROVE PInv'
  OBVIOUS
<1>1. CASE GrowCall \/ AllocLimit \/ ShrinkCall \/ Done \/ File2MemNoMem \/ Fork \/ UNCHANGED vars
  <2>1. m' = m
    BY <1>1 DEF GrowCall, AllocLimit, ShrinkCall, Done, File2MemNoMem, Fork, vars
  <2> QED
    BY <1>1, <2>1, QuietKeeps
<1>2. CASE AllocPage
  BY <1>2, AllocPageKeeps
<1>3. CASE AllocNoMem
  BY <1>3, AllocNoMemKeeps
<1>4. CASE Tick
  BY <1>4, TickKeeps
<1>5. ASSUME NEW v \in Pages, DeallocNone(v) \/ DeallocPresent(v) \/ DeallocPaged(v)
      PROVE  PInv'
  BY <1>5, DeallocKeeps
<1>6. ASSUME NEW v \in Pages, Fault(v)
      PROVE  PInv'
  BY <1>6, FaultKeeps
<1> QED
  BY <1>1, <1>2, <1>3, <1>4, <1>5, <1>6 DEF Next

-----------------------------------------------------------------------------
(* The theorems.                                                           *)

\* The inductive invariant of the pager: the list is a chain of exactly the entries in
\* state 1, the entries match the page table, the counts are theirs, and a growth comes
\* to the limit before it comes to a page that a failed growth has left.
THEOREM PagerInvariant == Spec => []PInv
<1>1. Init => PInv
  BY PInvAtInit
<1>2. PInv /\ [Next]_vars => PInv'
  BY PInvStep
<1> QED
  BY <1>1, <1>2, PTL DEF Spec

\* The books of the invariant are those of the run's property: following the links from
\* the head meets the entries in state 1, and no others.
LEMMA BooksAgree == PInv => PagesAccounted
<1> SUFFICES ASSUME PInv PROVE PagesAccounted
  OBVIOUS
<1>1. m \in Memory /\ Linked(m, St(m, 1)) /\ Matched(m) /\ Counts(m) /\ OpShape
  BY DEF PInv, Books
<1>2. \A k : St(m, k) = InState(k)
  BY DEF St, InState
<1>3. TypeOK
  BY <1>1 DEF TypeOK, OpShape, Memory, Entry
<1>4. ListMatchesEntries
  <2>1. Listed(m) = St(m, 1)
    BY <1>1, ListedIs
  <2>2. /\ m.head # Nil => m.ent[m.head].prev = Nil
        /\ \A e, f \in Entries : m.ent[e].next = f <=> m.ent[f].prev = e
        /\ \A e \in Entries \ St(m, 1) : m.ent[e].next = Nil
    BY <1>1, LinkFacts
  <2>3. m.mem = Cardinality(St(m, 1))
    BY <1>1 DEF Counts
  <2> QED
    BY <1>2, <2>1, <2>2, <2>3 DEF ListMatchesEntries
<1>5. EntriesMatchPages
  BY <1>1 DEF EntriesMatchPages, InState, Matched
<1> QED
  BY <1>3, <1>4, <1>5 DEF PagesAccounted

\* The list, the entries and the page table agree after every move of a page.
THEOREM PagesAreAccounted == Spec => []PagesAccounted
<1> QED
  BY PagerInvariant, BooksAgree, PTL

\* The invariant leaves a growth a free entry, and an unmapped page.
LEMMA LimitsFollow == PInv => WithinLimits
<1> SUFFICES ASSUME PInv PROVE WithinLimits
  OBVIOUS
<1>1. /\ m \in Memory /\ Counts(m) /\ Bounded(m) /\ op.cur \in Nat /\ op.end \in Nat /\ op.end <= Top
      /\ m.mem \in Nat /\ m.file \in Nat /\ m.file <= MaxTotal - MaxPhys
  BY PInvParts, BookNumbers
<1>2. m.mem <= MaxPhys
  BY <1>1 DEF Bounded
<1>3. InState(2) = St(m, 2) /\ InState(0) = St(m, 0)
  BY DEF InState, St
<1>4. m.file = Cardinality(InState(2))
  BY <1>1, <1>3 DEF Counts
<1>5. ASSUME Allocating, ~AtLimit
      PROVE  InState(0) # {} /\ m.pte[op.cur] = "none"
  <2>1. op.name = "alloc" /\ op.cur \in Pages
    BY <1>1, <1>5, PagerSizes DEF Allocating, Pages
  <2>2. m.mem + m.file < MaxTotal
    BY <1>1, <1>2, <1>5, PagerSizes DEF AtLimit, Full
  <2> QED
    BY <1>1, <1>3, <1>5, <2>1, <2>2, NoRemap, FreeEntry
<1> QED
  BY <1>2, <1>4, <1>5 DEF WithinLimits

\* A process has pages in its file only while its memory is full, or one short of it.
LEMMA FileIsLastResort == PInv => FileOnlyWhenFull
<1>1. InState(2) = St(m, 2)
  BY DEF InState, St
<1> QED
  BY <1>1 DEF PInv, Bounded, FileOnlyWhenFull

\* No process passes the limits; a growth below them finds a free entry and comes to
\* no page that is still mapped; and pages are in the file only while memory is full, or
\* one short of it.
THEOREM LimitsAreKept == Spec => []LimitsHold
<1>1. PInv => LimitsHold
  BY LimitsFollow, FileIsLastResort DEF LimitsHold
<1> QED
  BY <1>1, PagerInvariant, PTL
====
