----------------------------- MODULE PipeProofs ------------------------------
(***************************************************************************)
(* A pipe outlives its users and nobody sleeps on it without a reason, for *)
(* any number of processes, any size of the ring and any width of its      *)
(* counters.                                                               *)
(***************************************************************************)
EXTENDS Pipe, FiniteSetTheorems, SequenceTheorems, WellFoundedInduction, TLAPS

-----------------------------------------------------------------------------
(* Numbers and remainders                                                  *)

\* A set of natural numbers has a least element.
LEMMA Least ==
  ASSUME NEW T \in SUBSET Nat, T # {}
  PROVE  \E k \in T : \A j \in T : k <= j
<1>1. \E k \in T : \A j \in T : ~(<<j, k>> \in OpToRel(<, Nat))
  BY NatLessThanWellFounded, WFMin
<1>2. PICK k \in T : \A j \in T : ~(<<j, k>> \in OpToRel(<, Nat))
  BY <1>1
<1>3. ASSUME NEW j \in T, j < k PROVE FALSE
  <2>1. <<j, k>> \in OpToRel(<, Nat)
    BY <1>3 DEF OpToRel
  <2> QED
    BY <1>2, <2>1
<1>4. \A j \in T : k <= j
  BY <1>3
<1> QED
  BY <1>4

\* Division with remainder.
LEMMA Remainder ==
  ASSUME NEW m \in Nat, m > 0
  PROVE  /\ \A x \in Int : x % m \in 0 .. m - 1 /\ x \div m \in Int /\ x % m = x - m * (x \div m)
         /\ \A x \in 0 .. m - 1 : x % m = x
         /\ \A q \in Int : (m * q) % m = 0
<1>1. ASSUME NEW x \in Int PROVE x % m \in 0 .. m - 1 /\ x \div m \in Int
  OBVIOUS
<1>2. ASSUME NEW x \in Int PROVE x % m = x - m * (x \div m)
  BY <1>1
<1>4. ASSUME NEW x \in 0 .. m - 1 PROVE x % m = x
  OBVIOUS
<1>5. ASSUME NEW q \in Int PROVE (m * q) % m = 0
  OBVIOUS
<1> QED
  BY <1>1, <1>2, <1>4, <1>5

\* A remainder is the only number of its range that differs by a multiple.
LEMMA RemainderUnique ==
  ASSUME NEW m \in Nat, m > 0, NEW r \in 0 .. m - 1, NEW q \in Int
  PROVE  (m * q + r) % m = r
OBVIOUS

\* A multiple more changes no remainder.
LEMMA ModShift ==
  ASSUME NEW m \in Nat, m > 0, NEW x \in Int, NEW q \in Int
  PROVE  (x + m * q) % m = x % m
<1>1. PICK d \in Int, r \in 0 .. m - 1 : r = x % m /\ r = x - m * d
  BY Remainder
<1>2. m * (d + q) = m * d + m * q
  OBVIOUS
<1>3. x + m * q = m * (d + q) + r
  BY <1>1, <1>2
<1>4. (m * (d + q) + r) % m = r
  BY RemainderUnique
<1> QED
  BY <1>1, <1>3, <1>4

\* uint arithmetic: the remainder may be taken before a sum or after it.
LEMMA ModAdd ==
  ASSUME NEW m \in Nat, m > 0, NEW x \in Int, NEW z \in Int
  PROVE  ((x % m) + z) % m = (x + z) % m
<1>1. PICK r \in Int, d \in Int : r = x % m /\ r = x - m * d
  BY Remainder
<1>2. PICK u \in Int : u = r + z
  OBVIOUS
<1>3. u + m * d = x + z
  BY <1>1, <1>2
<1>4. (u + m * d) % m = u % m
  BY ModShift
<1> QED
  BY <1>1, <1>2, <1>3, <1>4, Zenon

\* A remainder modulo a multiple of p has the remainder of the number modulo p.
LEMMA ModOfMod ==
  ASSUME NEW m \in Nat, m > 0, NEW p \in Nat, p > 0, NEW c \in Int, m = p * c, NEW x \in Int
  PROVE  (x % m) % p = x % p
<1>1. PICK d \in Int, r \in 0 .. m - 1 : r = x % m /\ r = x - m * d
  BY Remainder
<1>2. PICK e \in Int : e = c * d
  OBVIOUS
<1>3. m * d = p * e
  BY <1>2
<1>4. r + p * e = x
  BY <1>1, <1>3
<1>5. r \in Int
  OBVIOUS
<1>6. (r + p * e) % p = r % p
  BY <1>5, ModShift
<1> QED
  BY <1>1, <1>4, <1>6

\* Numbers less than m apart have different remainders.
LEMMA PlacesDiffer ==
  ASSUME NEW m \in Nat, m > 0, NEW j \in Int, NEW k \in Int, j % m = k % m, k - j < m, j - k < m
  PROVE  j = k
<1>1. PICK d \in Int, r \in 0 .. m - 1 : r = j % m /\ r = j - m * d
  BY Remainder
<1>2. PICK e \in Int, s \in 0 .. m - 1 : s = k % m /\ s = k - m * e
  BY Remainder
<1>3. m * (d - e) = m * d - m * e
  OBVIOUS
<1>4. PICK q \in Int : q = d - e
  OBVIOUS
<1>5. j - k = m * q
  BY <1>1, <1>2, <1>3, <1>4
<1>6. q < 1
  <2>1. q >= 1 => m * q >= m
    OBVIOUS
  <2> QED
    BY <1>5, <2>1
<1>7. q > -1
  <2>1. q <= -1 => m * q <= -m
    OBVIOUS
  <2> QED
    BY <1>5, <2>1
<1>8. q = 0
  BY <1>6, <1>7
<1> QED
  BY <1>5, <1>8

-----------------------------------------------------------------------------
Writing == {"write", "writeWait", "writeSleep"}
Reading == {"read", "readWait", "readSleep"}

\* Who is in a call has the descriptor; who is not closing has nothing to close.
PlaceInv ==
  \A p \in Procs :
    /\ pc[p] \in Writing => "write" \in fd[p]
    /\ pc[p] \in Reading => "read" \in fd[p]
    /\ pc[p] \notin {"closing", "pipeclose"} => todo[p] = {}
    /\ pc[p] = "unborn" => fd[p] = {}

\* ref counts the descriptors and the files that are still to be closed.
Holders(e) == {p \in Procs : e \in fd[p]}
Closers(e) == {p \in Procs : e \in todo[p]}
Counted == \A e \in Ends : ref[e] = Cardinality(Holders(e)) + Cardinality(Closers(e))

\* An end is open until the process that dropped its last reference has closed
\* it in pipeclose; the page is there as long as an end is open.
OpenInv ==
  /\ \A e \in Ends : e \in open <=> ref[e] > 0 \/ \E p \in Procs : end[p] = e
  /\ \A p \in Procs : end[p] # NoEnd => ref[end[p]] = 0
  /\ \A p, q \in Procs : end[p] = end[q] /\ end[p] # NoEnd => p = q
  /\ memory = "used" <=> open # {}

\* Who sleeps, or is about to with the lock held, has a reason.
SleepInv ==
  \A p \in Procs :
    /\ pc[p] = "readSleep" => "write" \in open /\ (nread = nwrite \/ abandoned)
    /\ pc[p] = "readWait" => "write" \in open /\ nread = nwrite
    /\ pc[p] \in {"writeWait", "writeSleep"} => "read" \in open /\ Room = 0

IInv == TypeOK /\ PlaceInv /\ Counted /\ OpenInv /\ SleepInv

-----------------------------------------------------------------------------
(* Numbers: the uint counters, the bytes of a call, the place of a byte.   *)

\* What the assumption says of the sizes.
LEMMA Sizes ==
  /\ PIPESIZE \in Nat \ {0} /\ UintRange \in Nat \ {0} /\ MaxCall \in Nat \ {0}
  /\ NPROC \in Nat \ {0} /\ NoProc \notin Procs /\ IsFiniteSet(Procs)
  /\ NoEnd \notin Ends
<1>1. IsFiniteSet(Procs)
  BY PipeAssumption, FS_Interval DEF Procs
<1> QED
  BY <1>1, PipeAssumption DEF Procs, NoProc, NoEnd, Ends

\* A set of natural numbers below a bound has a greatest element.
LEMMA MaxIn ==
  ASSUME NEW n \in Nat, NEW S \in SUBSET (0 .. n - 1), S # {}
  PROVE  Max(S) \in S
<1> DEFINE T == {k \in Nat : n - k \in S}
<1>1. PICK x \in S : TRUE
  OBVIOUS
<1>2. n - x \in T
  OBVIOUS
<1>3. PICK k \in T : \A j \in T : k <= j
  BY <1>2, Least
<1>4. \A y \in S : n - y \in T /\ n - (n - y) = y
  OBVIOUS
<1>5. \A y \in S : n - k >= y
  BY <1>3, <1>4
<1>6. \E m \in S : \A y \in S : m >= y
  BY <1>5
<1> QED
  BY <1>6 DEF Max

\* A writer that has used all the room leaves none, whatever the counters are.
LEMMA RoomUsed ==
  ASSUME NEW U \in Nat, NEW P \in Nat, NEW a \in 0 .. U - 1, NEW b \in 0 .. U - 1
  PROVE  (a + P - ((b + ((a + P - b) % U)) % U)) % U = 0
<1> DEFINE q == (a + P - b) \div U
<1> DEFINE r == (a + P - b) % U
<1> DEFINE t == (b + r) \div U
<1> DEFINE s == (b + r) % U
<1>0. U > 0
  OBVIOUS
<1>1. q \in Int /\ r = (a + P - b) - U * q /\ r \in Int
  BY <1>0, Remainder
<1>2. t \in Int /\ s = (b + r) - U * t /\ s \in Int
  BY <1>0, <1>1, Remainder
<1> HIDE DEF q, r, t, s
<1>3. U * (q + t) = U * q + U * t
  BY <1>1, <1>2
<1>4. a + P - s = U * (q + t)
  BY <1>1, <1>2, <1>3
<1>5. (a + P - s) % U = 0
  BY <1>0, <1>1, <1>2, <1>4, Remainder
<1> QED
  BY <1>5 DEF s, r

\* The smaller of two numbers.
LEMMA MinTwo ==
  ASSUME NEW a \in Nat, NEW b \in Nat
  PROVE  Min({a, b}) = IF a <= b THEN a ELSE b
BY DEF Min

\* The counters stay in their range; the ring has room, or not.
LEMMA Counters ==
  ASSUME TypeOK
  PROVE  /\ Room \in Nat /\ Unread \in Nat
         /\ \A n \in Nat : (nwrite + n) % UintRange \in 0 .. UintRange - 1
         /\ \A n \in Nat : (nread + n) % UintRange \in 0 .. UintRange - 1
         /\ \A n \in Nat : ((nread + n) % UintRange) % PIPESIZE \in 0 .. PIPESIZE - 1
         /\ (nwrite + 0) % UintRange = nwrite
<1>1. nwrite \in 0 .. UintRange - 1 /\ nread \in 0 .. UintRange - 1
  BY DEF TypeOK
<1>2. Room \in Nat /\ Unread \in Nat
  BY <1>1, Sizes, Remainder DEF Room, Unread
<1>3. \A n \in Nat : (nwrite + n) % UintRange \in 0 .. UintRange - 1
  BY <1>1, Sizes, Remainder
<1>4. \A n \in Nat : (nread + n) % UintRange \in 0 .. UintRange - 1
  BY <1>1, Sizes, Remainder
<1>5. \A n \in Nat : ((nread + n) % UintRange) % PIPESIZE \in 0 .. PIPESIZE - 1
  BY <1>4, Sizes, Remainder
<1>6. nwrite + 0 = nwrite
  BY <1>1
<1>7. (nwrite + 0) % UintRange = nwrite
  BY <1>1, <1>6, Sizes, Remainder
<1> QED
  BY <1>2, <1>3, <1>4, <1>5, <1>7

\* One process more, or one process less.
LEMMA Counting ==
  ASSUME NEW S \in SUBSET Procs
  PROVE  /\ Cardinality(S) \in Nat
         /\ Cardinality(S) = 0 <=> S = {}
         /\ \A p \in Procs : p \notin S => Cardinality(S \cup {p}) = Cardinality(S) + 1
         /\ \A p \in Procs : p \in S => Cardinality(S \ {p}) = Cardinality(S) - 1
<1>1. IsFiniteSet(S)
  BY Sizes, FS_Subset
<1>2. Cardinality(S) \in Nat /\ (Cardinality(S) = 0 <=> S = {})
  BY <1>1, FS_CardinalityType, FS_EmptySet
<1>3. \A p \in Procs : p \notin S => Cardinality(S \cup {p}) = Cardinality(S) + 1
  BY <1>1, FS_AddElement
<1>4. \A p \in Procs : p \in S => Cardinality(S \ {p}) = Cardinality(S) - 1
  BY <1>1, FS_RemoveElement
<1> QED
  BY <1>2, <1>3, <1>4

\* A count is positive if anybody is counted, and zero if nobody is.
LEMMA RefPositive ==
  ASSUME Counted, NEW e \in Ends
  PROVE  /\ ref[e] \in Nat
         /\ ref[e] > 0 <=> \E p \in Procs : e \in fd[p] \/ e \in todo[p]
         /\ ref[e] = 0 => Holders(e) = {} /\ Closers(e) = {}
<1>1. Holders(e) \in SUBSET Procs /\ Closers(e) \in SUBSET Procs
  BY DEF Holders, Closers
<1>2. ref[e] = Cardinality(Holders(e)) + Cardinality(Closers(e))
  BY DEF Counted
<1>3. /\ Cardinality(Holders(e)) \in Nat /\ Cardinality(Closers(e)) \in Nat
      /\ Cardinality(Holders(e)) = 0 <=> Holders(e) = {}
      /\ Cardinality(Closers(e)) = 0 <=> Closers(e) = {}
  BY <1>1, Counting
<1>4. ref[e] \in Nat /\ (ref[e] = 0 <=> Holders(e) = {} /\ Closers(e) = {})
  BY <1>2, <1>3
<1>5. Holders(e) = {} /\ Closers(e) = {} <=> ~\E p \in Procs : e \in fd[p] \/ e \in todo[p]
  BY DEF Holders, Closers
<1> QED
  BY <1>4, <1>5

\* A step that leaves descriptors and files alone.
LEMMA SameCount ==
  ASSUME Counted, UNCHANGED <<ref, fd, todo>>
  PROVE  Counted'
BY DEF Counted, Holders, Closers

\* A step that leaves the ends of the pipe alone.
LEMMA SameEnds ==
  ASSUME OpenInv, UNCHANGED <<ref, open, memory, end>>
  PROVE  OpenInv'
BY DEF OpenInv

\* The pipe is there for its users.
LEMMA Outlives == IInv => PipeOutlivesUsers
<1> SUFFICES ASSUME IInv PROVE PipeOutlivesUsers
  OBVIOUS
<1>1. \A e \in Ends : /\ ref[e] = Cardinality({p \in Procs : e \in fd[p]}) + Cardinality({p \in Procs : e \in todo[p]})
                      /\ ref[e] > 0 => e \in open
  BY DEF IInv, Counted, Holders, Closers, OpenInv
<1>2. ASSUME NEW p \in Procs, NEW e \in fd[p] PROVE memory = "used"
  <2>1. e \in Ends /\ ref[e] > 0
    BY <1>2, RefPositive DEF IInv, TypeOK
  <2> QED
    BY <2>1 DEF IInv, OpenInv
<1>3. ASSUME NEW p \in Procs, pc[p] = "pipeclose" PROVE memory = "used"
  BY <1>3 DEF IInv, TypeOK, OpenInv
<1>4. ASSUME NEW p \in Procs, pc[p] \in Writing \cup Reading PROVE memory = "used"
  BY <1>2, <1>4 DEF IInv, PlaceInv
<1>5. memory = "freed" => open = {}
  BY DEF IInv, OpenInv
<1> QED
  BY <1>1, <1>3, <1>4, <1>5 DEF PipeOutlivesUsers, Writing, Reading

-----------------------------------------------------------------------------
(* The invariant is kept.                                                  *)

\* No pipe, no descriptors, nobody in a call.
LEMMA InitInv == Init => IInv
<1> SUFFICES ASSUME Init PROVE IInv
  OBVIOUS
<1> USE Sizes DEF Init
<1>1. TypeOK
  <2>1. /\ data \in [0 .. PIPESIZE - 1 -> Nat] /\ nread \in 0 .. UintRange - 1 /\ nwrite \in 0 .. UintRange - 1
        /\ left \in [Procs -> 0 .. MaxCall] /\ ref \in [Ends -> Nat]
    OBVIOUS
  <2>2. pc \in [Procs -> Places] /\ \A p \in Procs : pc[p] \in {"user", "unborn"}
    BY DEF Places
  <2>3. \A p \in Procs : pc[p] \notin {"writeWait", "readWait", "pipeclose"} /\ lock # p /\ end[p] = NoEnd
    BY <2>2
  <2> QED
    BY SMTT(30), <2>1, <2>2, <2>3 DEF TypeOK
<1>2. PlaceInv
  BY DEF PlaceInv, Writing, Reading
<1>3. Counted
  <2>1. \A e \in Ends : Holders(e) = {} /\ Closers(e) = {}
    BY DEF Holders, Closers
  <2> QED
    BY <2>1, FS_EmptySet DEF Counted
<1>4. OpenInv
  BY DEF OpenInv
<1>5. SleepInv
  BY DEF SleepInv
<1> QED
  BY <1>1, <1>2, <1>3, <1>4, <1>5 DEF IInv

\* Before the pipe is made nobody has a descriptor of it.
LEMMA NoPipeYet ==
  ASSUME IInv, memory = "none"
  PROVE  /\ open = {} /\ \A e \in Ends : ref[e] = 0
         /\ \A p \in Procs : fd[p] = {} /\ todo[p] = {} /\ end[p] = NoEnd
<1>1. open = {}
  BY DEF IInv, OpenInv
<1>2. \A e \in Ends : ref[e] = 0
  BY <1>1, RefPositive DEF IInv, OpenInv
<1>3. \A p \in Procs : fd[p] = {} /\ todo[p] = {}
  BY <1>2, RefPositive DEF IInv, TypeOK, Holders, Closers
<1>4. \A p \in Procs : end[p] = NoEnd
  BY <1>1 DEF IInv, TypeOK, OpenInv
<1> QED
  BY <1>1, <1>2, <1>3, <1>4

\* pipealloc and two descriptors.
LEMMA SysPipeKeeps ==
  ASSUME IInv, NEW p \in Procs, SysPipe(p) PROVE IInv'
<1> USE Sizes DEF IInv
<1>1. /\ pc[p] = "user" /\ memory = "none"
      /\ memory' = "used" /\ open' = Ends /\ ref' = [e \in Ends |-> 1]
      /\ fd' = [fd EXCEPT ![p] = Ends]
      /\ UNCHANGED <<data, nread, nwrite, lock, left, end, exiting, killed, hist, pc, todo>>
  BY DEF SysPipe, MakePipe, Calls
<1>2. /\ open = {}
      /\ \A q \in Procs : fd[q] = {} /\ todo[q] = {} /\ end[q] = NoEnd
  BY <1>1, NoPipeYet
<1>3. TypeOK'
  BY <1>1 DEF TypeOK, hist
<1>4. PlaceInv'
  BY <1>1, <1>2 DEF TypeOK, PlaceInv, Writing, Reading
<1>5. Counted'
  <2>1. \A e \in Ends : Holders(e)' = {p} /\ Closers(e)' = {}
    BY <1>1, <1>2 DEF TypeOK, Holders, Closers
  <2>2. Cardinality({p}) = 1 /\ Cardinality({}) = 0
    BY FS_Singleton, FS_EmptySet
  <2> QED
    BY <1>1, <2>1, <2>2 DEF Counted
<1>6. OpenInv'
  BY <1>1, <1>2 DEF OpenInv, Ends
<1>7. SleepInv'
  <2>1. \A q \in Procs : pc[q] \notin Writing \cup Reading
    BY <1>2 DEF PlaceInv
  <2> QED
    BY <1>1, <2>1 DEF SleepInv, Writing, Reading
<1> QED
  BY <1>3, <1>4, <1>5, <1>6, <1>7

\* pipealloc, and no descriptor is free: both files are to be closed.
LEMMA SysPipeNoFdKeeps ==
  ASSUME IInv, NEW p \in Procs, SysPipeNoFd(p) PROVE IInv'
<1> USE Sizes DEF IInv
<1>1. /\ pc[p] = "user" /\ memory = "none"
      /\ memory' = "used" /\ open' = Ends /\ ref' = [e \in Ends |-> 1]
      /\ todo' = [todo EXCEPT ![p] = Ends] /\ pc' = [pc EXCEPT ![p] = "closing"]
      /\ UNCHANGED <<data, nread, nwrite, lock, left, end, exiting, killed, hist, fd>>
  BY DEF SysPipeNoFd, MakePipe, Calls, Goto
<1>2. /\ open = {}
      /\ \A q \in Procs : fd[q] = {} /\ todo[q] = {} /\ end[q] = NoEnd
  BY <1>1, NoPipeYet
<1>3. TypeOK'
  BY <1>1 DEF TypeOK, hist, Places
<1>4. PlaceInv'
  BY <1>1, <1>2 DEF TypeOK, PlaceInv, Writing, Reading
<1>5. Counted'
  <2>1. \A e \in Ends : Holders(e)' = {} /\ Closers(e)' = {p}
    BY <1>1, <1>2 DEF TypeOK, Holders, Closers
  <2>2. Cardinality({p}) = 1 /\ Cardinality({}) = 0
    BY FS_Singleton, FS_EmptySet
  <2> QED
    BY <1>1, <2>1, <2>2 DEF Counted
<1>6. OpenInv'
  BY <1>1, <1>2 DEF OpenInv, Ends
<1>7. SleepInv'
  <2>1. \A q \in Procs : pc[q] \notin Writing \cup Reading
    BY <1>2 DEF PlaceInv
  <2> QED
    BY <1>1, <2>1 DEF TypeOK, SleepInv, Writing, Reading
<1> QED
  BY <1>3, <1>4, <1>5, <1>6, <1>7

\* filedup for each descriptor of the parent.
LEMMA ForkKeeps ==
  ASSUME IInv, NEW p \in Procs, NEW q \in Procs, Fork(p, q) PROVE IInv'
<1> USE Sizes DEF IInv
<1>1. /\ pc[p] = "user" /\ pc[q] = "unborn" /\ pc' = [pc EXCEPT ![q] = "user"]
      /\ fd' = [fd EXCEPT ![q] = fd[p]]
      /\ ref' = [e \in Ends |-> IF e \in fd[p] THEN ref[e] + 1 ELSE ref[e]]
      /\ UNCHANGED <<pipe, calls, killed, hist>>
  BY DEF Fork, Calls, Goto
<1>2. fd[q] = {} /\ todo[q] = {}
  BY <1>1 DEF PlaceInv
<1>3. TypeOK'
  BY <1>1 DEF TypeOK, Places, pipe, calls, hist
<1>4. PlaceInv'
  BY <1>1, <1>2 DEF TypeOK, PlaceInv, Writing, Reading, calls
<1>5. Counted'
  <2>1. ASSUME NEW e \in Ends PROVE ref'[e] = Cardinality(Holders(e)') + Cardinality(Closers(e)')
    <3>1. Closers(e)' = Closers(e)
      BY <1>1 DEF Closers, calls
    <3>2. Holders(e)' = IF e \in fd[p] THEN Holders(e) \cup {q} ELSE Holders(e)
      BY <1>1, <1>2 DEF TypeOK, Holders
    <3>3. Cardinality(Holders(e) \cup {q}) = Cardinality(Holders(e)) + 1
      <4>1. Holders(e) \in SUBSET Procs /\ q \notin Holders(e)
        BY <1>2 DEF Holders
      <4> QED
        BY <4>1, Counting
    <3>4. Cardinality(Holders(e)) \in Nat /\ Cardinality(Closers(e)) \in Nat
      BY Counting DEF Holders, Closers
    <3>5. ref[e] = Cardinality(Holders(e)) + Cardinality(Closers(e))
      BY DEF Counted
    <3> QED
      BY <1>1, <3>1, <3>2, <3>3, <3>4, <3>5
  <2> QED
    BY <2>1 DEF Counted
<1>6. OpenInv'
  <2>1. ASSUME NEW e \in Ends PROVE ref'[e] > 0 <=> ref[e] > 0
    BY <1>1, RefPositive
  <2>2. ASSUME NEW e \in Ends, ref[e] = 0 PROVE ref'[e] = 0
    BY <1>1, <2>2, RefPositive
  <2> QED
    BY <1>1, <2>1, <2>2 DEF TypeOK, OpenInv, pipe, calls
<1>7. SleepInv'
  BY <1>1 DEF TypeOK, SleepInv, Room, pipe, hist
<1> QED
  BY <1>3, <1>4, <1>5, <1>6, <1>7

\* A call of read or write begins, with the descriptor.
LEMMA CallKeeps ==
  ASSUME IInv, NEW p \in Procs, CallWrite(p) \/ CallRead(p) PROVE IInv'
<1> USE Sizes DEF IInv
<1>1. /\ pc[p] = "user" /\ \E n \in 1 .. MaxCall : left' = [left EXCEPT ![p] = n]
      /\ \/ pc' = [pc EXCEPT ![p] = "write"] /\ "write" \in fd[p]
         \/ pc' = [pc EXCEPT ![p] = "read"] /\ "read" \in fd[p]
      /\ UNCHANGED <<pipe, files, todo, end, exiting, killed, hist>>
  BY DEF CallWrite, CallRead, Calls, Goto
<1>2. TypeOK'
  <2>1. left' \in [Procs -> 0 .. MaxCall]
    BY <1>1 DEF TypeOK
  <2>2. pc' \in [Procs -> Places]
    BY <1>1 DEF TypeOK, Places
  <2>3. \A q \in Procs : /\ pc'[q] \in {"writeWait", "readWait"} <=> lock' = q
                         /\ pc'[q] = "pipeclose" <=> end'[q] # NoEnd
    BY <1>1 DEF TypeOK, pipe
  <2> QED
    BY <1>1, <2>1, <2>2, <2>3 DEF TypeOK, pipe, files, hist
<1>3. PlaceInv'
  BY ZenonT(60), <1>1 DEF TypeOK, PlaceInv, Writing, Reading, files
<1>4. Counted' /\ OpenInv'
  BY <1>1, SameCount, SameEnds DEF files, pipe
<1>5. SleepInv'
  BY <1>1 DEF TypeOK, SleepInv, Room, pipe, hist
<1> QED
  BY <1>2, <1>3, <1>4, <1>5

\* A process that has seen the pipe empty, or full, goes to sleep or gives up.
LEMMA WaitKeeps ==
  ASSUME IInv, NEW p \in Procs, WriteSleep(p) \/ ReadWait(p) \/ ReadSleep(p) \/ ReadKilled(p)
  PROVE  IInv'
<1> USE Sizes DEF IInv
<1>1. UNCHANGED <<data, nread, nwrite, open, memory, files, todo, end, exiting, killed, hist>>
  BY DEF WriteSleep, ReadWait, ReadSleep, ReadKilled, pipe, calls
<1>2. \/ pc[p] = "writeWait" /\ pc' = [pc EXCEPT ![p] = "writeSleep"] /\ lock' = NoProc
      \/ pc[p] = "readWait" /\ pc' = [pc EXCEPT ![p] = "readSleep"] /\ lock' = NoProc
      \/ pc[p] = "read" /\ pc' = [pc EXCEPT ![p] = "readWait"] /\ lock = NoProc /\ lock' = p /\ MustWait
      \/ pc[p] = "read" /\ pc' = [pc EXCEPT ![p] = "user"] /\ lock' = lock
  BY DEF WriteSleep, ReadWait, ReadSleep, ReadKilled, Goto, pipe
<1>3. left' \in [Procs -> 0 .. MaxCall]
  <2>1. left' = left \/ left' = [left EXCEPT ![p] = 0]
    BY DEF WriteSleep, ReadWait, ReadSleep, ReadKilled, Return, calls
  <2>2. 0 \in 0 .. MaxCall
    OBVIOUS
  <2> QED
    BY <2>1, <2>2 DEF TypeOK
<1>4. TypeOK'
  <2>1. pc' \in [Procs -> Places]
    BY <1>2 DEF TypeOK, Places
  <2>2. \A q \in Procs : /\ pc'[q] \in {"writeWait", "readWait"} <=> lock' = q
                         /\ pc'[q] = "pipeclose" <=> end'[q] # NoEnd
    BY <1>1, <1>2 DEF TypeOK
  <2> QED
    BY <1>1, <1>3, <2>1, <2>2 DEF TypeOK, files, hist
<1>5. PlaceInv'
  BY <1>1, <1>2 DEF TypeOK, PlaceInv, Writing, Reading, files
<1>6. Counted' /\ OpenInv'
  BY <1>1, SameCount, SameEnds DEF files
<1>7. SleepInv'
  BY <1>1, <1>2 DEF TypeOK, SleepInv, Room, MustWait, hist
<1> QED
  BY <1>4, <1>5, <1>6, <1>7

\* kill wakes its victim.
LEMMA KillKeeps ==
  ASSUME IInv, NEW p \in Procs, Kill(p) PROVE IInv'
<1> USE Sizes DEF IInv
<1>1. /\ pc[p] \notin {"unborn", "dead"} /\ killed' = killed \cup {p}
      /\ \/ pc[p] = "readSleep" /\ pc' = [pc EXCEPT ![p] = "read"]
         \/ pc[p] = "writeSleep" /\ pc' = [pc EXCEPT ![p] = "write"]
         \/ pc' = [pc EXCEPT ![p] = pc[p]]
      /\ UNCHANGED <<pipe, files, calls, hist>>
  BY DEF Kill, Goto
<1>2. TypeOK'
  BY <1>1 DEF TypeOK, Places, pipe, files, calls, hist
<1>3. PlaceInv'
  BY ZenonT(60), <1>1 DEF TypeOK, PlaceInv, Writing, Reading, files, calls
<1>4. Counted' /\ OpenInv'
  BY <1>1, SameCount, SameEnds DEF files, pipe, calls
<1>5. SleepInv'
  BY <1>1 DEF TypeOK, SleepInv, Room, pipe, hist
<1> QED
  BY <1>2, <1>3, <1>4, <1>5

\* A descriptor becomes a file to be closed: it still counts.
LEMMA MovedCount ==
  ASSUME Counted, NEW p \in Procs, NEW S \in SUBSET Ends, todo[p] = {}, ref' = ref,
         \A q \in Procs \ {p} : fd'[q] = fd[q] /\ todo'[q] = todo[q],
         S \subseteq fd[p], fd'[p] = fd[p] \ S, todo'[p] = S
  PROVE  Counted'
<1>1. ASSUME NEW e \in Ends PROVE ref'[e] = Cardinality(Holders(e)') + Cardinality(Closers(e)')
  <2>1. ref[e] = Cardinality(Holders(e)) + Cardinality(Closers(e))
    BY DEF Counted
  <2>2. Holders(e) \in SUBSET Procs /\ Closers(e) \in SUBSET Procs
    BY DEF Holders, Closers
  <2>3. CASE e \notin S
    <3>1. Holders(e)' = Holders(e) /\ Closers(e)' = Closers(e)
      BY <2>3 DEF Holders, Closers
    <3> QED
      BY <2>1, <3>1
  <2>4. CASE e \in S
    <3>1. /\ p \in Holders(e) /\ Holders(e)' = Holders(e) \ {p}
          /\ p \notin Closers(e) /\ Closers(e)' = Closers(e) \cup {p}
      BY <2>4 DEF Holders, Closers
    <3>2. /\ Cardinality(Holders(e) \ {p}) = Cardinality(Holders(e)) - 1
          /\ Cardinality(Closers(e) \cup {p}) = Cardinality(Closers(e)) + 1
          /\ Cardinality(Holders(e)) \in Nat /\ Cardinality(Closers(e)) \in Nat
      BY <2>2, <3>1, Counting
    <3> QED
      BY <2>1, <3>1, <3>2
  <2> QED
    BY <2>3, <2>4
<1> QED
  BY <1>1 DEF Counted

\* close, and exit: descriptors are given up, and the files are to be closed.
LEMMA CloseKeeps ==
  ASSUME IInv, NEW p \in Procs, Exit(p) \/ \E e \in Ends : Close(p, e) PROVE IInv'
<1> USE Sizes DEF IInv
<1>1. PICK S \in SUBSET Ends :
        /\ S \subseteq fd[p]
        /\ fd' = [fd EXCEPT ![p] = fd[p] \ S] /\ todo' = [todo EXCEPT ![p] = S]
        /\ \/ pc' = [pc EXCEPT ![p] = "closing"]
           \/ S = {} /\ pc' = [pc EXCEPT ![p] = "dead"]
  <2>1. ASSUME Exit(p)
        PROVE  /\ fd[p] \in SUBSET Ends /\ fd[p] \subseteq fd[p]
               /\ fd' = [fd EXCEPT ![p] = fd[p] \ fd[p]] /\ todo' = [todo EXCEPT ![p] = fd[p]]
               /\ \/ pc' = [pc EXCEPT ![p] = "closing"]
                  \/ fd[p] = {} /\ pc' = [pc EXCEPT ![p] = "dead"]
    <3>1. fd[p] \ fd[p] = {}
      OBVIOUS
    <3> QED
      BY <2>1, <3>1 DEF Exit, Goto, TypeOK
  <2>2. ASSUME NEW e \in Ends, Close(p, e)
        PROVE  /\ {e} \in SUBSET Ends /\ {e} \subseteq fd[p]
               /\ fd' = [fd EXCEPT ![p] = fd[p] \ {e}] /\ todo' = [todo EXCEPT ![p] = {e}]
               /\ pc' = [pc EXCEPT ![p] = "closing"]
    BY <2>2 DEF Close, Goto
  <2> QED
    BY <2>1, <2>2
<1>2. /\ pc[p] = "user"
      /\ UNCHANGED <<pipe, ref, left, end, killed, hist>>
      /\ exiting' = exiting \/ exiting' = exiting \cup {p}
  BY DEF Exit, Close, Calls
<1>3. todo[p] = {}
  BY <1>2 DEF PlaceInv
<1>4. TypeOK'
  <2>1. fd' \in [Procs -> SUBSET Ends] /\ todo' \in [Procs -> SUBSET Ends]
    BY <1>1 DEF TypeOK
  <2>2. pc' \in [Procs -> Places] /\ exiting' \subseteq Procs
    BY <1>1, <1>2 DEF TypeOK, Places
  <2>3. \A q \in Procs : /\ pc'[q] \in {"writeWait", "readWait"} <=> lock' = q
                         /\ pc'[q] = "pipeclose" <=> end'[q] # NoEnd
    BY <1>1, <1>2 DEF TypeOK, pipe
  <2> QED
    BY <1>2, <2>1, <2>2, <2>3 DEF TypeOK, pipe, hist
<1>5. PlaceInv'
  BY <1>1, <1>2 DEF TypeOK, PlaceInv, Writing, Reading
<1>6. Counted'
  <2>1. /\ \A q \in Procs \ {p} : fd'[q] = fd[q] /\ todo'[q] = todo[q]
        /\ fd'[p] = fd[p] \ S /\ todo'[p] = S
    BY <1>1 DEF TypeOK
  <2> QED
    BY <1>1, <1>2, <1>3, <2>1, MovedCount
<1>7. OpenInv'
  BY <1>2, SameEnds DEF pipe
<1>8. SleepInv'
  BY <1>1, <1>2 DEF TypeOK, SleepInv, Room, pipe, hist
<1> QED
  BY <1>4, <1>5, <1>6, <1>7, <1>8

\* fileclose: the last reference sends the process to pipeclose.
LEMMA FileCloseKeeps ==
  ASSUME IInv, NEW p \in Procs, FileClose(p) PROVE IInv'
<1> USE Sizes DEF IInv
<1>1. PICK e \in todo[p] :
        /\ ref' = [ref EXCEPT ![e] = @ - 1]
        /\ todo' = [todo EXCEPT ![p] = @ \ {e}]
        /\ end' = [end EXCEPT ![p] = IF LastRef(e) THEN e ELSE NoEnd]
        /\ Goto(p, IF LastRef(e) THEN "pipeclose" ELSE NextClose(p, todo[p] \ {e}))
  BY DEF FileClose
<1>2. /\ pc[p] = "closing" /\ end[p] = NoEnd /\ e \in Ends
      /\ UNCHANGED <<pipe, fd, left, exiting, killed, hist>>
  BY DEF FileClose, TypeOK
<1>3. ref[e] \in Nat /\ ref[e] > 0
  BY <1>1, <1>2, RefPositive
<1>4. \/ ref[e] = 1 /\ pc' = [pc EXCEPT ![p] = "pipeclose"] /\ end' = [end EXCEPT ![p] = e]
      \/ /\ ref[e] > 1 /\ end' = [end EXCEPT ![p] = NoEnd]
         /\ \/ todo[p] \ {e} # {} /\ pc' = [pc EXCEPT ![p] = "closing"]
            \/ todo[p] \ {e} = {} /\ pc' = [pc EXCEPT ![p] = "dead"]
            \/ todo[p] \ {e} = {} /\ pc' = [pc EXCEPT ![p] = "user"]
  <2>1. CASE ref[e] = 1
    BY <1>1, <2>1 DEF LastRef, Goto
  <2>2. CASE ref[e] # 1
    <3>1. ref[e] > 1 /\ end' = [end EXCEPT ![p] = NoEnd] /\ pc' = [pc EXCEPT ![p] = NextClose(p, todo[p] \ {e})]
      BY <1>1, <1>3, <2>2 DEF LastRef, Goto
    <3>2. \/ todo[p] \ {e} # {} /\ NextClose(p, todo[p] \ {e}) = "closing"
          \/ todo[p] \ {e} = {} /\ NextClose(p, todo[p] \ {e}) = "dead"
          \/ todo[p] \ {e} = {} /\ NextClose(p, todo[p] \ {e}) = "user"
      BY DEF NextClose
    <3> QED
      BY <3>1, <3>2
  <2> QED
    BY <2>1, <2>2
<1>5. TypeOK'
  <2>1. ref' \in [Ends -> Nat]
    BY <1>1, <1>2, <1>3 DEF TypeOK
  <2>2. todo' \in [Procs -> SUBSET Ends] /\ end' \in [Procs -> Ends \cup {NoEnd}]
    BY <1>1, <1>2, <1>4 DEF TypeOK
  <2>3. pc' \in [Procs -> Places]
    BY <1>4 DEF TypeOK, Places
  <2>4. \A q \in Procs : /\ pc'[q] \in {"writeWait", "readWait"} <=> lock' = q
                         /\ pc'[q] = "pipeclose" <=> end'[q] # NoEnd
    BY ZenonT(60), <1>2, <1>4 DEF TypeOK, pipe
  <2> QED
    BY <1>2, <2>1, <2>2, <2>3, <2>4 DEF TypeOK, pipe, hist
<1>6. PlaceInv'
  <2>1. \A q \in Procs \ {p} : pc'[q] = pc[q] /\ todo'[q] = todo[q]
    BY <1>1, <1>4 DEF TypeOK
  <2>2. pc'[p] \in {"pipeclose", "closing", "dead", "user"} /\ (pc'[p] \in {"dead", "user"} => todo'[p] = {})
    BY <1>1, <1>4 DEF TypeOK
  <2> QED
    BY <1>2, <2>1, <2>2 DEF PlaceInv, Writing, Reading
<1>7. Counted'
  <2>1. ASSUME NEW d \in Ends PROVE ref'[d] = Cardinality(Holders(d)') + Cardinality(Closers(d)')
    <3>1. ref[d] = Cardinality(Holders(d)) + Cardinality(Closers(d))
      BY DEF Counted
    <3>2. Holders(d)' = Holders(d) /\ Closers(d)' = IF d = e THEN Closers(d) \ {p} ELSE Closers(d)
      BY <1>1, <1>2 DEF TypeOK, Holders, Closers
    <3>3. ref'[d] = IF d = e THEN ref[d] - 1 ELSE ref[d]
      BY <1>1, <1>2 DEF TypeOK
    <3>4. p \in Closers(e) /\ Closers(e) \in SUBSET Procs /\ Holders(e) \in SUBSET Procs
      BY <1>1 DEF Closers, Holders
    <3>5. /\ Cardinality(Closers(e) \ {p}) = Cardinality(Closers(e)) - 1
          /\ Cardinality(Closers(e)) \in Nat /\ Cardinality(Holders(e)) \in Nat
      BY <3>4, Counting
    <3>6. CASE d = e
      BY <3>1, <3>2, <3>3, <3>5, <3>6
    <3>7. CASE d # e
      BY <3>1, <3>2, <3>3, <3>7
    <3> QED
      BY <3>6, <3>7
  <2> QED
    BY <2>1 DEF Counted
<1>8. OpenInv'
  <2>1. ref'[e] = ref[e] - 1 /\ \A d \in Ends \ {e} : ref'[d] = ref[d]
    BY <1>1, <1>2 DEF TypeOK
  <2>2. \A q \in Procs \ {p} : end'[q] = end[q]
    BY <1>4 DEF TypeOK
  <2>3. \A q \in Procs : end[q] # e
    BY <1>2, <1>3 DEF OpenInv
  <2>4. e \in open
    BY <1>2, <1>3 DEF OpenInv
  <2>5. open' = open /\ memory' = memory
    BY <1>2 DEF pipe
  <2>6. \/ ref[e] = 1 /\ end'[p] = e /\ ref'[e] = 0
        \/ ref[e] > 1 /\ end'[p] = NoEnd /\ ref'[e] > 0
    BY <1>2, <1>3, <1>4, <2>1 DEF TypeOK
  <2>7. \A d \in Ends : d \in open' <=> ref'[d] > 0 \/ \E q \in Procs : end'[q] = d
    <3>1. ASSUME NEW d \in Ends, d # e PROVE d \in open' <=> ref'[d] > 0 \/ \E q \in Procs : end'[q] = d
      <4>1. end'[p] # d /\ end[p] # d
        BY <1>2, <2>6, <3>1
      <4>2. \A q \in Procs : end'[q] = d <=> end[q] = d
        BY <2>2, <4>1
      <4> QED
        BY <2>1, <2>5, <3>1, <4>2 DEF OpenInv
    <3> QED
      BY <2>4, <2>5, <2>6, <3>1
  <2>8. ASSUME NEW q \in Procs, end'[q] # NoEnd PROVE ref'[end'[q]] = 0
    <3>1. CASE q = p
      BY <2>6, <2>8, <3>1
    <3>2. CASE q # p
      <4>1. end'[q] = end[q] /\ end[q] \in Ends \ {e} /\ ref[end[q]] = 0
        BY <2>2, <2>3, <2>8, <3>2 DEF TypeOK, OpenInv
      <4> QED
        BY <2>1, <4>1
    <3> QED
      BY <3>1, <3>2
  <2>9. \A q, r \in Procs : end'[q] = end'[r] /\ end'[q] # NoEnd => q = r
    BY <2>2, <2>3, <2>6 DEF OpenInv
  <2>10. memory' = "used" <=> open' # {}
    BY <2>5 DEF OpenInv
  <2> QED
    BY <2>7, <2>8, <2>9, <2>10 DEF OpenInv
<1>9. SleepInv'
  BY <1>2, <1>4 DEF TypeOK, SleepInv, Room, pipe, hist
<1> QED
  BY <1>5, <1>6, <1>7, <1>8, <1>9

\* Where wakeup sends those who sleep.
LEMMA WakeUp ==
  ASSUME TypeOK, NEW place \in {"readSleep", "writeSleep"}
  PROVE  /\ Woken(place) \in [Procs -> Places]
         /\ \A q \in Procs :
              /\ pc[q] # place => Woken(place)[q] = pc[q]
              /\ pc[q] = "readSleep" /\ place = "readSleep" => Woken(place)[q] = "read"
              /\ pc[q] = "writeSleep" /\ place = "writeSleep" => Woken(place)[q] = "write"
<1>1. \A q \in Procs :
        /\ pc[q] # place => Woken(place)[q] = pc[q]
        /\ pc[q] = "readSleep" /\ place = "readSleep" => Woken(place)[q] = "read"
        /\ pc[q] = "writeSleep" /\ place = "writeSleep" => Woken(place)[q] = "write"
  BY DEF Woken
<1>2. ASSUME NEW q \in Procs PROVE Woken(place)[q] \in Places
  BY <1>1 DEF TypeOK, Places
<1>3. Woken(place) = [q \in Procs |-> Woken(place)[q]]
  BY DEF Woken
<1> QED
  BY <1>1, <1>2, <1>3

\* pipeclose: the end is closed, and those who wait at the other end wake.
LEMMA PipeCloseKeeps ==
  ASSUME IInv, NEW p \in Procs, PipeClose(p) PROVE IInv'
<1> USE Sizes DEF IInv
<1>1. PICK e \in Ends : end[p] = e
  BY DEF TypeOK, PipeClose
<1>2. PICK place \in {"readSleep", "writeSleep"} :
        /\ place = IF e = "write" THEN "readSleep" ELSE "writeSleep"
        /\ pc' = [Woken(place) EXCEPT ![p] = NextClose(p, todo[p])]
  BY <1>1 DEF PipeClose, Waiters
<1>3. /\ pc[p] = "pipeclose" /\ lock = NoProc /\ open' = open \ {e}
      /\ memory' = (IF open' = {} THEN "freed" ELSE memory)
      /\ end' = [end EXCEPT ![p] = NoEnd]
      /\ abandoned' = (abandoned /\ e # "write")
      /\ UNCHANGED <<data, nread, nwrite, lock, files, left, todo, exiting, killed, sent, received>>
  BY <1>1 DEF PipeClose
<1>4. \/ pc'[p] = "closing"
      \/ todo[p] = {} /\ pc'[p] \in {"dead", "user"}
  <2>1. pc'[p] = NextClose(p, todo[p])
    <3>1. Woken(place) \in [Procs -> Places]
      BY WakeUp
    <3> QED
      BY <1>2, <3>1
  <2> QED
    BY <2>1 DEF NextClose
<1>5. \A q \in Procs \ {p} :
        \/ pc'[q] = pc[q] /\ pc[q] # place
        \/ pc[q] = "readSleep" /\ place = "readSleep" /\ pc'[q] = "read"
        \/ pc[q] = "writeSleep" /\ place = "writeSleep" /\ pc'[q] = "write"
  BY <1>2, WakeUp
<1>6. /\ \A q \in Procs \ {p} : end'[q] = end[q] /\ end[q] # e
      /\ end'[p] = NoEnd /\ ref[e] = 0
  BY <1>1, <1>3 DEF TypeOK, OpenInv
<1>7. TypeOK'
  <2>1. pc' \in [Procs -> Places]
    <3>1. NextClose(p, todo[p]) \in Places
      BY DEF NextClose, Places
    <3> QED
      BY <1>2, <3>1, WakeUp
  <2>2. \A q \in Procs : /\ pc'[q] \in {"writeWait", "readWait"} <=> lock' = q
                         /\ pc'[q] = "pipeclose" <=> end'[q] # NoEnd
    BY <1>3, <1>4, <1>5, <1>6 DEF TypeOK
  <2>3. end' \in [Procs -> Ends \cup {NoEnd}] /\ open' \subseteq Ends /\ memory' \in {"none", "used", "freed"}
    BY <1>3 DEF TypeOK
  <2>4. abandoned' \in BOOLEAN
    BY <1>3
  <2> QED
    BY <1>3, <2>1, <2>2, <2>3, <2>4 DEF TypeOK, files
<1>8. PlaceInv'
  BY <1>3, <1>4, <1>5 DEF PlaceInv, Writing, Reading, files
<1>9. Counted'
  BY <1>3, SameCount DEF files
<1>10. OpenInv'
  <2>1. ref' = ref
    BY <1>3 DEF files
  <2>2. \A d \in Ends : d \in open' <=> ref'[d] > 0 \/ \E q \in Procs : end'[q] = d
    BY <1>1, <1>3, <1>6, <2>1 DEF OpenInv
  <2>3. /\ \A q \in Procs : end'[q] # NoEnd => ref'[end'[q]] = 0
        /\ \A q, r \in Procs : end'[q] = end'[r] /\ end'[q] # NoEnd => q = r
    BY <1>6, <2>1 DEF OpenInv
  <2>4. memory = "used"
    BY <1>1 DEF OpenInv
  <2>5. memory' = "used" <=> open' # {}
    BY <1>3, <2>4
  <2> QED
    BY <2>2, <2>3, <2>5 DEF OpenInv
<1>11. SleepInv'
  <2>1. ASSUME NEW q \in Procs
        PROVE  /\ pc'[q] = "readSleep" => pc[q] = "readSleep" /\ e # "write"
               /\ pc'[q] = "writeSleep" => pc[q] = "writeSleep" /\ e # "read"
               /\ pc'[q] \notin {"readWait", "writeWait"}
    BY <1>2, <1>3, <1>4, <1>5 DEF TypeOK, Ends
  <2> QED
    BY <1>3, <2>1 DEF SleepInv, Room
<1> QED
  BY <1>7, <1>8, <1>9, <1>10, <1>11

\* pipewrite, up to its return, its giving up, or the test of its sleep.
LEMMA WriteKeeps ==
  ASSUME IInv, NEW p \in Procs, Write(p) PROVE IInv'
<1> USE Sizes DEF IInv
<1>1. PICK n \in Nat :
        /\ n = Min({left[p], Room}) /\ n <= left[p] /\ n <= Room /\ (n < left[p] => n = Room)
        /\ left[p] \in 0 .. MaxCall
  <2>1. left[p] \in 0 .. MaxCall /\ left[p] \in Nat /\ Room \in Nat
    BY Counters DEF TypeOK
  <2>2. Min({left[p], Room}) = IF left[p] <= Room THEN left[p] ELSE Room
    BY <2>1, MinTwo
  <2> QED
    BY <2>1, <2>2
<1>2. /\ pc[p] = "write" /\ lock = NoProc /\ Store(n)
      /\ UNCHANGED <<nread, open, memory, files, todo, end, exiting, killed, received>>
      /\ \/ /\ left' = [left EXCEPT ![p] = 0]
            /\ pc' = [Woken("readSleep") EXCEPT ![p] = "user"]
            /\ abandoned' = FALSE /\ lock' = lock
         \/ /\ n < left[p]
            /\ left' = [left EXCEPT ![p] = 0]
            /\ pc' = [pc EXCEPT ![p] = "user"]
            /\ abandoned' = (abandoned \/ n > 0) /\ lock' = lock
         \/ /\ n < left[p] /\ "read" \in open
            /\ left' = [left EXCEPT ![p] = @ - n]
            /\ pc' = [Woken("readSleep") EXCEPT ![p] = "writeWait"]
            /\ abandoned' = FALSE /\ lock' = p
  BY <1>1 DEF Write, Return, Goto, GivesUp, AbandonsData
<1>3. /\ nwrite' = (nwrite + n) % UintRange /\ sent' = sent + n
      /\ data' = [i \in DOMAIN data |->
           LET here == {k \in 0 .. n - 1 : ((nwrite + k) % UintRange) % PIPESIZE = i}
           IN IF here = {} THEN data[i] ELSE sent + Max(here)]
  BY <1>2 DEF Store
<1>4. Room = 0 => nwrite' = nwrite
  BY <1>1, <1>3, Counters
<1>5. n = Room => Room' = 0
  <2>1. nread \in 0 .. UintRange - 1 /\ nwrite \in 0 .. UintRange - 1
    BY DEF TypeOK
  <2>2. ASSUME n = Room PROVE Room' = 0
    BY ZenonT(60), <1>2, <1>3, <2>1, <2>2, RoomUsed DEF Room
  <2> QED
    BY <2>2
<1>6. \A q \in Procs \ {p} :
        /\ pc'[q] \in {pc[q], "read"} /\ (pc'[q] # pc[q] => pc[q] = "readSleep")
        /\ pc'[q] = "readSleep" => n < left[p] /\ abandoned' = (abandoned \/ n > 0)
  BY <1>2, WakeUp DEF TypeOK
<1>7. \/ pc'[p] = "user" /\ lock' = NoProc
      \/ pc'[p] = "writeWait" /\ lock' = p /\ "read" \in open /\ n = Room
  <2>1. Woken("readSleep") \in [Procs -> Places] /\ pc \in [Procs -> Places]
    BY WakeUp DEF TypeOK
  <2> QED
    BY <1>1, <1>2, <2>1
<1>8. TypeOK'
  <2>1. data' \in [0 .. PIPESIZE - 1 -> Nat]
    <3>1. ASSUME NEW i \in 0 .. PIPESIZE - 1,
                 NEW here, here = {k \in 0 .. n - 1 : ((nwrite + k) % UintRange) % PIPESIZE = i}
          PROVE  (IF here = {} THEN data[i] ELSE sent + Max(here)) \in Nat
      <4>1. here \in SUBSET (0 .. n - 1)
        BY <3>1
      <4>2. here # {} => Max(here) \in here
        BY <4>1, MaxIn
      <4>3. here # {} => Max(here) \in Nat
        <5>1. \A k \in 0 .. n - 1 : k \in Nat
          OBVIOUS
        <5> QED
          BY <4>1, <4>2, <5>1
      <4>4. data[i] \in Nat /\ sent \in Nat
        BY DEF TypeOK
      <4> QED
        BY <4>3, <4>4
    <3>2. DOMAIN data = 0 .. PIPESIZE - 1
      BY DEF TypeOK
    <3> QED
      BY <1>3, <3>1, <3>2
  <2>2. nwrite' \in 0 .. UintRange - 1 /\ sent' \in Nat
    <3>1. nwrite' \in 0 .. UintRange - 1
      BY <1>3, Counters
    <3>2. sent \in Nat
      BY DEF TypeOK
    <3> QED
      BY <1>3, <3>1, <3>2
  <2>3. left' \in [Procs -> 0 .. MaxCall]
    <3>1. 0 \in 0 .. MaxCall /\ left[p] - n \in 0 .. MaxCall
      BY <1>1
    <3>2. left' = [left EXCEPT ![p] = 0] \/ left' = [left EXCEPT ![p] = left[p] - n]
      BY <1>2
    <3> QED
      BY <3>1, <3>2 DEF TypeOK
  <2>4. pc' \in [Procs -> Places]
    <3>1. Woken("readSleep") \in [Procs -> Places] /\ pc \in [Procs -> Places]
      BY WakeUp DEF TypeOK
    <3> QED
      BY <1>2, <3>1 DEF Places
  <2>5. \A q \in Procs : /\ pc'[q] \in {"writeWait", "readWait"} <=> lock' = q
                         /\ pc'[q] = "pipeclose" <=> end'[q] # NoEnd
    <3>1. \A q \in Procs : pc[q] \notin {"writeWait", "readWait"}
      BY <1>2 DEF TypeOK
    <3> QED
      BY <1>2, <1>6, <1>7, <3>1 DEF TypeOK
  <2>6. abandoned' \in BOOLEAN
    BY <1>2
  <2> QED
    BY <1>2, <2>1, <2>2, <2>3, <2>4, <2>5, <2>6 DEF TypeOK, files
<1>9. PlaceInv'
  <2>1. "write" \in fd[p] /\ todo[p] = {}
    BY <1>2 DEF PlaceInv, Writing
  <2> QED
    BY <1>2, <1>6, <1>7, <2>1 DEF PlaceInv, Writing, Reading, files
<1>10. Counted' /\ OpenInv'
  BY <1>2, SameCount, SameEnds DEF files
<1>11. SleepInv'
  <2>1. ASSUME NEW q \in Procs, pc'[q] = "readSleep" PROVE "write" \in open' /\ (nread' = nwrite' \/ abandoned')
    <3>1. q # p /\ pc[q] = "readSleep" /\ n < left[p] /\ abandoned' = (abandoned \/ n > 0)
      BY <1>6, <1>7, <2>1
    <3>2. n = 0 => nwrite' = nwrite
      BY <1>3, Counters
    <3>3. "write" \in open /\ (nread = nwrite \/ abandoned)
      BY <3>1 DEF SleepInv
    <3>4. CASE n = 0
      BY <1>2, <3>1, <3>2, <3>3, <3>4
    <3>5. CASE n # 0
      <4>1. n > 0
        BY <3>5
      <4>2. abandoned'
        BY <3>1, <4>1, Zenon
      <4> QED
        BY <1>2, <3>3, <4>2
    <3> QED
      BY <3>4, <3>5
  <2>2. ASSUME NEW q \in Procs PROVE pc'[q] # "readWait"
    BY <1>2, <1>6, <1>7 DEF TypeOK
  <2>3. ASSUME NEW q \in Procs, pc'[q] \in {"writeWait", "writeSleep"} PROVE "read" \in open' /\ Room' = 0
    <3>1. CASE q = p
      BY <1>2, <1>5, <1>7, <2>3, <3>1
    <3>2. CASE q # p
      <4>1. "read" \in open /\ Room = 0
        BY <1>6, <2>3, <3>2 DEF SleepInv
      <4> QED
        BY <1>2, <1>4, <4>1 DEF Room
    <3> QED
      BY <3>1, <3>2
  <2> QED
    BY <2>1, <2>2, <2>3 DEF SleepInv
<1> QED
  BY <1>8, <1>9, <1>10, <1>11

\* piperead: what is there is taken, and the writers wake.
LEMMA ReadKeeps ==
  ASSUME IInv, NEW p \in Procs, Read(p) PROVE IInv'
<1> USE Sizes DEF IInv
<1>1. PICK n \in Nat : n = Min({left[p], Unread}) /\ n <= Unread
  <2>1. left[p] \in Nat /\ Unread \in Nat
    BY Counters DEF TypeOK
  <2>2. Min({left[p], Unread}) = IF left[p] <= Unread THEN left[p] ELSE Unread
    BY <2>1, MinTwo
  <2> QED
    BY <2>1, <2>2
<1>2. /\ pc[p] = "read" /\ lock = NoProc /\ ~MustWait
      /\ received' = received \o [k \in 1 .. n |-> data[((nread + k - 1) % UintRange) % PIPESIZE]]
      /\ nread' = (nread + n) % UintRange
      /\ pc' = [Woken("writeSleep") EXCEPT ![p] = "user"]
      /\ left' = [left EXCEPT ![p] = 0]
      /\ UNCHANGED <<data, nwrite, open, lock, memory, files, todo, end, exiting, killed, sent, abandoned>>
  BY <1>1 DEF Read, Return
<1>3. \A q \in Procs \ {p} :
        /\ pc'[q] \in {pc[q], "write"} /\ (pc'[q] # pc[q] => pc[q] = "writeSleep")
        /\ pc'[q] # "writeSleep"
  BY <1>2, WakeUp DEF TypeOK
<1>4. pc'[p] = "user"
  BY <1>2, WakeUp
<1>5. \A q \in Procs : pc[q] \notin {"writeWait", "readWait"}
  BY <1>2 DEF TypeOK
<1>6. TypeOK'
  <2>1. received' \in Seq(Nat)
    <3>1. ASSUME NEW k \in 1 .. n PROVE data[((nread + k - 1) % UintRange) % PIPESIZE] \in Nat
      <4>1. k - 1 \in Nat /\ nread + k - 1 = nread + (k - 1)
        BY DEF TypeOK
      <4>2. ((nread + (k - 1)) % UintRange) % PIPESIZE \in 0 .. PIPESIZE - 1
        BY <4>1, Counters
      <4> QED
        BY <4>1, <4>2 DEF TypeOK
    <3>2. [k \in 1 .. n |-> data[((nread + k - 1) % UintRange) % PIPESIZE]] \in Seq(Nat)
      BY <3>1
    <3>3. received \in Seq(Nat)
      BY DEF TypeOK
    <3> QED
      BY <1>2, <3>2, <3>3
  <2>2. nread' \in 0 .. UintRange - 1
    BY <1>1, <1>2, Counters
  <2>3. left' \in [Procs -> 0 .. MaxCall]
    <3>1. 0 \in 0 .. MaxCall
      OBVIOUS
    <3> QED
      BY <1>2, <3>1 DEF TypeOK
  <2>4. pc' \in [Procs -> Places]
    BY <1>2, WakeUp DEF Places
  <2>5. \A q \in Procs : /\ pc'[q] \in {"writeWait", "readWait"} <=> lock' = q
                         /\ pc'[q] = "pipeclose" <=> end'[q] # NoEnd
    BY <1>2, <1>3, <1>4, <1>5 DEF TypeOK
  <2> QED
    BY <1>2, <2>1, <2>2, <2>3, <2>4, <2>5 DEF TypeOK, files
<1>7. PlaceInv'
  <2>1. todo[p] = {}
    BY <1>2 DEF PlaceInv
  <2> QED
    BY <1>2, <1>3, <1>4, <2>1 DEF PlaceInv, Writing, Reading, files
<1>8. Counted' /\ OpenInv'
  BY <1>2, SameCount, SameEnds DEF files
<1>9. SleepInv'
  <2>1. ASSUME NEW q \in Procs, pc'[q] = "readSleep" PROVE "write" \in open' /\ (nread' = nwrite' \/ abandoned')
    <3>1. pc[q] = "readSleep"
      BY <1>3, <1>4, <2>1
    <3>2. "write" \in open /\ (nread = nwrite \/ abandoned)
      BY <3>1 DEF SleepInv
    <3> QED
      BY <1>2, <3>2 DEF MustWait
  <2>2. ASSUME NEW q \in Procs PROVE pc'[q] \notin {"readWait", "writeWait", "writeSleep"}
    BY <1>3, <1>4, <1>5
  <2> QED
    BY <2>1, <2>2 DEF SleepInv
<1> QED
  BY <1>6, <1>7, <1>8, <1>9

\* Every step keeps the invariant.
LEMMA NextKeeps == IInv /\ [Next]_vars => IInv'
<1> SUFFICES ASSUME IInv, [Next]_vars PROVE IInv'
  OBVIOUS
<1>1. CASE UNCHANGED vars
  <2> USE <1>1 DEF vars, pipe, files, calls, hist, IInv
  <2>1. TypeOK' /\ PlaceInv' /\ SleepInv'
    BY DEF TypeOK, PlaceInv, SleepInv, Room
  <2>2. Counted' /\ OpenInv'
    BY SameCount, SameEnds
  <2> QED
    BY <2>1, <2>2
<1>2. ASSUME NEW p \in Procs, InKernel(p) PROVE IInv'
  BY <1>2, WriteKeeps, ReadKeeps, WaitKeeps, FileCloseKeeps, PipeCloseKeeps DEF InKernel
<1>3. ASSUME NEW p \in Procs,
             \/ SysPipe(p) \/ SysPipeNoFd(p)
             \/ \E q \in Procs : Fork(p, q)
             \/ CallWrite(p) \/ CallRead(p) \/ Exit(p) \/ Kill(p)
             \/ \E e \in Ends : Close(p, e)
      PROVE  IInv'
  BY <1>3, SysPipeKeeps, SysPipeNoFdKeeps, ForkKeeps, CallKeeps, CloseKeeps, KillKeeps
<1> QED
  BY <1>1, <1>2, <1>3 DEF Next

-----------------------------------------------------------------------------
(* The theorems.                                                           *)

\* The strengthened invariant holds, for any number of processes, any ring and
\* any width of the counters.
THEOREM PipeInvariant == Spec => []IInv
<1> QED
  BY InitInv, NextKeeps, PTL DEF Spec

\* References are counted and the page is freed once, after its last user.
THEOREM PipeIsSound == Spec => []PipeSound
<1>1. IInv => PipeSound
  BY Outlives DEF IInv, PipeSound
<1> QED
  BY <1>1, PipeInvariant, PTL

\* No wakeup is lost in pipewrite, piperead, pipeclose and kill.
THEOREM PipeSleepersHaveReason == Spec => []SleepersHaveReason
<1>1. IInv => SleepersHaveReason
  BY DEF IInv, SleepInv, SleepersHaveReason
<1> QED
  BY <1>1, PipeInvariant, PTL

-----------------------------------------------------------------------------
(***************************************************************************)
(* The ring of a pipe and its two uint counters, which overflow, implement *)
(* the queue of module Fifo, for any size of the ring that divides the     *)
(* range of the counters.                                                  *)
(***************************************************************************)

\* The counters are the numbers of bytes, modulo the range of a uint; what was
\* taken out are the first bytes, and the others are in their places.
RingInv ==
  /\ Len(received) <= sent /\ sent <= Len(received) + PIPESIZE
  /\ nread = Len(received) % UintRange /\ nwrite = sent % UintRange
  /\ \A i \in 1 .. Len(received) : received[i] = i - 1
  /\ \A k \in Len(received) .. sent - 1 : data[k % PIPESIZE] = k

-----------------------------------------------------------------------------
(* Arithmetic.                                                             *)

\* The place of a byte in the ring is not disturbed by the overflow of a counter.
LEMMA PlaceOfByte ==
  ASSUME NEW x \in Int
  PROVE  (x % UintRange) % PIPESIZE = x % PIPESIZE
<1>1. PICK c \in Int : UintRange = PIPESIZE * c
  <2>1. /\ UintRange \div PIPESIZE \in Int
        /\ UintRange % PIPESIZE = UintRange - PIPESIZE * (UintRange \div PIPESIZE)
    BY Sizes, Remainder
  <2>2. PICK c \in Int : 0 = UintRange - PIPESIZE * c
    BY <2>1, PipeAssumption
  <2>3. UintRange = PIPESIZE * c
    BY <2>2, Sizes
  <2> QED
    BY <2>3
<1>2. /\ UintRange \in Nat /\ UintRange > 0
      /\ PIPESIZE \in Nat /\ PIPESIZE > 0
  BY Sizes
<1> QED
  BY <1>1, <1>2, ModOfMod, Zenon

-----------------------------------------------------------------------------
(* The ring.                                                               *)

\* At most PIPESIZE bytes are on their way: no overflow shows in the differences of the counters.
LEMMA Differences ==
  ASSUME TypeOK, RingInv
  PROVE  /\ Len(received) \in Nat
         /\ Room = Len(received) + PIPESIZE - sent
         /\ Unread = sent - Len(received)
<1>1. PICK L \in Nat : L = Len(received)
  BY DEF TypeOK
<1>2. PICK s \in Nat : s = sent
  BY DEF TypeOK
<1>3. PICK r \in Int, w \in Int : r = nread /\ w = nwrite
  BY DEF TypeOK
<1>4. r = L % UintRange /\ w = s % UintRange
  BY <1>1, <1>2, <1>3 DEF RingInv
<1>5. PICK U \in Nat, P \in Nat : U = UintRange /\ P = PIPESIZE /\ P > 0 /\ U > P
  BY PipeAssumption
<1>6. r = L % U /\ w = s % U
  BY <1>4, <1>5
<1>7. L <= s /\ s <= L + P
  BY <1>1, <1>2, <1>5 DEF RingInv
<1>8. PICK a \in 0 .. U - 1, b \in 0 .. U - 1 : a = L + P - s /\ b = s - L
  BY <1>5, <1>7
<1>9. U > 0 /\ L \in Int /\ s \in Int
  BY <1>5
<1>10. \A x \in Int : \E d \in Int : x % U = x - U * d
  BY <1>9, Remainder
<1>11. PICK d \in Int : r = L - U * d
  BY <1>6, <1>9, <1>10
<1>12. PICK e \in Int : w = s - U * e
  BY <1>6, <1>9, <1>10
<1>13. PICK f \in Int, g \in Int : f = e - d /\ g = d - e
  OBVIOUS
<1>14. U * f = U * e - U * d /\ U * g = U * d - U * e
  BY <1>13
<1>15. r + P - w = a + U * f /\ w - r = b + U * g
  BY <1>8, <1>11, <1>12, <1>14
<1>16. (a + U * f) % U = a /\ (b + U * g) % U = b
  <2>1. a \in Int /\ b \in Int /\ a % U = a /\ b % U = b
    BY <1>9, Remainder
  <2>2. (a + U * f) % U = a % U
    BY <1>9, <2>1, ModShift
  <2>3. (b + U * g) % U = b % U
    BY <1>9, <2>1, ModShift
  <2> QED
    BY <2>1, <2>2, <2>3
<1>17. Room = a
  BY <1>3, <1>5, <1>15, <1>16 DEF Room
<1>18. Unread = b
  BY <1>3, <1>5, <1>15, <1>16 DEF Unread
<1> QED
  BY <1>1, <1>2, <1>5, <1>8, <1>17, <1>18

\* The counter a number of bytes further on.
LEMMA Further ==
  ASSUME NEW x \in Nat, NEW c \in Nat, c = x % UintRange, NEW k \in Nat
  PROVE  /\ (c + k) % UintRange = (x + k) % UintRange
         /\ ((c + k) % UintRange) % PIPESIZE = (x + k) % PIPESIZE
<1>1. /\ UintRange \in Nat /\ UintRange > 0
      /\ c \in Int /\ x \in Int /\ k \in Int /\ x + k \in Int
  BY Sizes
<1>2. (c + k) % UintRange = (x + k) % UintRange
  BY <1>1, ModAdd, Zenon
<1>3. ((x + k) % UintRange) % PIPESIZE = (x + k) % PIPESIZE
  BY <1>1, PlaceOfByte, Zenon
<1> QED
  BY <1>2, <1>3, Zenon

\* Bytes that are stored while there is room overwrite none that is to be read.
LEMMA StoreInRing ==
  ASSUME TypeOK, RingInv, NEW n \in Nat, n <= Room, Store(n), UNCHANGED <<nread, received>>
  PROVE  RingInv' /\ sent' = sent + n
<1>1. PICK L \in Nat, s \in Nat, w \in Nat, P \in Nat :
        /\ L = Len(received) /\ s = sent /\ w = nwrite /\ P = PIPESIZE /\ P > 0
  BY Sizes DEF TypeOK
<1>2. L <= s /\ s + n <= L + P
  BY <1>1, Differences DEF RingInv
<1>3. w = s % UintRange
  BY <1>1 DEF RingInv
<1>4. /\ nwrite' = (w + n) % UintRange /\ sent' = s + n
      /\ data' = [i \in DOMAIN data |->
           LET here == {k \in 0 .. n - 1 : ((w + k) % UintRange) % P = i}
           IN IF here = {} THEN data[i] ELSE s + Max(here)]
  BY <1>1 DEF Store
<1>5. \A k \in Nat : ((w + k) % UintRange) % P = (s + k) % P
  BY <1>1, <1>3, Further
<1>6. ASSUME NEW j \in L .. s + n - 1 PROVE data'[j % P] = j
  <2>1. PICK i : i = j % P
    OBVIOUS
  <2>2. i \in DOMAIN data
    BY <1>1, <2>1, Remainder DEF TypeOK
  <2>3. PICK here : here = {k \in 0 .. n - 1 : ((w + k) % UintRange) % P = i}
    OBVIOUS
  <2>4. data'[i] = IF here = {} THEN data[i] ELSE s + Max(here)
    BY <1>4, <2>2, <2>3
  <2>5. ASSUME NEW k \in here PROVE k \in 0 .. n - 1 /\ s + k = j
    <3>1. k \in 0 .. n - 1 /\ (s + k) % P = j % P
      BY <1>5, <2>1, <2>3
    <3>2. PICK x \in Int : x = s + k
      BY <3>1
    <3>3. x % P = j % P /\ j - x < P /\ x - j < P
      BY <1>2, <3>1, <3>2
    <3>4. P > 0 /\ j \in Int
      BY <1>1
    <3>5. x = j
      BY <3>2, <3>3, <3>4, PlacesDiffer, Zenon
    <3> QED
      BY <3>1, <3>2, <3>5
  <2>6. CASE j < s
    <3>1. here = {}
      BY <2>5, <2>6
    <3>2. data[j % P] = j
      BY <1>1, <2>6 DEF RingInv
    <3> QED
      BY <2>1, <2>4, <3>1, <3>2
  <2>7. CASE j >= s
    <3>1. PICK k \in 0 .. n - 1 : s + k = j
      <4>1. j - s \in 0 .. n - 1 /\ s + (j - s) = j
        BY <2>7
      <4> QED
        BY <4>1
    <3>2. k \in here
      BY <1>5, <2>1, <2>3, <3>1
    <3>3. here \in SUBSET (0 .. n - 1)
      BY <2>3
    <3>4. Max(here) \in here
      BY <3>2, <3>3, MaxIn
    <3>5. Max(here) \in Int /\ s + Max(here) = j
      BY <2>5, <3>4
    <3> QED
      BY <2>1, <2>4, <3>2, <3>5
  <2> QED
    BY <2>6, <2>7
<1>7. nwrite' = sent' % UintRange
  BY <1>3, <1>4, Further
<1>8. received' = received /\ nread' = nread
  OBVIOUS
<1>9. ASSUME NEW k \in Len(received') .. sent' - 1 PROVE data'[k % PIPESIZE] = k
  <2>1. k \in L .. s + n - 1
    BY <1>1, <1>4, <1>8
  <2> QED
    BY <1>1, <1>6, <2>1, Zenon
<1>10. Len(received') <= sent' /\ sent' <= Len(received') + PIPESIZE
  BY <1>1, <1>2, <1>4, <1>8
<1> QED
  BY <1>1, <1>4, <1>7, <1>8, <1>9, <1>10 DEF RingInv

\* What is taken out are the bytes that follow those taken before.
LEMMA TakeFromRing ==
  ASSUME TypeOK, RingInv, NEW n \in Nat, n <= Unread, UNCHANGED <<data, nwrite, sent>>,
         received' = received \o [k \in 1 .. n |-> data[((nread + k - 1) % UintRange) % PIPESIZE]],
         nread' = (nread + n) % UintRange
  PROVE  /\ RingInv'
         /\ received' \in Seq(Nat) /\ Len(received') = Len(received) + n
<1>1. PICK L \in Nat, s \in Nat, r \in Nat, P \in Nat :
        /\ L = Len(received) /\ s = sent /\ r = nread /\ P = PIPESIZE /\ P > 0
  BY Sizes DEF TypeOK
<1>2. L + n <= s /\ s <= L + P
  BY <1>1, Differences DEF RingInv
<1>3. r = L % UintRange
  BY <1>1 DEF RingInv
<1>4. PICK new : new = [k \in 1 .. n |-> data[((r + k - 1) % UintRange) % P]]
  OBVIOUS
<1>5. received' = received \o new
  BY <1>1, <1>4
<1>6. ASSUME NEW k \in 1 .. n PROVE new[k] = L + k - 1 /\ new[k] \in Nat
  <2>1. PICK j \in Nat, z \in Nat : j = k - 1 /\ z = L + j
    OBVIOUS
  <2>2. r + k - 1 = r + j
    BY <2>1
  <2>3. ((r + j) % UintRange) % P = z % P
    <3>1. ((r + j) % UintRange) % PIPESIZE = (L + j) % PIPESIZE
      BY <1>3, Further
    <3> QED
      BY <1>1, <2>1, <3>1, Zenon
  <2>4. z \in L .. s - 1
    BY <1>2, <2>1
  <2>5. data[z % P] = z
    BY <1>1, <2>4 DEF RingInv
  <2>6. new[k] = data[((r + k - 1) % UintRange) % P]
    BY <1>4
  <2>7. new[k] = z
    BY <2>2, <2>3, <2>5, <2>6
  <2> QED
    BY <2>1, <2>7
<1>7. new \in Seq(Nat) /\ Len(new) = n
  <2>1. DOMAIN new = 1 .. n /\ new = [k \in 1 .. n |-> new[k]]
    BY <1>4
  <2>2. new \in [1 .. n -> Nat]
    BY <1>6, <2>1
  <2> QED
    BY <2>2
<1>8. received \in Seq(Nat)
  BY DEF TypeOK
<1>9. /\ received' \in Seq(Nat) /\ Len(received') = L + n
      /\ \A i \in 1 .. L + n : received'[i] = IF i <= L THEN received[i] ELSE new[i - L]
  <2>1. /\ received \o new \in Seq(Nat) /\ Len(received \o new) = Len(received) + Len(new)
        /\ \A i \in 1 .. Len(received) + Len(new) : (received \o new)[i] =
             IF i <= Len(received) THEN received[i] ELSE new[i - Len(received)]
    BY <1>7, <1>8, ConcatProperties, Zenon
  <2> QED
    BY <1>1, <1>5, <1>7, <2>1, Zenon
<1>10. ASSUME NEW i \in 1 .. L + n PROVE received'[i] = i - 1
  <2>1. CASE i <= L
    BY <1>1, <1>9, <2>1 DEF RingInv
  <2>2. CASE i > L
    <3>1. PICK k \in 1 .. n : k = i - L /\ L + k - 1 = i - 1 /\ ~(i <= L)
      BY <2>2
    <3>2. received'[i] = new[k]
      BY <1>9, <3>1, Zenon
    <3> QED
      BY <1>6, <3>1, <3>2, Zenon
  <2>3. i <= L \/ i > L
    OBVIOUS
  <2> QED
    BY <2>1, <2>2, <2>3, Zenon
<1>11. nread' = (L + n) % UintRange
  BY <1>1, <1>3, Further
<1>12. \A k \in L + n .. s - 1 : data[k % P] = k
  BY <1>1 DEF RingInv
<1>13. nwrite = s % UintRange
  BY <1>1 DEF RingInv
<1>14. Len(received') = L + n /\ sent' = s /\ data' = data /\ nwrite' = nwrite /\ PIPESIZE = P
  BY <1>1, <1>9
<1>15. Len(received') <= sent' /\ sent' <= Len(received') + PIPESIZE
  BY <1>2, <1>14
<1>16. nread' = Len(received') % UintRange /\ nwrite' = sent' % UintRange
  BY <1>11, <1>13, <1>14
<1>17. /\ \A i \in 1 .. Len(received') : received'[i] = i - 1
       /\ \A k \in Len(received') .. sent' - 1 : data'[k % PIPESIZE] = k
  BY <1>10, <1>12, <1>14, Zenon
<1> QED
  BY <1>1, <1>9, <1>15, <1>16, <1>17 DEF RingInv

-----------------------------------------------------------------------------
(* The queue.                                                              *)

\* The first n bytes are a prefix of the first m.
LEMMA Prefix ==
  ASSUME NEW n \in Nat, NEW m \in Nat, n <= m, NEW a, NEW b,
         a = [i \in 1 .. n |-> i - 1], b = [i \in 1 .. m |-> i - 1]
  PROVE  /\ a \in Seq(Nat) /\ Len(a) = n
         /\ b \in Seq(Nat) /\ Len(b) = m
         /\ SubSeq(b, 1, n) = a
<1>1. a \in [1 .. n -> Nat] /\ b \in [1 .. m -> Nat]
  OBVIOUS
<1>2. a \in Seq(Nat) /\ Len(a) = n /\ b \in Seq(Nat) /\ Len(b) = m
  BY <1>1
<1>3. \A i \in 1 .. n : b[i] \in Nat /\ b[i] = a[i]
  OBVIOUS
<1>4. PICK c : c = SubSeq(b, 1, n)
  OBVIOUS
<1>5. c \in Seq(Nat) /\ Len(c) = n /\ \A i \in 1 .. n : c[i] = b[i]
  <2>1. /\ c \in Seq(Nat) /\ Len(c) = IF 1 <= n THEN n - 1 + 1 ELSE 0
        /\ \A i \in 1 .. n - 1 + 1 : c[i] = b[1 + i - 1]
    BY <1>3, <1>4, SubSeqProperties
  <2>2. Len(c) = n /\ n - 1 + 1 = n
    BY <2>1
  <2>3. \A i \in 1 .. n : 1 + i - 1 = i
    OBVIOUS
  <2> QED
    BY <2>1, <2>2, <2>3
<1>6. c = a
  BY <1>2, <1>3, <1>5, SeqEqual
<1> QED
  BY <1>2, <1>4, <1>6

\* What was taken out, as a function.
LEMMA Taken ==
  ASSUME received \in Seq(Nat), RingInv
  PROVE  received = [i \in 1 .. Len(received) |-> i - 1]
<1>1. received \in [1 .. Len(received) -> Nat]
  BY LenProperties
<1>2. \A i \in 1 .. Len(received) : received[i] = i - 1
  BY DEF RingInv
<1> QED
  BY <1>1, <1>2

\* An empty ring, an empty queue.
LEMMA InitRing == Init => RingInv /\ F!Init
<1> SUFFICES ASSUME Init PROVE RingInv /\ F!Init
  OBVIOUS
<1>1. received = <<>> /\ Len(received) = 0 /\ sent = 0 /\ nread = 0 /\ nwrite = 0
  BY DEF Init
<1>2. 0 % UintRange = 0
  BY Sizes, Remainder
<1>3. RingInv
  BY <1>1, <1>2, Sizes DEF RingInv
<1>4. [i \in 1 .. sent |-> i - 1] = <<>>
  BY <1>1
<1> QED
  BY <1>1, <1>3, <1>4 DEF F!Init

\* pipewrite puts bytes into the queue.
LEMMA WritePuts ==
  ASSUME IInv, RingInv, NEW p \in Procs, Write(p)
  PROVE  RingInv' /\ F!Put
<1>1. PICK n \in Nat : n <= Room /\ Store(n) /\ UNCHANGED <<nread, received>>
  <2>1. left[p] \in Nat /\ Room \in Nat
    BY Counters DEF IInv, TypeOK
  <2>2. Min({left[p], Room}) = IF left[p] <= Room THEN left[p] ELSE Room
    BY <2>1, MinTwo
  <2>3. Store(Min({left[p], Room})) /\ UNCHANGED <<nread, received>>
    BY DEF Write
  <2> QED
    BY <2>1, <2>2, <2>3
<1>2. RingInv' /\ sent' = sent + n /\ sent \in Nat
  BY <1>1, StoreInRing DEF IInv, TypeOK
<1>3. PICK s \in Nat, t \in Nat : s = sent /\ t = sent' /\ s <= t
  BY <1>2
<1>4. PICK a, b : a = [i \in 1 .. s |-> i - 1] /\ b = [i \in 1 .. t |-> i - 1]
  OBVIOUS
<1>5. Len(a) = s /\ Len(b) = t /\ SubSeq(b, 1, s) = a
  BY <1>3, <1>4, Prefix
<1>6. t <= Len(received) + PIPESIZE
  BY <1>1, <1>2, <1>3 DEF RingInv
<1> QED
  BY <1>1, <1>2, <1>3, <1>4, <1>5, <1>6 DEF F!Put

\* piperead gets the bytes that are due.
LEMMA ReadGets ==
  ASSUME IInv, RingInv, NEW p \in Procs, Read(p)
  PROVE  RingInv' /\ [F!Get]_(F!fvars)
<1>1. PICK n \in Nat :
        /\ n <= Unread /\ UNCHANGED <<data, nwrite, sent>>
        /\ received' = received \o [k \in 1 .. n |-> data[((nread + k - 1) % UintRange) % PIPESIZE]]
        /\ nread' = (nread + n) % UintRange
  <2>1. left[p] \in Nat /\ Unread \in Nat
    BY Counters DEF IInv, TypeOK
  <2>2. Min({left[p], Unread}) = IF left[p] <= Unread THEN left[p] ELSE Unread
    BY <2>1, MinTwo
  <2>3. PICK n : n = Min({left[p], Unread})
    OBVIOUS
  <2>4. /\ UNCHANGED <<data, nwrite, sent>>
        /\ received' = received \o [k \in 1 .. n |-> data[((nread + k - 1) % UintRange) % PIPESIZE]]
        /\ nread' = (nread + n) % UintRange
    BY <2>3 DEF Read
  <2>5. n \in Nat /\ n <= Unread
    BY <2>1, <2>2, <2>3
  <2> QED
    BY <2>4, <2>5, Zenon
<1>2. RingInv' /\ received' \in Seq(Nat) /\ Len(received') = Len(received) + n
  BY <1>1, TakeFromRing DEF IInv
<1>3. PICK L \in Nat, m \in Nat, s \in Nat :
        L = Len(received) /\ m = Len(received') /\ s = sent /\ m = L + n
  BY <1>2 DEF IInv, TypeOK
<1>4. m <= s
  BY <1>1, <1>2, <1>3 DEF RingInv
<1>5. received' = [i \in 1 .. m |-> i - 1]
  <2>1. received' \in [1 .. m -> Nat]
    BY <1>2, <1>3, LenProperties
  <2>2. \A i \in 1 .. m : received'[i] = i - 1
    BY <1>2, <1>3 DEF RingInv
  <2> QED
    BY <2>1, <2>2
<1>6. PICK a : a = [i \in 1 .. s |-> i - 1]
  OBVIOUS
<1>7. Len(a) = s /\ SubSeq(a, 1, m) = received'
  BY <1>4, <1>5, <1>6, Prefix
<1>8. CASE n > 0
  <2>1. m \in L + 1 .. s
    BY <1>3, <1>4, <1>8
  <2>2. F!Get
    BY <1>1, <1>3, <1>6, <1>7, <2>1 DEF F!Get
  <2> QED
    BY <1>2, <2>2
<1>9. CASE n = 0
  <2>1. received = [i \in 1 .. L |-> i - 1]
    BY <1>3, Taken DEF IInv, TypeOK
  <2>2. received' = received
    BY <1>3, <1>5, <1>9, <2>1
  <2> QED
    BY <1>1, <1>2, <2>2 DEF F!fvars
<1> QED
  BY <1>8, <1>9

\* The other steps leave the ring alone.
LEMMA OthersStutter ==
  ASSUME RingInv, UNCHANGED <<data, nread, nwrite, sent, received>>
  PROVE  RingInv' /\ UNCHANGED F!fvars
BY DEF RingInv, F!fvars

\* Every step keeps the ring in order and is a step of the queue.
LEMMA NextRing == IInv /\ RingInv /\ [Next]_vars => RingInv' /\ [F!Put \/ F!Get]_(F!fvars)
<1> SUFFICES ASSUME IInv, RingInv, [Next]_vars PROVE RingInv' /\ [F!Put \/ F!Get]_(F!fvars)
  OBVIOUS
<1>1. ASSUME UNCHANGED <<data, nread, nwrite, sent, received>>
      PROVE  RingInv' /\ [F!Put \/ F!Get]_(F!fvars)
  BY <1>1, OthersStutter
<1>2. CASE UNCHANGED vars
  BY <1>1, <1>2 DEF vars, pipe, hist
<1>3. ASSUME NEW p \in Procs, Write(p) \/ Read(p) PROVE RingInv' /\ [F!Put \/ F!Get]_(F!fvars)
  BY <1>3, WritePuts, ReadGets
<1>4. ASSUME NEW p \in Procs,
             WriteSleep(p) \/ ReadKilled(p) \/ ReadWait(p) \/ ReadSleep(p) \/ FileClose(p) \/ PipeClose(p)
      PROVE  RingInv' /\ [F!Put \/ F!Get]_(F!fvars)
  BY <1>1, <1>4 DEF WriteSleep, ReadKilled, ReadWait, ReadSleep, FileClose, PipeClose, pipe, hist
<1>5. ASSUME NEW p \in Procs,
             \/ SysPipe(p) \/ SysPipeNoFd(p)
             \/ \E q \in Procs : Fork(p, q)
             \/ CallWrite(p) \/ CallRead(p) \/ Exit(p) \/ Kill(p)
             \/ \E e \in Ends : Close(p, e)
      PROVE  RingInv' /\ [F!Put \/ F!Get]_(F!fvars)
  BY <1>1, <1>5 DEF SysPipe, SysPipeNoFd, MakePipe, Fork, CallWrite, CallRead, Exit, Kill, Close, pipe, hist
<1> QED
  BY <1>2, <1>3, <1>4, <1>5 DEF Next, InKernel

-----------------------------------------------------------------------------
(* The theorem.                                                            *)

\* Bytes come out of a pipe in the order they went in, none is lost, repeated
\* or overwritten, and the overflow of the counters changes nothing: a pipe
\* implements the queue of module Fifo.
THEOREM PipeIsFifo == Spec => ImplementsFifo
<1>1. Spec => []RingInv
  BY InitRing, NextRing, PipeInvariant, PTL DEF Spec
<1> QED
  BY <1>1, InitRing, NextRing, PipeInvariant, PTL DEF Spec, ImplementsFifo, F!Spec
=============================================================================
