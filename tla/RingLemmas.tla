------------------------------ MODULE RingLemmas ------------------------------
(***************************************************************************)
(* Facts about the operators of CircularBuffer that hold for every ring of *)
(* every size N.  Induction over numbers is used in the form of the least- *)
(* number principle: a counterexample would have a smallest one.           *)
(***************************************************************************)
EXTENDS CircularBuffer, SequenceTheorems, WellFoundedInduction, TLAPS

(* A non-empty set of naturals has a smallest element.                     *)
LEMMA SmallestNumber ==
    ASSUME NEW S, S \subseteq Nat, S # {}
    PROVE  \E m \in S : \A k \in S : m <= k
<1> DEFINE R == {ss \in Nat \X Nat : ss[1] < ss[2]}
<1>1. IsWellFoundedOn(R, Nat)
  BY NatLessThanWellFounded DEF OpToRel
<1>2. PICK m \in S : \A k \in S : <<k, m>> \notin R
  <2> HIDE DEF R
  <2> QED BY <1>1, WFMin
<1>3. ASSUME NEW k \in S PROVE m <= k
  <2>1. <<k, m>> \notin {ss \in Nat \X Nat : ss[1] < ss[2]} BY <1>2
  <2> QED BY <2>1
<1> QED BY <1>3

(* Min returns the smallest element.                                       *)
LEMMA MinIsSmallest ==
    ASSUME NEW S, S \subseteq Nat, S # {}
    PROVE  Min(S) \in S /\ \A k \in S : Min(S) <= k
BY SmallestNumber DEF Min

-------------------------------------------------------------------------------
(***************************************************************************)
(* The recursive definition of RunningSum has a solution: a shortest       *)
(* prefix without one would extend the solution of the prefix before it.   *)
(***************************************************************************)
LEMMA RunningSumExists ==
    ASSUME NEW d \in [Slot -> Int]
    PROVE  \E f \in [0 .. N -> Int] :
               f[0] = 0 /\ \A i \in 1 .. N : f[i] = f[i - 1] + d[i - 1]
<1> DEFINE IsSum(f, n) == f[0] = 0 /\ \A i \in 1 .. n : f[i] = f[i - 1] + d[i - 1]
           Bad == {n \in 0 .. N : ~ \E f \in [0 .. n -> Int] : IsSum(f, n)}
<1>1. Bad = {}
  <2> SUFFICES ASSUME Bad # {} PROVE FALSE OBVIOUS
  <2>1. Bad \subseteq Nat BY NAssumption
  <2>2. PICK m \in Bad : \A k \in Bad : m <= k
    <3> HIDE DEF Bad
    <3> QED BY <2>1, SmallestNumber
  <2>3. m # 0
    <3> DEFINE z == [i \in 0 .. 0 |-> 0]
    <3>1. z \in [0 .. 0 -> Int] /\ IsSum(z, 0) OBVIOUS
    <3> QED BY <3>1
  <2>4. m - 1 \in 0 .. N /\ m - 1 \notin Bad
    <3>1. m \in 0 .. N OBVIOUS
    <3>2. m - 1 \in 0 .. N BY <3>1, <2>3, NAssumption
    <3>3. m - 1 \notin Bad
      <4> HIDE DEF Bad
      <4> QED BY <2>2, <3>1
    <3> QED BY <3>2, <3>3
  <2>5. PICK f \in [0 .. m - 1 -> Int] : IsSum(f, m - 1) BY <2>4
  <2> DEFINE g == [i \in 0 .. m |-> IF i = m THEN f[m - 1] + d[m - 1] ELSE f[i]]
  <2>6. m - 1 \in Slot /\ d[m - 1] \in Int BY <2>3, NAssumption DEF Slot
  <2>7. g \in [0 .. m -> Int] BY <2>5, <2>6, <2>3
  <2>8. g[0] = 0 BY <2>5, <2>3
  <2>9. ASSUME NEW i \in 1 .. m PROVE g[i] = g[i - 1] + d[i - 1]
    <3>1. CASE i = m BY <3>1, <2>3
    <3>2. CASE i # m BY <3>2, <2>5
    <3> QED BY <3>1, <3>2
  <2> QED BY <2>7, <2>8, <2>9
<1>2. N \in 0 .. N /\ N \notin Bad BY <1>1, NAssumption
<1> QED BY <1>2

(* The values of RunningSum: integers that satisfy the recursion.          *)
LEMMA RunningSumValues ==
    ASSUME NEW d \in [Slot -> Int]
    PROVE  /\ RunningSum(d)[0] = 0
           /\ \A i \in 1 .. N : RunningSum(d)[i] = RunningSum(d)[i - 1] + d[i - 1]
           /\ \A i \in 0 .. N : RunningSum(d)[i] \in Int
<1> DEFINE Body(f) == [i \in 0 .. N |-> IF i = 0 THEN 0 ELSE f[i - 1] + d[i - 1]]
           s == RunningSum(d)
<1>1. PICK f \in [0 .. N -> Int] :
          f[0] = 0 /\ \A i \in 1 .. N : f[i] = f[i - 1] + d[i - 1]
  BY RunningSumExists
<1>2. f = Body(f)
  <2>1. \A i \in 0 .. N : f[i] = Body(f)[i] BY <1>1, NAssumption
  <2> QED BY <2>1
<1>3. s = Body(s)
  <2>1. s = CHOOSE g : g = Body(g) BY DEF RunningSum
  <2> QED BY <1>2, <2>1
<1>4. s[0] = 0 /\ \A i \in 1 .. N : s[i] = s[i - 1] + d[i - 1]
  <2> HIDE DEF s
  <2> QED BY <1>3, NAssumption
<1> DEFINE Bad == {i \in 0 .. N : s[i] \notin Int}
<1>5. Bad = {}
  <2> HIDE DEF s
  <2> SUFFICES ASSUME Bad # {} PROVE FALSE OBVIOUS
  <2>1. Bad \subseteq Nat BY NAssumption
  <2>2. PICK m \in Bad : \A k \in Bad : m <= k
    <3> HIDE DEF Bad
    <3> QED BY <2>1, SmallestNumber
  <2>3. m \in 0 .. N /\ m # 0 BY <1>4
  <2>4. m - 1 \in 0 .. N /\ m - 1 \notin Bad
    <3> HIDE DEF Bad
    <3> QED BY <2>2, <2>3, NAssumption
  <2>5. s[m - 1] \in Int /\ d[m - 1] \in Int BY <2>3, <2>4, NAssumption DEF Slot
  <2> QED BY <1>4, <2>3, <2>5, NAssumption
<1>6. \A i \in 0 .. N : s[i] \in Int
  <2> HIDE DEF s
  <2> QED BY <1>5
<1> HIDE DEF s
<1> QED BY <1>4, <1>6 DEF s

-------------------------------------------------------------------------------
(* Advancing an index stays in the ring and wraps at its end.              *)
LEMMA AdvanceWraps ==
    ASSUME NEW i \in Slot
    PROVE  /\ Advance(i) = IF i = N - 1 THEN 0 ELSE i + 1
           /\ Advance(i) \in Slot
<1>1. N \in Nat /\ N > 0 /\ i \in 0 .. N - 1 BY NAssumption DEF Slot
<1>2. CASE i = N - 1
  <2>1. i + 1 = N BY <1>1, <1>2
  <2>2. N % N = 0 BY <1>1
  <2> QED BY <1>1, <2>1, <2>2, <1>2 DEF Advance, Slot
<1>3. CASE i # N - 1
  <2>1. i + 1 \in Nat /\ i + 1 < N BY <1>1, <1>3
  <2>2. (i + 1) % N = i + 1 BY <1>1, <2>1
  <2> QED BY <1>1, <2>1, <2>2, <1>3 DEF Advance, Slot
<1> QED BY <1>2, <1>3

(* The slot of the i-th entry counted from the oldest.                     *)
LEMMA SlotAtWraps ==
    ASSUME NEW b, b.out_offs \in Slot, NEW i \in Slot
    PROVE  /\ SlotAt(b, i) = IF b.out_offs + i < N THEN b.out_offs + i ELSE b.out_offs + i - N
           /\ SlotAt(b, i) \in Slot
<1> DEFINE o == b.out_offs
<1>1. N \in Nat /\ N > 0 /\ i \in 0 .. N - 1 /\ o \in 0 .. N - 1
  BY NAssumption DEF Slot
<1> HIDE DEF o
<1>2. CASE o + i < N
  <2>1. (o + i) % N = o + i BY <1>1, <1>2
  <2> QED BY <1>1, <1>2, <2>1 DEF SlotAt, Slot, o
<1>3. CASE ~(o + i < N)
  <2>1. (o + i) % N = o + i - N
    <3>1. o + i - N \in 0 .. N - 1 BY <1>1, <1>3
    <3> QED BY <3>1, <1>1
  <2> QED BY <1>1, <1>3, <2>1 DEF SlotAt, Slot, o
<1> QED BY <1>2, <1>3

(* Remainders of the numbers one turn around the ring can reach.           *)
LEMMA SmallRemainders ==
    ASSUME NEW x \in Int, NEW m \in Int, 0 <= m, m < N, x = m \/ x = m - N
    PROVE  x % N = m
<1>1. N \in Nat /\ N > 0 BY NAssumption
<1>2. CASE x = m - N /\ x < 0 /\ 0 <= x + N
  <2>1. x % N = x + N BY <1>1, <1>2
  <2> QED BY <1>1, <1>2, <2>1
<1>3. CASE x >= 0 BY <1>1, <1>3
<1> QED BY <1>1, <1>2, <1>3

(* aesd_circular_buffer_add_entry yields a ring of the reachable shape.    *)
LEMMA AddEntryShape ==
    ASSUME NEW b \in Ring, RingInv(b), NEW e \in Seq(Byte)
    PROVE  AddEntry(b, e) \in Ring /\ RingInv(AddEntry(b, e))
<1> DEFINE c == AddEntry(b, e)
<1>1. /\ b.in_offs \in Slot /\ b.out_offs \in Slot /\ b.full \in BOOLEAN
      /\ b.entry \in [Slot -> Seq(Byte)]
  BY DEF Ring
<1>2. Advance(b.in_offs) \in Slot /\ Advance(b.out_offs) \in Slot
  BY <1>1, AdvanceWraps
<1>3. /\ c.in_offs = Advance(b.in_offs)
      /\ c.out_offs = IF b.full THEN Advance(b.out_offs) ELSE b.out_offs
      /\ c.entry = [b.entry EXCEPT ![b.in_offs] = e]
      /\ c.full <=> b.full \/ c.in_offs = c.out_offs
  BY DEF AddEntry
<1>4. c \in Ring
  BY <1>1, <1>2 DEF AddEntry, Ring
<1>5. RingInv(c)
  <2> HIDE DEF c
  <2>1. CASE b.full
    BY <1>3, <2>1 DEF RingInv
  <2>2. CASE ~b.full /\ b.in_offs = N - 1
    <3>1. c.in_offs = 0 BY <1>1, <1>3, <2>2, AdvanceWraps
    <3> QED BY <1>3, <2>2, <3>1 DEF RingInv
  <2>3. CASE ~b.full /\ b.in_offs # N - 1
    <3>1. c.in_offs = b.in_offs + 1 BY <1>1, <1>3, <2>3, AdvanceWraps
    <3>2. c.out_offs = 0 /\ ~c.full
      BY <1>1, <1>3, <2>3, <3>1 DEF RingInv, Slot
    <3>3. ASSUME NEW s \in c.in_offs .. N - 1 PROVE c.entry[s] = <<>>
      <4>1. s \in b.in_offs .. N - 1 /\ s # b.in_offs /\ s \in Slot
        BY <1>1, <3>1, NAssumption DEF Slot
      <4> QED BY <1>1, <1>3, <2>3, <4>1 DEF RingInv
    <3> QED BY <3>2, <3>3 DEF RingInv
  <2> QED BY <1>1, <2>1, <2>2, <2>3
<1> QED BY <1>4, <1>5

(* The contents of a ring are a sequence of Count(b) entries.              *)
LEMMA ContentsIsSeq ==
    ASSUME NEW b \in Ring, RingInv(b)
    PROVE  /\ Count(b) \in 0 .. N
           /\ Contents(b) \in Seq(Seq(Byte))
           /\ Len(Contents(b)) = Count(b)
           /\ \A i \in 1 .. Count(b) : i - 1 \in Slot /\ SlotAt(b, i - 1) \in Slot
<1>1. b.in_offs \in Slot /\ b.out_offs \in Slot /\ b.entry \in [Slot -> Seq(Byte)]
  BY DEF Ring
<1>2. Count(b) \in 0 .. N BY <1>1, NAssumption DEF Count, Slot
<1>3. \A i \in 1 .. Count(b) : i - 1 \in Slot BY <1>2, NAssumption DEF Slot
<1>4. \A i \in 1 .. Count(b) : SlotAt(b, i - 1) \in Slot BY <1>1, <1>3, SlotAtWraps
<1>5. \A i \in 1 .. Count(b) : b.entry[SlotAt(b, i - 1)] \in Seq(Byte) BY <1>1, <1>4
<1>6. Count(b) \in Nat BY <1>2, NAssumption
<1>7. Contents(b) \in [1 .. Count(b) -> Seq(Byte)] BY <1>5 DEF Contents
<1> QED BY <1>2, <1>3, <1>4, <1>6, <1>7

(***************************************************************************)
(* What add_entry does to the contents: the new command goes to the end    *)
(* and, in a full ring, the oldest one is dropped.                         *)
(***************************************************************************)
LEMMA ContentsAfterAdd ==
    ASSUME NEW b \in Ring, RingInv(b), NEW e \in Seq(Byte)
    PROVE  Contents(AddEntry(b, e)) = Push(Contents(b), e)
<1> DEFINE c == AddEntry(b, e)
           k == b.in_offs
<1>1. k \in Slot /\ b.out_offs \in Slot /\ b.entry \in [Slot -> Seq(Byte)] /\ b.full \in BOOLEAN
  BY DEF Ring
<1>2. c \in Ring /\ RingInv(c) BY AddEntryShape
<1>3. /\ c.in_offs = Advance(k)
      /\ c.out_offs = IF b.full THEN Advance(b.out_offs) ELSE b.out_offs
      /\ c.entry = [b.entry EXCEPT ![k] = e]
      /\ c.full <=> b.full \/ c.in_offs = c.out_offs
  BY DEF AddEntry
<1>4. N \in Nat /\ N > 0 /\ k \in 0 .. N - 1 BY <1>1, NAssumption DEF Slot
<1> HIDE DEF c, k
<1>5. /\ Contents(b) \in Seq(Seq(Byte)) /\ Len(Contents(b)) = Count(b)
      /\ Contents(c) \in Seq(Seq(Byte)) /\ Len(Contents(c)) = Count(c)
  BY <1>2, ContentsIsSeq
<1>6. /\ \A i \in 1 .. Count(b) : Contents(b)[i] = b.entry[SlotAt(b, i - 1)]
      /\ \A i \in 1 .. Count(c) : Contents(c)[i] = c.entry[SlotAt(c, i - 1)]
  BY DEF Contents
<1>7. CASE ~b.full
  <2>1. b.out_offs = 0 /\ c.out_offs = 0 /\ Count(b) = k
    BY <1>3, <1>7 DEF RingInv, Count, k
  <2>2. Count(c) = k + 1
    <3>1. Advance(k) = IF k = N - 1 THEN 0 ELSE k + 1 BY <1>1, AdvanceWraps
    <3>2. CASE k = N - 1
      <4>1. c.full BY <1>3, <2>1, <3>1, <3>2
      <4> QED BY <1>4, <3>2, <4>1 DEF Count
    <3>3. CASE k # N - 1
      <4>1. c.in_offs = k + 1 BY <1>3, <3>1, <3>3
      <4>2. ~c.full BY <1>3, <1>4, <1>7, <2>1, <4>1
      <4> QED BY <4>1, <4>2 DEF Count
    <3> QED BY <3>2, <3>3
  <2>3. ASSUME NEW i \in 1 .. k + 1
        PROVE  SlotAt(c, i - 1) = i - 1 /\ (i <= k => SlotAt(b, i - 1) = i - 1)
    <3>1. i - 1 \in Slot BY <1>4 DEF Slot
    <3> QED BY <1>4, <2>1, <3>1, SlotAtWraps DEF Slot
  <2>4. ASSUME NEW i \in 1 .. k + 1
        PROVE  Contents(c)[i] = IF i <= k THEN Contents(b)[i] ELSE e
    <3>1. CASE i <= k
      <4>1. i - 1 \in Slot /\ i - 1 # k BY <1>4, <3>1 DEF Slot
      <4>2. Contents(c)[i] = c.entry[i - 1] BY <1>6, <2>2, <2>3
      <4>3. i \in 1 .. Count(b) BY <1>4, <2>1, <3>1
      <4>4. Contents(b)[i] = b.entry[i - 1] BY <1>6, <2>3, <3>1, <4>3
      <4>5. c.entry[i - 1] = b.entry[i - 1] BY <1>1, <1>3, <4>1
      <4> QED BY <3>1, <4>2, <4>4, <4>5
    <3>2. CASE i = k + 1
      <4>1. i - 1 = k /\ SlotAt(c, i - 1) = k BY <1>4, <2>3, <3>2
      <4>3. Contents(c)[i] = c.entry[k] BY <1>6, <2>2, <4>1
      <4>2. c.entry[k] = e BY <1>1, <1>3
      <4> QED BY <1>4, <3>2, <4>2, <4>3
    <3> QED BY <1>4, <3>1, <3>2
  <2>5. Contents(c) = Append(Contents(b), e)
    BY <1>4, <1>5, <2>1, <2>2, <2>4
  <2> QED BY <1>4, <1>5, <2>1, <2>5 DEF Push, c
<1>8. CASE b.full
  <2>1. b.out_offs = k /\ c.out_offs = Advance(k) /\ Count(b) = N /\ Count(c) = N
    BY <1>3, <1>8 DEF RingInv, Count, k
  <2>2. ASSUME NEW i \in 1 .. N - 1
        PROVE  SlotAt(c, i - 1) = SlotAt(b, i) /\ SlotAt(b, i) \in Slot /\ SlotAt(b, i) # k
    <3>1. i - 1 \in Slot /\ i \in Slot BY <1>4 DEF Slot
    <3>2. Advance(k) \in Slot /\ Advance(k) = IF k = N - 1 THEN 0 ELSE k + 1
      BY <1>1, AdvanceWraps
    <3>3. SlotAt(c, i - 1) = IF Advance(k) + (i - 1) < N THEN Advance(k) + (i - 1)
                             ELSE Advance(k) + (i - 1) - N
      BY <2>1, <3>1, <3>2, SlotAtWraps
    <3>4. SlotAt(b, i) = (IF k + i < N THEN k + i ELSE k + i - N) /\ SlotAt(b, i) \in Slot
      BY <1>1, <2>1, <3>1, SlotAtWraps
    <3> QED BY <1>4, <3>2, <3>3, <3>4
  <2>3. SlotAt(c, N - 1) = k
    <3>1. N - 1 \in Slot BY <1>4 DEF Slot
    <3>2. Advance(k) \in Slot /\ Advance(k) = IF k = N - 1 THEN 0 ELSE k + 1
      BY <1>1, AdvanceWraps
    <3>3. SlotAt(c, N - 1) = IF Advance(k) + (N - 1) < N THEN Advance(k) + (N - 1)
                             ELSE Advance(k) + (N - 1) - N
      BY <2>1, <3>1, <3>2, SlotAtWraps
    <3> QED BY <1>4, <3>2, <3>3
  <2>4. ASSUME NEW i \in 1 .. N
        PROVE  Contents(c)[i] = IF i < N THEN Contents(b)[i + 1] ELSE e
    <3>1. CASE i < N
      <4>1. i \in 1 .. N - 1 /\ i + 1 \in 1 .. N /\ (i + 1) - 1 = i BY <1>4, <3>1
      <4>2. Contents(c)[i] = c.entry[SlotAt(b, i)] BY <1>6, <2>1, <2>2, <4>1
      <4>3. Contents(b)[i + 1] = b.entry[SlotAt(b, i)] BY <1>6, <2>1, <4>1
      <4> QED BY <1>1, <1>3, <2>2, <3>1, <4>1, <4>2, <4>3
    <3>2. CASE i = N
      BY <1>1, <1>3, <1>6, <2>1, <2>3, <3>2
    <3> QED BY <1>4, <3>1, <3>2
  <2>5. /\ Tail(Contents(b)) \in Seq(Seq(Byte)) /\ Len(Tail(Contents(b))) = N - 1
        /\ \A i \in 1 .. N - 1 : Tail(Contents(b))[i] = Contents(b)[i + 1]
    BY <1>4, <1>5, <2>1, HeadTailProperties
  <2>6. Contents(c) = Append(Tail(Contents(b)), e)
    BY <1>4, <1>5, <2>1, <2>4, <2>5
  <2> QED BY <1>4, <1>5, <2>1, <2>6 DEF Push, c
<1> QED BY <1>1, <1>7, <1>8

-------------------------------------------------------------------------------
(* A running sum of sizes is a size.                                       *)
LEMMA SizesAddUp ==
    ASSUME NEW d \in [Slot -> Nat]
    PROVE  \A i \in 0 .. N : RunningSum(d)[i] \in Nat
<1> DEFINE s == RunningSum(d)
           Bad == {i \in 0 .. N : s[i] \notin Nat}
<1>1. s[0] = 0 /\ \A i \in 1 .. N : s[i] = s[i - 1] + d[i - 1]
  <2>1. d \in [Slot -> Int] OBVIOUS
  <2> QED BY <2>1, RunningSumValues
<1> HIDE DEF s
<1>2. Bad = {}
  <2> SUFFICES ASSUME Bad # {} PROVE FALSE OBVIOUS
  <2>1. Bad \subseteq Nat BY NAssumption
  <2>2. PICK m \in Bad : \A k \in Bad : m <= k
    <3> HIDE DEF Bad
    <3> QED BY <2>1, SmallestNumber
  <2>3. m \in 0 .. N /\ m # 0 BY <1>1
  <2>4. m - 1 \in 0 .. N /\ m - 1 \notin Bad
    <3> HIDE DEF Bad
    <3> QED BY <2>2, <2>3, NAssumption
  <2>5. s[m - 1] \in Nat /\ d[m - 1] \in Nat BY <2>3, <2>4, NAssumption DEF Slot
  <2> QED BY <1>1, <2>3, <2>5, NAssumption
<1> QED BY <1>2 DEF s

(***************************************************************************)
(* aesd_circular_buffer_find_entry_offset_for_fpos never returns an offset *)
(* outside the entry it returns: the crawl passes an entry only when what  *)
(* is left of the position is at least its size, so what is left stays     *)
(* non-negative up to the entry that ends the crawl.                       *)
(***************************************************************************)
LEMMA FoundInsideEntry ==
    ASSUME NEW b \in Ring, NEW pos \in Nat
    PROVE  LET f == FindEntryOffset(b, pos)
           IN  f = NotFound \/ (f.slot \in Slot /\ f.byte \in 0 .. Len(b.entry[f.slot]) - 1)
<1> DEFINE R == Returns(b, pos)
           i == Min(R)
           size == SizeInOrder(b)
           left(k) == CharDifference(b, pos, k)
<1>1. b.out_offs \in Slot /\ b.entry \in [Slot -> Seq(Byte)] BY DEF Ring
<1>2. size \in [Slot -> Nat] BY <1>1, SlotAtWraps DEF SizeInOrder
<1>3. /\ left(0) = pos
      /\ \A k \in 1 .. N : left(k) = left(k - 1) - size[k - 1]
      /\ \A k \in 0 .. N : left(k) \in Int
  <2>1. size \in [Slot -> Int] BY <1>2
  <2>2. /\ RunningSum(size)[0] = 0
        /\ \A k \in 1 .. N : RunningSum(size)[k] = RunningSum(size)[k - 1] + size[k - 1]
        /\ \A k \in 0 .. N : RunningSum(size)[k] \in Int
    BY <2>1, RunningSumValues
  <2> HIDE DEF size
  <2>3. \A k \in 0 .. N : left(k) = pos - RunningSum(size)[k] BY DEF CharDifference, size
  <2>4. \A k \in 1 .. N : size[k - 1] \in Nat BY <1>2, NAssumption DEF Slot
  <2> QED BY <2>2, <2>3, <2>4, NAssumption
<1> SUFFICES ASSUME FindEntryOffset(b, pos) # NotFound
             PROVE  /\ FindEntryOffset(b, pos).slot \in Slot
                    /\ FindEntryOffset(b, pos).byte
                         \in 0 .. Len(b.entry[FindEntryOffset(b, pos).slot]) - 1
  OBVIOUS
<1>4. R # {} /\ ~AtInput(b, i) /\ FindEntryOffset(b, pos) = [slot |-> SlotAt(b, i), byte |-> left(i)]
  BY DEF FindEntryOffset
<1>5. R \subseteq Slot BY DEF Returns
<1>6. i \in R /\ \A k \in R : i <= k
  <2>1. R \subseteq Nat BY <1>5, NAssumption DEF Slot
  <2> QED BY <1>4, <2>1, MinIsSmallest
<1>7. i \in Slot /\ left(i) < size[i] BY <1>4, <1>5, <1>6 DEF Returns
<1>8. SlotAt(b, i) \in Slot /\ size[i] = Len(b.entry[SlotAt(b, i)])
  BY <1>1, <1>7, SlotAtWraps DEF SizeInOrder
<1>9. left(i) >= 0
  <2>1. CASE i = 0 BY <1>3, <2>1
  <2>2. CASE i # 0
    <3>1. i \in 1 .. N /\ i - 1 \in Slot /\ i - 1 \in 0 .. N
      BY <1>7, <2>2, NAssumption DEF Slot
    <3>2. i - 1 \notin R
      <4> HIDE DEF R, i
      <4> QED BY <1>6, <3>1
    <3>3. ~(left(i - 1) < size[i - 1])
      BY <3>1, <3>2 DEF Returns
    <3>4. size[i - 1] \in Nat BY <1>2, <3>1
    <3>5. left(i) = left(i - 1) - size[i - 1] /\ left(i - 1) \in Int BY <1>3, <3>1
    <3> HIDE DEF left, size, i
    <3> QED BY <3>3, <3>4, <3>5
  <2> QED BY <2>1, <2>2
<1>10. left(i) \in Int /\ size[i] \in Nat BY <1>2, <1>3, <1>7, NAssumption DEF Slot
<1> HIDE DEF left, i, size
<1> QED BY <1>4, <1>7, <1>8, <1>9, <1>10

-------------------------------------------------------------------------------
(***************************************************************************)
(* Strings laid end to end: f[i] is the first i of them joined.            *)
(***************************************************************************)
Joins(S, s, f) ==
    /\ f \in [0 .. Len(s) -> Seq(S)]
    /\ f[0] = <<>> /\ \A i \in 1 .. Len(s) : f[i] = f[i - 1] \o s[i]

LEMMA JoinsExist ==
    ASSUME NEW S, NEW s \in Seq(Seq(S))
    PROVE  \E f : Joins(S, s, f)
<1> DEFINE IsJoin(f, n) ==
             /\ f \in [0 .. n -> Seq(S)]
             /\ f[0] = <<>> /\ \A i \in 1 .. n : f[i] = f[i - 1] \o s[i]
           Bad == {n \in 0 .. Len(s) : ~ \E f : IsJoin(f, n)}
<1>1. Bad = {}
  <2> SUFFICES ASSUME Bad # {} PROVE FALSE OBVIOUS
  <2>1. Bad \subseteq Nat
    <3> HIDE DEF IsJoin
    <3> QED OBVIOUS
  <2>2. PICK m \in Bad : \A k \in Bad : m <= k
    <3> HIDE DEF Bad
    <3> QED BY <2>1, SmallestNumber
  <2>3. m # 0
    <3> DEFINE z == [i \in 0 .. 0 |-> <<>>]
    <3>1. IsJoin(z, 0) OBVIOUS
    <3> HIDE DEF IsJoin, z
    <3> QED BY <3>1
  <2>4. m \in 0 .. Len(s) /\ m - 1 \in 0 .. Len(s) BY <2>3
  <2>5. m - 1 \notin Bad
    <3> HIDE DEF Bad
    <3> QED BY <2>2, <2>4
  <2>6. PICK f : IsJoin(f, m - 1) BY <2>4, <2>5
  <2> DEFINE g == [i \in 0 .. m |-> IF i = m THEN f[m - 1] \o s[m] ELSE f[i]]
  <2>7. f[m - 1] \in Seq(S) /\ s[m] \in Seq(S) BY <2>3, <2>4, <2>6
  <2>8. f[m - 1] \o s[m] \in Seq(S) BY <2>7, ConcatProperties
  <2>9. g \in [0 .. m -> Seq(S)]
    <3>1. ASSUME NEW i \in 0 .. m, i # m PROVE f[i] \in Seq(S)
      <4>1. i \in 0 .. m - 1 BY <2>4, <3>1
      <4> QED BY <2>6, <4>1
    <3> QED BY <2>8, <3>1
  <2>10. g[0] = <<>> BY <2>3, <2>4, <2>6
  <2>11. ASSUME NEW i \in 1 .. m PROVE g[i] = g[i - 1] \o s[i]
    <3>1. i - 1 \in 0 .. m /\ i \in 0 .. m /\ i - 1 # m BY <2>4
    <3>2. g[i - 1] = f[i - 1] BY <3>1
    <3>3. CASE i = m BY <3>1, <3>2, <3>3
    <3>4. CASE i # m
      <4>1. i \in 1 .. m - 1 BY <2>4, <3>4
      <4>2. g[i] = f[i] BY <3>1, <3>4
      <4>3. f[i] = f[i - 1] \o s[i] BY <2>6, <4>1
      <4> QED BY <3>2, <4>2, <4>3
    <3> QED BY <3>3, <3>4
  <2>12. IsJoin(g, m)
    <3> HIDE DEF g
    <3> QED BY <2>9, <2>10, <2>11
  <2> HIDE DEF IsJoin, g
  <2> QED BY <2>12
<1>2. Len(s) \in 0 .. Len(s) OBVIOUS
<1>3. Len(s) \notin Bad BY <1>1
<1>4. PICK f : IsJoin(f, Len(s))
  <2> HIDE DEF IsJoin
  <2> QED BY <1>2, <1>3
<1> QED BY <1>4 DEF Joins

(* What the recursion of FlattenSeq computes.                              *)
LEMMA FlattenJoins ==
    ASSUME NEW S, NEW s \in Seq(Seq(S)), NEW f, Joins(S, s, f)
    PROVE  FlattenSeq(s) = f[Len(s)]
<1> DEFINE n == Len(s)
           Body(g) == [i \in 1 .. n |-> IF i = 1 THEN s[i] ELSE g[i - 1] \o s[i]]
           h == [i \in 1 .. n |-> f[i]]
           flatten == CHOOSE g : g = Body(g)
<1>1. n \in Nat OBVIOUS
<1>2. CASE n = 0
  <2>1. s = <<>> BY <1>2
  <2> QED BY <1>2, <2>1 DEF FlattenSeq, Joins
<1>3. CASE n # 0
  <2>1. FlattenSeq(s) = flatten[n] BY <1>3 DEF FlattenSeq
  <2>2. \A i \in 1 .. n : s[i] \in Seq(S) OBVIOUS
  <2>3. h = Body(h)
    <3>1. ASSUME NEW i \in 1 .. n PROVE h[i] = Body(h)[i]
      <4>1. f[i] = f[i - 1] \o s[i] BY DEF Joins
      <4>2. CASE i = 1
        <5>1. f[0] = <<>> /\ s[1] \in Seq(S) BY <2>2, <4>2 DEF Joins
        <5>2. <<>> \o s[1] = s[1] BY <5>1, ConcatEmptySeq
        <5>3. f[i] = s[i] BY <4>1, <4>2, <5>1, <5>2, i - 1 = 0, Zenon
        <5> HIDE DEF n
        <5> QED BY <4>2, <5>3
      <4>3. CASE i # 1
        <5>1. i - 1 \in 1 .. n BY <1>1, <4>3
        <5>2. h[i - 1] = f[i - 1] BY <5>1
        <5> QED BY <4>1, <4>3, <5>2
      <4> QED BY <4>2, <4>3
    <3> QED BY <3>1
  <2>4. flatten = Body(flatten) BY <2>3
  <2> HIDE DEF flatten
  <2>5. \A i \in 1 .. n : flatten[i] = IF i = 1 THEN s[i] ELSE flatten[i - 1] \o s[i]
    BY <2>4
  <2> DEFINE Bad == {i \in 1 .. n : flatten[i] # f[i]}
  <2>6. Bad = {}
    <3> SUFFICES ASSUME Bad # {} PROVE FALSE OBVIOUS
    <3>1. Bad \subseteq Nat BY <1>1
    <3>2. PICK m \in Bad : \A k \in Bad : m <= k
      <4> HIDE DEF Bad
      <4> QED BY <3>1, SmallestNumber
    <3>3. m \in 1 .. n OBVIOUS
    <3>4. h[m] = IF m = 1 THEN s[m] ELSE h[m - 1] \o s[m] BY <2>3, <3>3
    <3>5. m # 1
      <4> SUFFICES ASSUME m = 1 PROVE FALSE OBVIOUS
      <4>1. flatten[m] = f[m] BY <2>5, <3>3, <3>4
      <4> QED BY <4>1
    <3>6. m - 1 \in 1 .. n BY <1>1, <3>3, <3>5
    <3>7. m - 1 \notin Bad
      <4> HIDE DEF Bad
      <4> QED BY <1>1, <3>2, <3>3
    <3>8. flatten[m - 1] = f[m - 1] BY <3>6, <3>7
    <3>9. flatten[m] = f[m] BY <2>5, <3>3, <3>4, <3>5, <3>6, <3>8
    <3> QED BY <3>9
  <2>7. n \in 1 .. n BY <1>1, <1>3
  <2>8. flatten[n] = f[n] BY <2>6, <2>7
  <2> QED BY <2>1, <2>8
<1> QED BY <1>2, <1>3

(* The k-th string of s, and the first k strings of s end to end.          *)
Nth(s, k) == s[k]
Joined(s, k) == FlattenSeq(SubSeq(s, 1, k))

LEMMA JoinedRecursion ==
    ASSUME NEW S, NEW s \in Seq(Seq(S))
    PROVE  /\ Joined(s, 0) = <<>> /\ Joined(s, Len(s)) = FlattenSeq(s)
           /\ \A k \in 0 .. Len(s) : Joined(s, k) \in Seq(S)
           /\ \A k \in 1 .. Len(s) : Joined(s, k) = Joined(s, k - 1) \o Nth(s, k)
<1>1. PICK f : Joins(S, s, f) BY JoinsExist
<1>2. ASSUME NEW k \in 0 .. Len(s) PROVE Joined(s, k) = f[k]
  <2> DEFINE t == SubSeq(s, 1, k)
             g == [i \in 0 .. k |-> f[i]]
  <2>1. t \in Seq(Seq(S)) /\ Len(t) = k /\ \A i \in 1 .. k : t[i] = s[i]
    <3>1. \A i \in 1 .. k : s[i] \in Seq(S) OBVIOUS
    <3> QED BY <3>1, SubSeqProperties
  <2> HIDE DEF t
  <2>2. g \in [0 .. k -> Seq(S)] BY <1>1 DEF Joins
  <2>3. g[0] = <<>> BY <1>1 DEF Joins
  <2>4. ASSUME NEW i \in 1 .. k PROVE g[i] = g[i - 1] \o t[i]
    <3>1. i \in 1 .. Len(s) /\ i \in 0 .. k /\ i - 1 \in 0 .. k OBVIOUS
    <3>2. f[i] = f[i - 1] \o s[i] BY <1>1, <3>1 DEF Joins
    <3>3. g[i] = f[i] /\ g[i - 1] = f[i - 1] BY <3>1
    <3>4. t[i] = s[i] BY <2>1
    <3> QED BY <3>2, <3>3, <3>4
  <2>5. Joins(S, t, g)
    <3> HIDE DEF g
    <3> QED BY <2>1, <2>2, <2>3, <2>4 DEF Joins
  <2>6. FlattenSeq(t) = g[k] BY <2>1, <2>5, FlattenJoins
  <2> QED BY <2>6 DEF t, Joined
<1>3. FlattenSeq(s) = f[Len(s)] BY <1>1, FlattenJoins
<1>4. \A k \in 1 .. Len(s) : k \in 0 .. Len(s) /\ k - 1 \in 0 .. Len(s) OBVIOUS
<1>5. /\ f[0] = <<>> /\ \A k \in 0 .. Len(s) : f[k] \in Seq(S)
      /\ \A k \in 1 .. Len(s) : f[k] = f[k - 1] \o s[k]
  BY <1>1 DEF Joins
<1>6. 0 \in 0 .. Len(s) /\ Len(s) \in 0 .. Len(s) OBVIOUS
<1> QED BY <1>2, <1>3, <1>4, <1>5, <1>6 DEF Nth

(* What one more string adds.                                              *)
LEMMA JoinedStep ==
    ASSUME NEW S, NEW s \in Seq(Seq(S)), NEW k \in 1 .. Len(s)
    PROVE  /\ Joined(s, k) \in Seq(S) /\ Joined(s, k - 1) \in Seq(S) /\ Nth(s, k) \in Seq(S)
           /\ Len(Joined(s, k)) = Len(Joined(s, k - 1)) + Len(Nth(s, k))
           /\ \A i \in 1 .. Len(Joined(s, k - 1)) : Joined(s, k)[i] = Joined(s, k - 1)[i]
           /\ \A i \in 1 .. Len(Nth(s, k)) :
                Joined(s, k)[Len(Joined(s, k - 1)) + i] = Nth(s, k)[i]
<1> DEFINE y == Joined(s, k - 1)
           x == Nth(s, k)
<1>1. k \in 0 .. Len(s) /\ k - 1 \in 0 .. Len(s) OBVIOUS
<1>2. Joined(s, k) \in Seq(S) /\ y \in Seq(S) /\ Joined(s, k) = y \o x
  BY <1>1, JoinedRecursion
<1>3. x \in Seq(S) BY DEF Nth
<1> HIDE DEF x, y
<1>4. Len(x) \in Nat /\ Len(y) \in Nat BY <1>2, <1>3
<1>5. /\ Len(y \o x) = Len(y) + Len(x)
      /\ \A i \in 1 .. Len(y) + Len(x) : (y \o x)[i] = IF i <= Len(y) THEN y[i] ELSE x[i - Len(y)]
  BY <1>2, <1>3, ConcatProperties
<1>6. \A i \in 1 .. Len(y) : (y \o x)[i] = y[i] BY <1>4, <1>5
<1>7. ASSUME NEW j \in 1 .. Len(x) PROVE (y \o x)[Len(y) + j] = x[j]
  <2> DEFINE i == Len(y) + j
  <2>1. i \in 1 .. Len(y) + Len(x) /\ ~(i <= Len(y)) /\ i - Len(y) = j BY <1>4
  <2> HIDE DEF i
  <2>2. (y \o x)[i] = x[j] BY <1>5, <2>1
  <2> QED BY <2>2 DEF i
<1> QED BY <1>2, <1>3, <1>5, <1>6, <1>7 DEF x, y

(* A joined string keeps its place when more are joined to it.             *)
LEMMA JoinedExtends ==
    ASSUME NEW S, NEW s \in Seq(Seq(S)), NEW k \in 0 .. Len(s), NEW m \in k .. Len(s)
    PROVE  /\ Len(Joined(s, k)) <= Len(Joined(s, m))
           /\ \A i \in 1 .. Len(Joined(s, k)) : Joined(s, m)[i] = Joined(s, k)[i]
<1> DEFINE Good(n) == /\ Len(Joined(s, k)) <= Len(Joined(s, n))
                      /\ \A i \in 1 .. Len(Joined(s, k)) : Joined(s, n)[i] = Joined(s, k)[i]
           Bad == {n \in k .. Len(s) : ~Good(n)}
<1>0. Len(Joined(s, k)) \in Nat BY JoinedRecursion
<1>1. Bad = {}
  <2> SUFFICES ASSUME Bad # {} PROVE FALSE OBVIOUS
  <2> HIDE DEF Good
  <2>1. Bad \subseteq Nat OBVIOUS
  <2>2. PICK n \in Bad : \A j \in Bad : n <= j
    <3> HIDE DEF Bad
    <3> QED BY <2>1, SmallestNumber
  <2>3. n \in k .. Len(s) /\ ~Good(n) OBVIOUS
  <2>4. Good(k) BY <1>0 DEF Good
  <2>5. n # k BY <2>3, <2>4
  <2>6. n - 1 \in k .. Len(s) /\ n \in 1 .. Len(s) BY <2>3, <2>5
  <2>7. n - 1 \notin Bad
    <3> HIDE DEF Bad
    <3> QED BY <2>2, <2>3
  <2>8. Good(n - 1) BY <2>6, <2>7
  <2> HIDE DEF Bad
  <2>9. /\ Joined(s, n) \in Seq(S) /\ Joined(s, n - 1) \in Seq(S) /\ Nth(s, n) \in Seq(S)
        /\ Len(Joined(s, n)) = Len(Joined(s, n - 1)) + Len(Nth(s, n))
        /\ \A i \in 1 .. Len(Joined(s, n - 1)) : Joined(s, n)[i] = Joined(s, n - 1)[i]
    BY <2>6, JoinedStep
  <2>10. /\ Len(Joined(s, k)) <= Len(Joined(s, n - 1))
         /\ \A i \in 1 .. Len(Joined(s, k)) : Joined(s, n - 1)[i] = Joined(s, k)[i]
    BY <2>8 DEF Good
  <2>11. Len(Joined(s, k)) <= Len(Joined(s, n)) BY <1>0, <2>9, <2>10
  <2>12. ASSUME NEW i \in 1 .. Len(Joined(s, k)) PROVE Joined(s, n)[i] = Joined(s, k)[i]
    <3>1. i \in 1 .. Len(Joined(s, n - 1)) BY <1>0, <2>9, <2>10
    <3> QED BY <2>9, <2>10, <3>1
  <2> QED BY <2>3, <2>11, <2>12 DEF Good
<1>2. Good(m)
  <2> HIDE DEF Good
  <2> QED BY <1>1
<1> QED BY <1>2

(* Where each of the strings lies in the concatenation of all.             *)
LEMMA JoinedPlaces ==
    ASSUME NEW S, NEW s \in Seq(Seq(S)), NEW k \in 1 .. Len(s)
    PROVE  /\ Len(Joined(s, k)) = Len(Joined(s, k - 1)) + Len(Nth(s, k))
           /\ Len(Joined(s, k)) <= Len(FlattenSeq(s))
           /\ \A i \in 1 .. Len(Nth(s, k)) :
                FlattenSeq(s)[Len(Joined(s, k - 1)) + i] = Nth(s, k)[i]
<1> DEFINE m == Len(s)
<1>1. k \in 0 .. Len(s) /\ m \in k .. Len(s) /\ Joined(s, m) = FlattenSeq(s)
  BY JoinedRecursion
<1> HIDE DEF m
<1>2. /\ Joined(s, k - 1) \in Seq(S) /\ Nth(s, k) \in Seq(S)
      /\ Len(Joined(s, k)) = Len(Joined(s, k - 1)) + Len(Nth(s, k))
      /\ \A i \in 1 .. Len(Nth(s, k)) : Joined(s, k)[Len(Joined(s, k - 1)) + i] = Nth(s, k)[i]
  BY JoinedStep
<1>3. Len(Joined(s, k - 1)) \in Nat /\ Len(Nth(s, k)) \in Nat BY <1>2
<1>4. /\ Len(Joined(s, k)) <= Len(Joined(s, m))
      /\ \A i \in 1 .. Len(Joined(s, k)) : Joined(s, m)[i] = Joined(s, k)[i]
  BY <1>1, JoinedExtends
<1>5. ASSUME NEW j \in 1 .. Len(Nth(s, k)) PROVE Joined(s, m)[Len(Joined(s, k - 1)) + j] = Nth(s, k)[j]
  <2> DEFINE i == Len(Joined(s, k - 1)) + j
  <2>1. i \in 1 .. Len(Joined(s, k)) /\ Joined(s, k)[i] = Nth(s, k)[j] BY <1>2, <1>3
  <2> HIDE DEF i
  <2>2. Joined(s, m)[i] = Nth(s, k)[j] BY <1>4, <2>1
  <2> QED BY <2>2 DEF i
<1> QED BY <1>1, <1>2, <1>4, <1>5

-------------------------------------------------------------------------------
(***************************************************************************)
(* The sums of the crawl are positions in the concatenation: the first k   *)
(* sizes add up to where the k-th command begins.  Behind the last command *)
(* nothing is added.                                                       *)
(***************************************************************************)
Sums(b) == RunningSum(SizeInOrder(b))

LEMMA SumsStep ==
    ASSUME NEW b \in Ring
    PROVE  /\ SizeInOrder(b) \in [Slot -> Nat]
           /\ Sums(b)[0] = 0
           /\ \A k \in 0 .. N : Sums(b)[k] \in Nat
           /\ \A k \in 1 .. N : Sums(b)[k] = Sums(b)[k - 1] + SizeInOrder(b)[k - 1]
<1> DEFINE size == SizeInOrder(b)
<1>1. b.out_offs \in Slot /\ b.entry \in [Slot -> Seq(Byte)] BY DEF Ring
<1>2. size \in [Slot -> Nat] BY <1>1, SlotAtWraps DEF SizeInOrder
<1>3. size \in [Slot -> Int] BY <1>2
<1> HIDE DEF size
<1>4. \A k \in 0 .. N : RunningSum(size)[k] \in Nat BY <1>2, SizesAddUp
<1>5. /\ RunningSum(size)[0] = 0
      /\ \A k \in 1 .. N : RunningSum(size)[k] = RunningSum(size)[k - 1] + size[k - 1]
  BY <1>3, RunningSumValues
<1> QED BY <1>2, <1>4, <1>5 DEF Sums, size

LEMMA SumsArePositions ==
    ASSUME NEW b \in Ring, RingInv(b)
    PROVE  /\ Bytes(b) \in Seq(Byte)
           /\ \A k \in 0 .. Count(b) : Sums(b)[k] = Len(Joined(Contents(b), k))
           /\ \A k \in Count(b) .. N : Sums(b)[k] = Len(Bytes(b))
           /\ \A k \in 1 .. Count(b) : SizeInOrder(b)[k - 1] = Len(Nth(Contents(b), k))
<1> DEFINE log == Contents(b)
           n == Count(b)
           size == SizeInOrder(b)
           sum == Sums(b)
<1>1. /\ n \in 0 .. N /\ log \in Seq(Seq(Byte)) /\ Len(log) = n
      /\ \A k \in 1 .. n : k - 1 \in Slot /\ SlotAt(b, k - 1) \in Slot
  BY ContentsIsSeq
<1>2. n \in Nat /\ N \in Nat BY <1>1, NAssumption
<1>3. /\ size \in [Slot -> Nat] /\ sum[0] = 0 /\ \A k \in 0 .. N : sum[k] \in Nat
      /\ \A k \in 1 .. N : sum[k] = sum[k - 1] + size[k - 1]
  BY SumsStep
<1>4. ASSUME NEW k \in 1 .. n PROVE size[k - 1] = Len(Nth(log, k))
  <2>1. size[k - 1] = Len(b.entry[SlotAt(b, k - 1)]) BY <1>1 DEF SizeInOrder
  <2>2. Nth(log, k) = b.entry[SlotAt(b, k - 1)] BY DEF Nth, Contents
  <2> QED BY <2>1, <2>2
<1>5. ASSUME NEW k \in n .. N - 1 PROVE size[k] = 0
  <2>1. ~b.full /\ n = b.in_offs BY <1>2 DEF Count
  <2>2. b.out_offs = 0 /\ b.entry[k] = <<>> BY <2>1 DEF RingInv
  <2>3. k \in Slot /\ 0 \in Slot BY <1>2, NAssumption DEF Slot
  <2>4. SlotAt(b, k) = k BY <2>2, <2>3, SlotAtWraps, NAssumption DEF Slot
  <2>5. size[k] = Len(b.entry[SlotAt(b, k)]) BY <2>3 DEF SizeInOrder
  <2> QED BY <2>2, <2>4, <2>5
<1>6. Bytes(b) = Joined(log, n) /\ Bytes(b) \in Seq(Byte) /\ Joined(log, 0) = <<>>
  BY <1>1, <1>2, JoinedRecursion DEF Bytes
<1>7. \A k \in 1 .. n : Len(Joined(log, k)) = Len(Joined(log, k - 1)) + Len(Nth(log, k))
  BY <1>1, JoinedStep
<1> HIDE DEF size, sum, n, log
<1>8. \A k \in 0 .. n : sum[k] = Len(Joined(log, k))
  <2> DEFINE Bad == {k \in 0 .. n : sum[k] # Len(Joined(log, k))}
  <2> SUFFICES ASSUME Bad # {} PROVE FALSE OBVIOUS
  <2>1. Bad \subseteq Nat BY <1>2
  <2>2. PICK m \in Bad : \A k \in Bad : m <= k
    <3> HIDE DEF Bad
    <3> QED BY <2>1, SmallestNumber
  <2>3. m \in 0 .. n /\ m # 0 BY <1>3, <1>6
  <2>4. m - 1 \in 0 .. n /\ m \in 1 .. n /\ m \in 1 .. N BY <1>1, <1>2, <2>3
  <2>5. m - 1 \notin Bad
    <3> HIDE DEF Bad
    <3> QED BY <1>2, <2>2, <2>3
  <2>6. sum[m - 1] = Len(Joined(log, m - 1)) BY <2>4, <2>5
  <2>7. sum[m] = Len(Joined(log, m)) BY <1>3, <1>4, <1>7, <2>4, <2>6
  <2> QED BY <2>7
<1>9. \A k \in n .. N : sum[k] = sum[n]
  <2> DEFINE Bad == {k \in n .. N : sum[k] # sum[n]}
  <2> SUFFICES ASSUME Bad # {} PROVE FALSE OBVIOUS
  <2>1. Bad \subseteq Nat BY <1>2
  <2>2. PICK m \in Bad : \A k \in Bad : m <= k
    <3> HIDE DEF Bad
    <3> QED BY <2>1, SmallestNumber
  <2>3. m \in n .. N /\ m # n OBVIOUS
  <2>4. m - 1 \in n .. N - 1 /\ m - 1 \in n .. N /\ m \in 1 .. N /\ m - 1 \in 0 .. N
    BY <1>2, <2>3
  <2>5. m - 1 \notin Bad
    <3> HIDE DEF Bad
    <3> QED BY <1>2, <2>2, <2>3
  <2>6. sum[m - 1] = sum[n] BY <2>4, <2>5
  <2>7. sum[m - 1] \in Nat /\ sum[m] = sum[m - 1] + size[m - 1] /\ size[m - 1] = 0
    BY <1>3, <1>5, <2>4
  <2>8. sum[m] = sum[n] BY <2>6, <2>7
  <2> QED BY <2>8
<1>10. n \in 0 .. n /\ sum[n] = Len(Bytes(b)) BY <1>2, <1>6, <1>8
<1> QED BY <1>4, <1>6, <1>8, <1>9, <1>10 DEF size, sum, n, log

(***************************************************************************)
(* aesd_circular_buffer_find_entry_offset_for_fpos finds the command that  *)
(* a position lies in, and nothing exactly for positions behind the end.   *)
(***************************************************************************)
LEMMA FindIsSearch ==
    ASSUME NEW b \in Ring, RingInv(b), NEW pos \in Nat
    PROVE  LET f == FindEntryOffset(b, pos)
           IN  /\ pos >= Len(Bytes(b)) => f = NotFound
               /\ pos < Len(Bytes(b)) =>
                    \E c \in 1 .. Count(b) :
                      /\ f.slot = SlotAt(b, c - 1)
                      /\ f.byte \in 0 .. Len(Nth(Contents(b), c)) - 1
                      /\ pos = Len(Joined(Contents(b), c - 1)) + f.byte
<1> DEFINE R == Returns(b, pos)
           i == Min(R)
           n == Count(b)
           size == SizeInOrder(b)
           sum == Sums(b)
           log == Contents(b)
           f == FindEntryOffset(b, pos)
<1>1. /\ size \in [Slot -> Nat] /\ sum[0] = 0 /\ \A k \in 0 .. N : sum[k] \in Nat
      /\ \A k \in 1 .. N : sum[k] = sum[k - 1] + size[k - 1]
  BY SumsStep
<1>2. /\ \A k \in 0 .. n : sum[k] = Len(Joined(log, k))
      /\ \A k \in n .. N : sum[k] = Len(Bytes(b))
      /\ \A k \in 1 .. n : size[k - 1] = Len(Nth(log, k))
  BY SumsArePositions
<1>3. n \in 0 .. N /\ n \in Nat /\ N \in Nat /\ N > 0 BY ContentsIsSeq, NAssumption
<1>4. \A k \in Slot : k \in R <=> AtInput(b, k) \/ pos - sum[k] < size[k]
  BY DEF Returns, CharDifference, Sums
<1>5. R \subseteq Slot /\ Slot \subseteq Nat BY NAssumption DEF Returns, Slot
<1>6. \A k \in Slot : AtInput(b, k) <=> ~b.full /\ k = n
  <2>1. CASE b.full BY <2>1 DEF AtInput
  <2>2. CASE ~b.full
    <3>1. b.out_offs = 0 /\ n = b.in_offs BY <2>2 DEF RingInv, Count
    <3>2. \A k \in Slot : SlotAt(b, k) = k
      <4>1. 0 \in Slot BY NAssumption DEF Slot
      <4> QED BY <3>1, <4>1, SlotAtWraps, NAssumption DEF Slot
    <3> QED BY <2>2, <3>1, <3>2 DEF AtInput
  <2> QED BY <2>1, <2>2
<1>7. R # {} => i \in R /\ \A k \in R : i <= k BY <1>5, MinIsSmallest
<1>8. n = N <=> b.full
  <2>1. b.in_offs \in Slot BY DEF Ring
  <2> QED BY <2>1, NAssumption DEF Count, Slot
<1> HIDE DEF size, sum, R, i, n, log
<1>9. ASSUME n # 0, n - 1 \notin R PROVE pos >= sum[n]
  <2>1. n - 1 \in Slot /\ n - 1 \in 0 .. N /\ n \in 1 .. N BY <1>3, <1>9 DEF Slot
  <2>2. ~(pos - sum[n - 1] < size[n - 1]) BY <1>4, <1>9, <2>1
  <2>3. sum[n] = sum[n - 1] + size[n - 1] /\ sum[n - 1] \in Nat /\ size[n - 1] \in Nat
    BY <1>1, <2>1
  <2> QED BY <2>2, <2>3
<1>10. sum[n] = Len(Bytes(b)) /\ sum[n] \in Nat BY <1>1, <1>2, <1>3
<1>11. CASE R = {} \/ AtInput(b, i)
  <2>1. f = NotFound BY <1>11 DEF FindEntryOffset, R, i
  <2>2. n # 0 => n - 1 \notin R
    <3>1. CASE R = {} BY <3>1
    <3>2. CASE R # {}
      <4>1. i \in Slot /\ i = n BY <1>5, <1>6, <1>7, <1>11, <3>2
      <4> QED BY <1>3, <1>7, <3>2, <4>1
    <3> QED BY <3>1, <3>2
  <2>3. pos >= sum[n]
    <3>1. CASE n = 0 BY <1>1, <3>1
    <3>2. CASE n # 0 BY <1>9, <2>2, <3>2
    <3> QED BY <3>1, <3>2
  <2>4. pos >= Len(Bytes(b)) BY <1>10, <2>3
  <2> QED BY <1>10, <2>1, <2>4
<1>12. CASE R # {} /\ ~AtInput(b, i)
  <2>1. i \in R /\ i \in Slot /\ i \in 0 .. N - 1 BY <1>5, <1>7, <1>12 DEF Slot
  <2>2. pos - sum[i] < size[i] BY <1>4, <1>12, <2>1
  <2>3. f = [slot |-> SlotAt(b, i), byte |-> pos - sum[i]]
    BY <1>12 DEF FindEntryOffset, R, i, CharDifference, Sums, sum
  <2>4. i < n
    <3>1. CASE b.full BY <1>3, <1>8, <2>1, <3>1
    <3>2. CASE ~b.full
      <4>1. n \in Slot BY <1>3, <1>8, <3>2 DEF Slot
      <4>2. n \in R BY <1>4, <1>6, <3>2, <4>1
      <4>3. i <= n /\ i # n BY <1>6, <1>7, <1>12, <2>1, <3>2, <4>2
      <4> QED BY <1>3, <2>1, <4>3
    <3> QED BY <3>1, <3>2
  <2> DEFINE c == i + 1
  <2>5. c \in 1 .. n /\ c \in 1 .. N /\ c - 1 = i /\ i \in 0 .. n /\ i \in 0 .. N
    BY <1>3, <2>1, <2>4
  <2> HIDE DEF c
  <2>6. sum[i] \in Nat /\ size[i] \in Nat BY <1>1, <2>1, <2>5
  <2>7. pos >= sum[i]
    <3>1. CASE i = 0 BY <1>1, <3>1
    <3>2. CASE i # 0
      <4>1. i - 1 \in Slot /\ i \in 1 .. N /\ i - 1 \in 0 .. N BY <1>3, <2>1, <3>2 DEF Slot
      <4>2. i - 1 \notin R BY <1>7, <1>12, <2>1, <4>1
      <4>3. ~(pos - sum[i - 1] < size[i - 1]) BY <1>4, <4>1, <4>2
      <4>4. sum[i] = sum[i - 1] + size[i - 1] /\ sum[i - 1] \in Nat /\ size[i - 1] \in Nat
        BY <1>1, <4>1
      <4> QED BY <4>3, <4>4
    <3> QED BY <3>1, <3>2
  <2>8. /\ f.slot = SlotAt(b, c - 1) /\ f.byte = pos - sum[i]
        /\ sum[i] = Len(Joined(log, c - 1)) /\ size[i] = Len(Nth(log, c))
    BY <1>2, <2>3, <2>5
  <2>9. f.byte \in 0 .. Len(Nth(log, c)) - 1 /\ pos = Len(Joined(log, c - 1)) + f.byte
    BY <2>2, <2>6, <2>7, <2>8
  <2>10. pos < Len(Bytes(b)) /\ ~(pos >= Len(Bytes(b)))
    <3>1. Contents(b) \in Seq(Seq(Byte)) /\ Len(Contents(b)) = Count(b) BY ContentsIsSeq
    <3>2. /\ Len(Joined(log, c)) <= Len(Bytes(b))
          /\ Len(Joined(log, c)) = Len(Joined(log, c - 1)) + Len(Nth(log, c))
      BY <2>5, <3>1, JoinedPlaces DEF Bytes, log, n
    <3>3. Len(Bytes(b)) \in Nat BY <1>10
    <3> QED BY <2>2, <2>6, <2>8, <3>2, <3>3
  <2>11. \E d \in 1 .. n :
           /\ f.slot = SlotAt(b, d - 1)
           /\ f.byte \in 0 .. Len(Nth(log, d)) - 1
           /\ pos = Len(Joined(log, d - 1)) + f.byte
    <3> HIDE DEF f
    <3> QED BY <2>5, <2>8, <2>9
  <2> HIDE DEF f
  <2> QED BY <2>10, <2>11 DEF f, n, log
<1> QED BY <1>11, <1>12

(***************************************************************************)
(* Where the entries of a log are after a push: the new one is last, and   *)
(* the others move one place forward when the oldest is dropped.           *)
(***************************************************************************)
LEMMA PushPlaces ==
    ASSUME NEW S, NEW log \in Seq(S), Len(log) <= N, NEW x \in S
    PROVE  /\ Push(log, x) \in Seq(S)
           /\ Len(Push(log, x)) = IF Len(log) < N THEN Len(log) + 1 ELSE N
           /\ Nth(Push(log, x), Len(Push(log, x))) = x
           /\ \A i \in 1 .. Len(Push(log, x)) - 1 :
                Nth(Push(log, x), i) = IF Len(log) < N THEN Nth(log, i) ELSE Nth(log, i + 1)
<1>1. N \in Nat /\ N > 0 /\ Len(log) \in Nat BY NAssumption
<1>2. CASE Len(log) < N
  <2>1. Push(log, x) = Append(log, x) BY <1>2 DEF Push
  <2>2. /\ Append(log, x) \in Seq(S) /\ Len(Append(log, x)) = Len(log) + 1
        /\ \A i \in 1 .. Len(log) : Append(log, x)[i] = log[i]
        /\ Append(log, x)[Len(log) + 1] = x
    BY AppendProperties
  <2> QED BY <1>1, <1>2, <2>1, <2>2 DEF Nth
<1>3. CASE ~(Len(log) < N)
  <2> DEFINE t == Tail(log)
  <2>1. Push(log, x) = Append(t, x) /\ Len(log) = N /\ log # <<>> BY <1>1, <1>3 DEF Push
  <2>2. t \in Seq(S) /\ Len(t) = N - 1 /\ \A i \in 1 .. Len(t) : t[i] = log[i + 1]
    BY <2>1, HeadTailProperties
  <2> HIDE DEF t
  <2>3. /\ Append(t, x) \in Seq(S) /\ Len(Append(t, x)) = Len(t) + 1
        /\ \A i \in 1 .. Len(t) : Append(t, x)[i] = t[i]
        /\ Append(t, x)[Len(t) + 1] = x
    BY <2>2, AppendProperties
  <2>4. Len(t) + 1 = N BY <1>1, <2>2
  <2> QED BY <1>1, <1>3, <2>1, <2>2, <2>3, <2>4 DEF Nth
<1> QED BY <1>2, <1>3

(* One more string at the end of a sequence of them.                       *)
LEMMA FlattenAppend ==
    ASSUME NEW S, NEW s \in Seq(Seq(S)), NEW x \in Seq(S)
    PROVE  FlattenSeq(s) \in Seq(S) /\ FlattenSeq(Append(s, x)) = FlattenSeq(s) \o x
<1> DEFINE n == Len(s)
           t == Append(s, x)
<1>1. n \in Nat /\ t \in Seq(Seq(S)) /\ Len(t) = n + 1 /\ t[n + 1] = x
      /\ \A i \in 1 .. n : t[i] = s[i]
  BY AppendProperties
<1>2. SubSeq(t, 1, n) = SubSeq(s, 1, n)
  <2>1. \A i \in 1 .. n : t[i] \in Seq(S) BY <1>1
  <2> HIDE DEF t, n
  <2>2. /\ SubSeq(t, 1, n) \in Seq(Seq(S))
        /\ Len(SubSeq(t, 1, n)) = IF 1 <= n THEN n - 1 + 1 ELSE 0
        /\ \A i \in 1 .. n - 1 + 1 : SubSeq(t, 1, n)[i] = t[1 + i - 1]
    BY <1>1, <2>1, SubSeqProperties
  <2> DEFINE u == SubSeq(t, 1, n)
  <2> HIDE DEF u
  <2>3. u \in Seq(Seq(S)) /\ Len(u) = n /\ \A i \in 1 .. n : u[i] = s[i]
    BY <1>1, <2>2 DEF u
  <2>4. u = s BY <2>3, SeqEqual DEF n
  <2> QED BY <2>4, SubSeqFull DEF n, u
<1> HIDE DEF n, t
<1>3. n + 1 \in 1 .. Len(t) /\ (n + 1) - 1 = n /\ n \in 0 .. Len(s) BY <1>1 DEF n
<1>4. Joined(t, n + 1) = Joined(t, n) \o Nth(t, n + 1)
  BY <1>1, <1>3, JoinedRecursion
<1>5. Joined(t, n) = Joined(s, n) BY <1>2 DEF Joined
<1>6. Joined(s, n) = FlattenSeq(s) /\ Joined(t, n + 1) = FlattenSeq(t)
      /\ FlattenSeq(s) \in Seq(S)
  <2>1. Joined(s, Len(s)) = FlattenSeq(s) /\ Joined(s, n) \in Seq(S) BY <1>3, JoinedRecursion
  <2>2. Joined(t, Len(t)) = FlattenSeq(t) BY <1>1, JoinedRecursion
  <2> QED BY <1>1, <2>1, <2>2 DEF n
<1> QED BY <1>1, <1>4, <1>5, <1>6 DEF Nth, t

(* Non-empty strings begin at different places.                            *)
LEMMA JoinedGrows ==
    ASSUME NEW S, NEW s \in Seq(Seq(S)), \A i \in 1 .. Len(s) : Nth(s, i) # <<>>,
           NEW k \in 0 .. Len(s), NEW m \in 0 .. Len(s), k < m
    PROVE  Len(Joined(s, k)) < Len(Joined(s, m))
<1>1. k + 1 \in 1 .. Len(s) /\ k + 1 \in 0 .. Len(s) /\ (k + 1) - 1 = k /\ m \in k + 1 .. Len(s)
  OBVIOUS
<1>2. /\ Joined(s, k) \in Seq(S) /\ Nth(s, k + 1) \in Seq(S) /\ Joined(s, k + 1) \in Seq(S)
      /\ Len(Joined(s, k + 1)) = Len(Joined(s, k)) + Len(Nth(s, k + 1))
  <2> DEFINE j == k + 1
  <2>1. j \in 1 .. Len(s) /\ j - 1 = k BY <1>1
  <2> HIDE DEF j
  <2>2. /\ Joined(s, j) \in Seq(S) /\ Joined(s, j - 1) \in Seq(S) /\ Nth(s, j) \in Seq(S)
        /\ Len(Joined(s, j)) = Len(Joined(s, j - 1)) + Len(Nth(s, j))
    BY <2>1, JoinedStep
  <2> QED BY <2>1, <2>2 DEF j
<1>3. Len(Nth(s, k + 1)) \in Nat /\ Len(Nth(s, k + 1)) # 0 BY <1>1, <1>2
<1>4. Len(Joined(s, k + 1)) <= Len(Joined(s, m)) BY <1>1, JoinedExtends
<1>5. Joined(s, m) \in Seq(S) BY JoinedRecursion
<1> QED BY <1>2, <1>3, <1>4, <1>5
===============================================================================
