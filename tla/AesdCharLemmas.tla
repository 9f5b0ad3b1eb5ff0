---------------------------- MODULE AesdCharLemmas ----------------------------
(***************************************************************************)
(* What the computations of the driver return, for every ring and buffer.  *)
(***************************************************************************)
EXTENDS AesdCharOps, RingLemmas

(* aesd_read copies bytes of the ring, and moves by as many.               *)
LEMMA ReadAtType ==
    ASSUME NEW b \in Ring, NEW pos \in Nat
    PROVE  ReadAt(b, pos) \in Seq(Byte)
<1> DEFINE f == FindEntryOffset(b, pos)
<1>1. f = NotFound \/ (f.slot \in Slot /\ f.byte \in 0 .. Len(b.entry[f.slot]) - 1)
  BY FoundInsideEntry
<1> HIDE DEF f
<1>2. CASE f.byte = -1
  BY <1>2 DEF ReadAt, f
<1>3. CASE f.byte # -1
  <2>1. f.slot \in Slot /\ f.byte \in 0 .. Len(b.entry[f.slot]) - 1
    BY <1>1, <1>3 DEF NotFound
  <2> DEFINE e == b.entry[f.slot]
  <2>2. e \in Seq(Byte) BY <2>1 DEF Ring
  <2> HIDE DEF e
  <2>3. f.byte \in Int /\ f.byte + 1 \in 1 .. Len(e) BY <2>1, <2>2 DEF e
  <2>4. SubSeq(e, f.byte + 1, Len(e)) \in Seq(Byte) BY <2>2, <2>3, SubSeqProperties
  <2> QED BY <1>3, <2>4 DEF ReadAt, f, e
<1> QED BY <1>2, <1>3

(***************************************************************************)
(* What aesd_read returns: the bytes from the position to the end of the   *)
(* command it lies in, and nothing exactly from the end of the data on.    *)
(***************************************************************************)
LEMMA ReadAtValue ==
    ASSUME NEW b \in Ring, RingInv(b), NEW pos \in Nat
    PROVE  /\ pos >= Len(Bytes(b)) => ReadAt(b, pos) = <<>>
           /\ pos < Len(Bytes(b)) =>
                \E c \in 1 .. Count(b) : \E k \in 0 .. Len(Nth(Contents(b), c)) - 1 :
                  /\ pos = Len(Joined(Contents(b), c - 1)) + k
                  /\ ReadAt(b, pos)
                       = SubSeq(Nth(Contents(b), c), k + 1, Len(Nth(Contents(b), c)))
<1> DEFINE f == FindEntryOffset(b, pos)
           log == Contents(b)
<1>1. CASE pos >= Len(Bytes(b))
  <2>1. f = NotFound BY <1>1, FindIsSearch
  <2>2. f.byte = -1 BY <2>1 DEF NotFound
  <2>3. ReadAt(b, pos) = <<>> BY <2>2 DEF ReadAt
  <2>4. ~(pos < Len(Bytes(b))) BY <1>1, SumsArePositions
  <2> QED BY <2>3, <2>4
<1>2. CASE pos < Len(Bytes(b))
  <2>1. PICK c \in 1 .. Count(b) :
           /\ f.slot = SlotAt(b, c - 1)
           /\ f.byte \in 0 .. Len(Nth(log, c)) - 1
           /\ pos = Len(Joined(log, c - 1)) + f.byte
    BY <1>2, FindIsSearch
  <2> HIDE DEF f
  <2>2. b.entry[f.slot] = Nth(log, c) BY <2>1 DEF Nth, Contents
  <2>3. f.byte # -1
    <3> DEFINE k == f.byte
    <3>1. k \in 0 .. Len(Nth(log, c)) - 1 BY <2>1
    <3> HIDE DEF k
    <3>2. k # -1 BY <3>1
    <3> QED BY <3>2 DEF k
  <2>4. ReadAt(b, pos) = SubSeq(Nth(log, c), f.byte + 1, Len(Nth(log, c)))
    BY <2>2, <2>3 DEF ReadAt, f
  <2>5. ~(pos >= Len(Bytes(b))) BY <1>2, SumsArePositions
  <2> HIDE DEF log
  <2> QED BY <2>1, <2>4, <2>5 DEF log
<1>3. Len(Bytes(b)) \in Nat BY SumsArePositions
<1> QED BY <1>1, <1>2, <1>3

(* Those bytes are a piece of the concatenation that starts at pos.        *)
LEMMA ReadAtIsPiece ==
    ASSUME NEW b \in Ring, RingInv(b), NEW pos \in Nat, NEW r, r = ReadAt(b, pos)
    PROVE  /\ r \in Seq(Byte)
           /\ r = <<>> <=> pos >= Len(Bytes(b))
           /\ pos < Len(Bytes(b)) => Len(r) > 0 /\ pos + Len(r) <= Len(Bytes(b))
           /\ \A i \in 1 .. Len(r) : r[i] = Bytes(b)[pos + i]
           /\ pos < Len(Bytes(b)) =>
                \E c \in 1 .. Count(b) : pos + Len(r) = Len(Joined(Contents(b), c))
<1> DEFINE log == Contents(b)
<1>1. log \in Seq(Seq(Byte)) /\ Len(log) = Count(b) BY ContentsIsSeq
<1>2. r \in Seq(Byte) BY ReadAtType
<1>3. Len(Bytes(b)) \in Nat BY SumsArePositions
<1>4. CASE pos >= Len(Bytes(b))
  <2>1. r = <<>> BY <1>4, ReadAtValue
  <2>2. Len(r) = 0 /\ ~(pos < Len(Bytes(b))) BY <1>3, <1>4, <2>1
  <2> QED BY <1>2, <1>4, <2>1, <2>2
<1>5. CASE pos < Len(Bytes(b))
  <2>0. PICK c \in 1 .. Count(b) : \E k \in 0 .. Len(Nth(log, c)) - 1 :
           /\ pos = Len(Joined(log, c - 1)) + k
           /\ r = SubSeq(Nth(log, c), k + 1, Len(Nth(log, c)))
    BY <1>5, ReadAtValue
  <2>1. PICK k \in 0 .. Len(Nth(log, c)) - 1 :
           /\ pos = Len(Joined(log, c - 1)) + k
           /\ r = SubSeq(Nth(log, c), k + 1, Len(Nth(log, c)))
    BY <2>0
  <2> HIDE DEF log
  <2>2. c \in 1 .. Len(log) BY <1>1
  <2> DEFINE x == Nth(log, c)
             start == Len(Joined(log, c - 1))
  <2>3. /\ x \in Seq(Byte) /\ start \in Nat /\ Len(Joined(log, c)) = start + Len(x)
        /\ Len(Joined(log, c)) <= Len(FlattenSeq(log))
        /\ \A i \in 1 .. Len(x) : FlattenSeq(log)[start + i] = x[i]
    <3>1. x \in Seq(Byte) /\ Joined(log, c - 1) \in Seq(Byte) BY <1>1, <2>2, JoinedStep
    <3>2. start \in Nat BY <3>1
    <3>3. /\ Len(Joined(log, c)) = Len(Joined(log, c - 1)) + Len(Nth(log, c))
          /\ Len(Joined(log, c)) <= Len(FlattenSeq(log))
          /\ \A i \in 1 .. Len(Nth(log, c)) :
               FlattenSeq(log)[Len(Joined(log, c - 1)) + i] = Nth(log, c)[i]
      BY <1>1, <2>2, JoinedPlaces
    <3> QED BY <3>1, <3>2, <3>3
  <2>4. k \in 0 .. Len(x) - 1 /\ pos = start + k /\ r = SubSeq(x, k + 1, Len(x)) BY <2>1
  <2>5. FlattenSeq(log) = Bytes(b) BY DEF Bytes, log
  <2> HIDE DEF x, start
  <2>6. Len(x) \in Nat /\ k \in Nat BY <2>3, <2>4
  <2>7. Len(r) = Len(x) - k /\ \A i \in 1 .. Len(x) - k : r[i] = x[k + i]
    <3>1. /\ Len(SubSeq(x, k + 1, Len(x))) = Len(x) - (k + 1) + 1
          /\ \A i \in 1 .. Len(x) - (k + 1) + 1 : SubSeq(x, k + 1, Len(x))[i] = x[k + 1 + i - 1]
      <4>1. k + 1 \in Int /\ Len(x) \in Int /\ k + 1 <= Len(x) BY <2>4, <2>6
      <4>2. \A i \in k + 1 .. Len(x) : x[i] \in Byte BY <2>3, <2>6
      <4> QED BY <4>1, <4>2, SubSeqProperties
    <3> DEFINE m == Len(x)
               y == SubSeq(x, k + 1, m)
    <3>2. m \in Nat /\ r = y BY <2>4, <2>6
    <3>3. Len(y) = m - (k + 1) + 1 /\ \A i \in 1 .. m - (k + 1) + 1 : y[i] = x[k + 1 + i - 1]
      BY <3>1
    <3> HIDE DEF m, y
    <3>4. Len(y) = m - k BY <2>6, <3>2, <3>3
    <3>5. ASSUME NEW i \in 1 .. m - k PROVE y[i] = x[k + i]
      <4>1. i \in 1 .. m - (k + 1) + 1 /\ k + 1 + i - 1 = k + i BY <2>6, <3>2
      <4>2. y[i] = x[k + 1 + i - 1] BY <3>3, <4>1
      <4> QED BY <4>1, <4>2
    <3> QED BY <3>2, <3>4, <3>5 DEF m
  <2>8. Len(r) > 0 /\ pos + Len(r) = Len(Joined(log, c)) /\ pos + Len(r) <= Len(Bytes(b))
    <3>1. Len(FlattenSeq(log)) = Len(Bytes(b)) BY <2>5
    <3>2. k < Len(x) /\ pos = start + k /\ Len(r) = Len(x) - k /\ start \in Nat
      BY <2>3, <2>4, <2>6, <2>7
    <3>3. /\ Len(Joined(log, c)) = start + Len(x)
          /\ Len(Joined(log, c)) <= Len(Bytes(b))
      BY <2>3, <3>1
    <3> QED BY <2>6, <3>2, <3>3
  <2>9. ASSUME NEW i \in 1 .. Len(r) PROVE r[i] = Bytes(b)[pos + i]
    <3>1. k + i \in 1 .. Len(x) /\ pos + i = start + (k + i)
      BY <2>3, <2>4, <2>6, <2>7
    <3>2. FlattenSeq(log)[start + (k + i)] = x[k + i] BY <2>3, <3>1
    <3>3. r[i] = x[k + i] BY <2>7
    <3> QED BY <2>5, <3>1, <3>2, <3>3
  <2>10. r # <<>> /\ ~(pos >= Len(Bytes(b))) BY <1>3, <1>5, <2>8
  <2> QED BY <1>2, <1>5, <2>8, <2>9, <2>10 DEF log
<1> QED BY <1>3, <1>4, <1>5

(* The same as one subsequence of it.                                      *)
LEMMA ReadAtIsSubSeq ==
    ASSUME NEW b \in Ring, RingInv(b), NEW pos \in Nat, pos < Len(Bytes(b)),
           NEW r, r = ReadAt(b, pos)
    PROVE  /\ r \in Seq(Byte) /\ Len(r) > 0 /\ pos + Len(r) <= Len(Bytes(b))
           /\ r = SubSeq(Bytes(b), pos + 1, pos + Len(r))
<1> DEFINE flat == Bytes(b)
<1>1. /\ r \in Seq(Byte) /\ Len(r) > 0 /\ pos + Len(r) <= Len(flat)
      /\ \A i \in 1 .. Len(r) : r[i] = flat[pos + i]
  BY ReadAtIsPiece
<1>2. flat \in Seq(Byte) /\ Len(flat) \in Nat BY SumsArePositions
<1> DEFINE to == pos + Len(r)
           y == SubSeq(flat, pos + 1, to)
<1> HIDE DEF flat
<1>3. to \in Nat /\ pos + 1 <= to /\ to <= Len(flat) BY <1>1
<1> HIDE DEF to
<1>4. /\ y \in Seq(Byte) /\ Len(y) = to - (pos + 1) + 1
      /\ \A i \in 1 .. to - (pos + 1) + 1 : y[i] = flat[pos + 1 + i - 1]
  <2>1. pos + 1 \in Int /\ to \in Int BY <1>3
  <2>2. \A i \in pos + 1 .. to : flat[i] \in Byte BY <1>2, <1>3
  <2> QED BY <1>3, <2>1, <2>2, SubSeqProperties
<1> HIDE DEF y
<1>5. Len(y) = Len(r) BY <1>1, <1>3, <1>4 DEF to
<1>6. ASSUME NEW i \in 1 .. Len(r) PROVE y[i] = r[i]
  <2>1. i \in 1 .. to - (pos + 1) + 1 /\ pos + 1 + i - 1 = pos + i
    BY <1>1, <1>3, <1>4, <1>5
  <2> QED BY <1>1, <1>4, <2>1
<1>7. r = y BY <1>1, <1>4, <1>5, <1>6, SeqEqual
<1> QED BY <1>1, <1>7 DEF to, y, flat

(***************************************************************************)
(* Read from the end of the first k commands, when none is empty, a read   *)
(* returns the next one whole.                                             *)
(***************************************************************************)
LEMMA ReadAtWholeCommand ==
    ASSUME NEW b \in Ring, RingInv(b), \A i \in 1 .. Count(b) : Nth(Contents(b), i) # <<>>,
           NEW k \in 0 .. Count(b), NEW pos, pos = Len(Joined(Contents(b), k)),
           pos < Len(Bytes(b)), NEW r, r = ReadAt(b, pos)
    PROVE  /\ k < Count(b) /\ r = Nth(Contents(b), k + 1)
           /\ pos + Len(r) = Len(Joined(Contents(b), k + 1))
<1> DEFINE log == Contents(b)
           n == Count(b)
<1>1. n \in Nat /\ log \in Seq(Seq(Byte)) /\ Len(log) = n BY ContentsIsSeq, NAssumption
<1>2. Bytes(b) = Joined(log, n) BY <1>1, JoinedRecursion DEF Bytes
<1>3. \A j \in 0 .. n : Joined(log, j) \in Seq(Byte) /\ Len(Joined(log, j)) \in Nat
  <2>1. \A j \in 0 .. n : Joined(log, j) \in Seq(Byte) BY <1>1, JoinedRecursion
  <2> QED BY <2>1
<1>4. pos \in Nat BY <1>3
<1>5. PICK c \in 1 .. n : \E j \in 0 .. Len(Nth(log, c)) - 1 :
         /\ pos = Len(Joined(log, c - 1)) + j
         /\ r = SubSeq(Nth(log, c), j + 1, Len(Nth(log, c)))
  BY <1>4, ReadAtValue
<1>6. PICK j \in 0 .. Len(Nth(log, c)) - 1 :
         /\ pos = Len(Joined(log, c - 1)) + j
         /\ r = SubSeq(Nth(log, c), j + 1, Len(Nth(log, c)))
  BY <1>5
<1>7. \A i \in 1 .. n : Nth(log, i) # <<>> OBVIOUS
<1> HIDE DEF log, n
<1>8. /\ c \in 1 .. n /\ c \in 0 .. n /\ c - 1 \in 0 .. n /\ c \in 1 .. Len(log)
      /\ Nth(log, c) \in Seq(Byte)
      /\ Len(Joined(log, c)) = Len(Joined(log, c - 1)) + Len(Nth(log, c))
  <2>1. c \in 1 .. Len(log) BY <1>1
  <2> QED BY <1>1, <2>1, JoinedStep
<1>9. k = c - 1
  <2>1. CASE k < c - 1
    <3>1. Len(Joined(log, k)) < Len(Joined(log, c - 1))
      BY <1>1, <1>7, <1>8, <2>1, JoinedGrows DEF n
    <3>2. Len(Joined(log, c - 1)) \in Nat /\ j \in Nat BY <1>3, <1>6, <1>8
    <3>3. pos = Len(Joined(log, k)) BY DEF log
    <3> QED BY <1>4, <1>6, <3>1, <3>2, <3>3
  <2>2. CASE k >= c
    <3>1. k \in c .. Len(log) /\ c \in 0 .. Len(log) BY <1>1, <1>8, <2>2 DEF n
    <3>2. Len(Joined(log, c)) <= Len(Joined(log, k)) BY <1>1, <3>1, JoinedExtends
    <3>3. pos = Len(Joined(log, k)) BY DEF log
    <3>4. Len(Joined(log, c - 1)) \in Nat /\ Len(Nth(log, c)) \in Nat BY <1>3, <1>8
    <3>5. j < Len(Nth(log, c)) /\ j \in Nat BY <1>6, <3>4
    <3> QED BY <1>4, <1>6, <1>8, <3>2, <3>3, <3>4, <3>5
  <2> QED BY <1>8, <2>1, <2>2 DEF n
<1>10. j = 0
  <2>1. pos = Len(Joined(log, c - 1)) BY <1>9 DEF log
  <2> QED BY <1>4, <1>6, <1>8, <2>1
<1>11. r = Nth(log, c) BY <1>6, <1>8, <1>10, SubSeqFull
<1>12. k + 1 = c /\ k < n BY <1>1, <1>8, <1>9
<1> QED BY <1>6, <1>8, <1>9, <1>10, <1>11, <1>12 DEF log, n

(* The length that aesd_llseek measures is a natural number.               *)
LEMMA BufferLengthType ==
    ASSUME NEW b \in Ring
    PROVE  BufferLength(b) \in Nat
<1>1. [s \in Slot |-> Len(b.entry[s])] \in [Slot -> Nat] BY DEF Ring
<1>2. N \in 0 .. N BY NAssumption
<1> QED BY <1>1, <1>2, SizesAddUp DEF BufferLength

(* The count that AESDCHAR_IOCSEEKTO makes is one too.                     *)
LEMMA SeekByteCountType ==
    ASSUME NEW b \in Ring, NEW start \in Slot, NEW end \in Slot, NEW offset \in Nat
    PROVE  SeekByteCount(b, start, end, offset) \in Nat
<1> DEFINE term == [s \in Slot |-> IF s = end THEN offset ELSE Len(b.entry[s])]
           d == [k \in Slot |-> term[(start + k) % N]]
           rounds == (end + 1 - start) % N
<1>1. N \in Nat /\ N > 0 /\ start \in Int /\ end \in Int BY NAssumption DEF Slot
<1>2. \A x \in Int : x % N \in 0 .. N - 1 BY <1>1
<1>3. term \in [Slot -> Nat] BY DEF Ring
<1>4. \A k \in Slot : (start + k) % N \in Slot BY <1>1, <1>2 DEF Slot
<1>5. d \in [Slot -> Nat]
  <2> HIDE DEF term
  <2> QED BY <1>3, <1>4
<1>6. rounds \in 0 .. N BY <1>1, <1>2
<1>7. RunningSum(d)[rounds] \in Nat
  <2> HIDE DEF d, rounds
  <2> QED BY <1>5, <1>6, SizesAddUp
<1> QED BY <1>7 DEF SeekByteCount

(* fixed_size_llseek fails or returns a natural number.                    *)
LEMMA FixedSizeLlseekType ==
    ASSUME NEW pos \in Nat, NEW offset \in Int, NEW size \in Nat,
           NEW whence \in {"SET", "CUR", "END"}
    PROVE  FixedSizeLlseek(pos, offset, whence, size) \in Nat \cup {EINVAL}
BY DEF FixedSizeLlseek, SeekTo

(***************************************************************************)
(* The scan of aesd_write takes the bytes up to and including the first    *)
(* newline, or all of them when there is none.                             *)
(***************************************************************************)
LEMMA BytesToAddValue ==
    ASSUME NEW chunk \in Seq(Byte)
    PROVE  /\ BytesToAdd(chunk) \in Seq(Byte)
           /\ \A i \in 1 .. Len(BytesToAdd(chunk)) :
                  BytesToAdd(chunk)[i] = NL => i = Len(BytesToAdd(chunk))
<1> DEFINE T == Terminators(chunk)
           first == Min(T)
<1>1. CASE T = {}
  BY <1>1 DEF BytesToAdd, Terminators
<1>2. CASE T # {}
  <2>1. T \subseteq Nat /\ T \subseteq 1 .. Len(chunk) BY DEF Terminators
  <2>2. first \in T /\ \A k \in T : first <= k BY <1>2, <2>1, MinIsSmallest
  <2>3. first \in 1 .. Len(chunk) BY <2>1, <2>2
  <2>4. BytesToAdd(chunk) = SubSeq(chunk, 1, first) BY <1>2 DEF BytesToAdd
  <2>5. \A k \in 1 .. Len(chunk) : chunk[k] = NL => first <= k
    BY <2>2 DEF Terminators
  <2> HIDE DEF first
  <2>6. /\ SubSeq(chunk, 1, first) \in Seq(Byte)
        /\ Len(SubSeq(chunk, 1, first)) = first
        /\ \A i \in 1 .. first : SubSeq(chunk, 1, first)[i] = chunk[i]
    BY <2>3, SubSeqProperties
  <2>7. \A i \in 1 .. first : chunk[i] = NL => i = first BY <2>3, <2>5
  <2> QED BY <2>4, <2>6, <2>7
<1> QED BY <1>1, <1>2

(***************************************************************************)
(* aesd_llseek adds up the slots in the order of the array, the crawl adds *)
(* them from the oldest on: in a full ring the two sums are rotations of   *)
(* each other, and until it is full they start from the same slot.         *)
(***************************************************************************)
LEMMA LengthOfAll ==
    ASSUME NEW b \in Ring, RingInv(b)
    PROVE  BufferLength(b) = Len(Bytes(b))
<1> DEFINE o == b.out_offs
           d == [s \in Slot |-> Len(b.entry[s])]
           size == SizeInOrder(b)
           S == RunningSum(d)
           T == Sums(b)
           Good(k) == T[k] = IF o + k <= N THEN S[o + k] - S[o]
                             ELSE S[N] - S[o] + S[o + k - N]
           Bad == {k \in 0 .. N : ~Good(k)}
<1>1. o \in Slot /\ b.entry \in [Slot -> Seq(Byte)] BY DEF Ring
<1>2. d \in [Slot -> Nat] /\ d \in [Slot -> Int] BY <1>1
<1>3. \A k \in Slot : SlotAt(b, k) \in Slot /\ size[k] = d[SlotAt(b, k)]
  BY <1>1, SlotAtWraps DEF SizeInOrder
<1>4. \A k \in Slot : SlotAt(b, k) = IF o + k < N THEN o + k ELSE o + k - N
  BY <1>1, SlotAtWraps
<1>5. N \in Nat /\ N > 0 /\ o \in 0 .. N - 1 BY <1>1, NAssumption DEF Slot
<1>6. T[N] = Len(Bytes(b))
  <2>1. N \in Count(b) .. N BY ContentsIsSeq, <1>5
  <2> QED BY <2>1, SumsArePositions
<1>7. /\ size \in [Slot -> Nat] /\ T[0] = 0 /\ \A k \in 0 .. N : T[k] \in Nat
      /\ \A k \in 1 .. N : T[k] = T[k - 1] + size[k - 1]
  BY SumsStep
<1> HIDE DEF d
<1>8. /\ S[0] = 0 /\ \A k \in 0 .. N : S[k] \in Nat
      /\ \A k \in 1 .. N : S[k] = S[k - 1] + d[k - 1]
  BY <1>2, RunningSumValues, SizesAddUp
<1> HIDE DEF S, T, size, o
<1>9. Good(0)
  <2>1. o + 0 = o /\ o \in 0 .. N BY <1>5
  <2> QED BY <1>5, <1>7, <1>8, <2>1
<1>10. ASSUME NEW k \in 1 .. N, Good(k - 1) PROVE Good(k)
  <2>1. k - 1 \in Slot /\ k - 1 \in 0 .. N BY <1>5 DEF Slot
  <2>2. T[k] = T[k - 1] + size[k - 1] /\ size[k - 1] = d[SlotAt(b, k - 1)]
    BY <1>3, <1>7, <2>1
  <2>3. CASE o + k <= N
    <3>1. SlotAt(b, k - 1) = (o + k) - 1 BY <1>4, <1>5, <2>1, <2>3
    <3>2. o + k \in 1 .. N /\ o + (k - 1) = (o + k) - 1 /\ o + (k - 1) <= N
      BY <1>5, <2>3
    <3>3. S[o + k] = S[(o + k) - 1] + d[(o + k) - 1] BY <1>8, <3>2
    <3>4. T[k - 1] = S[(o + k) - 1] - S[o] BY <1>10, <3>2
    <3>5. /\ S[o] \in Nat /\ S[(o + k) - 1] \in Nat /\ d[(o + k) - 1] \in Nat
      <4>1. o \in 0 .. N /\ (o + k) - 1 \in 0 .. N /\ (o + k) - 1 \in Slot
        BY <1>5, <2>3 DEF Slot
      <4> QED BY <1>2, <1>8, <4>1
    <3>6. T[k] = S[o + k] - S[o] BY <2>2, <3>1, <3>3, <3>4, <3>5
    <3> QED BY <2>3, <3>6
  <2>4. CASE ~(o + k <= N)
    <3> DEFINE j == o + k - N
    <3>1. /\ j \in 1 .. N /\ j - 1 \in Slot /\ j - 1 \in 0 .. N /\ o \in 0 .. N /\ N \in 0 .. N
          /\ SlotAt(b, k - 1) = j - 1
      BY <1>4, <1>5, <2>1, <2>4 DEF Slot
    <3>2. S[j] = S[j - 1] + d[j - 1] BY <1>8, <3>1
    <3>3. /\ S[o] \in Nat /\ S[N] \in Nat /\ S[j - 1] \in Nat /\ d[j - 1] \in Nat
      BY <1>2, <1>8, <3>1
    <3>4. T[k - 1] = S[N] - S[o] + S[j - 1]
      <4>1. CASE o + (k - 1) <= N
        <5>1. o + (k - 1) = N /\ j - 1 = 0 BY <1>5, <2>4, <4>1
        <5> HIDE DEF j
        <5>2. T[k - 1] = S[N] - S[o] BY <1>10, <4>1, <5>1
        <5> QED BY <1>8, <3>3, <5>1, <5>2
      <4>2. CASE ~(o + (k - 1) <= N)
        <5>1. o + (k - 1) - N = j - 1 BY <1>5
        <5> HIDE DEF j
        <5> QED BY <1>10, <4>2, <5>1
      <4> QED BY <4>1, <4>2
    <3> HIDE DEF j
    <3>5. T[k] = S[N] - S[o] + S[j] BY <2>2, <3>1, <3>2, <3>3, <3>4
    <3> QED BY <2>4, <3>5 DEF j
  <2> QED BY <2>3, <2>4
<1> HIDE DEF Good
<1>11. Bad = {}
  <2> SUFFICES ASSUME Bad # {} PROVE FALSE OBVIOUS
  <2>1. Bad \subseteq Nat BY <1>5
  <2>2. PICK m \in Bad : \A k \in Bad : m <= k
    <3> HIDE DEF Bad
    <3> QED BY <2>1, SmallestNumber
  <2>3. m \in 0 .. N /\ ~Good(m) /\ m # 0 BY <1>9
  <2>4. m - 1 \in 0 .. N /\ m \in 1 .. N BY <1>5, <2>3
  <2>5. m - 1 \notin Bad
    <3> HIDE DEF Bad
    <3> QED BY <1>5, <2>2, <2>3
  <2>6. Good(m - 1) BY <2>4, <2>5
  <2> QED BY <1>10, <2>3, <2>4, <2>6
<1>12. Good(N)
  <2>1. N \in 0 .. N BY <1>5
  <2> QED BY <1>11, <2>1
<1>13. T[N] = S[N]
  <2>1. CASE o + N <= N
    <3>1. o = 0 /\ o + N = N BY <1>5, <2>1
    <3> QED BY <1>5, <1>8, <1>12, <3>1 DEF Good
  <2>2. CASE ~(o + N <= N)
    <3>1. o + N - N = o /\ o \in 0 .. N /\ N \in 0 .. N BY <1>5
    <3>2. S[o] \in Nat /\ S[N] \in Nat BY <1>8, <3>1
    <3>3. T[N] = S[N] - S[o] + S[o] BY <1>12, <2>2, <3>1 DEF Good
    <3> QED BY <3>2, <3>3
  <2> QED BY <2>1, <2>2
<1> QED BY <1>6, <1>13 DEF BufferLength, S, d

(***************************************************************************)
(* The count of AESDCHAR_IOCSEEKTO for a stored command that is not the    *)
(* N-th, when the ring does not change under it: the bytes of the commands *)
(* before it and the offset.                                               *)
(***************************************************************************)
LEMMA SeekByteCountValue ==
    ASSUME NEW b \in Ring, RingInv(b), NEW offset \in Nat,
           NEW c \in Nat, c < N - 1, c < Count(b)
    PROVE  SeekByteCount(b, b.out_offs, SlotAt(b, c), offset)
             = Len(Joined(Contents(b), c)) + offset
<1> DEFINE o == b.out_offs
           end == SlotAt(b, c)
           term == [s \in Slot |-> IF s = end THEN offset ELSE Len(b.entry[s])]
           d == [k \in Slot |-> term[(o + k) % N]]
           rounds == (end + 1 - o) % N
           size == SizeInOrder(b)
           S == RunningSum(d)
           T == Sums(b)
<1>1. /\ o \in Slot /\ b.entry \in [Slot -> Seq(Byte)] /\ N \in Nat /\ N > 0 /\ o \in 0 .. N - 1
      /\ c \in Slot
  BY NAssumption DEF Ring, Slot
<1>2. \A k \in Slot : /\ SlotAt(b, k) = IF o + k < N THEN o + k ELSE o + k - N
                      /\ SlotAt(b, k) \in Slot
  BY <1>1, SlotAtWraps
<1>3. rounds = c + 1
  <2> DEFINE x == end + 1 - o
  <2>5. /\ o \in Int /\ c \in Int /\ N \in Int
        /\ end = o + c \/ end = o + c - N
    BY <1>1, <1>2
  <2>1. x = c + 1 \/ x = c + 1 - N
    <3> HIDE DEF end, o
    <3> QED BY <2>5
  <2>2. x \in Int /\ c + 1 \in 0 .. N - 1 BY <1>1, <2>1
  <2> DEFINE m == c + 1
  <2>3. x \in Int /\ m \in Int /\ 0 <= m /\ m < N /\ (x = m \/ x = m - N)
    BY <1>1, <2>1, <2>2
  <2> HIDE DEF x, m
  <2>4. x % N = m BY <2>3, SmallRemainders
  <2> QED BY <2>4 DEF x, m
<1>4. \A k \in Slot : d[k] = IF k = c THEN offset ELSE size[k]
  <2> SUFFICES ASSUME NEW k \in Slot PROVE d[k] = IF k = c THEN offset ELSE size[k] OBVIOUS
  <2>1. d[k] = IF SlotAt(b, k) = end THEN offset ELSE Len(b.entry[SlotAt(b, k)])
    BY <1>2 DEF SlotAt
  <2>3. /\ o \in 0 .. N - 1 /\ N \in Nat /\ c \in 0 .. N - 1 /\ k \in 0 .. N - 1
        /\ end = IF o + c < N THEN o + c ELSE o + c - N
    BY <1>1, <1>2 DEF Slot
  <2>4. SlotAt(b, k) = IF o + k < N THEN o + k ELSE o + k - N BY <1>2
  <2>2. SlotAt(b, k) = end <=> k = c
    <3> HIDE DEF end, o
    <3> QED BY <2>3, <2>4
  <2> QED BY <2>1, <2>2 DEF SizeInOrder
<1>5. /\ size \in [Slot -> Nat] /\ T[0] = 0 /\ \A k \in 0 .. N : T[k] \in Nat
      /\ \A k \in 1 .. N : T[k] = T[k - 1] + size[k - 1]
  BY SumsStep
<1> HIDE DEF size
<1>6. d \in [Slot -> Int]
  <2>1. \A k \in Slot : d[k] \in Int BY <1>4, <1>5
  <2>2. d = [k \in Slot |-> d[k]] OBVIOUS
  <2> HIDE DEF d
  <2> QED BY <2>1, <2>2
<1> HIDE DEF d
<1>7. S[0] = 0 /\ \A k \in 1 .. N : S[k] = S[k - 1] + d[k - 1]
  BY <1>6, RunningSumValues
<1> HIDE DEF S, T, rounds
<1>8. S[c] = T[c]
  <2> DEFINE Bad == {k \in 0 .. c : S[k] # T[k]}
  <2>1. Bad = {}
    <3> SUFFICES ASSUME Bad # {} PROVE FALSE OBVIOUS
    <3>1. Bad \subseteq Nat BY <1>1
    <3>2. PICK m \in Bad : \A k \in Bad : m <= k
      <4> HIDE DEF Bad
      <4> QED BY <3>1, SmallestNumber
    <3>3. m \in 0 .. c /\ S[m] # T[m] /\ m # 0 BY <1>5, <1>7
    <3>4. m - 1 \in 0 .. c /\ m \in 1 .. N /\ m - 1 \in Slot /\ m - 1 # c
      BY <1>1, <3>3 DEF Slot
    <3>5. m - 1 \notin Bad
      <4> HIDE DEF Bad
      <4> QED BY <3>2, <3>3
    <3>6. S[m - 1] = T[m - 1] BY <3>4, <3>5
    <3> QED BY <1>4, <1>5, <1>7, <3>3, <3>4, <3>6
  <2>2. c \in 0 .. c OBVIOUS
  <2> QED BY <2>1, <2>2
<1>9. S[c + 1] = T[c] + offset
  <2>1. c + 1 \in 1 .. N /\ (c + 1) - 1 = c BY <1>1
  <2>2. S[c + 1] = S[c] + d[c] BY <1>7, <2>1
  <2> QED BY <1>1, <1>4, <1>8, <2>2
<1>10. T[c] = Len(Joined(Contents(b), c))
  <2>1. c \in 0 .. Count(b) BY ContentsIsSeq
  <2> QED BY <2>1, SumsArePositions DEF T
<1>11. SeekByteCount(b, o, end, offset) = S[rounds] BY DEF SeekByteCount, S, d, rounds
<1> QED BY <1>3, <1>9, <1>10, <1>11
===============================================================================
