------------------------ MODULE CircularBufferTheorems ------------------------
(***************************************************************************)
(* Theorems about a ring in use, for every N and every set of entries.     *)
(***************************************************************************)
EXTENDS CircularBufferUse, RingLemmas

(***************************************************************************)
(* The inductive invariant: the shape of the ring and the two histories.   *)
(* Without the shape nothing says that the slot add_entry writes is the    *)
(* one that holds the oldest entry; the last conjunct, that nothing is     *)
(* handed back before the ring is full, bounds the number of entries kept. *)
(***************************************************************************)
Inv ==
    /\ RingTypeOK
    /\ RingInv(buffer)
    /\ Conservation
    /\ Count(buffer) < N => returned = <<>>

-------------------------------------------------------------------------------
LEMMA InitInv == RingInit => Inv
<1> SUFFICES ASSUME RingInit PROVE Inv OBVIOUS
<1>1. buffer = EmptyRing /\ added = <<>> /\ returned = <<>> BY DEF RingInit
<1>2. EmptyRing \in Ring /\ RingInv(EmptyRing) /\ Count(EmptyRing) = 0
  BY NAssumption DEF EmptyRing, Ring, RingInv, Count, Slot
<1>3. Contents(EmptyRing) = <<>> BY <1>2, ContentsIsSeq
<1>4. RingTypeOK BY <1>1, <1>2 DEF RingTypeOK
<1>5. Conservation BY <1>1, <1>3 DEF Conservation
<1> QED BY <1>1, <1>2, <1>4, <1>5 DEF Inv

(* The entry that add_entry replaces in a full ring is the oldest one.     *)
LEMMA ReplacedIsOldest ==
    ASSUME NEW b \in Ring, RingInv(b)
    PROVE  /\ ~b.full => Replaced(b) = <<>> /\ Count(b) < N
           /\ b.full => Replaced(b) = <<Head(Contents(b))>> /\ Count(b) = N
<1>1. b.in_offs \in Slot /\ b.out_offs \in Slot BY DEF Ring
<1>2. CASE ~b.full BY <1>1, <1>2, NAssumption DEF Replaced, Count, Slot
<1>3. CASE b.full
  <2>1. b.out_offs = b.in_offs /\ Count(b) = N BY <1>3 DEF RingInv, Count
  <2>2. 0 \in Slot BY NAssumption DEF Slot
  <2>3. SlotAt(b, 0) = b.out_offs
    <3>1. SlotAt(b, 0) = IF b.out_offs + 0 < N THEN b.out_offs + 0 ELSE b.out_offs + 0 - N
      BY <1>1, <2>2, SlotAtWraps
    <3> QED BY <1>1, <3>1, NAssumption DEF Slot
  <2>4. Len(Contents(b)) = N /\ Contents(b) \in Seq(Seq(Byte)) BY <2>1, ContentsIsSeq
  <2>5. Head(Contents(b)) = Contents(b)[1] BY <2>4, NAssumption
  <2>6. Contents(b)[1] = b.entry[b.in_offs]
    BY <2>1, <2>3, NAssumption DEF Contents
  <2> QED BY <1>3, <2>1, <2>5, <2>6 DEF Replaced
<1> QED BY <1>2, <1>3

(* Appending after concatenating, and the converse.                        *)
LEMMA ConcatAppend ==
    ASSUME NEW S, NEW s \in Seq(S), NEW t \in Seq(S), NEW x \in S
    PROVE  s \o Append(t, x) = Append(s \o t, x)
BY AppendIsConcat, ConcatAssociative, ConcatProperties, <<x>> \in Seq(S)

LEMMA AddInv ==
    ASSUME Inv, NEW e \in Entry, Add(e)
    PROVE  Inv'
<1> DEFINE b == buffer
           log == Contents(b)
<1>1. /\ b \in Ring /\ RingInv(b) /\ e \in Seq(Byte)
      /\ added \in Seq(Entry) /\ returned \in Seq(Entry) /\ returned \o log = added
      /\ Count(b) < N => returned = <<>>
  BY EntryAssumption DEF Inv, RingTypeOK, Conservation
<1>2. /\ returned' = returned \o Replaced(b)
      /\ buffer' = AddEntry(b, e)
      /\ added' = Append(added, e)
  BY DEF Add
<1>3. buffer' \in Ring /\ RingInv(buffer') BY <1>1, <1>2, AddEntryShape
<1>4. log \in Seq(Seq(Byte)) /\ Len(log) = Count(b) BY <1>1, ContentsIsSeq
<1>5. Contents(buffer') = Push(log, e) BY <1>1, <1>2, ContentsAfterAdd
<1>6. added' \in Seq(Entry) BY <1>1, <1>2
<1>7. N \in Nat /\ N > 0 BY NAssumption
<1>8. /\ ~b.full => Replaced(b) = <<>> /\ Len(log) < N
      /\ b.full => Replaced(b) = <<Head(log)>> /\ Len(log) = N
  BY <1>1, <1>4, ReplacedIsOldest
<1>9. Count(buffer') = Len(Push(log, e))
  BY <1>3, <1>5, ContentsIsSeq
<1>10. returned \in Seq(Seq(Byte)) /\ e \in Seq(Byte) BY <1>1, EntryAssumption, SeqMonotonic
<1> HIDE DEF b, log
<1>11. CASE ~b.full
  <2>1. returned' = returned BY <1>1, <1>2, <1>8, <1>11
  <2>2. Push(log, e) = Append(log, e) BY <1>8, <1>11 DEF Push
  <2>3. returned \o Append(log, e) = Append(returned \o log, e)
    BY <1>4, <1>10, ConcatAppend
  <2>4. Conservation' BY <1>1, <1>2, <1>5, <2>1, <2>2, <2>3 DEF Conservation
  <2>5. returned' \in Seq(Entry) /\ returned' = <<>> BY <1>1, <1>4, <1>8, <1>11, <2>1
  <2> QED BY <1>3, <1>6, <2>4, <2>5 DEF Inv, RingTypeOK
<1>12. CASE b.full
  <2>1. log # <<>> /\ Len(log) = N BY <1>4, <1>7, <1>8, <1>12
  <2>2. /\ Tail(log) \in Seq(Seq(Byte)) /\ Len(Tail(log)) = N - 1
        /\ log = <<Head(log)>> \o Tail(log)
    BY <1>4, <1>7, <2>1, HeadTailProperties
  <2>3. Push(log, e) = Append(Tail(log), e) BY <1>7, <2>1 DEF Push
  <2>4. Head(log) \in Entry
    <3>1. Len(returned) + 1 \in 1 .. Len(added) /\ added[Len(returned) + 1] = log[1]
      BY <1>1, <1>4, <1>7, <2>1
    <3>2. added[Len(returned) + 1] \in Entry BY <1>1, <3>1
    <3> QED BY <1>4, <2>1, <3>1, <3>2
  <2>5. returned' = returned \o <<Head(log)>> BY <1>2, <1>8, <1>12
  <2>6. returned' \in Seq(Entry) BY <1>1, <2>4, <2>5
  <2>7. returned' \o Append(Tail(log), e) = Append(returned \o (<<Head(log)>> \o Tail(log)), e)
    <3>1. Head(log) \in Seq(Byte) /\ <<Head(log)>> \in Seq(Seq(Byte))
      BY <2>4, EntryAssumption
    <3> DEFINE strings == Seq(Byte)
               first == <<Head(log)>>
               rest == Tail(log)
    <3>4. /\ returned \in Seq(strings) /\ e \in strings
          /\ first \in Seq(strings) /\ rest \in Seq(strings)
          /\ returned' = returned \o first
      BY <1>10, <2>2, <2>5, <3>1
    <3> HIDE DEF strings, first, rest
    <3>5. returned' \in Seq(strings) BY <3>4, ConcatProperties
    <3>2. returned' \o Append(rest, e) = Append(returned' \o rest, e)
      BY <3>4, <3>5, ConcatAppend
    <3>3. returned' \o rest = returned \o (first \o rest)
      BY <3>4, ConcatAssociative
    <3> QED BY <3>2, <3>3 DEF first, rest
  <2>8. Conservation' BY <1>1, <1>2, <1>5, <2>2, <2>3, <2>7 DEF Conservation
  <2>9. Count(buffer') = N BY <1>7, <1>9, <2>2, <2>3
  <2> QED BY <1>3, <1>6, <1>7, <2>6, <2>8, <2>9 DEF Inv, RingTypeOK
<1> QED BY <1>11, <1>12

LEMMA NextInv == Inv /\ [RingNext]_ringVars => Inv'
<1> SUFFICES ASSUME Inv, [RingNext]_ringVars PROVE Inv' OBVIOUS
<1>1. CASE RingNext
  <2>1. PICK e \in Entry : Add(e) BY <1>1 DEF RingNext
  <2> QED BY <2>1, AddInv
<1>2. CASE UNCHANGED ringVars
  BY <1>2 DEF ringVars, Inv, RingTypeOK, Conservation
<1> QED BY <1>1, <1>2

LEMMA Invariance == RingSpec => []Inv
BY InitInv, NextInv, PTL DEF RingSpec

-------------------------------------------------------------------------------
(* The state has its type, whatever the callers add.                       *)
THEOREM TypeCorrect == RingSpec => []RingTypeOK
<1>1. Inv => RingTypeOK BY DEF Inv
<1> QED BY <1>1, Invariance, PTL

(***************************************************************************)
(* aesd_circular_buffer_add_entry loses, duplicates and reorders nothing,  *)
(* and hands back no string the ring still refers to.                      *)
(***************************************************************************)
THEOREM NothingLost == RingSpec => []Conservation
<1>1. Inv => Conservation BY DEF Inv
<1> QED BY <1>1, Invariance, PTL

(* The ring keeps the last N entries, or all of them when they are fewer.  *)
THEOREM LastNKept == RingSpec => []KeepsTheLastN
<1>1. Inv => KeepsTheLastN
  <2> SUFFICES ASSUME Inv PROVE KeepsTheLastN OBVIOUS
  <2>1. /\ buffer \in Ring /\ RingInv(buffer) /\ returned \in Seq(Entry)
        /\ returned \o Contents(buffer) = added
        /\ Count(buffer) < N => returned = <<>>
    BY DEF Inv, RingTypeOK, Conservation
  <2>2. /\ Contents(buffer) \in Seq(Seq(Byte)) /\ Count(buffer) \in 0 .. N
        /\ Len(Contents(buffer)) = Count(buffer)
    BY <2>1, ContentsIsSeq
  <2>3. Len(added) = Len(returned) + Count(buffer) BY <2>1, <2>2
  <2>4. N \in Nat /\ Len(returned) \in Nat BY <2>1, NAssumption
  <2>5. Min({N, Len(added)}) \in {N, Len(added)}
        /\ \A k \in {N, Len(added)} : Min({N, Len(added)}) <= k
    <3>1. {N, Len(added)} \subseteq Nat BY <2>2, <2>3, <2>4
    <3> QED BY <3>1, MinIsSmallest
  <2>6. Min({N, Len(added)}) = Count(buffer)
    <3>1. CASE Count(buffer) < N
      <4>1. Len(added) = Count(buffer) BY <2>1, <2>2, <2>3, <3>1
      <4> QED BY <2>2, <2>4, <2>5, <3>1, <4>1
    <3>2. CASE Count(buffer) = N
      BY <2>2, <2>3, <2>4, <2>5, <3>2
    <3> QED BY <2>2, <2>4, <3>1, <3>2
  <2> QED BY <2>2, <2>6 DEF KeepsTheLastN
<1> QED BY <1>1, Invariance, PTL

(***************************************************************************)
(* aesd_circular_buffer_find_entry_offset_for_fpos finds, from the oldest  *)
(* slot on, the byte that plain indexing into the stored strings laid end  *)
(* to end would give, and nothing from their end on.                       *)
(***************************************************************************)
THEOREM FindsTheByte == RingSpec => []FindAgreesWithConcatenation
<1>1. Inv => FindAgreesWithConcatenation
  <2> SUFFICES ASSUME Inv, NEW pos \in 0 .. Len(Bytes(buffer)) + 2
               PROVE  IF pos >= Len(Bytes(buffer))
                      THEN FindEntryOffset(buffer, pos) = NotFound
                      ELSE \E c \in 1 .. Len(Contents(buffer)) :
                             /\ FindEntryOffset(buffer, pos).slot = SlotAt(buffer, c - 1)
                             /\ FindEntryOffset(buffer, pos).byte
                                  \in 0 .. Len(Contents(buffer)[c]) - 1
                             /\ pos = CommandStart(Contents(buffer), c - 1)
                                        + FindEntryOffset(buffer, pos).byte
    BY DEF FindAgreesWithConcatenation
  <2>1. buffer \in Ring /\ RingInv(buffer) BY DEF Inv, RingTypeOK
  <2>2. pos \in Nat BY <2>1, SumsArePositions
  <2>3. Len(Contents(buffer)) = Count(buffer) BY <2>1, ContentsIsSeq
  <2>4. CASE pos >= Len(Bytes(buffer))
    BY <2>1, <2>2, <2>4, FindIsSearch
  <2>5. CASE ~(pos >= Len(Bytes(buffer)))
    <3>1. PICK c \in 1 .. Count(buffer) :
             /\ FindEntryOffset(buffer, pos).slot = SlotAt(buffer, c - 1)
             /\ FindEntryOffset(buffer, pos).byte \in 0 .. Len(Nth(Contents(buffer), c)) - 1
             /\ pos = Len(Joined(Contents(buffer), c - 1)) + FindEntryOffset(buffer, pos).byte
      BY <2>1, <2>2, <2>5, FindIsSearch
    <3>2. /\ Contents(buffer)[c] = Nth(Contents(buffer), c)
          /\ CommandStart(Contents(buffer), c - 1) = Len(Joined(Contents(buffer), c - 1))
      BY DEF Nth, CommandStart, Joined
    <3> QED BY <2>3, <2>5, <3>1, <3>2, Zenon
  <2> QED BY <2>4, <2>5
<1> QED BY <1>1, Invariance, PTL
===============================================================================
