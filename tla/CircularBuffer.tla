---------------------------- MODULE CircularBuffer ----------------------------
(***************************************************************************)
(* The ring of commands of aesd-char-driver/aesd-circular-buffer.{h,c} as  *)
(* operators on a record, for the modules that own a ring (CircularBuffer- *)
(* Use, AesdChar, AesdServer).                                             *)
(*                                                                         *)
(* An entry {buffptr, size} is the sequence of its bytes, and the zeroed   *)
(* entry {NULL, 0} is the empty sequence.  Slots count from 0 as in C.     *)
(***************************************************************************)
EXTENDS Integers, Sequences, FiniteSetsExt, SequencesExt

CONSTANTS
    N,      \* AESDCHAR_MAX_WRITE_OPERATIONS_SUPPORTED (10 in the code)
    Byte    \* the characters a command is made of

ASSUME NAssumption == N \in Nat \ {0}

Slot == 0 .. N - 1

Ring == [entry : [Slot -> Seq(Byte)], in_offs : Slot, out_offs : Slot, full : BOOLEAN]

(* aesd_circular_buffer_init: memset to zero.                              *)
EmptyRing ==
    [entry |-> [s \in Slot |-> <<>>], in_offs |-> 0, out_offs |-> 0, full |-> FALSE]

(* Fault: the index runs past the end of the array.                        *)
AdvanceUnwrapped(offs) == offs + 1

Advance(offs) == (offs + 1) % N

(* The entry stored i places after the oldest one.                         *)
SlotAt(b, i) == (b.out_offs + i) % N

(* Fault: a full ring drops its oldest entry but out_offs stays behind.    *)
AddEntryLeavingOut(b, e) ==
    LET in == Advance(b.in_offs)
    IN  [b EXCEPT !.entry[b.in_offs] = e, !.in_offs = in, !.full = @ \/ in = b.out_offs]

(* Fault: the ring counts as full one entry early.                         *)
AddEntryFullEarly(b, e) ==
    LET in  == Advance(b.in_offs)
        out == IF b.full THEN Advance(b.out_offs) ELSE b.out_offs
    IN  [b EXCEPT !.entry[b.in_offs] = e, !.in_offs = in, !.out_offs = out,
                  !.full = @ \/ Advance(in) = out]

(***************************************************************************)
(* aesd_circular_buffer_add_entry.  Nothing ever takes an entry out, so    *)
(* the code sets `full' and never clears it.                               *)
(***************************************************************************)
AddEntry(b, e) ==
    LET in  == Advance(b.in_offs)
        out == IF b.full THEN Advance(b.out_offs) ELSE b.out_offs
    IN  [entry    |-> [b.entry EXCEPT ![b.in_offs] = e],
         in_offs  |-> in,
         out_offs |-> out,
         full     |-> b.full \/ in = out]

(***************************************************************************)
(* The loops of the ring and of the driver add up sizes slot by slot:      *)
(* RunningSum(d)[i] is the sum of the first i of the numbers d[0], d[1]..  *)
(***************************************************************************)
RunningSum(d) ==
    LET sum[i \in 0 .. N] == IF i = 0 THEN 0 ELSE sum[i - 1] + d[i - 1]
    IN  sum

(***************************************************************************)
(* aesd_circular_buffer_find_entry_offset_for_fpos.  The crawler visits    *)
(* the slots from the oldest on; CharDifference is what is left of the     *)
(* position when it reaches the i-th.  It returns at the first i where it  *)
(* meets the input pointer of a ring that is not full (nothing found) or   *)
(* where the entry is longer than what is left (found).  byte is           *)
(* entry_offset_byte_rtn, which aesd_read presets to -1 and which is set   *)
(* only when found.                                                        *)
(***************************************************************************)
SizeInOrder(b) == [i \in Slot |-> Len(b.entry[SlotAt(b, i)])]

CharDifference(b, pos, i) == pos - RunningSum(SizeInOrder(b))[i]

NotFound == [slot |-> 0, byte |-> -1]

AtInput(b, i) == ~b.full /\ SlotAt(b, i) = b.in_offs

(* Fault: a position right behind an entry is taken to be inside it.       *)
ReturnsOnEqual(b, pos) ==
    {i \in Slot : AtInput(b, i) \/ CharDifference(b, pos, i) <= SizeInOrder(b)[i]}

Returns(b, pos) ==
    {i \in Slot : AtInput(b, i) \/ CharDifference(b, pos, i) < SizeInOrder(b)[i]}

FindEntryOffset(b, pos) ==
    IF Returns(b, pos) = {} \/ AtInput(b, Min(Returns(b, pos)))
    THEN NotFound
    ELSE LET i == Min(Returns(b, pos))
         IN  [slot |-> SlotAt(b, i), byte |-> CharDifference(b, pos, i)]

-------------------------------------------------------------------------------
(***************************************************************************)
(* What a ring means: its entries from the oldest to the newest, and the   *)
(* bytes of those entries end to end.  These are not in the code; the      *)
(* properties and the refinement are stated with them.                     *)
(***************************************************************************)
Count(b) == IF b.full THEN N ELSE b.in_offs

Contents(b) == [i \in 1 .. Count(b) |-> b.entry[SlotAt(b, i - 1)]]

Bytes(b) == FlattenSeq(Contents(b))

(* The byte position at which the c-th command of a log starts.            *)
CommandStart(log, c) == Len(FlattenSeq(SubSeq(log, 1, c)))

(* Push a command on a log that keeps the N most recent.                   *)
Push(log, c) == IF Len(log) < N THEN Append(log, c) ELSE Append(Tail(log), c)

(***************************************************************************)
(* The shape of every reachable ring: until it is full the oldest entry is *)
(* in slot 0 and the slots from the input pointer on are zero; from then   *)
(* on the input pointer is on the oldest entry, the next one to replace.   *)
(***************************************************************************)
RingInv(b) ==
    IF b.full
    THEN b.in_offs = b.out_offs
    ELSE b.out_offs = 0 /\ \A s \in b.in_offs .. N - 1 : b.entry[s] = <<>>
===============================================================================
