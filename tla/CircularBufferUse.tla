-------------------------- MODULE CircularBufferUse --------------------------
(***************************************************************************)
(* The ring as its callers drive it: aesd_circular_buffer_init once, then  *)
(* any series of aesd_circular_buffer_add_entry, whose result the caller   *)
(* frees.  The caller owns the memory, so the module keeps two histories:  *)
(* the entries handed to the ring and the entries it handed back.          *)
(***************************************************************************)
EXTENDS CircularBuffer

CONSTANTS
    Entry,      \* the entries a caller may add: non-empty sequences of Byte
    MaxAdds     \* bound on the number of calls, for model checking

ASSUME EntryAssumption == Entry \subseteq Seq(Byte) \ {<<>>}
ASSUME MaxAddsAssumption == MaxAdds \in Nat

VARIABLES
    buffer,     \* the struct aesd_circular_buffer
    added,      \* history: every add_entry argument, in order
    returned    \* history: every non-NULL result of add_entry, in order

ringVars == <<buffer, added, returned>>

RingInit ==
    /\ buffer = EmptyRing
    /\ added = <<>>
    /\ returned = <<>>

(* The result of add_entry: NULL, or the string of the entry it replaces.  *)
Replaced(b) == IF b.full THEN <<b.entry[b.in_offs]>> ELSE <<>>

Add(e) ==
    /\ Len(added) < MaxAdds
    /\ returned' = returned \o Replaced(buffer)
    /\ buffer' = AddEntry(buffer, e)
    /\ added' = Append(added, e)

RingNext == \E e \in Entry : Add(e)

RingSpec == RingInit /\ [][RingNext]_ringVars

-------------------------------------------------------------------------------
(* Types of the state.                                                     *)
RingTypeOK ==
    /\ buffer \in Ring
    /\ added \in Seq(Entry)
    /\ returned \in Seq(Entry)

(***************************************************************************)
(* No entry is lost, duplicated or reordered, and none is handed back for  *)
(* freeing while the ring still refers to it: what came back followed by   *)
(* what is stored is exactly what went in.                                 *)
(***************************************************************************)
Conservation == returned \o Contents(buffer) = added

(***************************************************************************)
(* The ring starts to hand entries back only when it must: it keeps the    *)
(* last N entries, all of them while there are at most N.                  *)
(***************************************************************************)
KeepsTheLastN == Len(Contents(buffer)) = Min({N, Len(added)})

(***************************************************************************)
(* The crawl over the slots agrees with plain indexing into the stored     *)
(* strings laid end to end ("the zero referenced character index if all    *)
(* buffer strings were concatenated end to end", aesd-circular-buffer.c):  *)
(* a position holds a byte exactly when it is less than the total length,  *)
(* and the entry and offset returned denote that byte of that entry.       *)
(***************************************************************************)
FindAgreesWithConcatenation ==
    LET log == Contents(buffer)
        flat == Bytes(buffer)
    IN  \A pos \in 0 .. Len(flat) + 2 :
          LET f == FindEntryOffset(buffer, pos)
          IN  IF pos >= Len(flat)
              THEN f = NotFound
              ELSE \E c \in 1 .. Len(log) :
                     /\ f.slot = SlotAt(buffer, c - 1)
                     /\ f.byte \in 0 .. Len(log[c]) - 1
                     /\ pos = CommandStart(log, c - 1) + f.byte
===============================================================================
