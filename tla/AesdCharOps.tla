----------------------------- MODULE AesdCharOps -----------------------------
(***************************************************************************)
(* The computations inside the file operations of aesd-char-driver/main.c, *)
(* as operators on the ring, the caller's buffer and a file position.      *)
(* AesdChar runs them step by step with other processes in between;        *)
(* AesdServer runs them as whole system calls under its own lock.          *)
(***************************************************************************)
EXTENDS CircularBuffer

CONSTANT NL         \* the byte '\n'

ASSUME NLAssumption == NL \in Byte

EINVAL == -22       \* errors are returned as negative numbers

(***************************************************************************)
(* aesd_write: the scan of the caller's buffer for the command terminator. *)
(* Bytes after the first one are not taken: the write is partial.          *)
(***************************************************************************)
Terminators(buf) == {i \in 1 .. Len(buf) : buf[i] = NL}

(* Fault: bytes after the newline are taken too.                           *)
BytesToAddAll(buf) == buf

BytesToAdd(buf) ==
    IF Terminators(buf) = {} THEN buf ELSE SubSeq(buf, 1, Min(Terminators(buf)))

FoundTerminator(buf) == Terminators(buf) # {}

(* Fault: the right number of bytes, from the start of the entry.          *)
ReadAtFromStart(b, pos) ==
    LET f == FindEntryOffset(b, pos)
    IN  IF f.byte = -1 THEN <<>>
        ELSE SubSeq(b.entry[f.slot], 1, Len(b.entry[f.slot]) - f.byte)

(***************************************************************************)
(* aesd_read: the bytes from pos to the end of the entry that holds pos,   *)
(* none when there is no such entry.  The caller's count is not consulted. *)
(***************************************************************************)
ReadAt(b, pos) ==
    LET f == FindEntryOffset(b, pos)
    IN  IF f.byte = -1 THEN <<>>
        ELSE SubSeq(b.entry[f.slot], f.byte + 1, Len(b.entry[f.slot]))

(* Fault: only the slots below the input pointer are counted.              *)
BufferLengthToInput(b) == RunningSum([s \in Slot |-> Len(b.entry[s])])[b.in_offs]

(***************************************************************************)
(* aesd_llseek: the length of the device, summed over every slot of the    *)
(* array ("this only works because we never actually remove anything").    *)
(***************************************************************************)
BufferLength(b) == RunningSum([s \in Slot |-> Len(b.entry[s])])[N]

(***************************************************************************)
(* fixed_size_llseek of the kernel, for the three values of whence it      *)
(* accepts: the new file position, or EINVAL outside 0 .. size.            *)
(***************************************************************************)
SeekTo(target, size) == IF target \in 0 .. size THEN target ELSE EINVAL

FixedSizeLlseek(pos, offset, whence, size) ==
    CASE whence = "SET" -> SeekTo(offset, size)
      [] whence = "CUR" -> IF offset = 0 THEN pos ELSE SeekTo(pos + offset, size)
      [] whence = "END" -> SeekTo(size + offset, size)

(* Fault: the loop stops before the command that is sought.                *)
SeekByteCountShort(b, start, end, offset) ==
    RunningSum([k \in Slot |-> Len(b.entry[(start + k) % N])])[(end - start) % N]

(***************************************************************************)
(* aesd_ioctl: the byte count that AESDCHAR_IOCSEEKTO turns a command and  *)
(* an offset into.  The loop runs from slot start up to but not including  *)
(* (end + 1) % N, adding the size of each slot but the offset for end.     *)
(* When that bound is start itself (write_cmd = N - 1) it does not run.    *)
(***************************************************************************)
SeekByteCount(b, start, end, offset) ==
    LET rounds == (end + 1 - start) % N
        term == [s \in Slot |-> IF s = end THEN offset ELSE Len(b.entry[s])]
    IN  RunningSum([k \in Slot |-> term[(start + k) % N]])[rounds]
===============================================================================
