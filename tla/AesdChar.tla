------------------------------- MODULE AesdChar -------------------------------
(***************************************************************************)
(* The aesdchar driver (aesd-char-driver/main.c) under concurrent callers. *)
(* Each process has the device open at most once and is in at most one     *)
(* system call.  A system call is a sequence of steps: the part before     *)
(* the semaphore, the wait for it, what runs while it is held, and its     *)
(* release; between any two of them other processes may run.               *)
(***************************************************************************)
EXTENDS AesdCharOps

CONSTANTS
    Proc,       \* processes, one open file each
    Chunk,      \* buffers passed to write()
    Cmd,        \* write_cmd values passed to ioctl(AESDCHAR_IOCSEEKTO)
    CmdOffset,  \* write_cmd_offset values passed with them
    Whence,     \* whence values passed to lseek()
    Offset,     \* offsets passed with them
    MaxEntry    \* the largest block krealloc can return

ASSUME ChunkAssumption == Chunk \subseteq Seq(Byte)
ASSUME CmdAssumption == Cmd \subseteq Nat /\ CmdOffset \subseteq Nat
ASSUME LseekAssumption == Whence \subseteq {"SET", "CUR", "END"} /\ Offset \subseteq Int
ASSUME MaxEntryAssumption == MaxEntry \in Nat

VARIABLES
    ring,       \* device->circularBuffer
    temp,       \* device->tempEntry: the bytes of the unfinished command
    sem,        \* device->aesd_dev_lock: the count of the semaphore
    fpos,       \* filp->f_pos of each open file
    pc,         \* where each process is in its system call
    buf,        \* the bytes a write is to add, or a read has copied out
    arg         \* the arguments and locals of an lseek or ioctl

vars == <<ring, temp, sem, fpos, pc, buf, arg>>

(* whence, offset, size: of aesd_llseek; the rest: of aesd_ioctl.          *)
NoArg == [whence |-> "SET", offset |-> 0, size |-> 0,
          cmd |-> 0, cmdOffset |-> 0, start |-> 0, end |-> 0]

Init ==
    /\ ring = EmptyRing
    /\ temp = <<>>
    /\ sem = 1
    /\ fpos = [p \in Proc |-> 0]
    /\ pc = [p \in Proc |-> "closed"]
    /\ buf = [p \in Proc |-> <<>>]
    /\ arg = [p \in Proc |-> NoArg]

Goto(p, from, to) ==
    /\ pc[p] = from
    /\ pc' = [pc EXCEPT ![p] = to]

-------------------------------------------------------------------------------
(* open() and close(): a fresh file starts at position 0.                  *)
Open(p) ==
    /\ Goto(p, "closed", "idle")
    /\ fpos' = [fpos EXCEPT ![p] = 0]
    /\ UNCHANGED <<ring, temp, sem, buf, arg>>

Release(p) ==
    /\ Goto(p, "idle", "closed")
    /\ UNCHANGED <<ring, temp, sem, fpos, buf, arg>>

-------------------------------------------------------------------------------
(***************************************************************************)
(* The semaphore.  Entered gives the step that follows down() at each      *)
(* place the driver calls it, Left the step that follows up().             *)
(***************************************************************************)
Entered == [write |-> "append", read |-> "copy", llseek |-> "measure", ioctl |-> "sum"]

Left == [up |-> "idle", measured |-> "seek", summed |-> "llseek"]

(* What a process carries on past up(): a seek's whence, offset and size.  *)
Kept(p) == [NoArg EXCEPT !.whence = arg[p].whence, !.offset = arg[p].offset,
                         !.size = arg[p].size]

Down(p) ==
    /\ pc[p] \in DOMAIN Entered
    /\ sem > 0
    /\ sem' = sem - 1
    /\ pc' = [pc EXCEPT ![p] = Entered[pc[p]]]
    /\ UNCHANGED <<ring, temp, fpos, buf, arg>>

Up(p) ==
    /\ pc[p] \in DOMAIN Left
    /\ sem' = sem + 1
    /\ pc' = [pc EXCEPT ![p] = Left[pc[p]]]
    /\ buf' = [buf EXCEPT ![p] = <<>>]
    /\ arg' = [arg EXCEPT ![p] = Kept(p)]
    /\ UNCHANGED <<ring, temp, fpos>>

-------------------------------------------------------------------------------
(***************************************************************************)
(* aesd_write.  The copy from the user and the scan for the terminator     *)
(* come before down().  A call that fails there (kmalloc, copy_from_user)  *)
(* returns without touching the device and is no step of this module.      *)
(***************************************************************************)
WriteCall(p, chunk) ==
    /\ Goto(p, "idle", "write")
    /\ buf' = [buf EXCEPT ![p] = BytesToAdd(chunk)]
    /\ UNCHANGED <<ring, temp, sem, fpos, arg>>

(* krealloc and memcpy: the unfinished command grows.                      *)
WriteAppend(p) ==
    /\ Len(temp) + Len(buf[p]) <= MaxEntry
    /\ Goto(p, "append", IF FoundTerminator(buf[p]) THEN "commit" ELSE "up")
    /\ temp' = temp \o buf[p]
    /\ UNCHANGED <<ring, sem, fpos, buf, arg>>

(* Fault: krealloc's NULL replaces the pointer to the unfinished command.  *)
WriteNoMemoryLosingTemp(p) ==
    /\ Goto(p, "append", "up")
    /\ temp' = <<>>
    /\ UNCHANGED <<ring, sem, fpos, buf, arg>>

(* Fault: the error path returns without up().                             *)
WriteNoMemoryHolding(p) ==
    /\ Goto(p, "append", "idle")
    /\ UNCHANGED <<ring, temp, sem, fpos, buf, arg>>

(* krealloc fails: -ENOMEM, and the unfinished command stays as it was.    *)
WriteNoMemory(p) ==
    /\ Goto(p, "append", "up")
    /\ UNCHANGED <<ring, temp, sem, fpos, buf, arg>>

(***************************************************************************)
(* aesd_circular_buffer_add_entry takes the finished command and the       *)
(* driver starts an empty one.  kmalloc(0) never fails (it returns         *)
(* ZERO_SIZE_PTR), so neither does this step.                              *)
(***************************************************************************)
WriteCommit(p) ==
    /\ Goto(p, "commit", "up")
    /\ ring' = AddEntry(ring, temp)
    /\ temp' = <<>>
    /\ UNCHANGED <<sem, fpos, buf, arg>>

-------------------------------------------------------------------------------
(* aesd_read.                                                              *)
ReadCall(p) ==
    /\ Goto(p, "idle", "read")
    /\ UNCHANGED <<ring, temp, sem, fpos, buf, arg>>

(* Fault: a read at the end of the data returns without up().              *)
ReadCopyHolding(p) ==
    /\ Goto(p, "copy", IF ReadAt(ring, fpos[p]) = <<>> THEN "idle" ELSE "up")
    /\ buf' = [buf EXCEPT ![p] = ReadAt(ring, fpos[p])]
    /\ fpos' = [fpos EXCEPT ![p] = @ + Len(buf'[p])]
    /\ UNCHANGED <<ring, temp, sem, arg>>

(* copy_to_user of the rest of the entry; nothing at the end of the data.  *)
ReadCopy(p) ==
    /\ Goto(p, "copy", "up")
    /\ buf' = [buf EXCEPT ![p] = ReadAt(ring, fpos[p])]
    /\ fpos' = [fpos EXCEPT ![p] = @ + Len(buf'[p])]
    /\ UNCHANGED <<ring, temp, sem, arg>>

(* copy_to_user fails: -EFAULT, and the position stays.                    *)
ReadFault(p) ==
    /\ ReadAt(ring, fpos[p]) # <<>>
    /\ Goto(p, "copy", "up")
    /\ UNCHANGED <<ring, temp, sem, fpos, buf, arg>>

-------------------------------------------------------------------------------
(* aesd_llseek: measure the device under the semaphore, seek after it.     *)
LlseekCall(p, whence, offset) ==
    /\ Goto(p, "idle", "llseek")
    /\ arg' = [arg EXCEPT ![p].whence = whence, ![p].offset = offset]
    /\ UNCHANGED <<ring, temp, sem, fpos, buf>>

LlseekMeasure(p) ==
    /\ Goto(p, "measure", "measured")
    /\ arg' = [arg EXCEPT ![p].size = BufferLength(ring)]
    /\ UNCHANGED <<ring, temp, sem, fpos, buf>>

(* Fault: the error code of the seek becomes the position.                 *)
LlseekSeekUnchecked(p) ==
    LET new == FixedSizeLlseek(fpos[p], arg[p].offset, arg[p].whence, arg[p].size)
    IN  /\ Goto(p, "seek", "idle")
        /\ fpos' = [fpos EXCEPT ![p] = new]
        /\ arg' = [arg EXCEPT ![p] = NoArg]
        /\ UNCHANGED <<ring, temp, sem, buf>>

LlseekSeek(p) ==
    LET new == FixedSizeLlseek(fpos[p], arg[p].offset, arg[p].whence, arg[p].size)
    IN  /\ Goto(p, "seek", "idle")
        /\ fpos' = IF new = EINVAL THEN fpos ELSE [fpos EXCEPT ![p] = new]
        /\ arg' = [arg EXCEPT ![p] = NoArg]
        /\ UNCHANGED <<ring, temp, sem, buf>>

-------------------------------------------------------------------------------
(***************************************************************************)
(* aesd_ioctl(AESDCHAR_IOCSEEKTO).  A write_cmd of N or more returns       *)
(* -EINVAL at once.  out_offs is read twice, before down(): once for       *)
(* startIndex and once for endIndex.                                       *)
(***************************************************************************)
IoctlCall(p, cmd, offset) ==
    /\ cmd < N
    /\ Goto(p, "idle", "ioctl_end")
    /\ arg' = [arg EXCEPT ![p].cmd = cmd, ![p].cmdOffset = offset,
                          ![p].start = ring.out_offs]
    /\ UNCHANGED <<ring, temp, sem, fpos, buf>>

IoctlEnd(p) ==
    /\ Goto(p, "ioctl_end", "ioctl")
    /\ arg' = [arg EXCEPT ![p].end = SlotAt(ring, arg[p].cmd)]
    /\ UNCHANGED <<ring, temp, sem, fpos, buf>>

(* The count is made under the semaphore and handed to aesd_llseek.        *)
IoctlSum(p) ==
    /\ Goto(p, "sum", "summed")
    /\ arg' = [arg EXCEPT ![p].whence = "SET",
                          ![p].offset = SeekByteCount(ring, arg[p].start, arg[p].end,
                                                      arg[p].cmdOffset)]
    /\ UNCHANGED <<ring, temp, sem, fpos, buf>>

-------------------------------------------------------------------------------
(* What a process does once it is in a system call, and when it calls one. *)
Step(p) ==
    \/ Down(p) \/ Up(p)
    \/ WriteAppend(p) \/ WriteNoMemory(p) \/ WriteCommit(p)
    \/ ReadCopy(p) \/ ReadFault(p)
    \/ LlseekMeasure(p) \/ LlseekSeek(p)
    \/ IoctlEnd(p) \/ IoctlSum(p)

Call(p) ==
    \/ Open(p) \/ Release(p) \/ ReadCall(p)
    \/ \E chunk \in Chunk : WriteCall(p, chunk)
    \/ \E whence \in Whence, offset \in Offset : LlseekCall(p, whence, offset)
    \/ \E cmd \in Cmd, offset \in CmdOffset : IoctlCall(p, cmd, offset)

Next == \E p \in Proc : Step(p) \/ Call(p)

Spec == Init /\ [][Next]_vars

(***************************************************************************)
(* The kernel keeps running a process that is in a system call, and wakes  *)
(* the waiters of a semaphore in the order they came (kernel/locking/      *)
(* semaphore.c), so none of them is passed over for ever.  Nothing makes a *)
(* process call the driver.                                                *)
(***************************************************************************)
Fairness == \A p \in Proc : WF_vars(Step(p)) /\ SF_vars(Down(p))

FairSpec == Spec /\ Fairness
-------------------------------------------------------------------------------
PcValues ==
    {"closed", "idle", "write", "append", "commit", "up", "read", "copy", "llseek",
     "measure", "measured", "seek", "ioctl_end", "ioctl", "sum", "summed"}

ArgType ==
    [whence : {"SET", "CUR", "END"}, offset : Int, size : Nat,
     cmd : Nat, cmdOffset : Nat, start : Slot, end : Slot]

(* Types of the state.                                                     *)
TypeOK ==
    /\ ring \in Ring
    /\ temp \in Seq(Byte)
    /\ sem \in {0, 1}
    /\ fpos \in [Proc -> Nat]
    /\ pc \in [Proc -> PcValues]
    /\ buf \in [Proc -> Seq(Byte)]
    /\ arg \in [Proc -> ArgType]

(* The steps between a down() and its up().                                *)
Holding == {"append", "commit", "copy", "measure", "sum", "up", "measured", "summed"}

(***************************************************************************)
(* At most one process is between a down() and its up(), and the semaphore *)
(* is free exactly when none is: on every path through every operation,    *)
(* the error paths included, a down() is paired with one up().             *)
(***************************************************************************)
OneInside ==
    /\ \A p, q \in Proc : pc[p] \in Holding /\ pc[q] \in Holding => p = q
    /\ sem = 1 <=> \A p \in Proc : pc[p] \notin Holding

IsCommand(c) == c # <<>> /\ \A i \in 1 .. Len(c) : c[i] = NL <=> i = Len(c)

(***************************************************************************)
(* However writers interleave and wherever a write fails, every stored     *)
(* entry is one command: bytes that end in the first newline among them.   *)
(* The unfinished command holds no newline unless its writer, still inside *)
(* the semaphore, is about to store it.                                    *)
(***************************************************************************)
StoredAreCommands ==
    /\ \A i \in 1 .. Count(ring) : IsCommand(Contents(ring)[i])
    /\ IF \E p \in Proc : pc[p] = "commit" THEN IsCommand(temp) ELSE ~FoundTerminator(temp)

(***************************************************************************)
(* The length that aesd_llseek measures by adding up every slot of the     *)
(* array, used or not, is the number of bytes that reads can return.       *)
(***************************************************************************)
LengthIsWhatCanBeRead == BufferLength(ring) = Len(Bytes(ring))

(***************************************************************************)
(* A seek to a stored command other than the N-th goes to that command,    *)
(* when no command was stored between the two reads of out_offs and the    *)
(* count under the semaphore.                                              *)
(***************************************************************************)
SeekIsExactWhenUndisturbed ==
    \A p \in Proc :
      LET c == arg[p].cmd
      IN  /\ pc[p] = "summed"
          /\ c < N - 1 /\ c < Count(ring)
          /\ arg[p].start = ring.out_offs
          /\ arg[p].end = SlotAt(ring, c)
          => arg[p].offset = CommandStart(Contents(ring), c) + arg[p].cmdOffset

(***************************************************************************)
(* "The zero referenced write command to seek into" and "the zero          *)
(* referenced offset within the write" (aesd_ioctl.h): when a seek has     *)
(* made its count, and the command and the offset exist, the count is the  *)
(* position of that byte of that command.                                  *)
(***************************************************************************)
SeekReachesTheCommand ==
    \A p \in Proc :
      LET log == Contents(ring)
          c == arg[p].cmd
      IN  pc[p] = "summed" /\ c < Len(log) /\ arg[p].cmdOffset < Len(log[c + 1])
          => arg[p].offset = CommandStart(log, c) + arg[p].cmdOffset

(***************************************************************************)
(* A read that moves the position has copied the bytes it moved over, up   *)
(* to and including the next newline and no further; one that does not     *)
(* move it failed, or stands at or behind the end of the data.  A position *)
(* is moved by open, read and seek only, and by no other process's step,   *)
(* not even by the one that drops the oldest command under it.             *)
(***************************************************************************)
ReadsUpToTheNewline ==
    [][\A p \in Proc :
         LET flat == Bytes(ring)
         IN  /\ ReadCopy(p) =>
                  IF fpos[p] >= Len(flat)
                  THEN buf'[p] = <<>> /\ fpos'[p] = fpos[p]
                  ELSE /\ IsCommand(buf'[p])
                       /\ buf'[p] = SubSeq(flat, fpos[p] + 1, fpos'[p])
             /\ ReadFault(p) => fpos'[p] = fpos[p]
             /\ fpos'[p] # fpos[p] =>
                  pc[p] \in {"closed", "copy", "seek"} /\ pc'[p] # pc[p]]_vars

(***************************************************************************)
(* A system call that has begun returns: no caller waits for ever on the   *)
(* semaphore, whatever the others do.                                      *)
(***************************************************************************)
CallsReturn == \A p \in Proc : pc[p] \notin {"closed", "idle"} ~> pc[p] = "idle"

(***************************************************************************)
(* What the driver implements: the log of commands of CommandLog.  A write *)
(* takes effect at its memcpy; while its writer is on the way from there   *)
(* to add_entry the command counts as stored already, since the semaphore  *)
(* keeps everyone else from looking.                                       *)
(***************************************************************************)
Committing == \E p \in Proc : pc[p] = "commit"

Pieces == {BytesToAdd(chunk) : chunk \in Chunk}

Log == INSTANCE CommandLog WITH
           N <- N,
           Piece <- Pieces,
           Ending <- {piece \in Pieces : FoundTerminator(piece)},
           log <- IF Committing THEN Push(Contents(ring), temp) ELSE Contents(ring),
           pending <- IF Committing THEN <<>> ELSE temp

ImplementsCommandLog == Log!Spec
===============================================================================
