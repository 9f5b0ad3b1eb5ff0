--------------------------- MODULE AesdCharTheorems ---------------------------
(***************************************************************************)
(* Theorems about the driver for any number of processes, any ring size    *)
(* and any buffers.                                                        *)
(***************************************************************************)
EXTENDS AesdChar, AesdCharLemmas

(***************************************************************************)
(* What a writer brings into the semaphore has no newline but at its end.  *)
(***************************************************************************)
PiecesInHand == \A p \in Proc : pc[p] \in {"write", "append"} => buf[p] \in Pieces

(***************************************************************************)
(* What AESDCHAR_IOCSEEKTO counted is still what it would count: the ring  *)
(* does not change before the up() that follows.                           *)
(***************************************************************************)
CountInHand ==
    \A p \in Proc :
      pc[p] = "summed" =>
        arg[p].offset = SeekByteCount(ring, arg[p].start, arg[p].end, arg[p].cmdOffset)

(***************************************************************************)
(* The inductive invariant.  The ring's shape is needed for what add_entry *)
(* does to the contents, OneInside for the fact that nobody else is about  *)
(* to commit when a writer appends or a seek has counted, PiecesInHand for *)
(* what a writer appends.                                                  *)
(***************************************************************************)
Inv ==
    /\ TypeOK
    /\ RingInv(ring)
    /\ OneInside
    /\ PiecesInHand
    /\ CountInHand
    /\ StoredAreCommands

LEMMA InitInv == Init => Inv
<1> SUFFICES ASSUME Init PROVE Inv OBVIOUS
<1>1. ring = EmptyRing /\ EmptyRing \in Ring /\ RingInv(EmptyRing) /\ Count(EmptyRing) = 0
  BY NAssumption DEF Init, EmptyRing, Ring, RingInv, Count, Slot
<1>2. 0 \in Slot BY NAssumption DEF Slot
<1>3. NoArg \in ArgType BY <1>2 DEF NoArg, ArgType
<1>4. TypeOK BY <1>1, <1>3 DEF Init, TypeOK, PcValues
<1>5. OneInside BY DEF Init, OneInside, Holding
<1>6. PiecesInHand BY DEF Init, PiecesInHand
<1>7. CountInHand BY DEF Init, CountInHand
<1>8. StoredAreCommands
  <2>1. ~ \E p \in Proc : pc[p] = "commit" BY DEF Init
  <2>2. ~FoundTerminator(temp) BY DEF Init, FoundTerminator, Terminators
  <2> QED BY <1>1, <2>1, <2>2 DEF StoredAreCommands
<1> QED BY <1>1, <1>4, <1>5, <1>6, <1>7, <1>8 DEF Inv

-------------------------------------------------------------------------------
(* Every step keeps the types.                                             *)
LEMMA StepType ==
    ASSUME TypeOK, RingInv(ring), OneInside, NEW p \in Proc, Step(p) \/ Call(p)
    PROVE  TypeOK'
<1> USE DEF Goto
<1>1. /\ ring \in Ring /\ temp \in Seq(Byte) /\ sem \in {0, 1}
      /\ fpos \in [Proc -> Nat] /\ pc \in [Proc -> PcValues]
      /\ buf \in [Proc -> Seq(Byte)] /\ arg \in [Proc -> ArgType]
  BY DEF TypeOK
<1>2. NoArg \in ArgType
  <2>1. 0 \in Slot BY NAssumption DEF Slot
  <2> QED BY <2>1 DEF NoArg, ArgType
<1>3. /\ arg[p].whence \in {"SET", "CUR", "END"} /\ arg[p].offset \in Int
      /\ arg[p].size \in Nat /\ arg[p].cmd \in Nat /\ arg[p].cmdOffset \in Nat
      /\ arg[p].start \in Slot /\ arg[p].end \in Slot
  BY <1>1 DEF ArgType
<1>4. \A to \in PcValues : [pc EXCEPT ![p] = to] \in [Proc -> PcValues]
  BY <1>1
<1>5. CASE Open(p) BY <1>1, <1>4, <1>5 DEF Open, TypeOK, PcValues
<1>6. CASE Release(p) BY <1>1, <1>4, <1>6 DEF Release, TypeOK, PcValues
<1>7. CASE Down(p)
  <2>1. Entered[pc[p]] \in PcValues BY <1>7 DEF Down, Entered, PcValues
  <2> QED BY <1>1, <1>4, <1>7, <2>1 DEF Down, TypeOK
<1>8. CASE Up(p)
  <2>1. Left[pc[p]] \in PcValues BY <1>8 DEF Up, Left, PcValues
  <2>2. Kept(p) \in ArgType BY <1>2, <1>3 DEF Kept, ArgType, NoArg
  <2>3. sem = 0
    <3>1. pc[p] \in Holding BY <1>8 DEF Up, Left, Holding
    <3> QED BY <1>1, <3>1 DEF OneInside
  <2>4. arg' \in [Proc -> ArgType] BY <1>1, <1>8, <2>2 DEF Up
  <2> QED BY <1>1, <1>4, <1>8, <2>1, <2>3, <2>4 DEF Up, TypeOK
<1>9. ASSUME NEW chunk \in Chunk, WriteCall(p, chunk) PROVE TypeOK'
  <2>1. BytesToAdd(chunk) \in Seq(Byte) BY ChunkAssumption, BytesToAddValue
  <2> QED BY <1>1, <1>4, <1>9, <2>1 DEF WriteCall, TypeOK, PcValues
<1>10. CASE WriteAppend(p)
  <2>1. temp \o buf[p] \in Seq(Byte) BY <1>1
  <2> QED BY <1>1, <1>4, <1>10, <2>1 DEF WriteAppend, TypeOK, PcValues
<1>11. CASE WriteNoMemory(p) BY <1>1, <1>4, <1>11 DEF WriteNoMemory, TypeOK, PcValues
<1>12. CASE WriteCommit(p)
  <2>1. AddEntry(ring, temp) \in Ring BY <1>1, AddEntryShape
  <2> QED BY <1>1, <1>4, <1>12, <2>1 DEF WriteCommit, TypeOK, PcValues
<1>13. CASE ReadCall(p) BY <1>1, <1>4, <1>13 DEF ReadCall, TypeOK, PcValues
<1>14. CASE ReadCopy(p)
  <2>1. ReadAt(ring, fpos[p]) \in Seq(Byte) BY <1>1, ReadAtType
  <2>2. buf' \in [Proc -> Seq(Byte)] /\ buf'[p] \in Seq(Byte) BY <1>1, <1>14, <2>1 DEF ReadCopy
  <2>3. fpos' \in [Proc -> Nat]
    <3>1. Len(buf'[p]) \in Nat BY <2>2
    <3> QED BY <1>1, <1>14, <3>1 DEF ReadCopy
  <2> QED BY <1>1, <1>4, <1>14, <2>2, <2>3 DEF ReadCopy, TypeOK, PcValues
<1>15. CASE ReadFault(p) BY <1>1, <1>4, <1>15 DEF ReadFault, TypeOK, PcValues
<1>16. ASSUME NEW whence \in Whence, NEW offset \in Offset, LlseekCall(p, whence, offset)
       PROVE  TypeOK'
  <2>1. [arg[p] EXCEPT !.whence = whence, !.offset = offset] \in ArgType
    BY <1>1, LseekAssumption DEF ArgType
  <2>2. arg' \in [Proc -> ArgType] BY <1>1, <1>16, <2>1 DEF LlseekCall
  <2> QED BY <1>1, <1>4, <1>16, <2>2 DEF LlseekCall, TypeOK, PcValues
<1>17. CASE LlseekMeasure(p)
  <2>1. BufferLength(ring) \in Nat BY <1>1, BufferLengthType
  <2>2. arg' \in [Proc -> ArgType] BY <1>1, <1>17, <2>1 DEF LlseekMeasure, ArgType
  <2> QED BY <1>1, <1>4, <1>17, <2>2 DEF LlseekMeasure, TypeOK, PcValues
<1>18. CASE LlseekSeek(p)
  <2> DEFINE new == FixedSizeLlseek(fpos[p], arg[p].offset, arg[p].whence, arg[p].size)
  <2>1. new \in Nat \cup {EINVAL} BY <1>1, <1>3, FixedSizeLlseekType
  <2>2. fpos' = IF new = EINVAL THEN fpos ELSE [fpos EXCEPT ![p] = new]
    BY <1>18 DEF LlseekSeek
  <2> HIDE DEF new
  <2>3. fpos' \in [Proc -> Nat] BY <1>1, <2>1, <2>2
  <2> QED BY <1>1, <1>2, <1>4, <1>18, <2>3 DEF LlseekSeek, TypeOK, PcValues
<1>19. ASSUME NEW cmd \in Cmd, NEW offset \in CmdOffset, IoctlCall(p, cmd, offset)
       PROVE  TypeOK'
  <2>1. ring.out_offs \in Slot BY <1>1 DEF Ring
  <2>2. [arg[p] EXCEPT !.cmd = cmd, !.cmdOffset = offset, !.start = ring.out_offs] \in ArgType
    BY <1>1, <2>1, CmdAssumption DEF ArgType
  <2>3. arg' \in [Proc -> ArgType] BY <1>1, <1>19, <2>2 DEF IoctlCall
  <2> QED BY <1>1, <1>4, <1>19, <2>3 DEF IoctlCall, TypeOK, PcValues
<1>20. CASE IoctlEnd(p)
  <2>1. SlotAt(ring, arg[p].cmd) \in Slot
    <3>3. ring.out_offs \in 0 .. N - 1 /\ N \in Nat BY <1>1, NAssumption DEF Ring, Slot
    <3>4. arg[p].cmd \in Int BY <1>3
    <3>1. ring.out_offs + arg[p].cmd \in Int BY <3>3, <3>4
    <3>2. \A x \in Int : x % N \in 0 .. N - 1 BY NAssumption
    <3> QED BY <3>1, <3>2 DEF SlotAt, Slot
  <2>2. arg' \in [Proc -> ArgType] BY <1>1, <1>20, <2>1 DEF IoctlEnd, ArgType
  <2> QED BY <1>1, <1>4, <1>20, <2>2 DEF IoctlEnd, TypeOK, PcValues
<1>21. CASE IoctlSum(p)
  <2> DEFINE count == SeekByteCount(ring, arg[p].start, arg[p].end, arg[p].cmdOffset)
  <2>1. count \in Nat BY <1>1, <1>3, SeekByteCountType
  <2>2. arg' = [arg EXCEPT ![p] = [@ EXCEPT !.whence = "SET", !.offset = count]]
    BY <1>1, <1>21 DEF IoctlSum
  <2> HIDE DEF count
  <2>3. [arg[p] EXCEPT !.whence = "SET", !.offset = count] \in ArgType
    <3>1. arg[p] \in ArgType /\ count \in Int BY <1>1, <2>1
    <3> QED BY <3>1 DEF ArgType
  <2>4. arg' \in [Proc -> ArgType] BY <1>1, <2>2, <2>3
  <2> QED BY <1>1, <1>4, <1>21, <2>4 DEF IoctlSum, TypeOK, PcValues
<1> QED BY <1>5, <1>6, <1>7, <1>8, <1>9, <1>10, <1>11, <1>12, <1>13, <1>14, <1>15,
           <1>16, <1>17, <1>18, <1>19, <1>20, <1>21 DEF Step, Call

-------------------------------------------------------------------------------
(* A step that neither enters nor leaves the semaphore keeps OneInside.    *)
LEMMA SameHolders ==
    ASSUME TypeOK, OneInside, NEW p \in Proc, NEW to, sem' = sem,
           pc' = [pc EXCEPT ![p] = to], pc[p] \in Holding <=> to \in Holding
    PROVE  OneInside'
<1>1. \A q \in Proc : pc[q] \in Holding <=> pc'[q] \in Holding BY DEF TypeOK
<1> QED BY <1>1 DEF OneInside

LEMMA StepOneInside ==
    ASSUME TypeOK, OneInside, NEW p \in Proc, Step(p) \/ Call(p)
    PROVE  OneInside'
<1> USE DEF Goto
<1>1. pc \in [Proc -> PcValues] /\ sem \in {0, 1} BY DEF TypeOK
<1>2. CASE Down(p)
  <2>1. sem = 1 /\ \A q \in Proc : pc[q] \notin Holding
    BY <1>1, <1>2 DEF Down, OneInside
  <2>2. Entered[pc[p]] \in Holding BY <1>2 DEF Down, Entered, Holding
  <2>3. sem' = 0 /\ pc' = [pc EXCEPT ![p] = Entered[pc[p]]] BY <1>2, <2>1 DEF Down
  <2>4. pc'[p] \in Holding /\ \A q \in Proc : q # p => pc'[q] \notin Holding
    BY <1>1, <2>1, <2>2, <2>3
  <2> QED BY <2>3, <2>4 DEF OneInside
<1>3. CASE Up(p)
  <2>1. pc[p] \in Holding BY <1>3 DEF Up, Left, Holding
  <2>2. sem = 0 /\ \A q \in Proc : q # p => pc[q] \notin Holding
    BY <1>1, <2>1 DEF OneInside
  <2>3. Left[pc[p]] \notin Holding BY <1>3 DEF Up, Left, Holding
  <2>4. sem' = 1 /\ pc' = [pc EXCEPT ![p] = Left[pc[p]]] BY <1>3, <2>2 DEF Up
  <2>5. \A q \in Proc : pc'[q] \notin Holding BY <1>1, <2>2, <2>3, <2>4
  <2> QED BY <2>4, <2>5 DEF OneInside
<1>4. CASE Open(p) BY <1>4, SameHolders DEF Open, Holding
<1>5. CASE Release(p) BY <1>5, SameHolders DEF Release, Holding
<1>6. ASSUME NEW chunk \in Chunk, WriteCall(p, chunk) PROVE OneInside'
  BY <1>6, SameHolders DEF WriteCall, Holding
<1>7. CASE WriteAppend(p)
  <2>1. CASE FoundTerminator(buf[p]) BY <1>7, <2>1, SameHolders DEF WriteAppend, Holding
  <2>2. CASE ~FoundTerminator(buf[p]) BY <1>7, <2>2, SameHolders DEF WriteAppend, Holding
  <2> QED BY <2>1, <2>2
<1>8. CASE WriteNoMemory(p) BY <1>8, SameHolders DEF WriteNoMemory, Holding
<1>9. CASE WriteCommit(p) BY <1>9, SameHolders DEF WriteCommit, Holding
<1>10. CASE ReadCall(p) BY <1>10, SameHolders DEF ReadCall, Holding
<1>11. CASE ReadCopy(p) BY <1>11, SameHolders DEF ReadCopy, Holding
<1>12. CASE ReadFault(p) BY <1>12, SameHolders DEF ReadFault, Holding
<1>13. ASSUME NEW whence \in Whence, NEW offset \in Offset, LlseekCall(p, whence, offset)
       PROVE  OneInside'
  BY <1>13, SameHolders DEF LlseekCall, Holding
<1>14. CASE LlseekMeasure(p) BY <1>14, SameHolders DEF LlseekMeasure, Holding
<1>15. CASE LlseekSeek(p) BY <1>15, SameHolders DEF LlseekSeek, Holding
<1>16. ASSUME NEW cmd \in Cmd, NEW offset \in CmdOffset, IoctlCall(p, cmd, offset)
       PROVE  OneInside'
  BY <1>16, SameHolders DEF IoctlCall, Holding
<1>17. CASE IoctlEnd(p) BY <1>17, SameHolders DEF IoctlEnd, Holding
<1>18. CASE IoctlSum(p) BY <1>18, SameHolders DEF IoctlSum, Holding
<1> QED BY <1>2, <1>3, <1>4, <1>5, <1>6, <1>7, <1>8, <1>9, <1>10, <1>11, <1>12,
           <1>13, <1>14, <1>15, <1>16, <1>17, <1>18 DEF Step, Call

-------------------------------------------------------------------------------
LEMMA StepPiecesInHand ==
    ASSUME TypeOK, PiecesInHand, NEW p \in Proc, Step(p) \/ Call(p)
    PROVE  PiecesInHand'
<1> USE DEF Goto
<1>1. pc \in [Proc -> PcValues] /\ buf \in [Proc -> Seq(Byte)] BY DEF TypeOK
<1>2. ASSUME NEW chunk \in Chunk, WriteCall(p, chunk) PROVE PiecesInHand'
  BY <1>1, <1>2 DEF WriteCall, PiecesInHand, Pieces
<1>3. CASE Down(p) BY <1>1, <1>3 DEF Down, Entered, PiecesInHand
<1>4. CASE Up(p) BY <1>1, <1>4 DEF Up, Left, PiecesInHand
<1>5. CASE Open(p) \/ Release(p) BY <1>1, <1>5 DEF Open, Release, PiecesInHand
<1>6. CASE WriteAppend(p) BY <1>1, <1>6 DEF WriteAppend, PiecesInHand
<1>7. CASE WriteNoMemory(p) \/ WriteCommit(p)
  BY <1>1, <1>7 DEF WriteNoMemory, WriteCommit, PiecesInHand
<1>8. CASE ReadCall(p) \/ ReadCopy(p) \/ ReadFault(p)
  BY <1>1, <1>8 DEF ReadCall, ReadCopy, ReadFault, PiecesInHand
<1>9. ASSUME NEW whence \in Whence, NEW offset \in Offset, LlseekCall(p, whence, offset)
      PROVE  PiecesInHand'
  BY <1>1, <1>9 DEF LlseekCall, PiecesInHand
<1>10. CASE LlseekMeasure(p) \/ LlseekSeek(p)
  BY <1>1, <1>10 DEF LlseekMeasure, LlseekSeek, PiecesInHand
<1>11. ASSUME NEW cmd \in Cmd, NEW offset \in CmdOffset, IoctlCall(p, cmd, offset)
       PROVE  PiecesInHand'
  BY <1>1, <1>11 DEF IoctlCall, PiecesInHand
<1>12. CASE IoctlEnd(p) \/ IoctlSum(p)
  BY <1>1, <1>12 DEF IoctlEnd, IoctlSum, PiecesInHand
<1> QED BY <1>2, <1>3, <1>4, <1>5, <1>6, <1>7, <1>8, <1>9, <1>10, <1>11, <1>12
        DEF Step, Call

(***************************************************************************)
(* A system call changes nothing of another process, moves its own file's  *)
(* position in three places and goes on from there, and has counted only   *)
(* behind the loop.                                                        *)
(***************************************************************************)
LEMMA StepsAreLocal ==
    ASSUME TypeOK, NEW p \in Proc, Step(p) \/ Call(p)
    PROVE  /\ \A q \in Proc : q # p => pc'[q] = pc[q] /\ arg'[q] = arg[q] /\ fpos'[q] = fpos[q]
           /\ pc'[p] = "summed" => IoctlSum(p)
           /\ fpos' # fpos => pc[p] \in {"closed", "copy", "seek"} /\ pc'[p] # pc[p]
<1> DEFINE Local ==
             /\ \A q \in Proc : q # p => pc'[q] = pc[q] /\ arg'[q] = arg[q] /\ fpos'[q] = fpos[q]
             /\ pc'[p] = "summed" => IoctlSum(p)
             /\ fpos' # fpos => pc[p] \in {"closed", "copy", "seek"} /\ pc'[p] # pc[p]
<1> USE DEF Goto
<1>1. pc \in [Proc -> PcValues] /\ arg \in [Proc -> ArgType] /\ fpos \in [Proc -> Nat]
  BY DEF TypeOK
<1>2. CASE Down(p) BY <1>1, <1>2 DEF Down, Entered
<1>3. CASE Up(p) BY <1>1, <1>3 DEF Up, Left
<1>4. CASE Open(p) \/ Release(p) BY <1>1, <1>4 DEF Open, Release
<1>5. ASSUME NEW chunk \in Chunk, WriteCall(p, chunk) PROVE Local
  BY <1>1, <1>5 DEF WriteCall
<1>6. CASE WriteAppend(p) BY <1>1, <1>6 DEF WriteAppend
<1>7. CASE WriteNoMemory(p) \/ WriteCommit(p) BY <1>1, <1>7 DEF WriteNoMemory, WriteCommit
<1>8. CASE ReadCall(p) \/ ReadFault(p) BY <1>1, <1>8 DEF ReadCall, ReadFault
<1>9. CASE ReadCopy(p) BY <1>1, <1>9 DEF ReadCopy
<1>10. ASSUME NEW whence \in Whence, NEW offset \in Offset, LlseekCall(p, whence, offset)
       PROVE  Local
  BY <1>1, <1>10 DEF LlseekCall
<1>11. CASE LlseekMeasure(p) BY <1>1, <1>11 DEF LlseekMeasure
<1>12. CASE LlseekSeek(p)
  <2>1. /\ pc[p] = "seek" /\ pc' = [pc EXCEPT ![p] = "idle"]
        /\ \E new : fpos' = IF new = EINVAL THEN fpos ELSE [fpos EXCEPT ![p] = new]
        /\ arg' = [arg EXCEPT ![p] = NoArg]
    BY <1>12 DEF LlseekSeek
  <2> QED BY <1>1, <2>1
<1>13. ASSUME NEW cmd \in Cmd, NEW offset \in CmdOffset, IoctlCall(p, cmd, offset)
       PROVE  Local
  BY <1>1, <1>13 DEF IoctlCall
<1>14. CASE IoctlEnd(p) BY <1>1, <1>14 DEF IoctlEnd
<1>15. CASE IoctlSum(p) BY <1>1, <1>15 DEF IoctlSum
<1> QED BY <1>2, <1>3, <1>4, <1>5, <1>6, <1>7, <1>8, <1>9, <1>10, <1>11, <1>12,
           <1>13, <1>14, <1>15 DEF Step, Call

(* The two steps that change the data; the others leave it as it is.       *)
DataSteps(p) == WriteAppend(p) \/ WriteCommit(p)

LEMMA OtherStepsLeaveData ==
    ASSUME TypeOK, NEW p \in Proc, Step(p) \/ Call(p), ~DataSteps(p)
    PROVE  /\ ring' = ring /\ temp' = temp
           /\ \A q \in Proc : pc'[q] = "commit" <=> pc[q] = "commit"
<1> USE DEF Goto
<1>1. pc \in [Proc -> PcValues] BY DEF TypeOK
<1>2. CASE Down(p) BY <1>1, <1>2 DEF Down, Entered
<1>3. CASE Up(p) BY <1>1, <1>3 DEF Up, Left
<1>4. CASE Open(p) \/ Release(p) BY <1>1, <1>4 DEF Open, Release
<1>5. ASSUME NEW chunk \in Chunk, WriteCall(p, chunk)
      PROVE  /\ ring' = ring /\ temp' = temp
             /\ \A q \in Proc : pc'[q] = "commit" <=> pc[q] = "commit"
  BY <1>1, <1>5 DEF WriteCall
<1>6. CASE WriteNoMemory(p) BY <1>1, <1>6 DEF WriteNoMemory
<1>7. CASE ReadCall(p) \/ ReadCopy(p) \/ ReadFault(p)
  BY <1>1, <1>7 DEF ReadCall, ReadCopy, ReadFault
<1>8. ASSUME NEW whence \in Whence, NEW offset \in Offset, LlseekCall(p, whence, offset)
      PROVE  /\ ring' = ring /\ temp' = temp
             /\ \A q \in Proc : pc'[q] = "commit" <=> pc[q] = "commit"
  BY <1>1, <1>8 DEF LlseekCall
<1>9. CASE LlseekMeasure(p) \/ LlseekSeek(p) BY <1>1, <1>9 DEF LlseekMeasure, LlseekSeek
<1>10. ASSUME NEW cmd \in Cmd, NEW offset \in CmdOffset, IoctlCall(p, cmd, offset)
       PROVE  /\ ring' = ring /\ temp' = temp
              /\ \A q \in Proc : pc'[q] = "commit" <=> pc[q] = "commit"
  BY <1>1, <1>10 DEF IoctlCall
<1>11. CASE IoctlEnd(p) \/ IoctlSum(p) BY <1>1, <1>11 DEF IoctlEnd, IoctlSum
<1> QED BY <1>2, <1>3, <1>4, <1>5, <1>6, <1>7, <1>8, <1>9, <1>10, <1>11
        DEF Step, Call, DataSteps

(***************************************************************************)
(* What the two steps of a writer find and leave behind.  At the append    *)
(* nobody is about to commit, so the unfinished command has no newline.    *)
(***************************************************************************)
LEMMA AppendStep ==
    ASSUME Inv, NEW p \in Proc, WriteAppend(p)
    PROVE  /\ ~Committing /\ ~FoundTerminator(temp)
           /\ buf[p] \in Pieces /\ temp' = temp \o buf[p] /\ ring' = ring
           /\ Committing' <=> FoundTerminator(buf[p])
           /\ IF FoundTerminator(buf[p]) THEN IsCommand(temp') ELSE ~FoundTerminator(temp')
<1>1. /\ pc \in [Proc -> PcValues] /\ buf[p] \in Seq(Byte) /\ temp \in Seq(Byte)
      /\ pc[p] = "append"
  BY DEF Inv, TypeOK, WriteAppend, Goto
<1>2. \A q \in Proc : q # p => pc[q] # "commit"
  BY <1>1 DEF Inv, OneInside, Holding
<1>3. ~Committing BY <1>1, <1>2 DEF Committing
<1>4. ~FoundTerminator(temp) BY <1>3 DEF Inv, StoredAreCommands, Committing
<1>5. buf[p] \in Pieces BY <1>1 DEF Inv, PiecesInHand
<1>6. temp' = temp \o buf[p] /\ ring' = ring BY DEF WriteAppend
<1>7. Committing' <=> FoundTerminator(buf[p])
  <2>1. pc' = [pc EXCEPT ![p] = IF FoundTerminator(buf[p]) THEN "commit" ELSE "up"]
    BY DEF WriteAppend, Goto
  <2> QED BY <1>1, <1>2, <2>1 DEF Committing
<1>8. \A i \in 1 .. Len(buf[p]) : buf[p][i] = NL => i = Len(buf[p])
  <2>1. PICK chunk \in Chunk : buf[p] = BytesToAdd(chunk) BY <1>5 DEF Pieces
  <2> QED BY <2>1, ChunkAssumption, BytesToAddValue
<1>9. \A i \in 1 .. Len(temp) : temp[i] # NL BY <1>4 DEF FoundTerminator, Terminators
<1>10. /\ temp' \in Seq(Byte) /\ Len(temp') = Len(temp) + Len(buf[p])
       /\ \A i \in 1 .. Len(temp') :
              temp'[i] = IF i <= Len(temp) THEN temp[i] ELSE buf[p][i - Len(temp)]
  BY <1>1, <1>6, ConcatProperties
<1>11. Len(temp) \in Nat /\ Len(buf[p]) \in Nat BY <1>1
<1>12. CASE FoundTerminator(buf[p])
  <2>1. PICK k \in 1 .. Len(buf[p]) : buf[p][k] = NL
    BY <1>12 DEF FoundTerminator, Terminators
  <2>2. k = Len(buf[p]) /\ Len(buf[p]) > 0 BY <1>8, <1>11, <2>1
  <2>3. Len(temp') > 0 /\ Len(temp') - Len(temp) = k BY <1>10, <1>11, <2>2
  <2>4. temp'[Len(temp')] = NL BY <1>10, <1>11, <2>1, <2>2, <2>3
  <2>5. ASSUME NEW i \in 1 .. Len(temp'), temp'[i] = NL PROVE i = Len(temp')
    <3>1. ~(i <= Len(temp)) BY <1>9, <1>10, <1>11, <2>5
    <3>2. i - Len(temp) \in 1 .. Len(buf[p]) /\ buf[p][i - Len(temp)] = NL
      BY <1>10, <1>11, <2>5, <3>1
    <3>3. i - Len(temp) = Len(buf[p]) BY <1>8, <3>2
    <3>4. i \in Nat /\ Len(temp') = Len(temp) + Len(buf[p]) BY <1>10, <1>11
    <3> QED BY <1>11, <3>3, <3>4
  <2>6. temp' # <<>> BY <2>3
  <2>7. IsCommand(temp') BY <2>4, <2>5, <2>6 DEF IsCommand
  <2> QED BY <1>3, <1>4, <1>5, <1>6, <1>7, <1>12, <2>7
<1>13. CASE ~FoundTerminator(buf[p])
  <2>1. \A i \in 1 .. Len(buf[p]) : buf[p][i] # NL
    BY <1>13 DEF FoundTerminator, Terminators
  <2>2. \A i \in 1 .. Len(temp') : temp'[i] # NL
    <3> SUFFICES ASSUME NEW i \in 1 .. Len(temp') PROVE temp'[i] # NL OBVIOUS
    <3>1. CASE i <= Len(temp) BY <1>9, <1>10, <1>11, <3>1
    <3>2. CASE ~(i <= Len(temp))
      <4>1. i - Len(temp) \in 1 .. Len(buf[p]) BY <1>10, <1>11, <3>2
      <4> QED BY <1>10, <2>1, <3>2, <4>1
    <3> QED BY <3>1, <3>2
  <2>3. ~FoundTerminator(temp') BY <2>2 DEF FoundTerminator, Terminators
  <2> QED BY <1>3, <1>4, <1>5, <1>6, <1>7, <1>13, <2>3
<1> QED BY <1>12, <1>13

LEMMA CommitStep ==
    ASSUME Inv, NEW p \in Proc, WriteCommit(p)
    PROVE  /\ Committing /\ ~Committing' /\ IsCommand(temp) /\ temp' = <<>>
           /\ ring' = AddEntry(ring, temp) /\ ring' \in Ring /\ RingInv(ring')
           /\ Contents(ring') = Push(Contents(ring), temp)
<1>1. pc \in [Proc -> PcValues] /\ ring \in Ring /\ RingInv(ring) /\ temp \in Seq(Byte)
  BY DEF Inv, TypeOK
<1>2. pc[p] = "commit" /\ pc' = [pc EXCEPT ![p] = "up"] BY DEF WriteCommit, Goto
<1>3. \A q \in Proc : q # p => pc[q] # "commit" BY <1>2 DEF Inv, OneInside, Holding
<1>4. Committing /\ ~Committing' BY <1>1, <1>2, <1>3 DEF Committing
<1>5. IsCommand(temp) BY <1>4 DEF Inv, StoredAreCommands, Committing
<1>6. ring' = AddEntry(ring, temp) /\ temp' = <<>> BY DEF WriteCommit
<1> QED BY <1>1, <1>4, <1>5, <1>6, AddEntryShape, ContentsAfterAdd

LEMMA StepStored ==
    ASSUME Inv, NEW p \in Proc, Step(p) \/ Call(p)
    PROVE  RingInv(ring') /\ StoredAreCommands'
<1>1. /\ ring \in Ring /\ RingInv(ring) /\ TypeOK /\ StoredAreCommands
      /\ \A i \in 1 .. Count(ring) : IsCommand(Contents(ring)[i])
  BY DEF Inv, TypeOK, StoredAreCommands
<1>2. CASE WriteAppend(p)
  <2>1. /\ ring' = ring
        /\ Committing' <=> FoundTerminator(buf[p])
        /\ IF FoundTerminator(buf[p]) THEN IsCommand(temp') ELSE ~FoundTerminator(temp')
    BY <1>2, AppendStep
  <2>2. \A i \in 1 .. Count(ring') : IsCommand(Contents(ring')[i]) BY <1>1, <2>1
  <2>3. IF Committing' THEN IsCommand(temp') ELSE ~FoundTerminator(temp') BY <2>1
  <2> QED BY <1>1, <2>1, <2>2, <2>3 DEF StoredAreCommands, Committing
<1>3. CASE WriteCommit(p)
  <2>1. /\ ~Committing' /\ IsCommand(temp) /\ temp' = <<>>
        /\ ring' \in Ring /\ RingInv(ring')
        /\ Contents(ring') = Push(Contents(ring), temp)
    BY <1>3, CommitStep
  <2>2. ~FoundTerminator(temp') BY <2>1 DEF FoundTerminator, Terminators
  <2>3. /\ Contents(ring) \in Seq(Seq(Byte)) /\ Len(Contents(ring)) = Count(ring)
        /\ Len(Contents(ring')) = Count(ring')
    BY <1>1, <2>1, ContentsIsSeq
  <2>4. temp \in Seq(Byte) BY <1>1 DEF TypeOK
  <2>5. ASSUME NEW i \in 1 .. Count(ring') PROVE IsCommand(Contents(ring')[i])
    <3> DEFINE log == Contents(ring)
    <3>1. /\ log \in Seq(Seq(Byte)) /\ temp \in Seq(Byte) /\ i \in 1 .. Len(Push(log, temp))
          /\ \A j \in 1 .. Len(log) : IsCommand(log[j])
      BY <1>1, <2>1, <2>3, <2>4
    <3> HIDE DEF log
    <3>2. CASE Len(log) < N
      <4>1. Push(log, temp) = Append(log, temp) BY <3>2 DEF Push
      <4>2. Push(log, temp)[i] = temp \/ (i \in 1 .. Len(log) /\ Push(log, temp)[i] = log[i])
        BY <3>1, <4>1, AppendProperties
      <4> QED BY <2>1, <3>1, <4>2 DEF log
    <3>3. CASE ~(Len(log) < N)
      <4>1. Push(log, temp) = Append(Tail(log), temp) /\ Len(log) > 0
        BY <3>1, <3>3, NAssumption DEF Push
      <4>2. /\ Tail(log) \in Seq(Seq(Byte)) /\ Len(Tail(log)) = Len(log) - 1
            /\ \A j \in 1 .. Len(Tail(log)) : Tail(log)[j] = log[j + 1]
        BY <3>1, <4>1, HeadTailProperties
      <4>3. \A j \in 1 .. Len(Tail(log)) : j + 1 \in 1 .. Len(log) BY <3>1, <4>2
      <4>4. \A j \in 1 .. Len(Tail(log)) : IsCommand(Tail(log)[j]) BY <3>1, <4>2, <4>3
      <4>5. Push(log, temp)[i] = temp
            \/ (i \in 1 .. Len(Tail(log)) /\ Push(log, temp)[i] = Tail(log)[i])
        <5> DEFINE t == Tail(log)
        <5>1. t \in Seq(Seq(Byte)) /\ temp \in Seq(Byte) BY <3>1, <4>2
        <5>2. i \in 1 .. Len(Append(t, temp)) BY <3>1, <4>1
        <5> HIDE DEF t
        <5>3. Append(t, temp)[i] = temp \/ (i \in 1 .. Len(t) /\ Append(t, temp)[i] = t[i])
          BY <5>1, <5>2, AppendProperties
        <5> QED BY <4>1, <5>3 DEF t
      <4> QED BY <2>1, <4>4, <4>5 DEF log
    <3> QED BY <3>2, <3>3
  <2> QED BY <2>1, <2>2, <2>5 DEF StoredAreCommands, Committing
<1>4. CASE ~DataSteps(p)
  <2>1. /\ ring' = ring /\ temp' = temp
        /\ \A q \in Proc : pc'[q] = "commit" <=> pc[q] = "commit"
    BY <1>1, <1>4, OtherStepsLeaveData
  <2> QED BY <1>1, <2>1 DEF StoredAreCommands
<1> QED BY <1>2, <1>3, <1>4 DEF DataSteps

LEMMA StepCountInHand ==
    ASSUME Inv, NEW p \in Proc, Step(p) \/ Call(p)
    PROVE  CountInHand'
<1> SUFFICES ASSUME NEW q \in Proc, pc'[q] = "summed"
             PROVE  arg'[q].offset = SeekByteCount(ring', arg'[q].start, arg'[q].end,
                                                   arg'[q].cmdOffset)
  BY DEF CountInHand
<1>1. TypeOK /\ OneInside /\ CountInHand BY DEF Inv
<1>2. CASE q = p
  <2>1. IoctlSum(p) BY <1>1, <1>2, StepsAreLocal
  <2> QED BY <1>1, <1>2, <2>1 DEF IoctlSum, TypeOK, ArgType
<1>3. CASE q # p
  <2>1. pc[q] = "summed" /\ arg'[q] = arg[q] BY <1>1, <1>3, StepsAreLocal
  <2>2. ~DataSteps(p)
    BY <1>1, <1>3, <2>1 DEF DataSteps, WriteAppend, WriteCommit, Goto, OneInside, Holding
  <2>3. ring' = ring BY <1>1, <2>2, OtherStepsLeaveData
  <2> QED BY <1>1, <2>1, <2>3 DEF CountInHand
<1> QED BY <1>2, <1>3

LEMMA NextInv == Inv /\ [Next]_vars => Inv'
<1> SUFFICES ASSUME Inv, [Next]_vars PROVE Inv' OBVIOUS
<1>1. CASE Next
  <2>1. PICK p \in Proc : Step(p) \/ Call(p) BY <1>1 DEF Next
  <2>2. TypeOK' BY <2>1, StepType DEF Inv
  <2>3. OneInside' BY <2>1, StepOneInside DEF Inv
  <2>4. PiecesInHand' BY <2>1, StepPiecesInHand DEF Inv
  <2>5. RingInv(ring') /\ StoredAreCommands' BY <2>1, StepStored
  <2>6. CountInHand' BY <2>1, StepCountInHand
  <2> QED BY <2>2, <2>3, <2>4, <2>5, <2>6 DEF Inv
<1>2. CASE UNCHANGED vars
  BY <1>2 DEF vars, Inv, TypeOK, OneInside, PiecesInHand, CountInHand, StoredAreCommands
<1> QED BY <1>1, <1>2

LEMMA Invariance == Spec => []Inv
BY InitInv, NextInv, PTL DEF Spec

-------------------------------------------------------------------------------
(* Every variable of the driver keeps its type.                            *)
THEOREM TypeCorrect == Spec => []TypeOK
<1>1. Inv => TypeOK BY DEF Inv
<1> QED BY <1>1, Invariance, PTL

(***************************************************************************)
(* Mutual exclusion: at most one process is between down() and up(), and   *)
(* the semaphore counts exactly that, for any number of callers.           *)
(***************************************************************************)
THEOREM MutualExclusion == Spec => []OneInside
<1>1. Inv => OneInside BY DEF Inv
<1> QED BY <1>1, Invariance, PTL

(***************************************************************************)
(* Every entry the ring stores is one newline-terminated command, and the  *)
(* unfinished command holds no newline: writers never mix two commands.    *)
(***************************************************************************)
THEOREM CommandsStayWhole == Spec => []StoredAreCommands
<1>1. Inv => StoredAreCommands BY DEF Inv
<1> QED BY <1>1, Invariance, PTL

(* lseek measures, slot by slot, the number of bytes that can be read.     *)
THEOREM LengthIsExact == Spec => []LengthIsWhatCanBeRead
<1>1. Inv => LengthIsWhatCanBeRead
  BY LengthOfAll DEF Inv, TypeOK, LengthIsWhatCanBeRead
<1> QED BY <1>1, Invariance, PTL

(***************************************************************************)
(* The count of AESDCHAR_IOCSEEKTO is the position of the byte sought, for *)
(* every stored command but the N-th, when out_offs did not move between   *)
(* its two reads and the count.                                            *)
(***************************************************************************)
THEOREM UndisturbedSeekIsExact == Spec => []SeekIsExactWhenUndisturbed
<1>1. Inv => SeekIsExactWhenUndisturbed
  <2> SUFFICES ASSUME Inv, NEW p \in Proc,
                      pc[p] = "summed", arg[p].cmd < N - 1, arg[p].cmd < Count(ring),
                      arg[p].start = ring.out_offs, arg[p].end = SlotAt(ring, arg[p].cmd)
               PROVE  arg[p].offset = CommandStart(Contents(ring), arg[p].cmd)
                                        + arg[p].cmdOffset
    BY DEF SeekIsExactWhenUndisturbed
  <2> DEFINE c == arg[p].cmd
  <2>1. ring \in Ring /\ RingInv(ring) /\ c \in Nat /\ arg[p].cmdOffset \in Nat
    BY DEF Inv, TypeOK, ArgType
  <2>2. arg[p].offset = SeekByteCount(ring, ring.out_offs, SlotAt(ring, c), arg[p].cmdOffset)
    BY DEF Inv, CountInHand
  <2>3. SeekByteCount(ring, ring.out_offs, SlotAt(ring, c), arg[p].cmdOffset)
          = Len(Joined(Contents(ring), c)) + arg[p].cmdOffset
    BY <2>1, SeekByteCountValue
  <2> QED BY <2>2, <2>3 DEF CommandStart, Joined
<1> QED BY <1>1, Invariance, PTL

(* What is left of a command from any of its bytes on is a command.        *)
LEMMA RestIsCommand ==
    ASSUME NEW x \in Seq(Byte), IsCommand(x), NEW k \in 0 .. Len(x) - 1
    PROVE  IsCommand(SubSeq(x, k + 1, Len(x)))
<1> DEFINE n == Len(x)
           y == SubSeq(x, k + 1, n)
<1>1. n \in Nat /\ k \in Nat /\ k < n BY DEF n
<1>2. Len(y) = n - (k + 1) + 1 /\ \A i \in 1 .. n - (k + 1) + 1 : y[i] = x[k + 1 + i - 1]
  <2>1. k + 1 \in Int /\ n \in Int /\ k + 1 <= n BY <1>1
  <2>2. \A i \in k + 1 .. n : x[i] \in Byte BY <1>1
  <2> QED BY <2>1, <2>2, SubSeqProperties
<1>3. \A i \in 1 .. n : x[i] = NL <=> i = n BY DEF IsCommand
<1> HIDE DEF n, y
<1>4. Len(y) = n - k BY <1>1, <1>2
<1>5. ASSUME NEW i \in 1 .. Len(y) PROVE y[i] = NL <=> i = Len(y)
  <2>1. i \in 1 .. n - (k + 1) + 1 /\ k + 1 + i - 1 = k + i /\ k + i \in 1 .. n
    BY <1>1, <1>4
  <2>2. y[i] = x[k + i] BY <1>2, <2>1
  <2> QED BY <1>1, <1>3, <1>4, <2>1, <2>2
<1>6. y # <<>> BY <1>1, <1>4
<1> QED BY <1>5, <1>6 DEF IsCommand, y, n

LEMMA ReadStep ==
    ASSUME Inv, NEW p \in Proc, ReadCopy(p)
    PROVE  IF fpos[p] >= Len(Bytes(ring))
           THEN buf'[p] = <<>> /\ fpos'[p] = fpos[p]
           ELSE /\ IsCommand(buf'[p])
                /\ buf'[p] = SubSeq(Bytes(ring), fpos[p] + 1, fpos'[p])
<1> DEFINE pos == fpos[p]
           r == ReadAt(ring, pos)
           flat == Bytes(ring)
<1>1. /\ ring \in Ring /\ RingInv(ring) /\ fpos \in [Proc -> Nat] /\ buf \in [Proc -> Seq(Byte)]
      /\ pos \in Nat /\ \A i \in 1 .. Count(ring) : IsCommand(Nth(Contents(ring), i))
  BY DEF Inv, TypeOK, StoredAreCommands, Nth
<1>2. buf'[p] = r /\ fpos'[p] = pos + Len(r) BY <1>1 DEF ReadCopy
<1>3. flat \in Seq(Byte) /\ Len(flat) \in Nat BY <1>1, SumsArePositions
<1>4. CASE pos >= Len(flat)
  <2>1. r = <<>> BY <1>1, <1>4, ReadAtValue
  <2> QED BY <1>1, <1>2, <1>4, <2>1
<1>5. CASE ~(pos >= Len(flat))
  <2>1. pos < Len(flat) BY <1>1, <1>3, <1>5
  <2>2. PICK c \in 1 .. Count(ring) : \E k \in 0 .. Len(Nth(Contents(ring), c)) - 1 :
           r = SubSeq(Nth(Contents(ring), c), k + 1, Len(Nth(Contents(ring), c)))
    BY <1>1, <2>1, ReadAtValue
  <2>3. PICK k \in 0 .. Len(Nth(Contents(ring), c)) - 1 :
           r = SubSeq(Nth(Contents(ring), c), k + 1, Len(Nth(Contents(ring), c)))
    BY <2>2
  <2>4. Nth(Contents(ring), c) \in Seq(Byte)
    <3>1. Contents(ring) \in Seq(Seq(Byte)) /\ Len(Contents(ring)) = Count(ring)
      BY <1>1, ContentsIsSeq
    <3> QED BY <3>1 DEF Nth
  <2>5. IsCommand(r) BY <1>1, <2>3, <2>4, RestIsCommand
  <2>6. r = SubSeq(flat, pos + 1, pos + Len(r)) BY <1>1, <2>1, ReadAtIsSubSeq
  <2> HIDE DEF r, flat
  <2> QED BY <1>2, <1>5, <2>5, <2>6 DEF r, flat
<1> QED BY <1>4, <1>5

(***************************************************************************)
(* A read copies the bytes up to and including the next newline and moves  *)
(* the position over them, or finds the end of the data; nothing but a     *)
(* process's own open, read and seek moves its position.                   *)
(***************************************************************************)
THEOREM ReadsAreExact == Spec => ReadsUpToTheNewline
<1> DEFINE Reads ==
             \A p \in Proc :
               LET flat == Bytes(ring)
               IN  /\ ReadCopy(p) =>
                        IF fpos[p] >= Len(flat)
                        THEN buf'[p] = <<>> /\ fpos'[p] = fpos[p]
                        ELSE /\ IsCommand(buf'[p])
                             /\ buf'[p] = SubSeq(flat, fpos[p] + 1, fpos'[p])
                   /\ ReadFault(p) => fpos'[p] = fpos[p]
                   /\ fpos'[p] # fpos[p] =>
                        pc[p] \in {"closed", "copy", "seek"} /\ pc'[p] # pc[p]
<1>1. Inv /\ [Next]_vars => [Reads]_vars
  <2> SUFFICES ASSUME Inv, Next PROVE Reads BY DEF vars
  <2>1. PICK q \in Proc : Step(q) \/ Call(q) BY DEF Next
  <2>2. ASSUME NEW p \in Proc, fpos'[p] # fpos[p]
        PROVE  pc[p] \in {"closed", "copy", "seek"} /\ pc'[p] # pc[p]
    BY <2>1, <2>2, StepsAreLocal DEF Inv
  <2>3. ASSUME NEW p \in Proc, ReadFault(p) PROVE fpos'[p] = fpos[p]
    BY <2>3 DEF ReadFault
  <2> QED BY <2>2, <2>3, ReadStep
<1> QED BY <1>1, Invariance, PTL DEF Spec, ReadsUpToTheNewline

(***************************************************************************)
(* The driver implements the log of commands: each write takes effect at   *)
(* one instant, as an extension of the unfinished command or as the        *)
(* storing of a whole command, and nothing else changes the log.           *)
(***************************************************************************)
THEOREM Refinement == Spec => ImplementsCommandLog
<1>1. Init => Log!Init
  <2> SUFFICES ASSUME Init PROVE Log!Init OBVIOUS
  <2>1. Inv BY InitInv
  <2>2. ~Committing /\ temp = <<>> /\ Count(ring) = 0
    BY DEF Init, Committing, EmptyRing, Count
  <2>3. Contents(ring) = <<>>
    <3>1. Contents(ring) \in Seq(Seq(Byte)) /\ Len(Contents(ring)) = 0
      BY <2>1, <2>2, ContentsIsSeq DEF Inv, TypeOK
    <3> QED BY <3>1
  <2> QED BY <2>2, <2>3 DEF Log!Init
<1>2. Inv /\ [Next]_vars => [Log!Next]_(Log!vars)
  <2> SUFFICES ASSUME Inv, [Next]_vars PROVE [Log!Next]_(Log!vars) OBVIOUS
  <2>1. CASE UNCHANGED vars
    BY <2>1 DEF vars, Log!vars, Committing
  <2>2. CASE Next
    <3>1. PICK p \in Proc : Step(p) \/ Call(p) BY <2>2 DEF Next
    <3>2. CASE WriteAppend(p)
      <4>1. /\ ~Committing /\ buf[p] \in Pieces /\ temp' = temp \o buf[p] /\ ring' = ring
            /\ Committing' <=> FoundTerminator(buf[p])
        BY <3>2, AppendStep
      <4>2. CASE FoundTerminator(buf[p])
        <5>1. Log!Commit(buf[p])
          BY <4>1, <4>2 DEF Log!Commit, Log!Keep, Push
        <5> QED BY <4>1, <5>1 DEF Log!Next
      <4>3. CASE ~FoundTerminator(buf[p])
        <5>1. Log!Extend(buf[p])
          BY <4>1, <4>3 DEF Log!Extend
        <5> QED BY <4>1, <5>1 DEF Log!Next
      <4> QED BY <4>2, <4>3
    <3>3. CASE WriteCommit(p)
      <4>1. /\ Committing /\ ~Committing' /\ temp' = <<>>
            /\ Contents(ring') = Push(Contents(ring), temp)
        BY <3>3, CommitStep
      <4> QED BY <4>1 DEF Log!vars
    <3>4. CASE ~DataSteps(p)
      <4>1. /\ ring' = ring /\ temp' = temp
            /\ \A q \in Proc : pc'[q] = "commit" <=> pc[q] = "commit"
        BY <3>1, <3>4, OtherStepsLeaveData DEF Inv
      <4>2. Committing' <=> Committing BY <4>1 DEF Committing
      <4> QED BY <4>1, <4>2 DEF Log!vars
    <3> QED BY <3>2, <3>3, <3>4 DEF DataSteps
  <2> QED BY <2>1, <2>2
<1> QED BY <1>1, <1>2, Invariance, PTL DEF Spec, ImplementsCommandLog, Log!Spec
===============================================================================
