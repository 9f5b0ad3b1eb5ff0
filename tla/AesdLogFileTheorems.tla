------------------------- MODULE AesdLogFileTheorems -------------------------
(***************************************************************************)
(* Theorems about the server with a log file, for any number of clients,   *)
(* any lines, any sizes of buffers and any number of timestamps.           *)
(***************************************************************************)
EXTENDS AesdLogFile, SequenceTheorems, TLAPS

(* log_lock names the one thread that is writing or replying.              *)
LockNamesHolder == \A c \in Client : lock = c <=> conn[c] \in {"write", "reply"}

(* What a thread is about to store is the end of a line.                   *)
LineEndInHand ==
    \A c \in Client :
      conn[c] \in {"lock", "write"} => left[c] # <<>> /\ left[c][Len(left[c])] = NL

(***************************************************************************)
(* Only the thread that holds log_lock can have left the last line of the  *)
(* file without its end.                                                   *)
(***************************************************************************)
LastLineIsHeld ==
    ~fault /\ Len(log) > 0 =>
      LET last == log[Len(log)]
      IN  last # Stamp /\ last[2] # NL => conn[last[1]] = "write"

(* A thread's position, or where its reply began, is behind its lines.     *)
OwnLinesBehind ==
    \A c \in Client : conn[c] # "done" =>
      \A i \in 1 .. Len(log) :
        log[i] # Stamp /\ log[i][1] = c => i <= IF conn[c] = "reply" THEN ext[c] ELSE pos[c]

(***************************************************************************)
(* The bytes of a packet lie in the buffer, and what was stored is those   *)
(* bytes and, once the packet is complete, the zero behind them.           *)
(***************************************************************************)
BuffersHaveRoom ==
    \A c \in Client :
      /\ size[c] > 0 /\ Len(line[c]) <= size[c]
      /\ \/ stored[c] = Len(line[c])
         \/ /\ stored[c] = Len(line[c]) + 1 /\ Len(line[c]) > 0
            /\ line[c][Len(line[c])] = NL

(***************************************************************************)
(* The timer's descriptor is open until the threads are joined, and after  *)
(* timer_delete only handlers that were running then are left.             *)
(***************************************************************************)
TimerStopsFirst ==
    /\ main # "ended" => status = "none"
    /\ ~timerFile => main \in {"remove", "ended"}
    /\ main \in {"join", "remove"} => ~armed /\ (handlers > 0 => late)

(***************************************************************************)
(* The inductive invariant.  LinesStayTogether says nothing of the last    *)
(* cell of the file, RepliesOmitOwnLines nothing of threads that are not   *)
(* replying, and FailsOnlyForLateHandlers nothing of a server that has not *)
(* ended: the named parts do.                                              *)
(***************************************************************************)
Inv ==
    /\ TypeOK
    /\ LockNamesHolder
    /\ TimestampsOverwriteTheStart
    /\ LineEndInHand /\ LastLineIsHeld /\ LinesStayTogether
    /\ OwnLinesBehind
    /\ BuffersHaveRoom
    /\ TimerStopsFirst /\ FailsOnlyForLateHandlers

LEMMA MinOfTwo ==
    ASSUME NEW m \in Int, NEW n \in Int
    PROVE  Min({m, n}) = IF m <= n THEN m ELSE n
<1> DEFINE k == IF m <= n THEN m ELSE n
<1>1. k \in {m, n} /\ \A x \in {m, n} : k <= x OBVIOUS
<1>2. Min({m, n}) \in {m, n} /\ \A x \in {m, n} : Min({m, n}) <= x
  BY <1>1 DEF Min
<1> QED BY <1>1, <1>2

LEMMA InitInv == Init => Inv
<1> SUFFICES ASSUME Init PROVE Inv OBVIOUS
<1> USE DEF Init
<1>1. TypeOK
  <2>1. /\ 0 \in 0 .. MaxTicks /\ 0 \in 0 .. MaxBytes /\ 0 \in 0 .. ticks
        /\ \A S : <<>> \in Seq(S)
        /\ BufferSize \in Nat /\ 0 \in 0 .. Len(file)
    BY BoundsAssumption, SizeAssumption
  <2> QED BY <2>1 DEF TypeOK
<1>2. LockNamesHolder BY NoOneAssumption DEF LockNamesHolder
<1>3. TimestampsOverwriteTheStart BY DEF TimestampsOverwriteTheStart
<1>4. LineEndInHand /\ LastLineIsHeld /\ LinesStayTogether
  BY DEF LineEndInHand, LastLineIsHeld, LinesStayTogether
<1>5. OwnLinesBehind BY DEF OwnLinesBehind
<1>6. BuffersHaveRoom BY SizeAssumption DEF BuffersHaveRoom
<1>7. TimerStopsFirst /\ FailsOnlyForLateHandlers
  BY DEF TimerStopsFirst, FailsOnlyForLateHandlers
<1> QED BY <1>1, <1>2, <1>3, <1>4, <1>5, <1>6, <1>7 DEF Inv

-------------------------------------------------------------------------------
(* What is left of a thread when it ends.                                  *)
LEMMA ThreadEndsType ==
    ASSUME TypeOK, NEW c \in Client, ThreadEnds(c)
    PROVE  /\ conn' \in [Client -> {"none", "recv", "seek", "lock", "write", "relock", "reply", "done"}]
           /\ line' \in [Client -> Seq(Byte)] /\ size' \in [Client -> Nat]
           /\ stored' \in [Client -> Nat]
           /\ pos' \in [Client -> 0 .. Len(file)] /\ ext' \in [Client -> 0 .. Len(file)]
<1>1. BufferSize \in Nat /\ <<>> \in Seq(Byte) /\ 0 \in 0 .. Len(file)
  BY SizeAssumption DEF TypeOK
<1> QED BY <1>1 DEF ThreadEnds, ThreadGoto, TypeOK

(* Every step keeps the types, and every position inside the file.         *)
LEMMA StepType ==
    ASSUME TypeOK, Next
    PROVE  TypeOK'
<1> USE DEF TypeOK, mainVars, stampVars, fileVars, connVars
<1>1. CASE StopAccepting \/ JoinAndClose
  BY <1>1 DEF StopAccepting, JoinAndClose
<1>2. CASE TimerDelete
  <2>1. late' \in BOOLEAN
    <3>1. late' = (handlers > 0) BY <1>2, Zenon DEF TimerDelete
    <3>2. CASE handlers > 0 BY <3>1, <3>2
    <3>3. CASE ~(handlers > 0) BY <3>1, <3>3
    <3> QED BY <3>2, <3>3
  <2> QED BY <1>2, <2>1 DEF TimerDelete
<1>3. CASE RemoveFile BY <1>3 DEF RemoveFile, Ends
<1>4. CASE Timestamp
  <2>1. Stamp \in Cell BY DEF Cell
  <2>2. Overlay(file, stampPos, Stamp) \in Seq(Cell)
        /\ Len(Overlay(file, stampPos, Stamp)) = IF stampPos < Len(file) THEN Len(file) ELSE Len(file) + 1
    BY <2>1 DEF Overlay
  <2> QED BY <1>4, <2>1, <2>2 DEF Timestamp
<1>5. CASE TimestampFails BY <1>5 DEF TimestampFails, Ends
<1>6. CASE Signal
  <2>1. CASE UNCHANGED <<conn, line, size, stored, pos, ext>> BY <1>6, <2>1 DEF Signal
  <2>2. ASSUME NEW c \in Client, ThreadEnds(c) PROVE TypeOK'
    BY <1>6, <2>2, ThreadEndsType DEF Signal
  <2> QED BY <1>6, <2>1, <2>2 DEF Signal
<1>7. CASE TimerExpires BY <1>7, BoundsAssumption DEF TimerExpires
<1>8. ASSUME NEW c \in Client, Accept(c) \/ Close(c) PROVE TypeOK'
  <2>1. conn' \in [Client -> {"none", "recv", "seek", "lock", "write", "relock", "reply", "done"}]
    BY <1>8 DEF Accept, Close
  <2>2. gone' \in [Client -> BOOLEAN] BY <1>8 DEF Accept, Close
  <2>3. UNCHANGED <<mainVars, stampVars, fileVars, got, line, size, stored, left, pos, ext>>
    BY <1>8 DEF Accept, Close
  <2> QED BY <2>1, <2>2, <2>3
<1>9. ASSUME NEW c \in Client, ReallocFails(c) \/ ReceiveEnds(c) PROVE TypeOK'
  <2>1. ThreadEnds(c) BY <1>9 DEF ReallocFails, ReceiveEnds
  <2>2. UNCHANGED <<mainVars, stampVars, fileVars, gone, got, left>>
    BY <1>9 DEF ReallocFails, ReceiveEnds
  <2>3. /\ conn' \in [Client -> {"none", "recv", "seek", "lock", "write", "relock", "reply", "done"}]
        /\ line' \in [Client -> Seq(Byte)] /\ size' \in [Client -> Nat]
        /\ stored' \in [Client -> Nat]
        /\ pos' \in [Client -> 0 .. Len(file)] /\ ext' \in [Client -> 0 .. Len(file)]
    BY <2>1, ThreadEndsType
  <2> QED BY <2>2, <2>3
<1>10. ASSUME NEW c \in Client, NEW b \in Byte, Receive(c, b) PROVE TypeOK'
  <2>1. Append(line[c], b) \in Seq(Byte) OBVIOUS
  <2>2. got' \in 0 .. MaxBytes BY <1>10, BoundsAssumption DEF Receive
  <2>3. Room(c) \in Nat
    <3>1. size[c] \in Nat OBVIOUS
    <3> HIDE DEF TypeOK
    <3> QED BY <3>1 DEF Room
  <2>4. line' \in [Client -> Seq(Byte)] /\ size' \in [Client -> Nat]
    BY <1>10, <2>1, <2>3 DEF Receive
  <2>5. left' \in [Client -> Seq(Byte)] BY <1>10, <2>1 DEF Receive
  <2>7. stored' \in [Client -> Nat]
    <3>1. line[c] \in Seq(Byte) /\ stored \in [Client -> Nat] OBVIOUS
    <3> HIDE DEF TypeOK
    <3> DEFINE last == Len(Append(line[c], b)) + (IF b = NL THEN 1 ELSE 0)
    <3>2. last \in Nat
      <4>1. Len(Append(line[c], b)) = Len(line[c]) + 1 /\ Len(line[c]) \in Nat BY <3>1
      <4>2. CASE b = NL BY <4>1, <4>2
      <4>3. CASE b # NL BY <4>1, <4>3
      <4> QED BY <4>2, <4>3
    <3>3. stored' = [stored EXCEPT ![c] = last] BY <1>10 DEF Receive
    <3> HIDE DEF last
    <3> QED BY <3>1, <3>2, <3>3
  <2>6. conn' \in [Client -> {"none", "recv", "seek", "lock", "write", "relock", "reply", "done"}]
    BY <1>10 DEF Receive, ThreadGoto, After
  <2> QED BY <1>10, <2>2, <2>4, <2>5, <2>6, <2>7 DEF Receive
<1>11. ASSUME NEW c \in Client, SeekRefused(c) \/ LockLine(c) \/ LockReply(c) PROVE TypeOK'
  <2>1. conn' \in [Client -> {"none", "recv", "seek", "lock", "write", "relock", "reply", "done"}]
    BY <1>11 DEF SeekRefused, LockLine, LockReply, ThreadGoto
  <2>2. ext' \in [Client -> 0 .. Len(file)] /\ lock' \in Client \cup {NoOne}
    BY <1>11 DEF SeekRefused, LockLine, LockReply
  <2>3. UNCHANGED <<mainVars, stampVars, file, log, fault, gone, got, line, size, stored, left, pos>>
    BY <1>11 DEF SeekRefused, LockLine, LockReply
  <2> QED BY <2>1, <2>2, <2>3
<1>12. ASSUME NEW c \in Client, NEW n \in 1 .. Len(left[c]), Write(c, n) PROVE TypeOK'
  <2>1. Cells(c, n) \in Seq(Cell) /\ Len(Cells(c, n)) = n
    <3>1. left[c] \in Seq(Byte) OBVIOUS
    <3> HIDE DEF TypeOK
    <3>2. n \in Nat /\ \A i \in 1 .. n : left[c][i] \in Byte BY <3>1
    <3>3. \A i \in 1 .. n : <<c, left[c][i]>> \in Cell BY <3>2 DEF Cell
    <3> QED BY <3>2, <3>3 DEF Cells
  <2>2. file' \in Seq(Cell) /\ log' \in Seq(Cell) /\ Len(file') = Len(file) + n
    <3>1. file' = file \o Cells(c, n) /\ log' = log \o Cells(c, n) BY <1>12 DEF Write
    <3> HIDE DEF TypeOK
    <3>2. file \in Seq(Cell) /\ log \in Seq(Cell) BY DEF TypeOK
    <3> QED BY <2>1, <3>1, <3>2, ConcatProperties
  <2>3. left' \in [Client -> Seq(Byte)]
    <3>1. left \in [Client -> Seq(Byte)] OBVIOUS
    <3>2. left' = [left EXCEPT ![c] = SubSeq(left[c], n + 1, Len(left[c]))] BY <1>12 DEF Write
    <3> HIDE DEF TypeOK
    <3>3. SubSeq(left[c], n + 1, Len(left[c])) \in Seq(Byte) BY <3>1
    <3> QED BY <3>1, <3>2, <3>3
  <2>9. Len(file) \in Nat /\ Len(file') \in Nat /\ Len(file) <= Len(file')
    <3>1. file \in Seq(Cell) /\ left[c] \in Seq(Byte) OBVIOUS
    <3> HIDE DEF TypeOK
    <3> QED BY <2>2, <3>1
  <2>10. \A d \in Client : pos[d] \in 0 .. Len(file') /\ ext[d] \in 0 .. Len(file')
    <3>1. \A d \in Client : pos[d] \in 0 .. Len(file) /\ ext[d] \in 0 .. Len(file) OBVIOUS
    <3> HIDE DEF TypeOK
    <3> QED BY <2>9, <3>1
  <2>4. pos' \in [Client -> 0 .. Len(file')]
    <3>1. pos' = [pos EXCEPT ![c] = Len(file')] BY <1>12 DEF Write
    <3>2. DOMAIN pos = Client /\ pos = [d \in Client |-> pos[d]] OBVIOUS
    <3> HIDE DEF TypeOK
    <3> QED BY <2>9, <2>10, <3>1, <3>2
  <2>5. conn' \in [Client -> {"none", "recv", "seek", "lock", "write", "relock", "reply", "done"}]
    BY <1>12 DEF Write, ThreadGoto
  <2>6. lock' \in Client \cup {NoOne} BY <1>12 DEF Write
  <2>7. stampPos' \in 0 .. Len(file') /\ ext' \in [Client -> 0 .. Len(file')]
    <3>1. ext' = ext /\ stampPos' = stampPos BY <1>12 DEF Write
    <3>2. DOMAIN ext = Client /\ ext = [d \in Client |-> ext[d]] /\ stampPos \in 0 .. Len(file)
      OBVIOUS
    <3> HIDE DEF TypeOK
    <3> QED BY <2>9, <2>10, <3>1, <3>2
  <2>8. UNCHANGED <<mainVars, stampVars, fault, gone, got, line, size, stored>> BY <1>12 DEF Write
  <2> QED BY <2>2, <2>3, <2>4, <2>5, <2>6, <2>7, <2>8
<1>13. ASSUME NEW c \in Client, WriteFails(c) PROVE TypeOK'
  BY <1>13 DEF WriteFails, ThreadGoto
<1>14. ASSUME NEW c \in Client, ReplyRead(c) PROVE TypeOK'
  <2>1. Min({pos[c] + ReadSize, Len(file)}) \in 0 .. Len(file)
    <3>1. pos[c] \in 0 .. Len(file) /\ Len(file) \in Nat /\ ReadSize \in Nat
      BY SizeAssumption
    <3> DEFINE m == pos[c] + ReadSize
               n == Len(file)
    <3> HIDE DEF TypeOK
    <3>2. m \in Int /\ n \in Int /\ m \in Nat /\ n \in Nat BY <3>1
    <3> HIDE DEF m, n
    <3>3. Min({m, n}) = IF m <= n THEN m ELSE n BY <3>2, MinOfTwo, Zenon
    <3>4. Min({m, n}) \in 0 .. n BY <3>2, <3>3
    <3> QED BY <3>4 DEF m, n
  <2> QED BY <1>14, <2>1 DEF ReplyRead, ThreadGoto
<1>15. ASSUME NEW c \in Client, Rewind(c) PROVE TypeOK'
  <2>1. pos' \in [Client -> 0 .. Len(file')] /\ file' = file BY <1>15 DEF Rewind
  <2>2. conn' \in [Client -> {"none", "recv", "seek", "lock", "write", "relock", "reply", "done"}]
    BY <1>15 DEF Rewind, ThreadGoto
  <2> QED BY <1>15, <2>1, <2>2 DEF Rewind
<1> QED BY <1>1, <1>2, <1>3, <1>4, <1>5, <1>6, <1>7, <1>8, <1>9, <1>10, <1>11, <1>12, <1>13,
           <1>14, <1>15
        DEF Next, Main, Notification, Environment, Thread

-------------------------------------------------------------------------------
(***************************************************************************)
(* Every step that does not touch the file: what stays is said once.       *)
(***************************************************************************)
FileSteps ==
    \/ Timestamp
    \/ \E c \in Client : \E n \in 1 .. Len(left[c]) : Write(c, n)

LEMMA OtherStepsLeaveFile ==
    ASSUME Next, ~FileSteps
    PROVE  file' = file /\ log' = log /\ stampPos' = stampPos
<1> USE DEF mainVars, stampVars, fileVars, connVars
<1>1. CASE Main
  BY <1>1 DEF Main, StopAccepting, TimerDelete, JoinAndClose, RemoveFile, Ends
<1>2. CASE Notification BY <1>2 DEF Notification, FileSteps, TimestampFails, Ends
<1>3. CASE Environment
  BY <1>3 DEF Environment, Signal, TimerExpires, Accept, Close, ReallocFails, Receive
<1>4. ASSUME NEW c \in Client, Thread(c)
      PROVE  file' = file /\ log' = log /\ stampPos' = stampPos
  BY <1>4 DEF Thread, FileSteps, ReceiveEnds, SeekRefused, LockLine, WriteFails, LockReply, ReplyRead, Rewind
<1> QED BY <1>1, <1>2, <1>3, <1>4 DEF Next

(* A write appends n cells of its client.                                  *)
LEMMA WriteAppends ==
    ASSUME TypeOK, NEW c \in Client, NEW n \in 1 .. Len(left[c]), Write(c, n)
    PROVE  /\ file' \in Seq(Cell) /\ log' \in Seq(Cell)
           /\ Len(file') = Len(file) + n /\ Len(log') = Len(log) + n
           /\ \A i \in 1 .. Len(file) : file'[i] = file[i]
           /\ \A i \in 1 .. Len(log) : log'[i] = log[i]
           /\ \A i \in 1 .. n : /\ file'[Len(file) + i] = <<c, left[c][i]>>
                                /\ log'[Len(log) + i] = <<c, left[c][i]>>
<1>1. /\ file \in Seq(Cell) /\ log \in Seq(Cell) /\ left[c] \in Seq(Byte) /\ n \in Nat
  BY DEF TypeOK
<1>2. /\ Cells(c, n) \in Seq(Cell) /\ Len(Cells(c, n)) = n
      /\ \A i \in 1 .. n : Cells(c, n)[i] = <<c, left[c][i]>>
  BY <1>1 DEF Cells, Cell
<1>3. file' = file \o Cells(c, n) /\ log' = log \o Cells(c, n) BY DEF Write
<1> DEFINE k == Cells(c, n)
<1>4. k \in Seq(Cell) /\ Len(k) = n BY <1>2
<1> HIDE DEF k
<1>5. ASSUME NEW f \in Seq(Cell)
      PROVE  /\ f \o k \in Seq(Cell) /\ Len(f \o k) = Len(f) + n
             /\ \A i \in 1 .. Len(f) : (f \o k)[i] = f[i]
             /\ \A i \in 1 .. n : (f \o k)[Len(f) + i] = k[i]
  <2>1. /\ f \o k \in Seq(Cell) /\ Len(f \o k) = Len(f) + n
        /\ \A i \in 1 .. Len(f) + n :
              (f \o k)[i] = IF i <= Len(f) THEN f[i] ELSE k[i - Len(f)]
    BY <1>1, <1>4, ConcatProperties
  <2>2. Len(f) \in Nat OBVIOUS
  <2>3. ASSUME NEW i \in 1 .. n PROVE (f \o k)[Len(f) + i] = k[i]
    <3>1. Len(f) + i \in 1 .. Len(f) + n /\ ~(Len(f) + i <= Len(f)) /\ (Len(f) + i) - Len(f) = i
      BY <1>1, <2>2
    <3> QED BY <2>1, <3>1
  <2>4. \A i \in 1 .. Len(f) : (f \o k)[i] = f[i] BY <1>1, <2>1, <2>2
  <2> QED BY <2>1, <2>3, <2>4
<1> QED BY <1>1, <1>2, <1>3, <1>5 DEF k

(* A timestamp is written over a cell, or behind the last one.             *)
LEMMA TimestampWrites ==
    ASSUME TypeOK, Timestamp
    PROVE  /\ stampPos' = stampPos + 1 /\ stampPos \in 0 .. Len(file)
           /\ file' = IF stampPos < Len(file) THEN [file EXCEPT ![stampPos + 1] = Stamp]
                      ELSE Append(file, Stamp)
           /\ log' = IF stampPos < Len(file) THEN log ELSE Append(log, Stamp)
           /\ file \in Seq(Cell) /\ log \in Seq(Cell)
BY DEF TypeOK, Timestamp, Overlay

LEMMA StepTimestamps ==
    ASSUME TypeOK, TimestampsOverwriteTheStart, Next
    PROVE  TimestampsOverwriteTheStart'
<1>1. /\ file \in Seq(Cell) /\ log \in Seq(Cell) /\ stampPos \in 0 .. Len(file)
      /\ Len(file) = Len(log)
      /\ \A i \in 1 .. Len(file) : file[i] = IF i <= stampPos THEN Stamp ELSE log[i]
  BY DEF TypeOK, TimestampsOverwriteTheStart
<1>2. CASE Timestamp
  <2>1. CASE stampPos < Len(file)
    <3>1. file' = [file EXCEPT ![stampPos + 1] = Stamp] /\ log' = log /\ stampPos' = stampPos + 1
      BY <1>2, <2>1, TimestampWrites
    <3>2. Len(file') = Len(file) BY <1>1, <3>1
    <3>3. ASSUME NEW i \in 1 .. Len(file')
          PROVE  file'[i] = IF i <= stampPos' THEN Stamp ELSE log'[i]
      BY <1>1, <2>1, <3>1, <3>2
    <3> QED BY <1>1, <3>1, <3>2, <3>3 DEF TimestampsOverwriteTheStart
  <2>2. CASE ~(stampPos < Len(file))
    <3>1. /\ file' = Append(file, Stamp) /\ log' = Append(log, Stamp)
          /\ stampPos' = stampPos + 1 /\ stampPos = Len(file)
      BY <1>1, <1>2, <2>2, TimestampWrites
    <3>2. Len(file') = Len(file) + 1 /\ Len(log') = Len(log) + 1 BY <1>1, <3>1
    <3>3. ASSUME NEW i \in 1 .. Len(file')
          PROVE  file'[i] = IF i <= stampPos' THEN Stamp ELSE log'[i]
      BY <1>1, <3>1, <3>2
    <3> QED BY <1>1, <3>2, <3>3 DEF TimestampsOverwriteTheStart
  <2> QED BY <2>1, <2>2
<1>3. ASSUME NEW c \in Client, NEW n \in 1 .. Len(left[c]), Write(c, n)
      PROVE  TimestampsOverwriteTheStart'
  <2>1. stampPos' = stampPos BY <1>3 DEF Write, stampVars
  <2>2. /\ Len(file') = Len(file) + n /\ Len(log') = Len(log) + n
        /\ \A i \in 1 .. Len(file) : file'[i] = file[i]
        /\ \A i \in 1 .. Len(log) : log'[i] = log[i]
        /\ \A i \in 1 .. n : /\ file'[Len(file) + i] = <<c, left[c][i]>>
                             /\ log'[Len(log) + i] = <<c, left[c][i]>>
    BY <1>3, WriteAppends
  <2>4. n \in Nat BY DEF TypeOK
  <2>3. ASSUME NEW i \in 1 .. Len(file')
        PROVE  file'[i] = IF i <= stampPos' THEN Stamp ELSE log'[i]
    <3>1. CASE i <= Len(file) BY <1>1, <2>1, <2>2, <2>4, <3>1
    <3>2. CASE ~(i <= Len(file))
      <4>1. PICK j \in 1 .. n : i = Len(file) + j
        <5>1. i - Len(file) \in 1 .. n /\ i = Len(file) + (i - Len(file))
          BY <1>1, <2>2, <2>4, <3>2
        <5> QED BY <5>1
      <4>2. file'[i] = log'[i] BY <1>1, <2>2, <4>1
      <4> QED BY <1>1, <2>1, <3>2, <4>2
    <3> QED BY <3>1, <3>2
  <2> QED BY <1>1, <2>2, <2>3, <2>4 DEF TimestampsOverwriteTheStart
<1>4. CASE ~FileSteps
  BY <1>1, <1>4, OtherStepsLeaveFile DEF TimestampsOverwriteTheStart
<1> QED BY <1>2, <1>3, <1>4 DEF FileSteps

-------------------------------------------------------------------------------
(* The thread takes log_lock where it enters write or reply, and gives it  *)
(* back on every way out, the failed write and the end of file included.   *)
LEMMA StepLockNamesHolder ==
    ASSUME TypeOK, LockNamesHolder, Next
    PROVE  LockNamesHolder'
<1> USE NoOneAssumption DEF LockNamesHolder
<1>1. conn \in [Client -> {"none", "recv", "seek", "lock", "write", "relock", "reply", "done"}]
  BY DEF TypeOK
<1>2. CASE Main \/ Notification \/ TimerExpires
  BY <1>2 DEF Main, StopAccepting, TimerDelete, JoinAndClose, RemoveFile, Ends, Notification,
              Timestamp, TimestampFails, TimerExpires, fileVars, connVars
<1>3. CASE Signal
  <2>1. CASE UNCHANGED conn BY <1>3, <2>1 DEF Signal, fileVars
  <2>2. ASSUME NEW c \in Client, ThreadEnds(c) PROVE LockNamesHolder'
    BY <1>1, <1>3, <2>2 DEF Signal, ThreadEnds, ThreadGoto, fileVars
  <2> QED BY <1>3, <2>1, <2>2 DEF Signal
<1>4. ASSUME NEW c \in Client, Accept(c) \/ Close(c) PROVE LockNamesHolder'
  BY <1>1, <1>4 DEF Accept, Close, fileVars
<1>5. ASSUME NEW c \in Client, ReallocFails(c) \/ ReceiveEnds(c) PROVE LockNamesHolder'
  BY <1>1, <1>5 DEF ReallocFails, ReceiveEnds, ThreadEnds, ThreadGoto, fileVars
<1>6. ASSUME NEW c \in Client, NEW b \in Byte, Receive(c, b) PROVE LockNamesHolder'
  BY <1>1, <1>6 DEF Receive, After, ThreadGoto, fileVars
<1>7. ASSUME NEW c \in Client, SeekRefused(c) \/ LockLine(c) \/ LockReply(c)
      PROVE  LockNamesHolder'
  BY <1>1, <1>7 DEF SeekRefused, LockLine, LockReply, ThreadGoto, fileVars
<1>8. ASSUME NEW c \in Client, NEW n \in 1 .. Len(left[c]), Write(c, n) PROVE LockNamesHolder'
  BY <1>1, <1>8 DEF Write, ThreadGoto
<1>9. ASSUME NEW c \in Client, WriteFails(c) PROVE LockNamesHolder'
  BY <1>1, <1>9 DEF WriteFails, ThreadGoto
<1>10. ASSUME NEW c \in Client, ReplyRead(c) PROVE LockNamesHolder'
  BY <1>1, <1>10 DEF ReplyRead, ThreadGoto, fileVars
<1>11. ASSUME NEW c \in Client, Rewind(c) PROVE LockNamesHolder'
  BY <1>1, <1>11 DEF Rewind, ThreadGoto
<1> QED BY <1>2, <1>3, <1>4, <1>5, <1>6, <1>7, <1>8, <1>9, <1>10, <1>11
        DEF Next, Main, Notification, Environment, Thread

(* A received line ends in its newline, and so does what is left of it.    *)
LEMMA StepLineEndInHand ==
    ASSUME TypeOK, LineEndInHand, Next
    PROVE  LineEndInHand'
<1> USE DEF LineEndInHand
<1>1. /\ conn \in [Client -> {"none", "recv", "seek", "lock", "write", "relock", "reply", "done"}]
      /\ left \in [Client -> Seq(Byte)] /\ line \in [Client -> Seq(Byte)]
  BY DEF TypeOK
<1>2. CASE Main \/ Notification \/ TimerExpires
  BY <1>2 DEF Main, StopAccepting, TimerDelete, JoinAndClose, RemoveFile, Ends, Notification,
              Timestamp, TimestampFails, TimerExpires, connVars
<1>3. CASE Signal
  <2>1. CASE UNCHANGED conn BY <1>3, <2>1 DEF Signal
  <2>2. ASSUME NEW c \in Client, ThreadEnds(c) PROVE LineEndInHand'
    BY <1>1, <1>3, <2>2 DEF Signal, ThreadEnds, ThreadGoto
  <2> QED BY <1>3, <2>1, <2>2 DEF Signal
<1>4. ASSUME NEW c \in Client, Accept(c) \/ Close(c) PROVE LineEndInHand'
  BY <1>1, <1>4 DEF Accept, Close
<1>5. ASSUME NEW c \in Client, ReallocFails(c) \/ ReceiveEnds(c) PROVE LineEndInHand'
  BY <1>1, <1>5 DEF ReallocFails, ReceiveEnds, ThreadEnds, ThreadGoto
<1>6. ASSUME NEW c \in Client, NEW b \in Byte, Receive(c, b) PROVE LineEndInHand'
  <2> DEFINE packet == Append(line[c], b)
  <2>1. packet # <<>> /\ packet[Len(packet)] = b
    <3>1. Len(packet) = Len(line[c]) + 1 /\ Len(line[c]) \in Nat /\ packet \in Seq(Byte)
      BY <1>1
    <3>2. packet[Len(line[c]) + 1] = b BY <1>1
    <3> HIDE DEF packet
    <3> QED BY <3>1, <3>2
  <2>2. /\ left' = [left EXCEPT ![c] = IF conn'[c] = "lock" THEN packet ELSE <<>>]
        /\ \E to \in {"recv", "seek", "relock", "lock"} :
              conn' = [conn EXCEPT ![c] = to] /\ (to = "lock" => b = NL)
    BY <1>6 DEF Receive, After, ThreadGoto
  <2> HIDE DEF packet
  <2> QED BY <1>1, <2>1, <2>2
<1>7. ASSUME NEW c \in Client, SeekRefused(c) \/ LockLine(c) \/ LockReply(c)
      PROVE  LineEndInHand'
  BY <1>1, <1>7 DEF SeekRefused, LockLine, LockReply, ThreadGoto
<1>8. ASSUME NEW c \in Client, NEW n \in 1 .. Len(left[c]), Write(c, n) PROVE LineEndInHand'
  <2>1. /\ left' = [left EXCEPT ![c] = SubSeq(left[c], n + 1, Len(left[c]))]
        /\ conn' = [conn EXCEPT ![c] = IF n = Len(left[c]) THEN "relock" ELSE "write"]
        /\ conn[c] = "write"
    BY <1>1, <1>8 DEF Write, ThreadGoto
  <2>2. /\ Len(left[c]) \in Nat /\ left[c][Len(left[c])] = NL BY <1>1, <2>1
  <2>3. CASE n = Len(left[c]) BY <1>1, <2>1, <2>3
  <2>4. CASE n # Len(left[c])
    <3> DEFINE rest == SubSeq(left[c], n + 1, Len(left[c]))
    <3>1. n + 1 \in 1 .. Len(left[c]) BY <2>2, <2>4
    <3>2. /\ Len(rest) = Len(left[c]) - n
          /\ \A i \in 1 .. Len(left[c]) - n : rest[i] = left[c][n + i]
      BY <1>1, <2>2, <3>1, SubSeqProperties
    <3>3. rest # <<>> /\ rest[Len(rest)] = NL
      <4>1. Len(left[c]) - n \in 1 .. Len(left[c]) - n /\ n + (Len(left[c]) - n) = Len(left[c])
        BY <2>2, <3>1
      <4>2. rest # <<>>
        <5>1. Len(rest) # 0 BY <3>2, <4>1
        <5> HIDE DEF rest
        <5> QED BY <5>1
      <4> HIDE DEF rest
      <4> QED BY <2>2, <3>2, <4>1, <4>2
    <3> HIDE DEF rest
    <3>4. left' = [left EXCEPT ![c] = rest] BY <2>1 DEF rest
    <3> QED BY <1>1, <2>1, <3>3, <3>4
  <2> QED BY <2>3, <2>4
<1>9. ASSUME NEW c \in Client, WriteFails(c) PROVE LineEndInHand'
  BY <1>1, <1>9 DEF WriteFails, ThreadGoto
<1>10. ASSUME NEW c \in Client, ReplyRead(c) PROVE LineEndInHand'
  BY <1>1, <1>10 DEF ReplyRead, ThreadGoto
<1>11. ASSUME NEW c \in Client, Rewind(c) PROVE LineEndInHand'
  BY <1>1, <1>11 DEF Rewind, ThreadGoto
<1> QED BY <1>2, <1>3, <1>4, <1>5, <1>6, <1>7, <1>8, <1>9, <1>10, <1>11
        DEF Next, Main, Notification, Environment, Thread

-------------------------------------------------------------------------------
(* Threads leave write only by a step of Write or WriteFails, and the file *)
(* system does not recover from a failure.                                 *)
LEMMA WritersStay ==
    ASSUME TypeOK, Next, ~FileSteps
    PROVE  ~fault' => ~fault /\ \A c \in Client : conn[c] = "write" => conn'[c] = "write"
<1>1. conn \in [Client -> {"none", "recv", "seek", "lock", "write", "relock", "reply", "done"}]
  BY DEF TypeOK
<1>2. CASE Main \/ Notification \/ TimerExpires
  BY <1>2 DEF Main, StopAccepting, TimerDelete, JoinAndClose, RemoveFile, Ends, Notification,
              Timestamp, TimestampFails, TimerExpires, fileVars, connVars, FileSteps
<1>3. CASE Signal
  <2>1. CASE UNCHANGED conn BY <1>3, <2>1 DEF Signal, fileVars
  <2>2. ASSUME NEW c \in Client, ThreadEnds(c)
        PROVE  ~fault' => ~fault /\ \A d \in Client : conn[d] = "write" => conn'[d] = "write"
    BY <1>1, <1>3, <2>2 DEF Signal, ThreadEnds, ThreadGoto, fileVars
  <2> QED BY <1>3, <2>1, <2>2 DEF Signal
<1>4. ASSUME NEW c \in Client, Accept(c) \/ Close(c) \/ ReallocFails(c) \/ ReceiveEnds(c)
      PROVE  ~fault' => ~fault /\ \A d \in Client : conn[d] = "write" => conn'[d] = "write"
  BY <1>1, <1>4 DEF Accept, Close, ReallocFails, ReceiveEnds, ThreadEnds, ThreadGoto, fileVars
<1>5. ASSUME NEW c \in Client, NEW b \in Byte, Receive(c, b)
      PROVE  ~fault' => ~fault /\ \A d \in Client : conn[d] = "write" => conn'[d] = "write"
  BY <1>1, <1>5 DEF Receive, After, ThreadGoto, fileVars
<1>6. ASSUME NEW c \in Client, SeekRefused(c) \/ LockLine(c) \/ WriteFails(c) \/ LockReply(c)
      PROVE  ~fault' => ~fault /\ \A d \in Client : conn[d] = "write" => conn'[d] = "write"
  BY <1>1, <1>6 DEF SeekRefused, LockLine, WriteFails, LockReply, ThreadGoto, fileVars
<1>7. ASSUME NEW c \in Client, ReplyRead(c) \/ Rewind(c)
      PROVE  ~fault' => ~fault /\ \A d \in Client : conn[d] = "write" => conn'[d] = "write"
  BY <1>1, <1>7 DEF ReplyRead, Rewind, ThreadGoto, fileVars
<1> QED BY <1>2, <1>3, <1>4, <1>5, <1>6, <1>7
        DEF Next, Main, Notification, Environment, Thread, FileSteps

(***************************************************************************)
(* A write leaves the last line of the file open exactly when it stays in  *)
(* the loop, with log_lock; so what the next step adds belongs to it.      *)
(***************************************************************************)
LEMMA StepLines ==
    ASSUME TypeOK, LockNamesHolder, LineEndInHand, LastLineIsHeld, LinesStayTogether, Next
    PROVE  LastLineIsHeld' /\ LinesStayTogether'
<1>1. /\ file \in Seq(Cell) /\ log \in Seq(Cell) /\ Len(log) \in Nat
      /\ conn \in [Client -> {"none", "recv", "seek", "lock", "write", "relock", "reply", "done"}]
  BY DEF TypeOK
<1>2. \A i \in 1 .. Len(log) : log[i] # Stamp => log[i][1] \in Client
  BY <1>1 DEF Cell
<1>3. CASE ~FileSteps
  <2>1. log' = log BY <1>3, OtherStepsLeaveFile
  <2>2. ~fault' => ~fault /\ \A c \in Client : conn[c] = "write" => conn'[c] = "write"
    BY <1>3, WritersStay
  <2>3. Len(log) > 0 => Len(log) \in 1 .. Len(log) BY <1>1
  <2> QED BY <1>2, <2>1, <2>2, <2>3 DEF LastLineIsHeld, LinesStayTogether
<1>4. CASE Timestamp
  <2>1. lock = NoOne /\ fault' = fault /\ conn' = conn BY <1>4 DEF Timestamp, connVars
  <2>2. \A c \in Client : conn[c] # "write" BY <2>1, NoOneAssumption DEF LockNamesHolder
  <2>3. CASE log' = log BY <2>1, <2>3 DEF LastLineIsHeld, LinesStayTogether
  <2>4. CASE log' = Append(log, Stamp)
    <3>1. /\ Len(log') = Len(log) + 1 /\ log'[Len(log) + 1] = Stamp
          /\ \A i \in 1 .. Len(log) : log'[i] = log[i]
      BY <1>1, <2>4 DEF Cell
    <3>2. LastLineIsHeld' BY <1>1, <3>1 DEF LastLineIsHeld
    <3>3. ASSUME ~fault, NEW i \in 1 .. Len(log), log[i] # Stamp, log[i][2] # NL
          PROVE  i \in 1 .. Len(log) - 1
      <4>1. ~(i = Len(log)) BY <1>1, <1>2, <2>2, <3>3 DEF LastLineIsHeld
      <4> QED BY <1>1, <4>1
    <3>4. LinesStayTogether'
      <4> SUFFICES ASSUME ~fault, NEW i \in 1 .. Len(log), log[i] # Stamp, log[i][2] # NL
                   PROVE  log'[i + 1] # Stamp /\ log'[i + 1][1] = log[i][1]
        BY <1>1, <2>1, <3>1 DEF LinesStayTogether
      <4>1. i \in 1 .. Len(log) - 1 /\ i + 1 \in 1 .. Len(log) BY <1>1, <3>3
      <4> QED BY <3>1, <4>1 DEF LinesStayTogether
    <3> QED BY <3>2, <3>4
  <2> QED BY <1>4, <2>3, <2>4, TimestampWrites
<1>5. ASSUME NEW c \in Client, NEW n \in 1 .. Len(left[c]), Write(c, n)
      PROVE  LastLineIsHeld' /\ LinesStayTogether'
  <2>1. /\ Len(log') = Len(log) + n
        /\ \A i \in 1 .. Len(log) : log'[i] = log[i]
        /\ \A i \in 1 .. n : log'[Len(log) + i] = <<c, left[c][i]>>
    BY <1>5, WriteAppends
  <2>2. /\ conn[c] = "write" /\ fault' = fault /\ left[c] \in Seq(Byte) /\ n \in Nat /\ n > 0
        /\ conn'[c] = IF n = Len(left[c]) THEN "relock" ELSE "write"
        /\ left[c][Len(left[c])] = NL
    BY <1>1, <1>5 DEF Write, ThreadGoto, TypeOK, LineEndInHand
  <2>3. \A d \in Client : conn[d] = "write" => d = c
    BY <2>2, NoOneAssumption DEF LockNamesHolder
  <2>4. ASSUME NEW i \in 1 .. n
        PROVE  log'[Len(log) + i] # Stamp /\ log'[Len(log) + i][1] = c
               /\ log'[Len(log) + i][2] = left[c][i]
    <3>1. left[c][i] \in Byte BY <2>2
    <3>2. <<c, left[c][i]>> # Stamp BY <3>1, StampAssumption
    <3>3. log'[Len(log) + i] = <<c, left[c][i]>> BY <2>1, Zenon
    <3> QED BY <3>2, <3>3
  <2>5. LastLineIsHeld'
    <3>1. log'[Len(log')] = <<c, left[c][n]>> BY <2>1, <2>2
    <3>2. log'[Len(log')][2] # NL => n # Len(left[c]) BY <2>2, <3>1
    <3> QED BY <2>2, <3>1, <3>2 DEF LastLineIsHeld
  <2>6. ASSUME ~fault, NEW i \in 1 .. Len(log') - 1, log'[i] # Stamp, log'[i][2] # NL
        PROVE  log'[i + 1] # Stamp /\ log'[i + 1][1] = log'[i][1]
    <3>1. CASE i < Len(log)
      <4>1. i \in 1 .. Len(log) - 1 /\ i + 1 \in 1 .. Len(log) /\ i \in 1 .. Len(log)
        BY <1>1, <2>6, <3>1
      <4> QED BY <2>1, <2>6, <4>1 DEF LinesStayTogether
    <3>2. CASE i = Len(log)
      <4>1. Len(log) > 0 /\ i \in 1 .. Len(log) /\ 1 \in 1 .. n BY <1>1, <2>2, <2>6, <3>2
      <4>2. log[i][1] \in Client /\ conn[log[i][1]] = "write"
        BY <1>2, <2>1, <2>6, <3>2, <4>1 DEF LastLineIsHeld
      <4>3. log'[i][1] = c BY <2>1, <2>3, <4>1, <4>2
      <4> QED BY <2>4, <3>2, <4>1, <4>3
    <3>3. CASE i > Len(log)
      <4>1. PICK j \in 1 .. n - 1 : i = Len(log) + j
        <5>1. i - Len(log) \in 1 .. n - 1 /\ i = Len(log) + (i - Len(log))
          BY <1>1, <2>1, <2>2, <2>6, <3>3
        <5> QED BY <5>1
      <4>2. j \in 1 .. n /\ j + 1 \in 1 .. n /\ i + 1 = Len(log) + (j + 1)
        BY <1>1, <2>2, <4>1
      <4> QED BY <2>4, <4>1, <4>2
    <3> QED BY <1>1, <2>6, <3>1, <3>2, <3>3
  <2> QED BY <2>2, <2>5, <2>6 DEF LinesStayTogether
<1> QED BY <1>3, <1>4, <1>5 DEF FileSteps

-------------------------------------------------------------------------------
LEMMA StepOwnLinesBehind ==
    ASSUME TypeOK, LockNamesHolder, TimestampsOverwriteTheStart, OwnLinesBehind, Next
    PROVE  OwnLinesBehind'
<1> DEFINE Base(c) == IF conn[c] = "reply" THEN ext[c] ELSE pos[c]
           Own(l, i, c) == l[i] # Stamp /\ l[i][1] = c
<1>1. /\ conn \in [Client -> {"none", "recv", "seek", "lock", "write", "relock", "reply", "done"}]
      /\ pos \in [Client -> 0 .. Len(file)] /\ ext \in [Client -> 0 .. Len(file)]
      /\ log \in Seq(Cell) /\ Len(log) \in Nat /\ Len(file) = Len(log)
  BY DEF TypeOK, TimestampsOverwriteTheStart
<1>2. \A c \in Client : conn[c] # "done" => \A i \in 1 .. Len(log) : Own(log, i, c) => i <= Base(c)
  BY DEF OwnLinesBehind
<1>3. ASSUME log' = log,
             \A c \in Client : conn'[c] = "done"
                               \/ (conn[c] # "done" /\ Base(c)' = Base(c))
      PROVE  OwnLinesBehind'
  BY <1>2, <1>3 DEF OwnLinesBehind
<1>4. ASSUME NEW c \in Client, ThreadEnds(c)
      PROVE  \A d \in Client : conn'[d] = "done" \/ (conn[d] # "done" /\ Base(d)' = Base(d))
  BY <1>1, <1>4 DEF ThreadEnds, ThreadGoto
<1>5. CASE Main \/ TimestampFails \/ TimerExpires
  BY <1>1, <1>3, <1>5
     DEF Main, StopAccepting, TimerDelete, JoinAndClose, RemoveFile, Ends, TimestampFails,
         TimerExpires, OwnLinesBehind, fileVars, connVars
<1>6. CASE Timestamp
  <2>1. UNCHANGED connVars BY <1>6 DEF Timestamp
  <2>2. CASE log' = log BY <1>2, <2>1, <2>2 DEF OwnLinesBehind, connVars
  <2>3. CASE log' = Append(log, Stamp)
    <3>1. /\ Len(log') = Len(log) + 1 /\ log'[Len(log) + 1] = Stamp
          /\ \A i \in 1 .. Len(log) : log'[i] = log[i]
      BY <1>1, <2>3 DEF Cell
    <3>2. ASSUME NEW c \in Client, conn[c] # "done", NEW i \in 1 .. Len(log'), Own(log', i, c)
          PROVE  i <= Base(c)
      <4>1. i # Len(log) + 1 BY <3>1, <3>2
      <4>2. i \in 1 .. Len(log) BY <1>1, <3>1, <4>1
      <4> QED BY <1>2, <3>1, <3>2, <4>2
    <3> QED BY <2>1, <3>2 DEF OwnLinesBehind, connVars
  <2> QED BY <1>6, <2>2, <2>3, TimestampWrites
<1>7. ASSUME NEW c \in Client, NEW n \in 1 .. Len(left[c]), Write(c, n) PROVE OwnLinesBehind'
  <2>1. /\ Len(file') = Len(file) + n /\ Len(log') = Len(log) + n
        /\ \A i \in 1 .. Len(log) : log'[i] = log[i]
        /\ \A i \in 1 .. n : log'[Len(log) + i] = <<c, left[c][i]>>
    BY <1>7, WriteAppends
  <2>2. /\ conn' = [conn EXCEPT ![c] = IF n = Len(left[c]) THEN "relock" ELSE "write"]
        /\ pos' = [pos EXCEPT ![c] = Len(file')] /\ ext' = ext /\ n \in Nat
    BY <1>7 DEF Write, ThreadGoto, TypeOK
  <2>3. ASSUME NEW d \in Client, conn'[d] # "done", NEW i \in 1 .. Len(log'), Own(log', i, d)
        PROVE  i <= IF conn'[d] = "reply" THEN ext'[d] ELSE pos'[d]
    <3>1. CASE d = c
      <4>1. conn'[d] # "reply" /\ pos'[d] = Len(log') BY <1>1, <2>1, <2>2, <3>1
      <4> QED BY <1>1, <2>1, <2>2, <4>1
    <3>2. CASE d # c
      <4>1. i \in 1 .. Len(log)
        <5>1. SUFFICES ASSUME ~(i <= Len(log)) PROVE FALSE BY <1>1, <2>1, <2>2
        <5>2. PICK j \in 1 .. n : i = Len(log) + j
          <6>1. i - Len(log) \in 1 .. n /\ i = Len(log) + (i - Len(log))
            BY <1>1, <2>1, <2>2, <5>1
          <6> QED BY <6>1
        <5>3. log'[i] = <<c, left[c][j]>> BY <2>1, <5>2
        <5> QED BY <2>3, <3>2, <5>3
      <4>2. conn'[d] = conn[d] /\ pos'[d] = pos[d] /\ ext'[d] = ext[d]
        BY <1>1, <2>2, <3>2
      <4>3. log'[i] = log[i] BY <2>1, <4>1
      <4> QED BY <1>2, <2>3, <4>1, <4>2, <4>3
    <3> QED BY <3>1, <3>2
  <2> QED BY <2>3 DEF OwnLinesBehind
<1>8. CASE Signal
  <2>1. CASE UNCHANGED <<conn, line, size, stored, pos, ext>>
    BY <1>2, <1>8, <2>1 DEF Signal, fileVars, OwnLinesBehind
  <2>2. ASSUME NEW c \in Client, ThreadEnds(c) PROVE OwnLinesBehind'
    BY <1>3, <1>4, <1>8, <2>2 DEF Signal, fileVars
  <2> QED BY <1>8, <2>1, <2>2 DEF Signal
<1>9. ASSUME NEW c \in Client, ReallocFails(c) \/ ReceiveEnds(c) PROVE OwnLinesBehind'
  BY <1>3, <1>4, <1>9 DEF ReallocFails, ReceiveEnds, fileVars
<1>10. ASSUME NEW c \in Client, Accept(c) \/ Close(c) PROVE OwnLinesBehind'
  BY <1>1, <1>2, <1>10 DEF Accept, Close, OwnLinesBehind, fileVars
<1>11. ASSUME NEW c \in Client, NEW b \in Byte, Receive(c, b) PROVE OwnLinesBehind'
  BY <1>1, <1>2, <1>11 DEF Receive, After, ThreadGoto, OwnLinesBehind, fileVars
<1>12. ASSUME NEW c \in Client, SeekRefused(c) \/ LockLine(c) \/ WriteFails(c) \/ LockReply(c)
       PROVE  OwnLinesBehind'
  BY <1>1, <1>2, <1>12
     DEF SeekRefused, LockLine, WriteFails, LockReply, ThreadGoto, OwnLinesBehind, fileVars
<1>13. ASSUME NEW c \in Client, ReplyRead(c) PROVE OwnLinesBehind'
  BY <1>1, <1>2, <1>13 DEF ReplyRead, ThreadGoto, OwnLinesBehind, fileVars
<1>14. ASSUME NEW c \in Client, Rewind(c) PROVE OwnLinesBehind'
  BY <1>1, <1>2, <1>14 DEF Rewind, ThreadGoto, OwnLinesBehind
<1> QED BY <1>5, <1>6, <1>7, <1>8, <1>9, <1>10, <1>11, <1>12, <1>13, <1>14
        DEF Next, Main, Notification, Environment, Thread

-------------------------------------------------------------------------------
(* The buffer is doubled before the byte that would not fit is stored.     *)
LEMMA StepBuffersHaveRoom ==
    ASSUME TypeOK, BuffersHaveRoom, Next
    PROVE  BuffersHaveRoom'
<1> DEFINE HasRoom(d) ==
      /\ size[d] > 0 /\ Len(line[d]) <= size[d]
      /\ \/ stored[d] = Len(line[d])
         \/ /\ stored[d] = Len(line[d]) + 1 /\ Len(line[d]) > 0
            /\ line[d][Len(line[d])] = NL
<1>1. /\ conn \in [Client -> {"none", "recv", "seek", "lock", "write", "relock", "reply", "done"}]
      /\ line \in [Client -> Seq(Byte)] /\ size \in [Client -> Nat] /\ stored \in [Client -> Nat]
      /\ \A d \in Client : HasRoom(d)
  BY DEF TypeOK, BuffersHaveRoom
<1>2. ASSUME UNCHANGED <<line, size, stored>> PROVE BuffersHaveRoom'
  BY <1>2 DEF BuffersHaveRoom
<1>3. CASE Main \/ Notification \/ TimerExpires
  <2>1. UNCHANGED connVars
    BY <1>3 DEF Main, StopAccepting, TimerDelete, JoinAndClose, RemoveFile, Ends, Notification,
                Timestamp, TimestampFails, TimerExpires
  <2> QED BY <1>2, <2>1 DEF connVars
<1>4. ASSUME NEW c \in Client,
             \/ Accept(c) \/ Close(c) \/ SeekRefused(c) \/ LockLine(c) \/ WriteFails(c)
             \/ LockReply(c) \/ ReplyRead(c) \/ \E n \in 1 .. Len(left[c]) : Write(c, n)
      PROVE  BuffersHaveRoom'
  <2>1. UNCHANGED <<line, size, stored>>
    BY <1>4 DEF Accept, Close, SeekRefused, LockLine, WriteFails, LockReply, ReplyRead, Write
  <2> QED BY <1>2, <2>1
<1>5. ASSUME NEW c \in Client,
             /\ line' = [line EXCEPT ![c] = <<>>] /\ stored' = [stored EXCEPT ![c] = 0]
             /\ size' = size \/ size' = [size EXCEPT ![c] = BufferSize]
      PROVE  BuffersHaveRoom'
  <2>1. /\ line'[c] = <<>> /\ stored'[c] = 0 /\ Len(<<>>) = 0
        /\ size'[c] \in Nat /\ size'[c] > 0
    BY <1>1, <1>5, SizeAssumption
  <2>2. \A d \in Client \ {c} : line'[d] = line[d] /\ size'[d] = size[d] /\ stored'[d] = stored[d]
    BY <1>1, <1>5
  <2>3. ASSUME NEW d \in Client PROVE HasRoom(d)'
    <3>1. CASE d = c BY <2>1, <3>1
    <3>2. CASE d # c BY <1>1, <2>2, <3>2
    <3> QED BY <3>1, <3>2
  <2> QED BY <2>3 DEF BuffersHaveRoom
<1>6. CASE Signal
  <2>1. CASE UNCHANGED <<conn, line, size, stored, pos, ext>> BY <1>2, <2>1
  <2>2. ASSUME NEW c \in Client, ThreadEnds(c) PROVE BuffersHaveRoom'
    BY <1>5, <2>2 DEF ThreadEnds
  <2> QED BY <1>6, <2>1, <2>2 DEF Signal
<1>7. ASSUME NEW c \in Client, ReallocFails(c) \/ ReceiveEnds(c) \/ Rewind(c)
      PROVE  BuffersHaveRoom'
  <2>1. /\ line' = [line EXCEPT ![c] = <<>>] /\ stored' = [stored EXCEPT ![c] = 0]
        /\ size' = size \/ size' = [size EXCEPT ![c] = BufferSize]
    BY <1>7 DEF ReallocFails, ReceiveEnds, Rewind, ThreadEnds
  <2> QED BY <1>5, <2>1
<1>8. ASSUME NEW c \in Client, NEW b \in Byte, Receive(c, b) PROVE BuffersHaveRoom'
  <2> DEFINE packet == Append(line[c], b)
  <2>1. /\ size' = [size EXCEPT ![c] = Room(c)]
        /\ line' = [line EXCEPT ![c] = packet]
        /\ stored' = [stored EXCEPT ![c] = Len(packet) + (IF b = NL THEN 1 ELSE 0)]
    BY <1>8 DEF Receive
  <2>2. Len(packet) = Len(line[c]) + 1 /\ packet[Len(line[c]) + 1] = b BY <1>1
  <2>3. Room(c) > 0 /\ Len(line[c]) + 1 <= Room(c) BY <1>1 DEF Room
  <2>4. line[c] \in Seq(Byte) /\ Len(line[c]) \in Nat BY <1>1
  <2> HIDE DEF packet
  <2>5. /\ line'[c] = packet /\ size'[c] = Room(c)
        /\ stored'[c] = Len(packet) + (IF b = NL THEN 1 ELSE 0)
    BY <1>1, <2>1
  <2>6. \A d \in Client \ {c} : line'[d] = line[d] /\ size'[d] = size[d] /\ stored'[d] = stored[d]
    BY <1>1, <2>1
  <2>7. HasRoom(c)'
    <3>1. CASE b = NL BY <2>2, <2>3, <2>4, <2>5, <3>1
    <3>2. CASE b # NL BY <2>2, <2>3, <2>4, <2>5, <3>2
    <3> QED BY <3>1, <3>2
  <2>8. ASSUME NEW d \in Client, d # c PROVE HasRoom(d)' BY <1>1, <2>6, <2>8
  <2> QED BY <2>7, <2>8 DEF BuffersHaveRoom
<1> QED BY <1>3, <1>4, <1>6, <1>7, <1>8 DEF Next, Main, Notification, Environment, Thread

(* The timer is deleted before timer_log_fd is closed.                     *)
LEMMA StepTimer ==
    ASSUME TypeOK, TimerStopsFirst, FailsOnlyForLateHandlers, Next
    PROVE  TimerStopsFirst' /\ FailsOnlyForLateHandlers'
<1> USE DEF TimerStopsFirst, FailsOnlyForLateHandlers
<1>1. handlers \in Nat /\ main \in {"accept", "disarm", "join", "remove", "ended"}
  BY DEF TypeOK
<1>2. CASE StopAccepting \/ JoinAndClose
  BY <1>2 DEF StopAccepting, JoinAndClose, stampVars, fileVars
<1>3. CASE TimerDelete
  <2>1. late' = (handlers > 0) BY <1>3, Zenon DEF TimerDelete
  <2>2. handlers > 0 => late' BY <2>1, Zenon
  <2> QED BY <1>3, <2>2 DEF TimerDelete, stampVars, fileVars
<1>4. CASE RemoveFile BY <1>4 DEF RemoveFile, Ends
<1>5. CASE Timestamp
  <2>1. handlers' = handlers - 1 /\ UNCHANGED <<mainVars, fault>> BY <1>5 DEF Timestamp
  <2> QED BY <1>1, <2>1 DEF mainVars
<1>6. CASE TimestampFails
  <2>1. main # "ended" /\ handlers > 0 BY <1>6 DEF TimestampFails, Running
  <2>2. main' = "ended" /\ late' = late /\ fault' = (fault \/ timerFile)
    BY <1>6, Zenon DEF TimestampFails, Ends
  <2>3. ~fault' => ~fault /\ ~timerFile BY <2>2, Zenon
  <2>4. ~timerFile => late BY <2>1, <1>1
  <2> QED BY <2>2, <2>3, <2>4
<1>7. CASE TimerExpires
  BY <1>7 DEF TimerExpires, mainVars, fileVars
<1>8. CASE Signal BY <1>8 DEF Signal, stampVars, fileVars
<1>9. ASSUME UNCHANGED <<mainVars, stampVars>>, fault => fault'
      PROVE  TimerStopsFirst' /\ FailsOnlyForLateHandlers'
  BY <1>9 DEF mainVars, stampVars
<1>10. ASSUME NEW c \in Client, Thread(c) \/ Accept(c) \/ Close(c) \/ ReallocFails(c)
                                \/ \E b \in Byte : Receive(c, b)
       PROVE  UNCHANGED <<mainVars, stampVars>> /\ (fault => fault')
  <2>1. CASE WriteFails(c) BY <2>1 DEF WriteFails
  <2>2. CASE \E n \in 1 .. Len(left[c]) : Write(c, n) BY <2>2 DEF Write
  <2>3. CASE LockLine(c) \/ LockReply(c) \/ Rewind(c) BY <2>3 DEF LockLine, LockReply, Rewind
  <2>4. CASE ReceiveEnds(c) \/ SeekRefused(c) \/ ReplyRead(c)
    BY <2>4 DEF ReceiveEnds, SeekRefused, ReplyRead, fileVars
  <2>5. CASE Accept(c) \/ Close(c) BY <2>5 DEF Accept, Close, fileVars
  <2>6. CASE ReallocFails(c) BY <2>6 DEF ReallocFails, fileVars
  <2>7. ASSUME NEW b \in Byte, Receive(c, b)
        PROVE  UNCHANGED <<mainVars, stampVars>> /\ (fault => fault')
    BY <2>7 DEF Receive, fileVars
  <2> QED BY <1>10, <2>1, <2>2, <2>3, <2>4, <2>5, <2>6, <2>7 DEF Thread
<1> QED BY <1>2, <1>3, <1>4, <1>5, <1>6, <1>7, <1>8, <1>9, <1>10
        DEF Next, Main, Notification, Environment

-------------------------------------------------------------------------------
LEMMA NextInv == Inv /\ [Next]_vars => Inv'
<1> SUFFICES ASSUME Inv, [Next]_vars PROVE Inv' OBVIOUS
<1>1. CASE Next
  BY <1>1, StepType, StepLockNamesHolder, StepTimestamps, StepLineEndInHand, StepLines,
     StepOwnLinesBehind, StepBuffersHaveRoom, StepTimer
     DEF Inv
<1>2. CASE UNCHANGED vars
  BY <1>2 DEF Inv, TypeOK, LockNamesHolder, TimestampsOverwriteTheStart, LineEndInHand,
              LastLineIsHeld, LinesStayTogether, OwnLinesBehind, BuffersHaveRoom,
              TimerStopsFirst, FailsOnlyForLateHandlers, vars, mainVars, stampVars, fileVars,
              connVars
<1> QED BY <1>1, <1>2

(* The named parts hold in every state of every run.                       *)
THEOREM Invariance == Spec => []Inv
BY InitInv, NextInv, PTL DEF Spec

(***************************************************************************)
(* Types, and no descriptor's position is ever beyond the end of the file: *)
(* neither the timer's nor a client's leaves a hole by writing there.      *)
(***************************************************************************)
THEOREM TypeCorrect == Spec => []TypeOK
<1>1. Inv => TypeOK BY DEF Inv
<1> QED BY <1>1, Invariance, PTL

(***************************************************************************)
(* The timestamps lie one behind the other over the start of the file, and *)
(* every byte behind them is where a client put it: the timer's            *)
(* descriptor, without O_APPEND (line 124), is the only one that           *)
(* overwrites.                                                             *)
(***************************************************************************)
THEOREM TimestampsAtTheStart == Spec => []TimestampsOverwriteTheStart
<1>1. Inv => TimestampsOverwriteTheStart BY DEF Inv
<1> QED BY <1>1, Invariance, PTL

(***************************************************************************)
(* However write() splits a line and whatever waits for log_lock, a line   *)
(* is stored whole (lines 301 to 315), unless a write fails.               *)
(***************************************************************************)
THEOREM LinesWhole == Spec => []LinesStayTogether
<1>1. Inv => LinesStayTogether BY DEF Inv
<1> QED BY <1>1, Invariance, PTL

(***************************************************************************)
(* No client is ever sent a byte it stored: O_APPEND moves its position    *)
(* behind each of its lines, and sendFileToSocket puts it back there.      *)
(***************************************************************************)
THEOREM OwnLinesOmitted == Spec => []RepliesOmitOwnLines
<1>1. Inv => RepliesOmitOwnLines
  <2> SUFFICES ASSUME Inv, NEW c \in Client, conn[c] = "reply",
                      NEW i \in ext[c] + 1 .. pos[c], log[i] # Stamp
               PROVE  log[i][1] # c
    BY DEF RepliesOmitOwnLines
  <2>1. /\ ext[c] \in Nat /\ pos[c] \in 0 .. Len(log) /\ Len(log) \in Nat
    BY DEF Inv, TypeOK, TimestampsOverwriteTheStart
  <2>2. i \in 1 .. Len(log) /\ ~(i <= ext[c]) BY <2>1
  <2> QED BY <2>2 DEF Inv, OwnLinesBehind
<1> QED BY <1>1, Invariance, PTL

(***************************************************************************)
(* receivePackets (lines 270 to 288), for lines of any lengths in buffers  *)
(* of any size: no byte that was received is stored outside the buffer,    *)
(* and the zero only where a line fills it, in the first place behind it.  *)
(***************************************************************************)
THEOREM ZeroIsOneOff == Spec => []OnlyTheZeroIsOutside
<1>1. Inv => OnlyTheZeroIsOutside
  <2> SUFFICES ASSUME Inv, NEW c \in Client, stored[c] > size[c]
               PROVE  /\ stored[c] = size[c] + 1
                      /\ Len(line[c]) = size[c] /\ line[c][size[c]] = NL
    BY DEF OnlyTheZeroIsOutside
  <2>1. size[c] \in Nat /\ stored[c] \in Nat /\ Len(line[c]) \in Nat BY DEF Inv, TypeOK
  <2> QED BY <2>1 DEF Inv, BuffersHaveRoom
<1> QED BY <1>1, Invariance, PTL

(***************************************************************************)
(* The one way to EXIT_FAILURE that is not the file system's: a timestamp  *)
(* handler that timer_delete does not wait for finds its file closed.      *)
(***************************************************************************)
THEOREM LateHandlersOnly == Spec => []FailsOnlyForLateHandlers
<1>1. Inv => FailsOnlyForLateHandlers BY DEF Inv
<1> QED BY <1>1, Invariance, PTL
===============================================================================
