-------------------------- MODULE AesdServerTheorems --------------------------
(***************************************************************************)
(* Theorems about the server with the char device, for any number of       *)
(* clients, any lines and seeks, any ring size and any network buffer.     *)
(***************************************************************************)
EXTENDS AesdServer, AesdCharLemmas

(* The states of a thread that has log_lock, replies, or runs at all.      *)
Replying == {"reply", "send", "rewind"}
Locked == Replying \cup {"command"}
Serving == Locked \cup {"recv", "lock", "relock"}

(* log_lock names the one thread that uses the device.                     *)
LockNamesHolder == \A c \in Client : lock = c <=> thr[c] \in Locked

(***************************************************************************)
(* Only a reply breaks a connection, and a client connects once.           *)
(***************************************************************************)
ConnectionsInOrder ==
    \A c \in Client :
      /\ peer[c] = "away" => thr[c] = "none"
      /\ thr[c] \in {"none", "backlog", "accepted"} => peer[c] # "broken"

(***************************************************************************)
(* The queue names threads that have been created, each once, the running  *)
(* ones among them; the connection being set up is not one of them yet.    *)
(***************************************************************************)
QueueNamesThreads ==
    /\ \A i, j \in 1 .. Len(queue) : queue[i] = queue[j] => i = j
    /\ \A i \in 1 .. Len(queue) : thr[queue[i]] \in Serving \cup {"done"}
    /\ \A c \in Client : thr[c] \in Serving => \E i \in 1 .. Len(queue) : queue[i] = c
    /\ accepted # NoOne => thr[accepted] = "accepted"
    /\ main = "exited" => queue = <<>>

(* Between replies a thread holds nothing, and its file is at home.        *)
FilesAtHome ==
    \A c \in Client :
      /\ thr[c] \notin Replying => sent[c] = <<>>
      /\ thr[c] \in Replying /\ badFile[c] => thr[c] = "reply" /\ fpos[c] = ext[c]
      /\ peer[c] # "broken" => home[c] = IF thr[c] \in Replying THEN ext[c] ELSE fpos[c]

LinesNotEmpty == \A i \in 1 .. Count(ring) : Nth(Contents(ring), i) # <<>>

(***************************************************************************)
(* What a reply from position ext has read when its file is at pos: the    *)
(* bytes between the two, and whole lines when it began at the start.      *)
(***************************************************************************)
ReadSoFar(b, from, pos, read) ==
    /\ pos = from \/ pos \in from .. Len(Bytes(b))
    /\ FlattenSeq(read) = SubSeq(Bytes(b), from + 1, pos)
    /\ from = 0 =>
         /\ Len(read) <= Count(b) /\ pos = Len(Joined(Contents(b), Len(read)))
         /\ \A i \in 1 .. Len(read) : read[i] = Nth(Contents(b), i)

RepliesReadSoFar ==
    \A c \in Client :
      thr[c] \in Replying /\ ~badFile[c] =>
        /\ ReadSoFar(ring, ext[c], fpos[c], sent[c])
        /\ thr[c] = "rewind" => fpos[c] >= Len(Bytes(ring))

(* A line that its client waits for is the since-th before the newest.     *)
StoredAt(b, line, k) == k < Count(b) /\ Nth(Contents(b), Count(b) - k) = line

OwnLineStored ==
    \A c \in Client :
      thr[c] \in Replying \cup {"relock"} /\ packet[c].kind = "text" /\ since[c] < N
        => StoredAt(ring, packet[c].line, since[c])

(***************************************************************************)
(* The inductive invariant.  LockNamesHolder is why the ring stands still  *)
(* while a thread replies; ReplyIsASnapshot and OwnLineInReply say nothing *)
(* of the steps before, RepliesReadSoFar and OwnLineStored do.             *)
(***************************************************************************)
Inv ==
    /\ TypeOK
    /\ RingInv(ring) /\ LinesNotEmpty
    /\ LockNamesHolder
    /\ ConnectionsInOrder
    /\ QueueNamesThreads
    /\ FilesAtHome
    /\ RepliesReadSoFar
    /\ OwnLineStored

LEMMA InitInv == Init => Inv
<1> SUFFICES ASSUME Init PROVE Inv OBVIOUS
<1> USE DEF Init
<1>1. ring = EmptyRing /\ EmptyRing \in Ring /\ RingInv(EmptyRing) /\ Count(EmptyRing) = 0
  BY NAssumption DEF EmptyRing, Ring, RingInv, Count, Slot
<1>2. TypeOK
  <2>1. NoPacket \in Packet /\ 0 \in 0 .. Window /\ 0 \in 0 .. MaxLines
    BY BoundsAssumption DEF NoPacket, Packet
  <2>2. \A S : <<>> \in Seq(S) OBVIOUS
  <2> QED BY <1>1, <2>1, <2>2 DEF TypeOK, MainValues, ThrValues
<1>3. LinesNotEmpty BY <1>1 DEF LinesNotEmpty
<1>4. LockNamesHolder BY NoOneAssumption DEF LockNamesHolder, Locked, Replying
<1>5. ConnectionsInOrder BY DEF ConnectionsInOrder
<1>6. QueueNamesThreads BY DEF QueueNamesThreads, Serving, Locked, Replying
<1>7. FilesAtHome BY DEF FilesAtHome, Replying
<1>8. RepliesReadSoFar BY DEF RepliesReadSoFar, Replying
<1>9. OwnLineStored BY DEF OwnLineStored, Replying
<1> QED BY <1>1, <1>2, <1>3, <1>4, <1>5, <1>6, <1>7, <1>8, <1>9 DEF Inv

-------------------------------------------------------------------------------
(* The two fields of a packet that the server looks at.                    *)
LEMMA PacketFields ==
    ASSUME NEW p \in Packet
    PROVE  /\ p.kind = "text" => p.line \in Text
           /\ p.kind = "seek" => p.to.cmd \in Nat /\ p.to.offset \in Nat
BY SeekAssumption DEF Packet

LEMMA SeekPositionType ==
    ASSUME TypeOK, NEW c \in Client, packet[c].kind = "seek"
    PROVE  SeekPosition(c) \in Nat \cup {EINVAL}
<1> DEFINE to == packet[c].to
           size == BufferLength(ring)
           count == SeekByteCount(ring, ring.out_offs, SlotAt(ring, to.cmd), to.offset)
<1>1. ring \in Ring /\ ring.out_offs \in Slot /\ to.cmd \in Nat /\ to.offset \in Nat
  BY PacketFields DEF TypeOK, Ring
<1>2. SlotAt(ring, to.cmd) \in Slot
  <2>1. ring.out_offs + to.cmd \in Int BY <1>1 DEF Slot
  <2>2. \A x \in Int : x % N \in 0 .. N - 1 BY NAssumption
  <2> QED BY <2>1, <2>2 DEF SlotAt, Slot
<1>3. count \in Nat /\ size \in Nat BY <1>1, <1>2, SeekByteCountType, BufferLengthType
<1> HIDE DEF count, size
<1>4. SeekTo(count, size) \in Nat \cup {EINVAL} BY <1>3 DEF SeekTo
<1> QED BY <1>4 DEF SeekPosition, count, size

(* Every step of the main thread keeps the types.                          *)
LEMMA MainType ==
    ASSUME TypeOK, Main
    PROVE  TypeOK'
<1> USE DEF TypeOK, mainVars, fileVars, netVars, MainGoto, MainValues, ThrValues
<1>1. CASE Bind \/ Listen BY <1>1 DEF Bind, Listen
<1>2. CASE TestInLoop \/ TestInWait BY <1>2 DEF TestInLoop, TestInWait
<1>3. CASE AcceptFails \/ SpawnFails \/ Exit BY <1>3 DEF AcceptFails, SpawnFails, Exit
<1>4. ASSUME NEW c \in Client, Accept(c) PROVE TypeOK' BY <1>4 DEF Accept
<1>5. ASSUME NEW c \in Client, NEW bad \in BOOLEAN, Spawn(c, bad) PROVE TypeOK'
  <2>1. queue' \in Seq(Client) BY <1>5 DEF Spawn
  <2>2. thr' \in [Client -> ThrValues] /\ badFile' \in [Client -> BOOLEAN] BY <1>5 DEF Spawn
  <2> QED BY <1>5, <2>1, <2>2 DEF Spawn
<1>6. CASE Join
  <2>1. queue' \in Seq(Client) BY <1>6 DEF Join
  <2> QED BY <1>6, <2>1 DEF Join
<1> QED BY <1>1, <1>2, <1>3, <1>4, <1>5, <1>6 DEF Main

(* The end of a reply, on either of its ways out.                          *)
LEMMA EndReplyType ==
    ASSUME TypeOK, NEW c \in Client, NEW from, EndReply(c, from)
    PROVE  /\ thr' \in [Client -> ThrValues] /\ packet' \in [Client -> Packet]
           /\ lock' \in Client \cup {NoOne} /\ ext' \in [Client -> Nat]
           /\ sent' \in [Client -> Seq(Seq(Byte))] /\ since' \in [Client -> Nat]
           /\ UNCHANGED <<mainVars, badFile, ring, home>>
<1>1. NoPacket \in Packet BY DEF NoPacket, Packet
<1> QED BY <1>1 DEF TypeOK, EndReply, ThreadGoto, Unlocks, ThrValues

LEMMA ThreadType ==
    ASSUME TypeOK, RingInv(ring), NEW c \in Client, Thread(c)
    PROVE  TypeOK'
<1> USE DEF TypeOK, mainVars, fileVars, netVars, ThreadGoto, Locks, Unlocks
<1>1. CASE Receive(c)
  <2>1. Head(inbox[c]) \in Packet /\ Tail(inbox[c]) \in Seq(Packet) BY <1>1 DEF Receive
  <2> QED BY <1>1, <2>1 DEF Receive, ThrValues
<1>2. CASE ReceiveEnds(c) BY <1>2 DEF ReceiveEnds, ThrValues
<1>3. CASE LockCommand(c) \/ LockReply(c) BY <1>3 DEF LockCommand, LockReply, ThrValues
<1>4. CASE Write(c)
  <2>1. packet[c].line \in Seq(Byte) BY <1>4, PacketFields, TextAssumption DEF Write
  <2>2. AddEntry(ring, packet[c].line) \in Ring BY <2>1, AddEntryShape
  <2>3. since' \in [Client -> Nat]
    <3>1. since' = [d \in Client |-> IF thr[d] = "relock" THEN since[d] + 1 ELSE 0]
      BY <1>4 DEF Write
    <3>2. \A d \in Client : (IF thr[d] = "relock" THEN since[d] + 1 ELSE 0) \in Nat
      <4> SUFFICES ASSUME NEW d \in Client
                   PROVE  (IF thr[d] = "relock" THEN since[d] + 1 ELSE 0) \in Nat
        OBVIOUS
      <4>1. since[d] \in Nat OBVIOUS
      <4> HIDE DEF TypeOK
      <4>2. since[d] + 1 \in Nat BY <4>1
      <4> QED BY <4>2
    <3> QED BY <3>1, <3>2, Zenon
  <2> QED BY <1>4, <2>2, <2>3 DEF Write, ThrValues
<1>5. CASE WriteFails(c)
  <2>1. NoPacket \in Packet BY DEF NoPacket, Packet
  <2> QED BY <1>5, <2>1 DEF WriteFails, ThrValues
<1>6. CASE DoSeek(c)
  <2> DEFINE new == SeekPosition(c)
  <2>1. new \in Nat \cup {EINVAL} BY <1>6, SeekPositionType DEF DoSeek
  <2>2. /\ fpos' = IF new = EINVAL THEN fpos ELSE [fpos EXCEPT ![c] = new]
        /\ home' = [home EXCEPT ![c] = fpos'[c]]
    BY <1>6 DEF DoSeek
  <2> HIDE DEF new
  <2>3. fpos' \in [Client -> Nat] BY <2>1, <2>2
  <2>4. home' \in [Client -> Nat] BY <2>2, <2>3
  <2> QED BY <1>6, <2>3, <2>4 DEF DoSeek, ThrValues
<1>7. CASE ReplyRead(c)
  <2> DEFINE bytes == ReadAt(ring, fpos[c])
  <2>1. bytes \in Seq(Byte) BY ReadAtType
  <2>2. /\ fpos' = [fpos EXCEPT ![c] = @ + Len(bytes)]
        /\ sent' = [sent EXCEPT ![c] = IF bytes = <<>> THEN @ ELSE Append(@, bytes)]
        /\ thr' \in [Client -> ThrValues]
    BY <1>7 DEF ReplyRead, ThrValues
  <2> HIDE DEF bytes
  <2>3. fpos' \in [Client -> Nat]
    <3>0. fpos \in [Client -> Nat] /\ fpos[c] \in Nat OBVIOUS
    <3>1. Len(bytes) \in Nat BY <2>1
    <3> HIDE DEF TypeOK
    <3>2. fpos[c] + Len(bytes) \in Nat BY <3>0, <3>1
    <3> QED BY <2>2, <3>0, <3>2
  <2>4. sent' \in [Client -> Seq(Seq(Byte))]
    <3>1. Append(sent[c], bytes) \in Seq(Seq(Byte)) BY <2>1
    <3> QED BY <2>2, <3>1
  <2> QED BY <1>7, <2>2, <2>3, <2>4 DEF ReplyRead
<1>8. CASE ReplyReadFails(c) BY <1>8, EndReplyType DEF ReplyReadFails
<1>9. CASE ReplySend(c)
  <2>1. unread[c] + 1 \in 0 .. Window
    <3>1. unread[c] \in 0 .. Window /\ Window \in Nat /\ unread[c] < Window
      BY <1>9, BoundsAssumption DEF ReplySend
    <3> HIDE DEF TypeOK
    <3> QED BY <3>1
  <2>2. unread' \in [Client -> 0 .. Window] BY <1>9, <2>1 DEF ReplySend
  <2> QED BY <1>9, <2>2 DEF ReplySend, ThrValues
<1>10. CASE ReplyLost(c) BY <1>10 DEF ReplyLost, ThrValues
<1>11. CASE ReplySendFails(c)
  <2>1. peer' \in [Client -> {"away", "open", "closed", "reset", "broken"}]
    BY <1>11 DEF ReplySendFails
  <2> QED BY <1>11, <2>1, EndReplyType DEF ReplySendFails
<1>12. CASE BrokenPipe(c) BY <1>12 DEF BrokenPipe, MainValues
<1>13. CASE Rewind(c)
  <2> DEFINE back == SeekTo(ext[c], BufferLength(ring))
  <2>1. back \in Nat \cup {EINVAL} BY DEF SeekTo
  <2>2. fpos' = IF back = EINVAL THEN fpos ELSE [fpos EXCEPT ![c] = back]
    BY <1>13 DEF Rewind
  <2> HIDE DEF back
  <2>3. fpos' \in [Client -> Nat] BY <2>1, <2>2
  <2> QED BY <1>13, <2>3, EndReplyType DEF Rewind
<1> QED BY <1>1, <1>2, <1>3, <1>4, <1>5, <1>6, <1>7, <1>8, <1>9, <1>10, <1>11, <1>12, <1>13
        DEF Thread

LEMMA StepType ==
    ASSUME TypeOK, RingInv(ring), Next
    PROVE  TypeOK'
<1> USE DEF mainVars, fileVars, netVars
<1>1. CASE Main BY <1>1, MainType
<1>2. ASSUME HandlerRuns, main' \in MainValues, thr' \in [Client -> ThrValues] PROVE TypeOK'
  BY <1>2 DEF HandlerRuns, TypeOK
<1>3. CASE SignalOnMain BY <1>2, <1>3 DEF SignalOnMain, TypeOK, MainValues
<1>4. ASSUME NEW c \in Client, SignalOnThread(c) PROVE TypeOK'
  BY <1>2, <1>4 DEF SignalOnThread, TypeOK, ThreadGoto, ThrValues
<1>5. ASSUME NEW c \in Client, Thread(c) PROVE TypeOK' BY <1>5, ThreadType
<1>6. ASSUME NEW c \in Client, Connect(c) PROVE TypeOK'
  BY <1>6 DEF Connect, TypeOK, ThrValues
<1>7. ASSUME NEW c \in Client, ReadReply(c) \/ Close(c) PROVE TypeOK'
  <2>1. unread[c] \in 0 .. Window /\ Window \in Nat BY BoundsAssumption DEF TypeOK
  <2>2. 0 \in 0 .. Window /\ (unread[c] > 0 => unread[c] - 1 \in 0 .. Window) BY <2>1
  <2>3. unread' \in [Client -> 0 .. Window] BY <1>7, <2>2 DEF ReadReply, Close, TypeOK
  <2>4. peer' \in [Client -> {"away", "open", "closed", "reset", "broken"}]
    BY <1>7 DEF ReadReply, Close, TypeOK
  <2> QED BY <1>7, <2>3, <2>4 DEF ReadReply, Close, TypeOK
<1>8. ASSUME NEW c \in Client, NEW p \in Packet, Send(c, p) PROVE TypeOK'
  <2>1. lines \in 0 .. MaxLines /\ MaxLines \in Nat BY BoundsAssumption DEF TypeOK
  <2>2. lines' \in 0 .. MaxLines BY <1>8, <2>1 DEF Send
  <2>3. Append(inbox[c], p) \in Seq(Packet) BY DEF TypeOK
  <2>4. inbox' \in [Client -> Seq(Packet)] BY <1>8, <2>3 DEF Send, TypeOK
  <2> QED BY <1>8, <2>2, <2>4 DEF Send, TypeOK
<1>9. CASE AcceptErrs BY <1>9 DEF AcceptErrs, MainGoto, TypeOK, MainValues, fileVars, netVars
<1>10. ASSUME NEW c \in Client, ReceiveNoMemory(c) PROVE TypeOK'
  BY <1>10 DEF ReceiveNoMemory, ThreadGoto, TypeOK, ThrValues, mainVars, fileVars, netVars
<1> QED BY <1>1, <1>3, <1>4, <1>5, <1>6, <1>7, <1>8,
           <1>9, <1>10 DEF Next, Signal, Failure, Network

-------------------------------------------------------------------------------
(* A thread takes log_lock where it begins to use the device, and gives it *)
(* back on every way out, the failed read and the broken pipe included.    *)
LEMMA StepLockNamesHolder ==
    ASSUME TypeOK, LockNamesHolder, ConnectionsInOrder, QueueNamesThreads, Next
    PROVE  LockNamesHolder'
<1> USE NoOneAssumption DEF LockNamesHolder, Locked, Replying, mainVars, fileVars, netVars
<1>1. thr \in [Client -> ThrValues] BY DEF TypeOK
<1>2. CASE Main
  <2>1. CASE Bind \/ Listen \/ TestInLoop \/ TestInWait \/ AcceptFails \/ SpawnFails \/ Join \/ Exit
    BY <2>1 DEF Bind, Listen, TestInLoop, TestInWait, AcceptFails, SpawnFails, Join, Exit, MainGoto
  <2>2. ASSUME NEW c \in Client, Accept(c) PROVE LockNamesHolder'
    BY <1>1, <2>2 DEF Accept
  <2>3. ASSUME NEW c \in Client, NEW bad \in BOOLEAN, Spawn(c, bad) PROVE LockNamesHolder'
    <3>1. thr[c] = "accepted" BY <2>3 DEF Spawn, QueueNamesThreads
    <3> QED BY <1>1, <2>3, <3>1 DEF Spawn
  <2> QED BY <1>2, <2>1, <2>2, <2>3 DEF Main
<1>3. CASE SignalOnMain BY <1>3 DEF SignalOnMain, HandlerRuns
<1>4. ASSUME NEW c \in Client, SignalOnThread(c) PROVE LockNamesHolder'
  BY <1>1, <1>4 DEF SignalOnThread, HandlerRuns, ThreadGoto
<1>5. ASSUME NEW c \in Client, Thread(c) PROVE LockNamesHolder'
  <2> USE DEF ThreadGoto, Locks, Unlocks
  <2>1. CASE Receive(c) \/ ReceiveEnds(c) BY <1>1, <2>1 DEF Receive, ReceiveEnds
  <2>2. CASE LockCommand(c) \/ LockReply(c) BY <1>1, <2>2 DEF LockCommand, LockReply
  <2>3. CASE Write(c) \/ WriteFails(c) \/ DoSeek(c)
    BY <1>1, <2>3 DEF Write, WriteFails, DoSeek
  <2>4. CASE ReplyRead(c) BY <1>1, <2>4 DEF ReplyRead
  <2>5. CASE ReplySend(c) \/ ReplyLost(c) BY <1>1, <2>5 DEF ReplySend, ReplyLost
  <2>6. CASE ReplyReadFails(c) \/ ReplySendFails(c) \/ Rewind(c)
    BY <1>1, <2>6 DEF ReplyReadFails, ReplySendFails, Rewind, EndReply
  <2>7. CASE BrokenPipe(c) BY <2>7 DEF BrokenPipe
  <2> QED BY <1>5, <2>1, <2>2, <2>3, <2>4, <2>5, <2>6, <2>7 DEF Thread
<1>6. ASSUME NEW c \in Client, Connect(c) PROVE LockNamesHolder'
  BY <1>1, <1>6 DEF Connect, ConnectionsInOrder
<1>7. ASSUME NEW c \in Client, ReadReply(c) \/ Close(c) PROVE LockNamesHolder'
  BY <1>7 DEF ReadReply, Close
<1>8. ASSUME NEW c \in Client, NEW p \in Packet, Send(c, p) PROVE LockNamesHolder'
  BY <1>8 DEF Send
<1>9. CASE AcceptErrs BY <1>9 DEF AcceptErrs, MainGoto
<1>10. ASSUME NEW c \in Client, ReceiveNoMemory(c) PROVE LockNamesHolder'
  BY <1>1, <1>10 DEF ReceiveNoMemory, ThreadGoto
<1> QED BY <1>2, <1>3, <1>4, <1>5, <1>6, <1>7, <1>8,
           <1>9, <1>10 DEF Next, Signal, Failure, Network

(* Connections are made once, and broken only by threads that reply.       *)
LEMMA StepConnectionsInOrder ==
    ASSUME TypeOK, ConnectionsInOrder, QueueNamesThreads, Next
    PROVE  ConnectionsInOrder'
<1> USE DEF ConnectionsInOrder, mainVars, fileVars, netVars
<1>1. thr \in [Client -> ThrValues]
      /\ peer \in [Client -> {"away", "open", "closed", "reset", "broken"}]
  BY DEF TypeOK
<1>2. CASE Main
  <2>1. CASE Bind \/ Listen \/ TestInLoop \/ TestInWait \/ AcceptFails \/ SpawnFails \/ Join \/ Exit
    BY <2>1 DEF Bind, Listen, TestInLoop, TestInWait, AcceptFails, SpawnFails, Join, Exit, MainGoto
  <2>2. ASSUME NEW c \in Client, Accept(c) PROVE ConnectionsInOrder'
    BY <1>1, <2>2 DEF Accept
  <2>3. ASSUME NEW c \in Client, NEW bad \in BOOLEAN, Spawn(c, bad) PROVE ConnectionsInOrder'
    <3>1. thr[c] = "accepted" BY <2>3, NoOneAssumption DEF Spawn, QueueNamesThreads
    <3> QED BY <1>1, <2>3, <3>1 DEF Spawn
  <2> QED BY <1>2, <2>1, <2>2, <2>3 DEF Main
<1>3. CASE SignalOnMain BY <1>1, <1>3 DEF SignalOnMain, HandlerRuns
<1>4. ASSUME NEW c \in Client, SignalOnThread(c) PROVE ConnectionsInOrder'
  BY <1>1, <1>4 DEF SignalOnThread, HandlerRuns, ThreadGoto
<1>5. ASSUME NEW c \in Client, Thread(c) PROVE ConnectionsInOrder'
  <2> USE DEF ThreadGoto
  <2>1. CASE Receive(c) \/ ReceiveEnds(c) BY <1>1, <2>1 DEF Receive, ReceiveEnds
  <2>2. CASE LockCommand(c) \/ LockReply(c) BY <1>1, <2>2 DEF LockCommand, LockReply
  <2>3. CASE Write(c) \/ WriteFails(c) \/ DoSeek(c)
    BY <1>1, <2>3 DEF Write, WriteFails, DoSeek
  <2>4. CASE ReplyRead(c) BY <1>1, <2>4 DEF ReplyRead
  <2>5. CASE ReplySend(c) \/ ReplyLost(c) BY <1>1, <2>5 DEF ReplySend, ReplyLost
  <2>6. CASE ReplyReadFails(c) \/ ReplySendFails(c) \/ Rewind(c)
    BY <1>1, <2>6 DEF ReplyReadFails, ReplySendFails, Rewind, EndReply
  <2>7. CASE BrokenPipe(c) BY <2>7 DEF BrokenPipe
  <2> QED BY <1>5, <2>1, <2>2, <2>3, <2>4, <2>5, <2>6, <2>7 DEF Thread
<1>6. ASSUME NEW c \in Client, Connect(c) \/ ReadReply(c) \/ Close(c) PROVE ConnectionsInOrder'
  BY <1>1, <1>6 DEF Connect, ReadReply, Close
<1>7. ASSUME NEW c \in Client, NEW p \in Packet, Send(c, p) PROVE ConnectionsInOrder'
  BY <1>7 DEF Send
<1>8. CASE AcceptErrs BY <1>8 DEF AcceptErrs, MainGoto
<1>9. ASSUME NEW c \in Client, ReceiveNoMemory(c) PROVE ConnectionsInOrder'
  BY <1>1, <1>9 DEF ReceiveNoMemory, ThreadGoto
<1> QED BY <1>2, <1>3, <1>4, <1>5, <1>6, <1>7,
           <1>8, <1>9 DEF Next, Signal, Failure, Network

(* The queue of threads to join, and the connection that is being set up.  *)
LEMMA StepQueueNamesThreads ==
    ASSUME TypeOK, ConnectionsInOrder, QueueNamesThreads, Next
    PROVE  QueueNamesThreads'
<1> USE DEF mainVars, fileVars, netVars
<1>1. /\ thr \in [Client -> ThrValues] /\ queue \in Seq(Client) /\ accepted \in Client \cup {NoOne}
      /\ \A i \in 1 .. Len(queue) : queue[i] \in Client
  <2>1. thr \in [Client -> ThrValues] /\ queue \in Seq(Client) /\ accepted \in Client \cup {NoOne}
    BY DEF TypeOK
  <2> QED BY <2>1
<1>2. /\ \A i, j \in 1 .. Len(queue) : queue[i] = queue[j] => i = j
      /\ \A i \in 1 .. Len(queue) : thr[queue[i]] \in Serving \cup {"done"}
      /\ \A c \in Client : thr[c] \in Serving => \E i \in 1 .. Len(queue) : queue[i] = c
      /\ accepted # NoOne => thr[accepted] = "accepted"
      /\ main = "exited" => queue = <<>>
  BY DEF QueueNamesThreads
<1>3. ASSUME NEW c \in Client, queue' = queue, accepted' = accepted, main' \in {main, "killed"},
             thr' = thr \/ (Running /\ thr[c] \in Serving
                            /\ \E to \in Serving \cup {"done"} : thr' = [thr EXCEPT ![c] = to])
      PROVE  QueueNamesThreads'
  <2>1. CASE thr' = thr
    BY <1>2, <1>3, <2>1 DEF QueueNamesThreads
  <2>2. CASE thr' # thr
    <3>1. PICK to \in Serving \cup {"done"} : thr' = [thr EXCEPT ![c] = to] BY <1>3, <2>2
    <3>2. thr[c] \in Serving BY <1>3, <2>2
    <3>3. \A i \in 1 .. Len(queue) : thr'[queue[i]] \in Serving \cup {"done"}
      BY <1>1, <1>2, <3>1
    <3>4. \A d \in Client : thr'[d] \in Serving => thr[d] \in Serving
      BY <1>1, <3>1, <3>2
    <3>5. accepted # NoOne => thr'[accepted] = "accepted"
      BY <1>1, <1>2, <3>1, <3>2 DEF Serving, Locked, Replying
    <3> QED BY <1>2, <1>3, <3>3, <3>4, <3>5 DEF QueueNamesThreads
  <2> QED BY <2>1, <2>2
<1>4. CASE Main
  <2>1. CASE Bind \/ Listen \/ TestInLoop \/ TestInWait \/ AcceptFails
    BY <1>2, <2>1
       DEF Bind, Listen, TestInLoop, TestInWait, AcceptFails, MainGoto, QueueNamesThreads
  <2>2. CASE SpawnFails \/ Exit
    BY <1>2, <2>2 DEF SpawnFails, Exit, MainGoto, QueueNamesThreads
  <2>3. ASSUME NEW c \in Client, Accept(c) PROVE QueueNamesThreads'
    <3>1. /\ queue' = queue /\ accepted' = c /\ thr[c] = "backlog" /\ main' = "spawn"
          /\ thr' = [thr EXCEPT ![c] = "accepted"]
      BY <2>3 DEF Accept
    <3>2. thr[c] \notin Serving \cup {"done"} BY <3>1 DEF Serving, Locked, Replying
    <3>3. \A i \in 1 .. Len(queue) : thr'[queue[i]] \in Serving \cup {"done"}
      BY <1>1, <1>2, <3>1, <3>2
    <3>4. \A d \in Client : thr'[d] \in Serving => thr[d] \in Serving
      BY <1>1, <3>1 DEF Serving, Locked, Replying
    <3>5. thr'[accepted'] = "accepted" BY <1>1, <3>1
    <3> QED BY <1>2, <3>1, <3>3, <3>4, <3>5 DEF QueueNamesThreads
  <2>4. ASSUME NEW c \in Client, NEW bad \in BOOLEAN, Spawn(c, bad) PROVE QueueNamesThreads'
    <3>1. /\ queue' = Append(queue, c) /\ accepted' = NoOne /\ thr' = [thr EXCEPT ![c] = "recv"]
          /\ main' = "loop" /\ accepted = c
      BY <2>4 DEF Spawn
    <3>2. thr[c] = "accepted" BY <1>2, <3>1, NoOneAssumption
    <3>3. thr[c] \notin Serving \cup {"done"} BY <3>2 DEF Serving, Locked, Replying
    <3> DEFINE n == Len(queue)
    <3>4. /\ n \in Nat /\ Len(queue') = n + 1 /\ queue'[n + 1] = c
          /\ \A i \in 1 .. n : queue'[i] = queue[i]
      BY <1>1, <3>1
    <3>5. \A i \in 1 .. n : queue[i] # c BY <1>2, <3>3
    <3>6. \A i \in 1 .. n + 1 : i = n + 1 \/ i \in 1 .. n BY <3>4
    <3> HIDE DEF n
    <3>7. \A i, j \in 1 .. n + 1 : queue'[i] = queue'[j] => i = j
      BY <1>2, <3>4, <3>5, <3>6 DEF n
    <3>8. \A i \in 1 .. n + 1 : thr'[queue'[i]] \in Serving \cup {"done"}
      <4>1. thr'[c] \in Serving BY <1>1, <3>1 DEF Serving
      <4>2. \A i \in 1 .. n : thr'[queue[i]] = thr[queue[i]] BY <1>1, <3>1, <3>5 DEF n
      <4> QED BY <1>2, <3>4, <3>6, <4>1, <4>2 DEF n
    <3>9. ASSUME NEW d \in Client, thr'[d] \in Serving
          PROVE  \E i \in 1 .. n + 1 : queue'[i] = d
      <4>1. CASE d = c
        <5>1. n + 1 \in 1 .. n + 1 BY <3>4
        <5> QED BY <3>4, <4>1, <5>1
      <4>2. CASE d # c
        <5>1. thr[d] \in Serving BY <1>1, <3>1, <3>9, <4>2
        <5>2. PICK i \in 1 .. n : queue[i] = d BY <1>2, <5>1 DEF n
        <5>3. i \in 1 .. n + 1 BY <3>4
        <5> QED BY <3>4, <5>2, <5>3
      <4> QED BY <4>1, <4>2
    <3> QED BY <3>1, <3>4, <3>7, <3>8, <3>9 DEF QueueNamesThreads
  <2>5. CASE Join
    <3>1. /\ queue # <<>> /\ thr[Head(queue)] = "done" /\ queue' = Tail(queue)
          /\ thr' = thr /\ accepted' = accepted /\ main' = "join"
      BY <2>5 DEF Join
    <3> DEFINE n == Len(queue)
               t == Tail(queue)
    <3>2. /\ n \in Nat /\ n > 0 /\ Head(queue) = queue[1]
          /\ Len(t) = n - 1 /\ \A i \in 1 .. Len(t) : t[i] = queue[i + 1]
      BY <1>1, <3>1, HeadTailProperties
    <3> HIDE DEF n, t
    <3>3. \A i \in 1 .. Len(t) : i + 1 \in 1 .. n /\ t[i] = queue[i + 1] BY <3>2
    <3>4. \A i, j \in 1 .. Len(t) : t[i] = t[j] => i = j
      <4> SUFFICES ASSUME NEW i \in 1 .. Len(t), NEW j \in 1 .. Len(t), t[i] = t[j]
                   PROVE  i = j
        OBVIOUS
      <4>1. i + 1 = j + 1 BY <1>2, <3>3 DEF n
      <4> QED BY <4>1
    <3>5. \A i \in 1 .. Len(t) : thr[t[i]] \in Serving \cup {"done"} BY <1>2, <3>3 DEF n
    <3>6. ASSUME NEW d \in Client, thr[d] \in Serving
          PROVE  \E i \in 1 .. Len(t) : t[i] = d
      <4>1. PICK i \in 1 .. n : queue[i] = d BY <1>2, <3>6 DEF n
      <4>2. i # 1 BY <3>1, <3>2, <3>6, <4>1 DEF Serving, Locked, Replying
      <4>3. i - 1 \in 1 .. Len(t) /\ (i - 1) + 1 = i BY <3>2, <4>2
      <4> QED BY <3>2, <4>1, <4>3
    <3> QED BY <1>2, <3>1, <3>4, <3>5, <3>6 DEF QueueNamesThreads, t
  <2> QED BY <1>4, <2>1, <2>2, <2>3, <2>4, <2>5 DEF Main
<1>5. CASE SignalOnMain
  <2>1. /\ queue' = queue /\ accepted' = accepted /\ thr' = thr
        /\ main' = "exited" => main = "exited"
    BY <1>5 DEF SignalOnMain, HandlerRuns, Running
  <2> QED BY <1>2, <2>1 DEF QueueNamesThreads
<1>6. ASSUME NEW c \in Client, SignalOnThread(c) PROVE QueueNamesThreads'
  BY <1>3, <1>6 DEF SignalOnThread, HandlerRuns, ThreadGoto, Serving
<1>7. ASSUME NEW c \in Client, Thread(c) PROVE QueueNamesThreads'
  <2> USE DEF ThreadGoto, Serving, Locked, Replying
  <2>1. CASE Receive(c) \/ ReceiveEnds(c) BY <1>3, <2>1 DEF Receive, ReceiveEnds
  <2>2. CASE LockCommand(c) \/ LockReply(c) BY <1>3, <2>2 DEF LockCommand, LockReply
  <2>3. CASE Write(c) \/ WriteFails(c) \/ DoSeek(c)
    BY <1>3, <2>3 DEF Write, WriteFails, DoSeek
  <2>4. CASE ReplyRead(c) BY <1>3, <2>4 DEF ReplyRead
  <2>5. CASE ReplySend(c) \/ ReplyLost(c) BY <1>3, <2>5 DEF ReplySend, ReplyLost
  <2>6. CASE ReplyReadFails(c) \/ ReplySendFails(c) \/ Rewind(c)
    BY <1>3, <2>6 DEF ReplyReadFails, ReplySendFails, Rewind, EndReply
  <2>7. CASE BrokenPipe(c) BY <1>3, <2>7 DEF BrokenPipe
  <2> QED BY <1>7, <2>1, <2>2, <2>3, <2>4, <2>5, <2>6, <2>7 DEF Thread
<1>8. ASSUME NEW c \in Client, Connect(c) PROVE QueueNamesThreads'
  <2>1. /\ queue' = queue /\ accepted' = accepted /\ main' = main /\ thr[c] = "none"
        /\ thr' = [thr EXCEPT ![c] = "backlog"]
    BY <1>8 DEF Connect, ConnectionsInOrder
  <2>2. \A i \in 1 .. Len(queue) : thr'[queue[i]] \in Serving \cup {"done"}
    BY <1>1, <1>2, <2>1 DEF Serving, Locked, Replying
  <2>3. \A d \in Client : thr'[d] \in Serving => thr[d] \in Serving
    BY <1>1, <2>1 DEF Serving, Locked, Replying
  <2>4. accepted # NoOne => thr'[accepted] = "accepted" BY <1>1, <1>2, <2>1
  <2> QED BY <1>2, <2>1, <2>2, <2>3, <2>4 DEF QueueNamesThreads
<1>9. ASSUME NEW c \in Client, ReadReply(c) \/ Close(c) PROVE QueueNamesThreads'
  BY <1>3, <1>9 DEF ReadReply, Close
<1>10. ASSUME NEW c \in Client, NEW p \in Packet, Send(c, p) PROVE QueueNamesThreads'
  BY <1>3, <1>10 DEF Send
<1>11. CASE AcceptErrs BY <1>2, <1>11 DEF AcceptErrs, MainGoto, QueueNamesThreads
<1>12. ASSUME NEW c \in Client, ReceiveNoMemory(c) PROVE QueueNamesThreads'
  BY <1>3, <1>12 DEF ReceiveNoMemory, ThreadGoto, Serving
<1> QED BY <1>4, <1>5, <1>6, <1>7, <1>8, <1>9, <1>10,
           <1>11, <1>12 DEF Next, Signal, Failure, Network

-------------------------------------------------------------------------------
(***************************************************************************)
(* The steps of a thread that handle a packet or a reply; the others leave *)
(* the device, the files and what is known of them as they are.            *)
(***************************************************************************)
PacketSteps(c) ==
    \/ Receive(c) \/ Write(c) \/ WriteFails(c) \/ DoSeek(c)
    \/ LockReply(c) \/ ReplyRead(c) \/ ReplyReadFails(c)
    \/ ReplySend(c) \/ ReplyLost(c) \/ ReplySendFails(c) \/ Rewind(c)

Answering == Replying \cup {"relock"}

LEMMA OtherStepsLeaveReplies ==
    ASSUME TypeOK, ConnectionsInOrder, QueueNamesThreads, Next,
           ~ \E c \in Client : PacketSteps(c)
    PROVE  /\ UNCHANGED <<ring, fpos, ext, sent, since, home>>
           /\ \A d \in Client :
                /\ thr'[d] \in Answering \/ thr[d] \in Answering => thr'[d] = thr[d]
                /\ thr'[d] \in Answering =>
                     packet'[d] = packet[d] /\ badFile'[d] = badFile[d]
                /\ peer'[d] = "broken" <=> peer[d] = "broken"
<1> DEFINE Left ==
             /\ UNCHANGED <<ring, fpos, ext, sent, since, home>>
             /\ \A d \in Client :
                  /\ thr'[d] \in Answering \/ thr[d] \in Answering => thr'[d] = thr[d]
                  /\ thr'[d] \in Answering =>
                       packet'[d] = packet[d] /\ badFile'[d] = badFile[d]
                  /\ peer'[d] = "broken" <=> peer[d] = "broken"
<1> USE DEF mainVars, fileVars, netVars, Answering, Replying
<1>1. /\ thr \in [Client -> ThrValues] /\ badFile \in [Client -> BOOLEAN]
      /\ peer \in [Client -> {"away", "open", "closed", "reset", "broken"}]
  BY DEF TypeOK
<1>2. CASE Main
  <2>1. CASE Bind \/ Listen \/ TestInLoop \/ TestInWait \/ AcceptFails \/ SpawnFails \/ Join \/ Exit
    BY <2>1 DEF Bind, Listen, TestInLoop, TestInWait, AcceptFails, SpawnFails, Join, Exit, MainGoto
  <2>2. ASSUME NEW c \in Client, Accept(c) PROVE Left
    BY <1>1, <2>2 DEF Accept
  <2>3. ASSUME NEW c \in Client, NEW bad \in BOOLEAN, Spawn(c, bad) PROVE Left
    <3>1. thr[c] = "accepted" BY <2>3, NoOneAssumption DEF Spawn, QueueNamesThreads
    <3> QED BY <1>1, <2>3, <3>1 DEF Spawn
  <2> QED BY <1>2, <2>1, <2>2, <2>3 DEF Main
<1>3. CASE SignalOnMain
  BY <1>1, <1>3 DEF SignalOnMain, HandlerRuns, ConnectionsInOrder
<1>4. ASSUME NEW c \in Client, SignalOnThread(c) PROVE Left
  BY <1>1, <1>4 DEF SignalOnThread, HandlerRuns, ThreadGoto, ConnectionsInOrder
<1>5. ASSUME NEW c \in Client, Thread(c) PROVE Left
  <2>1. CASE ReceiveEnds(c) \/ LockCommand(c)
    BY <1>1, <2>1 DEF ReceiveEnds, LockCommand, ThreadGoto
  <2>2. CASE BrokenPipe(c) BY <2>2 DEF BrokenPipe
  <2> QED BY <1>5, <2>1, <2>2 DEF Thread, PacketSteps
<1>6. ASSUME NEW c \in Client, Connect(c) PROVE Left
  BY <1>1, <1>6 DEF Connect, ConnectionsInOrder
<1>7. ASSUME NEW c \in Client, ReadReply(c) \/ Close(c) PROVE Left
  BY <1>1, <1>7 DEF ReadReply, Close
<1>8. ASSUME NEW c \in Client, NEW p \in Packet, Send(c, p) PROVE Left
  BY <1>8 DEF Send
<1>9. CASE AcceptErrs BY <1>9 DEF AcceptErrs, MainGoto
<1>10. ASSUME NEW c \in Client, ReceiveNoMemory(c) PROVE Left
  BY <1>1, <1>10 DEF ReceiveNoMemory, ThreadGoto
<1> QED BY <1>2, <1>3, <1>4, <1>5, <1>6, <1>7, <1>8,
           <1>9, <1>10 DEF Next, Signal, Failure, Network

(* A thread that handles a packet touches nothing of the others' threads.  *)
LEMMA PacketStepsAreLocal ==
    ASSUME TypeOK, NEW c \in Client, PacketSteps(c)
    PROVE  /\ \A d \in Client : d # c =>
                /\ thr'[d] = thr[d] /\ packet'[d] = packet[d] /\ badFile'[d] = badFile[d]
                /\ fpos'[d] = fpos[d] /\ ext'[d] = ext[d] /\ sent'[d] = sent[d]
                /\ home'[d] = home[d] /\ peer'[d] = peer[d]
           /\ badFile'[c] = badFile[c]
           /\ ~Write(c) => ring' = ring /\ \A d \in Client : d # c => since'[d] = since[d]
<1> DEFINE Local ==
             /\ \A d \in Client : d # c =>
                  /\ thr'[d] = thr[d] /\ packet'[d] = packet[d] /\ badFile'[d] = badFile[d]
                  /\ fpos'[d] = fpos[d] /\ ext'[d] = ext[d] /\ sent'[d] = sent[d]
                  /\ home'[d] = home[d] /\ peer'[d] = peer[d]
             /\ badFile'[c] = badFile[c]
             /\ ~Write(c) => ring' = ring /\ \A d \in Client : d # c => since'[d] = since[d]
<1> USE DEF ThreadGoto, fileVars, netVars
<1>1. /\ thr \in [Client -> ThrValues] /\ packet \in [Client -> Packet]
      /\ badFile \in [Client -> BOOLEAN] /\ fpos \in [Client -> Nat] /\ ext \in [Client -> Nat]
      /\ sent \in [Client -> Seq(Seq(Byte))] /\ home \in [Client -> Nat]
      /\ since \in [Client -> Nat]
      /\ peer \in [Client -> {"away", "open", "closed", "reset", "broken"}]
  BY DEF TypeOK
<1>2. CASE Receive(c) BY <1>1, <1>2 DEF Receive
<1>3. CASE Write(c) BY <1>1, <1>3 DEF Write
<1>4. CASE WriteFails(c) BY <1>1, <1>4 DEF WriteFails
<1>5. CASE DoSeek(c)
  <2>1. /\ \E new : fpos' = IF new = EINVAL THEN fpos ELSE [fpos EXCEPT ![c] = new]
        /\ home' = [home EXCEPT ![c] = fpos'[c]]
    BY <1>5 DEF DoSeek
  <2>2. \A d \in Client : d # c => fpos'[d] = fpos[d] /\ home'[d] = home[d] BY <1>1, <2>1
  <2> QED BY <1>1, <1>5, <2>2 DEF DoSeek
<1>6. CASE LockReply(c) BY <1>1, <1>6 DEF LockReply
<1>7. CASE ReplyRead(c) BY <1>1, <1>7 DEF ReplyRead
<1>8. CASE ReplySend(c) \/ ReplyLost(c) BY <1>1, <1>8 DEF ReplySend, ReplyLost
<1>9. CASE ReplyReadFails(c) \/ ReplySendFails(c)
  BY <1>1, <1>9 DEF ReplyReadFails, ReplySendFails, EndReply
<1>10. CASE Rewind(c)
  <2>1. /\ \E back : fpos' = IF back = EINVAL THEN fpos ELSE [fpos EXCEPT ![c] = back]
        /\ UNCHANGED netVars
    BY <1>10 DEF Rewind
  <2>2. \A d \in Client : d # c => fpos'[d] = fpos[d] BY <1>1, <2>1
  <2> QED BY <1>1, <1>10, <2>2 DEF Rewind, EndReply
<1> QED BY <1>2, <1>3, <1>4, <1>5, <1>6, <1>7, <1>8, <1>9, <1>10 DEF PacketSteps

(* The thread that has log_lock is the only one that replies.              *)
LEMMA HolderIsAlone ==
    ASSUME LockNamesHolder, NEW c \in Client, thr[c] \in Locked
    PROVE  lock = c /\ \A d \in Client : d # c => thr[d] \notin Locked
BY DEF LockNamesHolder

-------------------------------------------------------------------------------
(* A line is stored whole, behind the others.                              *)
LEMMA WriteStores ==
    ASSUME TypeOK, RingInv(ring), NEW c \in Client, Write(c)
    PROVE  /\ packet[c].line \in Text
           /\ ring' \in Ring /\ RingInv(ring')
           /\ Contents(ring') = Push(Contents(ring), packet[c].line)
           /\ Count(ring) \in 0 .. N
           /\ Count(ring') = IF Count(ring) < N THEN Count(ring) + 1 ELSE N
           /\ Nth(Contents(ring'), Count(ring')) = packet[c].line
           /\ \A i \in 1 .. Count(ring') - 1 :
                Nth(Contents(ring'), i)
                  = IF Count(ring) < N THEN Nth(Contents(ring), i)
                    ELSE Nth(Contents(ring), i + 1)
<1> DEFINE log == Contents(ring)
           x == packet[c].line
<1>1. x \in Text /\ x \in Seq(Byte) /\ ring \in Ring /\ ring' = AddEntry(ring, x)
  BY PacketFields, TextAssumption DEF Write, TypeOK
<1>2. ring' \in Ring /\ RingInv(ring') /\ Contents(ring') = Push(log, x)
  BY <1>1, AddEntryShape, ContentsAfterAdd
<1>3. /\ log \in Seq(Seq(Byte)) /\ Len(log) = Count(ring) /\ Count(ring) \in 0 .. N
      /\ Len(Contents(ring')) = Count(ring')
  BY <1>1, <1>2, ContentsIsSeq
<1>4. Len(log) <= N BY <1>3, NAssumption
<1> HIDE DEF log, x
<1>5. /\ Len(Push(log, x)) = IF Len(log) < N THEN Len(log) + 1 ELSE N
      /\ Nth(Push(log, x), Len(Push(log, x))) = x
      /\ \A i \in 1 .. Len(Push(log, x)) - 1 :
           Nth(Push(log, x), i) = IF Len(log) < N THEN Nth(log, i) ELSE Nth(log, i + 1)
  BY <1>1, <1>3, <1>4, PushPlaces
<1> QED BY <1>1, <1>2, <1>3, <1>5 DEF log, x

LEMMA StepRing ==
    ASSUME Inv, Next
    PROVE  RingInv(ring') /\ LinesNotEmpty'
<1>1. TypeOK /\ RingInv(ring) /\ LinesNotEmpty BY DEF Inv
<1>2. CASE ring' = ring BY <1>1, <1>2 DEF LinesNotEmpty
<1>3. ASSUME NEW c \in Client, Write(c) PROVE RingInv(ring') /\ LinesNotEmpty'
  <2>1. /\ packet[c].line # <<>>
        /\ ring' \in Ring /\ RingInv(ring') /\ Count(ring) \in 0 .. N
        /\ Count(ring') = IF Count(ring) < N THEN Count(ring) + 1 ELSE N
        /\ Nth(Contents(ring'), Count(ring')) = packet[c].line
        /\ \A i \in 1 .. Count(ring') - 1 :
             Nth(Contents(ring'), i)
               = IF Count(ring) < N THEN Nth(Contents(ring), i)
                 ELSE Nth(Contents(ring), i + 1)
    BY <1>1, <1>3, WriteStores, TextAssumption
  <2>2. ASSUME NEW i \in 1 .. Count(ring') PROVE Nth(Contents(ring'), i) # <<>>
    <3>1. CASE i = Count(ring') BY <2>1, <3>1
    <3>2. CASE i # Count(ring')
      <4>1. N \in Nat BY NAssumption
      <4>2. i \in 1 .. Count(ring') - 1 BY <2>1, <3>2, <4>1
      <4>3. IF Count(ring) < N THEN i \in 1 .. Count(ring) ELSE i + 1 \in 1 .. Count(ring)
        BY <2>1, <4>1, <4>2
      <4> QED BY <1>1, <2>1, <4>2, <4>3 DEF LinesNotEmpty
    <3> QED BY <3>1, <3>2
  <2> QED BY <2>1, <2>2 DEF LinesNotEmpty
<1>4. CASE ~ \E c \in Client : PacketSteps(c)
  BY <1>2, <1>4, OtherStepsLeaveReplies DEF Inv
<1>5. ASSUME NEW c \in Client, PacketSteps(c), ~Write(c) PROVE ring' = ring
  BY <1>1, <1>5, PacketStepsAreLocal
<1> QED BY <1>2, <1>3, <1>4, <1>5

(* The end of a reply puts the file back where the reply began.            *)
LEMMA RewindGoesBack ==
    ASSUME Inv, NEW c \in Client, Rewind(c)
    PROVE  fpos'[c] = ext[c]
<1> DEFINE size == BufferLength(ring)
<1>1. /\ ring \in Ring /\ RingInv(ring) /\ fpos \in [Client -> Nat]
      /\ ext[c] \in Nat /\ fpos[c] \in Nat
  BY DEF Inv, TypeOK
<1>2. fpos' = IF SeekTo(ext[c], size) = EINVAL THEN fpos
              ELSE [fpos EXCEPT ![c] = SeekTo(ext[c], size)]
  BY DEF Rewind
<1>3. thr[c] = "rewind" BY DEF Rewind, EndReply, ThreadGoto
<1>4. ~badFile[c] BY <1>3 DEF Inv, FilesAtHome, Replying
<1>5. fpos[c] = ext[c] \/ fpos[c] \in ext[c] .. Len(Bytes(ring))
  BY <1>3, <1>4 DEF Inv, RepliesReadSoFar, ReadSoFar, Replying
<1>6. size = Len(Bytes(ring)) BY <1>1, LengthOfAll
<1> HIDE DEF size
<1>7. CASE ext[c] \in 0 .. size
  <2>1. SeekTo(ext[c], size) = ext[c] BY <1>7 DEF SeekTo
  <2>2. ext[c] # EINVAL BY <1>1 DEF EINVAL
  <2> QED BY <1>1, <1>2, <2>1, <2>2
<1>8. CASE ext[c] \notin 0 .. size
  <2>1. SeekTo(ext[c], size) = EINVAL BY <1>8 DEF SeekTo
  <2>2. size \in Nat BY <1>1, BufferLengthType DEF size
  <2>3. fpos[c] = ext[c] BY <1>1, <1>5, <1>6, <1>8, <2>2
  <2> QED BY <1>2, <2>1, <2>3
<1> QED BY <1>7, <1>8

LEMMA StepFilesAtHome ==
    ASSUME Inv, Next
    PROVE  FilesAtHome'
<1>1. TypeOK /\ FilesAtHome BY DEF Inv
<1>2. CASE ~ \E c \in Client : PacketSteps(c)
  <2>1. /\ UNCHANGED <<ring, fpos, ext, sent, since, home>>
        /\ \A d \in Client :
             /\ thr'[d] \in Answering \/ thr[d] \in Answering => thr'[d] = thr[d]
             /\ thr'[d] \in Answering => packet'[d] = packet[d] /\ badFile'[d] = badFile[d]
             /\ peer'[d] # "broken" => peer[d] # "broken"
    BY <1>2, OtherStepsLeaveReplies DEF Inv
  <2> QED BY <1>1, <2>1 DEF FilesAtHome, Answering
<1>3. ASSUME NEW c \in Client, PacketSteps(c) PROVE FilesAtHome'
  <2>1. \A d \in Client : d # c =>
          /\ thr'[d] = thr[d] /\ badFile'[d] = badFile[d] /\ fpos'[d] = fpos[d]
          /\ ext'[d] = ext[d] /\ sent'[d] = sent[d] /\ home'[d] = home[d] /\ peer'[d] = peer[d]
    BY <1>1, <1>3, PacketStepsAreLocal
  <2>2. badFile'[c] = badFile[c] BY <1>1, <1>3, PacketStepsAreLocal
  <2>3. ASSUME /\ thr'[c] \notin Replying => sent'[c] = <<>>
               /\ thr'[c] \in Replying /\ badFile[c] => thr'[c] = "reply" /\ fpos'[c] = ext'[c]
               /\ peer'[c] # "broken" =>
                    home'[c] = IF thr'[c] \in Replying THEN ext'[c] ELSE fpos'[c]
        PROVE  FilesAtHome'
    <3> SUFFICES ASSUME NEW d \in Client
                 PROVE  /\ thr'[d] \notin Replying => sent'[d] = <<>>
                        /\ thr'[d] \in Replying /\ badFile'[d] =>
                             thr'[d] = "reply" /\ fpos'[d] = ext'[d]
                        /\ peer'[d] # "broken" =>
                             home'[d] = IF thr'[d] \in Replying THEN ext'[d] ELSE fpos'[d]
      BY DEF FilesAtHome
    <3>1. CASE d = c BY <2>2, <2>3, <3>1
    <3>2. CASE d # c BY <1>1, <2>1, <3>2 DEF FilesAtHome
    <3> QED BY <3>1, <3>2
  <2> USE DEF ThreadGoto, fileVars, netVars, Replying
  <2>4. /\ thr[c] \notin Replying => sent[c] = <<>>
        /\ thr[c] \in Replying /\ badFile[c] => thr[c] = "reply" /\ fpos[c] = ext[c]
        /\ peer[c] # "broken" => home[c] = IF thr[c] \in Replying THEN ext[c] ELSE fpos[c]
    BY <1>1 DEF FilesAtHome
  <2>5. /\ thr \in [Client -> ThrValues] /\ badFile \in [Client -> BOOLEAN]
        /\ fpos \in [Client -> Nat] /\ ext \in [Client -> Nat] /\ home \in [Client -> Nat]
        /\ sent \in [Client -> Seq(Seq(Byte))]
        /\ peer \in [Client -> {"away", "open", "closed", "reset", "broken"}]
    BY <1>1 DEF TypeOK
  <2>6. CASE Receive(c)
    <3>1. thr'[c] \in {"relock", "lock"} /\ thr[c] = "recv" BY <2>5, <2>6 DEF Receive
    <3> QED BY <2>3, <2>4, <2>6, <3>1 DEF Receive
  <2>7. CASE Write(c) \/ WriteFails(c)
    <3>1. thr'[c] = "relock" /\ thr[c] = "command" BY <2>5, <2>7 DEF Write, WriteFails
    <3> QED BY <2>3, <2>4, <2>7, <3>1 DEF Write, WriteFails
  <2>8. CASE DoSeek(c)
    <3>1. /\ thr'[c] = "relock" /\ thr[c] = "command" /\ home'[c] = fpos'[c]
          /\ UNCHANGED <<ext, sent, peer>>
      BY <2>5, <2>8 DEF DoSeek
    <3> QED BY <2>3, <2>4, <3>1
  <2>9. CASE LockReply(c)
    <3>1. /\ thr'[c] = "reply" /\ thr[c] = "relock" /\ ext'[c] = fpos[c]
          /\ UNCHANGED <<fpos, sent, peer, home>>
      BY <2>5, <2>9 DEF LockReply
    <3> QED BY <2>3, <2>4, <3>1
  <2>10. CASE ReplyRead(c)
    <3>1. /\ thr'[c] \in {"rewind", "send"} /\ thr[c] = "reply" /\ ~badFile[c]
          /\ UNCHANGED <<ext, peer, home>>
      BY <2>5, <2>10 DEF ReplyRead
    <3> QED BY <2>3, <2>4, <3>1
  <2>11. CASE ReplySend(c) \/ ReplyLost(c)
    <3>1. /\ thr'[c] = "reply" /\ thr[c] = "send" /\ UNCHANGED fileVars
          /\ peer'[c] # "broken" => peer[c] # "broken"
      BY <2>5, <2>11 DEF ReplySend, ReplyLost
    <3> QED BY <2>3, <2>4, <3>1
  <2>12. CASE ReplyReadFails(c)
    <3>1. /\ thr'[c] = "recv" /\ thr[c] = "reply" /\ badFile[c] /\ sent'[c] = <<>>
          /\ UNCHANGED <<fpos, home, peer>>
      BY <2>5, <2>12 DEF ReplyReadFails, EndReply
    <3> QED BY <2>3, <2>4, <3>1
  <2>13. CASE ReplySendFails(c)
    <3>1. thr'[c] = "recv" /\ sent'[c] = <<>> /\ peer'[c] = "broken"
      BY <2>5, <2>13 DEF ReplySendFails, EndReply
    <3> QED BY <2>3, <3>1
  <2>14. CASE Rewind(c)
    <3>1. thr'[c] = "recv" /\ thr[c] = "rewind" /\ sent'[c] = <<>> /\ UNCHANGED <<home, peer>>
      BY <2>5, <2>14 DEF Rewind, EndReply
    <3>2. fpos'[c] = ext[c] BY <2>14, RewindGoesBack
    <3> QED BY <2>3, <2>4, <3>1, <3>2
  <2> QED BY <1>3, <2>6, <2>7, <2>8, <2>9, <2>10, <2>11, <2>12, <2>13, <2>14 DEF PacketSteps
<1> QED BY <1>2, <1>3

-------------------------------------------------------------------------------
(* A reply that has read nothing yet.                                      *)
LEMMA NothingRead ==
    ASSUME NEW b \in Ring, RingInv(b), NEW pos \in Nat
    PROVE  ReadSoFar(b, pos, pos, <<>>)
<1> DEFINE none == <<>>
<1>1. none \in Seq(Seq(Byte)) /\ Len(none) = 0 OBVIOUS
<1>2. FlattenSeq(none) = <<>> BY <1>1, JoinedRecursion
<1>3. SubSeq(Bytes(b), pos + 1, pos) = <<>>
  <2>1. pos + 1 \in Int /\ pos \in Int /\ pos < pos + 1 OBVIOUS
  <2> QED BY <2>1, SubSeqEmpty
<1>4. Contents(b) \in Seq(Seq(Byte)) /\ Count(b) \in Nat BY ContentsIsSeq, NAssumption
<1>5. Len(Joined(Contents(b), 0)) = 0 BY <1>4, JoinedRecursion
<1>6. Joined(Contents(b), Len(none)) = Joined(Contents(b), 0) BY <1>1
<1>7. \A i \in 1 .. Len(none) : none[i] = Nth(Contents(b), i)
  <2>1. 1 .. Len(none) = {} BY <1>1
  <2> QED BY <2>1
<1>8. Len(none) <= Count(b) BY <1>1, <1>4
<1>9. pos = 0 => pos = Len(Joined(Contents(b), Len(none))) BY <1>5, <1>6
<1> HIDE DEF none
<1>10. ReadSoFar(b, pos, pos, none) BY <1>2, <1>3, <1>7, <1>8, <1>9 DEF ReadSoFar
<1> QED BY <1>10 DEF none

(* One more read: the next bytes, or the end of the data.                  *)
LEMMA ReadsMore ==
    ASSUME NEW b \in Ring, RingInv(b), \A i \in 1 .. Count(b) : Nth(Contents(b), i) # <<>>,
           NEW from \in Nat, NEW pos \in Nat, NEW read \in Seq(Seq(Byte)),
           ReadSoFar(b, from, pos, read), NEW r, r = ReadAt(b, pos)
    PROVE  IF r = <<>> THEN pos >= Len(Bytes(b))
           ELSE ReadSoFar(b, from, pos + Len(r), Append(read, r))
<1> DEFINE flat == Bytes(b)
           log == Contents(b)
<1>1. flat \in Seq(Byte) /\ Len(flat) \in Nat BY SumsArePositions
<1>2. CASE r = <<>> BY <1>2, ReadAtIsPiece
<1>3. CASE r # <<>>
  <2>1. pos < Len(flat) BY <1>1, <1>3, ReadAtIsPiece
  <2>2. /\ r \in Seq(Byte) /\ Len(r) > 0 /\ pos + Len(r) <= Len(flat)
        /\ r = SubSeq(flat, pos + 1, pos + Len(r))
    BY <2>1, ReadAtIsSubSeq
  <2>3. pos = from \/ pos \in from .. Len(flat) BY DEF ReadSoFar
  <2>4. from <= pos BY <2>3
  <2> DEFINE to == pos + Len(r)
  <2>5. to \in from .. Len(flat) /\ to \in Nat BY <2>2, <2>4
  <2>6. FlattenSeq(Append(read, r)) = SubSeq(flat, from + 1, to)
    <3>1. FlattenSeq(Append(read, r)) = FlattenSeq(read) \o r BY <2>2, FlattenAppend
    <3>2. FlattenSeq(read) = SubSeq(flat, from + 1, pos) BY DEF ReadSoFar
    <3> DEFINE m == from + 1
    <3> HIDE DEF to
    <3>3. m \in 1 .. Len(flat) + 1 /\ pos \in m - 1 .. Len(flat) /\ to \in pos .. Len(flat)
      BY <1>1, <2>1, <2>2, <2>4, <2>5 DEF to
    <3> HIDE DEF m, flat
    <3>4. SubSeq(flat, m, pos) \o SubSeq(flat, pos + 1, to) = SubSeq(flat, m, to)
      BY <1>1, <3>3, ConcatAdjacentSubSeq
    <3> QED BY <2>2, <3>1, <3>2, <3>4 DEF m, flat, to
  <2>7. ASSUME from = 0
        PROVE  /\ Len(Append(read, r)) <= Count(b)
               /\ to = Len(Joined(log, Len(Append(read, r))))
               /\ \A i \in 1 .. Len(Append(read, r)) : Append(read, r)[i] = Nth(log, i)
    <3> DEFINE k == Len(read)
               more == Append(read, r)
    <3>1. k <= Count(b) /\ pos = Len(Joined(log, k)) /\ \A i \in 1 .. k : read[i] = Nth(log, i)
      BY <2>7 DEF ReadSoFar
    <3>2. Count(b) \in Nat /\ k \in Nat BY ContentsIsSeq, NAssumption
    <3>3. k \in 0 .. Count(b) BY <3>1, <3>2
    <3>4. k < Count(b) /\ r = Nth(log, k + 1) /\ to = Len(Joined(log, k + 1))
      BY <2>1, <3>1, <3>3, ReadAtWholeCommand
    <3>5. Len(more) = k + 1 /\ more[k + 1] = r /\ \A i \in 1 .. k : more[i] = read[i]
      BY <2>2, AppendProperties
    <3> HIDE DEF k, log, more, to
    <3>6. \A i \in 1 .. k + 1 : more[i] = Nth(log, i)
      <4>1. \A i \in 1 .. k + 1 : i = k + 1 \/ i \in 1 .. k BY <3>2
      <4> QED BY <3>1, <3>4, <3>5, <4>1
    <3> QED BY <3>2, <3>4, <3>5, <3>6 DEF log, more, to
  <2>8. ReadSoFar(b, from, to, Append(read, r)) BY <2>5, <2>6, <2>7 DEF ReadSoFar
  <2> QED BY <1>3, <2>8
<1> QED BY <1>2, <1>3

LEMMA StepRepliesReadSoFar ==
    ASSUME Inv, Next
    PROVE  RepliesReadSoFar'
<1>1. TypeOK /\ RepliesReadSoFar BY DEF Inv
<1>2. CASE ~ \E c \in Client : PacketSteps(c)
  <2>1. /\ UNCHANGED <<ring, fpos, ext, sent, since, home>>
        /\ \A d \in Client :
             /\ thr'[d] \in Answering \/ thr[d] \in Answering => thr'[d] = thr[d]
             /\ thr'[d] \in Answering => packet'[d] = packet[d] /\ badFile'[d] = badFile[d]
    BY <1>2, OtherStepsLeaveReplies DEF Inv
  <2> QED BY <1>1, <2>1 DEF RepliesReadSoFar, Answering
<1>3. ASSUME NEW c \in Client, PacketSteps(c) PROVE RepliesReadSoFar'
  <2>1. \A d \in Client : d # c =>
          /\ thr'[d] = thr[d] /\ badFile'[d] = badFile[d] /\ fpos'[d] = fpos[d]
          /\ ext'[d] = ext[d] /\ sent'[d] = sent[d]
    BY <1>1, <1>3, PacketStepsAreLocal
  <2>2. badFile'[c] = badFile[c] /\ (~Write(c) => ring' = ring)
    BY <1>1, <1>3, PacketStepsAreLocal
  <2> USE DEF ThreadGoto, fileVars, Replying
  <2>3. /\ thr \in [Client -> ThrValues] /\ badFile \in [Client -> BOOLEAN] /\ ring \in Ring
        /\ fpos \in [Client -> Nat] /\ ext \in [Client -> Nat]
        /\ sent \in [Client -> Seq(Seq(Byte))]
    BY <1>1 DEF TypeOK
  <2>4. CASE Write(c)
    <3>1. thr[c] = "command" /\ thr'[c] = "relock" BY <2>3, <2>4 DEF Write
    <3>2. \A d \in Client : d # c => thr[d] \notin Locked
      BY <3>1, HolderIsAlone DEF Inv, Locked
    <3>3. \A d \in Client : thr'[d] \notin Replying BY <2>1, <3>1, <3>2 DEF Locked
    <3> QED BY <3>3 DEF RepliesReadSoFar
  <2>5. ASSUME ~Write(c),
               thr'[c] \in Replying /\ ~badFile[c] =>
                 /\ ReadSoFar(ring, ext'[c], fpos'[c], sent'[c])
                 /\ thr'[c] = "rewind" => fpos'[c] >= Len(Bytes(ring))
        PROVE  RepliesReadSoFar'
    <3> SUFFICES ASSUME NEW d \in Client, thr'[d] \in Replying, ~badFile'[d]
                 PROVE  /\ ReadSoFar(ring', ext'[d], fpos'[d], sent'[d])
                        /\ thr'[d] = "rewind" => fpos'[d] >= Len(Bytes(ring'))
      BY DEF RepliesReadSoFar
    <3>1. ring' = ring BY <2>2, <2>5
    <3>2. CASE d = c BY <2>2, <2>5, <3>1, <3>2
    <3>3. CASE d # c BY <1>1, <2>1, <3>1, <3>3 DEF RepliesReadSoFar
    <3> QED BY <3>2, <3>3
  <2>6. CASE ~Write(c) /\ (Receive(c) \/ WriteFails(c) \/ DoSeek(c))
    <3>1. thr'[c] \notin Replying BY <2>3, <2>6 DEF Receive, WriteFails, DoSeek
    <3> QED BY <2>5, <2>6, <3>1
  <2>7. CASE ~Write(c) /\ LockReply(c)
    <3>1. thr'[c] = "reply" /\ thr[c] = "relock" /\ ext'[c] = fpos[c] /\ UNCHANGED <<fpos, sent>>
      BY <2>3, <2>7 DEF LockReply
    <3>2. sent[c] = <<>> BY <3>1 DEF Inv, FilesAtHome
    <3>3. ReadSoFar(ring, fpos[c], fpos[c], <<>>) BY <2>3, NothingRead DEF Inv
    <3> QED BY <2>5, <2>7, <3>1, <3>2, <3>3
  <2>8. CASE ~Write(c) /\ ReplyRead(c)
    <3> DEFINE r == ReadAt(ring, fpos[c])
    <3>1. /\ ~badFile[c] /\ thr[c] = "reply"
          /\ thr' = [thr EXCEPT ![c] = IF r = <<>> THEN "rewind" ELSE "send"]
          /\ fpos' = [fpos EXCEPT ![c] = @ + Len(r)]
          /\ sent' = [sent EXCEPT ![c] = IF r = <<>> THEN @ ELSE Append(@, r)]
          /\ ext' = ext
      BY <2>8 DEF ReplyRead
    <3>2. ReadSoFar(ring, ext[c], fpos[c], sent[c]) BY <1>1, <3>1 DEF RepliesReadSoFar
    <3>3. IF r = <<>> THEN fpos[c] >= Len(Bytes(ring))
          ELSE ReadSoFar(ring, ext[c], fpos[c] + Len(r), Append(sent[c], r))
      <4>1. \A i \in 1 .. Count(ring) : Nth(Contents(ring), i) # <<>> BY DEF Inv, LinesNotEmpty
      <4>2. /\ ring \in Ring /\ RingInv(ring) /\ ext[c] \in Nat /\ fpos[c] \in Nat
            /\ sent[c] \in Seq(Seq(Byte))
        BY <2>3 DEF Inv
      <4> QED BY <3>2, <4>1, <4>2, ReadsMore
    <3> HIDE DEF r
    <3>4. CASE r = <<>>
      <4>1. Len(r) = 0 /\ fpos[c] \in Nat BY <2>3, <3>4
      <4>2. fpos'[c] = fpos[c] BY <2>3, <3>1, <4>1
      <4>3. sent'[c] = sent[c] BY <2>3, <3>1, <3>4
      <4> QED BY <2>5, <2>8, <3>1, <3>2, <3>3, <3>4, <4>2, <4>3
    <3>5. CASE r # <<>>
      <4>1. fpos'[c] = fpos[c] + Len(r) /\ sent'[c] = Append(sent[c], r) /\ thr'[c] = "send"
        BY <2>3, <3>1, <3>5
      <4> QED BY <2>5, <2>8, <3>1, <3>3, <3>5, <4>1
    <3> QED BY <3>4, <3>5
  <2>9. CASE ~Write(c) /\ (ReplySend(c) \/ ReplyLost(c))
    <3>1. thr'[c] = "reply" /\ thr[c] = "send" /\ UNCHANGED fileVars
      BY <2>3, <2>9 DEF ReplySend, ReplyLost
    <3> QED BY <1>1, <2>5, <2>9, <3>1 DEF RepliesReadSoFar
  <2>10. CASE ~Write(c) /\ (ReplyReadFails(c) \/ ReplySendFails(c) \/ Rewind(c))
    <3>1. thr'[c] = "recv" BY <2>3, <2>10 DEF ReplyReadFails, ReplySendFails, Rewind, EndReply
    <3> QED BY <2>5, <2>10, <3>1
  <2> QED BY <1>3, <2>4, <2>6, <2>7, <2>8, <2>9, <2>10 DEF PacketSteps
<1> QED BY <1>2, <1>3

(* Another line moves a stored one back by one place, until it drops out.  *)
LEMMA StoredMovesBack ==
    ASSUME TypeOK, RingInv(ring), NEW c \in Client, Write(c),
           NEW line, NEW k \in Nat, k + 1 < N, StoredAt(ring, line, k)
    PROVE  StoredAt(ring', line, k + 1)
<1> DEFINE n == Count(ring)
           m == Count(ring')
           i == m - (k + 1)
<1>1. /\ n \in 0 .. N /\ m = IF n < N THEN n + 1 ELSE N
      /\ \A j \in 1 .. m - 1 :
           Nth(Contents(ring'), j)
             = IF n < N THEN Nth(Contents(ring), j) ELSE Nth(Contents(ring), j + 1)
  BY WriteStores
<1>2. k < n /\ Nth(Contents(ring), n - k) = line BY DEF StoredAt
<1>3. N \in Nat /\ N > 0 BY NAssumption
<1> HIDE DEF n, m
<1>4. /\ k + 1 < m /\ i \in 1 .. m - 1
      /\ IF n < N THEN i = n - k ELSE i + 1 = n - k
  BY <1>1, <1>2, <1>3
<1> HIDE DEF i
<1>5. Nth(Contents(ring'), i) = line BY <1>1, <1>2, <1>4
<1> QED BY <1>4, <1>5 DEF StoredAt, m, i

LEMMA StepOwnLineStored ==
    ASSUME Inv, Next
    PROVE  OwnLineStored'
<1>1. TypeOK /\ RingInv(ring) /\ OwnLineStored BY DEF Inv
<1>2. CASE ~ \E c \in Client : PacketSteps(c)
  <2>1. /\ UNCHANGED <<ring, fpos, ext, sent, since, home>>
        /\ \A d \in Client :
             /\ thr'[d] \in Answering \/ thr[d] \in Answering => thr'[d] = thr[d]
             /\ thr'[d] \in Answering => packet'[d] = packet[d] /\ badFile'[d] = badFile[d]
    BY <1>2, OtherStepsLeaveReplies DEF Inv
  <2> QED BY <1>1, <2>1 DEF OwnLineStored, Answering
<1>3. ASSUME NEW c \in Client, PacketSteps(c) PROVE OwnLineStored'
  <2>1. \A d \in Client : d # c => thr'[d] = thr[d] /\ packet'[d] = packet[d]
    BY <1>1, <1>3, PacketStepsAreLocal
  <2>2. ~Write(c) => ring' = ring /\ \A d \in Client : d # c => since'[d] = since[d]
    BY <1>1, <1>3, PacketStepsAreLocal
  <2> USE DEF ThreadGoto, fileVars, Replying
  <2>3. /\ thr \in [Client -> ThrValues] /\ packet \in [Client -> Packet]
        /\ since \in [Client -> Nat]
    BY <1>1 DEF TypeOK
  <2>4. CASE Write(c)
    <3>1. /\ thr[c] = "command" /\ thr'[c] = "relock" /\ packet' = packet
          /\ since' = [d \in Client |-> IF thr[d] = "relock" THEN since[d] + 1 ELSE 0]
      BY <2>3, <2>4 DEF Write
    <3>2. \A d \in Client : d # c => thr[d] \notin Locked
      BY <3>1, HolderIsAlone DEF Inv, Locked
    <3> SUFFICES ASSUME NEW d \in Client, thr'[d] \in Replying \cup {"relock"},
                        packet'[d].kind = "text", since'[d] < N
                 PROVE  StoredAt(ring', packet'[d].line, since'[d])
      BY DEF OwnLineStored
    <3>3. CASE d = c
      <4>1. since'[c] = 0 BY <3>1
      <4>2. /\ Count(ring') = IF Count(ring) < N THEN Count(ring) + 1 ELSE N
            /\ Nth(Contents(ring'), Count(ring')) = packet[c].line /\ Count(ring) \in 0 .. N
        BY <1>1, <2>4, WriteStores
      <4>3. 0 < Count(ring') /\ Count(ring') - 0 = Count(ring') BY <4>2, NAssumption
      <4> QED BY <3>1, <3>3, <4>1, <4>2, <4>3 DEF StoredAt
    <3>4. CASE d # c
      <4>1. thr[d] = "relock" BY <2>1, <3>2, <3>4 DEF Locked
      <4>2. since'[d] = since[d] + 1 /\ since[d] \in Nat BY <2>3, <3>1, <4>1
      <4>3. since[d] < N BY <4>2, NAssumption
      <4>4. StoredAt(ring, packet[d].line, since[d]) BY <1>1, <3>1, <4>1, <4>3 DEF OwnLineStored
      <4>5. StoredAt(ring', packet[d].line, since[d] + 1)
        BY <1>1, <2>4, <4>2, <4>4, StoredMovesBack
      <4> QED BY <3>1, <4>2, <4>5
    <3> QED BY <3>3, <3>4
  <2>5. ASSUME ~Write(c),
               thr'[c] \in Replying \cup {"relock"} /\ packet'[c].kind = "text" /\ since'[c] < N
                 => StoredAt(ring, packet'[c].line, since'[c])
        PROVE  OwnLineStored'
    <3> SUFFICES ASSUME NEW d \in Client, thr'[d] \in Replying \cup {"relock"},
                        packet'[d].kind = "text", since'[d] < N
                 PROVE  StoredAt(ring', packet'[d].line, since'[d])
      BY DEF OwnLineStored
    <3>1. ring' = ring BY <2>2, <2>5
    <3>2. CASE d = c BY <2>5, <3>1, <3>2
    <3>3. CASE d # c BY <1>1, <2>1, <2>2, <2>5, <3>1, <3>3 DEF OwnLineStored
    <3> QED BY <3>2, <3>3
  <2>6. CASE ~Write(c) /\ Receive(c)
    <3>1. thr'[c] = "relock" => packet'[c].kind = "malformed" BY <2>3, <2>6 DEF Receive
    <3>2. thr'[c] \in {"lock", "relock"} BY <2>3, <2>6 DEF Receive
    <3> QED BY <2>5, <2>6, <3>1, <3>2
  <2>7. CASE ~Write(c) /\ WriteFails(c)
    <3>1. packet'[c].kind = "malformed" BY <2>3, <2>7 DEF WriteFails, NoPacket
    <3> QED BY <2>5, <2>7, <3>1
  <2>8. CASE ~Write(c) /\ DoSeek(c)
    <3>1. packet'[c].kind = "seek" BY <2>8 DEF DoSeek
    <3> QED BY <2>5, <2>8, <3>1
  <2>9. CASE ~Write(c) /\ (LockReply(c) \/ ReplyRead(c) \/ ReplySend(c) \/ ReplyLost(c))
    <3>1. thr[c] \in Replying \cup {"relock"} /\ packet' = packet /\ since' = since
      BY <2>3, <2>9 DEF LockReply, ReplyRead, ReplySend, ReplyLost
    <3> QED BY <1>1, <2>5, <2>9, <3>1 DEF OwnLineStored
  <2>10. CASE ~Write(c) /\ (ReplyReadFails(c) \/ ReplySendFails(c) \/ Rewind(c))
    <3>1. thr'[c] = "recv" BY <2>3, <2>10 DEF ReplyReadFails, ReplySendFails, Rewind, EndReply
    <3> QED BY <2>5, <2>10, <3>1
  <2> QED BY <1>3, <2>4, <2>6, <2>7, <2>8, <2>9, <2>10 DEF PacketSteps
<1> QED BY <1>2, <1>3

-------------------------------------------------------------------------------
LEMMA NextInv == Inv /\ [Next]_vars => Inv'
<1>1. ASSUME Inv, Next PROVE Inv'
  <2>1. TypeOK' /\ RingInv(ring') /\ LinesNotEmpty' BY <1>1, StepType, StepRing DEF Inv
  <2>2. LockNamesHolder' /\ ConnectionsInOrder' /\ QueueNamesThreads'
    BY <1>1, StepLockNamesHolder, StepConnectionsInOrder, StepQueueNamesThreads DEF Inv
  <2>3. FilesAtHome' /\ RepliesReadSoFar' /\ OwnLineStored'
    BY <1>1, StepFilesAtHome, StepRepliesReadSoFar, StepOwnLineStored
  <2> QED BY <2>1, <2>2, <2>3 DEF Inv
<1>2. ASSUME Inv, UNCHANGED vars PROVE Inv'
  <2> USE DEF vars, mainVars, fileVars, netVars
  <2>1. TypeOK' /\ RingInv(ring') /\ LinesNotEmpty' BY <1>2 DEF Inv, TypeOK, LinesNotEmpty
  <2>2. LockNamesHolder' /\ ConnectionsInOrder' /\ QueueNamesThreads'
    BY <1>2 DEF Inv, LockNamesHolder, ConnectionsInOrder, QueueNamesThreads
  <2>3. FilesAtHome' BY <1>2 DEF Inv, FilesAtHome
  <2>4. RepliesReadSoFar' BY <1>2 DEF Inv, RepliesReadSoFar
  <2>5. OwnLineStored' BY <1>2 DEF Inv, OwnLineStored
  <2> QED BY <2>1, <2>2, <2>3, <2>4, <2>5 DEF Inv
<1> QED BY <1>1, <1>2

LEMMA Invariance == Spec => []Inv
<1> QED BY InitInv, NextInv, PTL DEF Spec

(* The state has its types in every reachable state.                       *)
THEOREM TypeCorrect == Spec => []TypeOK
<1>1. Inv => TypeOK BY DEF Inv
<1> QED BY <1>1, Invariance, PTL

(***************************************************************************)
(* A reply is the device's bytes from where it began to where the file     *)
(* stands, and reaches their end, however many reads and writes it takes.  *)
(***************************************************************************)
THEOREM RepliesAreSnapshots == Spec => []ReplyIsASnapshot
<1>1. Inv => ReplyIsASnapshot
  BY DEF Inv, RepliesReadSoFar, ReadSoFar, ReplyIsASnapshot, Replying
<1> QED BY <1>1, Invariance, PTL

(***************************************************************************)
(* A client gets its own line back, although log_lock is free between the  *)
(* write and the reply, unless N lines of others came in between.          *)
(***************************************************************************)
THEOREM OwnLinesComeBack == Spec => []OwnLineInReply
<1>1. ASSUME Inv PROVE OwnLineInReply
  <2> SUFFICES ASSUME NEW c \in Client, thr[c] = "rewind", packet[c].kind = "text",
                      ext[c] = 0, since[c] < N
               PROVE  packet[c].line \in ToSet(sent[c])
    BY DEF OwnLineInReply
  <2> DEFINE log == Contents(ring)
             n == Count(ring)
             k == Len(sent[c])
             i == n - since[c]
  <2>1. ~badFile[c] BY <1>1 DEF Inv, FilesAtHome, Replying
  <2>2. /\ k <= n /\ fpos[c] = Len(Joined(log, k)) /\ fpos[c] >= Len(Bytes(ring))
        /\ \A j \in 1 .. k : sent[c][j] = Nth(log, j)
    BY <1>1, <2>1 DEF Inv, RepliesReadSoFar, ReadSoFar, Replying
  <2>3. since[c] < n /\ Nth(log, i) = packet[c].line
    BY <1>1 DEF Inv, OwnLineStored, StoredAt, Replying
  <2>4. /\ ring \in Ring /\ RingInv(ring) /\ since[c] \in Nat /\ sent[c] \in Seq(Seq(Byte))
        /\ \A j \in 1 .. n : Nth(log, j) # <<>>
    BY <1>1 DEF Inv, TypeOK, LinesNotEmpty
  <2>5. log \in Seq(Seq(Byte)) /\ Len(log) = n /\ n \in Nat
    BY <2>4, ContentsIsSeq, NAssumption
  <2>6. Bytes(ring) = Joined(log, n) BY <2>5, JoinedRecursion DEF Bytes
  <2>7. k \in Nat BY <2>4
  <2> HIDE DEF log, n, k
  <2>8. k = n
    <3> SUFFICES ASSUME k < n PROVE FALSE BY <2>2, <2>5, <2>7
    <3>1. k \in 0 .. Len(log) /\ n \in 0 .. Len(log) BY <2>5, <2>7
    <3>2. Len(Joined(log, k)) < Len(Joined(log, n)) BY <2>4, <2>5, <3>1, JoinedGrows
    <3>3. Joined(log, k) \in Seq(Byte) /\ Joined(log, n) \in Seq(Byte)
      BY <2>5, <3>1, JoinedRecursion
    <3>4. Len(Joined(log, k)) \in Nat /\ Len(Joined(log, n)) \in Nat BY <3>3
    <3> QED BY <2>2, <2>6, <3>2, <3>4
  <2>9. i \in 1 .. k BY <2>3, <2>4, <2>5, <2>8
  <2> HIDE DEF i
  <2>10. sent[c][i] = packet[c].line BY <2>2, <2>3, <2>9
  <2> QED BY <2>9, <2>10 DEF ToSet, k
<1> QED BY <1>1, Invariance, PTL

(***************************************************************************)
(* Replies start where the client's last seek left its file, or at the     *)
(* start: each reply puts the file back.                                   *)
(***************************************************************************)
THEOREM RepliesStartAtHome == Spec => []RepliesStartAtLastSeek
<1>1. Inv => RepliesStartAtLastSeek
  BY DEF Inv, FilesAtHome, RepliesStartAtLastSeek, Replying
<1> QED BY <1>1, Invariance, PTL

(***************************************************************************)
(* Running threads are queued to be joined, each once, and the process     *)
(* does not exit under them.                                               *)
(***************************************************************************)
THEOREM RunningThreadsAreJoined == Spec => []ThreadsAreJoined
<1>1. ASSUME Inv PROVE ThreadsAreJoined
  <2>1. queue \in Seq(Client) /\ QueueNamesThreads BY <1>1 DEF Inv, TypeOK
  <2>2. IsInjective(queue)
    <3>1. DOMAIN queue = 1 .. Len(queue) BY <2>1
    <3> QED BY <2>1, <3>1 DEF IsInjective, QueueNamesThreads
  <2>3. ASSUME NEW c \in Client, thr[c] \in Serving PROVE c \in ToSet(queue) /\ main # "exited"
    <3>1. PICK i \in 1 .. Len(queue) : queue[i] = c BY <2>1, <2>3 DEF QueueNamesThreads
    <3>2. queue # <<>> BY <2>1, <3>1
    <3>3. main # "exited" BY <2>1, <3>2 DEF QueueNamesThreads
    <3> QED BY <3>1, <3>3 DEF ToSet
  <2> QED BY <2>2, <2>3 DEF ThreadsAreJoined, Serving, Locked, Replying
<1> QED BY <1>1, Invariance, PTL
-------------------------------------------------------------------------------
(* What LineService sees of a step that is one client's.                   *)
LEMMA OneClientMoves ==
    ASSUME TypeOK, NEW c \in Client, PacketSteps(c)
    PROVE  /\ Phase' = [Phase EXCEPT ![c] = Phase'[c]]
           /\ Place' = [Place EXCEPT ![c] = Place'[c]]
           /\ Given' = [Given EXCEPT ![c] = Given'[c]]
<1>1. \A d \in Client : d # c =>
        thr'[d] = thr[d] /\ sent'[d] = sent[d] /\ home'[d] = home[d] /\ peer'[d] = peer[d]
  BY PacketStepsAreLocal
<1>2. \A d \in Client : d # c => Phase'[d] = Phase[d] BY <1>1 DEF Phase
<1>3. \A d \in Client : d # c => Place'[d] = Place[d] BY <1>1 DEF Place
<1>4. \A d \in Client : d # c => Given'[d] = Given[d] BY <1>1, <1>2 DEF Given
<1>5. Phase' = [Phase EXCEPT ![c] = Phase'[c]] BY <1>2 DEF Phase
<1>6. Place' = [Place EXCEPT ![c] = Place'[c]] BY <1>3 DEF Place
<1>7. Given' = [Given EXCEPT ![c] = Given'[c]] BY <1>4 DEF Given
<1> QED BY <1>5, <1>6, <1>7

(* A whole reply is the text from the client's place to its end.           *)
LEMMA RepliesAreWhole ==
    ASSUME Inv, NEW c \in Client, thr[c] = "reply", ~badFile[c], peer[c] # "broken",
           ReadAt(ring, fpos[c]) = <<>>
    PROVE  FlattenSeq(sent[c]) = SubSeq(Bytes(ring), home[c] + 1, Len(Bytes(ring)))
<1> DEFINE flat == Bytes(ring)
<1>1. home[c] = ext[c] BY DEF Inv, FilesAtHome, Replying
<1>2. /\ fpos[c] = ext[c] \/ fpos[c] \in ext[c] .. Len(flat)
      /\ FlattenSeq(sent[c]) = SubSeq(flat, ext[c] + 1, fpos[c])
  BY DEF Inv, RepliesReadSoFar, ReadSoFar, Replying
<1>3. /\ ring \in Ring /\ RingInv(ring)
      /\ flat \in Seq(Byte) /\ Len(flat) \in Nat /\ ext[c] \in Nat /\ fpos[c] \in Nat
  BY SumsArePositions DEF Inv, TypeOK
<1>4. fpos[c] >= Len(flat) BY <1>3, ReadAtIsPiece
<1> HIDE DEF flat
<1>5. CASE fpos[c] = Len(flat) BY <1>1, <1>2, <1>5 DEF flat
<1>6. CASE fpos[c] # Len(flat)
  <2>1. fpos[c] = ext[c] /\ ext[c] > Len(flat) BY <1>2, <1>3, <1>4, <1>6
  <2>2. ext[c] + 1 \in Int /\ fpos[c] \in Int /\ fpos[c] < ext[c] + 1 /\ Len(flat) < ext[c] + 1
    BY <1>3, <2>1
  <2> DEFINE from == ext[c] + 1
  <2> HIDE DEF from
  <2>3. SubSeq(flat, from, fpos[c]) = <<>> BY <2>2, SubSeqEmpty DEF from
  <2>4. SubSeq(flat, from, Len(flat)) = <<>>
    <3>1. from \in Int /\ Len(flat) \in Int /\ Len(flat) < from BY <1>3, <2>2 DEF from
    <3> QED BY <3>1, SubSeqEmpty
  <2> QED BY <1>1, <1>2, <2>3, <2>4 DEF flat, from
<1> QED BY <1>5, <1>6

(* The text of LineService is what the device holds.                       *)
LEMMA TextIsBytes == Service!Bytes = Bytes(ring)
BY DEF Bytes, Service!Bytes, FlattenSeq, Service!FlattenSeq

(* One client's step is one of LineService's, or none.                     *)
LEMMA PacketStepsAreRequests ==
    ASSUME Inv, NEW c \in Client, PacketSteps(c)
    PROVE  Service!Request(c) \/ UNCHANGED Service!vars
<1> DEFINE log == Contents(ring)
           OK == Service!Request(c) \/ UNCHANGED Service!vars
<1>1. /\ Phase' = [Phase EXCEPT ![c] = Phase'[c]]
      /\ Place' = [Place EXCEPT ![c] = Place'[c]]
      /\ Given' = [Given EXCEPT ![c] = Given'[c]]
  BY OneClientMoves DEF Inv
<1>2. /\ Phase[c] = CASE peer[c] = "broken" -> "gone"
                      [] peer[c] # "broken" /\ thr[c] \in {"relock", "reply", "send"} -> "handled"
                      [] peer[c] # "broken" /\ thr[c] = "rewind" -> "answered"
                      [] OTHER -> "idle"
      /\ Place[c] = IF peer[c] = "broken" THEN 0 ELSE home[c]
      /\ Given[c] = IF Phase[c] = "answered" THEN FlattenSeq(sent[c]) ELSE <<>>
  BY DEF Phase, Place, Given
<1>3. /\ Phase'[c] = CASE peer'[c] = "broken" -> "gone"
                       [] peer'[c] # "broken" /\ thr'[c] \in {"relock", "reply", "send"}
                            -> "handled"
                       [] peer'[c] # "broken" /\ thr'[c] = "rewind" -> "answered"
                       [] OTHER -> "idle"
      /\ Place'[c] = IF peer'[c] = "broken" THEN 0 ELSE home'[c]
      /\ Given'[c] = IF Phase'[c] = "answered" THEN FlattenSeq(sent'[c]) ELSE <<>>
  BY DEF Phase, Place, Given
<1>4. ~Write(c) => log' = log BY PacketStepsAreLocal DEF Inv
<1>5. /\ Phase = [d \in Client |-> Phase[d]] /\ Place = [d \in Client |-> Place[d]]
      /\ Given = [d \in Client |-> Given[d]]
  BY DEF Phase, Place, Given
<1>6. /\ Phase'[c] = Phase[c] => Phase' = Phase
      /\ Place'[c] = Place[c] => Place' = Place
      /\ Given'[c] = Given[c] => Given' = Given
  BY <1>1, <1>5
<1>7. /\ thr \in [Client -> ThrValues] /\ home \in [Client -> Nat]
      /\ sent \in [Client -> Seq(Seq(Byte))]
      /\ peer \in [Client -> {"away", "open", "closed", "reset", "broken"}]
  BY DEF Inv, TypeOK
<1> HIDE DEF log
<1>8. ASSUME log' = log, Phase'[c] = Phase[c], Place'[c] = Place[c], Given'[c] = Given[c]
      PROVE  OK
  BY <1>6, <1>8 DEF Service!vars, log
<1>9. ASSUME log' = log, Phase[c] = "idle", Phase'[c] = "handled", Place'[c] = Place[c]
      PROVE  OK
  <2>1. Given[c] = <<>> /\ Given'[c] = <<>> BY <1>2, <1>3, <1>9
  <2>2. Service!Refuse(c)
    BY <1>1, <1>6, <1>9, <2>1 DEF Service!Refuse, Service!Goto, log
  <2> QED BY <2>2 DEF Service!Request
<1> USE DEF ThreadGoto, fileVars, netVars
<1>10. CASE Receive(c)
  <2>1. /\ thr[c] = "recv" /\ thr'[c] \in {"lock", "relock"}
        /\ UNCHANGED <<ring, peer, home, sent>>
    BY <1>7, <1>10 DEF Receive
  <2>2. log' = log /\ Place'[c] = Place[c] BY <1>2, <1>3, <2>1 DEF log
  <2>3. CASE peer[c] = "broken" \/ thr'[c] = "lock"
    <3>1. Phase'[c] = Phase[c] /\ Phase[c] # "answered" BY <1>2, <1>3, <2>1, <2>3
    <3> QED BY <1>2, <1>3, <1>8, <2>2, <3>1
  <2>4. CASE peer[c] # "broken" /\ thr'[c] = "relock"
    <3>1. Phase[c] = "idle" /\ Phase'[c] = "handled" BY <1>2, <1>3, <2>1, <2>4
    <3> QED BY <1>9, <2>2, <3>1
  <2> QED BY <2>1, <2>3, <2>4
<1>11. CASE Write(c)
  <2>1. /\ thr[c] = "command" /\ thr'[c] = "relock" /\ UNCHANGED <<peer, home, sent>>
    BY <1>7, <1>11 DEF Write
  <2>2. packet[c].line \in Text /\ log' = Push(log, packet[c].line)
    BY <1>11, WriteStores DEF Inv, log
  <2>3. Place'[c] = Place[c] BY <1>2, <1>3, <2>1
  <2>4. \/ Phase[c] = "idle" /\ Phase'[c] = "handled"
        \/ Phase[c] = "gone" /\ Phase'[c] = "gone"
    BY <1>2, <1>3, <2>1
  <2>5. Given[c] = <<>> /\ Given'[c] = <<>> BY <1>2, <1>3, <2>4
  <2>6. log' = Service!Keep(log, packet[c].line) BY <2>2 DEF Push, Service!Keep
  <2>7. Service!Goto(c, "idle", "handled") \/ Service!Goto(c, "gone", "gone")
    BY <1>1, <2>4 DEF Service!Goto
  <2>8. Service!Store(c, packet[c].line)
    BY <1>6, <2>3, <2>5, <2>6, <2>7 DEF Service!Store, log
  <2> QED BY <2>2, <2>8 DEF Service!Request
<1>12. CASE WriteFails(c)
  <2>1. /\ thr[c] = "command" /\ thr'[c] = "relock" /\ UNCHANGED <<ring, peer, home, sent>>
    BY <1>7, <1>12 DEF WriteFails
  <2>2. log' = log /\ Place'[c] = Place[c] BY <1>2, <1>3, <2>1 DEF log
  <2>3. CASE peer[c] = "broken"
    <3>1. Phase[c] = "gone" /\ Phase'[c] = "gone" BY <1>2, <1>3, <2>1, <2>3
    <3> QED BY <1>2, <1>3, <1>8, <2>2, <3>1
  <2>4. CASE peer[c] # "broken"
    <3>1. Phase[c] = "idle" /\ Phase'[c] = "handled" BY <1>2, <1>3, <2>1, <2>4
    <3> QED BY <1>9, <2>2, <3>1
  <2> QED BY <2>3, <2>4
<1>13. CASE DoSeek(c)
  <2>1. /\ thr[c] = "command" /\ thr'[c] = "relock" /\ UNCHANGED <<ring, peer, sent>>
        /\ home' = [home EXCEPT ![c] = fpos'[c]]
        /\ fpos' = IF SeekPosition(c) = EINVAL THEN fpos
                   ELSE [fpos EXCEPT ![c] = SeekPosition(c)]
    BY <1>7, <1>13 DEF DoSeek
  <2>2. log' = log BY <2>1 DEF log
  <2>3. CASE peer[c] = "broken"
    <3>1. Phase[c] = "gone" /\ Phase'[c] = "gone" /\ Place'[c] = Place[c]
      BY <1>2, <1>3, <2>1, <2>3
    <3> QED BY <1>2, <1>3, <1>8, <2>2, <3>1
  <2>4. CASE peer[c] # "broken"
    <3>1. /\ Phase[c] = "idle" /\ Phase'[c] = "handled"
          /\ Place[c] = home[c] /\ Place'[c] = home'[c]
      BY <1>2, <1>3, <2>1, <2>4
    <3>2. home'[c] = fpos'[c] BY <1>7, <2>1
    <3>3. CASE SeekPosition(c) = EINVAL
      <4>1. home[c] = fpos[c] BY <2>1, <2>4 DEF Inv, FilesAtHome, Replying
      <4>2. Place'[c] = Place[c] BY <2>1, <3>1, <3>2, <3>3, <4>1
      <4> QED BY <1>9, <2>2, <3>1, <4>2
    <3>4. CASE SeekPosition(c) # EINVAL
      <4>1. fpos \in [Client -> Nat] /\ ring \in Ring /\ RingInv(ring) BY DEF Inv, TypeOK
      <4>2. Place'[c] = SeekPosition(c) BY <2>1, <3>1, <3>2, <3>4, <4>1
      <4>3. SeekPosition(c) \in 0 .. BufferLength(ring) BY <3>4 DEF SeekPosition, SeekTo
      <4>4. SeekPosition(c) \in 0 .. Len(Service!Bytes)
        BY <4>1, <4>3, LengthOfAll, TextIsBytes
      <4>5. Given'[c] = Given[c] BY <1>2, <1>3, <3>1
      <4>6. Service!Goto(c, "idle", "handled") BY <1>1, <3>1 DEF Service!Goto
      <4>7. Place' = [Place EXCEPT ![c] = SeekPosition(c)] BY <1>1, <4>2
      <4>8. UNCHANGED <<Contents(ring), Given>> BY <1>6, <2>2, <4>5 DEF log
      <4>9. Service!MovePlace(c) BY <4>4, <4>6, <4>7, <4>8 DEF Service!MovePlace
      <4> QED BY <4>9 DEF Service!Request
    <3> QED BY <3>3, <3>4
  <2> QED BY <2>3, <2>4
<1>14. CASE LockReply(c)
  <2>1. /\ thr[c] = "relock" /\ thr'[c] = "reply" /\ UNCHANGED <<ring, peer, home, sent>>
    BY <1>7, <1>14 DEF LockReply
  <2>2. /\ log' = log /\ Phase'[c] = Phase[c] /\ Phase[c] # "answered"
        /\ Place'[c] = Place[c]
    BY <1>2, <1>3, <2>1 DEF log
  <2> QED BY <1>2, <1>3, <1>8, <2>2
<1>15. CASE ReplyRead(c)
  <2> DEFINE end == ReadAt(ring, fpos[c]) = <<>>
  <2>1. /\ thr[c] = "reply" /\ ~badFile[c] /\ UNCHANGED <<ring, peer, home>>
        /\ thr'[c] = IF end THEN "rewind" ELSE "send"
        /\ end => sent'[c] = sent[c]
    BY <1>7, <1>15 DEF ReplyRead
  <2> HIDE DEF end
  <2>2. log' = log /\ Place'[c] = Place[c] BY <1>2, <1>3, <2>1 DEF log
  <2>3. CASE peer[c] = "broken" \/ ~end
    <3>1. Phase'[c] = Phase[c] /\ Phase[c] # "answered" BY <1>2, <1>3, <2>1, <2>3
    <3> QED BY <1>2, <1>3, <1>8, <2>2, <3>1
  <2>4. CASE peer[c] # "broken" /\ end
    <3>1. Phase[c] = "handled" /\ Phase'[c] = "answered" /\ Place[c] = home[c]
      BY <1>2, <1>3, <2>1, <2>4
    <3>2. FlattenSeq(sent[c]) = SubSeq(Bytes(ring), home[c] + 1, Len(Bytes(ring)))
      BY <2>1, <2>4, RepliesAreWhole DEF end
    <3>3. Given'[c] = SubSeq(Bytes(ring), Place[c] + 1, Len(Bytes(ring)))
      BY <1>3, <2>1, <2>4, <3>1, <3>2
    <3>4. Bytes(ring) = Service!Bytes BY TextIsBytes
    <3>5. Given' = [Given EXCEPT ![c] = SubSeq(Service!Bytes, Place[c] + 1, Len(Service!Bytes))]
      BY <1>1, <3>3, <3>4
    <3>6. Service!Goto(c, "handled", "answered") BY <1>1, <3>1 DEF Service!Goto
    <3>7. UNCHANGED <<Contents(ring), Place>> BY <1>6, <2>2 DEF log
    <3>8. Service!Answer(c) BY <3>5, <3>6, <3>7 DEF Service!Answer
    <3> QED BY <3>8 DEF Service!Request
  <2> QED BY <2>3, <2>4
<1>16. CASE ReplyReadFails(c)
  <2>1. /\ thr[c] = "reply" /\ thr'[c] = "recv" /\ UNCHANGED <<ring, peer, home>>
    BY <1>7, <1>16 DEF ReplyReadFails, EndReply
  <2>2. /\ log' = log /\ Place'[c] = Place[c] /\ Given'[c] = Given[c]
    BY <1>2, <1>3, <2>1 DEF log
  <2>3. CASE peer[c] = "broken"
    <3>1. Phase'[c] = Phase[c] BY <1>2, <1>3, <2>1, <2>3
    <3> QED BY <1>8, <2>2, <3>1
  <2>4. CASE peer[c] # "broken"
    <3>1. Phase[c] = "handled" /\ Phase'[c] = "idle" BY <1>2, <1>3, <2>1, <2>4
    <3>2. Service!NoAnswer(c)
      BY <1>1, <1>6, <2>2, <3>1 DEF Service!NoAnswer, Service!Goto, log
    <3> QED BY <3>2 DEF Service!Request
  <2> QED BY <2>3, <2>4
<1>17. CASE ReplySend(c)
  <2>1. thr[c] = "send" /\ thr'[c] = "reply" /\ UNCHANGED <<ring, peer, home, sent>>
    BY <1>7, <1>17 DEF ReplySend
  <2>2. /\ log' = log /\ Phase'[c] = Phase[c] /\ Phase[c] # "answered"
        /\ Place'[c] = Place[c]
    BY <1>2, <1>3, <2>1 DEF log
  <2> QED BY <1>2, <1>3, <1>8, <2>2
<1>18. CASE ReplyLost(c) \/ ReplySendFails(c)
  <2>1. /\ thr[c] = "send" /\ thr'[c] \in {"reply", "recv"} /\ UNCHANGED <<ring, home>>
        /\ peer[c] # "broken"
        /\ peer'[c] = "broken" \/ (peer' = peer /\ thr'[c] = "reply")
    <3>1. CASE ReplyLost(c)
      <4>1. /\ thr[c] = "send" /\ thr'[c] = "reply" /\ UNCHANGED fileVars /\ peer[c] = "closed"
        BY <1>7, <3>1 DEF ReplyLost
      <4>2. PICK state \in {"closed", "broken"} : peer' = [peer EXCEPT ![c] = state]
        BY <3>1 DEF ReplyLost
      <4>3. state = "closed" => peer' = peer BY <1>7, <4>1, <4>2
      <4>4. peer'[c] = state BY <1>7, <4>2
      <4> QED BY <4>1, <4>3, <4>4
    <3>2. CASE ReplySendFails(c) BY <1>7, <3>2 DEF ReplySendFails, EndReply
    <3> QED BY <1>18, <3>1, <3>2
  <2>2. log' = log BY <2>1 DEF log
  <2>3. CASE peer'[c] = "broken"
    <3>1. Phase[c] = "handled" /\ Phase'[c] = "gone" /\ Place'[c] = 0
      BY <1>2, <1>3, <2>1, <2>3
    <3>2. Given'[c] = Given[c] BY <1>2, <1>3, <3>1
    <3>3. Service!Break(c)
      BY <1>1, <1>6, <2>2, <3>1, <3>2 DEF Service!Break, Service!Goto, log
    <3> QED BY <3>3 DEF Service!Request
  <2>4. CASE peer' = peer /\ thr'[c] = "reply"
    <3>1. Phase'[c] = Phase[c] /\ Phase[c] # "answered" /\ Place'[c] = Place[c]
      BY <1>2, <1>3, <2>1, <2>4
    <3> QED BY <1>2, <1>3, <1>8, <2>2, <3>1
  <2> QED BY <2>1, <2>3, <2>4
<1>19. CASE Rewind(c)
  <2>1. thr[c] = "rewind" /\ thr'[c] = "recv" /\ UNCHANGED <<ring, peer, home>>
    BY <1>7, <1>19 DEF Rewind, EndReply
  <2>2. log' = log /\ Place'[c] = Place[c] BY <1>2, <1>3, <2>1 DEF log
  <2>3. CASE peer[c] = "broken"
    <3>1. Phase'[c] = Phase[c] /\ Phase[c] # "answered" BY <1>2, <1>3, <2>1, <2>3
    <3> QED BY <1>2, <1>3, <1>8, <2>2, <3>1
  <2>4. CASE peer[c] # "broken"
    <3>1. Phase[c] = "answered" /\ Phase'[c] = "idle" BY <1>2, <1>3, <2>1, <2>4
    <3>2. Given'[c] = <<>> BY <1>3, <3>1
    <3>3. Service!Finish(c)
      BY <1>1, <1>6, <2>2, <3>1, <3>2 DEF Service!Finish, Service!Goto, log
    <3> QED BY <3>3 DEF Service!Request
  <2> QED BY <2>3, <2>4
<1> QED BY <1>10, <1>11, <1>12, <1>13, <1>14, <1>15, <1>16, <1>17, <1>18, <1>19 DEF PacketSteps

(***************************************************************************)
(* The server implements LineService, for any number of clients: storing a *)
(* line is one step, giving an answer is another, and the rest of what the *)
(* threads, the network and signals do is no step of it at all.            *)
(***************************************************************************)
THEOREM Refinement == Spec => ImplementsLineService
<1>1. Init => Service!Init
  <2> SUFFICES ASSUME Init PROVE Service!Init OBVIOUS
  <2>1. Contents(ring) = <<>>
    <3>1. Inv /\ Count(ring) = 0 BY InitInv DEF Init, EmptyRing, Count
    <3>2. Contents(ring) \in Seq(Seq(Byte)) /\ Len(Contents(ring)) = 0
      BY <3>1, ContentsIsSeq DEF Inv, TypeOK
    <3> QED BY <3>2
  <2>2. Phase = [c \in Client |-> "idle"] BY DEF Init, Phase
  <2>3. Place = [c \in Client |-> 0] BY DEF Init, Place
  <2>4. Given = [c \in Client |-> <<>>] BY <2>2 DEF Given
  <2> QED BY <2>1, <2>2, <2>3, <2>4 DEF Service!Init
<1>2. Inv /\ [Next]_vars => [Service!Next]_(Service!vars)
  <2> SUFFICES ASSUME Inv, [Next]_vars PROVE [Service!Next]_(Service!vars) OBVIOUS
  <2>1. CASE UNCHANGED vars
    BY <2>1 DEF vars, fileVars, netVars, Service!vars, Phase, Place, Given
  <2>2. ASSUME NEW c \in Client, PacketSteps(c) PROVE [Service!Next]_(Service!vars)
    BY <2>2, PacketStepsAreRequests DEF Service!Next
  <2>3. CASE Next /\ ~ \E c \in Client : PacketSteps(c)
    <3>1. /\ UNCHANGED <<ring, sent, home>>
          /\ \A d \in Client :
               /\ thr'[d] \in Answering \/ thr[d] \in Answering => thr'[d] = thr[d]
               /\ peer'[d] = "broken" <=> peer[d] = "broken"
      BY <2>3, OtherStepsLeaveReplies DEF Inv
    <3>2. Phase' = Phase
      <4>1. \A d \in Client : Phase'[d] = Phase[d] BY <3>1 DEF Phase, Answering, Replying
      <4> QED BY <4>1 DEF Phase
    <3>3. Place' = Place BY <3>1 DEF Place
    <3>4. Given' = Given BY <3>1, <3>2 DEF Given
    <3> QED BY <3>1, <3>2, <3>3, <3>4 DEF Service!vars
  <2> QED BY <2>1, <2>2, <2>3
<1> QED BY <1>1, <1>2, Invariance, PTL DEF Spec, ImplementsLineService, Service!Spec
===============================================================================
