------------------------------ MODULE AesdServer ------------------------------
(***************************************************************************)
(* The socket server (server/aesdsocket.c, built for the char device): the *)
(* main thread that accepts and joins, one thread per connection, the      *)
(* signal handler that may run on any of them, and the clients.  Threads   *)
(* use the device only under log_lock, so a system call on it is one step, *)
(* the result of which AesdCharOps computes; AesdChar is what happens      *)
(* inside those calls.                                                     *)
(*                                                                         *)
(* The clients, the sockets and signal delivery are external.              *)
(***************************************************************************)
EXTENDS AesdCharOps

CONSTANTS
    Client,     \* clients, each of which connects at most once
    Text,       \* the lines of text they send
    Seek,       \* the [cmd, offset] pairs they send in seek requests
    MaxLines,   \* bound on the lines the clients send, all together
    Window,     \* writes the network buffers for a client that does not read
    NoOne       \* no thread holds log_lock

ASSUME TextAssumption == Text \subseteq Seq(Byte) \ {<<>>}
ASSUME SeekAssumption == Seek \subseteq [cmd : Nat, offset : Nat]
ASSUME BoundsAssumption == MaxLines \in Nat /\ Window \in Nat \ {0}
ASSUME NoOneAssumption == NoOne \notin Client

VARIABLES
    main,       \* where the main thread is
    caught,     \* caught_exit_signal
    sock,       \* socket_fd: the listening socket
    accepted,   \* the client of the connection being set up, or NoOne
    queue,      \* the thread_queue: threads to join, oldest first
    thr,        \* where each connection and its thread are
    packet,     \* the packet each thread is handling
    lock,       \* log_lock: its holder or NoOne
    badFile,    \* open() of the device failed for this connection
    ring,       \* the device
    fpos,       \* the position of each thread's open file
    ext,        \* ExternalPosition of sendFileToSocket
    sent,       \* what the current reply has read from the device, by reads
    peer,       \* each client's end of its connection
    inbox,      \* packets sent to the server and not yet received by it
    unread,     \* pieces of replies the client has not read
    lines,      \* lines the clients have sent
    since,      \* history: commands stored since the one a client waits for
    home        \* history: where each client last sought, the start at first

mainVars == <<main, caught, sock, accepted, queue>>
fileVars == <<lock, badFile, ring, fpos, ext, sent, since, home>>
netVars == <<peer, inbox, unread, lines>>
vars == <<mainVars, thr, packet, fileVars, netVars>>

Packet ==
    [kind : {"text"}, line : Text] \cup [kind : {"seek"}, to : Seek] \cup {[kind |-> "malformed"]}

NoPacket == [kind |-> "malformed"]

Init ==
    /\ main = "bind" /\ caught = FALSE /\ sock = "none"
    /\ accepted = NoOne /\ queue = <<>>
    /\ thr = [c \in Client |-> "none"]
    /\ packet = [c \in Client |-> NoPacket]
    /\ lock = NoOne /\ badFile = [c \in Client |-> FALSE]
    /\ ring = EmptyRing
    /\ fpos = [c \in Client |-> 0] /\ ext = [c \in Client |-> 0]
    /\ sent = [c \in Client |-> <<>>] /\ since = [c \in Client |-> 0]
    /\ home = [c \in Client |-> 0]
    /\ peer = [c \in Client |-> "away"] /\ inbox = [c \in Client |-> <<>>]
    /\ unread = [c \in Client |-> 0] /\ lines = 0

Running == main \notin {"exited", "killed"}

-------------------------------------------------------------------------------
(***************************************************************************)
(* The main thread: socketLogger and waitForConnection.                    *)
(***************************************************************************)
MainGoto(from, to) ==
    /\ main = from
    /\ main' = to
    /\ UNCHANGED <<caught, thr, packet, fileVars, netVars>>

Bind ==
    /\ MainGoto("bind", "listen")
    /\ sock' = "bound"
    /\ UNCHANGED <<accepted, queue>>

Listen ==
    /\ MainGoto("listen", "loop")
    /\ sock' = "listening"
    /\ UNCHANGED <<accepted, queue>>

(* while(caught_exit_signal == false), and the same test before accept().  *)
TestInLoop ==
    /\ MainGoto("loop", IF caught THEN "join" ELSE "wait")
    /\ UNCHANGED <<sock, accepted, queue>>

TestInWait ==
    /\ MainGoto("wait", IF caught THEN "join" ELSE "accept")
    /\ UNCHANGED <<sock, accepted, queue>>

Accept(c) ==
    /\ sock = "listening" /\ thr[c] = "backlog"
    /\ main = "accept" /\ main' = "spawn"
    /\ accepted' = c
    /\ thr' = [thr EXCEPT ![c] = "accepted"]
    /\ UNCHANGED <<caught, sock, queue, packet, fileVars, netVars>>

(* EINVAL, on a socket that was shut down: perror and around again.        *)
AcceptFails ==
    /\ sock = "shut"
    /\ MainGoto("accept", "wait")
    /\ UNCHANGED <<sock, accepted, queue>>

(* Any other error (EMFILE, ECONNABORTED, no memory): perror and around    *)
(* again, as long as it lasts.                                             *)
AcceptErrs ==
    /\ sock = "listening"
    /\ MainGoto("accept", "wait")
    /\ UNCHANGED <<sock, accepted, queue>>

(* Fault: the thread is created but not put in the queue.                  *)
SpawnUnqueued(c, bad) ==
    /\ accepted = c
    /\ main = "spawn" /\ main' = "loop"
    /\ accepted' = NoOne
    /\ thr' = [thr EXCEPT ![c] = "recv"]
    /\ badFile' = [badFile EXCEPT ![c] = bad]
    /\ UNCHANGED <<caught, sock, queue, packet, lock, ring, fpos, ext, sent, since, home, netVars>>

(* open() may fail; the thread is created all the same.                    *)
Spawn(c, bad) ==
    /\ accepted = c
    /\ main = "spawn" /\ main' = "loop"
    /\ accepted' = NoOne
    /\ queue' = Append(queue, c)
    /\ thr' = [thr EXCEPT ![c] = "recv"]
    /\ badFile' = [badFile EXCEPT ![c] = bad]
    /\ UNCHANGED <<caught, sock, packet, lock, ring, fpos, ext, sent, since, home, netVars>>

(* malloc or pthread_create fails: the loop ends, the connection leaks.    *)
SpawnFails ==
    /\ MainGoto("spawn", "join")
    /\ accepted' = NoOne
    /\ UNCHANGED <<sock, queue>>

(* pthread_join of the oldest thread, then TAILQ_REMOVE and free.          *)
Join ==
    /\ main = "join" /\ queue # <<>>
    /\ thr[Head(queue)] = "done"
    /\ queue' = Tail(queue)
    /\ UNCHANGED <<main, caught, sock, accepted, thr, packet, fileVars, netVars>>

Exit ==
    /\ queue = <<>>
    /\ MainGoto("join", "exited")
    /\ sock' = "none"
    /\ UNCHANGED <<accepted, queue>>

-------------------------------------------------------------------------------
(***************************************************************************)
(* A connection's thread: client_handler and receivePackets.               *)
(***************************************************************************)
ThreadGoto(c, from, to) ==
    /\ Running
    /\ thr[c] = from
    /\ thr' = [thr EXCEPT ![c] = to]

Locks(c) == lock = NoOne /\ lock' = c

Unlocks(c) == lock' = NoOne

(* A whole line has arrived; a malformed seek request has no command part. *)
Receive(c) ==
    /\ inbox[c] # <<>>
    /\ ThreadGoto(c, "recv", IF Head(inbox[c]).kind = "malformed" THEN "relock" ELSE "lock")
    /\ packet' = [packet EXCEPT ![c] = Head(inbox[c])]
    /\ inbox' = [inbox EXCEPT ![c] = Tail(@)]
    /\ UNCHANGED <<mainVars, fileVars, peer, unread, lines>>

(* Fault: only an end of file ends the thread; errors are tried again.     *)
ReceiveEndsAtEof(c) ==
    /\ inbox[c] = <<>> /\ peer[c] = "closed"
    /\ ThreadGoto(c, "recv", "done")
    /\ UNCHANGED <<mainVars, packet, fileVars, netVars>>

(* recv returns 0 or an error: the thread closes its files and ends.       *)
ReceiveEnds(c) ==
    /\ inbox[c] = <<>> /\ peer[c] # "open"
    /\ ThreadGoto(c, "recv", "done")
    /\ UNCHANGED <<mainVars, packet, fileVars, netVars>>

(* malloc of the buffer fails as the thread begins, or realloc in a line.  *)
ReceiveNoMemory(c) ==
    /\ ThreadGoto(c, "recv", "done")
    /\ UNCHANGED <<mainVars, packet, fileVars, netVars>>

LockCommand(c) ==
    /\ Locks(c)
    /\ ThreadGoto(c, "lock", "command")
    /\ UNCHANGED <<mainVars, packet, badFile, ring, fpos, ext, sent, since, home, netVars>>

(* The line goes to the device in one write, since it has one newline.     *)
Write(c) ==
    /\ packet[c].kind = "text" /\ ~badFile[c]
    /\ ThreadGoto(c, "command", "relock")
    /\ ring' = AddEntry(ring, packet[c].line)
    /\ since' = [d \in Client |-> IF thr[d] = "relock" THEN since[d] + 1 ELSE 0]
    /\ Unlocks(c)
    /\ UNCHANGED <<mainVars, packet, badFile, fpos, ext, sent, home, netVars>>

(* ENOMEM or a bad file: the write loop breaks and the line is dropped.    *)
WriteFails(c) ==
    /\ packet[c].kind = "text"
    /\ ThreadGoto(c, "command", "relock")
    /\ packet' = [packet EXCEPT ![c] = NoPacket]
    /\ Unlocks(c)
    /\ UNCHANGED <<mainVars, badFile, ring, fpos, ext, sent, since, home, netVars>>

SeekPosition(c) ==
    LET to == packet[c].to
        count == SeekByteCount(ring, ring.out_offs, SlotAt(ring, to.cmd), to.offset)
    IN  IF to.cmd >= N \/ badFile[c] THEN EINVAL ELSE SeekTo(count, BufferLength(ring))

(* Fault: the error code of a failed seek becomes the position.            *)
DoSeekUnchecked(c) ==
    /\ packet[c].kind = "seek"
    /\ ThreadGoto(c, "command", "relock")
    /\ fpos' = [fpos EXCEPT ![c] = SeekPosition(c)]
    /\ home' = [home EXCEPT ![c] = fpos'[c]]
    /\ Unlocks(c)
    /\ UNCHANGED <<mainVars, packet, badFile, ring, ext, sent, since, netVars>>

(* The ioctl; its result is not looked at.                                 *)
DoSeek(c) ==
    /\ packet[c].kind = "seek"
    /\ ThreadGoto(c, "command", "relock")
    /\ fpos' = IF SeekPosition(c) = EINVAL THEN fpos ELSE [fpos EXCEPT ![c] = SeekPosition(c)]
    /\ home' = [home EXCEPT ![c] = fpos'[c]]
    /\ Unlocks(c)
    /\ UNCHANGED <<mainVars, packet, badFile, ring, ext, sent, since, netVars>>

(* Fault: the reply is not made under log_lock.                            *)
ReplyUnlocked(c) ==
    /\ ThreadGoto(c, "relock", "reply")
    /\ ext' = [ext EXCEPT ![c] = fpos[c]]
    /\ UNCHANGED <<mainVars, packet, lock, badFile, ring, fpos, sent, since, home, netVars>>

(* sendFileToSocket begins: remember where the file is.                    *)
LockReply(c) ==
    /\ Locks(c)
    /\ ThreadGoto(c, "relock", "reply")
    /\ ext' = [ext EXCEPT ![c] = fpos[c]]
    /\ UNCHANGED <<mainVars, packet, badFile, ring, fpos, sent, since, home, netVars>>

(* Fault: one read is taken for the whole file.                            *)
ReplyReadOnce(c) ==
    LET bytes == IF sent[c] = <<>> THEN ReadAt(ring, fpos[c]) ELSE <<>>
    IN  /\ ~badFile[c]
        /\ ThreadGoto(c, "reply", IF bytes = <<>> THEN "rewind" ELSE "send")
        /\ fpos' = [fpos EXCEPT ![c] = @ + Len(bytes)]
        /\ sent' = [sent EXCEPT ![c] = IF bytes = <<>> THEN @ ELSE Append(@, bytes)]
        /\ UNCHANGED <<mainVars, packet, lock, badFile, ring, ext, since, home, netVars>>

ReplyRead(c) ==
    LET bytes == ReadAt(ring, fpos[c])
    IN  /\ ~badFile[c]
        /\ ThreadGoto(c, "reply", IF bytes = <<>> THEN "rewind" ELSE "send")
        /\ fpos' = [fpos EXCEPT ![c] = @ + Len(bytes)]
        /\ sent' = [sent EXCEPT ![c] = IF bytes = <<>> THEN @ ELSE Append(@, bytes)]
        /\ UNCHANGED <<mainVars, packet, lock, badFile, ring, ext, since, home, netVars>>

(* What ends a reply: nothing of it is left in the thread.                 *)
EndReply(c, from) ==
    /\ ThreadGoto(c, from, "recv")
    /\ sent' = [sent EXCEPT ![c] = <<>>] /\ ext' = [ext EXCEPT ![c] = 0]
    /\ packet' = [packet EXCEPT ![c] = NoPacket] /\ since' = [since EXCEPT ![c] = 0]
    /\ Unlocks(c)
    /\ UNCHANGED <<mainVars, badFile, ring, home>>

(* Fault: the thread keeps log_lock when read() fails.                     *)
ReplyReadFailsHolding(c) ==
    /\ badFile[c]
    /\ ThreadGoto(c, "reply", "recv")
    /\ UNCHANGED <<mainVars, packet, fileVars, netVars>>

(* read() fails: sendFileToSocket returns -1.                              *)
ReplyReadFails(c) ==
    /\ badFile[c]
    /\ EndReply(c, "reply")
    /\ UNCHANGED <<fpos, netVars>>

(* write() to the socket: it blocks while the network's buffer is full.    *)
ReplySend(c) ==
    /\ peer[c] = "open" /\ unread[c] < Window
    /\ ThreadGoto(c, "send", "reply")
    /\ unread' = [unread EXCEPT ![c] = @ + 1]
    /\ UNCHANGED <<mainVars, packet, fileVars, peer, inbox, lines>>

(* A write to a peer that has closed is answered by a reset, in time.      *)
ReplyLost(c) ==
    /\ peer[c] = "closed"
    /\ ThreadGoto(c, "send", "reply")
    /\ \E state \in {"closed", "broken"} : peer' = [peer EXCEPT ![c] = state]
    /\ UNCHANGED <<mainVars, packet, fileVars, inbox, unread, lines>>

(* ECONNRESET: sendFileToSocket returns -1 and leaves the position moved.  *)
ReplySendFails(c) ==
    /\ peer[c] = "reset"
    /\ EndReply(c, "send")
    /\ peer' = [peer EXCEPT ![c] = "broken"]
    /\ UNCHANGED <<fpos, inbox, unread, lines>>

(* EPIPE comes with SIGPIPE, whose default action ends the process.        *)
BrokenPipe(c) ==
    /\ Running /\ thr[c] = "send" /\ peer[c] = "broken"
    /\ main' = "killed"
    /\ UNCHANGED <<caught, sock, accepted, queue, thr, packet, fileVars, netVars>>

(* Fault: the file goes back to its start instead.                         *)
RewindToStart(c) ==
    /\ EndReply(c, "rewind")
    /\ fpos' = [fpos EXCEPT ![c] = 0]
    /\ UNCHANGED netVars

(* lseek() back to ExternalPosition.                                       *)
Rewind(c) ==
    LET back == SeekTo(ext[c], BufferLength(ring))
    IN  /\ EndReply(c, "rewind")
        /\ fpos' = IF back = EINVAL THEN fpos ELSE [fpos EXCEPT ![c] = back]
        /\ UNCHANGED netVars

-------------------------------------------------------------------------------
(* Fault: the handler sets the flag and leaves the socket alone.           *)
HandlerOnlySetsFlag ==
    /\ Running
    /\ caught' = TRUE
    /\ UNCHANGED <<sock, peer, accepted, queue, packet, fileVars, inbox, unread, lines>>

(***************************************************************************)
(* signal_handler, on SIGINT or SIGTERM, any number of times.  It runs on  *)
(* a thread of the kernel's choice.  shutdown() of a listening socket      *)
(* resets the connections in its backlog.  There is no SA_RESTART: if the  *)
(* thread was blocked in accept() or recv() that call fails with EINTR and *)
(* the main thread leaves its loop, or the connection's thread ends.  If   *)
(* it had not entered the call yet, the handler leaves no trace in it.     *)
(***************************************************************************)
HandlerRuns ==
    /\ Running
    /\ caught' = TRUE
    /\ sock' = IF sock = "listening" THEN "shut" ELSE sock
    /\ peer' = [c \in Client |->
                    IF sock = "listening" /\ thr[c] = "backlog" THEN "reset" ELSE peer[c]]
    /\ UNCHANGED <<accepted, queue, packet, fileVars, inbox, unread, lines>>

SignalOnMain ==
    /\ HandlerRuns
    /\ main' \in IF main = "accept" THEN {"accept", "join"} ELSE {main}
    /\ UNCHANGED thr

SignalOnThread(c) ==
    /\ HandlerRuns
    /\ thr[c] \notin {"none", "backlog", "accepted", "done"}
    /\ \/ UNCHANGED thr
       \/ inbox[c] = <<>> /\ ThreadGoto(c, "recv", "done")
    /\ UNCHANGED main

-------------------------------------------------------------------------------
(* The clients.                                                            *)
Connect(c) ==
    /\ sock = "listening" /\ peer[c] = "away"
    /\ peer' = [peer EXCEPT ![c] = "open"]
    /\ thr' = [thr EXCEPT ![c] = "backlog"]
    /\ UNCHANGED <<mainVars, packet, fileVars, inbox, unread, lines>>

(* What is sent on a connection that the server has closed goes nowhere.   *)
Send(c, p) ==
    /\ peer[c] = "open" /\ thr[c] # "done" /\ lines < MaxLines
    /\ inbox' = [inbox EXCEPT ![c] = Append(@, p)]
    /\ lines' = lines + 1
    /\ UNCHANGED <<mainVars, thr, packet, fileVars, peer, unread>>

ReadReply(c) ==
    /\ peer[c] = "open" /\ unread[c] > 0
    /\ unread' = [unread EXCEPT ![c] = @ - 1]
    /\ UNCHANGED <<mainVars, thr, packet, fileVars, peer, inbox, lines>>

(* Closing with unread data sends a reset instead of an end of file.       *)
Close(c) ==
    /\ peer[c] = "open"
    /\ peer' = [peer EXCEPT ![c] = IF unread[c] > 0 THEN "reset" ELSE "closed"]
    /\ unread' = [unread EXCEPT ![c] = 0]
    /\ UNCHANGED <<mainVars, thr, packet, fileVars, inbox, lines>>

-------------------------------------------------------------------------------
Main ==
    \/ Bind \/ Listen \/ TestInLoop \/ TestInWait \/ AcceptFails
    \/ \E c \in Client : Accept(c)
    \/ \E c \in Client, bad \in BOOLEAN : Spawn(c, bad)
    \/ SpawnFails \/ Join \/ Exit

Thread(c) ==
    \/ Receive(c) \/ ReceiveEnds(c)
    \/ LockCommand(c) \/ Write(c) \/ WriteFails(c) \/ DoSeek(c)
    \/ LockReply(c) \/ ReplyRead(c) \/ ReplyReadFails(c)
    \/ ReplySend(c) \/ ReplyLost(c) \/ ReplySendFails(c) \/ BrokenPipe(c) \/ Rewind(c)

Signal == SignalOnMain \/ \E c \in Client : SignalOnThread(c)

(* Errors that may come and that nothing makes come.                       *)
Failure == AcceptErrs \/ \E c \in Client : ReceiveNoMemory(c)

Network(c) ==
    /\ Running
    /\ \/ Connect(c) \/ ReadReply(c) \/ Close(c)
       \/ \E p \in Packet : Send(c, p)

Next == Main \/ Signal \/ Failure \/ \E c \in Client : Thread(c) \/ Network(c)

Spec == Init /\ [][Next]_vars

(***************************************************************************)
(* The main thread and the threads of connections keep being scheduled.    *)
(* Nothing makes clients send, read or leave, nor signals or errors come.  *)
(***************************************************************************)
FairSpec == Spec /\ WF_vars(Main) /\ \A c \in Client : WF_vars(Thread(c))

-------------------------------------------------------------------------------
ThrValues ==
    {"none", "backlog", "accepted", "recv", "lock", "command", "relock", "reply",
     "send", "rewind", "done"}

MainValues ==
    {"bind", "listen", "loop", "wait", "accept", "spawn", "join", "exited", "killed"}

(* Types of the state.                                                     *)
TypeOK ==
    /\ main \in MainValues
    /\ caught \in BOOLEAN
    /\ sock \in {"none", "bound", "listening", "shut"}
    /\ accepted \in Client \cup {NoOne}
    /\ queue \in Seq(Client)
    /\ thr \in [Client -> ThrValues]
    /\ packet \in [Client -> Packet]
    /\ lock \in Client \cup {NoOne}
    /\ badFile \in [Client -> BOOLEAN]
    /\ ring \in Ring
    /\ fpos \in [Client -> Nat] /\ ext \in [Client -> Nat]
    /\ sent \in [Client -> Seq(Seq(Byte))]
    /\ peer \in [Client -> {"away", "open", "closed", "reset", "broken"}]
    /\ inbox \in [Client -> Seq(Packet)]
    /\ unread \in [Client -> 0 .. Window]
    /\ lines \in 0 .. MaxLines
    /\ since \in [Client -> Nat] /\ home \in [Client -> Nat]

(***************************************************************************)
(* What a thread has read for a reply is the device's bytes from where the *)
(* reply began to where its file stands, and all of them to the end when   *)
(* the reply is complete: no other client's line comes in between, however *)
(* many reads and blocking writes the reply takes.                         *)
(***************************************************************************)
ReplyIsASnapshot ==
    \A c \in Client :
      LET flat == Bytes(ring)
      IN  thr[c] \in {"reply", "send", "rewind"} /\ ~badFile[c] =>
            /\ FlattenSeq(sent[c]) = SubSeq(flat, ext[c] + 1, fpos[c])
            /\ thr[c] = "rewind" => fpos[c] >= Len(flat)

(***************************************************************************)
(* A client whose file is at the start gets its own line back, although    *)
(* log_lock is released between the write and the reply, unless others     *)
(* stored N lines in between.                                              *)
(***************************************************************************)
OwnLineInReply ==
    \A c \in Client :
      thr[c] = "rewind" /\ packet[c].kind = "text" /\ ext[c] = 0 /\ since[c] < N
        => packet[c].line \in ToSet(sent[c])

(***************************************************************************)
(* Every reply to a client that still has its connection starts where that *)
(* client's last seek put the file, or at the start: however many replies  *)
(* and other clients' lines lie in between, each reply puts it back (line  *)
(* 251).  One that broke off does not (line 241), but then its peer is     *)
(* gone.                                                                   *)
(***************************************************************************)
RepliesStartAtLastSeek ==
    \A c \in Client :
      thr[c] \in {"reply", "send", "rewind"} /\ peer[c] # "broken" => ext[c] = home[c]

(***************************************************************************)
(* Every thread that runs is in the queue of threads to join, once, so     *)
(* that the process does not exit under a thread that serves a client and  *)
(* no thread_item is freed while its thread runs.                          *)
(***************************************************************************)
ThreadsAreJoined ==
    /\ IsInjective(queue)
    /\ \A c \in Client :
         thr[c] \in {"recv", "lock", "command", "relock", "reply", "send", "rewind"}
           => c \in ToSet(queue) /\ main # "exited"

(***************************************************************************)
(* How the server implements LineService.  A reply counts as given when    *)
(* its last read has found the end of the device, and not at all once its  *)
(* connection has broken (lines 235 to 242).                               *)
(***************************************************************************)
Phase ==
    [c \in Client |->
        CASE peer[c] = "broken" -> "gone"
          [] peer[c] # "broken" /\ thr[c] \in {"relock", "reply", "send"} -> "handled"
          [] peer[c] # "broken" /\ thr[c] = "rewind" -> "answered"
          [] OTHER -> "idle"]

Place == [c \in Client |-> IF peer[c] = "broken" THEN 0 ELSE home[c]]

Given == [c \in Client |-> IF Phase[c] = "answered" THEN FlattenSeq(sent[c]) ELSE <<>>]

Service == INSTANCE LineService
    WITH Line <- Text, log <- Contents(ring), place <- Place, phase <- Phase, answer <- Given

(***************************************************************************)
(* Replies are atomic and lines are stored one at a time, although a reply *)
(* is a series of reads and blocking writes, and log_lock is released and  *)
(* taken again between a line and its reply.                               *)
(***************************************************************************)
ImplementsLineService == Service!Spec

(***************************************************************************)
(* No wakeup is lost: wherever the main thread is when the signal arrives, *)
(* and whichever thread the handler runs on, the main thread stops taking  *)
(* connections, even if no client ever connects again.                     *)
(***************************************************************************)
SignalEndsAccepting == caught ~> main \in {"join", "exited", "killed"}

(* Each client in time closes its connection, or never had one.            *)
ClientsLeave == \A c \in Client : <>[](peer[c] # "open")

(***************************************************************************)
(* The server exits after a signal once its clients are gone.  It does not *)
(* before: pthread_join waits for threads that wait in recv().             *)
(***************************************************************************)
ExitsWhenClientsLeave == ClientsLeave => (caught ~> ~Running)

(* Clients with a connection keep reading what the server sends.           *)
ClientsRead == \A c \in Client : []<>(unread[c] < Window)

(***************************************************************************)
(* No thread waits for ever on log_lock or in a reply while every client   *)
(* reads.  One client that does not read stops all the others, for its     *)
(* thread holds log_lock in write(): hence the premise.                    *)
(***************************************************************************)
CommandsAreAnswered ==
    ClientsRead =>
      \A c \in Client :
        thr[c] \in {"lock", "relock"} ~> thr[c] \in {"recv", "done"} \/ ~Running
===============================================================================
