----------------------------- MODULE AesdLogFile -----------------------------
(***************************************************************************)
(* The socket server built for a regular file (server/aesdsocket.c with    *)
(* USE_AESD_CHAR_DEVICE 0): receiving byte by byte into a buffer that      *)
(* grows, the writes and replies on the shared log file, the timer that    *)
(* writes timestamps, and the end of the process.  Accepting connections,  *)
(* failing opens and the network are AesdServer's; here a connection is    *)
(* accepted in one step and a reply is always taken.                       *)
(*                                                                         *)
(* The file is a sequence of cells.  A client's descriptor is opened with  *)
(* O_APPEND: it writes at the end, which moves its position there.  The    *)
(* timer's is not: it writes at its own position.                          *)
(***************************************************************************)
EXTENDS Integers, Sequences, FiniteSetsExt, SequencesExt

CONSTANTS
    Client,     \* connections
    Byte,       \* what clients send
    NL,         \* the byte '\n'
    SeekByte,   \* a line that starts with it is a seek request
    Stamp,      \* the cell a timestamp is written in
    BufferSize, \* BUFFER_SIZE, the first size of a receive buffer
    ReadSize,   \* BUFFER_SIZE, what sendFileToSocket reads at once
    MaxBytes,   \* bound on the bytes the clients send, all together
    MaxTicks,   \* bound on the expirations of the timer
    NoOne       \* no thread holds log_lock

ASSUME ByteAssumption == NL \in Byte /\ SeekByte \in Byte \ {NL}
ASSUME SizeAssumption == BufferSize \in Nat \ {0} /\ ReadSize \in Nat \ {0}
ASSUME BoundsAssumption == MaxBytes \in Nat /\ MaxTicks \in Nat
ASSUME NoOneAssumption == NoOne \notin Client
ASSUME StampAssumption == Stamp \notin Client \X Byte

VARIABLES
    main,       \* where the main thread is
    status,     \* the exit status
    caught,     \* caught_exit_signal
    armed,      \* the timer runs
    timerFile,  \* timer_log_fd is open
    stampPos,   \* its position
    ticks,      \* how often the timer expired
    handlers,   \* runs of timestamp_handler on their way to log_lock
    conn,       \* where each connection's thread is
    gone,       \* clients that have closed their connection
    got,        \* bytes received so far
    line,       \* buffer[0..len-1]
    size,       \* buf_size
    stored,     \* the last place of the buffer a byte of this packet went to
    left,       \* the bytes of the line not written yet
    lock,       \* log_lock: its holder or NoOne
    file,       \* /var/tmp/aesdsocketdata
    pos,        \* the position of each connection's descriptor
    ext,        \* ExternalPosition of sendFileToSocket
    log,        \* history: the file as if nothing were ever overwritten
    late,       \* history: a handler was running when the timer was deleted
    fault       \* history: the file system failed

mainVars == <<main, status, caught, armed, timerFile, late>>
stampVars == <<stampPos, ticks, handlers>>
fileVars == <<lock, file, log, fault>>
connVars == <<conn, gone, got, line, size, stored, left, pos, ext>>
vars == <<mainVars, stampVars, fileVars, connVars>>

Init ==
    /\ main = "accept" /\ status = "none" /\ caught = FALSE
    /\ armed = TRUE /\ timerFile = TRUE /\ late = FALSE
    /\ stampPos = 0 /\ ticks = 0 /\ handlers = 0
    /\ lock = NoOne /\ file = <<>> /\ log = <<>> /\ fault = FALSE
    /\ conn = [c \in Client |-> "none"] /\ gone = [c \in Client |-> FALSE]
    /\ line = [c \in Client |-> <<>>] /\ stored = [c \in Client |-> 0]
    /\ got = 0 /\ size = [c \in Client |-> BufferSize] /\ left = [c \in Client |-> <<>>]
    /\ pos = [c \in Client |-> 0] /\ ext = [c \in Client |-> 0]

Running == main # "ended"

-------------------------------------------------------------------------------
(* The main thread.  A thread that gets no buffer ends at once (line 262). *)
Accept(c) ==
    /\ main = "accept" /\ conn[c] = "none"
    /\ \E to \in {"recv", "done"} : conn' = [conn EXCEPT ![c] = to]
    /\ UNCHANGED <<mainVars, stampVars, fileVars, gone, got, line, size, stored, left, pos, ext>>

StopAccepting ==
    /\ main = "accept" /\ caught
    /\ main' = "disarm"
    /\ UNCHANGED <<status, caught, armed, timerFile, late, stampVars, fileVars, connVars>>

(* Fault: the timer is left running.                                       *)
TimerDeleteMissing ==
    /\ main = "disarm" /\ main' = "join"
    /\ late' = (handlers > 0)
    /\ UNCHANGED <<status, caught, armed, timerFile, stampVars, fileVars, connVars>>

(* timer_delete: no more expirations, but handlers that run go on.         *)
TimerDelete ==
    /\ main = "disarm" /\ main' = "join"
    /\ armed' = FALSE
    /\ late' = (handlers > 0)
    /\ UNCHANGED <<status, caught, timerFile, stampVars, fileVars, connVars>>

(* All threads joined: close() of the socket and of timer_log_fd.          *)
JoinAndClose ==
    /\ main = "join" /\ main' = "remove"
    /\ \A c \in Client : conn[c] \in {"none", "done"}
    /\ timerFile' = FALSE
    /\ UNCHANGED <<status, caught, armed, late, stampVars, fileVars, connVars>>

Ends(with) ==
    /\ main' = "ended" /\ status' = with
    /\ UNCHANGED <<caught, armed, late, connVars>>

(* remove() of the file, which may fail.                                   *)
RemoveFile ==
    /\ main = "remove"
    /\ \/ Ends("success") /\ UNCHANGED fault
       \/ Ends("failure") /\ fault' = TRUE
    /\ UNCHANGED <<timerFile, stampVars, lock, file, log>>

-------------------------------------------------------------------------------
(* timestamp_handler, on a thread of its own at each expiration.           *)
TimerExpires ==
    /\ Running /\ armed /\ ticks < MaxTicks
    /\ ticks' = ticks + 1 /\ handlers' = handlers + 1
    /\ UNCHANGED <<mainVars, stampPos, fileVars, connVars>>

(* A cell written at a position of a file.                                 *)
Overlay(f, p, cell) == IF p < Len(f) THEN [f EXCEPT ![p + 1] = cell] ELSE Append(f, cell)

(* Under log_lock, one write through timer_log_fd.                         *)
Timestamp ==
    /\ Running /\ handlers > 0 /\ lock = NoOne
    /\ timerFile
    /\ file' = Overlay(file, stampPos, Stamp)
    /\ log' = IF stampPos < Len(file) THEN log ELSE Append(log, Stamp)
    /\ stampPos' = stampPos + 1
    /\ handlers' = handlers - 1
    /\ UNCHANGED <<mainVars, ticks, lock, fault, connVars>>

(* The write fails, on a closed descriptor surely: close, EXIT_FAILURE.    *)
TimestampFails ==
    /\ Running /\ handlers > 0 /\ lock = NoOne
    /\ Ends("failure")
    /\ fault' = (fault \/ timerFile)
    /\ timerFile' = FALSE
    /\ UNCHANGED <<stampVars, lock, file, log>>

-------------------------------------------------------------------------------
(* A connection's thread: receivePackets.                                  *)
ThreadGoto(c, from, to) ==
    /\ Running
    /\ conn[c] = from
    /\ conn' = [conn EXCEPT ![c] = to]

(* Fault: the buffer grows one byte too late.                              *)
RoomLate(c) == IF Len(line[c]) > size[c] THEN 2 * size[c] ELSE size[c]

(* The size of the buffer when the next byte is stored (realloc).          *)
Room(c) == IF Len(line[c]) >= size[c] THEN 2 * size[c] ELSE size[c]

(* A newline ends a packet.  A seek request is well-formed or it is not.   *)
After(packet, b) ==
    IF b # NL THEN {"recv"} ELSE IF packet[1] = SeekByte THEN {"seek", "relock"} ELSE {"lock"}

(* recv of one byte, which is stored behind the others; behind a newline a *)
(* zero is stored too, without a look at the size (line 288).              *)
Receive(c, b) ==
    LET packet == Append(line[c], b)
    IN  /\ ~gone[c] /\ got < MaxBytes
        /\ \E to \in After(packet, b) : ThreadGoto(c, "recv", to)
        /\ got' = got + 1
        /\ size' = [size EXCEPT ![c] = Room(c)]
        /\ line' = [line EXCEPT ![c] = packet]
        /\ stored' = [stored EXCEPT ![c] = Len(packet) + (IF b = NL THEN 1 ELSE 0)]
        /\ left' = [left EXCEPT ![c] = IF conn'[c] = "lock" THEN packet ELSE <<>>]
        /\ UNCHANGED <<mainVars, stampVars, fileVars, gone, pos, ext>>

(* free of the buffer, close of both descriptors.                          *)
ThreadEnds(c) ==
    /\ ThreadGoto(c, "recv", "done")
    /\ line' = [line EXCEPT ![c] = <<>>] /\ size' = [size EXCEPT ![c] = BufferSize]
    /\ stored' = [stored EXCEPT ![c] = 0]
    /\ pos' = [pos EXCEPT ![c] = 0] /\ ext' = [ext EXCEPT ![c] = 0]

(* realloc fails: the buffer is freed and the connection ends.             *)
ReallocFails(c) ==
    /\ ~gone[c] /\ got < MaxBytes /\ Room(c) # size[c]
    /\ ThreadEnds(c)
    /\ UNCHANGED <<mainVars, stampVars, fileVars, gone, got, left>>

ReceiveEnds(c) ==
    /\ gone[c]
    /\ ThreadEnds(c)
    /\ UNCHANGED <<mainVars, stampVars, fileVars, gone, got, left>>

(* The ioctl of a seek request, which a regular file refuses (ENOTTY).     *)
SeekRefused(c) ==
    /\ lock = NoOne
    /\ ThreadGoto(c, "seek", "relock")
    /\ UNCHANGED <<mainVars, stampVars, fileVars, gone, got, line, size, stored, left, pos, ext>>

LockLine(c) ==
    /\ lock = NoOne /\ lock' = c
    /\ ThreadGoto(c, "lock", "write")
    /\ UNCHANGED <<mainVars, stampVars, file, log, fault, gone, got, line, size, stored, left, pos, ext>>

Cells(c, n) == [i \in 1 .. n |-> <<c, left[c][i]>>]

(* Fault: log_lock is released after each write of the loop.               *)
WriteUnlocking(c, n) ==
    /\ ThreadGoto(c, "write", IF n = Len(left[c]) THEN "relock" ELSE "lock")
    /\ lock' = NoOne
    /\ file' = file \o Cells(c, n) /\ log' = log \o Cells(c, n)
    /\ pos' = [pos EXCEPT ![c] = Len(file')]
    /\ left' = [left EXCEPT ![c] = SubSeq(@, n + 1, Len(@))]
    /\ UNCHANGED <<mainVars, stampVars, fault, gone, got, line, size, stored, ext>>

(* Fault: the file is opened without O_APPEND.                             *)
WriteAtPosition(c, n) ==
    /\ ThreadGoto(c, "write", IF n = Len(left[c]) THEN "relock" ELSE "write")
    /\ lock' = IF n = Len(left[c]) THEN NoOne ELSE c
    /\ file' = [i \in 1 .. Max({Len(file), pos[c] + n}) |->
                   IF i \in pos[c] + 1 .. pos[c] + n THEN Cells(c, n)[i - pos[c]] ELSE file[i]]
    /\ log' = log \o Cells(c, n)
    /\ pos' = [pos EXCEPT ![c] = @ + n]
    /\ left' = [left EXCEPT ![c] = SubSeq(@, n + 1, Len(@))]
    /\ UNCHANGED <<mainVars, stampVars, fault, gone, got, line, size, stored, ext>>

(* One write of the loop takes n bytes; after the last log_lock is free.   *)
Write(c, n) ==
    /\ ThreadGoto(c, "write", IF n = Len(left[c]) THEN "relock" ELSE "write")
    /\ lock' = IF n = Len(left[c]) THEN NoOne ELSE c
    /\ file' = file \o Cells(c, n) /\ log' = log \o Cells(c, n)
    /\ pos' = [pos EXCEPT ![c] = Len(file')]
    /\ left' = [left EXCEPT ![c] = SubSeq(@, n + 1, Len(@))]
    /\ UNCHANGED <<mainVars, stampVars, fault, gone, got, line, size, stored, ext>>

(* Fault: the thread leaves the loop with log_lock.                        *)
WriteFailsHolding(c) ==
    /\ ThreadGoto(c, "write", "relock")
    /\ left' = [left EXCEPT ![c] = <<>>] /\ fault' = TRUE
    /\ UNCHANGED <<mainVars, stampVars, lock, file, log, gone, got, line, size, stored, pos, ext>>

(* write() fails: the loop breaks and the rest of the line is dropped.     *)
WriteFails(c) ==
    /\ ThreadGoto(c, "write", "relock")
    /\ lock' = NoOne
    /\ left' = [left EXCEPT ![c] = <<>>] /\ fault' = TRUE
    /\ UNCHANGED <<mainVars, stampVars, file, log, gone, got, line, size, stored, pos, ext>>

LockReply(c) ==
    /\ lock = NoOne /\ lock' = c
    /\ ThreadGoto(c, "relock", "reply")
    /\ ext' = [ext EXCEPT ![c] = pos[c]]
    /\ UNCHANGED <<mainVars, stampVars, file, log, fault, gone, got, line, size, stored, left, pos>>

(* Fault: the position moves by the size of the buffer, not by the bytes.  *)
ReplyReadWhole(c) ==
    /\ pos[c] < Len(file)
    /\ ThreadGoto(c, "reply", "reply")
    /\ pos' = [pos EXCEPT ![c] = @ + ReadSize]
    /\ UNCHANGED <<mainVars, stampVars, fileVars, gone, got, line, size, stored, left, ext>>

(* One read of the loop, and the bytes are sent.                           *)
ReplyRead(c) ==
    /\ pos[c] < Len(file)
    /\ ThreadGoto(c, "reply", "reply")
    /\ pos' = [pos EXCEPT ![c] = Min({@ + ReadSize, Len(file)})]
    /\ UNCHANGED <<mainVars, stampVars, fileVars, gone, got, line, size, stored, left, ext>>

(* Fault: the file goes back to its start instead.                         *)
RewindToStart(c) ==
    /\ pos[c] = Len(file)
    /\ ThreadGoto(c, "reply", "recv")
    /\ lock' = NoOne
    /\ pos' = [pos EXCEPT ![c] = 0]
    /\ line' = [line EXCEPT ![c] = <<>>] /\ stored' = [stored EXCEPT ![c] = 0]
    /\ ext' = [ext EXCEPT ![c] = 0]
    /\ UNCHANGED <<mainVars, stampVars, file, log, fault, gone, got, size, left>>

(* End of file: lseek back, and the buffer is empty.                       *)
Rewind(c) ==
    /\ pos[c] = Len(file)
    /\ ThreadGoto(c, "reply", "recv")
    /\ lock' = NoOne
    /\ pos' = [pos EXCEPT ![c] = ext[c]]
    /\ line' = [line EXCEPT ![c] = <<>>] /\ stored' = [stored EXCEPT ![c] = 0]
    /\ ext' = [ext EXCEPT ![c] = 0]
    /\ UNCHANGED <<mainVars, stampVars, file, log, fault, gone, got, size, left>>

-------------------------------------------------------------------------------
(* signal_handler, which may interrupt one thread's recv (no SA_RESTART).  *)
Signal ==
    /\ Running
    /\ caught' = TRUE
    /\ \/ UNCHANGED <<conn, line, size, stored, pos, ext>>
       \/ \E c \in Client : ThreadEnds(c)
    /\ UNCHANGED <<main, status, armed, timerFile, late, stampVars, fileVars, gone, got, left>>

Close(c) ==
    /\ Running /\ conn[c] # "none" /\ ~gone[c]
    /\ gone' = [gone EXCEPT ![c] = TRUE]
    /\ UNCHANGED <<mainVars, stampVars, fileVars, conn, got, line, size, stored, left, pos, ext>>

-------------------------------------------------------------------------------
Main == StopAccepting \/ TimerDelete \/ JoinAndClose \/ RemoveFile

Thread(c) ==
    \/ ReceiveEnds(c) \/ SeekRefused(c) \/ LockLine(c)
    \/ \E n \in 1 .. Len(left[c]) : Write(c, n)
    \/ WriteFails(c) \/ LockReply(c) \/ ReplyRead(c) \/ Rewind(c)

Notification == Timestamp \/ TimestampFails

Environment ==
    \/ Signal \/ TimerExpires
    \/ \E c \in Client :
         \/ Accept(c) \/ Close(c) \/ ReallocFails(c)
         \/ \E b \in Byte : Receive(c, b)

Next ==
    \/ Main \/ Notification \/ Environment
    \/ \E c \in Client : Thread(c)

Spec == Init /\ [][Next]_vars

(***************************************************************************)
(* Every thread that can run does in time.  Clients need not send or       *)
(* leave, and signals need not come.                                       *)
(***************************************************************************)
FairSpec ==
    /\ Spec /\ WF_vars(Main) /\ WF_vars(Notification)
    /\ \A c \in Client : WF_vars(Thread(c))

-------------------------------------------------------------------------------
Cell == {Stamp} \cup (Client \X Byte)

(* Types of the state; no position is beyond the end of the file.          *)
TypeOK ==
    /\ main \in {"accept", "disarm", "join", "remove", "ended"}
    /\ status \in {"none", "success", "failure"}
    /\ caught \in BOOLEAN /\ armed \in BOOLEAN /\ timerFile \in BOOLEAN
    /\ late \in BOOLEAN /\ fault \in BOOLEAN
    /\ ticks \in 0 .. MaxTicks /\ handlers \in 0 .. ticks
    /\ conn \in [Client -> {"none", "recv", "seek", "lock", "write", "relock", "reply", "done"}]
    /\ gone \in [Client -> BOOLEAN] /\ got \in 0 .. MaxBytes
    /\ line \in [Client -> Seq(Byte)] /\ left \in [Client -> Seq(Byte)]
    /\ size \in [Client -> Nat] /\ stored \in [Client -> Nat]
    /\ lock \in Client \cup {NoOne}
    /\ file \in Seq(Cell) /\ log \in Seq(Cell)
    /\ stampPos \in 0 .. Len(file)
    /\ pos \in [Client -> 0 .. Len(file)] /\ ext \in [Client -> 0 .. Len(file)]

(***************************************************************************)
(* What the program says of itself (line 69): received data is appended to *)
(* the file.  It does not stay there: the timer's descriptor, opened       *)
(* without O_APPEND (line 124), writes over it.                            *)
(***************************************************************************)
DataStaysInTheFile == file = log

(***************************************************************************)
(* What holds instead: the file begins with all timestamps ever written,   *)
(* one behind the other, over whatever clients had appended there; behind  *)
(* them every byte is where a client put it.                               *)
(***************************************************************************)
TimestampsOverwriteTheStart ==
    /\ Len(file) = Len(log)
    /\ \A i \in 1 .. Len(file) : file[i] = IF i <= stampPos THEN Stamp ELSE log[i]

(***************************************************************************)
(* A line that is stored by several short writes is not mixed with another *)
(* client's line or a timestamp, for log_lock is held over the loop (305). *)
(***************************************************************************)
LinesStayTogether ==
    ~fault => \A i \in 1 .. Len(log) - 1 :
                log[i] # Stamp /\ log[i][2] # NL => log[i + 1] # Stamp /\ log[i + 1][1] = log[i][1]

(***************************************************************************)
(* The position a reply starts from is behind every line of its client:    *)
(* O_APPEND moved it there (line 307), the lseek to the start is commented *)
(* out (222) and the reply puts it back (251).  So no client is ever sent  *)
(* what it stored; on the char device, whose write leaves the position     *)
(* alone, it is (AesdServer, OwnLineInReply).                              *)
(***************************************************************************)
RepliesOmitOwnLines ==
    \A c \in Client : conn[c] = "reply" =>
      \A i \in ext[c] + 1 .. pos[c] : log[i] # Stamp => log[i][1] # c

(***************************************************************************)
(* "writes the entire file to the socket" (line 214): a reply that has     *)
(* come to the end of the file has sent as many bytes as the file has.     *)
(***************************************************************************)
EntireFileIsSent ==
    \A c \in Client :
      conn[c] = "reply" /\ pos[c] = Len(file) => pos[c] - ext[c] = Len(file)

(***************************************************************************)
(* "Append to buffer, resizing if needed" (line 271): what is stored in a  *)
(* receive buffer, the zero that ends the string (line 288) included, is   *)
(* stored inside it.                                                       *)
(***************************************************************************)
StoredInBounds == \A c \in Client : stored[c] <= size[c]

(***************************************************************************)
(* What holds instead, however lines of any lengths follow each other in   *)
(* one buffer: the one store outside it is that of the zero behind a line  *)
(* that fills the buffer to its last place, and it is one place off.       *)
(***************************************************************************)
OnlyTheZeroIsOutside ==
    \A c \in Client :
      stored[c] > size[c] =>
        /\ stored[c] = size[c] + 1
        /\ Len(line[c]) = size[c] /\ line[c][size[c]] = NL

(***************************************************************************)
(* While the file system does not fail, only a handler that was running    *)
(* when the timer was deleted can end the server with EXIT_FAILURE: it     *)
(* overtakes no join, finds timer_log_fd closed, and exits (line 492).     *)
(***************************************************************************)
FailsOnlyForLateHandlers == status = "failure" /\ ~fault => late

(* Each client in time closes its connection, or never had one.            *)
ClientsLeave == \A c \in Client : <>[](gone[c] \/ conn[c] = "none")

(***************************************************************************)
(* After a signal the server ends, once its clients are gone, whatever the *)
(* timer and the file system do: no path of a thread or of the handler     *)
(* leaves log_lock taken.                                                  *)
(***************************************************************************)
EndsAfterSignal == ClientsLeave => (caught ~> ~Running)
===============================================================================
