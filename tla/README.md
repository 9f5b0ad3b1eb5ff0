# TLA+ models of the aesdchar driver and the aesdsocket server

This directory holds a specification of the program of this repository: a Linux
character device that keeps the last ten newline-terminated commands written to
it (`aesd-char-driver/`), and a socket server that stores the lines its clients
send in that device and sends its contents back (`server/`). The modules are
translated from the C source; a definition's comment names the function it
stands for, and `PROJECT.json` ("map") names the lines.

## 1. The system

| part | state | operations |
|---|---|---|
| circular buffer, `aesd-circular-buffer.{h,c}` | an array of 10 entries {buffptr, size}, `in_offs`, `out_offs`, `full` | init, `add_entry` (replaces the oldest when full and returns its string), `find_entry_offset_for_fpos` |
| driver, `main.c` | one ring, one unfinished command `tempEntry`, one semaphore; per open file a position | open, release, read, write, llseek, ioctl `AESDCHAR_IOCSEEKTO` |
| driver load and unload, `main.c` | the device's allocations, its number region | `aesd_init_module`, `aesd_cleanup_module` |
| server, char device build, `aesdsocket.c` | `caught_exit_signal`, `socket_fd`, `log_lock`, the queue of threads; per connection a thread, a socket, an open device file and a receive buffer | accept loop, thread per connection, signal handler, join and exit |
| server, log file build (`USE_AESD_CHAR_DEVICE=0`) | the same with a regular file and a POSIX timer | the same and a timestamp every 10 s |
| exercises (`examples/`), `finder-app/writer.c` | a child and its descriptors; threads, their data and a mutex; a file | fork/exec/wait, a thread that takes a mutex, a write loop |

How they interact. Threads of the server make system calls on `/dev/aesdchar`;
each call runs in the driver on behalf of its caller, and callers meet at the
semaphore `aesd_dev_lock`. The server adds a lock of its own, `log_lock`, around
each command and around each reply. Clients meet the server over sockets.
Signals arrive at any time on any thread of the server.

What is hard in it:

- The driver does some of its work outside the semaphore: `aesd_ioctl` reads
  `out_offs` before `down()`, `aesd_llseek` uses the length it measured after
  `up()`, and `aesd_ioctl` calls `aesd_llseek`, which takes the semaphore anew.
- Two indices and a flag tell an empty ring from a full one; the loops over the
  ring have bounds that wrap.
- Writers of unfinished commands share one `tempEntry`, and allocations and
  copies fail under the semaphore.
- File positions count bytes from the oldest stored command, which moves.
- The server's reply is many reads and many writes to a socket that may block,
  break, or kill the process with SIGPIPE, all under `log_lock`.
- Between the write of a line and the reply to it, `log_lock` is free.
- Strings move from the unfinished command into the ring and out of it again, are
  moved by krealloc, and are freed on other paths than they are allocated on.
- In the log file build three kinds of descriptors write to one file, not all of
  them with O_APPEND; timer threads outlive the timer and the descriptor.
- The exit signal races with `accept()`, interrupts `recv()`, and must wake a
  main thread it may not run on; then every connection's thread is joined.

What makes each part correct:

- ring: no entry is lost or handed back early, the last N are kept, and the
  search by position agrees with the concatenation of the entries;
- driver: every `down()` is paired with one `up()`; stored entries are whole
  commands; the length of the device is what can be read; reads return the bytes
  at the position up to the next newline; a seek goes to the command asked for;
  calls return; and as a whole the driver is a log of the N last commands;
- server: a reply is a consistent snapshot and holds the client's own line; the
  file stays where the client's seek put it; no thread is lost; a signal ends
  accepting; the process exits once its clients have gone; commands are answered;
- load and unload: no pointer dangles, and what is left allocated is known;
- log file: what the file and replies hold, although timestamps overwrite it;
- exercises: results mean what they say, a redirected command finds the file,
  thread data outlives its thread, the string gets written.

`PROJECT.json` ("hazards") lists each place where one of these could fail.

## 2. Modules

| module | what it is |
|---|---|
| `CircularBuffer` | the ring as operators on a record; constants `N`, `Byte` |
| `CircularBufferUse` | the ring under any series of `add_entry`, with histories of what went in and came back |
| `AesdCharOps` | the computations inside the driver's file operations, on a ring |
| `AesdChar` | the driver under concurrent callers, one action per step between two points where another process can run |
| `CommandLog` | the abstract specification of the driver: a log of N commands and an unfinished one |
| `AesdServer` | the server (char device build) with its clients, network and signals |
| `LineService` | the abstract specification of the server: a log of N lines, and requests that are handled and answered |
| `DriverLifecycle` | the driver's memory: load with its error paths, writes, unload |
| `AesdLogFile` | the server built for a log file, with its receive buffers and its timer |
| `SystemCalls`, `Threading`, `Writer` | the exercises and `writer.c` |
| `MCDriver` | instances for TLC of the ring and of the driver |
| `MCAesdChar` | instances in which a seek misses its command |
| `MCAesdServer`, `MCAesdLogFile` | instances of the two builds of the server |
| `MCUnits` | instances of what shares no state with the rest: the driver's memory, the exercises, and the driver's liveness |
| `RingLemmas`, `AesdCharLemmas` | lemmas about the operators |
| `CircularBufferTheorems`, `AesdCharTheorems`, `AesdServerTheorems`, `AesdLogFileTheorems`, `DriverLifecycleTheorems`, `ExercisesTheorems` | the theorems, one module for each component; the last for the three exercises |

`CircularBuffer` is extended by `CircularBufferUse` and `AesdCharOps`; the
latter is extended by `AesdChar` (steps, with other processes in between) and by
`AesdServer` (whole system calls). `AesdChar` instantiates `CommandLog`,
`AesdServer` instantiates `LineService`, and `DriverLifecycle` instantiates `CircularBuffer` with blocks of memory in the place
of bytes. Each behaviour of `MCDriver` and of `MCUnits` is one of the instances they
hold (`part`, `unit`); they are checked together and do not interact.

Some operators and actions have a variant just above them under a comment
`Fault:`. It is what the definition would be with a plausible bug; no
specification uses it. Replacing the definition by it must make TLC find the
property named in `PROJECT.json` ("mutants") violated, which shows that the
property depends on that line of code.

### Circular buffer

An entry is the sequence of its bytes; the zeroed entry is `<<>>`. `AddEntry`
is the whole of `aesd_circular_buffer_add_entry`. The search loop is a
recursive function (`RunningSum`, the sizes added slot by slot) and the least
slot at which the loop returns (`Returns`). `Contents` and `Bytes` say what a
ring means, and `RingInv` what shape it has; these are not in the code.

### Driver

Variables: `ring`, `temp` (`tempEntry`), `sem` (the semaphore's count), `fpos`
(position of each process's open file), `pc`, `buf` (bytes a write will add or a
read has copied), `arg` (arguments and locals of llseek and ioctl). A process
has the device open at most once and is in at most one call.

| code | actions |
|---|---|
| `aesd_open`, `aesd_release` | `Open`, `Release` |
| `aesd_read` | `ReadCall`, `Down`, `ReadCopy` or `ReadFault`, `Up` |
| `aesd_write` | `WriteCall`, `Down`, `WriteAppend` or `WriteNoMemory`, `WriteCommit` when the bytes end in a newline, `Up` |
| `aesd_llseek` | `LlseekCall`, `Down`, `LlseekMeasure`, `Up`, `LlseekSeek` |
| `aesd_ioctl` | `IoctlCall` (first read of `out_offs`), `IoctlEnd` (second read), `Down`, `IoctlSum`, `Up`, then the steps of llseek |

Decisions:

- Failures before `down()` (kmalloc, copy_from_user, an unknown ioctl, a
  `write_cmd` of N or more) return without touching the device: no step.
- `kmalloc(0)` returns `ZERO_SIZE_PTR`, which is not NULL, so the error path of
  lines 175-178 cannot be taken and `WriteCommit` does not fail.
- `fixed_size_llseek` is the kernel's (external): SET, CUR and END with a result
  in 0..size, EINVAL otherwise, and CUR by 0 returns the position unchecked.
- The VFS writes the position back after a read; write leaves it.
- Entries are values: what is allocated and freed when is `DriverLifecycle`. The count passed to read is not
  modelled: the code does not use it.

### Server

Variables of the main thread: `main`, `caught`, `sock`, `accepted`, `queue`; of
the connections: `thr`, `packet`, `badFile`, `fpos`, `ext` (`ExternalPosition`),
`sent` (what the reply has read so far); shared: `lock` (`log_lock`), `ring`; of
clients and network: `peer`, `inbox`, `unread`, `lines`; history: `since`, `home`.

| code | actions |
|---|---|
| `socketLogger`, `bindPortToSocket`, `waitForConnection` | `Bind`, `Listen`, `TestInLoop`, `TestInWait`, `Accept`, `AcceptFails`, `AcceptErrs`, `Spawn`, `SpawnFails`, `Join`, `Exit` |
| `receivePackets`, `client_handler` | `Receive`, `ReceiveEnds`, `ReceiveNoMemory`, `LockCommand`, `Write`, `WriteFails`, `DoSeek` |
| `sendFileToSocket` | `LockReply`, `ReplyRead`, `ReplyReadFails`, `ReplySend`, `ReplySendFails`, `BrokenPipe`, `Rewind` |
| `signal_handler` | `SignalOnMain`, `SignalOnThread` |
| clients and network (external) | `Connect`, `Send`, `ReadReply`, `Close`, `ReplyLost` |

Decisions:

- A system call on the device is one step: threads make them under `log_lock`
  only, and the server is taken to be the device's only user. What happens inside
  a call is `AesdChar`'s subject.
- Lines arrive whole; `AesdLogFile` has them byte by byte. A line has one newline, its last byte, so the write loop
  takes one write; what is left of an unfinished line when the connection ends is
  dropped, as in the code (lines 326-340 are commented out). A line sent after the
  server has closed the connection goes nowhere and is no step.
- A packet is a text, a well-formed seek request or a malformed one
  (`sscanf` does not return 2), which is neither stored nor a seek but is replied to.
- `accept()`, `open()` of the device, `malloc`, `realloc` and `pthread_create`, and the
  write may fail at any time. `bind()`, `listen()`, `getaddrinfo()` failures end the process at
  once and are no steps.
- The network holds up to `Window` writes that a client has not read; a write
  beyond that blocks. A client that closes with data unread sends a reset, else an
  end of file; writing after the end of file is answered by a reset in time, the
  write after that raises SIGPIPE, and no handler is installed for it.
- `signal_handler` runs on a thread of the kernel's choice. The thread may be in
  a blocking call, which then fails with EINTR (no SA_RESTART), or just before it.
  `shutdown()` of the listening socket makes `accept()` fail from then on.
- The process's remaining connections end with it; that is not a step.

### Driver memory

Variables: `heap` (allocated blocks), `regions` (registered device numbers),
`module` (how far loading has come), `dev` (the pointers of `aesd_device` and of its
`tempEntry`), `ring` (an entry is its one block), `file` and `temp` (each process and
its `temp_buffer`); bounds `loads`, `writes`; history `noMemory`.

| code | actions |
|---|---|
| `aesd_init_module`, `aesd_setup_cdev` | `LoadRegion`, `LoadAllocates`, `LoadFails`, `AddCdev`, `AddCdevFails` |
| `aesd_cleanup_module` | `Unload` |
| `aesd_open`, `aesd_release` | `Open`, `Release` |
| `aesd_write` | `WriteCopies` or `WriteFaults`, then `WriteNoMemory`, `WriteAppends` or `WriteCommits` |

Decisions:

- `LoadFails` frees what the label of the failed allocation and the labels below it
  free (`Unwound`); they lie behind `unregister_chrdev_region`. The string of
  `tempEntry` is `kmalloc(0)`, which does not fail and has no block.
- The part of a write under the semaphore is one step: outside it others only
  allocate their `temp_buffer`. A write of 0 bytes allocates nothing and is no step.
- krealloc leaves the string in its block, moves it to a fresh one and frees the
  old one, or fails; an empty string gets a fresh block.
- `kmalloc` takes the lowest free block. The code cannot tell blocks apart, and a
  block freed too early is in use again at the next allocation.
- An open file keeps the module loaded (`cdev.owner`, `aesd_fops.owner`).

### Server with a log file

Variables of the process: `main`, `status`, `caught`, `armed` (the timer),
`timerFile` and `stampPos` (timer_log_fd and its position), `handlers` (runs of
`timestamp_handler` on their way to the lock), `lock`, `file`; of a connection:
`conn`, `line` (the received part of the buffer), `size`, `stored` (the last place of the
buffer that something of the packet was stored to), `left`, `pos`, `ext`; of the
clients: `gone`, `got`; histories: `log` (the file as if nothing were overwritten),
`late`, `fault`.

| code | actions |
|---|---|
| `socketLogger` | `Accept`, `StopAccepting`, `TimerDelete`, `JoinAndClose`, `RemoveFile` |
| `createTimer`, `timestamp_handler` | `TimerExpires`, `Timestamp`, `TimestampFails` |
| `receivePackets` | `Receive`, `ReallocFails`, `ReceiveEnds`, `SeekRefused`, `LockLine`, `Write`, `WriteFails` |
| `sendFileToSocket` | `LockReply`, `ReplyRead`, `Rewind` |
| `signal_handler` | `Signal` |

Decisions:

- A cell of the file is one byte of a client, with its client, or a timestamp. That a
  timestamp is some forty bytes long only makes it overwrite more.
- A client's descriptor is opened with O_APPEND: a write goes to the end and moves
  the position there. The timer's is not, and writes at its own position from 0 on.
- A seek request is a line that begins with one special byte, well-formed or not. Its
  ioctl, made under the lock, fails on a regular file whatever its arguments: the line
  is answered and not stored.
- A thread that gets no buffer (line 262) ends at once: `Accept` has that outcome too.
- The zero behind a line (line 288) is a store like that of a byte, and `stored` counts
  it. When it falls behind the buffer the model goes on: the buffer's size is a multiple
  of 16, the allocator's block is larger by the slack of its header, and the byte that is
  overwritten there belongs to no other object of the program.
- A write takes any number of bytes, or fails at any time (a full disk); so does the
  timestamp's. `timer_delete` stops expirations, not handlers.
- The accept loop and the network are `AesdServer`'s: here the main thread accepts or
  leaves in one step, and clients take replies.

### Exercises

`SystemCalls` is one call: the caller, its child, and two descriptor tables. The
caller may have closed any of its standard descriptors. Actions are `DoSystem`,
`Fork`, `ForkFails`, `ChildOpens`, `ChildDups` (dup2 and close), `ChildFails` (any of
the child's calls, then `exit(-1)`), `Exec`, `Wait`, `WaitFails`, and the end of the
command (`CommandExits`, `ChildKilled`). `Threading` has `Start`, `StartFails`, the
thread's steps `Slept`, `Obtain`, `ReleaseMutex`, `Complete`, and a starter who may
take the mutex, joins and frees. `Writer` has `Unlink`, `Creat`, and a write of any
part of what the program takes to be left, from the start of the string each time.
The string may repeat characters: after a short write the file may still be right, and
`StringIsWrittenUnlessShort` says when.

## 3. Runs

| run | instance | states | what it shows |
|---|---|---|---|
| `driver` | N = 3; ring: 3 entry lengths, 7 calls; pieces: 2 processes, writes of `a`, `\n`+`a`, lseek END -1; seeks: 2 processes, whole commands of 1 and 2 bytes, ioctl to the second command at offset 1 | 849 664 (symmetry) | the ring: conservation, the last N, search against concatenation; the driver: the semaphore protocol, what is stored, what is read, undisturbed seeks, the refinement |
| `ioctl_last_command` | 1 process, N = 3 | stops at the violation | finding 1 |
| `ioctl_race` | 2 processes, N = 3, no seek to the last command | stops at the violation | finding 2 |
| `server` | 2 clients, N = 2, texts of 1 and 2 bytes, a seek, a malformed request, 3 lines in all, `Window` = 1 | 3.5 million (symmetry) | the safety properties |
| `server_shutdown` | 2 clients, N = 2, one text, 2 lines in all | 176 881 | the liveness properties, the refinement of `LineService` |
| `log_file` | 2 clients, 3 bytes (`a`, newline, seek), 3 timestamps, buffers of 1 byte, reads of 2 | 869 228 | the file, the replies, the buffer, the end of the process |
| `log_file_append` | the same | stops at the violation | finding 3 |
| `log_file_entire` | the same | stops at the violation | finding 4 |
| `log_file_zero` | the same | stops at the violation | finding 5 |
| `units` | memory: 2 processes, N = 2, 14 blocks, 3 loads, 5 writes; calls: 2 processes, N = 2, one-byte commands, seeks by ioctl and by lseek CUR -1 and END -1; exit statuses 0, 1, 255; all sets of open standard descriptors; 3 threads; strings of up to 4 of 2 characters | 61 560 | memory and regions over load, use and unload; `CallsReturn`; results, redirection, thread data, the written string |
| `system_result` | the same | stops at the violation | finding 6 |
| `redirect` | the same | stops at the violation | findings 7 and 8 |

The bounds, and why they are enough:

- `N` is 10 in the code. The ring's cases are empty, partly full, full, and full
  with the input pointer at each slot including the wrap; three slots have all of
  them. Where the server is composed with the ring two are enough for replies of
  several reads and for lines that are evicted. The theorems hold for every `N`.
- `MaxAdds` = 7 wraps a ring of three twice. `AesdChar` has no such bound: the
  ring's contents are all that is kept, so its runs cover any number of writes.
- `MaxEntry` bounds an unfinished command; a longer one is a failed krealloc,
  which the code can meet at any size.
- Two processes meet every pair of steps; a third would only wait at the
  semaphore or change the ring a second time. The proofs hold for any number.
- The two parts of `driver` that call the driver differ in the calls made. `pieces` has
  everything but ioctl; `seeks` has ioctl, and writes of whole commands only, since a
  seek does not look at the unfinished command. One instance with all calls has more
  states than the two apart and no other steps; what a read finds at a position does not
  depend on which call led to it, and `pieces` reads at every position, beyond the end
  included. The theorems have all calls together.
- `CmdOffset` = 1 exists in some commands and is beyond others, as the code
  allows.
- `MaxLines` bounds what clients send: with three lines one client can evict
  another's line and interleave a seek. `Window` = 1 makes a reply of two
  entries block at the second one.
- `server_shutdown` has two lines of one text on a device for two: no line is evicted,
  and a reply is whole or not by its length. What eviction in the middle of a reply
  would do is the subject of `server` (`ReplyIsASnapshot`); the refinement is a theorem
  for every `N`, text and number of lines.

- `units`, memory: five writes on a ring of two overwrite entries in every slot and leave
  two writers inside at once; 14 blocks are enough for all that can be allocated, so
  the bound on memory is never what makes an allocation fail. Three loads let a
  failed load and an unload be followed by another load.
- `log_file`: `BufferSize` = 1 makes a line of three bytes grow its buffer twice and
  be full at each length; three bytes are a line in two writes beside another
  client's, or a text and then a seek request; three timestamps overwrite a whole
  file. `ReadSize` = 2 makes replies of one and two reads.
  Three bytes and a buffer of one are also enough for a line that fills its buffer.
- `units`, calls: one-byte commands and two slots, since liveness depends on who holds the
  semaphore and not on what is stored.
- `units`, the exercises, is every path: `LastFd` = 3 is the descriptor open() returns when
  no standard one is closed, and a string of four splits into every series of writes. Two
  characters make strings that repeat themselves and strings that do not.

Deadlock is checked in `driver` (its ring rests, by a step of its own, after `MaxAdds`
calls). In `units` the memory stops after its loads and the exercises when they are done,
and the server stops by design, when it has exited.

Symmetry permutes processes or clients, which no definition tells apart; it is
used in safety runs only.

### Fairness

- Driver: weak fairness of each process's steps (the kernel keeps scheduling a
  process that is in a system call), and strong fairness of `Down`. The latter is
  the kernel's semaphore: `up()` hands the semaphore to the first of its waiters
  (`kernel/locking/semaphore.c`), so a waiter is not passed over for ever. No
  fairness is assumed of calls.
- Server: weak fairness of the main thread and of each connection's thread. None
  is assumed of clients, signals or the network, so where a property needs clients
  to leave or to read, that is its premise: `ClientsLeave` in
  `ExitsWhenClientsLeave`, `ClientsRead` in `CommandsAreAnswered`. Without these
  premises both are false of the code (`pthread_join` of a thread in `recv()`, line
  171; `write()` under `log_lock`, line 238), and the hazards say so. A pthread
  mutex promises no order among its waiters. With at most `MaxLines` lines a
  thread cannot be passed over without end, so `CommandsAreAnswered` shows that
  no path keeps the lock and that there is no deadlock; it does not show freedom
  from starvation by a client that sends for ever.
- Log file build: weak fairness of the main thread, of each connection's thread and
  of the handlers that run; not of clients, signals or the timer. The lock is asked
  for finitely often within the bounds, as above. `EndsAfterSignal` has the premise
  `ClientsLeave`.
- Threading: weak fairness of each thread, of the joins, and of the starter giving the
  mutex back if it takes it.

## 4. Findings

1. **The last command cannot be sought** (`main.c:250`). The loop of
   `aesd_ioctl` runs until `(endIndex + 1) % N`. For `write_cmd` = N - 1 that is
   `startIndex`: the body never runs, and the seek goes to position 0.
   `SeekReachesTheCommand` states what `aesd_ioctl.h` says of the two fields, and
   one process on its own violates it.
2. **The seek is not atomic** (`main.c:244-248`). `out_offs` is read before the
   semaphore is taken. A command stored in between makes the count that of no
   command of the ring, before or after.

3. **Timestamps overwrite what clients stored** (`aesdsocket.c:124`, log file build).
   The timer's descriptor has no O_APPEND and starts at 0, so each timestamp is
   written over the start of the file, against "Appends data received" (line 69).
   `TimestampsOverwriteTheStart` says exactly what the file holds.

4. **A reply is not the entire file** (`aesdsocket.c:222`, log file build). The comment
   above `sendFileToSocket` says that it "writes the entire file to the socket" (line
   214), but the seek to the start is commented out, and O_APPEND has moved the position
   behind the line just written: the client that stores the first line gets nothing
   back. `EntireFileIsSent` states the comment, and `RepliesOmitOwnLines` what a reply
   does hold: only what others have stored since.
5. **The terminating zero overflows the buffer by one** (`aesdsocket.c:288`). The room is
   checked for the byte received, not for the zero behind a newline, so a line of exactly
   the buffer's size has its zero stored behind it, against "resizing if needed" (line
   271). `StoredInBounds` states the latter; `OnlyTheZeroIsOutside` says that this is the
   only store outside, and how far it is.
6. **`do_system` is true for commands that fail** (`systemcalls.c:25`). "False if [...] a
   non-zero return value was returned by the command" (lines 10 to 13) is
   `SystemTrueMeansSuccess`; the code looks only for -1, which says that no child could be
   made or waited for. The comment in the function's body (lines 18 to 22) asks for no more.
7. **`do_exec_redirect` is true for commands that fail** (`systemcalls.c:186`). It is to be
   "same as do_exec()" (line 143), but compares WEXITSTATUS, 0 to 255, with -1. What holds
   is in `ResultsTellThisMuch`.
8. **`do_exec_redirect` can lose the output** (`systemcalls.c:166`). If its caller has
   closed descriptor 1 and not 0, the file is opened as 1 and closed again, against
   "redirect standard out to a file" (line 142). What holds is in `CommandFindsTheFile`.
   `TrueMeansSuccessOrFile` states that of 7 and 8 at least one is not so, and one command
   refutes it: it exits with 1 without its output in the file, and the result is true.

Other places where the code does not do what one may expect, in the models as they are:

- `do_exec_redirect` ends its caller when fork fails (line 153; `ForkFails`);
- `writer.c` repeats the start of the string after a short write and exits with 0
  after an error (`StringIsWrittenUnlessShort`); for a string like `aa` the repetition
  may happen to be right;
- the waits of `threading.c`, named in milliseconds, are passed to `usleep`, which
  takes microseconds (lines 26 and 32); time is not modelled.

`SeekIsExactWhenUndisturbed` checks the rest of the same loop: with `write_cmd`
below N - 1 and no command stored in the window, the seek is exact. An offset
beyond the command's size is added as it is (line 253) and is refused only when
it leads beyond the device.

## 5. Proofs

All proofs are checked by TLAPS to the last leaf. Every invariant that the passing
runs check is a theorem, for every value of the constants; so are the action
property `ReadsUpToTheNewline` and the refinements of `CommandLog` and
`LineService`. Nothing is assumed but the named assumptions on the constants, which
TLC evaluates in the runs:

- `N` is a positive natural number; `NL` is a byte; chunks are sequences of bytes;
  entries added to the ring in `CircularBufferUse` are non-empty; seek arguments are
  natural numbers or, for lseek, integers; bounds are natural numbers;
- blocks of memory are positive numbers (0 is NULL); exit statuses are bytes;
- values that mark the absence of something are not members of the set they are
  used beside (`NoOne` of clients, `Starter` and `Nobody` of threads), and a timestamp
  is not a client's byte (`StampAssumption`).

No set of processes, clients, threads or blocks is assumed to be finite.

Each theorem module has an inductive invariant `Inv` made of named parts, one
lemma that the initial states satisfy it and one for each action that it is
preserved; a theorem is then what one or more of its parts imply.

*Ring* (`CircularBufferTheorems`): `TypeCorrect`, `NothingLost` (`Conservation`),
`LastNKept` (`KeepsTheLastN`) and `FindsTheByte` (`FindAgreesWithConcatenation`), for a
ring of any size and any number of calls. `Conservation` alone is not inductive: that
the entry in the slot to be overwritten is the oldest one follows only from the ring's
shape. The invariant adds `RingInv` (a full ring has `in_offs = out_offs`; before that
`out_offs` is 0 and the slots from `in_offs` on are zero) and that nothing is handed back
before the ring is full. The central lemma is `ContentsAfterAdd` (`RingLemmas`): adding
an entry appends it to the contents, after dropping the oldest from a full ring;
its arithmetic is that of indices modulo N for a variable N. `FindsTheByte` needs no
more of the invariant than the shape: `SumsArePositions` says that the running sum of
the loop is the position at which an entry starts in the concatenation, and
`FindIsSearch` that the first slot at which the loop returns is the one that has the
byte, although the loop's stop condition is on slots that wrap.

*Driver* (`AesdCharTheorems`): `TypeCorrect`, `MutualExclusion` (`OneInside`),
`CommandsStayWhole` (`StoredAreCommands`), `LengthIsExact` (`LengthIsWhatCanBeRead`),
`UndisturbedSeekIsExact` (`SeekIsExactWhenUndisturbed`), `ReadsAreExact`
(`ReadsUpToTheNewline`) and `Refinement` (`ImplementsCommandLog`), for any number of
processes, any buffers and any seeks. The invariant adds three things to these: the
ring's shape; `PiecesInHand`, that a writer on its way to the append holds what
`BytesToAdd` made of a chunk; and `CountInHand`, that a process at `summed` holds what
`SeekByteCount` made of the ring as it still is. That an append finds no newline in the
unfinished command is `StoredAreCommands` with `OneInside`: only a process at `commit`
leaves one there, and it keeps the semaphore. For the refinement a write takes effect at
its append, and a command that is about to be committed counts as stored; each append is
then a step of `CommandLog` and every other step a stutter. Type correctness is more than
it seems: that a file position stays a natural number needs `FoundInsideEntry`, that the
search never returns an offset outside its entry, and that sums of sizes are natural
numbers. The values of what is read, measured and counted are the lemmas of
`AesdCharLemmas` (`ReadAtValue`, `LengthOfAll`, `SeekByteCountValue`), from the positions
in `RingLemmas`.

*Server* (`AesdServerTheorems`): `TypeCorrect`, `RepliesAreSnapshots`
(`ReplyIsASnapshot`), `OwnLinesComeBack` (`OwnLineInReply`), `RepliesStartAtHome`
(`RepliesStartAtLastSeek`) and `RunningThreadsAreJoined` (`ThreadsAreJoined`), for any
number of clients, lines and connections. The argument starts from `LockNamesHolder`:
`log_lock` names the one thread in a command or a reply, so the ring stands still under
a reply. On it rest `RepliesReadSoFar`, that what a reply holds is the bytes from where
it began to where its file is (and, from the start, whole lines, as many as it made
reads), and `OwnLineStored`, that a line its client waits for is the `since`-th before
the newest, of which the runs' property mentions only the end. `FilesAtHome` follows
each file between replies as well as in them; an open() that failed is why it
distinguishes a bad file. `QueueNamesThreads` needs that the connection being accepted
is not queued yet, and `ConnectionsInOrder` that nothing breaks a connection before it
has a thread. The proofs of a reply's steps use the driver's lemmas on `ReadAt`.

`Refinement` (`ImplementsLineService`) rests on the same invariant. A text takes effect
at its write and a seek at its ioctl. A reply counts as given at the read that finds the
end of the device: what it holds is then the text of that moment (`RepliesAreWhole`, from
`RepliesReadSoFar`), and other clients' lines may come before that moment but not within
the reply. A client whose connection is broken gets no more answers, although the server
stores the lines it had sent. `PacketStepsAreRequests` is the one lemma with a case for
each action of a connection's thread; `OtherStepsLeaveReplies` says that no other step
shows, and `OneClientMoves` that a step of one client leaves the others' requests alone.

*Log file build* (`AesdLogFileTheorems`): `TypeCorrect`, `TimestampsAtTheStart`
(`TimestampsOverwriteTheStart`), `LinesWhole` (`LinesStayTogether`), `OwnLinesOmitted`
(`RepliesOmitOwnLines`), `ZeroIsOneOff` (`OnlyTheZeroIsOutside`) and `LateHandlersOnly`
(`FailsOnlyForLateHandlers`). `LinesStayTogether` is about two cells next to each other,
and not inductive without `LastLineIsHeld`: only the holder of the lock can have left
the last line without its end, because what a thread is about to store ends in a newline
(`LineEndInHand`). `OwnLinesBehind` is `RepliesOmitOwnLines` for threads that are not
replying; `TimerStopsFirst` orders `timer_delete`, the closing of the descriptor and the
end.

*Driver memory* (`DriverLifecycleTheorems`): `TypeCorrect`, `PointersAreSound`
(`NoDanglingPointers`), `CopiesAreWhatLeaks` (`OnlyCopiesLeak`) and `RegionsAreCounted`
(`RegionsLeftBehind`), for any ring, processes, loads, writes and memory. The run's
properties count pointers and blocks; the invariant says instead where each pointer
leads (`PointsToHeap`) and that no two lead to one block (`NoSharing`). `InStage` says
what loading has allocated when it is at each stage, that files and ring are empty
outside the time the module is loaded, and that a process has a `temp_buffer` exactly
while it writes. `LeaksCounted` is `OnlyCopiesLeak` with the finiteness of what it
counts, which holds because each step allocates at most a few blocks. That the string
which the ring hands back is the one to free, and no longer in it, is `RingInv` and
`AddEntryShape`, instantiated with blocks for bytes.

*Exercises* (`ExercisesTheorems`): `ThreadsKeepTheirData` (`DataOutlivesItsThread`) for
any number of threads; `ResultsAreRight` (`ResultsTellThisMuch`), `FileIsStandardOutput`
(`CommandFindsTheFile`) and `ChildrenDoNotReturn` (`OnlyTheCallerReturns`) for any exit
statuses and descriptors; `ShortWritesSpoilTheFile` (`StringIsWrittenUnlessShort`) for
strings of any length and any characters. For the last one the invariant says that a
short write leaves the file not empty, so that the next one puts the first character at a
second place (`Repeats`): however the writes are split, the result is not the string if
that has its first character at no other place (`StartsOnce`).

*Induction.* The library's induction theorems cannot be instantiated by the
provers at hand. `RingLemmas` instead proves from the well-foundedness of < that
a non-empty set of numbers has a smallest member (`SmallestNumber`), and
derives facts about running sums and about `Joined`, the concatenation of the first k
entries, by considering the least counterexample.

Only model-checked, and why:

- liveness (`CallsReturn`, `SignalEndsAccepting`, `ExitsWhenClientsLeave`,
  `CommandsAreAnswered`, `EndsAfterSignal`, `StartedThreadsAreJoined`): fairness is
  stated with ENABLED, which is out of the prover's reach;
- the properties that the code violates (section 4): `SeekReachesTheCommand`,
  `DataStaysInTheFile`, `EntireFileIsSent`, `StoredInBounds`, `SystemTrueMeansSuccess` and
  `TrueMeansSuccessOrFile` are refuted by the runs, and there is nothing to prove.

## 6. Not modelled

- The count of a read (`main.c:90`): the code ignores it, and nothing in the
  repository says what callers may expect.
- Crash and restart: nothing is persisted that is read again; the log file is
  truncated at the start (line 124).
- stdio buffers of the system call exercises (a child's `exit(-1)` writes its copy of
  what the caller had not flushed), and durations.
- `finder.sh`, the start, load and build scripts, continuous integration: straight-line
  shell with no state of the system's own. `autotest-validate`: constants.
- `aesd_print`, logging, option parsing, daemonizing.

## 7. Plan

Done: the ring, the driver and its refinement, the server in both builds and the
refinement of the first, the driver's memory, the exercises, and a theorem for each
invariant that a passing run checks. What is left:

1. Action properties of the server and of the log file build: which thread may change
   the device, the file and the lock, and that a position moves by its own thread's steps.
2. `AesdServer`'s whole system calls as an abstraction of `AesdChar`'s steps: that a
   call made by the only process inside takes the driver from one quiet state to
   another as the operator of `AesdCharOps` says.
