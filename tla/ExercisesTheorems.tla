-------------------------- MODULE ExercisesTheorems --------------------------
(***************************************************************************)
(* Theorems about the exercises: for any number of threads on the mutex,   *)
(* for any command and descriptors, and for strings of any length.         *)
(***************************************************************************)
EXTENDS SystemCalls, Threading, Writer, SequenceTheorems, TLAPS

-------------------------------------------------------------------------------
(* Threading: no more than its property and the types is needed.           *)
ThreadingInv ==
    /\ thread \in [Thread -> {"none", "not started", "sleep", "lock", "hold", "released",
                              "returned", "joined"}]
    /\ data \in [Thread -> {"none", "allocated", "freed"}]
    /\ success \in [Thread -> BOOLEAN]
    /\ DataOutlivesItsThread

LEMMA ThreadingStep == ThreadingInv /\ [ThreadingNext]_threadingVars => ThreadingInv'
<1> SUFFICES ASSUME ThreadingInv, [ThreadingNext]_threadingVars PROVE ThreadingInv' OBVIOUS
<1> USE ThreadAssumption DEF ThreadingInv, DataOutlivesItsThread, ThreadGoes
<1>1. ASSUME NEW t \in Thread, Start(t) PROVE ThreadingInv' BY <1>1 DEF Start
<1>2. ASSUME NEW t \in Thread, StartFails(t) PROVE ThreadingInv' BY <1>2 DEF StartFails
<1>3. ASSUME NEW t \in Thread, Slept(t) PROVE ThreadingInv' BY <1>3 DEF Slept
<1>4. ASSUME NEW t \in Thread, Obtain(t) PROVE ThreadingInv' BY <1>4 DEF Obtain
<1>5. ASSUME NEW t \in Thread, ReleaseMutex(t) PROVE ThreadingInv' BY <1>5 DEF ReleaseMutex
<1>6. ASSUME NEW t \in Thread, Complete(t) PROVE ThreadingInv' BY <1>6 DEF Complete
<1>7. ASSUME NEW t \in Thread, JoinAndFree(t) PROVE ThreadingInv' BY <1>7 DEF JoinAndFree
<1>8. CASE StarterTakes BY <1>8 DEF StarterTakes
<1>9. CASE StarterReleases BY <1>9 DEF StarterReleases
<1>10. CASE UNCHANGED threadingVars BY <1>10 DEF threadingVars
<1> QED BY <1>1, <1>2, <1>3, <1>4, <1>5, <1>6, <1>7, <1>8, <1>9, <1>10
        DEF ThreadingNext, RunThread

(***************************************************************************)
(* A thread's data is there for as long as it runs, and it reports success *)
(* exactly when it has given the mutex back.                               *)
(***************************************************************************)
THEOREM ThreadsKeepTheirData ==
    ThreadingInit /\ [][ThreadingNext]_threadingVars => []DataOutlivesItsThread
<1>1. ThreadingInit => ThreadingInv
  BY ThreadAssumption DEF ThreadingInit, ThreadingInv, DataOutlivesItsThread
<1>2. ThreadingInv => DataOutlivesItsThread BY DEF ThreadingInv
<1> QED BY <1>1, <1>2, ThreadingStep, PTL

-------------------------------------------------------------------------------
(* A child that has not run its command was killed or ended with exit(-1). *)
ChildStatus ==
    /\ child = "zombie" => status \in {Killed} \cup {ExitedWith(c) : c \in 0 .. 255}
    /\ child = "zombie" /\ ~executed => status \in {Killed, ExitedWith(255)}
    /\ child = "command" => executed

(* The caller, its child and the result at each stage of a call.           *)
CallsInOrder ==
    /\ caller \in {"ready", "wait", "returned", "exited"}
    /\ child \in {"none", "open", "dup", "exec", "command", "zombie", "reaped"}
    /\ caller \in {"ready", "exited"} => child = "none"
    /\ caller = "ready" => call = "none" /\ ~executed /\ ~waitFailed
    /\ caller = "wait" => /\ call \in {"exec", "redirect"} /\ ~waitFailed
                          /\ child \notin {"none", "reaped"}
    /\ caller = "returned" /\ call \in {"exec", "redirect"} /\ child # "reaped" => result = FALSE

(* The descriptors of the caller, and of its child on the way to execv.    *)
ChildFiles ==
    /\ \E open \in SUBSET {0, 1, 2} :
         callerFds = [f \in Fd |-> IF f \in open THEN "inherited" ELSE Closed]
    /\ child \in {"none", "open"} /\ caller # "returned" => childFds = callerFds
    /\ child = "open" => childFds = callerFds
    /\ child = "dup" =>
         /\ fd \in Fd /\ callerFds[fd] = Closed
         /\ \A f \in Fd : callerFds[f] = Closed => fd <= f
         /\ childFds = [callerFds EXCEPT ![fd] = "file"]
    /\ call = "redirect" /\ child \in {"exec", "command"} =>
         childFds = [callerFds EXCEPT ![1] =
                       IF callerFds[0] # Closed /\ callerFds[1] = Closed THEN Closed ELSE "file"]

SystemInv ==
    /\ ChildStatus /\ CallsInOrder /\ ChildFiles
    /\ ResultsTellThisMuch /\ OnlyTheCallerReturns

LEMMA SystemInitial == SystemInit => SystemInv
BY DEF SystemInit, SystemInv, ChildStatus, CallsInOrder, ChildFiles, ResultsTellThisMuch,
       OnlyTheCallerReturns

LEMMA StepCalls ==
    ASSUME SystemInv, [SystemNext]_systemVars
    PROVE  ChildStatus' /\ CallsInOrder' /\ OnlyTheCallerReturns'
<1> USE DEF SystemInv, ChildStatus, CallsInOrder, OnlyTheCallerReturns, Returns
<1>1. CASE DoSystem BY <1>1 DEF DoSystem
<1>2. ASSUME NEW function \in {"exec", "redirect"}, Fork(function)
      PROVE  ChildStatus' /\ CallsInOrder' /\ OnlyTheCallerReturns'
  BY <1>2 DEF Fork
<1>3. ASSUME NEW function \in {"exec", "redirect"}, ForkFails(function)
      PROVE  ChildStatus' /\ CallsInOrder' /\ OnlyTheCallerReturns'
  BY <1>3 DEF ForkFails
<1>4. CASE ChildOpens BY <1>4 DEF ChildOpens
<1>5. CASE ChildDups BY <1>5 DEF ChildDups
<1>6. CASE ChildFails BY <1>6 DEF ChildFails
<1>7. CASE Exec BY <1>7 DEF Exec
<1>8. CASE CommandExits BY <1>8, ExitStatusAssumption DEF CommandExits
<1>9. CASE ChildKilled BY <1>9 DEF ChildKilled
<1>10. CASE Wait BY <1>10 DEF Wait
<1>11. CASE WaitFails BY <1>11 DEF WaitFails
<1>12. CASE UNCHANGED systemVars BY <1>12 DEF systemVars
<1> QED BY <1>1, <1>2, <1>3, <1>4, <1>5, <1>6, <1>7, <1>8, <1>9, <1>10, <1>11, <1>12
        DEF SystemNext

LEMMA StepResults ==
    ASSUME SystemInv, [SystemNext]_systemVars
    PROVE  ResultsTellThisMuch'
<1> USE DEF SystemInv, CallsInOrder, ResultsTellThisMuch, Returns
<1>1. CASE DoSystem BY <1>1 DEF DoSystem
<1>2. ASSUME NEW function \in {"exec", "redirect"}, Fork(function) \/ ForkFails(function)
      PROVE  ResultsTellThisMuch'
  BY <1>2 DEF Fork, ForkFails
<1>3. CASE ChildOpens \/ ChildDups \/ ChildFails \/ Exec \/ CommandExits \/ ChildKilled
  BY <1>3 DEF ChildOpens, ChildDups, ChildFails, Exec, CommandExits, ChildKilled, Success
<1>4. CASE Wait
  <2>1. /\ call \in {"exec", "redirect"} /\ call' = call /\ child = "zombie" /\ child' = "reaped"
        /\ result' = Reported /\ UNCHANGED <<status, executed>>
    BY <1>4 DEF Wait
  <2>2. /\ status \in {Killed} \cup {ExitedWith(c) : c \in 0 .. 255}
        /\ ~executed => status \in {Killed, ExitedWith(255)}
    BY <2>1 DEF ChildStatus
  <2>3. status.code \in 0 .. 255 BY <2>2 DEF Killed, ExitedWith
  <2>4. CASE call = "redirect"
    <3>1. Reported BY <2>3, <2>4 DEF Reported
    <3> QED BY <2>1, <2>4, <3>1
  <2>5. CASE call = "exec"
    <3>1. status.exited /\ status.code = 0 <=> status = ExitedWith(0)
      BY <2>2 DEF Killed, ExitedWith
    <3>2. status = ExitedWith(0) => executed BY <2>2 DEF Killed, ExitedWith
    <3>3. Reported = Success BY <2>5, <3>1, <3>2 DEF Reported, Success
    <3> QED BY <2>1, <2>5, <3>3 DEF Success
  <2> QED BY <2>1, <2>4, <2>5
<1>5. CASE WaitFails BY <1>5 DEF WaitFails
<1>6. CASE UNCHANGED systemVars BY <1>6 DEF systemVars, Success
<1> QED BY <1>1, <1>2, <1>3, <1>4, <1>5, <1>6 DEF SystemNext

(* open() finds a descriptor, since 3 at least is free.                    *)
LEMMA LowestFree ==
    ASSUME ChildFiles, NEW low, low = Min({f \in Fd : callerFds[f] = Closed})
    PROVE  /\ low \in Fd /\ callerFds[low] = Closed
           /\ \A f \in Fd : callerFds[f] = Closed => low <= f
<1> DEFINE Free == {f \in Fd : callerFds[f] = Closed}
<1>1. PICK open \in SUBSET {0, 1, 2} :
        callerFds = [f \in Fd |-> IF f \in open THEN "inherited" ELSE Closed]
  BY DEF ChildFiles
<1>2. 0 \in Fd /\ 1 \in Fd /\ 2 \in Fd /\ 3 \in Fd /\ Fd \subseteq Nat
  BY LastFdAssumption DEF Fd
<1>3. 3 \in Free BY <1>1, <1>2
<1>4. \E m \in Free : \A f \in Free : m <= f
  <2>1. \A f \in Free : f = 0 \/ f = 1 \/ f = 2 \/ f >= 3 BY <1>2
  <2>2. CASE 0 \in Free BY <1>2, <2>2
  <2>3. CASE 0 \notin Free /\ 1 \in Free BY <1>2, <2>1, <2>3
  <2>4. CASE 0 \notin Free /\ 1 \notin Free /\ 2 \in Free BY <1>2, <2>1, <2>4
  <2>5. CASE 0 \notin Free /\ 1 \notin Free /\ 2 \notin Free BY <1>2, <1>3, <2>1, <2>5
  <2> QED BY <2>2, <2>3, <2>4, <2>5
<1> HIDE DEF Free
<1>5. Min(Free) \in Free /\ \A f \in Free : Min(Free) <= f BY <1>4 DEF Min
<1> QED BY <1>5 DEF Free

(* dup2 and close, whichever descriptor open() returned.                   *)
LEMMA DupLeavesTheFile ==
    ASSUME ChildFiles, child = "dup"
    PROVE  [childFds EXCEPT ![1] = childFds[fd], ![fd] = Closed]
             = [callerFds EXCEPT ![1] =
                  IF callerFds[0] # Closed /\ callerFds[1] = Closed THEN Closed ELSE "file"]
<1> DEFINE after == [childFds EXCEPT ![1] = childFds[fd], ![fd] = Closed]
           last == IF callerFds[0] # Closed /\ callerFds[1] = Closed THEN Closed ELSE "file"
<1>1. /\ fd \in Fd /\ callerFds[fd] = Closed
      /\ \A f \in Fd : callerFds[f] = Closed => fd <= f
      /\ childFds = [callerFds EXCEPT ![fd] = "file"]
      /\ DOMAIN callerFds = Fd /\ callerFds = [f \in Fd |-> callerFds[f]]
  BY DEF ChildFiles
<1>2. 0 \in Fd /\ 1 \in Fd /\ \A f \in Fd : f \in Nat BY LastFdAssumption DEF Fd
<1>3. \A f \in Fd : after[f] = IF f = fd THEN Closed ELSE IF f = 1 THEN "file" ELSE callerFds[f]
  BY <1>1, <1>2
<1>4. last = IF fd = 1 THEN Closed ELSE "file"
  <2>1. CASE fd = 0 BY <1>1, <1>2, <2>1
  <2>2. CASE fd = 1 BY <1>1, <1>2, <2>2
  <2>3. CASE fd # 0 /\ fd # 1
    <3>1. fd > 1 BY <1>1, <1>2, <2>3
    <3> QED BY <1>1, <1>2, <3>1
  <2> QED BY <2>1, <2>2, <2>3
<1> HIDE DEF last
<1>5. \A f \in Fd : after[f] = [callerFds EXCEPT ![1] = last][f] BY <1>1, <1>2, <1>3, <1>4
<1>6. after = [callerFds EXCEPT ![1] = last] BY <1>1, <1>5
<1> QED BY <1>6 DEF last

LEMMA StepChildFiles ==
    ASSUME SystemInv, [SystemNext]_systemVars
    PROVE  ChildFiles'
<1> USE DEF SystemInv, CallsInOrder, ChildFiles, Returns
<1>1. CASE DoSystem BY <1>1 DEF DoSystem
<1>2. ASSUME NEW function \in {"exec", "redirect"}, Fork(function) PROVE ChildFiles'
  BY <1>2 DEF Fork
<1>3. ASSUME NEW function \in {"exec", "redirect"}, ForkFails(function) PROVE ChildFiles'
  BY <1>3 DEF ForkFails
<1>4. CASE ChildOpens
  <2>1. /\ child = "open" /\ child' = "dup" /\ fd' = Min({f \in Fd : childFds[f] = Closed})
        /\ childFds' = [childFds EXCEPT ![fd'] = "file"] /\ UNCHANGED <<call, caller, callerFds>>
    BY <1>4 DEF ChildOpens
  <2>2. childFds = callerFds BY <2>1
  <2>3. /\ fd' \in Fd /\ callerFds[fd'] = Closed
        /\ \A f \in Fd : callerFds[f] = Closed => fd' <= f
    BY <2>1, <2>2, LowestFree
  <2> QED BY <2>1, <2>2, <2>3
<1>5. CASE ChildDups
  <2>1. /\ child = "dup" /\ child' = "exec" /\ UNCHANGED <<call, caller, callerFds>>
        /\ childFds' = [childFds EXCEPT ![1] = childFds[fd], ![fd] = Closed]
    BY <1>5 DEF ChildDups
  <2>2. childFds' = [callerFds EXCEPT ![1] =
                       IF callerFds[0] # Closed /\ callerFds[1] = Closed THEN Closed ELSE "file"]
    BY <2>1, DupLeavesTheFile
  <2> QED BY <2>1, <2>2
<1>6. CASE ChildFails \/ Exec \/ CommandExits \/ ChildKilled
  BY <1>6 DEF ChildFails, Exec, CommandExits, ChildKilled
<1>7. CASE Wait \/ WaitFails BY <1>7 DEF Wait, WaitFails
<1>8. CASE UNCHANGED systemVars BY <1>8 DEF systemVars
<1> QED BY <1>1, <1>2, <1>3, <1>4, <1>5, <1>6, <1>7, <1>8 DEF SystemNext

LEMMA SystemInvariance == SystemInit /\ [][SystemNext]_systemVars => []SystemInv
<1>1. SystemInv /\ [SystemNext]_systemVars => SystemInv'
  BY StepCalls, StepResults, StepChildFiles DEF SystemInv
<1> QED BY <1>1, SystemInitial, PTL

(***************************************************************************)
(* do_exec is true exactly when the command ran and exited with 0,         *)
(* do_exec_redirect exactly when its child was waited for.                 *)
(***************************************************************************)
THEOREM ResultsAreRight ==
    SystemInit /\ [][SystemNext]_systemVars => []ResultsTellThisMuch
<1>1. SystemInv => ResultsTellThisMuch BY DEF SystemInv
<1> QED BY <1>1, SystemInvariance, PTL

(***************************************************************************)
(* The command writes to the file, whichever of its standard descriptors   *)
(* the caller had closed, except when that was 1 and not 0.                *)
(***************************************************************************)
THEOREM FileIsStandardOutput ==
    SystemInit /\ [][SystemNext]_systemVars => []CommandFindsTheFile
<1>1. SystemInv => CommandFindsTheFile BY DEF SystemInv, ChildFiles, CommandFindsTheFile
<1> QED BY <1>1, SystemInvariance, PTL

(* A child never comes back from the call, nor is left unless waitpid fails. *)
THEOREM ChildrenDoNotReturn ==
    SystemInit /\ [][SystemNext]_systemVars => []OnlyTheCallerReturns
<1>1. SystemInv => OnlyTheCallerReturns BY DEF SystemInv
<1> QED BY <1>1, SystemInvariance, PTL

-------------------------------------------------------------------------------
(***************************************************************************)
(* Writer.  A short write is followed by another one, whose first          *)
(* character is that of the string at a place that is not the first.       *)
(***************************************************************************)
Repeats == \E i \in 2 .. Len(contents) : contents[i] = stringToWrite[1]

WriterInv ==
    /\ writer \in {"unlink", "creat", "write", "exit 0", "exit 1"}
    /\ shortWrites \in BOOLEAN /\ writeError \in BOOLEAN
    /\ \E n \in 1 .. MaxLength : stringToWrite \in [1 .. n -> Char]
    /\ contents \in Seq(Char)
    /\ writer \in {"unlink", "creat"} => ~shortWrites /\ ~writeError
    /\ writer = "write" => ~writeError
    /\ writer = "write" \/ (writer = "exit 0" /\ ~writeError) =>
         /\ length \in Nat /\ Len(contents) + length = Len(stringToWrite)
         /\ ~shortWrites => (IF length = 0 THEN contents = stringToWrite ELSE contents = <<>>)
         /\ shortWrites => contents # <<>> /\ (length = 0 => Repeats)
    /\ writer = "exit 0" /\ ~writeError => length = 0

(* The string is not empty, and it is a sequence of characters.            *)
LEMMA StringIsSequence ==
    ASSUME WriterInv
    PROVE  /\ stringToWrite \in Seq(Char)
           /\ Len(stringToWrite) \in Nat /\ Len(stringToWrite) >= 1
<1>1. PICK n \in 1 .. MaxLength : stringToWrite \in [1 .. n -> Char] BY DEF WriterInv
<1>2. n \in Nat /\ n >= 1 BY MaxLengthAssumption
<1> QED BY <1>1, <1>2

LEMMA WriteStringKeepsInv ==
    ASSUME WriterInv, NEW ret \in 1 .. length, WriteString(ret)
    PROVE  WriterInv'
<1> DEFINE s == stringToWrite
           n == Len(s)
           piece == SubSeq(s, 1, ret)
<1>1. /\ s \in Seq(Char) /\ n \in Nat /\ n >= 1
      /\ \E m \in 1 .. MaxLength : s \in [1 .. m -> Char]
  BY StringIsSequence DEF WriterInv
<1>2. /\ writer = "write" /\ length \in Nat /\ length # 0 /\ contents \in Seq(Char)
      /\ Len(contents) + length = n
      /\ ~shortWrites => contents = <<>>
      /\ shortWrites => contents # <<>>
      /\ shortWrites \in BOOLEAN /\ ~writeError
  BY DEF WriterInv, WriteString
<1>3. /\ contents' = contents \o piece /\ length' = length - ret
      /\ shortWrites' = (shortWrites \/ ret < length)
      /\ s' = s /\ UNCHANGED <<writer, writeError>>
  BY DEF WriteString
<1>4. \E m \in 1 .. MaxLength : s' \in [1 .. m -> Char] BY <1>1, <1>3
<1> HIDE DEF s
<1>5. ret \in Nat /\ 1 <= ret /\ ret <= length /\ ret <= n /\ Len(contents) \in Nat
  BY <1>1, <1>2
<1>6. piece \in Seq(Char) /\ Len(piece) = ret /\ \A i \in 1 .. ret : piece[i] = s[i]
  BY <1>1, <1>5, SubSeqProperties
<1> HIDE DEF piece, n
<1>7. /\ contents' \in Seq(Char) /\ Len(contents') = Len(contents) + ret
      /\ contents'[Len(contents) + 1] = s[1]
  <2>1. /\ contents' \in Seq(Char) /\ Len(contents') = Len(contents) + Len(piece)
        /\ \A i \in 1 .. Len(contents) + Len(piece) :
             contents'[i] = IF i <= Len(contents) THEN contents[i] ELSE piece[i - Len(contents)]
    <3>1. contents \in Seq(Char) /\ piece \in Seq(Char) /\ contents' = contents \o piece
      BY <1>2, <1>3, <1>6
    <3> QED BY <3>1, ConcatProperties
  <2> DEFINE j == Len(contents) + 1
  <2>2. /\ j \in 1 .. Len(contents) + Len(piece) /\ ~(j <= Len(contents))
        /\ j - Len(contents) = 1 /\ 1 \in 1 .. ret
    BY <1>5, <1>6
  <2> HIDE DEF j
  <2>3. contents'[j] = s[1] BY <1>6, <2>1, <2>2
  <2> QED BY <1>6, <2>1, <2>3 DEF j
<1>8. length' \in Nat /\ Len(contents') + length' = n
  <2>1. /\ length \in Nat /\ ret \in Nat /\ ret <= length /\ Len(contents) \in Nat
        /\ Len(contents) + length = n /\ length' = length - ret
        /\ Len(contents') = Len(contents) + ret
    BY <1>2, <1>3, <1>5, <1>7
  <2> QED BY <2>1
<1>9. ASSUME shortWrites' \in BOOLEAN,
             ~shortWrites' => (IF length' = 0 THEN contents' = s' ELSE contents' = <<>>),
             shortWrites' => contents' # <<>> /\ (length' = 0 => Repeats')
      PROVE  WriterInv'
  <2>1. Len(contents') + length' = Len(stringToWrite') BY <1>3, <1>8 DEF n, s
  <2> QED BY <1>2, <1>3, <1>4, <1>7, <1>8, <1>9, <2>1 DEF WriterInv, s
<1>10. CASE shortWrites
  <2>1. shortWrites' BY <1>3, <1>10
  <2>2. Len(contents) >= 1 BY <1>2, <1>5, <1>10
  <2>3. contents' # <<>> BY <1>5, <1>7
  <2> DEFINE j == Len(contents) + 1
  <2>4. j \in 2 .. Len(contents') /\ contents'[j] = s'[1] BY <1>3, <1>5, <1>7, <2>2
  <2>5. Repeats' BY <2>4 DEF Repeats, s
  <2> QED BY <1>9, <2>1, <2>3, <2>5
<1>11. CASE ~shortWrites
  <2>1. contents = <<>> /\ Len(contents) = 0 /\ length = n BY <1>1, <1>2, <1>5, <1>11
  <2>2. contents' = piece BY <1>3, <1>6, <2>1
  <2>3. CASE ret < length
    <3>1. shortWrites' BY <1>3, <2>3
    <3>2. length' # 0 BY <1>2, <1>3, <1>5, <2>3
    <3>3. contents' # <<>> BY <1>5, <1>6, <2>2
    <3> QED BY <1>9, <3>1, <3>2, <3>3
  <2>4. CASE ret = length
    <3>1. ~shortWrites' BY <1>2, <1>3, <1>11, <2>4
    <3>2. length' = 0 BY <1>2, <1>3, <2>4
    <3>3. piece = s BY <1>1, <1>6, <2>1, <2>4 DEF n
    <3> QED BY <1>3, <1>9, <2>2, <3>1, <3>2, <3>3
  <2> QED BY <1>2, <1>5, <2>3, <2>4
<1> QED BY <1>2, <1>10, <1>11

LEMMA WriterStep == WriterInv /\ [WriterNext]_writerVars => WriterInv'
<1> SUFFICES ASSUME WriterInv, [WriterNext]_writerVars PROVE WriterInv' OBVIOUS
<1>1. CASE Unlink
  <2>1. /\ writer = "unlink" /\ writer' = "creat" /\ contents' \in {<<>>, contents}
        /\ UNCHANGED <<stringToWrite, length, shortWrites, writeError>>
    BY <1>1 DEF Unlink
  <2>2. contents' \in Seq(Char)
    <3>1. contents \in Seq(Char) BY DEF WriterInv
    <3>2. <<>> \in Seq(Char) OBVIOUS
    <3> QED BY <2>1, <3>1, <3>2
  <2> QED BY <2>1, <2>2 DEF WriterInv
<1>2. CASE Creat
  <2>1. Len(stringToWrite) \in Nat /\ Len(stringToWrite) >= 1 BY StringIsSequence
  <2>2. /\ writer = "creat" /\ writer' = "write" /\ contents' = <<>>
        /\ length' = Len(stringToWrite) /\ UNCHANGED <<stringToWrite, shortWrites, writeError>>
    BY <1>2 DEF Creat
  <2>3. Len(contents') = 0 /\ contents' \in Seq(Char) BY <2>2
  <2>4. Len(contents') + length' = Len(stringToWrite') BY <2>1, <2>2, <2>3
  <2> QED BY <2>1, <2>2, <2>3, <2>4 DEF WriterInv
<1>3. CASE CreatFails BY <1>3 DEF CreatFails, WriterInv
<1>4. CASE WriteStops BY <1>4 DEF WriteStops, WriterInv
<1>5. CASE WriterEnds BY <1>5 DEF WriterEnds, WriterInv, Repeats
<1>6. ASSUME NEW ret \in 1 .. length, WriteString(ret) PROVE WriterInv'
  BY <1>6, WriteStringKeepsInv
<1>7. CASE UNCHANGED writerVars BY <1>7 DEF writerVars, WriterInv, Repeats
<1> QED BY <1>1, <1>2, <1>3, <1>4, <1>5, <1>6, <1>7 DEF WriterNext

(***************************************************************************)
(* Without a short write the file is the string; after one, however the    *)
(* rest was written, it is not, for strings of every length whose first    *)
(* character does not occur in them again.                                 *)
(***************************************************************************)
THEOREM ShortWritesSpoilTheFile ==
    WriterInit /\ [][WriterNext]_writerVars => []StringIsWrittenUnlessShort
<1>1. WriterInit => WriterInv
  <2>1. <<>> \in Seq(Char) /\ \A c \in Char : <<c>> \in Seq(Char) OBVIOUS
  <2> QED BY <2>1 DEF WriterInit, WriterInv
<1>2. ASSUME WriterInv PROVE StringIsWrittenUnlessShort
  <2>1. Len(stringToWrite) \in Nat BY <1>2, StringIsSequence
  <2>2. contents \in Seq(Char) BY <1>2 DEF WriterInv
  <2>3. ASSUME Repeats, StartsOnce PROVE contents # stringToWrite
    BY <2>3 DEF Repeats, StartsOnce
  <2>4. SUFFICES ASSUME writer = "exit 0", ~writeError
                 PROVE  /\ Len(contents) = Len(stringToWrite)
                        /\ ~shortWrites => contents = stringToWrite
                        /\ shortWrites /\ StartsOnce => contents # stringToWrite
    BY DEF StringIsWrittenUnlessShort
  <2>5. /\ length = 0 /\ Len(contents) + length = Len(stringToWrite)
        /\ ~shortWrites => (IF length = 0 THEN contents = stringToWrite ELSE contents = <<>>)
        /\ shortWrites => contents # <<>> /\ (length = 0 => Repeats)
    BY <1>2, <2>4, Zenon DEF WriterInv
  <2>6. Len(contents) = Len(stringToWrite)
    <3>1. Len(contents) \in Nat /\ Len(contents) + 0 = Len(stringToWrite) BY <2>2, <2>5
    <3> QED BY <2>1, <3>1
  <2> QED BY <2>3, <2>5, <2>6, Zenon
<1> QED BY <1>1, <1>2, WriterStep, PTL
===============================================================================
