----------------------------- MODULE SystemCalls -----------------------------
(***************************************************************************)
(* One call of do_system, do_exec or do_exec_redirect (examples/system-    *)
(* calls/systemcalls.c): the caller, its child, and the descriptors the    *)
(* command finds.  The kernel, system() and the command are external.      *)
(*                                                                         *)
(* A descriptor table maps a number to the open file it stands for.        *)
(***************************************************************************)
EXTENDS Integers, FiniteSetsExt

CONSTANTS
    ExitStatus, \* exit statuses of commands
    LastFd      \* the highest descriptor

ASSUME ExitStatusAssumption == ExitStatus \subseteq 0 .. 255
ASSUME LastFdAssumption == LastFd \in Nat /\ LastFd >= 3

VARIABLES
    call,       \* the function that is called
    caller,     \* where the caller is
    callerFds,  \* its descriptors
    result,     \* what the function returned
    child,      \* where the child is
    childFds,   \* its descriptors
    fd,         \* the descriptor that open() returned
    status,     \* the child's wait status
    executed,   \* history: the command was run
    waitFailed  \* history: waitpid failed

systemVars ==
    <<call, caller, callerFds, result, child, childFds, fd, status, executed, waitFailed>>

Fd == 0 .. LastFd

Closed == "closed"

(* Wait statuses: killed by a signal, or exited with a code.               *)
Killed == [exited |-> FALSE, code |-> 0]

ExitedWith(code) == [exited |-> TRUE, code |-> code]

(* The caller may have closed some of its three standard descriptors.      *)
SystemInit ==
    /\ call = "none" /\ caller = "ready" /\ result = FALSE
    /\ callerFds \in {[f \in Fd |-> IF f \in open THEN "inherited" ELSE Closed] :
                        open \in SUBSET {0, 1, 2}}
    /\ child = "none" /\ childFds = callerFds /\ fd = 0 /\ status = Killed
    /\ executed = FALSE /\ waitFailed = FALSE

Returns(value) ==
    /\ caller' = "returned"
    /\ result' = value

(* system() is -1 only if no child could be created or waited for.         *)
DoSystem ==
    /\ caller = "ready" /\ call' = "system"
    /\ \/ /\ Returns(FALSE)
          /\ UNCHANGED <<child, status, executed>>
       \/ /\ Returns(TRUE)
          /\ child' = "reaped" /\ executed' \in BOOLEAN
          /\ status' \in {Killed} \cup {ExitedWith(c) : c \in ExitStatus \cup {127}}
    /\ UNCHANGED <<callerFds, childFds, fd, waitFailed>>

Fork(function) ==
    /\ caller = "ready" /\ caller' = "wait"
    /\ call' = function
    /\ child' = IF function = "redirect" THEN "open" ELSE "exec"
    /\ UNCHANGED <<callerFds, result, childFds, fd, status, executed, waitFailed>>

(* do_exec returns false; do_exec_redirect ends the caller itself.         *)
ForkFails(function) ==
    /\ caller = "ready"
    /\ call' = function
    /\ \/ function = "exec" /\ Returns(FALSE)
       \/ function = "redirect" /\ caller' = "exited" /\ UNCHANGED result
    /\ UNCHANGED <<callerFds, child, childFds, fd, status, executed, waitFailed>>

(* open() takes the lowest free descriptor.                                *)
ChildOpens ==
    /\ child = "open" /\ child' = "dup"
    /\ fd' = Min({f \in Fd : childFds[f] = Closed})
    /\ childFds' = [childFds EXCEPT ![fd'] = "file"]
    /\ UNCHANGED <<call, caller, callerFds, result, status, executed, waitFailed>>

(* Fault: the descriptor that was opened stays open in the command.        *)
ChildDupsOnly ==
    /\ child = "dup" /\ child' = "exec"
    /\ childFds' = [childFds EXCEPT ![1] = childFds[fd]]
    /\ UNCHANGED <<call, caller, callerFds, result, fd, status, executed, waitFailed>>

(* dup2(fd, 1), then close(fd).                                            *)
ChildDups ==
    /\ child = "dup" /\ child' = "exec"
    /\ childFds' = [childFds EXCEPT ![1] = childFds[fd], ![fd] = Closed]
    /\ UNCHANGED <<call, caller, callerFds, result, fd, status, executed, waitFailed>>

(* Fault: the child goes on as if it were the parent.                      *)
ChildFallsThrough ==
    /\ child \in {"open", "dup", "exec"} /\ child' = "returns"
    /\ UNCHANGED <<call, caller, callerFds, result, childFds, fd, status, executed, waitFailed>>

(* open, dup2 or execv fails: exit(-1).                                    *)
ChildFails ==
    /\ child \in {"open", "dup", "exec"} /\ child' = "zombie"
    /\ status' = ExitedWith(255)
    /\ UNCHANGED <<call, caller, callerFds, result, childFds, fd, executed, waitFailed>>

Exec ==
    /\ child = "exec" /\ child' = "command"
    /\ executed' = TRUE
    /\ UNCHANGED <<call, caller, callerFds, result, childFds, fd, status, waitFailed>>

CommandExits ==
    /\ child = "command" /\ child' = "zombie"
    /\ status' \in {ExitedWith(c) : c \in ExitStatus}
    /\ UNCHANGED <<call, caller, callerFds, result, childFds, fd, executed, waitFailed>>

ChildKilled ==
    /\ child \in {"open", "dup", "exec", "command"} /\ child' = "zombie"
    /\ status' = Killed
    /\ UNCHANGED <<call, caller, callerFds, result, childFds, fd, executed, waitFailed>>

(* Fault: WEXITSTATUS is taken of a child that was killed.                 *)
ReportedByCode == IF call = "exec" THEN status.code = 0 ELSE status.code # -1

(* What the two functions make of the wait status.  WEXITSTATUS is one of  *)
(* 0 .. 255, 0 for a killed child, and is compared with -1 in one of them. *)
Reported ==
    IF call = "exec" THEN status.exited /\ status.code = 0 ELSE status.code # -1

Wait ==
    /\ caller = "wait" /\ child = "zombie"
    /\ child' = "reaped"
    /\ Returns(Reported)
    /\ UNCHANGED <<call, callerFds, childFds, fd, status, executed, waitFailed>>

(* EINTR, when the caller handles a signal, or ECHILD.                     *)
WaitFails ==
    /\ caller = "wait" /\ Returns(FALSE)
    /\ waitFailed' = TRUE
    /\ UNCHANGED <<call, callerFds, child, childFds, fd, status, executed>>

SystemNext ==
    \/ DoSystem
    \/ \E function \in {"exec", "redirect"} : Fork(function) \/ ForkFails(function)
    \/ ChildOpens \/ ChildDups \/ ChildFails \/ Exec \/ CommandExits \/ ChildKilled
    \/ Wait \/ WaitFails

-------------------------------------------------------------------------------
Success == executed /\ status = ExitedWith(0)

(***************************************************************************)
(* do_exec is true exactly when the command ran and exited with 0, and     *)
(* false too when it could not be waited for.  Of do_exec_redirect no more *)
(* can be said than that it is true when its child was waited for: a       *)
(* status of -1 does not exist (line 186).                                 *)
(***************************************************************************)
ResultsTellThisMuch ==
    caller = "returned" =>
      /\ call = "exec"     => result = (child = "reaped" /\ Success)
      /\ call = "redirect" => result = (child = "reaped")

(***************************************************************************)
(* What is said of do_system (lines 10 to 13): "true if the command [...]  *)
(* was executed successfully", "false if an error occurred" or "if a       *)
(* non-zero return value was returned by the command".                     *)
(***************************************************************************)
SystemTrueMeansSuccess ==
    call = "system" /\ caller = "returned" /\ result => Success

(***************************************************************************)
(* What is said of do_exec_redirect: it redirects "standard out to a file" *)
(* (line 142) and is otherwise the "same as do_exec()" (143), which is     *)
(* true "if the command [...] were executed successfully" (40).  A command *)
(* that it ran and was true for has then succeeded, and had the file.  At  *)
(* least one of the two is stated here, so that a command for which it is  *)
(* false refutes both.                                                     *)
(***************************************************************************)
TrueMeansSuccessOrFile ==
    call = "redirect" /\ caller = "returned" /\ result /\ executed =>
      Success \/ childFds[1] = "file"

(***************************************************************************)
(* The command of do_exec_redirect finds the file as its standard output   *)
(* and otherwise the caller's descriptors, none more: whichever of them    *)
(* the caller had closed, except when that was 1 and not 0.  Then open()   *)
(* returns 1, dup2(1, 1) does nothing, and close(1) loses the file.        *)
(***************************************************************************)
CommandFindsTheFile ==
    call = "redirect" /\ child = "command" =>
      childFds = [callerFds EXCEPT ![1] =
                    IF callerFds[0] # Closed /\ callerFds[1] = Closed THEN Closed ELSE "file"]

(***************************************************************************)
(* Only the caller comes back from a call, and leaves no zombie unless     *)
(* waitpid failed: a child that cannot run its command is gone (88, 175).  *)
(***************************************************************************)
OnlyTheCallerReturns ==
    /\ child \in {"none", "open", "dup", "exec", "command", "zombie", "reaped"}
    /\ caller = "returned" /\ ~waitFailed => child \in {"none", "reaped"}
===============================================================================
