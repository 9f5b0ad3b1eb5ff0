------------------------------- MODULE MCUnits -------------------------------
(***************************************************************************)
(* Parts that share no state.  Each behaviour is one of DriverLifecycle (a *)
(* ring of two, so that three commands overwrite one, two writers in the   *)
(* driver at once, and a second load after the first one failed or was     *)
(* undone), AesdChar as far as its liveness goes (a ring of two, two       *)
(* processes, commands of one byte, seeks by ioctl and lseek), SystemCalls *)
(* (commands that exit 0, 1 or 255), Threading (three threads) and Writer  *)
(* (strings of up to four characters of two kinds).                        *)
(*                                                                         *)
(* MCUnits.cfg: all of them, safety and liveness.                          *)
(* MCUnitsSystem.cfg: what is said of do_system.                           *)
(* MCUnitsRedirect.cfg: what is said of do_exec_redirect.                  *)
(***************************************************************************)
EXTENDS DriverLifecycle, SystemCalls, Threading, Writer

CONSTANTS p1, p2, t1, t2, t3, x, y, nl

MCProc == {p1, p2}
MCBlock == 1 .. 14
MCThread == {t1, t2, t3}
MCExitStatus == {0, 1, 255}
MCChar == {x, y}

VARIABLES
    unit,                                           \* the part that runs
    chars, unfinished, sem, fpos, pc, buf, arg      \* the driver of AesdChar

callVars == <<chars, unfinished, sem, fpos, pc, buf, arg>>
unitVars == <<unit, vars, callVars, systemVars, threadingVars, writerVars>>

Calls == INSTANCE AesdChar WITH
             Byte <- {nl}, NL <- nl, Chunk <- {<<nl>>}, MaxEntry <- 1,
             Cmd <- {0, 2}, CmdOffset <- {0}, Whence <- {"CUR", "END"}, Offset <- {-1},
             ring <- chars, temp <- unfinished

(* A driver's system call returns: CallsReturn of AesdChar.                *)
CallsReturn == Calls!CallsReturn

(* Only the chosen unit has a choice of initial states.                    *)
UnitInit ==
    /\ unit \in {"driver memory", "driver calls", "systemcalls", "threading", "writer"}
    /\ Init /\ Calls!Init /\ SystemInit /\ ThreadingInit /\ WriterInit
    /\ unit = "systemcalls" \/ \A f \in Fd : callerFds[f] = Closed
    /\ unit = "writer" \/ (stringToWrite = <<x>> /\ contents = <<>>)

UnitNext ==
    /\ UNCHANGED unit
    /\ \/ /\ unit = "driver memory" /\ Next
          /\ UNCHANGED <<callVars, systemVars, threadingVars, writerVars>>
       \/ /\ unit = "driver calls" /\ Calls!Next
          /\ UNCHANGED <<vars, systemVars, threadingVars, writerVars>>
       \/ /\ unit = "systemcalls" /\ SystemNext
          /\ UNCHANGED <<vars, callVars, threadingVars, writerVars>>
       \/ /\ unit = "threading" /\ ThreadingNext
          /\ UNCHANGED <<vars, callVars, systemVars, writerVars>>
       \/ /\ unit = "writer" /\ WriterNext
          /\ UNCHANGED <<vars, callVars, systemVars, threadingVars>>

(* What a unit's fairness is about is enabled in no other unit.            *)
UnitSpec == UnitInit /\ [][UnitNext]_unitVars /\ ThreadingFairness /\ Calls!Fairness
===============================================================================
