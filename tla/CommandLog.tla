------------------------------ MODULE CommandLog ------------------------------
(***************************************************************************)
(* What the aesdchar device promises its writers, with no ring, no lock    *)
(* and no system call in it: a log of the N most recent newline-terminated *)
(* commands and the bytes of the command being written.  A write appends   *)
(* a piece to the unfinished command in one step, and a piece that ends    *)
(* the command moves it to the log in that same step.                      *)
(***************************************************************************)
EXTENDS Naturals, Sequences

CONSTANTS
    N,          \* commands kept
    Piece,      \* what one write may contribute
    Ending      \* the pieces that end a command

VARIABLES
    log,        \* complete commands, oldest first
    pending     \* the command being written

vars == <<log, pending>>

Keep(l, c) == IF Len(l) < N THEN Append(l, c) ELSE Append(Tail(l), c)

Init == log = <<>> /\ pending = <<>>

Extend(piece) ==
    /\ piece \notin Ending
    /\ pending' = pending \o piece
    /\ UNCHANGED log

Commit(piece) ==
    /\ piece \in Ending
    /\ log' = Keep(log, pending \o piece)
    /\ pending' = <<>>

Next == \E piece \in Piece : Extend(piece) \/ Commit(piece)

Spec == Init /\ [][Next]_vars
===============================================================================
