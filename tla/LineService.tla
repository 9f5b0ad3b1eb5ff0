------------------------------ MODULE LineService ------------------------------
(***************************************************************************)
(* What the socket server promises its clients, with no threads, no locks, *)
(* no system calls and no network in it.  The server keeps the N most      *)
(* recent lines.  It handles the requests of a client one at a time: a     *)
(* line is stored, or the client's place in the text is moved, in one      *)
(* step; then comes an answer, also in one step, which is the text of that *)
(* moment from the client's place to its end.  Between the two any number  *)
(* of other clients' lines may be stored.                                  *)
(***************************************************************************)
EXTENDS Naturals, Sequences, SequencesExt

CONSTANTS
    N,          \* lines kept
    Client,
    Line        \* what a client may have stored

VARIABLES
    log,        \* the lines, oldest first
    place,      \* where each client's answers start
    phase,      \* how far each client's request has come
    answer      \* the answer each client is being given

vars == <<log, place, phase, answer>>

Keep(l, line) == IF Len(l) < N THEN Append(l, line) ELSE Append(Tail(l), line)

Bytes == FlattenSeq(log)

Init ==
    /\ log = <<>>
    /\ place = [c \in Client |-> 0]
    /\ phase = [c \in Client |-> "idle"]
    /\ answer = [c \in Client |-> <<>>]

Goto(c, from, to) == phase[c] = from /\ phase' = [phase EXCEPT ![c] = to]

(* The lines a client sent before its connection broke are stored as well. *)
Store(c, line) ==
    /\ Goto(c, "idle", "handled") \/ Goto(c, "gone", "gone")
    /\ log' = Keep(log, line)
    /\ UNCHANGED <<place, answer>>

MovePlace(c) ==
    /\ Goto(c, "idle", "handled")
    /\ \E to \in 0 .. Len(Bytes) : place' = [place EXCEPT ![c] = to]
    /\ UNCHANGED <<log, answer>>

(* A request that cannot be met or understood is answered all the same.    *)
Refuse(c) == Goto(c, "idle", "handled") /\ UNCHANGED <<log, place, answer>>

Answer(c) ==
    /\ Goto(c, "handled", "answered")
    /\ answer' = [answer EXCEPT ![c] = SubSeq(Bytes, place[c] + 1, Len(Bytes))]
    /\ UNCHANGED <<log, place>>

(* The answer to a client whose file could not be opened.                  *)
NoAnswer(c) == Goto(c, "handled", "idle") /\ UNCHANGED <<log, place, answer>>

Finish(c) ==
    /\ Goto(c, "answered", "idle")
    /\ answer' = [answer EXCEPT ![c] = <<>>]
    /\ UNCHANGED <<log, place>>

(* The connection breaks while an answer is on its way.                    *)
Break(c) ==
    /\ Goto(c, "handled", "gone")
    /\ place' = [place EXCEPT ![c] = 0]
    /\ UNCHANGED <<log, answer>>

Request(c) ==
    \/ \E line \in Line : Store(c, line)
    \/ MovePlace(c) \/ Refuse(c) \/ Answer(c) \/ NoAnswer(c) \/ Finish(c) \/ Break(c)

Next == \E c \in Client : Request(c)

Spec == Init /\ [][Next]_vars
===============================================================================
