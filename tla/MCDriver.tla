------------------------------- MODULE MCDriver -------------------------------
(***************************************************************************)
(* The ring and the driver, both with three slots.  Each behaviour is one  *)
(* of                                                                      *)
(*   ring:   CircularBufferUse, which wraps the ring twice with entries of *)
(*           different lengths;                                            *)
(*   pieces: AesdChar with two processes that write whole commands, pieces *)
(*           of commands and bytes after a newline, read, and lseek() from *)
(*           the end;                                                      *)
(*   seeks:  AesdChar with two processes that write whole commands, one of *)
(*           them with a byte after its newline, and seek by ioctl to the  *)
(*           second command, the first that is not at position 0.          *)
(* The driver's two parts differ in the calls made; the ring is filled and *)
(* overwritten any number of times in both.                                *)
(***************************************************************************)
EXTENDS AesdChar, CircularBufferUse, TLC

CONSTANTS p1, p2, a, nl

MCProc == {p1, p2}
MCByte == {a, nl}
MCChunk == {<<a>>, <<nl, a>>, <<a, nl>>}
MCEntry == {<<nl>>, <<a, nl>>, <<a, a, nl>>}
MCBack == {-1}

Symmetry == Permutations(MCProc)

VARIABLE part

partVars == <<part, vars, ringVars>>

PartInit ==
    /\ part \in {"ring", "pieces", "seeks"}
    /\ Init /\ RingInit

(* A call that the part makes: no ioctl and no <<a, nl>> in one write, or  *)
(* only ioctl and whole commands, by files that once open stay open.       *)
Made(p) ==
    IF part = "pieces"
    THEN pc'[p] # "ioctl_end" /\ buf'[p] # <<a, nl>>
    ELSE pc'[p] \notin {"read", "llseek", "closed"} /\ buf'[p] # <<a>>

(* A ring of MaxAdds entries rests; whatever else stops is a deadlock.     *)
PartNext ==
    /\ UNCHANGED part
    /\ \/ /\ part = "ring"
          /\ RingNext \/ (Len(added) = MaxAdds /\ UNCHANGED ringVars)
          /\ UNCHANGED vars
       \/ /\ part # "ring"
          /\ \E p \in Proc : Step(p) \/ (Call(p) /\ Made(p))
          /\ UNCHANGED ringVars

PartSpec == PartInit /\ [][PartNext]_partVars
===============================================================================
