----------------------------- MODULE MCAesdServer -----------------------------
(***************************************************************************)
(* AesdServer with two clients on a device that keeps two commands, so     *)
(* that replies take several reads and lines are overwritten.              *)
(*                                                                         *)
(* MCAesdServer.cfg: three lines from either client, texts of different    *)
(*     lengths and a seek, all kinds of failures: the safety properties.   *)
(* MCAesdServerLive.cfg: two lines, signals, slow clients and clients that *)
(*     leave: the liveness properties and the refinement of LineService.   *)
(***************************************************************************)
EXTENDS AesdServer, TLC

CONSTANTS c1, c2, a, nl

MCClient == {c1, c2}
MCByte == {a, nl}
MCText == {<<nl>>, <<a, nl>>}
MCOneText == {<<a, nl>>}
MCSeek == {[cmd |-> 0, offset |-> 2]}

Symmetry == Permutations(MCClient)
===============================================================================
