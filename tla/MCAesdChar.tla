------------------------------ MODULE MCAesdChar ------------------------------
(***************************************************************************)
(* Seeks by ioctl that miss their command (MCDriver and MCUnits check what *)
(* holds of AesdChar).                                                     *)
(*                                                                         *)
(* MCAesdCharLast.cfg: a single process seeks to every command.            *)
(* MCAesdCharRace.cfg: two processes, no seek to the last command.         *)
(***************************************************************************)
EXTENDS AesdChar

CONSTANTS p1, p2, a, nl

MCTwoProcs == {p1, p2}
MCOneProc == {p1}
MCByte == {a, nl}
MCCommands == {<<nl>>, <<a, nl>>}
MCBack == {-1}
===============================================================================
