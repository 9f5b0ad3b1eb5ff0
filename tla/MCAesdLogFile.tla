---------------------------- MODULE MCAesdLogFile ----------------------------
(***************************************************************************)
(* AesdLogFile with two clients and buffers that start at one byte, so     *)
(* that lines outgrow them and replies take several reads.                 *)
(*                                                                         *)
(* MCAesdLogFile.cfg: two overlapping handlers: safety and liveness.       *)
(* MCAesdLogFileAppend.cfg: what the program's usage text says.            *)
(* MCAesdLogFileEntire.cfg: what is said of sendFileToSocket.              *)
(* MCAesdLogFileZero.cfg: what is said of the receive buffer.              *)
(***************************************************************************)
EXTENDS AesdLogFile

CONSTANTS c1, c2, a, nl, s

MCClient == {c1, c2}
MCByte == {a, s, nl}
===============================================================================
