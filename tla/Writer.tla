-------------------------------- MODULE Writer --------------------------------
(***************************************************************************)
(* finder-app/writer.c: it makes the file anew and writes one string.      *)
(***************************************************************************)
EXTENDS Integers, Sequences

CONSTANTS
    Char,       \* characters of the string, which may repeat them
    MaxLength   \* bound on its length

ASSUME MaxLengthAssumption == MaxLength \in Nat

VARIABLES
    writer,         \* where the program is
    stringToWrite,
    length,         \* what it takes to be unwritten
    contents,       \* the file; a file that is not there is empty
    shortWrites,    \* history: some write took less than all of the rest
    writeError      \* history: the loop ended by an error or by a 0

writerVars == <<writer, stringToWrite, length, contents, shortWrites, writeError>>

(* The file may be there already, with anything in it.                     *)
WriterInit ==
    /\ writer = "unlink"
    /\ stringToWrite \in UNION {[1 .. n -> Char] : n \in 1 .. MaxLength}
    /\ length = 0
    /\ contents \in {<<>>} \cup {<<c>> : c \in Char}
    /\ shortWrites = FALSE /\ writeError = FALSE

Unlink ==
    /\ writer = "unlink" /\ writer' = "creat"
    /\ contents' \in {<<>>, contents}
    /\ UNCHANGED <<stringToWrite, length, shortWrites, writeError>>

(* creat truncates what unlink could not remove.                           *)
Creat ==
    /\ writer = "creat" /\ writer' = "write"
    /\ contents' = <<>>
    /\ length' = Len(stringToWrite)
    /\ UNCHANGED <<stringToWrite, shortWrites, writeError>>

CreatFails ==
    /\ writer = "creat" /\ writer' = "exit 1"
    /\ UNCHANGED <<stringToWrite, length, contents, shortWrites, writeError>>

(* Fault: one write is taken to be all of it.                              *)
WriteOnce(ret) ==
    /\ writer = "write" /\ length # 0
    /\ contents' = contents \o SubSeq(stringToWrite, 1, ret)
    /\ writer' = "exit 0"
    /\ shortWrites' = (shortWrites \/ ret < length)
    /\ UNCHANGED <<stringToWrite, length, writeError>>

(* A write of length characters, always from the start of the string, that *)
(* takes ret of them; currentChar moves but is not used.                   *)
WriteString(ret) ==
    /\ writer = "write" /\ length # 0
    /\ contents' = contents \o SubSeq(stringToWrite, 1, ret)
    /\ length' = length - ret
    /\ shortWrites' = (shortWrites \/ ret < length)
    /\ UNCHANGED <<writer, stringToWrite, writeError>>

(* An error other than EINTR, or 0 written: the loop ends, and exits 0.    *)
WriteStops ==
    /\ writer = "write" /\ length # 0
    /\ writer' = "exit 0" /\ writeError' = TRUE
    /\ UNCHANGED <<stringToWrite, length, contents, shortWrites>>

WriterEnds ==
    /\ writer = "write" /\ length = 0
    /\ writer' = "exit 0"
    /\ UNCHANGED <<stringToWrite, length, contents, shortWrites, writeError>>

WriterNext ==
    \/ Unlink \/ Creat \/ CreatFails \/ WriteStops \/ WriterEnds
    \/ \E ret \in 1 .. length : WriteString(ret)

-------------------------------------------------------------------------------
(* The first character of the string is at no other place of it.           *)
StartsOnce == \A i \in 2 .. Len(stringToWrite) : stringToWrite[i] # stringToWrite[1]

(***************************************************************************)
(* A file that was written without an error has the length of the string,  *)
(* and it is the string if no write was short.  After a short one the loop *)
(* sends the beginning of the string again (line 65), and the file is not  *)
(* the string, unless the string happens to repeat itself, as "aa" does.   *)
(***************************************************************************)
StringIsWrittenUnlessShort ==
    writer = "exit 0" /\ ~writeError =>
      /\ Len(contents) = Len(stringToWrite)
      /\ ~shortWrites => contents = stringToWrite
      /\ shortWrites /\ StartsOnce => contents # stringToWrite
===============================================================================
