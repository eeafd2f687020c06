------------------------------ MODULE IoReader ------------------------------
(***************************************************************************)
(* filename__read_str and the buffered reader below it                     *)
(* (src/include/pmu-events/aarch64/util.h): read a whole file into a       *)
(* string.  The bytes go through two buffers, that of struct io, which one *)
(* read fills, and that of io__getdelim, which is appended to the line     *)
(* each time it is full.                                                   *)
(*                                                                         *)
(* read may return less than it was asked for.  A read that fails sets     *)
(* io->eof exactly like the end of the file does, so that the caller is    *)
(* handed what came before it, and told that all is well.                  *)
(***************************************************************************)
EXTENDS Integers, SequencesExt

CONSTANTS
    BufLen,    \* io->buf_len, the size of the buffer of struct io
    ChunkLen,  \* the size of the buffer of io__getdelim
    NoText,    \* NULL
    MaxFaults  \* bound on failing calls (open, read, malloc, realloc)

ASSUME BuffersAssumption == BufLen \in Nat \ {0} /\ ChunkLen \in Nat \ {0}
ASSUME FaultsAssumption == MaxFaults \in Nat

VARIABLES
    file,    \* what the file holds, as of the first read
    rest,    \* what the descriptor has not given yet
    ioBuf,   \* the bytes from io->data to io->end
    buf,     \* the bytes in buf[0..buf_pos - 1] of io__getdelim
    line,    \* the line so far
    text,    \* the string handed to the caller, or NoText
    ioPc,    \* "closed", "char" (in the loop), "last" (behind it) or "done"
    faults,  \* how many calls have failed
    heap     \* what is allocated or open

ioVars == <<file, rest, ioBuf, buf, line, text, ioPc>>

Fails == faults < MaxFaults /\ faults' = faults + 1

IoInit ==
    /\ file = <<>> /\ rest = <<>> /\ ioBuf = <<>> /\ buf = <<>> /\ line = <<>>
    /\ text = NoText
    /\ ioPc = "closed"
    /\ faults = 0
    /\ heap = {}

-----------------------------------------------------------------------------
Open(content) ==
    /\ ioPc = "closed"
    /\ file' = content
    /\ rest' = content
    /\ ioPc' = "char"
    /\ heap' = heap \cup {"fd"}
    /\ UNCHANGED <<ioBuf, buf, line, text, faults>>

OpenFails ==
    /\ ioPc = "closed"
    /\ Fails
    /\ ioPc' = "done"
    /\ UNCHANGED <<file, rest, ioBuf, buf, line, text, heap>>

\* io__fill_buffer
FillBuffer ==
    /\ ioPc = "char"
    /\ ioBuf = <<>>
    /\ \E n \in 1..Len(rest) :
        /\ n <= BufLen
        /\ ioBuf' = SubSeq(rest, 1, n)
        /\ rest' = SubSeq(rest, n + 1, Len(rest))
    /\ UNCHANGED <<file, buf, line, text, ioPc, faults, heap>>

\* read returns 0, or -1: either way io__get_char is negative and ends the loop.
EndOfInput ==
    /\ ioPc = "char"
    /\ ioBuf = <<>>
    /\ \/ rest = <<>> /\ UNCHANGED faults
       \/ Fails
    /\ ioPc' = "last"
    /\ UNCHANGED <<file, rest, ioBuf, buf, line, text, heap>>

\* Mutant: the full buffer goes into the line and stays in the buffer.
TakeChar_NotReset ==
    /\ ioPc = "char"
    /\ ioBuf # <<>>
    /\ ioBuf' = Tail(ioBuf)
    /\ IF Len(buf) = ChunkLen
       THEN /\ line' = line \o buf
            /\ buf' = Append(Front(buf), Head(ioBuf))
            /\ heap' = heap \cup {"line"}
       ELSE /\ buf' = Append(buf, Head(ioBuf))
            /\ UNCHANGED <<line, heap>>
    /\ UNCHANGED <<file, rest, text, ioPc, faults>>

\* One more character; a full buffer goes into the line first.
TakeChar ==
    /\ ioPc = "char"
    /\ ioBuf # <<>>
    /\ ioBuf' = Tail(ioBuf)
    /\ IF Len(buf) = ChunkLen
       THEN /\ line' = line \o buf
            /\ buf' = <<Head(ioBuf)>>
            /\ heap' = heap \cup {"line"}
       ELSE /\ buf' = Append(buf, Head(ioBuf))
            /\ UNCHANGED <<line, heap>>
    /\ UNCHANGED <<file, rest, text, ioPc, faults>>

\* The last piece, with the terminating 0; filename__read_str closes the file.
HandOver ==
    /\ ioPc = "last"
    /\ text' = line \o buf
    /\ ioPc' = "done"
    /\ heap' = (heap \cup {"line"}) \ {"fd"}
    /\ UNCHANGED <<file, rest, ioBuf, buf, line, faults>>

\* err_out: a realloc fails, for a full buffer or for the last piece.
OutOfMemory ==
    /\ \/ ioPc = "char" /\ ioBuf # <<>> /\ Len(buf) = ChunkLen
       \/ ioPc = "last"
    /\ Fails
    /\ ioPc' = "done"
    /\ heap' = heap \ {"line", "fd"}
    /\ UNCHANGED <<file, rest, ioBuf, buf, line, text>>

IoStep == FillBuffer \/ EndOfInput \/ TakeChar \/ HandOver \/ OutOfMemory

-----------------------------------------------------------------------------
\* The part of the type invariant that concerns the reader: no buffer overflows.
IoTypeOK ==
    /\ Len(ioBuf) <= BufLen
    /\ Len(buf) <= ChunkLen
    /\ ioPc \in {"closed", "char", "last", "done"}
    /\ faults \in 0..MaxFaults

(***************************************************************************)
(* No byte is lost, doubled or moved between the two buffers and the line: *)
(* put behind one another they are the file.  What the caller is handed is *)
(* the beginning of the file, and all of it unless a call has failed.      *)
(***************************************************************************)
NothingLost ==
    /\ ioPc \in {"char", "last"} => line \o buf \o ioBuf \o rest = file
    /\ text # NoText => IsPrefix(text, file) /\ (faults = 0 => text = file)
=============================================================================
