------------------------------ MODULE FtpInput ------------------------------
(***************************************************************************)
(* The input buffer of the control connection (WfdeFtpSessionInput): the   *)
(* bytes the client sends arrive in pieces of any length, and              *)
(* FetchNextCommand makes one command of each line.                        *)
(*                                                                         *)
(* The buffer holds positions of the stream instead of bytes: so each byte *)
(* is known from every other one. Position 0 stands for what was in the    *)
(* buffer before.                                                          *)
(***************************************************************************)
EXTENDS Integers, Sequences

CONSTANTS
    Size,    \* of input_buffer_
    Streams, \* what the client may send: sequences over "x", "CR", "LF"
    Wrap     \* size_t wraps around here: 2^64

ASSUME SizeAssumption == Size \in Nat /\ Size >= 2
ASSUME StreamsAssumption == Streams \subseteq Seq({"x", "CR", "LF"})
ASSUME WrapAssumption == Wrap \in Nat /\ Wrap > 2 * Size + 2

VARIABLES
    stream,   \* what the client sends in this run
    taken,    \* how much of it has been read
    buffer,   \* input_buffer_
    current,  \* current_buffer_ - &input_buffer_[0]
    leftover, \* bytes_leftover_
    stage,    \* where FetchNextCommand is
    lines     \* the commands it has returned (history)

vars == <<stream, taken, buffer, current, leftover, stage, lines>>

Cells == 0..(Size - 1)

(***************************************************************************)
(* "idle" - the last command is being executed; "reading" - it waits in    *)
(* ReadSome; "tooBig", "noInput" - an exception has ended the session;     *)
(* "wild" - memmove has been called for bytes beyond the buffer.           *)
(***************************************************************************)
Stages == {"idle", "reading", "tooBig", "noInput", "wild"}

Lines == [first : Nat, len : Nat]

TypeOK ==
    /\ stream \in Streams /\ taken \in 0..Len(stream)
    /\ buffer \in [Cells -> 0..Len(stream)]
    /\ current \in 0..(Size + 1) /\ leftover \in 0..(Wrap - 1)
    /\ stage \in Stages /\ lines \in Seq(Lines)

Init ==
    /\ stream \in Streams /\ taken = 0 /\ buffer = [i \in Cells |-> 0]
    /\ current = 0 /\ leftover = 0 /\ stage = "idle" /\ lines = <<>>

-----------------------------------------------------------------------------
IsTerminator(p) == p \in 1..Len(stream) /\ stream[p] \in {"CR", "LF"}

\* eob is the index of the first CR or LF among the first total bytes of b.
FirstOf(b, total, eob) ==
    /\ eob \in 0..(total - 1) /\ IsTerminator(b[eob])
    /\ \A i \in 0..(eob - 1) : ~IsTerminator(b[i])

MinusMutant(a, b) == a + Wrap - b

\* a - b in a size_t.
Minus(a, b) == IF a >= b THEN a - b ELSE a + Wrap - b

LeftoverMutant(total, eob) == Minus(total, eob + 1)

LeftoverMutant2(total, eob) == Minus(total, eob + 3)

\* What is left after the line and its two terminators.
Leftover(total, eob) == Minus(total, eob + 2)

FullMutant(total) == total > Size

\* The line is too long for the buffer.
Full(total) == total >= Size - 1

(***************************************************************************)
(* The rest of the loop's body, when the buffer b has total bytes and      *)
(* current_buffer_ is at the index at.                                     *)
(***************************************************************************)
Scan(b, at, total) ==
    \/ /\ \A i \in 0..(total - 1) : ~IsTerminator(b[i])
       /\ stage' = IF Full(total) THEN "tooBig" ELSE "reading"
       /\ current' = total
       /\ UNCHANGED <<leftover, lines>>
    \/ \E eob \in 0..(total - 1) :
         /\ FirstOf(b, total, eob)
         /\ stage' = "idle"
         /\ leftover' = Leftover(total, eob)
         /\ current' = IF leftover' > 0 THEN eob + 2 ELSE at
         /\ lines' = Append(lines, [first |-> b[0], len |-> eob])

MovedMutant == buffer

\* The bytes that are left over come to the front of the buffer.
Moved == [i \in Cells |-> IF i < leftover THEN buffer[current + i] ELSE buffer[i]]

(***************************************************************************)
(* FetchNextCommand, until it returns or has to wait. If the bytes that    *)
(* are left over have more lines, nothing is read.                         *)
(***************************************************************************)
Fetch ==
    /\ stage = "idle"
    /\ \/ /\ leftover = 0
          /\ current' = 0 /\ stage' = "reading"
          /\ UNCHANGED <<buffer, leftover, lines>>
       \/ /\ leftover > 0 /\ current + leftover <= Size
          /\ buffer' = Moved
          /\ Scan(buffer', leftover, leftover)
       \/ /\ leftover > 0 /\ current + leftover > Size
          /\ stage' = "wild"
          /\ UNCHANGED <<buffer, current, leftover, lines>>
    /\ UNCHANGED <<stream, taken>>

\* ReadSome returns: any number of bytes that have arrived and fit.
Read ==
    /\ stage = "reading"
    /\ \E n \in 1..(Size - current) :
         /\ taken + n <= Len(stream)
         /\ buffer' = [i \in Cells |-> IF i \in current..(current + n - 1)
                                       THEN taken + 1 + i - current
                                       ELSE buffer[i]]
         /\ taken' = taken + n
         /\ Scan(buffer', current, current + n)
    /\ UNCHANGED stream

\* The connection ends, or there is no room for a byte.
EndOfInput ==
    /\ stage = "reading" /\ stage' = "noInput"
    /\ UNCHANGED <<stream, taken, buffer, current, leftover, lines>>

Next == Fetch \/ Read \/ EndOfInput

Spec == Init /\ [][Next]_vars

-----------------------------------------------------------------------------
\* Where the line after the last command begins.
NextLine ==
    IF lines = <<>> THEN 1
    ELSE lines[Len(lines)].first + lines[Len(lines)].len + 2

(***************************************************************************)
(* The commands are the lines the client sent, one after the other, each   *)
(* whole and without its terminators, however the stream was divided into  *)
(* reads (FetchNextCommand).                                               *)
(***************************************************************************)
CommandsAreLines ==
    \A k \in 1..Len(lines) :
        LET line == lines[k]
            past == line.first + line.len
        IN /\ line.first = IF k = 1 THEN 1
                           ELSE lines[k - 1].first + lines[k - 1].len + 2
           /\ \A p \in line.first..(past - 1) : ~IsTerminator(p)
           /\ IsTerminator(past)

(***************************************************************************)
(* FetchNextCommand waits for input only if no line is left in what it has *)
(* read, and it has kept all of that: the buffer begins with the bytes of  *)
(* the next line.                                                          *)
(***************************************************************************)
NothingHeldBack ==
    stage = "reading" =>
        /\ \A p \in NextLine..taken : ~IsTerminator(p)
        /\ current = taken + 1 - NextLine
        /\ \A i \in 0..(current - 1) : buffer[i] = NextLine + i

(***************************************************************************)
(* There is room for the byte it waits for: ReadSome is not called for     *)
(* zero bytes, which would look like the end of the connection. A line is  *)
(* refused only if it fills the buffer, whatever came before it.           *)
(***************************************************************************)
RoomToRead ==
    /\ stage = "reading" => current < Size
    /\ stage = "tooBig" => taken + 1 - NextLine >= Size - 1

(***************************************************************************)
(* The subtraction wraps around only if a read has ended between the two   *)
(* terminators of a line: any other division of the stream is safe.        *)
(***************************************************************************)
WrapsOnlyInTerminator ==
    stage = "wild" => IsTerminator(taken) /\ NextLine = taken + 2

(***************************************************************************)
(* A command may arrive in pieces ("Let's assume that the client sent a    *)
(* partial command"). This is what the comment says; it does not hold (see *)
(* the README).                                                            *)
(***************************************************************************)
NeverWild == stage # "wild"
=============================================================================
