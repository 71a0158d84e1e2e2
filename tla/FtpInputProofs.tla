--------------------------- MODULE FtpInputProofs ---------------------------
(***************************************************************************)
(* Proofs about FtpInput, for every buffer size and all streams: the       *)
(* commands are the lines that were sent, nothing is held back, and the    *)
(* number of bytes left over wraps around only if a read ends between CR   *)
(* and LF.                                                                 *)
(***************************************************************************)
EXTENDS FtpInput, TLAPS

\* n bytes of the buffer b, from at on, are those of the stream from p on.
Holds(b, at, p, n) == \A i \in 0..(n - 1) : b[at + i] = p + i

(***************************************************************************)
(* Between two calls the bytes that are left over begin at current_buffer_ *)
(* and are the beginning of the next line; or there are none; or the       *)
(* subtraction has wrapped around.                                         *)
(***************************************************************************)
IdleInv ==
    \/ leftover = 0 /\ NextLine = taken + 1
    \/ /\ leftover > 0 /\ current + leftover <= Size
       /\ leftover = taken + 1 - NextLine
       /\ Holds(buffer, current, NextLine, leftover)
    \/ /\ leftover = Wrap - 1 /\ current > 1
       /\ IsTerminator(taken) /\ NextLine = taken + 2

LocalInv ==
    /\ stage = "idle" => IdleInv
    /\ NothingHeldBack /\ RoomToRead /\ WrapsOnlyInTerminator

Inv == TypeOK /\ NextLine \in Nat \ {0} /\ CommandsAreLines /\ LocalInv

-----------------------------------------------------------------------------
\* A command that is returned moves NextLine past its terminators.
LEMMA NextLineAppend ==
    ASSUME lines \in Seq(Lines), NEW r \in Lines,
           lines' = Append(lines, r)
    PROVE  /\ NextLine' = r.first + r.len + 2
           /\ Len(lines') = Len(lines) + 1
           /\ lines'[Len(lines) + 1] = r
           /\ \A k \in 1..Len(lines) : lines'[k] = lines[k]
           /\ lines' \in Seq(Lines)
  <1>1. Len(lines') = Len(lines) + 1 /\ lines' # <<>>
    OBVIOUS
  <1>2. lines'[Len(lines')] = r
    BY <1>1
  <1> QED
    BY <1>1, <1>2 DEF NextLine

\* If the new command begins at the next line, holds no terminator and is
\* followed by one, the commands are still the lines.
LEMMA AppendLine ==
    ASSUME lines \in Seq(Lines), NextLine \in Nat \ {0}, CommandsAreLines,
           stream' = stream,
           NEW n \in Nat,
           lines' = Append(lines, [first |-> NextLine, len |-> n]),
           \A p \in NextLine..(NextLine + n - 1) : ~IsTerminator(p),
           IsTerminator(NextLine + n)
    PROVE  CommandsAreLines' /\ NextLine' = NextLine + n + 2
  <1> DEFINE r == [first |-> NextLine, len |-> n]
  <1>1. r \in Lines /\ r.first = NextLine /\ r.len = n
    BY DEF Lines
  <1>2. /\ NextLine' = NextLine + n + 2
        /\ Len(lines') = Len(lines) + 1
        /\ lines'[Len(lines) + 1] = r
        /\ \A k \in 1..Len(lines) : lines'[k] = lines[k]
    BY <1>1, NextLineAppend
  <1>3. \A p : IsTerminator(p)' = IsTerminator(p)
    BY DEF IsTerminator
  <1>4. Len(lines) \in Nat
    OBVIOUS
  <1>5. SUFFICES ASSUME NEW k \in 1..(Len(lines) + 1)
                 PROVE  LET line == lines'[k]
                            past == line.first + line.len
                        IN /\ line.first = IF k = 1 THEN 1
                                           ELSE lines'[k - 1].first
                                                    + lines'[k - 1].len + 2
                           /\ \A p \in line.first..(past - 1) :
                                  ~IsTerminator(p)
                           /\ IsTerminator(past)
    BY <1>2, <1>3 DEF CommandsAreLines
  <1>6. CASE k \in 1..Len(lines)
    <2>1. lines'[k] = lines[k] /\ (k # 1 => lines'[k - 1] = lines[k - 1])
      BY <1>2, <1>4, <1>6
    <2> QED
      BY <2>1, <1>6 DEF CommandsAreLines
  <1>7. CASE k = Len(lines) + 1
    <2>1. lines'[k] = r
      BY <1>2, <1>7
    <2>2. NextLine = IF k = 1 THEN 1
                     ELSE lines'[k - 1].first + lines'[k - 1].len + 2
      <3>1. CASE lines = <<>>
        BY <3>1, <1>7 DEF NextLine
      <3>2. CASE lines # <<>>
        <4>1. k # 1 /\ k - 1 = Len(lines) /\ Len(lines) \in 1..Len(lines)
          BY <3>2, <1>4, <1>7
        <4> QED
          BY <3>2, <4>1, <1>2 DEF NextLine
      <3> QED
        BY <3>1, <3>2
    <2> QED
      BY <2>1, <2>2, <1>1
  <1> QED
    BY <1>2, <1>4, <1>6, <1>7

(***************************************************************************)
(* The heart of the argument: if the first total bytes of the buffer are   *)
(* the next line and what follows it, up to the last byte taken, then Scan *)
(* keeps the invariant.                                                    *)
(***************************************************************************)
LEMMA ScanKeepsInv ==
    ASSUME TypeOK, NextLine \in Nat \ {0}, CommandsAreLines,
           stream' = stream,
           NEW t \in Nat, taken' = t, t <= Len(stream),
           buffer' \in [Cells -> 0..Len(stream)],
           NEW at \in Nat, at <= Size,
           NEW total \in Nat, total > 0, total <= Size,
           total = t + 1 - NextLine,
           \A i \in 0..(total - 1) : buffer'[i] = NextLine + i,
           Scan(buffer', at, total)
    PROVE  Inv'
  <1>0. /\ Len(stream) \in Nat /\ lines \in Seq(Lines)
        /\ stream \in Streams /\ leftover \in 0..(Wrap - 1)
        /\ Size \in Nat /\ Wrap \in Nat /\ Wrap > 2 * Size + 2
    BY SizeAssumption, WrapAssumption, StreamsAssumption DEF TypeOK
  <1>1. \A p : IsTerminator(p)' = IsTerminator(p)
    BY DEF IsTerminator
  <1>2. t \in 0..Len(stream)
    BY <1>0
  <1>3. CASE /\ \A i \in 0..(total - 1) : ~IsTerminator(buffer'[i])
             /\ stage' = IF Full(total) THEN "tooBig" ELSE "reading"
             /\ current' = total
             /\ UNCHANGED <<leftover, lines>>
    <2>1. NextLine' = NextLine
      BY <1>3 DEF NextLine
    <2>2. CommandsAreLines'
      BY <1>1, <1>3 DEF CommandsAreLines
    <2>3. \A p \in NextLine..t : ~IsTerminator(p)
      <3> SUFFICES ASSUME NEW p \in NextLine..t
                   PROVE  ~IsTerminator(p)
        OBVIOUS
      <3>1. p - NextLine \in 0..(total - 1) /\ NextLine + (p - NextLine) = p
        OBVIOUS
      <3> QED
        BY <3>1, <1>3
    <2>4. NothingHeldBack'
      BY <1>1, <1>3, <2>1, <2>3 DEF NothingHeldBack
    <2>5. RoomToRead'
      <3>1. stage' = "reading" => total < Size
        BY <1>0, <1>3 DEF Full
      <3>2. stage' = "tooBig" => t + 1 - NextLine >= Size - 1
        BY <1>3 DEF Full
      <3> QED
        BY <3>1, <3>2, <1>3, <2>1 DEF RoomToRead
    <2>6. TypeOK'
      <3>1. total \in 0..(Size + 1)
        BY <1>0
      <3> QED
        BY <3>1, <1>0, <1>2, <1>3 DEF TypeOK, Stages
    <2> QED
      BY <1>3, <2>1, <2>2, <2>4, <2>5, <2>6
         DEF Inv, LocalInv, WrapsOnlyInTerminator
  <1>4. CASE \E eob \in 0..(total - 1) :
               /\ FirstOf(buffer', total, eob)
               /\ stage' = "idle"
               /\ leftover' = Leftover(total, eob)
               /\ current' = IF leftover' > 0 THEN eob + 2 ELSE at
               /\ lines' = Append(lines, [first |-> buffer'[0], len |-> eob])
    <2>0. PICK eob \in 0..(total - 1) :
               /\ FirstOf(buffer', total, eob)
               /\ stage' = "idle"
               /\ leftover' = Leftover(total, eob)
               /\ current' = IF leftover' > 0 THEN eob + 2 ELSE at
               /\ lines' = Append(lines, [first |-> buffer'[0], len |-> eob])
      BY <1>4
    <2>1. /\ buffer'[0] = NextLine /\ buffer'[eob] = NextLine + eob
          /\ IsTerminator(NextLine + eob) /\ eob \in Nat
      BY <2>0 DEF FirstOf
    <2>2. \A p \in NextLine..(NextLine + eob - 1) : ~IsTerminator(p)
      <3> SUFFICES ASSUME NEW p \in NextLine..(NextLine + eob - 1)
                   PROVE  ~IsTerminator(p)
        OBVIOUS
      <3>1. /\ p - NextLine \in 0..(eob - 1)
            /\ p - NextLine \in 0..(total - 1)
            /\ NextLine + (p - NextLine) = p
        OBVIOUS
      <3> QED
        BY <3>1, <2>0 DEF FirstOf
    <2>3. CommandsAreLines' /\ NextLine' = NextLine + eob + 2
      BY <1>0, <2>0, <2>1, <2>2, AppendLine
    <2>4. PICK left \in Nat : /\ leftover' = left
                              /\ total >= eob + 2 => left = total - eob - 2
                              /\ total < eob + 2 => left = Wrap - 1
      <3>1. /\ Leftover(total, eob) \in Nat
            /\ total >= eob + 2 => Leftover(total, eob) = total - eob - 2
            /\ total < eob + 2 => Leftover(total, eob) = Wrap - 1
        BY <1>0, <2>1 DEF Leftover, Minus
      <3> QED
        BY <3>1, <2>0
    <2>5. current' = IF left > 0 THEN eob + 2 ELSE at
      BY <2>0, <2>4
    <2>6. IdleInv'
      <3>1. CASE total < eob + 2
        <4>1. t = NextLine + eob /\ NextLine' = t + 2
          BY <3>1, <2>3
        <4>2. IsTerminator(taken)'
          BY <4>1, <2>1 DEF IsTerminator
        <4>3. left = Wrap - 1 /\ left > 0 /\ eob + 2 > 1
          BY <1>0, <2>1, <2>4, <3>1
        <4> QED
          BY <4>1, <4>2, <4>3, <2>4, <2>5 DEF IdleInv
      <3>2. CASE total = eob + 2
        <4>1. left = 0 /\ NextLine' = t + 1
          BY <3>2, <2>1, <2>3, <2>4
        <4> QED
          BY <4>1, <2>4 DEF IdleInv
      <3>3. CASE total > eob + 2
        <4>1. /\ left = total - eob - 2 /\ left > 0 /\ eob + 2 + left <= Size
              /\ left = t + 1 - (NextLine + eob + 2)
          BY <1>0, <3>3, <2>1, <2>4
        <4>2. \A i \in 0..(left - 1) :
                 buffer'[eob + 2 + i] = NextLine + eob + 2 + i
          <5> SUFFICES ASSUME NEW i \in 0..(left - 1)
                       PROVE  buffer'[eob + 2 + i] = NextLine + eob + 2 + i
            OBVIOUS
          <5>1. eob + 2 + i \in 0..(total - 1)
            BY <4>1, <2>1
          <5> QED
            BY <5>1, <2>1
        <4> QED
          BY <4>1, <4>2, <2>3, <2>4, <2>5 DEF IdleInv, Holds
      <3> QED
        BY <2>1, <3>1, <3>2, <3>3
    <2>7. TypeOK'
      <3>1. [first |-> buffer'[0], len |-> eob] \in Lines
        BY <2>1 DEF Lines
      <3>2. lines' \in Seq(Lines)
        BY <1>0, <2>0, <3>1
      <3>3. left \in 0..(Wrap - 1) /\ current' \in 0..(Size + 1)
        BY <1>0, <2>1, <2>4, <2>5
      <3> QED
        BY <1>0, <1>2, <2>0, <2>4, <3>2, <3>3 DEF TypeOK, Stages
    <2>8. NextLine' \in Nat \ {0}
      BY <2>1, <2>3
    <2> QED
      BY <2>0, <2>3, <2>6, <2>7, <2>8
         DEF Inv, LocalInv, NothingHeldBack, RoomToRead, WrapsOnlyInTerminator
  <1> QED
    BY <1>3, <1>4 DEF Scan

-----------------------------------------------------------------------------
LEMMA InitInv == Init => Inv
  <1> SUFFICES ASSUME Init
               PROVE  Inv
    OBVIOUS
  <1> USE SizeAssumption, WrapAssumption, StreamsAssumption DEF Init
  <1>1. Len(lines) = 0 /\ NextLine = 1 /\ lines \in Seq(Lines)
    BY DEF NextLine
  <1>2. Len(stream) \in Nat
    OBVIOUS
  <1>3. TypeOK
    BY <1>1, <1>2 DEF TypeOK, Stages, Cells
  <1> QED
    BY <1>1, <1>3 DEF Inv, LocalInv, IdleInv, CommandsAreLines,
                      NothingHeldBack, RoomToRead, WrapsOnlyInTerminator

LEMMA FetchInv == Inv /\ Fetch => Inv'
  <1> SUFFICES ASSUME Inv, Fetch
               PROVE  Inv'
    OBVIOUS
  <1> USE SizeAssumption, WrapAssumption, StreamsAssumption
  <1>0. /\ TypeOK /\ NextLine \in Nat \ {0} /\ CommandsAreLines /\ IdleInv
        /\ stage = "idle" /\ UNCHANGED <<stream, taken>>
        /\ Len(stream) \in Nat /\ taken \in 0..Len(stream)
        /\ current \in 0..(Size + 1) /\ leftover \in 0..(Wrap - 1)
        /\ buffer \in [Cells -> 0..Len(stream)]
    BY DEF Inv, LocalInv, Fetch, TypeOK
  <1>1. CASE /\ leftover = 0
             /\ current' = 0 /\ stage' = "reading"
             /\ UNCHANGED <<buffer, leftover, lines>>
    <2>1. NextLine' = NextLine /\ NextLine = taken + 1
      BY <1>0, <1>1 DEF NextLine, IdleInv
    <2>2. CommandsAreLines' /\ \A p : IsTerminator(p)' = IsTerminator(p)
      BY <1>0, <1>1 DEF CommandsAreLines, IsTerminator
    <2>3. TypeOK'
      BY <1>0, <1>1 DEF TypeOK, Stages
    <2>4. NothingHeldBack' /\ RoomToRead'
      BY <1>0, <1>1, <2>1 DEF NothingHeldBack, RoomToRead
    <2> QED
      BY <1>0, <1>1, <2>1, <2>2, <2>3, <2>4
         DEF Inv, LocalInv, WrapsOnlyInTerminator
  <1>2. CASE /\ leftover > 0 /\ current + leftover <= Size
             /\ buffer' = Moved
             /\ Scan(buffer', leftover, leftover)
    <2>1. /\ leftover = taken + 1 - NextLine
          /\ Holds(buffer, current, NextLine, leftover)
      BY <1>0, <1>2 DEF IdleInv
    <2>2. \A i \in Cells : i < leftover => current + i \in Cells
      BY <1>0, <1>2 DEF Cells
    <2>3. buffer' \in [Cells -> 0..Len(stream)]
      BY <1>0, <1>2, <2>2 DEF Moved
    <2>4. \A i \in 0..(leftover - 1) : buffer'[i] = NextLine + i
      <3> SUFFICES ASSUME NEW i \in 0..(leftover - 1)
                   PROVE  buffer'[i] = NextLine + i
        OBVIOUS
      <3>1. i \in Cells /\ i < leftover
        BY <1>0, <1>2 DEF Cells
      <3>2. buffer'[i] = buffer[current + i]
        BY <1>2, <3>1 DEF Moved
      <3> QED
        BY <2>1, <3>1, <3>2 DEF Holds
    <2>5. leftover \in Nat /\ leftover <= Size
      BY <1>0, <1>2
    <2>6. taken \in Nat /\ taken' = taken /\ taken <= Len(stream)
      BY <1>0
    <2> QED
      BY <1>0, <1>2, <2>1, <2>3, <2>4, <2>5, <2>6, ScanKeepsInv
  <1>3. CASE /\ leftover > 0 /\ current + leftover > Size
             /\ stage' = "wild"
             /\ UNCHANGED <<buffer, current, leftover, lines>>
    <2>1. IsTerminator(taken) /\ NextLine = taken + 2
      BY <1>0, <1>3 DEF IdleInv
    <2>2. NextLine' = NextLine /\ CommandsAreLines' /\ TypeOK'
          /\ (IsTerminator(taken))'
      BY <1>0, <1>3, <2>1
         DEF NextLine, CommandsAreLines, IsTerminator, TypeOK, Stages
    <2> QED
      BY <1>0, <1>3, <2>1, <2>2
         DEF Inv, LocalInv, NothingHeldBack, RoomToRead, WrapsOnlyInTerminator
  <1> QED
    BY <1>1, <1>2, <1>3 DEF Fetch

LEMMA ReadInv == Inv /\ Read => Inv'
  <1> SUFFICES ASSUME Inv, Read
               PROVE  Inv'
    OBVIOUS
  <1> USE SizeAssumption, WrapAssumption, StreamsAssumption
  <1>0. /\ TypeOK /\ NextLine \in Nat \ {0} /\ CommandsAreLines
        /\ stage = "reading" /\ stream' = stream
        /\ Len(stream) \in Nat /\ taken \in 0..Len(stream)
        /\ buffer \in [Cells -> 0..Len(stream)]
        /\ current \in 0..(Size - 1) /\ current = taken + 1 - NextLine
        /\ \A i \in 0..(current - 1) : buffer[i] = NextLine + i
    BY DEF Inv, LocalInv, Read, TypeOK, NothingHeldBack, RoomToRead
  <1>1. PICK n \in 1..(Size - current) :
         /\ taken + n <= Len(stream)
         /\ buffer' = [i \in Cells |-> IF i \in current..(current + n - 1)
                                       THEN taken + 1 + i - current
                                       ELSE buffer[i]]
         /\ taken' = taken + n
         /\ Scan(buffer', current, current + n)
    BY DEF Read
  <1>2. buffer' \in [Cells -> 0..Len(stream)]
    <2> SUFFICES ASSUME NEW i \in Cells, i \in current..(current + n - 1)
                 PROVE  taken + 1 + i - current \in 0..Len(stream)
      BY <1>0, <1>1
    <2> QED
      BY <1>0, <1>1 DEF Cells
  <1>3. \A i \in 0..(current + n - 1) : buffer'[i] = NextLine + i
    <2> SUFFICES ASSUME NEW i \in 0..(current + n - 1)
                 PROVE  buffer'[i] = NextLine + i
      OBVIOUS
    <2>1. i \in Cells
      BY <1>0, <1>1 DEF Cells
    <2>2. CASE i < current
      BY <1>0, <1>1, <2>1, <2>2
    <2>3. CASE i >= current
      BY <1>0, <1>1, <2>1, <2>3
    <2> QED
      BY <1>0, <2>2, <2>3
  <1>4. PICK m \in Nat, t \in Nat :
            /\ current + n = m /\ taken + n = t
            /\ m > 0 /\ m <= Size /\ t <= Len(stream) /\ m = t + 1 - NextLine
    BY <1>0, <1>1
  <1>5. current \in Nat /\ current <= Size
    BY <1>0
  <1>6. taken' = t /\ \A i \in 0..(m - 1) : buffer'[i] = NextLine + i
    BY <1>0, <1>1, <1>3, <1>4
  <1>7. Scan(buffer', current, m)
    BY <1>1, <1>4, Zenon
  <1> QED
    BY <1>0, <1>2, <1>4, <1>5, <1>6, <1>7, ScanKeepsInv

(***************************************************************************)
(* The inductive invariant.                                                *)
(***************************************************************************)
THEOREM InputInvariant == Spec => []Inv
  <1>1. Inv /\ [Next]_vars => Inv'
    <2> SUFFICES ASSUME Inv, [Next]_vars
                 PROVE  Inv'
      OBVIOUS
    <2>1. CASE Fetch
      BY <2>1, FetchInv
    <2>2. CASE Read
      BY <2>2, ReadInv
    <2>3. CASE EndOfInput \/ UNCHANGED vars
      <3>1. /\ UNCHANGED <<stream, taken, buffer, current, leftover, lines>>
            /\ stage' \in {stage, "noInput"}
        BY <2>3 DEF EndOfInput, vars
      <3>2. NextLine' = NextLine /\ \A p : IsTerminator(p)' = IsTerminator(p)
        BY <3>1 DEF NextLine, IsTerminator
      <3>3. TypeOK' /\ CommandsAreLines'
        BY <3>1 DEF Inv, TypeOK, Stages, CommandsAreLines, IsTerminator
      <3>4. LocalInv'
        BY <3>1, <3>2 DEF Inv, LocalInv, IdleInv, Holds, NothingHeldBack,
                          RoomToRead, WrapsOnlyInTerminator
      <3> QED
        BY <3>2, <3>3, <3>4 DEF Inv
    <2> QED
      BY <2>1, <2>2, <2>3 DEF Next
  <1> QED
    BY InitInv, <1>1, PTL DEF Spec

(***************************************************************************)
(* The commands FetchNextCommand returns are the lines of the stream,      *)
(* whatever its division into reads.                                       *)
(***************************************************************************)
THEOREM SpecCommandsAreLines == Spec => []CommandsAreLines
  <1>1. Inv => CommandsAreLines
    BY DEF Inv
  <1> QED
    BY InputInvariant, <1>1, PTL

\* It never waits while a whole line is in what it has read.
THEOREM SpecNothingHeldBack == Spec => []NothingHeldBack
  <1>1. Inv => NothingHeldBack
    BY DEF Inv, LocalInv
  <1> QED
    BY InputInvariant, <1>1, PTL

\* It never reads into a full buffer, and refuses only lines that fill it.
THEOREM SpecRoomToRead == Spec => []RoomToRead
  <1>1. Inv => RoomToRead
    BY DEF Inv, LocalInv
  <1> QED
    BY InputInvariant, <1>1, PTL

\* bytes_leftover_ wraps around only if a read ended within a terminator.
THEOREM SpecWrapsOnlyInTerminator == Spec => []WrapsOnlyInTerminator
  <1>1. Inv => WrapsOnlyInTerminator
    BY DEF Inv, LocalInv
  <1> QED
    BY InputInvariant, <1>1, PTL

\* The types of the buffer's state.
THEOREM SpecTypeOK == Spec => []TypeOK
  <1>1. Inv => TypeOK
    BY DEF Inv
  <1> QED
    BY InputInvariant, <1>1, PTL
=============================================================================
