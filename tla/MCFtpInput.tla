----------------------------- MODULE MCFtpInput -----------------------------
(***************************************************************************)
(* Values for the constants of FtpInput.                                   *)
(***************************************************************************)
EXTENDS FtpInput

\* Streams of three lines, each of up to five characters.
Line(n) == [i \in 1..n |-> "x"] \o <<"CR", "LF">>
LineLengths == 0..5
ThreeLines == {Line(a) \o Line(b) \o Line(c) : a, b, c \in LineLengths}

\* And all streams of six bytes, whether made of lines or not.
AnyBytes == [1..6 -> {"x", "CR", "LF"}]

ManyStreams == ThreeLines \cup AnyBytes
=============================================================================
