--------------------------- MODULE MCFtpDialogue ---------------------------
(***************************************************************************)
(* Values for the constants of FtpDialogue.                                *)
(***************************************************************************)
EXTENDS FtpDialogue

\* Two entries fill a buffer if they are as long as they can be.
Sizes == [n \in Names |-> 2]
SomeFacts == {{"TYPE"}, {}}
=============================================================================
