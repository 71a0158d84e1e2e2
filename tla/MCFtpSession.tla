---------------------------- MODULE MCFtpSession ----------------------------
(***************************************************************************)
(* Instances of FtpSession for TLC.                                        *)
(***************************************************************************)
EXTENDS FtpSession

\* Every kind of command: logging in, both ways to set up a data connection,
\* both directions, aborting, protecting, ending, and a command that throws.
SafetyCommands == {"USER", "PASS", "PORT", "PASV", "RETR", "STOR", "ABOR", "NOOP",
                   "QUIT", "AUTH", "PROT", "MDTM"}

\* The commands that make, break or use a data connection.
TransferOnly == {"USER", "PORT", "PASV", "RETR", "STOR", "ABOR", "QUIT"}
=============================================================================
