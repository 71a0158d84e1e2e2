---------------------------- MODULE FtpCommands ----------------------------
(***************************************************************************)
(* The table of FTP commands of the server: every command the session      *)
(* knows, and for each the conditions its class declares by overriding the *)
(* virtual predicates of FtpCmd (wfde_ftp_commands.cpp, ftp_protocol.h).   *)
(* WfdeFtpSession::OnCommand tests these conditions, in one place, before  *)
(* it runs the command.                                                    *)
(***************************************************************************)

(***************************************************************************)
(* The commands that move a file over a data connection, by direction. A   *)
(* listing is an outgoing file too.                                        *)
(***************************************************************************)
SendCommands == {"RETR", "LIST", "NLST", "MLSD"}
StoreCommands == {"STOR", "STOU", "APPE"}
TransferCommands == SendCommands \cup StoreCommands

(***************************************************************************)
(* The commands with no flag at all: they may be used at any time, also    *)
(* before login and while a file is being transferred.                     *)
(***************************************************************************)
AnyTime == {"QUIT", "ABOR", "FEAT", "SYST", "TYPE", "NOOP", "AUTH"}

(***************************************************************************)
(* Commands on files and directories. They change nothing in the session   *)
(* but the current directory and the pending rename.                       *)
(***************************************************************************)
FileCommands == {"SIZE", "MDTM", "CWD", "CDUP", "DELE", "MKD", "RMD",
                 "RNFR", "RNTO", "MLST"}

\* The commands that set up a data connection, and its protection.
SetupCommands == {"PORT", "PASV", "PBSZ", "PROT"}

MustBeLoggedIn ==
    TransferCommands \cup FileCommands
        \cup {"OPTS", "PORT", "PASV", "REST", "ALLO", "PWD", "HELP", "STAT"}

MustNotBeLoggedIn == {"USER", "PASS"}

MustNotBeInTransferMutant ==
    (FileCommands \cup {"OPTS", "PORT", "PASV", "REST", "ALLO", "HELP"})
        \cup {"RETR"}

MustNotBeInTransferMutant2 ==
    TransferCommands \cup FileCommands
        \cup {"PORT", "PASV", "REST", "ALLO", "HELP"}

MustNotBeInTransfer ==
    TransferCommands \cup FileCommands
        \cup {"OPTS", "PORT", "PASV", "REST", "ALLO", "HELP"}

NeedPostOrPasv == TransferCommands \cup {"REST"}

MustHaveEncryption == {"PBSZ", "PROT"}

\* The command that must be the last one executed before c, if c needs one.
NeedPrevCmd(c) == CASE c = "PASS" -> "USER"
                    [] c = "RNTO" -> "RNFR"
                    [] OTHER -> "none"

Commands == AnyTime \cup SetupCommands \cup MustBeLoggedIn
                \cup MustNotBeLoggedIn

\* The commands whose regular expression some arguments do not match; the
\* others take no parameter, or (.*).
Checked == (MustBeLoggedIn \ {"CDUP", "PASV", "PWD", "STOU", "CWD", "HELP",
                              "LIST", "NLST", "MLSD", "MLST", "STAT"})
               \cup {"USER", "PASS", "TYPE", "AUTH", "PBSZ", "PROT"}

(***************************************************************************)
(* OnCommand refuses command c in a session whose last executed command is *)
(* prev, which is logged in or not, is transferring a file or not, has a   *)
(* pending PORT or PASV or not, and has an encrypted control connection or *)
(* not. Each reason has a reply of its own; none changes the session.      *)
(***************************************************************************)
Refused(c, prev, loggedIn, inTransfer, haveData, encrypted) ==
    \/ NeedPrevCmd(c) # "none" /\ NeedPrevCmd(c) # prev
    \/ c \in MustBeLoggedIn /\ ~loggedIn
    \/ c \in MustNotBeLoggedIn /\ loggedIn
    \/ c \in MustNotBeInTransfer /\ inTransfer
    \/ c \in NeedPostOrPasv /\ ~haveData
    \/ c \in MustHaveEncryption /\ ~encrypted
=============================================================================
