---------------------------- MODULE FtpDialogue ----------------------------
(***************************************************************************)
(* What a client that is logged in can set for its next transfer, and how  *)
(* the transfer uses it: the type, the offset of REST, the pending PORT or *)
(* PASV, the hidden files of LIST -a, the facts of OPTS MLST (FtpState,    *)
(* MdtxState), the commands that set them (wfde_ftp_commands.cpp) and the  *)
(* listing that is sent (DirLister).                                       *)
(*                                                                         *)
(* How the two coroutines of the session interleave is the subject of      *)
(* FtpSession. Here a command runs when the pipeline is free, that is when *)
(* there is no transfer or it waits for its connection or for its data.    *)
(***************************************************************************)
EXTENDS FtpCommands, DirLister

CONSTANTS
    Offsets,   \* the offsets a client gives to REST
    Selections \* the sets of facts a client gives to OPTS MLST

\* MdtxState::Facts and the value of the bit of each: 1 << f.
Facts == <<"SIZE", "MODIFY", "TYPE", "UNIQUE", "PERM">>
Weight == <<1, 2, 4, 8, 16>>
FactNames == {Facts[i] : i \in 1..5}

ASSUME OffsetsAssumption == Offsets \subseteq Nat
ASSUME SelectionsAssumption == Selections \subseteq SUBSET FactNames

VARIABLES
    ttype,      \* state_.ttype
    override,   \* state_.override_as_binary_
    rest,       \* state_.rest
    initiation, \* a PORT or PASV is pending: state_.initiation # NONE
    hidden,     \* state_.list_hidden_files
    factBits,   \* state_.mdtx_state.fact_bits_
    transfer,   \* where the transfer is
    file,       \* current_file_
    given,      \* what the client has set since its last transfer (history)
    offset,     \* the last offset it was promised since then (history)
    factsSent   \* the sets of facts the entries of a listing show (history)

settings == <<ttype, override, rest, initiation, hidden, factBits>>
dialogueVars == <<settings, transfer, file, given, offset>>
vars == <<dialogueVars, factsSent, listerVars>>

Types == {"ASCII", "BIN"}

\* The file that is being transferred: the command it is for, whether it is
\* wrapped in a WfdeAsciiFile, the position it starts at, and the type the
\* client had set (history).
NoFile == [cmd |-> "none", ascii |-> FALSE, from |-> 0, type |-> "BIN"]
FileRecords == [cmd : TransferCommands \cup {"none"}, ascii : BOOLEAN,
                from : {0}, type : Types]

Bit(i) == (factBits \div Weight[i]) % 2

\* IsEnabled: the bit of the fact, in its place, is compared with 1.
IsEnabled(i) == Bit(i) * Weight[i] = 1

Reported == {Facts[i] : i \in {j \in 1..5 : IsEnabled(j)}}

DialogueTypeOK ==
    /\ ttype \in Types /\ override \in BOOLEAN /\ rest \in Offsets \cup {0}
    /\ initiation \in BOOLEAN /\ hidden \in BOOLEAN /\ factBits \in 0..31
    /\ transfer \in {"none", "constructing", "connecting", "data"}
    /\ file \in FileRecords
    /\ given \subseteq {"-a", "PORT", "no REST"} /\ offset \in Offsets \cup {0}
    /\ factsSent \in SUBSET SUBSET FactNames

\* The types of the lister's and the dialogue's state (all their actions).
TypeOK == ListerTypeOK /\ DialogueTypeOK

Init ==
    /\ ListerInit
    /\ ttype = "ASCII" /\ override = FALSE /\ rest = 0
    /\ initiation = FALSE /\ hidden = FALSE /\ factBits = 23
    /\ transfer = "none" /\ file = NoFile /\ factsSent = {}
    /\ given = {} /\ offset = 0

-----------------------------------------------------------------------------
(***************************************************************************)
(* Commands.                                                               *)
(***************************************************************************)

InTransfer == transfer \in {"connecting", "data"}

\* The pipeline is free: no transfer, or one that waits.
Free ==
    \/ transfer \in {"none", "connecting"}
    \/ transfer = "data" /\ stage \in {"none", "batch"}

Accepted(c) == Free /\ ~Refused(c, "none", TRUE, InTransfer, initiation, FALSE)

GetType == IF override THEN "BIN" ELSE ttype

\* TYPE may be given at any time.
SetType ==
    /\ Accepted("TYPE")
    /\ ttype' \in Types
    /\ UNCHANGED <<override, rest, initiation, hidden, factBits, transfer,
                   file, given, offset, factsSent, listerVars>>

(***************************************************************************)
(* REST clears the offset first: the old one is lost also if the new one   *)
(* is refused, because it is too large or the type is not binary.          *)
(***************************************************************************)
Rest ==
    /\ Accepted("REST")
    /\ \/ \E n \in Offsets :
             /\ n = 0 \/ GetType = "BIN"
             /\ rest' = n /\ offset' = n /\ given' = given \ {"no REST"}
       \/ rest' = 0 /\ given' = given \cup {"no REST"} /\ UNCHANGED offset
    /\ UNCHANGED <<ttype, override, initiation, hidden, factBits, transfer,
                   file, factsSent, listerVars>>

\* A new data connection is taken for a new transfer.
PortOrPasvMutant ==
    /\ Accepted("PASV") \/ Accepted("PORT")
    /\ initiation' = TRUE /\ given' = given \cup {"PORT"} /\ rest' = 0
    /\ UNCHANGED <<ttype, override, hidden, factBits, transfer, file, offset,
                   factsSent, listerVars>>

PortOrPasv ==
    /\ Accepted("PASV") \/ Accepted("PORT")
    /\ initiation' = TRUE /\ given' = given \cup {"PORT"}
    /\ UNCHANGED <<ttype, override, rest, hidden, factBits, transfer, file,
                   offset, factsSent, listerVars>>

\* OPTS MLST: all facts are disabled, and those named are enabled.
OptsMlst ==
    /\ Accepted("OPTS")
    /\ \E sel \in Selections :
         LET bit(i) == IF Facts[i] \in sel THEN Weight[i] ELSE 0
         IN factBits' = bit(1) + bit(2) + bit(3) + bit(4) + bit(5)
    /\ UNCHANGED <<ttype, override, rest, initiation, hidden, transfer, file,
                   given, offset, factsSent, listerVars>>

\* STAT with a path, also during a transfer. Its listing is made at once and
\* sent as the reply; -a stays set.
StatList ==
    /\ Accepted("STAT")
    /\ hidden' = TRUE /\ given' = given \cup {"-a"}
    /\ UNCHANGED <<ttype, override, rest, initiation, factBits, transfer,
                   file, offset, factsSent, listerVars>>

(***************************************************************************)
(* StartTransfer. A new WfdeFile is at position 0, unless it is one to     *)
(* append to, whose own end is its start: nobody moves it to rest.         *)
(***************************************************************************)
StartTransfer(c, type) ==
    /\ transfer' = "connecting"
    /\ file' = [cmd |-> c, ascii |-> type # "BIN", from |-> 0, type |-> ttype]

RestAllowedMutant(c) ==
    \/ rest = 0
    \/ c \in {"RETR", "STOR"}

\* The commands' own conditions on REST.
RestAllowed(c) ==
    \/ rest = 0
    \/ c \in {"RETR", "STOR"} /\ GetType = "BIN"

\* RETR, STOR, STOU and APPE, when OpenFile succeeds. If it does not, or the
\* offset is refused, nothing changes.
FileCommand ==
    /\ \E c \in {"RETR"} \cup StoreCommands :
         /\ Accepted(c) /\ RestAllowed(c)
         /\ StartTransfer(c, GetType)
    /\ UNCHANGED <<settings, given, offset, factsSent, listerVars>>

(***************************************************************************)
(* LIST, NLST and MLSD. Only LIST looks at its arguments: -a is kept in    *)
(* the state, before anything can fail. The listing shows the hidden files *)
(* if the path allows it too. The directory may fail to open.              *)
(***************************************************************************)
ListCommand ==
    /\ transfer = "none"
    /\ \E c \in {"LIST", "NLST", "MLSD"}, a \in BOOLEAN, canSee \in BOOLEAN :
         /\ Accepted(c) /\ (a => c = "LIST")
         /\ hidden' = (hidden \/ a)
         /\ given' = IF a THEN given \cup {"-a"} ELSE given
         /\ \/ /\ OpenDir(hidden' /\ canSee)
               /\ transfer' = "constructing"
               /\ file' = [NoFile EXCEPT !.cmd = c]
            \/ UNCHANGED <<listerVars, transfer, file>>
    /\ UNCHANGED <<ttype, override, rest, initiation, factBits, offset,
                   factsSent>>

\* The constructor of the lister goes on; MLSD is sent as binary.
Construct ==
    /\ transfer = "constructing" /\ AddVpath
    /\ UNCHANGED <<dialogueVars, factsSent>>

StartListing ==
    /\ transfer = "constructing" /\ Constructed
    /\ override' = (override \/ file.cmd = "MLSD")
    /\ StartTransfer(file.cmd, IF override' THEN "BIN" ELSE ttype)
    /\ UNCHANGED <<ttype, rest, initiation, hidden, factBits, given, offset,
                   factsSent>>

-----------------------------------------------------------------------------
(***************************************************************************)
(* The transfer.                                                           *)
(***************************************************************************)

Connected ==
    /\ transfer = "connecting" /\ transfer' = "data"
    /\ UNCHANGED <<settings, file, given, offset, factsSent, listerVars>>

\* SendFile reads and sends a listing, an entry of which shows the facts
\* that are enabled when it is printed.
SendListing ==
    /\ transfer = "data"
    /\ SendBatch
    /\ factsSent' = IF file.cmd = "MLSD" /\ listed' # listed
                    THEN factsSent \cup {Reported} ELSE factsSent
    /\ UNCHANGED dialogueVars

ResetTransferMutant ==
    /\ transfer' = "none" /\ initiation' = FALSE
    /\ rest' = 0 /\ override' = FALSE /\ hidden' = hidden

ResetTransferMutant2 ==
    /\ transfer' = "none" /\ initiation' = FALSE
    /\ rest' = 0 /\ override' = override /\ hidden' = FALSE

ResetTransfer ==
    /\ transfer' = "none" /\ initiation' = FALSE
    /\ rest' = 0 /\ override' = FALSE /\ hidden' = FALSE

(***************************************************************************)
(* The transfer ends, in success or not, at any point where it waits, when *)
(* readdir() fails, or when its file is complete: CleanupTransfer. Then    *)
(* the client begins to set up its next transfer.                          *)
(***************************************************************************)
EndTransfer ==
    /\ InTransfer
    /\ ResetTransfer /\ CloseLister
    /\ file' = NoFile /\ given' = {} /\ offset' = 0 /\ factsSent' = {}
    /\ UNCHANGED <<ttype, factBits>>

Elsewhere == ChangeDir /\ UNCHANGED <<dialogueVars, factsSent>>

Next ==
    \/ SetType \/ Rest \/ PortOrPasv \/ OptsMlst \/ StatList
    \/ FileCommand \/ ListCommand \/ Construct \/ StartListing
    \/ Connected \/ SendListing \/ EndTransfer
    \/ Elsewhere

Spec == Init /\ [][Next]_vars

-----------------------------------------------------------------------------
(***************************************************************************)
(* What the client has set for its next transfer holds until that          *)
(* transfer has ended and no longer, whatever commands were refused or     *)
(* failed on the way and whatever was set while it went on: the data       *)
(* connection, the hidden files, and the last offset that REST promised,   *)
(* unless a REST that was refused since then has dropped it. MLSD is       *)
(* exempt from the type for just its own transfer (FtpState, FtpCmdRest,   *)
(* ResetTransfer).                                                         *)
(***************************************************************************)
SettingsFresh ==
    /\ initiation <=> "PORT" \in given
    /\ hidden <=> "-a" \in given
    /\ rest = IF "no REST" \in given THEN 0 ELSE offset
    /\ override <=> InTransfer /\ file.cmd = "MLSD"

(***************************************************************************)
(* No listing has a hidden file in it that the client did not ask for with *)
(* -a after its last transfer (ParseListArgs, DirLister::List).            *)
(***************************************************************************)
HiddenNeedsAsk ==
    (\E n \in HiddenNames \ garbled : listed[n] > 0) => "-a" \in given

(***************************************************************************)
(* An offset is kept only with a transfer it can mean something for: RETR  *)
(* or STOR, without conversion, though the type may be changed between     *)
(* REST and the transfer (RETR, STOR, STOU, APPE).                         *)
(***************************************************************************)
RestFits ==
    InTransfer /\ file.cmd \in {"RETR"} \cup StoreCommands /\ rest # 0
        => file.cmd \in {"RETR", "STOR"} /\ ~file.ascii

(***************************************************************************)
(* A transfer is converted if and only if the client's type was ASCII when *)
(* it began, except for MLSD, which never is: the exception made for MLSD  *)
(* must not reach another transfer (StartTransfer, GetType).               *)
(***************************************************************************)
TypeHonoured ==
    InTransfer => file.ascii = (file.type = "ASCII" /\ file.cmd # "MLSD")

(***************************************************************************)
(* All entries of an MLSD listing show the same facts: the format refers   *)
(* to the session's state, which OPTS must not change meanwhile            *)
(* (MlsdFormat, FtpCmdOpts).                                               *)
(***************************************************************************)
FactsUniform == \A f, g \in factsSent : f = g

(***************************************************************************)
(* REST answers "Restarting at n. Send STOR or RETR." and the transfer     *)
(* that follows starts there. This is what the commands say; it does not   *)
(* hold (see the README).                                                  *)
(***************************************************************************)
RestApplied ==
    InTransfer /\ file.cmd \in {"RETR", "STOR"} => file.from = rest
=============================================================================
