----------------------------- MODULE FtpSession -----------------------------
(***************************************************************************)
(* One FTP session of the server (WfdeFtpSession) with its client, the     *)
(* session manager's housekeeping and the sockets.                         *)
(*                                                                         *)
(* A session is two coroutines on one pipeline (one thread):               *)
(*   - the control coroutine, ProcessCommands: read a command, run it,     *)
(*     reply, until the connection ends;                                   *)
(*   - the transfer coroutine, TransferFile, spawned by a command that     *)
(*     moves a file.                                                       *)
(* A coroutine runs without interruption until it waits for an             *)
(* asynchronous operation; then the other coroutine, or the housekeeping   *)
(* task, may run. The two share the session: the FTP state, the control    *)
(* socket, the buffer of the reply and the function that aborts the        *)
(* transfer.                                                               *)
(*                                                                         *)
(* ctl and xfr say where each coroutine is; cop and xop what became of the *)
(* operation it waits for:                                                 *)
(*   "none" no operation     "wait" in progress                            *)
(*   "ok", "eof", "err"      completed: the coroutine is ready to run      *)
(*   "now"                   no operation: the coroutine did not yield and *)
(*                           is the one that runs                          *)
(* An operation that has completed keeps its result when its socket is     *)
(* closed before the coroutine runs; one in progress on a closed socket    *)
(* ends with "err".                                                        *)
(***************************************************************************)
EXTENDS Naturals, FtpCommands

CONSTANT ClientCommands   \* the commands the client sends

ASSUME ClientCommandsAssumption == ClientCommands \subseteq Commands

VARIABLES
    ctl,            \* where ProcessCommands is
    cop,            \* its operation
    after,          \* what it does when its reply has been sent
    sock,           \* the control socket is open
    replyFailed,    \* reply_failed_
    closePending,   \* close_pending_
    closed,         \* closed_: DoClose has run
    registered,     \* the session manager owns the session
    prevCmd,        \* prev_cmd_name_, as far as a command can require it
    loggedIn,       \* state_.is_logged_in
    transfer,       \* state_.transfer
    initiation,     \* state_.initiation
    pasv,           \* state_.pasv and whether its acceptor is open
    abortPending,   \* state_.abort_pending
    ccTls,          \* state_.cc_is_encrypted
    prot,           \* state_.encrypt_transfers
    tlsTask,        \* StartTls is in state_.tasks_pending_after_reply
    xfr,            \* where TransferFile is
    xop,            \* its operation
    file,           \* current_file_ is set
    xsock,          \* transfer_sck_
    xtls,           \* transfer_sck_ uses TLS
    protThen,       \* prot when transfer_sck_ was connected (history)
    abortFn,        \* what abort_transfer_ closes
    buf,            \* the coroutine whose reply is in reply_strings_
    finals,         \* final replies to the current transfer (history)
    acceptRefused,  \* the system has refused an accept (history)
    ub              \* the undefined behaviour the session has run into

ctlVars == <<ctl, cop, after>>
connVars == <<sock, replyFailed, closePending, closed, registered>>
loginVars == <<prevCmd, loggedIn, ccTls, prot, tlsTask>>
dataVars == <<transfer, initiation, pasv>>
xfrVars == <<xfr, xop>>
sockVars == <<file, xsock, xtls, protThen, abortFn>>
replyVars == <<buf, finals>>

vars == <<ctlVars, connVars, loginVars, dataVars, abortPending, xfrVars,
          sockVars, replyVars, acceptRefused, ub>>

-----------------------------------------------------------------------------
(***************************************************************************)
(* Types.                                                                  *)
(***************************************************************************)

CtlReplies == {"greet", "reply", "error"}
XfrReplies == {"reply150", "reply425", "reply426", "replyAbor", "replyClosed",
               "replyCaught", "reply226"}
DataStages == {"upgrade", "send", "receive", "shutdown"}

CtlStages == CtlReplies \cup {"start", "read", "tls", "loop", "done"}
XfrStages == XfrReplies \cup DataStages
                 \cup {"idle", "spawned", "connect", "accept", "enter", "next"}

Results == {"ok", "eof", "err", "now"}
Ops == Results \cup {"none", "wait"}

TypeOK ==
    /\ ctl \in CtlStages /\ cop \in Ops /\ after \in {"loop", "quit", "end"}
    /\ sock \in BOOLEAN /\ replyFailed \in BOOLEAN /\ closePending \in BOOLEAN
    /\ closed \in BOOLEAN /\ registered \in BOOLEAN
    /\ prevCmd \in {"none", "USER", "RNFR"} /\ loggedIn \in BOOLEAN
    /\ ccTls \in BOOLEAN /\ prot \in BOOLEAN /\ tlsTask \in BOOLEAN
    /\ transfer \in {"NONE", "INCOMING", "OUTGOING"}
    /\ initiation \in {"NONE", "PORT", "PASV"}
    /\ pasv \in {"none", "open", "closed"} /\ abortPending \in BOOLEAN
    /\ xfr \in XfrStages /\ xop \in Ops
    /\ file \in BOOLEAN /\ xsock \in {"none", "open", "closed"}
    /\ xtls \in BOOLEAN /\ protThen \in BOOLEAN
    /\ abortFn \in {"none", "acceptor", "socket", "dangling"}
    /\ buf \in {"ctl", "xfr"} /\ finals \in 0..2 /\ acceptRefused \in BOOLEAN
    /\ ub \in {"none", "abort", "yield", "touch"}

(***************************************************************************)
(* The session object lives while the manager owns it or OnCommand holds   *)
(* it; session_ is a weak pointer.                                         *)
(***************************************************************************)
Expired == ~registered /\ ctl \notin {"reply", "tls"}

IsInTransfer == transfer # "NONE"

\* No coroutine is between two operations: the pipeline may take a task.
Free == ub = "none" /\ cop # "now" /\ xop # "now"

CtlTurn(stages) ==
    ub = "none" /\ ctl \in stages /\ cop \in Results /\ xop # "now"

XfrTurn(stages) ==
    ub = "none" /\ xfr \in stages /\ xop \in Results /\ cop # "now"

-----------------------------------------------------------------------------
(***************************************************************************)
(* Pieces of the handlers.                                                 *)
(***************************************************************************)

\* Reply() on the control coroutine: nothing is written on a dead connection.
CtlReply(stage, next) ==
    LET dead == replyFailed \/ ~sock IN
    /\ ctl' = stage /\ after' = next
    /\ cop' = IF dead THEN "now" ELSE "wait"
    /\ buf' = IF dead THEN buf ELSE "ctl"

\* Reply() on the transfer coroutine; failed is reply_failed_ as it is then.
XfrReply(stage, failed) ==
    LET dead == failed \/ ~sock IN
    /\ xfr' = stage
    /\ xop' = IF dead THEN "now" ELSE "wait"
    /\ buf' = IF dead THEN buf ELSE "xfr"
    /\ finals' = IF dead \/ stage \in {"reply150", "replyAbor"}
                 THEN finals ELSE finals + 1

\* Calling abort_transfer_. The function set for an accept refers to a local
\* variable of TransferFile, and to state_.pasv.
CallAbort ==
    /\ pasv' = IF abortFn = "acceptor" THEN "closed" ELSE pasv
    /\ xsock' = IF abortFn = "socket" /\ xsock = "open" THEN "closed" ELSE xsock
    /\ ub' = IF abortFn = "dangling" THEN "abort" ELSE ub

ResetTransferMutant ==
    /\ transfer' = "NONE" /\ initiation' = "NONE" /\ pasv' = pasv

ResetTransfer ==
    /\ transfer' = "NONE" /\ initiation' = "NONE" /\ pasv' = "none"

CleanupTransfer ==
    /\ xsock' = "none" /\ xtls' = FALSE /\ protThen' = FALSE /\ file' = FALSE
    /\ ResetTransfer

\* TransferFile returns, leaving fn in abort_transfer_.
TransferReturns(fn) ==
    /\ CleanupTransfer
    /\ xfr' = "idle" /\ xop' = "none"
    /\ abortFn' = IF fn = "acceptor" THEN "dangling" ELSE fn
    /\ UNCHANGED <<ctlVars, loginVars, acceptRefused, ub>>

-----------------------------------------------------------------------------
(***************************************************************************)
(* The control coroutine: ProcessCommands.                                 *)
(***************************************************************************)

Init ==
    /\ ctl = "start" /\ cop = "ok" /\ after = "loop"
    /\ sock = TRUE /\ replyFailed = FALSE /\ closePending = FALSE
    /\ closed = FALSE /\ registered = TRUE
    /\ prevCmd = "none" /\ loggedIn = FALSE
    /\ ccTls = FALSE /\ prot = FALSE /\ tlsTask = FALSE
    /\ transfer = "NONE" /\ initiation = "NONE" /\ pasv = "none"
    /\ abortPending = FALSE
    /\ xfr = "idle" /\ xop = "none"
    /\ file = FALSE /\ xsock = "none" /\ xtls = FALSE /\ protThen = FALSE
    /\ abortFn = "none"
    /\ buf = "ctl" /\ finals = 0 /\ acceptRefused = FALSE /\ ub = "none"

\* ProcessCommands begins with the greeting.
Greet ==
    /\ CtlTurn({"start"}) /\ ~Expired
    /\ CtlReply("greet", "loop")
    /\ UNCHANGED <<connVars, loginVars, dataVars, abortPending, xfrVars,
                   sockVars,
                   finals, acceptRefused, ub>>

\* The condition of the command loop.
KeepGoing == ~replyFailed /\ ~closePending /\ ~Expired /\ sock

ReadNextCommand ==
    /\ CtlTurn({"loop"})
    /\ KeepGoing
    /\ ctl' = "read" /\ cop' = "wait"
    /\ UNCHANGED <<after, connVars, loginVars, dataVars, abortPending, xfrVars,
                   sockVars, replyVars, acceptRefused, ub>>

\* DoClose: abort_transfer_ is called only if the session still exists.
DoClose ==
    /\ closePending' = TRUE /\ sock' = FALSE /\ closed' = TRUE
    /\ registered' = FALSE
    /\ IF registered THEN CallAbort ELSE UNCHANGED <<pasv, xsock, ub>>
    /\ ctl' = "done" /\ cop' = "none"

EndSessionMutant ==
    /\ CtlTurn({"loop"}) /\ ~KeepGoing
    /\ DoClose
    /\ UNCHANGED <<after, replyFailed, loginVars, transfer, initiation,
                   abortPending, xfrVars, file, xtls, protThen, abortFn,
                   replyVars, acceptRefused>>

\* The loop ends: its condition is false, or the read failed. Or the session
\* is gone before it began.
EndSession ==
    /\ \/ CtlTurn({"start"}) /\ Expired
       \/ CtlTurn({"loop"}) /\ ~KeepGoing
       \/ CtlTurn({"read"}) /\ cop = "err"
    /\ DoClose
    /\ UNCHANGED <<after, replyFailed, loginVars, transfer, initiation,
                   abortPending, xfrVars, file, xtls, protThen, abortFn,
                   replyVars, acceptRefused>>

\* A reply of the control coroutine has been written, or has failed. After
\* AUTH's reply the pending task starts the TLS handshake.
CtlReplied ==
    /\ CtlTurn(CtlReplies)
    /\ replyFailed' = (replyFailed \/ cop = "err")
    /\ IF cop = "ok" /\ tlsTask
       THEN /\ ctl' = "tls" /\ cop' = "wait" /\ tlsTask' = FALSE
            /\ UNCHANGED <<sock, closePending>>
       ELSE /\ ctl' = "loop" /\ cop' = "now"
            /\ sock' = (sock /\ after # "quit")
            /\ closePending' = (closePending \/ after # "loop")
            /\ UNCHANGED tlsTask
    /\ UNCHANGED <<after, closed, registered, prevCmd, loggedIn, ccTls, prot,
                   dataVars, abortPending, xfrVars, sockVars, replyVars,
                   acceptRefused, ub>>

\* StartTls ends; a failed handshake closes the control socket.
CtlUpgraded ==
    /\ CtlTurn({"tls"})
    /\ ctl' = "loop" /\ cop' = "now"
    /\ ccTls' = (ccTls \/ cop = "ok")
    /\ sock' = (sock /\ cop = "ok")
    /\ UNCHANGED <<after, replyFailed, closePending, closed, registered,
                   prevCmd,
                   loggedIn, prot, tlsTask, dataVars, abortPending, xfrVars,
                   sockVars, replyVars, acceptRefused, ub>>

-----------------------------------------------------------------------------
(***************************************************************************)
(* Commands: ProcessRequest, OnCommand and the OnCmd of each command.      *)
(***************************************************************************)

HaveRequest == CtlTurn({"read"}) /\ cop = "ok"

notCommand == <<connVars, loginVars, dataVars, abortPending, xfrVars, sockVars,
                finals, acceptRefused, ub>>

\* An unknown or unreadable command, answered outside OnCommand; a line that
\* fills the input buffer ends the session.
BadRequest ==
    /\ HaveRequest
    /\ \E next \in {"loop", "end"} : CtlReply("error", next)
    /\ UNCHANGED notCommand

\* OnCommand returns without a word if the session is gone.
OrphanRequest ==
    /\ HaveRequest
    /\ Expired
    /\ ctl' = "loop" /\ cop' = "now"
    /\ UNCHANGED <<after, buf, notCommand>>

Gate(c) == Refused(c, prevCmd, loggedIn, IsInTransfer, initiation # "NONE", ccTls)

\* OnCommand answers a refusal, or parameters that do not match.
Refuse(c) ==
    /\ HaveRequest
    /\ ~Expired
    /\ Gate(c) \/ c \in Checked
    /\ CtlReply("reply", "loop")
    /\ UNCHANGED notCommand

\* OnCommand runs the command. Only this records it as the previous one.
Runs(c) ==
    /\ HaveRequest
    /\ ~Expired
    /\ ~Gate(c)

Records(c) == prevCmd' = IF c \in {"USER", "RNFR"} THEN c ELSE "none"

\* OnCmd throws: the client is told, and the session ends.
InternalError(c) ==
    /\ Runs(c)
    /\ c \in {"PORT", "PASV", "MDTM"}
    /\ CtlReply("reply", "end")
    /\ pasv' \in IF c = "PASV" /\ pasv = "none" THEN {"open", "closed"} ELSE {pasv}
    /\ UNCHANGED <<connVars, loginVars, transfer, initiation, abortPending,
                   xfrVars, sockVars, finals, acceptRefused, ub>>

\* USER logs in a user without password; PASS the user named by USER.
OnLogin(c) ==
    /\ c \in {"USER", "PASS"}
    /\ Runs(c)
    /\ loggedIn' \in BOOLEAN
    /\ Records(c) /\ CtlReply("reply", "loop")
    /\ UNCHANGED <<connVars, ccTls, prot, tlsTask, dataVars, abortPending,
                   xfrVars, sockVars, finals, acceptRefused, ub>>

OnPort ==
    /\ Runs("PORT")
    /\ initiation' = "PORT"
    /\ Records("PORT") /\ CtlReply("reply", "loop")
    /\ UNCHANGED <<connVars, loggedIn, ccTls, prot, tlsTask, transfer, pasv,
                   abortPending, xfrVars, sockVars, finals, acceptRefused, ub>>

\* An acceptor from an earlier PASV is used again.
OnPasv ==
    /\ Runs("PASV")
    /\ initiation' = "PASV"
    /\ pasv' = IF pasv = "none" THEN "open" ELSE pasv
    /\ Records("PASV") /\ CtlReply("reply", "loop")
    /\ UNCHANGED <<connVars, loggedIn, ccTls, prot, tlsTask, transfer,
                   abortPending, xfrVars, sockVars, finals, acceptRefused, ub>>

OnAuth ==
    /\ Runs("AUTH")
    /\ tlsTask' = (tlsTask \/ ~ccTls)
    /\ Records("AUTH") /\ CtlReply("reply", "loop")
    /\ UNCHANGED <<connVars, loggedIn, ccTls, prot, dataVars, abortPending,
                   xfrVars, sockVars, finals, acceptRefused, ub>>

OnProt ==
    /\ Runs("PROT")
    /\ prot' \in BOOLEAN
    /\ Records("PROT") /\ CtlReply("reply", "loop")
    /\ UNCHANGED <<connVars, loggedIn, ccTls, tlsTask, dataVars, abortPending,
                   xfrVars, sockVars, finals, acceptRefused, ub>>

OnQuit ==
    /\ Runs("QUIT")
    /\ Records("QUIT") /\ CtlReply("reply", "quit")
    /\ UNCHANGED <<connVars, loggedIn, ccTls, prot, tlsTask, dataVars,
                   abortPending, xfrVars, sockVars, finals, acceptRefused, ub>>

\* The commands that only reply, as far as the two coroutines are concerned,
\* and a transfer command that cannot open its file.
OnReplyOnly(c) ==
    /\ c \notin {"USER", "PASS", "PORT", "PASV", "AUTH", "PROT", "QUIT", "ABOR"}
    /\ Runs(c)
    /\ Records(c) /\ CtlReply("reply", "loop")
    /\ UNCHANGED <<connVars, loggedIn, ccTls, prot, tlsTask, dataVars,
                   abortPending, xfrVars, sockVars, finals, acceptRefused, ub>>

CarryOutAbortMutant(pending) ==
    IF pending /\ abortFn # "none"
    THEN CallAbort /\ abortFn' = abortFn
    ELSE UNCHANGED <<pasv, xsock, abortFn, ub>>

\* OnCommand after a command without a reply: an abort that is pending is
\* carried out, once.
CarryOutAbort(pending) ==
    IF pending /\ abortFn # "none"
    THEN CallAbort /\ abortFn' = "none"
    ELSE UNCHANGED <<pasv, xsock, abortFn, ub>>

OnAbor ==
    /\ Runs("ABOR")
    /\ abortPending' = TRUE
    /\ CarryOutAbort(TRUE)
    /\ Records("ABOR")
    /\ ctl' = "loop" /\ cop' = "now"
    /\ UNCHANGED <<after, connVars, loggedIn, ccTls, prot, tlsTask, transfer,
                   initiation, xfrVars, file, xtls, protThen, replyVars,
                   acceptRefused>>

\* The file is open: StartTransfer spawns TransferFile.
OnTransfer(c) ==
    /\ c \in TransferCommands
    /\ Runs(c)
    /\ file' = TRUE
    /\ transfer' = IF c \in SendCommands THEN "OUTGOING" ELSE "INCOMING"
    /\ xfr' = "spawned" /\ xop' = "ok" /\ finals' = 0
    /\ CarryOutAbort(abortPending)
    /\ Records(c)
    /\ ctl' = "loop" /\ cop' = "now"
    /\ UNCHANGED <<after, connVars, loggedIn, ccTls, prot, tlsTask, initiation,
                   abortPending, xtls, protThen, buf, acceptRefused>>

OnCommand(c) ==
    \/ Refuse(c) \/ InternalError(c) \/ OnLogin(c) \/ OnReplyOnly(c)
    \/ OnTransfer(c)
    \/ c = "PORT" /\ OnPort
    \/ c = "PASV" /\ OnPasv
    \/ c = "AUTH" /\ OnAuth
    \/ c = "PROT" /\ OnProt
    \/ c = "QUIT" /\ OnQuit
    \/ c = "ABOR" /\ OnAbor

-----------------------------------------------------------------------------
(***************************************************************************)
(* The transfer coroutine: TransferFile, SendFile, ReceiveFile.            *)
(***************************************************************************)

\* Everything but the place of the transfer coroutine and its replies.
notXfr == <<ctlVars, connVars, loginVars, dataVars, abortPending, sockVars,
            acceptRefused, ub>>

\* Goes on to the next point of the coroutine without yielding.
XfrGoto(stage) ==
    /\ xfr' = stage /\ xop' = "now"
    /\ UNCHANGED <<replyVars, notXfr>>

\* Starts an operation on the data connection and yields.
XfrAwait(stage) ==
    /\ xfr' = stage /\ xop' = "wait"
    /\ UNCHANGED <<replyVars, notXfr>>

XfrSays(stage) == XfrReply(stage, replyFailed) /\ UNCHANGED notXfr

\* A transfer that ends by itself clears abort_transfer_ first.
TransferEnds ==
    /\ TransferReturns("none")
    /\ UNCHANGED <<connVars, abortPending, replyVars>>

\* The write of a reply returns to the transfer coroutine, which also runs
\* the tasks that are pending after a reply (see ForeignTask).
XfrReplied(stages) ==
    /\ XfrTurn(stages)
    /\ ~(xop = "ok" /\ tlsTask)
    /\ replyFailed' = (replyFailed \/ xop = "err")
    /\ UNCHANGED <<sock, closePending, closed, registered>>

\* The pending StartTls, run by the transfer coroutine with the yield context
\* of the control coroutine.
ForeignTask ==
    /\ XfrTurn(XfrReplies)
    /\ xop = "ok" /\ tlsTask
    /\ ub' = "yield"
    /\ UNCHANGED <<ctlVars, connVars, loginVars, dataVars, abortPending,
                   xfrVars,
                   sockVars, replyVars, acceptRefused>>

TransferStarts == XfrTurn({"spawned"}) /\ XfrSays("reply150")

GoingDown == replyFailed \/ xop = "err" \/ Expired \/ closed \/ closePending

\* After the 150 reply: a session that is going down starts no transfer.
TransferDropped ==
    /\ XfrReplied({"reply150"})
    /\ GoingDown
    /\ TransferReturns(abortFn)
    /\ UNCHANGED <<abortPending, replyVars>>

TransferOpened ==
    /\ XfrReplied({"reply150"})
    /\ ~GoingDown
    /\ xfr' = IF initiation = "PORT" THEN "connect" ELSE "accept"
    /\ xop' = "wait"
    /\ abortFn' = IF initiation = "PORT" THEN abortFn ELSE "acceptor"
    /\ UNCHANGED <<ctlVars, loginVars, dataVars, abortPending, file, xsock,
                   xtls, protThen, replyVars, acceptRefused, ub>>

\* There is no data connection.
NoConnection ==
    /\ \/ XfrTurn({"accept", "connect", "upgrade"}) /\ xop = "err"
       \/ XfrTurn({"connect"}) /\ Expired
    /\ XfrSays("reply425")

TransferRefused ==
    /\ XfrReplied({"reply425"})
    /\ TransferReturns(abortFn)
    /\ UNCHANGED <<abortPending, replyVars>>

TransferConnectedMutant ==
    /\ \/ XfrTurn({"accept"}) /\ xop = "ok"
       \/ XfrTurn({"connect"}) /\ xop = "ok" /\ ~Expired
    /\ xsock' = "open" /\ protThen' = prot
    /\ xfr' = IF prot THEN "upgrade" ELSE "enter"
    /\ xop' = IF prot THEN "wait" ELSE "now"
    /\ UNCHANGED <<ctlVars, connVars, loginVars, dataVars, abortPending, file,
                   xtls, abortFn, replyVars, acceptRefused, ub>>

\* The data connection is up; it is upgraded to TLS if PROT asks for it.
TransferConnected ==
    /\ \/ XfrTurn({"accept"}) /\ xop = "ok"
       \/ XfrTurn({"connect"}) /\ xop = "ok" /\ ~Expired
    /\ abortFn' = "socket" /\ xsock' = "open" /\ protThen' = prot
    /\ xfr' = IF prot THEN "upgrade" ELSE "enter"
    /\ xop' = IF prot THEN "wait" ELSE "now"
    /\ UNCHANGED <<ctlVars, connVars, loginVars, dataVars, abortPending, file,
                   xtls, replyVars, acceptRefused, ub>>

\* The failure of the handshake is logged and forgotten.
TransferUpgradedMutant ==
    /\ XfrTurn({"upgrade"})
    /\ xtls' = (xop = "ok")
    /\ xfr' = "enter" /\ xop' = "now"
    /\ UNCHANGED <<ctlVars, connVars, loginVars, dataVars, abortPending, file,
                   xsock, protThen, abortFn, replyVars, acceptRefused, ub>>

TransferUpgraded ==
    /\ XfrTurn({"upgrade"}) /\ xop = "ok"
    /\ xtls' = TRUE
    /\ xfr' = "enter" /\ xop' = "now"
    /\ UNCHANGED <<ctlVars, connVars, loginVars, dataVars, abortPending, file,
                   xsock, protThen, abortFn, replyVars, acceptRefused, ub>>

NotifyFailedMutant == TransferEnds

\* NotifyFailed says nothing on a dead connection.
NotifyFailed ==
    IF replyFailed \/ ~sock THEN TransferEnds ELSE XfrSays("reply426")

\* The first test of SendFile and ReceiveFile.
EnterTransfer ==
    /\ XfrTurn({"enter"})
    /\ IF xsock = "open" THEN XfrGoto("next") ELSE NotifyFailed

\* The data is through. A TLS connection is shut down first; then the socket
\* and the file are closed, which may fail for a file that was written.
Complete ==
    /\ xsock' = "closed"
    /\ \/ XfrReply("reply226", replyFailed)
       \/ transfer = "INCOMING" /\ XfrReply("replyCaught", replyFailed)
    /\ UNCHANGED <<ctlVars, connVars, loginVars, dataVars, abortPending, file,
                   xtls, protThen, abortFn, acceptRefused, ub>>

AllDone == IF xtls THEN XfrAwait("shutdown") ELSE Complete

\* The file throws: TransferFile catches it.
FileFails == XfrSays("replyCaught")

SendNext ==
    /\ XfrTurn({"next"}) /\ transfer = "OUTGOING"
    /\ XfrAwait("send") \/ AllDone \/ FileFails

SentMutant ==
    /\ XfrTurn({"send"})
    /\ \/ xop = "err" /\ XfrGoto("next")
       \/ xop = "ok" /\ Expired /\ TransferEnds
       \/ xop = "ok" /\ ~Expired /\ XfrGoto("next")

SentReplyMutant ==
    /\ XfrTurn({"send"})
    /\ \/ xop = "err" /\ XfrSays("replyClosed")
       \/ xop = "ok" /\ Expired /\ TransferEnds
       \/ xop = "ok" /\ ~Expired /\ XfrGoto("next")

Sent ==
    /\ XfrTurn({"send"})
    /\ \/ xop = "err" /\ NotifyFailed
       \/ xop = "ok" /\ Expired /\ TransferEnds
       \/ xop = "ok" /\ ~Expired /\ XfrGoto("next")

ReceiveNext ==
    /\ XfrTurn({"next"}) /\ transfer = "INCOMING"
    /\ XfrAwait("receive") \/ FileFails

Received ==
    /\ XfrTurn({"receive"})
    /\ \/ xop = "eof" /\ (AllDone \/ FileFails)
       \/ xop = "err" /\ NotifyFailed
       \/ xop = "ok" /\ Expired /\ TransferEnds
       \/ xop = "ok" /\ ~Expired /\ xsock = "closed" /\ XfrSays("replyClosed")
       \/ xop = "ok" /\ ~Expired /\ xsock = "open"
             /\ (XfrGoto("next") \/ FileFails)

\* ReceiveFile has replied that the socket was closed, and goes on. Touching
\* the session is due every few seconds; by now the session may be gone.
ReceiveOnClosed ==
    /\ XfrReplied({"replyClosed"})
    /\ \/ /\ xfr' = "next" /\ xop' = "now"
          /\ UNCHANGED <<replyVars, acceptRefused, ub>>
       \/ /\ Expired
          /\ ub' = "touch"
          /\ UNCHANGED <<replyVars, xfrVars>>
       \/ XfrReply("replyCaught", replyFailed') /\ UNCHANGED ub
    /\ UNCHANGED <<ctlVars, loginVars, dataVars, abortPending, sockVars,
                   acceptRefused>>

\* A failed TLS shutdown is fatal for an upload only.
ShutDown ==
    /\ XfrTurn({"shutdown"})
    /\ IF xop = "err" /\ transfer = "INCOMING" THEN NotifyFailed ELSE Complete

\* NotifyFailed has sent 426; a pending abort is answered too.
Notified ==
    /\ XfrReplied({"reply426"})
    /\ IF abortPending
       THEN /\ abortPending' = FALSE
            /\ XfrReply("replyAbor", replyFailed')
            /\ UNCHANGED <<ctlVars, loginVars, dataVars, sockVars, acceptRefused, ub>>
       ELSE TransferReturns("none") /\ UNCHANGED <<abortPending, replyVars>>

TransferDone ==
    /\ XfrReplied({"reply226", "replyAbor", "replyCaught"})
    /\ TransferReturns("none")
    /\ UNCHANGED <<abortPending, replyVars>>

-----------------------------------------------------------------------------
(***************************************************************************)
(* The session manager: a session idle for too long is closed. Time may    *)
(* pass between any two steps.                                             *)
(***************************************************************************)

SessionTimeout ==
    /\ Free
    /\ registered
    /\ registered' = FALSE /\ sock' = FALSE
    /\ UNCHANGED <<ctlVars, replyFailed, closePending, closed, loginVars,
                   dataVars,
                   abortPending, xfrVars, sockVars, replyVars, acceptRefused, ub>>

(***************************************************************************)
(* Asynchronous operations: the network, the operating system, the client. *)
(***************************************************************************)

CtlCompletes(r) ==
    /\ cop' = r
    /\ UNCHANGED <<ctl, after, connVars, loginVars, dataVars, abortPending,
                   xfrVars,
                   sockVars, replyVars, acceptRefused, ub>>

XfrCompletes(r) ==
    /\ xop' = r
    /\ UNCHANGED <<ctlVars, connVars, loginVars, dataVars, abortPending, xfr,
                   sockVars, replyVars, acceptRefused, ub>>

CtlWaits(stages) == ub = "none" /\ cop = "wait" /\ ctl \in stages
XfrWaits(stages) == ub = "none" /\ xop = "wait" /\ xfr \in stages

\* What is in progress on a socket that has been closed is cancelled.
CtlCancelled == CtlWaits(CtlStages) /\ ~sock /\ CtlCompletes("err")

XfrCancelled ==
    /\ \/ XfrWaits(XfrReplies) /\ ~sock
       \/ XfrWaits(DataStages) /\ xsock = "closed"
       \/ XfrWaits({"accept"}) /\ pasv = "closed"
    /\ XfrCompletes("err")

CtlWritten ==
    CtlWaits(CtlReplies) /\ sock /\ \E r \in {"ok", "err"} : CtlCompletes(r)

XfrWritten ==
    XfrWaits(XfrReplies) /\ sock /\ \E r \in {"ok", "err"} : XfrCompletes(r)

ConnectReturns ==
    XfrWaits({"connect"}) /\ \E r \in {"ok", "err"} : XfrCompletes(r)

\* The client sends a command, does its part of the handshake, or is gone.
ClientActs ==
    CtlWaits({"read", "tls"}) /\ sock /\ \E r \in {"ok", "err"} : CtlCompletes(r)

ClientConnects == XfrWaits({"accept"}) /\ pasv = "open" /\ XfrCompletes("ok")

\* The system is out of descriptors or memory.
AcceptFails ==
    /\ XfrWaits({"accept"}) /\ pasv = "open"
    /\ xop' = "err" /\ acceptRefused' = TRUE
    /\ UNCHANGED <<ctlVars, connVars, loginVars, dataVars, abortPending, xfr,
                   sockVars, replyVars, ub>>

\* The client reads or writes data, ends the upload, or breaks the connection.
ClientTransfers ==
    /\ xsock = "open"
    /\ \/ XfrWaits({"upgrade", "send", "shutdown"})
             /\ \E r \in {"ok", "err"} : XfrCompletes(r)
       \/ XfrWaits({"receive"}) /\ \E r \in {"ok", "eof", "err"} : XfrCompletes(r)

-----------------------------------------------------------------------------
Control ==
    \/ Greet \/ ReadNextCommand \/ EndSession \/ CtlReplied \/ CtlUpgraded
    \/ BadRequest \/ OrphanRequest
    \/ \E c \in ClientCommands : OnCommand(c)

TransferFile ==
    \/ ForeignTask \/ TransferStarts \/ TransferDropped \/ TransferOpened
    \/ NoConnection \/ TransferRefused \/ TransferConnected \/ TransferUpgraded
    \/ EnterTransfer \/ SendNext \/ Sent \/ ReceiveNext \/ Received
    \/ ReceiveOnClosed \/ ShutDown \/ Notified \/ TransferDone

System == CtlCancelled \/ XfrCancelled \/ CtlWritten \/ XfrWritten \/ ConnectReturns

Client == ClientActs \/ ClientConnects \/ AcceptFails \/ ClientTransfers

Next == Control \/ TransferFile \/ SessionTimeout \/ System \/ Client

Spec == Init /\ [][Next]_vars

(***************************************************************************)
(* Fairness. The pipeline runs its tasks in the order they became ready,   *)
(* so a coroutine that is ready gets its turn although the other one keeps *)
(* running; a cancelled operation completes; the system takes or refuses a *)
(* reply, which is short, and gives up a connection attempt after a while. *)
(* Nothing is assumed of the client and of the session's timeout.          *)
(***************************************************************************)
Fairness ==
    /\ SF_vars(Control) /\ SF_vars(TransferFile)
    /\ WF_vars(CtlCancelled) /\ WF_vars(XfrCancelled)
    /\ WF_vars(CtlWritten) /\ WF_vars(XfrWritten)
    /\ WF_vars(ConnectReturns)

FairSpec == Spec /\ Fairness

-----------------------------------------------------------------------------
(***************************************************************************)
(* Safety.                                                                 *)
(***************************************************************************)

\* The assertions of TransferFile, SendFile, ReceiveFile and GetPortEndpoint,
\* and that the FTP state agrees with the coroutines: a transfer is in
\* progress in the eyes of OnCommand exactly while TransferFile runs and owns
\* a file, it starts without a socket, has one while data moves, and connects
\* or accepts as the PORT or PASV in force says.
TransferConsistent ==
    /\ IsInTransfer <=> xfr # "idle"
    /\ file <=> xfr # "idle"
    /\ xfr \in {"idle", "spawned", "reply150", "connect", "accept"}
           => xsock = "none"
    /\ xfr \in DataStages \cup {"enter", "next"} => xsock # "none"
    /\ xfr = "connect" => initiation = "PORT"
    /\ xfr = "accept" => initiation = "PASV" /\ pasv # "none"

\* The acceptor that PASV announced is still listening when the client gives
\* the command that uses it, whatever was aborted before.
PasvUsable == initiation = "PASV" /\ xfr = "idle" => pasv = "open"

\* While the transfer coroutine waits for the other end of the data
\* connection, the connection is closed already or abort_transfer_ would close
\* it: an ABOR or the end of the session does not leave it waiting.
Interruptible ==
    /\ xfr = "accept" => abortFn = "acceptor" \/ pasv = "closed"
    /\ xfr \in DataStages => abortFn = "socket" \/ xsock = "closed"

\* abort_transfer_ refers to the socket and the acceptor of an accept only
\* while that call of TransferFile is running. In a session that may still
\* call it, it outlives them only after an accept that the system refused.
AbortInScope ==
    /\ abortFn = "acceptor" => xfr \in {"accept", "reply425"} /\ pasv # "none"
    /\ abortFn = "dangling" => acceptRefused \/ ctl = "done"
    /\ ub = "abort" => acceptRefused

\* No data connection is offered or used for a client that has not logged in.
DataNeedsLogin ==
    initiation # "NONE" \/ pasv # "none" \/ xfr # "idle" => loggedIn

\* Data is protected only in a session whose control connection is encrypted.
ProtNeedsTls == prot \/ xtls => ccTls

\* The data connection is protected exactly if PROT asked for it when the
\* connection came up, whatever PROT said before and says while the handshake
\* is in progress: a handshake that fails never leaves the data in the clear.
ProtHonoured ==
    xfr \in {"enter", "next", "send", "receive", "shutdown"}
        => (xtls <=> protThen)

\* A transfer that was begun is not forgotten: TransferFile returns only after
\* a final reply, unless the client can no longer be told.
TransferAnswered ==
    [][xfr # "idle" /\ xfr' = "idle"
          => finals > 0 \/ replyFailed' \/ ~sock' \/ Expired']_vars

(***************************************************************************)
(* The session implements FtpService. A transfer has a data connection     *)
(* from when it is accepted or connected until it is cleaned up, whether   *)
(* or not it has been closed meanwhile; the client is lost when the        *)
(* control socket is closed or a reply has failed.                         *)
(***************************************************************************)
Job == CASE xfr = "idle" -> "idle"
         [] xfr = "spawned" -> "begun"
         [] xfr \notin {"idle", "spawned"} /\ xsock = "none" -> "announced"
         [] OTHER -> "connected"

Told == IF xfr = "idle" THEN 0 ELSE finals

Lost == replyFailed \/ ~sock

Over == ctl = "done"

Service == INSTANCE FtpService WITH
    user <- loggedIn, secure <- ccTls, lost <- Lost, over <- Over,
    offer <- initiation, job <- Job, told <- Told, sealed <- xtls

ImplementsService == Service!Spec

(***************************************************************************)
(* Liveness.                                                               *)
(***************************************************************************)

\* Once the control socket is closed, by either coroutine or by the session's
\* timeout, ProcessCommands ends.
ControlEnds == ~sock ~> ctl = "done" \/ ub # "none"

\* Once the data connection is closed under it, by an ABOR or by the end of
\* the session, TransferFile ends, whatever the client does.
ClosedTransferEnds == xsock = "closed" ~> xfr = "idle" \/ ub # "none"

(***************************************************************************)
(* What comments and documents say and the code does not do.               *)
(***************************************************************************)

\* "Control connection only!" says the declaration of yield_: StartTls, which
\* uses it, runs on the control coroutine.
YieldIsControlOnly == ub # "yield"

\* reply_strings_ holds "the actual data to send" while a reply is being
\* written.
ReplyIntact ==
    /\ ctl \in CtlReplies /\ cop = "wait" => buf = "ctl"
    /\ xfr \in XfrReplies /\ xop = "wait" => buf = "xfr"
=============================================================================
