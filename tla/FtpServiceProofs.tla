-------------------------- MODULE FtpServiceProofs --------------------------
(***************************************************************************)
(* FtpSession implements FtpService, for every set of commands a client    *)
(* may use: the initial state maps to the initial state, and each step of  *)
(* the coroutines, the manager, the network and the client to a step of    *)
(* the service or to a stutter.                                            *)
(***************************************************************************)
EXTENDS FtpSessionProofs

\* The transfer and what it uses look the same to the client.
SameJob ==
    /\ xfr' = "idle" <=> xfr = "idle"
    /\ xfr' = "spawned" <=> xfr = "spawned"
    /\ xsock' = "none" <=> xsock = "none"
    /\ finals' = finals /\ initiation' = initiation /\ xtls' = xtls

\* So does everything else, except that the client may have been lost.
Keeps ==
    /\ SameJob
    /\ loggedIn' = loggedIn /\ ccTls' = ccTls
    /\ Over' <=> Over
    /\ Lost => Lost'

-----------------------------------------------------------------------------
\* Then the transfer of the service is the same.
LEMMA SameJobMaps ==
    ASSUME SameJob PROVE Job' = Job /\ Told' = Told
BY DEF SameJob, Job, Told

\* The client notices nothing, or is lost.
LEMMA KeepsMaps ==
    ASSUME Keeps PROVE [Service!Next]_(Service!vars)
<1>1. Job' = Job /\ Told' = Told
    BY SameJobMaps DEF Keeps
<1>2. CASE Lost' /\ ~Lost
  <2>1. Service!Lose
      BY <1>1, <1>2 DEF Keeps, SameJob, Service!Lose, Service!jobVars, Over, Lost
  <2> QED BY <2>1 DEF Service!Next
<1>3. CASE Lost' <=> Lost
  <2>1. UNCHANGED Service!vars
      BY <1>1, <1>3 DEF Keeps, SameJob, Service!vars, Service!clientVars,
         Service!jobVars, Over, Lost
  <2> QED BY <2>1
<1> QED BY <1>2, <1>3 DEF Keeps

\* A session the manager has let go of has lost its socket.
ReleasedInv == registered \/ ~sock

\* No step breaks that: the socket of a session that ended stays closed.
LEMMA ReleasedStep ==
    ASSUME IInv, ReleasedInv, [Next]_vars PROVE ReleasedInv'
<1> USE DEF ReleasedInv, connVars
<1>1. CASE EndSession
  BY <1>1 DEF EndSession, DoClose
<1>2. CASE CtlReplied \/ CtlUpgraded \/ SessionTimeout
  BY <1>2 DEF CtlReplied, CtlUpgraded, SessionTimeout
<1>3. CASE Greet \/ ReadNextCommand \/ BadRequest \/ OrphanRequest
  BY <1>3 DEF Greet, ReadNextCommand, BadRequest, OrphanRequest, notCommand
<1>4. ASSUME NEW c \in ClientCommands, OnCommand(c) PROVE ReleasedInv'
  BY <1>4 DEF OnCommand, Refuse, InternalError, OnLogin, OnReplyOnly,
      OnTransfer, OnPort, OnPasv, OnAuth, OnProt, OnQuit, OnAbor, notCommand
<1>5. CASE ForeignTask \/ TransferStarts \/ NoConnection \/ TransferConnected
              \/ TransferUpgraded
  BY <1>5 DEF ForeignTask, TransferStarts, NoConnection, TransferConnected,
      TransferUpgraded, XfrSays, notXfr
<1>6. CASE TransferDropped \/ TransferOpened \/ TransferRefused
              \/ ReceiveOnClosed \/ Notified \/ TransferDone
  BY <1>6 DEF TransferDropped, TransferOpened, TransferRefused,
      ReceiveOnClosed, Notified, TransferDone, XfrReplied
<1>7. CASE EnterTransfer \/ Sent \/ ShutDown
  BY <1>7 DEF EnterTransfer, Sent, ShutDown, NotifyFailed, TransferEnds,
      Complete, XfrGoto, XfrSays, notXfr
<1>8. CASE SendNext \/ ReceiveNext \/ Received
  BY <1>8 DEF SendNext, ReceiveNext, Received, AllDone, Complete, FileFails,
      NotifyFailed, TransferEnds, XfrAwait, XfrGoto, XfrSays, notXfr
<1>9. CASE System \/ Client
  BY <1>9 DEF System, Client, CtlCancelled, XfrCancelled, CtlWritten,
      XfrWritten, ConnectReturns, ClientActs, ClientConnects, AcceptFails,
      ClientTransfers, CtlCompletes, XfrCompletes
<1>10. CASE UNCHANGED vars
  BY <1>10 DEF vars
<1> QED BY <1>1, <1>2, <1>3, <1>4, <1>5, <1>6, <1>7, <1>8, <1>9, <1>10
    DEF Next, Control, TransferFile

-----------------------------------------------------------------------------
(***************************************************************************)
(* What several actions have in common.                                    *)
(***************************************************************************)

\* A reply of the transfer coroutine that is one of its final ones counts,
\* unless the connection is dead.
LEMMA AnswerMaps ==
    ASSUME NEW stage \in XfrReplies \ {"reply150", "replyAbor"},
           NEW failed \in BOOLEAN, failed <=> replyFailed',
           replyFailed => replyFailed',
           XfrReply(stage, failed), xfr \notin {"idle", "spawned"},
           finals = 0 \/ (finals = 1 /\ xsock # "none"),
           xsock' = "none" <=> xsock = "none",
           initiation' = initiation, xtls' = xtls, loggedIn' = loggedIn,
           ccTls' = ccTls, sock' = sock, ctl' = ctl
    PROVE  [Service!Next]_(Service!vars)
<1>1. xfr' = stage /\ stage \notin {"idle", "spawned"}
    BY DEF XfrReply, XfrReplies
<1>2. CASE failed \/ ~sock
  <2>1. finals' = finals
      BY <1>2 DEF XfrReply
  <2>2. Keeps
      BY <1>1, <2>1 DEF Keeps, SameJob, Over, Lost
  <2> QED BY <2>2, KeepsMaps
<1>3. CASE ~failed /\ sock
  <2>1. finals' = finals + 1
      BY <1>3 DEF XfrReply
  <2>2. Job' = Job /\ Told = finals /\ Told' = finals + 1
      BY <1>1, <2>1 DEF Job, Told
  <2>3. ~Lost /\ ~Lost'
      BY <1>3 DEF Lost
  <2>4. Job = IF xsock = "none" THEN "announced" ELSE "connected"
      BY DEF Job
  <2>5. Lost' = Lost /\ Over' = Over
      BY <2>3 DEF Lost, Over
  <2>6. \/ Job = "announced" /\ Told = 0
        \/ Job = "connected" /\ Told \in {0, 1}
      BY <2>2, <2>4
  <2>7. Told' = Told + 1
      BY <2>2
  <2>8. Service!Answer
      BY <2>2, <2>3, <2>5, <2>6, <2>7 DEF Service!Answer, Service!clientVars
  <2> QED BY <2>8 DEF Service!Next
<1> QED BY <1>2, <1>3

\* TransferFile returns.
LEMMA ReturnMaps ==
    ASSUME xfr \notin {"idle", "spawned"}, NEW fn, TransferReturns(fn),
           Lost => Lost', finals > 0 \/ Lost'
    PROVE  [Service!Next]_(Service!vars)
<1>1. /\ xfr' = "idle" /\ xsock' = "none" /\ xtls' = FALSE
      /\ initiation' = "NONE" /\ ctl' = ctl /\ loggedIn' = loggedIn
      /\ ccTls' = ccTls
    BY DEF TransferReturns, CleanupTransfer, ResetTransfer, ctlVars, loginVars
<1>2. Job \in {"announced", "connected"} /\ Told = finals
    BY DEF Job, Told
<1>3. Job' = "idle" /\ Told' = 0
    BY <1>1 DEF Job, Told
<1>4. Lost' \in BOOLEAN
    BY DEF Lost
<1>5. Service!End
    BY <1>1, <1>2, <1>3, <1>4 DEF Service!End, Over
<1> QED BY <1>5 DEF Service!Next

-----------------------------------------------------------------------------
(***************************************************************************)
(* The control coroutine.                                                  *)
(***************************************************************************)

\* What the gates of OnCommand say of the commands the client notices.
LEMMA GateOpens ==
    ASSUME IInv, NEW c, Runs(c)
    PROVE  /\ ctl = "read"
           /\ c \in {"USER", "PASS"} => ~loggedIn
           /\ c \in {"PORT", "PASV"} => loggedIn /\ xfr = "idle"
           /\ c \in TransferCommands
                 => loggedIn /\ xfr = "idle" /\ initiation # "NONE"
BY DEF IInv, SafetyInv, TransferConsistent, IsInTransfer, Runs, HaveRequest,
    CtlTurn, Gate, Refused, MustBeLoggedIn, MustNotBeLoggedIn,
    MustNotBeInTransfer, NeedPostOrPasv, TransferCommands, FileCommands,
    SendCommands, StoreCommands

\* USER and PASS log the client in, or fail.
LEMMA LoginMaps ==
    ASSUME IInv, NEW c, OnLogin(c) PROVE [Service!Next]_(Service!vars)
<1>1. /\ ~loggedIn /\ ctl = "read" /\ ctl' = "reply" /\ xfr' = xfr
      /\ xsock' = xsock /\ finals' = finals /\ initiation' = initiation
      /\ xtls' = xtls /\ ccTls' = ccTls /\ sock' = sock
      /\ replyFailed' = replyFailed /\ loggedIn' \in BOOLEAN
    BY GateOpens DEF OnLogin, CtlReply, connVars, dataVars, xfrVars, sockVars
<1>2. xfr = "idle" /\ initiation = "NONE" /\ loggedIn \in BOOLEAN
    BY <1>1 DEF IInv, SafetyInv, LoginInv, DataNeedsLogin, TypeOK
<1>3. CASE loggedIn'
  <2>1. Job = "idle" /\ Job' = "idle" /\ Told = 0 /\ Told' = 0
      BY <1>1, <1>2 DEF Job, Told
  <2>2. loggedIn' = TRUE
      BY <1>1, <1>3, Zenon
  <2>3. Service!Login
      BY <1>1, <1>2, <2>1, <2>2 DEF Service!Login, Service!jobVars, Lost, Over
  <2> QED BY <2>3 DEF Service!Next
<1>4. CASE ~loggedIn'
  <2>1. loggedIn' = loggedIn
      BY <1>1, <1>2, <1>4
  <2>2. Keeps
      BY <1>1, <2>1 DEF Keeps, SameJob, Over, Lost
  <2> QED BY <2>2, KeepsMaps
<1> QED BY <1>3, <1>4

\* PORT and PASV set up a data connection.
LEMMA SetUpMaps ==
    ASSUME IInv, OnPort \/ OnPasv PROVE [Service!Next]_(Service!vars)
<1>1. loggedIn /\ xfr = "idle" /\ ctl = "read"
    BY GateOpens DEF OnPort, OnPasv
<1>2. /\ ctl' = "reply" /\ xfr' = xfr /\ xsock' = xsock /\ finals' = finals
      /\ xtls' = xtls /\ loggedIn' = loggedIn /\ ccTls' = ccTls
      /\ sock' = sock /\ replyFailed' = replyFailed
      /\ initiation' \in {"PORT", "PASV"}
    BY DEF OnPort, OnPasv, CtlReply, connVars, xfrVars, sockVars
<1>3. Job = "idle" /\ Job' = Job /\ Told' = Told
    BY <1>1, <1>2 DEF Job, Told
<1>4. Service!SetUp
    BY <1>1, <1>2, <1>3 DEF Service!SetUp, Service!clientVars, Lost, Over
<1> QED BY <1>4 DEF Service!Next

\* A command that moves a file begins a transfer.
LEMMA BeginMaps ==
    ASSUME IInv, NEW c, OnTransfer(c) PROVE [Service!Next]_(Service!vars)
<1>1. loggedIn /\ xfr = "idle" /\ initiation # "NONE" /\ ctl = "read"
    BY GateOpens DEF OnTransfer
<1>2. /\ ctl' = "loop" /\ xfr' = "spawned" /\ finals' = 0
      /\ initiation' = initiation /\ xtls' = xtls /\ loggedIn' = loggedIn
      /\ ccTls' = ccTls /\ sock' = sock /\ replyFailed' = replyFailed
    BY DEF OnTransfer, connVars
<1>3. Job = "idle" /\ Job' = "begun" /\ Told = 0 /\ Told' = 0
    BY <1>1, <1>2 DEF Job, Told
<1>4. Service!Begin
    BY <1>1, <1>2, <1>3 DEF Service!Begin, Service!clientVars, Lost, Over
<1> QED BY <1>4 DEF Service!Next

\* An abort may close the data connection; it does not end the transfer.
LEMMA AborMaps ==
    ASSUME IInv, OnAbor PROVE [Service!Next]_(Service!vars)
<1>1. ctl = "read"
    BY GateOpens DEF OnAbor
<1>2. xsock' = "none" <=> xsock = "none"
    BY DEF OnAbor, CarryOutAbort, CallAbort
<1>3. Keeps
    BY <1>1, <1>2 DEF OnAbor, Keeps, SameJob, Over, Lost, connVars, xfrVars,
       replyVars
<1> QED BY <1>3, KeepsMaps

\* The commands that only reply.
LEMMA ReplyMaps ==
    ASSUME IInv, NEW c, \/ Refuse(c) \/ InternalError(c) \/ OnReplyOnly(c)
                        \/ OnAuth \/ OnProt \/ OnQuit
    PROVE  [Service!Next]_(Service!vars)
<1>1. ctl = "read" /\ ctl' = "reply"
    BY GateOpens DEF Refuse, InternalError, OnReplyOnly, OnAuth, OnProt, OnQuit,
       CtlReply, Runs, HaveRequest, CtlTurn
<1>2. Keeps
    BY <1>1 DEF Refuse, InternalError, OnReplyOnly, OnAuth, OnProt, OnQuit,
       notCommand, Keeps, SameJob, Over, Lost, connVars, loginVars, dataVars,
       xfrVars, sockVars
<1> QED BY <1>2, KeepsMaps

\* Whatever command the client sends.
LEMMA CommandMaps ==
    ASSUME IInv, NEW c \in ClientCommands, OnCommand(c)
    PROVE  [Service!Next]_(Service!vars)
BY ReplyMaps, LoginMaps, SetUpMaps, BeginMaps, AborMaps DEF OnCommand

\* The rest of ProcessCommands.
LEMMA ControlMaps ==
    ASSUME IInv, Control PROVE [Service!Next]_(Service!vars)
<1>1. CASE Greet \/ ReadNextCommand \/ BadRequest \/ OrphanRequest
  <2>1. Keeps
      BY <1>1 DEF Greet, ReadNextCommand, BadRequest, OrphanRequest, CtlReply,
         HaveRequest, CtlTurn, notCommand, Keeps, SameJob, Over, Lost, connVars,
         loginVars, dataVars, xfrVars, sockVars, replyVars
  <2> QED BY <2>1, KeepsMaps
<1>2. CASE EndSession
  <2>1. /\ ctl' = "done" /\ sock' = FALSE /\ xfr' = xfr /\ finals' = finals
        /\ initiation' = initiation /\ xtls' = xtls /\ loggedIn' = loggedIn
        /\ ccTls' = ccTls
      BY <1>2 DEF EndSession, DoClose, loginVars, xfrVars, replyVars
  <2>2. xsock' = "none" <=> xsock = "none"
      BY <1>2 DEF EndSession, DoClose, CallAbort
  <2>3. Job' = Job /\ Told' = Told
      BY <2>1, <2>2 DEF Job, Told
  <2>4. Over' = TRUE /\ Lost' = TRUE
      BY <2>1, Zenon DEF Over, Lost
  <2>5. Service!Finish
      BY <2>1, <2>3, <2>4 DEF Service!Finish, Service!jobVars
  <2> QED BY <2>5 DEF Service!Next
<1>3. CASE CtlReplied
  <2>1. ctl # "done" /\ ctl' # "done" /\ (sock' => sock)
      BY <1>3 DEF CtlReplied, CtlTurn, CtlReplies
  <2>2. Lost => Lost'
      BY <1>3, <2>1 DEF CtlReplied, Lost
  <2>3. Keeps
      BY <1>3, <2>1, <2>2 DEF CtlReplied, Keeps, SameJob, Over, dataVars,
         xfrVars, sockVars, replyVars
  <2> QED BY <2>3, KeepsMaps
<1>4. CASE CtlUpgraded
  <2>1. /\ ctl = "tls" /\ ctl' = "loop" /\ xfr' = xfr /\ xsock' = xsock
        /\ finals' = finals /\ initiation' = initiation /\ xtls' = xtls
        /\ loggedIn' = loggedIn /\ replyFailed' = replyFailed
      BY <1>4 DEF CtlUpgraded, CtlTurn, dataVars, xfrVars, sockVars, replyVars
  <2>2. CASE cop = "ok"
    <3>1. ccTls' = TRUE /\ sock' = sock
        BY <1>4, <2>2 DEF CtlUpgraded, IInv, TypeOK
    <3>2. Job' = Job /\ Told' = Told /\ Lost' = Lost /\ Over' = Over
        BY <2>1, <3>1 DEF Job, Told, Lost, Over
    <3>3. Service!Secure
        BY <2>1, <3>1, <3>2 DEF Service!Secure, Service!jobVars
    <3> QED BY <3>3 DEF Service!Next
  <2>3. CASE cop # "ok"
    <3>1. ccTls' = ccTls /\ sock' = FALSE
        BY <1>4, <2>3 DEF CtlUpgraded, IInv, TypeOK
    <3>2. Keeps
        BY <2>1, <3>1 DEF Keeps, SameJob, Over, Lost
    <3> QED BY <3>2, KeepsMaps
  <2> QED BY <2>2, <2>3
<1> QED BY <1>1, <1>2, <1>3, <1>4, CommandMaps DEF Control

-----------------------------------------------------------------------------
(***************************************************************************)
(* The transfer coroutine.                                                 *)
(***************************************************************************)

\* A final reply in a stage that may still give one.
LEMMA SaysMaps ==
    ASSUME IInv, NEW stage \in XfrReplies \ {"reply150", "replyAbor"},
           XfrSays(stage), xfr \notin {"idle", "spawned"},
           finals = 0 \/ (finals = 1 /\ xsock # "none")
    PROVE  [Service!Next]_(Service!vars)
<1>1. replyFailed \in BOOLEAN /\ replyFailed' = replyFailed
    BY DEF XfrSays, notXfr, connVars, IInv, TypeOK
<1>2. XfrReply(stage, replyFailed) /\ (replyFailed <=> replyFailed')
    BY <1>1 DEF XfrSays
<1>3. /\ xsock' = "none" <=> xsock = "none"
      /\ initiation' = initiation /\ xtls' = xtls /\ loggedIn' = loggedIn
      /\ ccTls' = ccTls /\ sock' = sock /\ ctl' = ctl
    BY DEF XfrSays, notXfr, ctlVars, connVars, loginVars, dataVars, sockVars
<1> QED BY <1>1, <1>2, <1>3, AnswerMaps

\* The coroutine goes on, or waits for the data connection.
LEMMA GoesOnMaps ==
    ASSUME NEW stage \in DataStages \cup {"next"},
           XfrGoto(stage) \/ XfrAwait(stage), xfr \notin {"idle", "spawned"}
    PROVE  [Service!Next]_(Service!vars)
<1>1. Keeps
    BY DEF XfrGoto, XfrAwait, notXfr, DataStages, Keeps, SameJob, Over, Lost,
       ctlVars, connVars, loginVars, dataVars, sockVars, replyVars
<1> QED BY <1>1, KeepsMaps

\* The last reply of a transfer whose data connection is closed.
LEMMA CompleteMaps ==
    ASSUME IInv, Complete, xfr \notin {"idle", "spawned"}, xsock # "none",
           finals \in {0, 1}
    PROVE  [Service!Next]_(Service!vars)
<1>1. PICK stage \in {"reply226", "replyCaught"} :
          XfrReply(stage, replyFailed)
    BY DEF Complete
<1>2. replyFailed \in BOOLEAN /\ replyFailed' = replyFailed
    BY DEF Complete, connVars, IInv, TypeOK
<1>3. replyFailed <=> replyFailed'
    BY <1>2
<1>4. /\ xsock' = "none" <=> xsock = "none"
      /\ initiation' = initiation /\ xtls' = xtls /\ loggedIn' = loggedIn
      /\ ccTls' = ccTls /\ sock' = sock /\ ctl' = ctl
    BY DEF Complete, ctlVars, connVars, loginVars, dataVars
<1>5. stage \in XfrReplies \ {"reply150", "replyAbor"}
    BY DEF XfrReplies
<1> QED BY <1>1, <1>2, <1>3, <1>4, <1>5, AnswerMaps

\* TransferFile returns in a state that can be left.
LEMMA LeaveMaps ==
    ASSUME IInv, ReleasedInv, [Next]_vars, NEW fn, TransferReturns(fn),
           xfr \notin {"idle", "spawned"}, sock' = sock,
           replyFailed => replyFailed'
    PROVE  [Service!Next]_(Service!vars)
<1>1. xfr # "idle" /\ xfr' = "idle"
    BY DEF TransferReturns
<1>2. finals > 0 \/ replyFailed' \/ ~sock' \/ Expired'
    BY <1>1, AnswerStep
<1>3. Expired' => ~sock'
    BY ReleasedStep DEF ReleasedInv, Expired
<1>4. finals > 0 \/ Lost'
    BY <1>2, <1>3 DEF Lost
<1>5. Lost => Lost'
    BY DEF Lost
<1> QED BY <1>4, <1>5, ReturnMaps

\* TransferFile returns after it has cleared abort_transfer_.
LEMMA EndsMaps ==
    ASSUME IInv, ReleasedInv, [Next]_vars, TransferEnds,
           xfr \notin {"idle", "spawned"}
    PROVE  [Service!Next]_(Service!vars)
BY LeaveMaps DEF TransferEnds, connVars

\* The transfer begins, and gets or does not get its data connection.
LEMMA OpeningMaps ==
    ASSUME IInv, ReleasedInv, [Next]_vars,
           \/ ForeignTask \/ TransferStarts \/ TransferDropped
           \/ TransferOpened \/ NoConnection \/ TransferRefused
           \/ TransferConnected \/ TransferUpgraded
    PROVE  [Service!Next]_(Service!vars)
<1>1. CASE ForeignTask
  <2>1. Keeps
      BY <1>1 DEF ForeignTask, Keeps, SameJob, Over, Lost, ctlVars, connVars,
         loginVars, dataVars, xfrVars, sockVars, replyVars
  <2> QED BY <2>1, KeepsMaps
<1>2. CASE TransferStarts
  <2>1. /\ xfr = "spawned" /\ xfr' = "reply150" /\ xsock' = xsock
        /\ finals' = finals /\ initiation' = initiation /\ xtls' = xtls
        /\ loggedIn' = loggedIn /\ ccTls' = ccTls /\ sock' = sock
        /\ replyFailed' = replyFailed /\ ctl' = ctl
      BY <1>2 DEF TransferStarts, XfrTurn, XfrSays, XfrReply, notXfr, ctlVars,
         connVars, loginVars, dataVars, sockVars
  <2>2. xsock = "none"
      BY <2>1 DEF IInv, SafetyInv, TransferConsistent
  <2>3. Job = "begun" /\ Job' = "announced" /\ Told' = Told
      BY <2>1, <2>2 DEF Job, Told
  <2>4. Service!Announce
      BY <2>1, <2>3 DEF Service!Announce, Service!clientVars, Lost, Over
  <2> QED BY <2>4 DEF Service!Next
<1>3. CASE TransferDropped
  <2>1. xfr = "reply150" /\ sock' = sock /\ (replyFailed => replyFailed')
      BY <1>3 DEF TransferDropped, XfrReplied, XfrTurn
  <2> QED BY <1>3, <2>1, LeaveMaps DEF TransferDropped
<1>4. CASE TransferOpened
  <2>1. xfr = "reply150" /\ xfr' \in {"connect", "accept"}
      BY <1>4 DEF TransferOpened, XfrReplied, XfrTurn
  <2>2. Lost => Lost'
      BY <1>4 DEF TransferOpened, XfrReplied, Lost
  <2>3. Keeps
      BY <1>4, <2>1, <2>2 DEF TransferOpened, Keeps, SameJob, Over, ctlVars,
         loginVars, dataVars, replyVars
  <2> QED BY <2>3, KeepsMaps
<1>5. CASE NoConnection
  <2>1. xfr \in {"accept", "connect", "upgrade"} /\ finals = 0
      BY <1>5 DEF NoConnection, XfrTurn, IInv, SafetyInv, FinalsInv
  <2>2. "reply425" \in XfrReplies \ {"reply150", "replyAbor"}
      BY DEF XfrReplies
  <2> QED BY <1>5, <2>1, <2>2, SaysMaps DEF NoConnection
<1>6. CASE TransferRefused
  <2>1. xfr = "reply425" /\ sock' = sock /\ (replyFailed => replyFailed')
      BY <1>6 DEF TransferRefused, XfrReplied, XfrTurn
  <2> QED BY <1>6, <2>1, LeaveMaps DEF TransferRefused
<1>7. CASE TransferConnected
  <2>1. /\ xfr \in {"connect", "accept"} /\ xfr' \in {"upgrade", "enter"}
        /\ xsock' = "open" /\ finals' = finals /\ initiation' = initiation
        /\ xtls' = xtls /\ loggedIn' = loggedIn /\ ccTls' = ccTls
        /\ sock' = sock /\ replyFailed' = replyFailed /\ ctl' = ctl
      BY <1>7 DEF TransferConnected, XfrTurn, ctlVars, connVars, loginVars,
         dataVars, replyVars
  <2>2. xsock = "none" /\ finals = 0
      BY <2>1 DEF IInv, SafetyInv, TransferConsistent, FinalsInv
  <2>3. Job = "announced" /\ Job' = "connected" /\ Told = 0 /\ Told' = 0
      BY <2>1, <2>2 DEF Job, Told
  <2>4. Service!Connect
      BY <2>1, <2>3 DEF Service!Connect, Service!clientVars, Lost, Over
  <2> QED BY <2>4 DEF Service!Next
<1>8. CASE TransferUpgraded
  <2>1. /\ xfr = "upgrade" /\ xfr' = "enter" /\ xsock' = xsock
        /\ finals' = finals /\ initiation' = initiation /\ xtls' = TRUE
        /\ loggedIn' = loggedIn /\ ccTls' = ccTls /\ sock' = sock
        /\ replyFailed' = replyFailed /\ ctl' = ctl
      BY <1>8 DEF TransferUpgraded, XfrTurn, ctlVars, connVars, loginVars,
         dataVars, replyVars
  <2>2. xsock # "none" /\ finals = 0 /\ ccTls
      BY <2>1 DEF IInv, SafetyInv, TransferConsistent, FinalsInv, LoginInv,
         DataStages
  <2>3. Job = "connected" /\ Job' = Job /\ Told = 0 /\ Told' = 0
      BY <2>1, <2>2 DEF Job, Told
  <2>4. Service!Protect
      BY <2>1, <2>2, <2>3 DEF Service!Protect, Service!clientVars, Lost, Over
  <2> QED BY <2>4 DEF Service!Next
<1> QED BY <1>1, <1>2, <1>3, <1>4, <1>5, <1>6, <1>7, <1>8

\* The data connection is up: what one step of SendFile or ReceiveFile does.
LEMMA MovingMaps ==
    ASSUME IInv, ReleasedInv, [Next]_vars,
           \/ EnterTransfer \/ SendNext \/ Sent \/ ReceiveNext \/ Received
           \/ ShutDown
    PROVE  [Service!Next]_(Service!vars)
<1>1. xfr \in {"enter", "next", "send", "receive", "shutdown"}
    BY DEF EnterTransfer, SendNext, Sent, ReceiveNext, Received, ShutDown,
       XfrTurn
<1>2. xfr \notin {"idle", "spawned"} /\ xsock # "none" /\ finals \in {0, 1}
    BY <1>1 DEF IInv, SafetyInv, TransferConsistent, FinalsInv, DataStages
<1>3. \/ \E stage \in {"send", "receive", "shutdown", "next"} :
            XfrGoto(stage) \/ XfrAwait(stage)
      \/ \E stage \in {"reply426", "replyClosed", "replyCaught"} :
            XfrSays(stage)
      \/ Complete
      \/ TransferEnds
    BY DEF EnterTransfer, SendNext, Sent, ReceiveNext, Received, ShutDown,
       AllDone, FileFails, NotifyFailed
<1>4. ASSUME NEW stage \in {"send", "receive", "shutdown", "next"},
             XfrGoto(stage) \/ XfrAwait(stage)
      PROVE  [Service!Next]_(Service!vars)
  <2>1. stage \in DataStages \cup {"next"}
      BY DEF DataStages
  <2> QED BY <1>2, <1>4, <2>1, GoesOnMaps
<1>5. ASSUME NEW stage \in {"reply426", "replyClosed", "replyCaught"},
             XfrSays(stage)
      PROVE  [Service!Next]_(Service!vars)
  <2>1. stage \in XfrReplies \ {"reply150", "replyAbor"}
      BY DEF XfrReplies
  <2> QED BY <1>2, <1>5, <2>1, SaysMaps
<1> QED BY <1>2, <1>3, <1>4, <1>5, CompleteMaps, EndsMaps

\* A reply of SendFile or ReceiveFile has been written.
LEMMA RepliedMaps ==
    ASSUME IInv, ReleasedInv, [Next]_vars,
           ReceiveOnClosed \/ Notified \/ TransferDone
    PROVE  [Service!Next]_(Service!vars)
<1>1. /\ xfr \in {"replyClosed", "reply426", "reply226", "replyAbor",
                  "replyCaught"}
      /\ sock' = sock /\ (replyFailed => replyFailed')
    BY DEF ReceiveOnClosed, Notified, TransferDone, XfrReplied, XfrTurn
<1>2. Lost => Lost'
    BY <1>1 DEF Lost
<1>3. CASE ReceiveOnClosed
  <2>1. /\ xfr = "replyClosed" /\ xsock' = xsock /\ initiation' = initiation
        /\ xtls' = xtls /\ loggedIn' = loggedIn /\ ccTls' = ccTls
        /\ ctl' = ctl
      BY <1>3 DEF ReceiveOnClosed, XfrReplied, XfrTurn, ctlVars, loginVars,
         dataVars, sockVars
  <2>2. xsock = "closed" /\ finals \in {0, 1}
      BY <2>1 DEF IInv, SafetyInv, FinalsInv
  <2>3. CASE xfr' \in {"next", "replyClosed"} /\ finals' = finals
    <3>1. Keeps
        BY <1>2, <2>1, <2>3 DEF Keeps, SameJob, Over
    <3> QED BY <3>1, KeepsMaps
  <2>4. CASE XfrReply("replyCaught", replyFailed')
    <3>1. replyFailed' \in BOOLEAN
        BY TypeStep DEF TypeOK
    <3>2. "replyCaught" \in XfrReplies \ {"reply150", "replyAbor"}
        BY DEF XfrReplies
    <3>3. replyFailed' <=> replyFailed'
        OBVIOUS
    <3> QED BY <1>1, <2>1, <2>2, <2>4, <3>1, <3>2, <3>3, AnswerMaps
  <2> QED BY <1>3, <2>1, <2>3, <2>4 DEF ReceiveOnClosed, replyVars, xfrVars
<1>4. CASE Notified /\ abortPending
  <2>1. Keeps
      BY <1>1, <1>2, <1>4 DEF Notified, XfrReply, Keeps, SameJob, Over, ctlVars,
         loginVars, dataVars, sockVars
  <2> QED BY <2>1, KeepsMaps
<1>5. CASE TransferDone \/ (Notified /\ ~abortPending)
  <2>1. TransferReturns("none")
      BY <1>5 DEF TransferDone, Notified
  <2> QED BY <1>1, <2>1, LeaveMaps
<1> QED BY <1>3, <1>4, <1>5

-----------------------------------------------------------------------------
\* The manager, the system and the network: at most the client is lost.
LEMMA OthersMap ==
    ASSUME SessionTimeout \/ System \/ Client
    PROVE  [Service!Next]_(Service!vars)
<1>1. /\ ctl' = ctl /\ xfr' = xfr /\ xsock' = xsock /\ xtls' = xtls
      /\ finals' = finals /\ initiation' = initiation
      /\ loggedIn' = loggedIn /\ ccTls' = ccTls
      /\ replyFailed' = replyFailed /\ (sock' = FALSE \/ sock' = sock)
    BY DEF SessionTimeout, System, Client, CtlCancelled, XfrCancelled,
       CtlWritten, XfrWritten, ConnectReturns, ClientActs, ClientConnects,
       AcceptFails, ClientTransfers, CtlCompletes, XfrCompletes, ctlVars,
       connVars, loginVars, dataVars, xfrVars, sockVars, replyVars
<1>2. Keeps
    BY <1>1 DEF Keeps, SameJob, Over, Lost
<1> QED BY <1>2, KeepsMaps

\* Every step of a session is a step of the service or a stutter.
LEMMA StepMaps ==
    ASSUME IInv, ReleasedInv, [Next]_vars
    PROVE  [Service!Next]_(Service!vars)
<1>1. CASE TransferFile
  BY <1>1, OpeningMaps, MovingMaps, RepliedMaps DEF TransferFile
<1>2. CASE UNCHANGED vars
  <2>1. UNCHANGED Service!vars
      BY <1>2 DEF vars, ctlVars, connVars, loginVars, dataVars, xfrVars,
         sockVars, replyVars, Service!vars, Service!clientVars,
         Service!jobVars, Job, Told, Lost, Over
  <2> QED BY <2>1
<1> QED BY <1>1, <1>2, ControlMaps, OthersMap DEF Next

\* A session begins where the service does.
LEMMA InitMaps == Init => Service!Init
BY DEF Init, Service!Init, Job, Told, Lost, Over

\* A session does for its client what FtpService promises: the order of the
\* replies to a transfer, its data connection and its end, in every
\* interleaving of the coroutines, the manager's timeout and the network.
THEOREM SessionImplementsService == Spec => ImplementsService
<1>1. Init => ReleasedInv
    BY DEF Init, ReleasedInv
<1>2. IInv /\ ReleasedInv /\ [Next]_vars => ReleasedInv'
    BY ReleasedStep
<1>3. IInv /\ ReleasedInv /\ [Next]_vars => [Service!Next]_(Service!vars)
    BY StepMaps
<1> QED BY Inductive, InitMaps, <1>1, <1>2, <1>3, PTL DEF Spec,
    ImplementsService, Service!Spec
=============================================================================
