-------------------------- MODULE FtpSessionProofs --------------------------
(***************************************************************************)
(* What FtpSession guarantees for every set of commands a client may use.  *)
(*                                                                         *)
(* The safety properties are not inductive one by one: whether a transfer  *)
(* can be interrupted depends on the acceptor, the acceptor on what the    *)
(* control coroutine may still do, the number of final replies on the      *)
(* socket. IInv is their strengthening, one conjunct per concern. It is    *)
(* preserved action by action; the theorems at the end follow from it.     *)
(***************************************************************************)
EXTENDS FtpSession, TLAPS

(***************************************************************************)
(* The control coroutine. It never stays in the command loop, it is past   *)
(* the loop exactly when DoClose has run, and a TLS handshake is pending   *)
(* only between AUTH and the end of its reply.                             *)
(***************************************************************************)
ControlInv ==
    /\ cop # "eof"
    /\ ctl = "loop" => cop = "now"
    /\ ctl \in CtlReplies /\ cop = "now" => replyFailed \/ ~sock
    /\ ctl = "done" => closed /\ closePending /\ ~registered /\ ~sock
    /\ closed => ctl = "done"
    /\ closePending => ctl \in {"loop", "done"}
    /\ ctl = "tls" => after = "loop"
    /\ tlsTask => \/ ctl = "reply" /\ after = "loop"
                  \/ ctl = "loop" /\ (replyFailed \/ ~sock)
                  \/ ctl = "done"

(***************************************************************************)
(* The pending PORT or PASV: a transfer has one, PASV has an acceptor, and *)
(* between transfers the acceptor is closed only if PASV failed, which     *)
(* ends the session.                                                       *)
(***************************************************************************)
PendingInv ==
    /\ xfr # "idle" => initiation # "NONE"
    /\ initiation = "PASV" => pasv # "none"
    /\ initiation = "PASV" /\ xfr \in {"idle", "spawned", "reply150"}
           => pasv = "open"
    /\ pasv = "closed" /\ xfr = "idle"
           => closePending \/ (ctl = "reply" /\ after = "end")

(***************************************************************************)
(* abort_transfer_: what it refers to, stage by stage, and why an accept   *)
(* that failed leaves it dangling only if the system refused the accept.   *)
(***************************************************************************)
AbortInv ==
    /\ AbortInScope
    /\ abortFn = "acceptor"
           /\ (xfr = "reply425" \/ xop = "err" \/ pasv = "closed")
           => acceptRefused \/ ctl = "done"
    /\ xfr = "accept" => abortFn = "acceptor" \/ pasv = "closed"
    /\ xfr \in DataStages \cup {"enter", "next"}
           => abortFn = "socket" \/ xsock = "closed"

(***************************************************************************)
(* The final replies of a transfer, stage by stage: none before the end,   *)
(* at most one while ReceiveFile goes on with a socket that was closed.    *)
(***************************************************************************)
FinalsInv ==
    /\ xfr \in {"spawned", "reply150", "connect", "accept", "upgrade", "enter",
                "send", "shutdown"} => finals = 0
    /\ xfr \in {"next", "receive", "replyClosed"} => finals \in {0, 1}
    /\ xfr \in {"next", "receive"} /\ xsock = "open" => finals = 0
    /\ xfr = "next" /\ transfer = "OUTGOING" => finals = 0
    /\ xfr = "receive" /\ xop \in {"ok", "eof"} => finals = 0
    /\ xfr = "replyClosed" => xsock = "closed"
    /\ xfr \in {"receive", "replyClosed"} => transfer = "INCOMING"
    /\ xfr \in XfrReplies \ {"reply150"} => finals > 0 \/ replyFailed \/ ~sock

\* Who may use a data connection, and when it is protected.
LoginInv ==
    /\ DataNeedsLogin
    /\ ProtNeedsTls
    /\ xfr = "upgrade" => ccTls /\ protThen
    /\ xsock = "none" => ~xtls
    /\ ProtHonoured
    /\ xfr = "replyClosed" => (xtls <=> protThen)

SafetyInv ==
    /\ ControlInv /\ TransferConsistent /\ PendingInv /\ AbortInv
    /\ FinalsInv /\ LoginInv

IInv == TypeOK /\ SafetyInv

-----------------------------------------------------------------------------
(***************************************************************************)
(* Boolean values that are assigned as constants: a fact for Zenon.        *)
(***************************************************************************)

\* CleanupTransfer leaves Booleans in the session's flags.
LEMMA CleanupBoolean ==
    CleanupTransfer
        => file' \in BOOLEAN /\ xtls' \in BOOLEAN /\ protThen' \in BOOLEAN
  BY Zenon DEF CleanupTransfer

\* DoClose leaves Booleans in the session's flags.
LEMMA DoCloseBoolean ==
    DoClose => /\ sock' \in BOOLEAN /\ registered' \in BOOLEAN
               /\ closed' \in BOOLEAN /\ closePending' \in BOOLEAN
  BY Zenon DEF DoClose

-----------------------------------------------------------------------------
\* The session starts in a state that satisfies the inductive invariant.
LEMMA InitIInv == Init => IInv
<1> SUFFICES ASSUME Init PROVE IInv
    OBVIOUS
<1>1. /\ sock \in BOOLEAN /\ replyFailed \in BOOLEAN
      /\ closePending \in BOOLEAN /\ closed \in BOOLEAN /\ registered \in
          BOOLEAN
      /\ loggedIn \in BOOLEAN
      /\ ccTls \in BOOLEAN /\ prot \in BOOLEAN /\ tlsTask \in BOOLEAN
      /\ abortPending \in BOOLEAN /\ file \in BOOLEAN /\ xtls \in BOOLEAN
      /\ protThen \in BOOLEAN /\ acceptRefused \in BOOLEAN
  BY Zenon DEF Init
<1>2. TypeOK
  BY <1>1 DEF Init, TypeOK, CtlStages, CtlReplies, XfrStages, Ops, Results
<1>3. SafetyInv
  BY DEF Init, SafetyInv, ControlInv, TransferConsistent, PendingInv, AbortInv,
      AbortInScope, FinalsInv, LoginInv, DataNeedsLogin, ProtNeedsTls,
      ProtHonoured, IsInTransfer, CtlReplies, XfrReplies, DataStages
<1> QED BY <1>2, <1>3 DEF IInv

-----------------------------------------------------------------------------
\* Every step keeps every variable in its type. The bound on the final replies
\* is where FinalsInv is needed.
LEMMA TypeStep == IInv /\ [Next]_vars => TypeOK'
<1> SUFFICES ASSUME IInv, [Next]_vars PROVE TypeOK'
    OBVIOUS
<1> USE DEF IInv, vars, ctlVars, connVars, loginVars, dataVars, xfrVars,
    sockVars, replyVars
<1> USE DEF TypeOK, FinalsInv, SafetyInv, CtlStages, CtlReplies, XfrReplies,
    DataStages, XfrStages, Results, Ops, CtlTurn, XfrTurn
<1>1. CASE Greet
  BY <1>1 DEF Greet, CtlReply
<1>2. CASE ReadNextCommand
  BY <1>2 DEF ReadNextCommand
<1>3. CASE EndSession
  BY DoCloseBoolean, <1>3 DEF EndSession, DoClose, CallAbort
<1>4. CASE CtlReplied
  <2>1. CASE cop = "ok" /\ tlsTask
    <3>1. tlsTask' \in BOOLEAN
      BY <1>4, <2>1, Zenon DEF CtlReplied
    <3> QED BY <1>4, <2>1, <3>1 DEF CtlReplied
  <2>2. CASE ~(cop = "ok" /\ tlsTask)
    <3>1. /\ replyFailed' \in BOOLEAN /\ sock' \in BOOLEAN
         /\ closePending' \in BOOLEAN
      BY <1>4, <2>2, Zenon DEF CtlReplied
    <3> QED BY <1>4, <2>2, <3>1 DEF CtlReplied
  <2> QED BY <2>1, <2>2
<1>5. CASE CtlUpgraded
  BY <1>5 DEF CtlUpgraded
<1>6. CASE BadRequest
  BY <1>6 DEF BadRequest, CtlReply, HaveRequest, notCommand
<1>7. CASE OrphanRequest
  BY <1>7 DEF OrphanRequest, HaveRequest, notCommand
<1>8. ASSUME NEW c \in ClientCommands, OnCommand(c) PROVE TypeOK'
  <2>1. CASE Refuse(c)
    BY <2>1 DEF Refuse, CtlReply, notCommand, Runs
  <2>2. CASE InternalError(c)
    BY <2>2 DEF InternalError, CtlReply, Runs
  <2>3. CASE OnLogin(c)
    BY <2>3 DEF OnLogin, Records, CtlReply, Runs
  <2>4. CASE OnReplyOnly(c)
    BY <2>4 DEF OnReplyOnly, Records, CtlReply, Runs
  <2>5. CASE OnTransfer(c)
    BY <2>5 DEF OnTransfer, CarryOutAbort, CallAbort, Records, Runs
  <2>6. CASE c = "PORT" /\ OnPort
    BY <2>6 DEF OnPort, Records, CtlReply, Runs
  <2>7. CASE c = "PASV" /\ OnPasv
    BY <2>7 DEF OnPasv, Records, CtlReply, Runs
  <2>8. CASE c = "AUTH" /\ OnAuth
    BY <2>8 DEF OnAuth, Records, CtlReply, Runs
  <2>9. CASE c = "PROT" /\ OnProt
    BY <2>9 DEF OnProt, Records, CtlReply, Runs
  <2>10. CASE c = "QUIT" /\ OnQuit
    BY <2>10 DEF OnQuit, Records, CtlReply, Runs
  <2>11. CASE c = "ABOR" /\ OnAbor
    BY <2>11 DEF OnAbor, CarryOutAbort, CallAbort, Records, Runs
  <2> QED BY <2>1, <2>2, <2>3, <2>4, <2>5, <2>6, <2>7, <2>8, <2>9, <2>10,
      <2>11, <1>8 DEF OnCommand
<1>9. CASE ForeignTask
  BY <1>9 DEF ForeignTask
<1>10. CASE TransferStarts
  BY <1>10 DEF TransferStarts, XfrSays, XfrReply, notXfr
<1>11. CASE TransferDropped
  BY CleanupBoolean, <1>11 DEF TransferDropped, XfrReplied, TransferReturns,
      CleanupTransfer, ResetTransfer
<1>12. CASE TransferOpened
  BY <1>12 DEF TransferOpened, XfrReplied, GoingDown
<1>13. CASE NoConnection
  BY <1>13 DEF NoConnection, XfrSays, XfrReply, notXfr
<1>14. CASE TransferRefused
  BY CleanupBoolean, <1>14 DEF TransferRefused, XfrReplied, TransferReturns,
      CleanupTransfer, ResetTransfer
<1>15. CASE TransferConnected
  BY <1>15 DEF TransferConnected
<1>16. CASE TransferUpgraded
  BY <1>16 DEF TransferUpgraded
<1>17. CASE EnterTransfer
  <2>1. CASE XfrGoto("next")
    BY <1>17, <2>1 DEF EnterTransfer, XfrGoto, notXfr
  <2>2. CASE XfrSays("reply426")
    BY <1>17, <2>2 DEF EnterTransfer, XfrSays, XfrReply, notXfr
  <2>3. CASE TransferEnds
    BY CleanupBoolean, <1>17, <2>3 DEF EnterTransfer, TransferEnds,
        TransferReturns, CleanupTransfer, ResetTransfer
  <2> QED BY <2>1, <2>2, <2>3, <1>17 DEF EnterTransfer, NotifyFailed
<1>18. CASE SendNext
  <2>1. CASE XfrAwait("send")
    BY <1>18, <2>1 DEF SendNext, XfrAwait, notXfr
  <2>2. CASE XfrAwait("shutdown")
    BY <1>18, <2>2 DEF SendNext, XfrAwait, notXfr
  <2>3. CASE Complete
    BY <1>18, <2>3 DEF SendNext, Complete, XfrReply
  <2>4. CASE FileFails
    BY <1>18, <2>4 DEF SendNext, FileFails, XfrSays, XfrReply, notXfr
  <2> QED BY <2>1, <2>2, <2>3, <2>4, <1>18 DEF SendNext, AllDone
<1>19. CASE Sent
  <2>1. CASE XfrSays("reply426")
    BY <1>19, <2>1 DEF Sent, XfrSays, XfrReply, notXfr
  <2>2. CASE TransferEnds
    BY CleanupBoolean, <1>19, <2>2 DEF Sent, TransferEnds, TransferReturns,
        CleanupTransfer, ResetTransfer
  <2>3. CASE XfrGoto("next")
    BY <1>19, <2>3 DEF Sent, XfrGoto, notXfr
  <2> QED BY <2>1, <2>2, <2>3, <1>19 DEF Sent, NotifyFailed
<1>20. CASE ReceiveNext
  <2>1. CASE XfrAwait("receive")
    BY <1>20, <2>1 DEF ReceiveNext, XfrAwait, notXfr
  <2>2. CASE FileFails
    BY <1>20, <2>2 DEF ReceiveNext, FileFails, XfrSays, XfrReply, notXfr
  <2> QED BY <2>1, <2>2, <1>20 DEF ReceiveNext
<1>21. CASE Received
  <2>1. CASE xop = "eof" /\ XfrAwait("shutdown")
    BY <1>21, <2>1 DEF Received, XfrAwait, notXfr
  <2>2. CASE xop = "eof" /\ Complete
    BY <1>21, <2>2 DEF Received, Complete, XfrReply
  <2>3. CASE FileFails
    BY <1>21, <2>3 DEF Received, FileFails, XfrSays, XfrReply, notXfr
  <2>4. CASE XfrSays("reply426")
    BY <1>21, <2>4 DEF Received, XfrSays, XfrReply, notXfr
  <2>5. CASE TransferEnds
    BY CleanupBoolean, <1>21, <2>5 DEF Received, TransferEnds, TransferReturns,
        CleanupTransfer, ResetTransfer
  <2>6. CASE xop = "ok" /\ xsock = "closed" /\ XfrSays("replyClosed")
    BY <1>21, <2>6 DEF Received, XfrSays, XfrReply, notXfr
  <2>7. CASE XfrGoto("next")
    BY <1>21, <2>7 DEF Received, XfrGoto, notXfr
  <2> QED BY <2>1, <2>2, <2>3, <2>4, <2>5, <2>6, <2>7, <1>21 DEF Received,
      AllDone, NotifyFailed
<1>22. CASE ReceiveOnClosed
  BY <1>22 DEF ReceiveOnClosed, XfrReplied, XfrReply
<1>23. CASE ShutDown
  <2>1. CASE XfrSays("reply426")
    BY <1>23, <2>1 DEF ShutDown, XfrSays, XfrReply, notXfr
  <2>2. CASE TransferEnds
    BY CleanupBoolean, <1>23, <2>2 DEF ShutDown, TransferEnds, TransferReturns,
        CleanupTransfer, ResetTransfer
  <2>3. CASE Complete
    BY <1>23, <2>3 DEF ShutDown, Complete, XfrReply
  <2> QED BY <2>1, <2>2, <2>3, <1>23 DEF ShutDown, NotifyFailed
<1>24. CASE Notified
  <2>1. CASE abortPending
    <3>1. abortPending' \in BOOLEAN
      BY <1>24, <2>1, Zenon DEF Notified
    <3> QED BY <1>24, <2>1, <3>1 DEF Notified, XfrReplied, XfrReply
  <2>2. CASE ~abortPending
    BY CleanupBoolean, <1>24, <2>2 DEF Notified, XfrReplied, TransferReturns,
        CleanupTransfer, ResetTransfer
  <2> QED BY <2>1, <2>2
<1>25. CASE TransferDone
  BY CleanupBoolean, <1>25 DEF TransferDone, XfrReplied, TransferReturns,
      CleanupTransfer, ResetTransfer
<1>26. CASE SessionTimeout
  <2>1. sock' \in BOOLEAN /\ registered' \in BOOLEAN
    BY <1>26, Zenon DEF SessionTimeout
  <2> QED BY <1>26, <2>1 DEF SessionTimeout
<1>27. CASE CtlCancelled
  BY <1>27 DEF CtlCancelled, CtlWaits, CtlCompletes
<1>28. CASE XfrCancelled
  BY <1>28 DEF XfrCancelled, XfrWaits, XfrCompletes
<1>29. CASE CtlWritten
  BY <1>29 DEF CtlWritten, CtlWaits, CtlCompletes
<1>30. CASE XfrWritten
  BY <1>30 DEF XfrWritten, XfrWaits, XfrCompletes
<1>31. CASE ConnectReturns
  BY <1>31 DEF ConnectReturns, XfrWaits, XfrCompletes
<1>32. CASE ClientActs
  BY <1>32 DEF ClientActs, CtlWaits, CtlCompletes
<1>33. CASE ClientConnects
  BY <1>33 DEF ClientConnects, XfrWaits, XfrCompletes
<1>34. CASE AcceptFails
  BY <1>34 DEF AcceptFails, XfrWaits
<1>35. CASE ClientTransfers
  BY <1>35 DEF ClientTransfers, XfrWaits, XfrCompletes
<1>36. CASE UNCHANGED vars
  BY <1>36
<1> QED BY <1>1, <1>2, <1>3, <1>4, <1>5, <1>6, <1>7, <1>8, <1>9, <1>10, <1>11,
    <1>12, <1>13, <1>14, <1>15, <1>16, <1>17, <1>18, <1>19, <1>20, <1>21,
    <1>22, <1>23, <1>24, <1>25, <1>26, <1>27, <1>28, <1>29, <1>30, <1>31,
    <1>32, <1>33, <1>34, <1>35, <1>36 DEF Next, Control, TransferFile, System,
    Client

-----------------------------------------------------------------------------
\* Every step of the two coroutines, the manager, the client and the system
\* preserves the strengthened safety invariant.
LEMMA SafetyStep == IInv /\ [Next]_vars => SafetyInv'
<1> SUFFICES ASSUME IInv, [Next]_vars PROVE SafetyInv'
    OBVIOUS
<1> USE DEF IInv, vars, ctlVars, connVars, loginVars, dataVars, xfrVars,
    sockVars, replyVars
<1> USE DEF SafetyInv, ControlInv, TransferConsistent, PendingInv, AbortInv,
    AbortInScope, FinalsInv, LoginInv, TypeOK, CtlTurn, XfrTurn, Free,
    CtlReplies, CtlStages, Results, KeepGoing, XfrReplies, DataStages,
    IsInTransfer, DataNeedsLogin, ProtNeedsTls, ProtHonoured
<1>1. CASE Greet
  BY <1>1 DEF Greet, CtlReply
<1>2. CASE ReadNextCommand
  BY <1>2 DEF ReadNextCommand
<1>3. CASE EndSession
  BY <1>3 DEF EndSession, DoClose, CallAbort
<1>4. CASE CtlReplied
  <2>1. CASE cop = "ok" /\ tlsTask
    BY <1>4, <2>1 DEF CtlReplied
  <2>2. CASE ~(cop = "ok" /\ tlsTask)
    BY <1>4, <2>2 DEF CtlReplied
  <2> QED BY <2>1, <2>2
<1>5. CASE CtlUpgraded
  BY <1>5 DEF CtlUpgraded
<1>6. CASE BadRequest
  BY <1>6 DEF BadRequest, CtlReply, HaveRequest, notCommand
<1>7. CASE OrphanRequest
  BY <1>7 DEF OrphanRequest, HaveRequest, notCommand
<1>8. ASSUME NEW c \in ClientCommands, OnCommand(c) PROVE SafetyInv'
  <2>1. CASE Refuse(c)
    BY <2>1 DEF Refuse, CtlReply, notCommand, Runs, HaveRequest, Gate, Refused,
        MustBeLoggedIn, MustNotBeLoggedIn, MustNotBeInTransfer, NeedPostOrPasv,
        MustHaveEncryption, TransferCommands, FileCommands, SendCommands,
        StoreCommands
  <2>2. CASE InternalError(c)
    BY <2>2 DEF InternalError, CtlReply, Runs, HaveRequest, Gate, Refused,
        MustBeLoggedIn, MustNotBeLoggedIn, MustNotBeInTransfer, NeedPostOrPasv,
        MustHaveEncryption, TransferCommands, FileCommands, SendCommands,
        StoreCommands
  <2>3. CASE OnLogin(c)
    BY <2>3 DEF OnLogin, Records, CtlReply, Runs, HaveRequest, Gate, Refused,
        MustBeLoggedIn, MustNotBeLoggedIn, MustNotBeInTransfer, NeedPostOrPasv,
        MustHaveEncryption, TransferCommands, FileCommands, SendCommands,
        StoreCommands
  <2>4. CASE OnReplyOnly(c)
    BY <2>4 DEF OnReplyOnly, Records, CtlReply, Runs, HaveRequest, Gate,
        Refused, MustBeLoggedIn, MustNotBeLoggedIn, MustNotBeInTransfer,
        NeedPostOrPasv, MustHaveEncryption, TransferCommands, FileCommands,
        SendCommands, StoreCommands
  <2>5. CASE OnTransfer(c)
    BY <2>5 DEF OnTransfer, CarryOutAbort, CallAbort, Records, Runs,
        HaveRequest, Gate, Refused, MustBeLoggedIn, MustNotBeLoggedIn,
        MustNotBeInTransfer, NeedPostOrPasv, MustHaveEncryption,
        TransferCommands, FileCommands, SendCommands, StoreCommands
  <2>6. CASE c = "PORT" /\ OnPort
    BY <2>6 DEF OnPort, Records, CtlReply, Runs, HaveRequest, Gate, Refused,
        MustBeLoggedIn, MustNotBeLoggedIn, MustNotBeInTransfer, NeedPostOrPasv,
        MustHaveEncryption, TransferCommands, FileCommands, SendCommands,
        StoreCommands
  <2>7. CASE c = "PASV" /\ OnPasv
    BY <2>7 DEF OnPasv, Records, CtlReply, Runs, HaveRequest, Gate, Refused,
        MustBeLoggedIn, MustNotBeLoggedIn, MustNotBeInTransfer, NeedPostOrPasv,
        MustHaveEncryption, TransferCommands, FileCommands, SendCommands,
        StoreCommands
  <2>8. CASE c = "AUTH" /\ OnAuth
    BY <2>8 DEF OnAuth, Records, CtlReply, Runs, HaveRequest, Gate, Refused,
        MustBeLoggedIn, MustNotBeLoggedIn, MustNotBeInTransfer, NeedPostOrPasv,
        MustHaveEncryption, TransferCommands, FileCommands, SendCommands,
        StoreCommands
  <2>9. CASE c = "PROT" /\ OnProt
    BY <2>9 DEF OnProt, Records, CtlReply, Runs, HaveRequest, Gate, Refused,
        MustBeLoggedIn, MustNotBeLoggedIn, MustNotBeInTransfer, NeedPostOrPasv,
        MustHaveEncryption, TransferCommands, FileCommands, SendCommands,
        StoreCommands
  <2>10. CASE c = "QUIT" /\ OnQuit
    BY <2>10 DEF OnQuit, Records, CtlReply, Runs, HaveRequest, Gate, Refused,
        MustBeLoggedIn, MustNotBeLoggedIn, MustNotBeInTransfer, NeedPostOrPasv,
        MustHaveEncryption, TransferCommands, FileCommands, SendCommands,
        StoreCommands
  <2>11. CASE c = "ABOR" /\ OnAbor
    BY <2>11 DEF OnAbor, CarryOutAbort, CallAbort, Records, Runs, HaveRequest,
        Gate, Refused, MustBeLoggedIn, MustNotBeLoggedIn, MustNotBeInTransfer,
        NeedPostOrPasv, MustHaveEncryption, TransferCommands, FileCommands,
        SendCommands, StoreCommands
  <2> QED BY <2>1, <2>2, <2>3, <2>4, <2>5, <2>6, <2>7, <2>8, <2>9, <2>10,
      <2>11, <1>8 DEF OnCommand
<1>9. CASE ForeignTask
  BY <1>9 DEF ForeignTask
<1>10. CASE TransferStarts
  BY <1>10 DEF TransferStarts, XfrSays, XfrReply, notXfr
<1>11. CASE TransferDropped
  BY <1>11 DEF TransferDropped, XfrReplied, TransferReturns, CleanupTransfer,
      ResetTransfer
<1>12. CASE TransferOpened
  BY <1>12 DEF TransferOpened, XfrReplied, GoingDown
<1>13. CASE NoConnection
  BY <1>13 DEF NoConnection, XfrSays, XfrReply, notXfr
<1>14. CASE TransferRefused
  BY <1>14 DEF TransferRefused, XfrReplied, TransferReturns, CleanupTransfer,
      ResetTransfer
<1>15. CASE TransferConnected
  BY <1>15 DEF TransferConnected
<1>16. CASE TransferUpgraded
  BY <1>16 DEF TransferUpgraded
<1>17. CASE EnterTransfer
  <2>1. CASE XfrGoto("next")
    BY <1>17, <2>1 DEF EnterTransfer, XfrGoto, notXfr
  <2>2. CASE XfrSays("reply426")
    BY <1>17, <2>2 DEF EnterTransfer, XfrSays, XfrReply, notXfr
  <2>3. CASE TransferEnds
    BY <1>17, <2>3 DEF EnterTransfer, TransferEnds, TransferReturns,
        CleanupTransfer, ResetTransfer
  <2> QED BY <2>1, <2>2, <2>3, <1>17 DEF EnterTransfer, NotifyFailed
<1>18. CASE SendNext
  <2>1. CASE XfrAwait("send")
    BY <1>18, <2>1 DEF SendNext, XfrAwait, notXfr
  <2>2. CASE XfrAwait("shutdown")
    BY <1>18, <2>2 DEF SendNext, XfrAwait, notXfr
  <2>3. CASE Complete
    BY <1>18, <2>3 DEF SendNext, Complete, XfrReply
  <2>4. CASE FileFails
    BY <1>18, <2>4 DEF SendNext, FileFails, XfrSays, XfrReply, notXfr
  <2> QED BY <2>1, <2>2, <2>3, <2>4, <1>18 DEF SendNext, AllDone
<1>19. CASE Sent
  <2>1. CASE XfrSays("reply426")
    BY <1>19, <2>1 DEF Sent, XfrSays, XfrReply, notXfr
  <2>2. CASE TransferEnds
    BY <1>19, <2>2 DEF Sent, TransferEnds, TransferReturns, CleanupTransfer,
        ResetTransfer
  <2>3. CASE XfrGoto("next")
    BY <1>19, <2>3 DEF Sent, XfrGoto, notXfr
  <2> QED BY <2>1, <2>2, <2>3, <1>19 DEF Sent, NotifyFailed
<1>20. CASE ReceiveNext
  <2>1. CASE XfrAwait("receive")
    BY <1>20, <2>1 DEF ReceiveNext, XfrAwait, notXfr
  <2>2. CASE FileFails
    BY <1>20, <2>2 DEF ReceiveNext, FileFails, XfrSays, XfrReply, notXfr
  <2> QED BY <2>1, <2>2, <1>20 DEF ReceiveNext
<1>21. CASE Received
  <2>1. CASE xop = "eof" /\ XfrAwait("shutdown")
    BY <1>21, <2>1 DEF Received, XfrAwait, notXfr
  <2>2. CASE xop = "eof" /\ Complete
    BY <1>21, <2>2 DEF Received, Complete, XfrReply
  <2>3. CASE FileFails
    BY <1>21, <2>3 DEF Received, FileFails, XfrSays, XfrReply, notXfr
  <2>4. CASE XfrSays("reply426")
    BY <1>21, <2>4 DEF Received, XfrSays, XfrReply, notXfr
  <2>5. CASE TransferEnds
    BY <1>21, <2>5 DEF Received, TransferEnds, TransferReturns,
        CleanupTransfer, ResetTransfer
  <2>6. CASE xop = "ok" /\ xsock = "closed" /\ XfrSays("replyClosed")
    BY <1>21, <2>6 DEF Received, XfrSays, XfrReply, notXfr
  <2>7. CASE XfrGoto("next")
    BY <1>21, <2>7 DEF Received, XfrGoto, notXfr
  <2> QED BY <2>1, <2>2, <2>3, <2>4, <2>5, <2>6, <2>7, <1>21 DEF Received,
      AllDone, NotifyFailed
<1>22. CASE ReceiveOnClosed
  BY <1>22 DEF ReceiveOnClosed, XfrReplied, XfrReply
<1>23. CASE ShutDown
  <2>1. CASE XfrSays("reply426")
    BY <1>23, <2>1 DEF ShutDown, XfrSays, XfrReply, notXfr
  <2>2. CASE TransferEnds
    BY <1>23, <2>2 DEF ShutDown, TransferEnds, TransferReturns,
        CleanupTransfer, ResetTransfer
  <2>3. CASE Complete
    BY <1>23, <2>3 DEF ShutDown, Complete, XfrReply
  <2> QED BY <2>1, <2>2, <2>3, <1>23 DEF ShutDown, NotifyFailed
<1>24. CASE Notified
  <2>1. CASE abortPending
    BY <1>24, <2>1 DEF Notified, XfrReplied, XfrReply
  <2>2. CASE ~abortPending
    BY <1>24, <2>2 DEF Notified, XfrReplied, TransferReturns, CleanupTransfer,
        ResetTransfer
  <2> QED BY <2>1, <2>2
<1>25. CASE TransferDone
  BY <1>25 DEF TransferDone, XfrReplied, TransferReturns, CleanupTransfer,
      ResetTransfer
<1>26. CASE SessionTimeout
  BY <1>26 DEF SessionTimeout
<1>27. CASE CtlCancelled
  BY <1>27 DEF CtlCancelled, CtlWaits, CtlCompletes
<1>28. CASE XfrCancelled
  BY <1>28 DEF XfrCancelled, XfrWaits, XfrCompletes
<1>29. CASE CtlWritten
  BY <1>29 DEF CtlWritten, CtlWaits, CtlCompletes
<1>30. CASE XfrWritten
  BY <1>30 DEF XfrWritten, XfrWaits, XfrCompletes
<1>31. CASE ConnectReturns
  BY <1>31 DEF ConnectReturns, XfrWaits, XfrCompletes
<1>32. CASE ClientActs
  BY <1>32 DEF ClientActs, CtlWaits, CtlCompletes
<1>33. CASE ClientConnects
  BY <1>33 DEF ClientConnects, XfrWaits, XfrCompletes
<1>34. CASE AcceptFails
  BY <1>34 DEF AcceptFails, XfrWaits
<1>35. CASE ClientTransfers
  BY <1>35 DEF ClientTransfers, XfrWaits, XfrCompletes
<1>36. CASE UNCHANGED vars
  BY <1>36
<1> QED BY <1>1, <1>2, <1>3, <1>4, <1>5, <1>6, <1>7, <1>8, <1>9, <1>10, <1>11,
    <1>12, <1>13, <1>14, <1>15, <1>16, <1>17, <1>18, <1>19, <1>20, <1>21,
    <1>22, <1>23, <1>24, <1>25, <1>26, <1>27, <1>28, <1>29, <1>30, <1>31,
    <1>32, <1>33, <1>34, <1>35, <1>36 DEF Next, Control, TransferFile, System,
    Client

\* The inductive invariant holds throughout a session: what the control
\* coroutine, the transfer coroutine, the manager's timeout and the network do,
\* in any order, preserves it.
THEOREM Inductive == Spec => []IInv
<1>1. IInv /\ [Next]_vars => IInv'
  BY TypeStep, SafetyStep DEF IInv
<1> QED BY InitIInv, <1>1, PTL DEF Spec

-----------------------------------------------------------------------------
(***************************************************************************)
(* The theorems.                                                           *)
(***************************************************************************)

\* Every variable keeps its type; above all, no transfer is ever answered by
\* more than two final replies.
THEOREM TypeCorrect == Spec => []TypeOK
<1>1. IInv => TypeOK
  BY DEF IInv
<1> QED BY Inductive, <1>1, PTL

\* The FTP state that OnCommand tests agrees with the transfer coroutine, and
\* the assertions of TransferFile, SendFile and ReceiveFile hold.
THEOREM Consistent == Spec => []TransferConsistent
<1>1. IInv => TransferConsistent
  BY DEF IInv, SafetyInv
<1> QED BY Inductive, <1>1, PTL

\* The acceptor announced by PASV is listening when the transfer that uses it
\* is requested.
THEOREM PasvStaysUsable == Spec => []PasvUsable
<1>1. IInv => PasvUsable
  BY DEF IInv, SafetyInv, PendingInv, PasvUsable
<1> QED BY Inductive, <1>1, PTL

\* A transfer that waits for the other end of its data connection can be
\* interrupted, or has been.
THEOREM AlwaysInterruptible == Spec => []Interruptible
<1>1. IInv => Interruptible
  BY DEF IInv, SafetyInv, AbortInv, Interruptible
<1> QED BY Inductive, <1>1, PTL

\* abort_transfer_ outlives what it refers to only after an accept that the
\* system refused, or in a session that has ended.
THEOREM AbortStaysInScope == Spec => []AbortInScope
<1>1. IInv => AbortInScope
  BY DEF IInv, SafetyInv, AbortInv
<1> QED BY Inductive, <1>1, PTL

\* No data connection without a login, no protected one without an encrypted
\* control connection.
THEOREM Guarded == Spec => [](DataNeedsLogin /\ ProtNeedsTls)
<1>1. IInv => DataNeedsLogin /\ ProtNeedsTls
  BY DEF IInv, SafetyInv, LoginInv
<1> QED BY Inductive, <1>1, PTL

\* Data moves over TLS exactly if PROT asked for it when the data connection
\* came up: neither a later PROT nor a handshake that fails changes that.
THEOREM ProtIsHonoured == Spec => []ProtHonoured
<1>1. IInv => ProtHonoured
  BY DEF IInv, SafetyInv, LoginInv
<1> QED BY Inductive, <1>1, PTL

-----------------------------------------------------------------------------
\* The two ways TransferFile can leave without a final reply of its own: a
\* session that is going down, and a session that has expired.
LEMMA AnswerStep ==
    IInv /\ [Next]_vars
        => (xfr # "idle" /\ xfr' = "idle"
               => finals > 0 \/ replyFailed' \/ ~sock' \/ Expired')
<1> SUFFICES ASSUME IInv, Next, xfr # "idle", xfr' = "idle"
             PROVE  finals > 0 \/ replyFailed' \/ ~sock' \/ Expired'
    BY DEF vars, xfrVars
<1> USE DEF IInv, SafetyInv, ControlInv, FinalsInv, XfrReplies, XfrTurn,
    ctlVars, connVars, Expired
<1>1. CASE TransferDropped
  BY <1>1 DEF TransferDropped, XfrReplied, GoingDown, TransferReturns
<1>2. CASE TransferRefused
  BY <1>2 DEF TransferRefused, XfrReplied
<1>3. CASE TransferDone
  BY <1>3 DEF TransferDone, XfrReplied
<1>4. CASE Notified
  BY <1>4 DEF Notified, XfrReplied
<1>5. CASE EnterTransfer \/ ShutDown
  BY <1>5 DEF EnterTransfer, ShutDown, Complete, XfrGoto, NotifyFailed,
      TransferEnds, XfrSays, XfrReply
<1>6. CASE Sent \/ Received
  <2>1. CASE TransferEnds /\ (replyFailed \/ ~sock \/ Expired)
    BY <2>1 DEF TransferEnds, TransferReturns
  <2>2. CASE xfr' # "idle"
    BY <2>2
  <2> QED BY <1>6, <2>1, <2>2 DEF Sent, Received, AllDone, Complete, FileFails,
      XfrAwait, XfrGoto, NotifyFailed, XfrSays, XfrReply
<1>7. CASE SendNext \/ ReceiveNext \/ ReceiveOnClosed
  BY <1>7 DEF SendNext, ReceiveNext, ReceiveOnClosed, AllDone, Complete,
      FileFails, XfrAwait, XfrSays, XfrReply, xfrVars
<1>8. CASE TransferStarts \/ TransferOpened \/ NoConnection \/
    TransferConnected \/ TransferUpgraded \/ ForeignTask
  BY <1>8 DEF TransferStarts, TransferOpened, NoConnection, TransferConnected,
      TransferUpgraded, ForeignTask, XfrSays, XfrReply, xfrVars
<1>9. CASE Control
  BY <1>9 DEF Control, Greet, ReadNextCommand, EndSession, CtlReplied,
      CtlUpgraded, BadRequest, OrphanRequest, OnCommand, Refuse, InternalError,
      OnLogin, OnReplyOnly, OnTransfer, OnPort, OnPasv, OnAuth, OnProt, OnQuit,
      OnAbor, notCommand, xfrVars
<1>10. CASE SessionTimeout \/ System \/ Client
  BY <1>10 DEF SessionTimeout, System, Client, CtlCancelled, XfrCancelled,
      CtlWritten, XfrWritten, ConnectReturns, ClientActs, ClientConnects,
      AcceptFails, ClientTransfers, CtlCompletes, XfrCompletes, xfrVars
<1> QED BY <1>1, <1>2, <1>3, <1>4, <1>5, <1>6, <1>7, <1>8, <1>9, <1>10 DEF
    Next, TransferFile

\* TransferFile returns without a final reply only if the client can no longer
\* be told.
THEOREM EveryTransferAnswered == Spec => TransferAnswered
<1> QED BY Inductive, AnswerStep, PTL DEF Spec, TransferAnswered

=============================================================================
