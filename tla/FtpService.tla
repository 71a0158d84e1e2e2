----------------------------- MODULE FtpService -----------------------------
(***************************************************************************)
(* What an FTP session promises its client about transfers, without        *)
(* coroutines, sockets and operations:                                     *)
(*   - a transfer begins only for a client that has logged in and has set  *)
(*     up a data connection, one at a time and not after the end;          *)
(*   - the client is told that it begins before there is a data connection *)
(*     and before it is told how it ended;                                 *)
(*   - it ends only after a final reply, unless the client is lost, and    *)
(*     uses up the data connection that was set up; there is one final     *)
(*     reply, or two if the data connection broke;                         *)
(*   - data is protected only in a session that is protected itself.       *)
(* FtpSession implements this (ImplementsService).                         *)
(***************************************************************************)
EXTENDS Naturals

VARIABLES
    user,     \* the client has logged in
    secure,   \* the control connection is encrypted
    lost,     \* the client can no longer be told anything
    over,     \* the session has ended
    offer,    \* the data connection that was set up
    job,      \* the transfer
    told,     \* the final replies to it
    sealed    \* its data is protected

clientVars == <<user, secure, lost, over>>
jobVars == <<offer, job, told, sealed>>
vars == <<clientVars, jobVars>>

Init ==
    /\ user = FALSE /\ secure = FALSE /\ lost = FALSE /\ over = FALSE
    /\ offer = "NONE" /\ job = "idle" /\ told = 0 /\ sealed = FALSE

Login ==
    /\ ~user /\ job = "idle" /\ offer = "NONE" /\ user' = TRUE
    /\ UNCHANGED <<secure, lost, over, jobVars>>

Secure ==
    /\ secure' = TRUE
    /\ UNCHANGED <<user, lost, over, jobVars>>

SetUp ==
    /\ user /\ job = "idle" /\ ~over /\ offer' \in {"PORT", "PASV"}
    /\ UNCHANGED <<clientVars, job, told, sealed>>

Begin ==
    /\ user /\ offer # "NONE" /\ job = "idle" /\ ~over
    /\ job' = "begun"
    /\ UNCHANGED <<clientVars, offer, told, sealed>>

Announce ==
    /\ job = "begun" /\ job' = "announced"
    /\ UNCHANGED <<clientVars, offer, told, sealed>>

Connect ==
    /\ job = "announced" /\ told = 0 /\ job' = "connected"
    /\ UNCHANGED <<clientVars, offer, told, sealed>>

Protect ==
    /\ job = "connected" /\ told = 0 /\ secure /\ sealed' = TRUE
    /\ UNCHANGED <<clientVars, offer, job, told>>

\* A final reply.
Answer ==
    /\ ~lost
    /\ \/ job = "announced" /\ told = 0
       \/ job = "connected" /\ told \in {0, 1}
    /\ told' = told + 1
    /\ UNCHANGED <<clientVars, offer, job, sealed>>

\* That the client is lost may be noticed when the transfer ends.
End ==
    /\ job \in {"announced", "connected"}
    /\ lost' \in BOOLEAN /\ (lost => lost')
    /\ told > 0 \/ lost'
    /\ job' = "idle" /\ offer' = "NONE" /\ told' = 0 /\ sealed' = FALSE
    /\ UNCHANGED <<user, secure, over>>

Lose ==
    /\ lost' = TRUE
    /\ UNCHANGED <<user, secure, over, jobVars>>

\* The session ends, whatever becomes of the transfer.
Finish ==
    /\ over' = TRUE /\ lost' = TRUE
    /\ UNCHANGED <<user, secure, jobVars>>

Next ==
    \/ Login \/ Secure \/ SetUp \/ Begin \/ Announce \/ Connect \/ Protect
    \/ Answer \/ End \/ Lose \/ Finish

Spec == Init /\ [][Next]_vars
=============================================================================
