--------------------------- MODULE SessionManager ---------------------------
(***************************************************************************)
(* The sessions of a host (WfdeSessionManager), from the connection that   *)
(* the interface accepts to the end of the session.                        *)
(*                                                                         *)
(* Every thread of the pool runs its tasks one by one, in the order they   *)
(* were posted, and owns the sessions whose sockets it was given: their    *)
(* coroutines, a stub that lists them, and a timer that comes every three  *)
(* seconds while there is a stub and posts a task for every session that   *)
(* is to be closed. The coroutines of a session run between the tasks of   *)
(* its thread; they touch the session or end it. Threads share the table   *)
(* of sessions only, under a lock.                                         *)
(*                                                                         *)
(* The pool, its queues and timers come from a library and are modelled by *)
(* how they are used here.                                                 *)
(***************************************************************************)
EXTENDS Naturals, Sequences, FiniteSets

CONSTANTS
    Threads,       \* the threads of the pool
    AcceptThread,  \* the one that accepts connections: pipeline 0
    Connections    \* the connections clients make, and their sessions

ASSUME AcceptThreadAssumption == AcceptThread \in Threads

VARIABLES
    running,     \* running_ of the protocol
    listening,   \* the acceptor of the interface is open
    queue,       \* the tasks posted to each thread
    timers,      \* how many timers of each thread are armed
    stub,        \* stubs_[t] is set
    attached,    \* thd_sessions_ of the stub
    sessions,    \* sessions_
    thread,      \* tp_thread_id_
    conn,        \* the socket of each connection
    idle         \* idle for longer than session_time_out_secs_

threadVars == <<queue, timers, stub>>
vars == <<running, listening, threadVars, attached, sessions, thread, conn,
          idle>>

TimerTask == <<"timer">>
ConnectTask(s) == <<"connect", s>>
CloseTask(s) == <<"close", s>>
Tasks == {TimerTask} \cup ({"connect", "close"} \X Connections)

TypeOK ==
    /\ running \in BOOLEAN /\ listening \in BOOLEAN
    /\ queue \in [Threads -> Seq(Tasks)]
    /\ timers \in [Threads -> 0..1]
    /\ stub \in [Threads -> BOOLEAN]
    /\ attached \in [Threads -> SUBSET Connections]
    /\ sessions \subseteq Connections
    /\ thread \in [Connections -> Threads]
    /\ conn \in [Connections -> {"none", "accepted", "open", "closed"}]
    /\ idle \in [Connections -> BOOLEAN]

Queued(t) == {queue[t][i] : i \in DOMAIN queue[t]}

Init ==
    /\ running = TRUE /\ listening = TRUE
    /\ queue = [t \in Threads |-> <<>>]
    /\ timers = [t \in Threads |-> 0]
    /\ stub = [t \in Threads |-> FALSE]
    /\ attached = [t \in Threads |-> {}]
    /\ sessions = {}
    /\ thread = [s \in Connections |-> AcceptThread]
    /\ conn = [s \in Connections |-> "none"]
    /\ idle = [s \in Connections |-> FALSE]

-----------------------------------------------------------------------------
(***************************************************************************)
(* The operations of the session manager, as parts of a task.              *)
(***************************************************************************)

\* CreateSession, starting the timer for every session.
CreateSessionMutant(s, t) ==
    /\ stub' = [stub EXCEPT ![t] = TRUE]
    /\ timers' = [timers EXCEPT ![t] = timers[t] + 1]
    /\ attached' = [attached EXCEPT ![t] = @ \cup {s}]
    /\ sessions' = sessions \cup {s}
    /\ idle' = [idle EXCEPT ![s] = FALSE]

\* The first session of a thread makes the stub and starts the timer.
CreateSession(s, t) ==
    /\ stub' = [stub EXCEPT ![t] = TRUE]
    /\ timers' = [timers EXCEPT ![t] = IF stub[t] THEN @ ELSE @ + 1]
    /\ attached' = [attached EXCEPT ![t] = @ \cup {s}]
    /\ sessions' = sessions \cup {s}
    /\ idle' = [idle EXCEPT ![s] = FALSE]

\* OnConnected and HandleConnection. A protocol that has been stopped drops
\* the socket.
OnConnected(s, t) ==
    IF running
    THEN CreateSession(s, t) /\ conn' = [conn EXCEPT ![s] = "open"]
    ELSE /\ conn' = [conn EXCEPT ![s] = "closed"]
         /\ UNCHANGED <<stub, timers, attached, sessions, idle>>

\* CloseSession that leaves the session in its stub.
CloseSessionMutant(s) ==
    /\ conn' = [conn EXCEPT ![s] = "closed"]
    /\ sessions' = sessions \ {s}
    /\ UNCHANGED <<stub, attached>>

\* CloseSession that gives up the stub with its last session.
CloseSessionEager(s) ==
    LET rest == attached[thread[s]] \ {s} IN
    /\ conn' = [conn EXCEPT ![s] = "closed"]
    /\ sessions' = sessions \ {s}
    /\ attached' = [attached EXCEPT ![thread[s]] = rest]
    /\ stub' = [stub EXCEPT ![thread[s]] = rest # {}]

\* CloseSession, of a session that is found.
CloseSession(s) ==
    /\ conn' = [conn EXCEPT ![s] = "closed"]
    /\ sessions' = sessions \ {s}
    /\ attached' = [attached EXCEPT ![thread[s]] = @ \ {s}]
    /\ UNCHANGED stub

\* The tasks the stub posts: one for every session that has timed out, in
\* some order.
Closings(t) ==
    LET due == {s \in attached[t] : idle[s]}
        places == 1..Cardinality(due)
    IN  {[i \in places |-> CloseTask(order[i])] :
            order \in {o \in [places -> due] :
                          \A s \in due : \E i \in places : o[i] = s}}

-----------------------------------------------------------------------------
(***************************************************************************)
(* The interface: it accepts a connection and hands it to its thread.      *)
(***************************************************************************)
Accept(s, t) ==
    /\ listening
    /\ conn[s] = "none"
    /\ thread' = [thread EXCEPT ![s] = t]
    /\ IF t = AcceptThread
       THEN OnConnected(s, t) /\ UNCHANGED queue
       ELSE /\ conn' = [conn EXCEPT ![s] = "accepted"]
            /\ queue' = [queue EXCEPT ![t] = Append(queue[t], ConnectTask(s))]
            /\ UNCHANGED <<timers, stub, attached, sessions, idle>>
    /\ UNCHANGED <<running, listening>>

\* WfdeProtocol::Stop, by a thread that is not of the pool: first the flag,
\* then the interfaces.
StopProtocol ==
    /\ running
    /\ running' = FALSE
    /\ UNCHANGED <<listening, threadVars, attached, sessions, thread, conn,
                   idle>>

StopInterface ==
    /\ ~running /\ listening
    /\ listening' = FALSE
    /\ UNCHANGED <<running, threadVars, attached, sessions, thread, conn, idle>>

(***************************************************************************)
(* The tasks of a thread.                                                  *)
(***************************************************************************)
Runs(t, task) == queue[t] # <<>> /\ Head(queue[t]) = task

RunConnect(t, s) ==
    /\ Runs(t, ConnectTask(s))
    /\ OnConnected(s, t)
    /\ queue' = [queue EXCEPT ![t] = Tail(queue[t])]
    /\ UNCHANGED <<running, listening, thread>>

\* OnThdTimer that starts the timer again for a stub it has given up.
TimerEndsMutant(t) ==
    /\ Runs(t, TimerTask)
    /\ attached[t] = {}
    /\ stub' = [stub EXCEPT ![t] = FALSE]
    /\ timers' = [timers EXCEPT ![t] = timers[t] + 1]
    /\ queue' = [queue EXCEPT ![t] = Tail(queue[t])]
    /\ UNCHANGED <<running, listening, attached, sessions, thread, conn, idle>>

\* OnThdTimer without its test for an empty stub.
TimerEndsNever(t) ==
    /\ Runs(t, TimerTask)
    /\ attached[t] = {}
    /\ timers' = [timers EXCEPT ![t] = timers[t] + 1]
    /\ queue' = [queue EXCEPT ![t] = Tail(queue[t])]
    /\ UNCHANGED <<running, listening, stub, attached, sessions, thread, conn,
                   idle>>

\* OnThdTimer for a stub without sessions: stub and timer end.
TimerEnds(t) ==
    /\ Runs(t, TimerTask)
    /\ attached[t] = {}
    /\ stub' = [stub EXCEPT ![t] = FALSE]
    /\ queue' = [queue EXCEPT ![t] = Tail(queue[t])]
    /\ UNCHANGED <<running, listening, timers, attached, sessions, thread,
                   conn, idle>>

\* OnThdTimer that does not start the timer again when it has closed one.
HousekeepingMutant(t) ==
    /\ Runs(t, TimerTask)
    /\ attached[t] # {}
    /\ \E c \in Closings(t) : queue' = [queue EXCEPT ![t] = Tail(queue[t]) \o c]
    /\ UNCHANGED <<running, listening, timers, stub, attached, sessions, thread,
                   conn, idle>>

Housekeeping(t) ==
    /\ Runs(t, TimerTask)
    /\ attached[t] # {}
    /\ \E c \in Closings(t) : queue' = [queue EXCEPT ![t] = Tail(queue[t]) \o c]
    /\ timers' = [timers EXCEPT ![t] = timers[t] + 1]
    /\ UNCHANGED <<running, listening, stub, attached, sessions, thread, conn,
                   idle>>

\* The task that Housekeeping posted. The session may have ended since; it
\* may have been touched, too, and is closed all the same.
RunClose(t, s) ==
    /\ Runs(t, CloseTask(s))
    /\ IF s \in sessions THEN CloseSession(s)
                         ELSE UNCHANGED <<conn, sessions, attached, stub>>
    /\ queue' = [queue EXCEPT ![t] = Tail(queue[t])]
    /\ UNCHANGED <<running, listening, timers, thread, idle>>

TimerExpires(t) ==
    /\ timers[t] > 0
    /\ timers' = [timers EXCEPT ![t] = timers[t] - 1]
    /\ queue' = [queue EXCEPT ![t] = Append(queue[t], TimerTask)]
    /\ UNCHANGED <<running, listening, stub, attached, sessions, thread, conn,
                   idle>>

(***************************************************************************)
(* The coroutines of a session, and time.                                  *)
(***************************************************************************)
Touch(s) ==
    /\ s \in sessions /\ idle[s]
    /\ idle' = [idle EXCEPT ![s] = FALSE]
    /\ UNCHANGED <<running, listening, threadVars, attached, sessions, thread,
                   conn>>

\* DoClose of the FTP session.
SessionEnds(s) ==
    /\ s \in sessions
    /\ CloseSession(s)
    /\ UNCHANGED <<running, listening, queue, timers, thread, idle>>

TimePasses(s) ==
    /\ s \in sessions /\ ~idle[s]
    /\ idle' = [idle EXCEPT ![s] = TRUE]
    /\ UNCHANGED <<running, listening, threadVars, attached, sessions, thread,
                   conn>>

-----------------------------------------------------------------------------
Task(t) ==
    \/ TimerEnds(t) \/ Housekeeping(t)
    \/ \E s \in Connections : RunConnect(t, s) \/ RunClose(t, s)

Next ==
    \/ StopProtocol \/ StopInterface
    \/ \E t \in Threads :
          \/ Task(t) \/ TimerExpires(t)
          \/ \E s \in Connections : Accept(s, t)
    \/ \E s \in Connections : Touch(s) \/ SessionEnds(s) \/ TimePasses(s)

Spec == Init /\ [][Next]_vars

(***************************************************************************)
(* A thread of the pool runs what is in its queue, and timers expire.      *)
(***************************************************************************)
Fairness ==
    \A t \in Threads : WF_vars(Task(t)) /\ WF_vars(TimerExpires(t))

FairSpec == Spec /\ Fairness

-----------------------------------------------------------------------------
(***************************************************************************)
(* Properties.                                                             *)
(***************************************************************************)

\* A stub has exactly one timer, armed or about to run, and a thread without
\* a stub has none: a stub given up and made again does not meet the timer of
\* the old one, and none is left without.
OneTimer ==
    \A t \in Threads :
        LET ticks == {i \in DOMAIN queue[t] : queue[t][i] = TimerTask} IN
        /\ stub[t] <=> timers[t] = 1 \/ ticks # {}
        /\ timers[t] > 0 => timers[t] = 1 /\ ticks = {}
        /\ \A i, j \in ticks : i = j

\* The table and the stubs agree between tasks (the assertions of
\* CloseSession): the sessions in the table are those listed by the stub of
\* their thread, and their sockets are the open ones.
SessionsAgree ==
    /\ \A s \in Connections : s \in sessions <=> conn[s] = "open"
    /\ \A t \in Threads :
          /\ attached[t] = {s \in sessions : thread[s] = t}
          /\ attached[t] # {} => stub[t]

\* A task that closes a session refers to the stub that posted it: no stub is
\* given up while one is in the queue.
StubOutlivesTasks ==
    [][\A t \in Threads :
          stub[t] /\ ~stub'[t] =>
              \A s \in Connections : CloseTask(s) \notin Queued(t)']_vars

\* No session stays idle for ever.
IdleIsClosed == \A s \in Connections : []<>~(s \in sessions /\ idle[s])

\* A thread whose sessions have ended gives up its stub, and its timer stops.
StubIsReleased == \A t \in Threads : []<>(stub[t] => attached[t] # {})
=============================================================================
