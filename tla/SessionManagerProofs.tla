------------------------ MODULE SessionManagerProofs ------------------------
(***************************************************************************)
(* What SessionManager guarantees for any number of threads and            *)
(* connections: a stub has one timer, the table and the stubs agree, and   *)
(* no stub is given up while a task refers to it.                          *)
(*                                                                         *)
(* The heart of it is the order of the tasks in a queue: what a tick posts *)
(* runs before the next tick, since the timer starts again after they were *)
(* posted. OrderedQueue says that of one queue; three lemmas say what      *)
(* running the first task and posting one more do to it.                   *)
(***************************************************************************)
EXTENDS SessionManager, TLAPS, FiniteSetTheorems, SequenceTheorems

IsClose(task) == \E s \in Connections : task = CloseTask(s)

In(task, q) == \E i \in 1..Len(q) : q[i] = task

\* One tick at most, after the tasks that close sessions; each connection is
\* handed over once.
OrderedQueue(q) ==
    /\ \A i, j \in 1..Len(q) : q[i] = TimerTask /\ q[j] = TimerTask => i = j
    /\ \A i, j \in 1..Len(q) : q[i] = TimerTask /\ IsClose(q[j]) => j < i
    /\ \A i, j \in 1..Len(q) : \A s \in Connections :
          q[i] = ConnectTask(s) /\ q[j] = ConnectTask(s) => i = j

\* A connection in a queue waits for its thread and has no session yet.
HandedOver ==
    \A t \in Threads : \A s \in Connections :
        In(ConnectTask(s), queue[t]) => thread[s] = t /\ conn[s] = "accepted"

\* A thread has a stub exactly while it has a timer, armed or about to run.
Ticking ==
    \A t \in Threads :
        /\ stub[t] <=> timers[t] = 1 \/ In(TimerTask, queue[t])
        /\ timers[t] = 1 => ~In(TimerTask, queue[t])

FewSessions == \A t \in Threads : IsFiniteSet(attached[t])

IInv ==
    /\ TypeOK
    /\ \A t \in Threads : OrderedQueue(queue[t])
    /\ HandedOver /\ Ticking /\ FewSessions /\ SessionsAgree

-----------------------------------------------------------------------------
(***************************************************************************)
(* Tasks and queues.                                                       *)
(***************************************************************************)

\* Tasks of different kinds, or for different connections, differ.
LEMMA TasksDiffer ==
    ASSUME NEW s \in Connections, NEW x \in Connections
    PROVE  /\ TimerTask \in Tasks /\ ConnectTask(s) \in Tasks
           /\ CloseTask(s) \in Tasks
           /\ TimerTask # ConnectTask(s) /\ TimerTask # CloseTask(s)
           /\ ConnectTask(s) # CloseTask(x)
           /\ ConnectTask(s) = ConnectTask(x) => s = x
           /\ CloseTask(s) = CloseTask(x) => s = x
BY DEF TimerTask, ConnectTask, CloseTask, Tasks

\* The timer's task is a task whether or not there are connections.
LEMMA TimerIsTask == TimerTask \in Tasks /\ ~IsClose(TimerTask)
BY DEF TimerTask, CloseTask, Tasks, IsClose

\* Running the first task.
LEMMA RunFirst ==
    ASSUME NEW q \in Seq(Tasks), q # <<>>, OrderedQueue(q)
    PROVE  /\ Tail(q) \in Seq(Tasks) /\ OrderedQueue(Tail(q))
           /\ \A task : In(task, Tail(q)) => In(task, q)
           /\ \A task : In(task, q) /\ task # Head(q) => In(task, Tail(q))
           /\ In(Head(q), q)
           /\ Head(q) = TimerTask
                 => /\ ~In(TimerTask, Tail(q))
                    /\ \A s \in Connections : ~In(CloseTask(s), Tail(q))
           /\ \A s \in Connections :
                 Head(q) = ConnectTask(s) => ~In(ConnectTask(s), Tail(q))
<1>1. /\ Tail(q) \in Seq(Tasks) /\ Len(Tail(q)) = Len(q) - 1
      /\ Len(q) \in Nat /\ Len(q) > 0 /\ Head(q) = q[1]
      /\ \A i \in 1..Len(q) - 1 : Tail(q)[i] = q[i + 1]
    BY HeadTailProperties, EmptySeq, LenProperties
<1>2. \A i \in 1..Len(Tail(q)) : i + 1 \in 1..Len(q) /\ Tail(q)[i] = q[i + 1]
    BY <1>1
<1>3. OrderedQueue(Tail(q))
    BY <1>1, <1>2 DEF OrderedQueue
<1>4. \A task : In(task, Tail(q)) => In(task, q)
    BY <1>2 DEF In
<1>5. ASSUME NEW task, In(task, q), task # Head(q) PROVE In(task, Tail(q))
  <2>1. PICK i \in 1..Len(q) : q[i] = task
      BY <1>5 DEF In
  <2>2. i - 1 \in 1..Len(Tail(q)) /\ Tail(q)[i - 1] = task
      BY <1>1, <1>5, <2>1
  <2> QED BY <2>2 DEF In
<1>6. In(Head(q), q)
    BY <1>1 DEF In
<1>7. ASSUME Head(q) = TimerTask
      PROVE  /\ ~In(TimerTask, Tail(q))
             /\ \A s \in Connections : ~In(CloseTask(s), Tail(q))
    BY <1>1, <1>2, <1>7 DEF OrderedQueue, In, IsClose
<1>8. ASSUME NEW s \in Connections, Head(q) = ConnectTask(s)
      PROVE  ~In(ConnectTask(s), Tail(q))
    BY <1>1, <1>2, <1>8 DEF OrderedQueue, In
<1> QED BY <1>1, <1>3, <1>4, <1>5, <1>6, <1>7, <1>8

\* Posting the timer's task, or handing a connection over.
LEMMA PostOne ==
    ASSUME NEW q \in Seq(Tasks), OrderedQueue(q), NEW new \in Tasks,
           ~In(new, q), ~IsClose(new)
    PROVE  /\ Append(q, new) \in Seq(Tasks) /\ OrderedQueue(Append(q, new))
           /\ \A task : In(task, Append(q, new)) <=> In(task, q) \/ task = new
<1> DEFINE p == Append(q, new)
<1>1. /\ p \in Seq(Tasks) /\ Len(p) = Len(q) + 1 /\ Len(q) \in Nat
      /\ \A i \in 1..Len(q) : p[i] = q[i]
      /\ p[Len(q) + 1] = new
    BY AppendProperties, LenProperties
<1> HIDE DEF p
<1>2. \A i \in 1..Len(p) : i \in 1..Len(q) \/ i = Len(q) + 1
    BY <1>1
<1>3. \A task : In(task, p) <=> In(task, q) \/ task = new
    BY <1>1, <1>2 DEF In
<1>4. OrderedQueue(p)
    BY <1>1, <1>2 DEF OrderedQueue, In
<1> QED BY <1>1, <1>3, <1>4 DEF p

\* Posting the tasks that close sessions, when no tick is in the queue.
LEMMA PostClosings ==
    ASSUME NEW q \in Seq(Tasks), OrderedQueue(q), ~In(TimerTask, q),
           NEW c \in Seq(Tasks), \A i \in 1..Len(c) : IsClose(c[i])
    PROVE  /\ q \o c \in Seq(Tasks) /\ OrderedQueue(q \o c)
           /\ ~In(TimerTask, q \o c)
           /\ \A s \in Connections :
                 In(ConnectTask(s), q \o c) => In(ConnectTask(s), q)
<1> DEFINE p == q \o c
<1>1. /\ p \in Seq(Tasks) /\ Len(p) = Len(q) + Len(c)
      /\ Len(q) \in Nat /\ Len(c) \in Nat
      /\ \A i \in 1..Len(q) + Len(c) :
            p[i] = IF i <= Len(q) THEN q[i] ELSE c[i - Len(q)]
    BY ConcatProperties, LenProperties
<1> HIDE DEF p
<1>2. ASSUME NEW i \in 1..Len(p)
      PROVE  \/ i \in 1..Len(q) /\ p[i] = q[i]
             \/ i \notin 1..Len(q) /\ IsClose(p[i])
  <2>1. CASE i <= Len(q)
      BY <1>1, <2>1
  <2>2. CASE i > Len(q)
    <3>1. i - Len(q) \in 1..Len(c) /\ p[i] = c[i - Len(q)]
        BY <1>1, <2>2
    <3> QED BY <2>2, <3>1
  <2> QED BY <1>1, <2>1, <2>2
<1>3. \A task : IsClose(task)
          => task # TimerTask /\ \A s \in Connections : task # ConnectTask(s)
    BY TasksDiffer DEF IsClose
<1>4. ~In(TimerTask, p)
    BY <1>2, <1>3 DEF In
<1>5. \A s \in Connections : In(ConnectTask(s), p) => In(ConnectTask(s), q)
    BY <1>2, <1>3 DEF In
<1>6. OrderedQueue(p)
    BY <1>2, <1>3, <1>4 DEF OrderedQueue, In
<1> QED BY <1>1, <1>4, <1>5, <1>6 DEF p

\* What a tick posts: tasks that close sessions.
LEMMA ClosingsClose ==
    ASSUME TypeOK, FewSessions, NEW t \in Threads, NEW c \in Closings(t)
    PROVE  c \in Seq(Tasks) /\ \A i \in 1..Len(c) : IsClose(c[i])
<1> DEFINE due == {s \in attached[t] : idle[s]}
           n == Cardinality(due)
<1>1. attached[t] \subseteq Connections /\ IsFiniteSet(attached[t])
    BY DEF TypeOK, FewSessions
<1>2. n \in Nat
  <2>1. due \in SUBSET attached[t]
      OBVIOUS
  <2>2. IsFiniteSet(due)
      BY <1>1, <2>1, FS_Subset
  <2> QED BY <2>2, FS_CardinalityType
<1>3. PICK order \in [1..n -> due] : c = [i \in 1..n |-> CloseTask(order[i])]
    BY DEF Closings
<1> HIDE DEF n
<1>4. \A i \in 1..n : order[i] \in Connections /\ CloseTask(order[i]) \in Tasks
    BY <1>1, <1>3, TasksDiffer
<1>5. c \in [1..n -> Tasks]
    BY <1>3, <1>4
<1>6. c \in Seq(Tasks) /\ Len(c) = n
    BY <1>2, <1>5
<1> QED BY <1>3, <1>4, <1>6 DEF IsClose

-----------------------------------------------------------------------------
(***************************************************************************)
(* The steps.                                                              *)
(***************************************************************************)

\* The server starts without connections.
LEMMA InitIInv == Init => IInv
<1> SUFFICES ASSUME Init PROVE IInv
    OBVIOUS
<1>1. running \in BOOLEAN /\ listening \in BOOLEAN
    BY Zenon DEF Init
<1>2. stub \in [Threads -> BOOLEAN] /\ idle \in [Connections -> BOOLEAN]
    BY Zenon DEF Init
<1>3. TypeOK
    BY <1>1, <1>2, AcceptThreadAssumption DEF Init, TypeOK
<1>4. \A t \in Threads : OrderedQueue(queue[t])
    BY DEF Init, OrderedQueue
<1>5. HandedOver /\ Ticking
    BY DEF Init, HandedOver, Ticking, In
<1>6. FewSessions
    BY FS_EmptySet DEF Init, FewSessions
<1>7. SessionsAgree
    BY DEF Init, SessionsAgree
<1> QED BY <1>3, <1>4, <1>5, <1>6, <1>7 DEF IInv

\* What happens to the queues in a step: nothing, or one thread runs its first
\* task or gets one more.
QueuesKept ==
    /\ queue' \in [Threads -> Seq(Tasks)]
    /\ \A t \in Threads : OrderedQueue(queue'[t])

LEMMA QueuesStep == IInv /\ [Next]_vars => QueuesKept
<1> SUFFICES ASSUME IInv, [Next]_vars PROVE QueuesKept
    OBVIOUS
<1> USE DEF QueuesKept
<1>1. /\ queue \in [Threads -> Seq(Tasks)]
      /\ \A t \in Threads : queue[t] \in Seq(Tasks) /\ OrderedQueue(queue[t])
    BY DEF IInv, TypeOK
<1>2. ASSUME NEW t \in Threads, NEW q \in Seq(Tasks), OrderedQueue(q),
             queue' = [queue EXCEPT ![t] = q]
      PROVE  QueuesKept
    BY <1>1, <1>2
<1>3. ASSUME NEW s \in Connections, NEW t \in Threads, Accept(s, t)
      PROVE  QueuesKept
  <2>1. CASE UNCHANGED queue
      BY <1>1, <2>1
  <2>2. CASE queue' = [queue EXCEPT ![t] = Append(queue[t], ConnectTask(s))]
    <3>1. ~In(ConnectTask(s), queue[t])
        BY <1>3 DEF Accept, IInv, HandedOver
    <3>2. ConnectTask(s) \in Tasks /\ ~IsClose(ConnectTask(s))
        BY TasksDiffer DEF IsClose
    <3> QED BY <1>1, <1>2, <2>2, <3>1, <3>2, PostOne
  <2> QED BY <1>3, <2>1, <2>2 DEF Accept
<1>4. ASSUME NEW t \in Threads, TimerExpires(t) PROVE QueuesKept
  <2>1. ~In(TimerTask, queue[t])
      BY <1>4 DEF TimerExpires, IInv, TypeOK, Ticking
  <2> QED BY <1>1, <1>2, <1>4, <2>1, TimerIsTask, PostOne DEF TimerExpires
<1>5. ASSUME NEW t \in Threads, Housekeeping(t) PROVE QueuesKept
  <2>1. PICK c \in Closings(t) :
            queue' = [queue EXCEPT ![t] = Tail(queue[t]) \o c]
      BY <1>5 DEF Housekeeping
  <2>2. c \in Seq(Tasks) /\ \A i \in 1..Len(c) : IsClose(c[i])
      BY ClosingsClose DEF IInv
  <2>3. queue[t] # <<>> /\ Head(queue[t]) = TimerTask
      BY <1>5 DEF Housekeeping, Runs
  <2>4. /\ Tail(queue[t]) \in Seq(Tasks) /\ OrderedQueue(Tail(queue[t]))
        /\ ~In(TimerTask, Tail(queue[t]))
      BY <1>1, <2>3, RunFirst
  <2> QED BY <1>2, <2>1, <2>2, <2>4, PostClosings
<1>6. ASSUME NEW t \in Threads, queue[t] # <<>>,
             queue' = [queue EXCEPT ![t] = Tail(queue[t])]
      PROVE  QueuesKept
    BY <1>1, <1>2, <1>6, RunFirst
<1>7. ASSUME UNCHANGED queue PROVE QueuesKept
    BY <1>1, <1>7
<1> QED BY <1>3, <1>4, <1>5, <1>6, <1>7 DEF Next, vars, threadVars, Task,
    TimerEnds, RunConnect, RunClose, Runs, StopProtocol, StopInterface, Touch,
    SessionEnds, TimePasses

\* The other variables keep their types; above all, no thread ever has two
\* timers armed.
LEMMA TypeStep == IInv /\ [Next]_vars => TypeOK'
<1> SUFFICES ASSUME IInv, [Next]_vars PROVE TypeOK'
    OBVIOUS
<1> USE DEF TypeOK
<1>1. queue' \in [Threads -> Seq(Tasks)]
    BY QueuesStep DEF QueuesKept
<1>2. TypeOK /\ Ticking
    BY DEF IInv
<1>3. ASSUME NEW s \in Connections, NEW t \in Threads, CreateSession(s, t)
      PROVE  /\ timers' \in [Threads -> 0..1] /\ stub' \in [Threads -> BOOLEAN]
             /\ attached' \in [Threads -> SUBSET Connections]
             /\ sessions' \subseteq Connections
             /\ idle' \in [Connections -> BOOLEAN]
  <2>1. stub' \in [Threads -> BOOLEAN] /\ idle' \in [Connections -> BOOLEAN]
      BY <1>2, <1>3, Zenon DEF CreateSession
  <2>2. ~stub[t] => timers[t] + 1 \in 0..1
      BY <1>2 DEF Ticking
  <2>3. timers' \in [Threads -> 0..1]
      BY <1>2, <1>3, <2>2 DEF CreateSession
  <2> QED BY <1>2, <1>3, <2>1, <2>3 DEF CreateSession
<1>4. ASSUME NEW s \in Connections, NEW t \in Threads, OnConnected(s, t)
      PROVE  /\ timers' \in [Threads -> 0..1] /\ stub' \in [Threads -> BOOLEAN]
             /\ attached' \in [Threads -> SUBSET Connections]
             /\ sessions' \subseteq Connections
             /\ idle' \in [Connections -> BOOLEAN]
             /\ conn' \in [Connections -> {"none", "accepted", "open", "closed"}]
    BY <1>2, <1>3, <1>4 DEF OnConnected
<1>5. ASSUME NEW s \in Connections, s \in sessions, CloseSession(s)
      PROVE  /\ attached' \in [Threads -> SUBSET Connections]
             /\ sessions' \subseteq Connections /\ stub' = stub
             /\ conn' \in [Connections -> {"none", "accepted", "open", "closed"}]
    BY <1>2, <1>5 DEF CloseSession
<1>6. ASSUME NEW s \in Connections, NEW t \in Threads, Accept(s, t)
      PROVE  TypeOK'
    BY <1>1, <1>2, <1>4, <1>6 DEF Accept
<1>7. CASE StopProtocol \/ StopInterface
    BY <1>1, <1>2, <1>7, Zenon DEF StopProtocol, StopInterface, threadVars
<1>8. ASSUME NEW t \in Threads, Task(t) PROVE TypeOK'
  <2>1. CASE TimerEnds(t)
    <3>1. stub' \in [Threads -> BOOLEAN]
        BY <1>2, <2>1, Zenon DEF TimerEnds
    <3> QED BY <1>1, <1>2, <2>1, <3>1 DEF TimerEnds
  <2>2. CASE Housekeeping(t)
    <3>1. timers[t] + 1 \in 0..1
      <4>1. In(TimerTask, queue[t])
          BY <1>2, <2>2, RunFirst DEF Housekeeping, Runs, IInv
      <4> QED BY <1>2, <4>1 DEF Ticking
    <3>2. timers' \in [Threads -> 0..1]
        BY <1>2, <2>2, <3>1 DEF Housekeeping
    <3> QED BY <1>1, <1>2, <2>2, <3>2 DEF Housekeeping
  <2>3. ASSUME NEW s \in Connections, RunConnect(t, s) PROVE TypeOK'
      BY <1>1, <1>2, <1>4, <2>3 DEF RunConnect
  <2>4. ASSUME NEW s \in Connections, RunClose(t, s) PROVE TypeOK'
      BY <1>1, <1>2, <1>5, <2>4 DEF RunClose
  <2> QED BY <1>8, <2>1, <2>2, <2>3, <2>4 DEF Task
<1>9. ASSUME NEW t \in Threads, TimerExpires(t) PROVE TypeOK'
  <2>1. timers' \in [Threads -> 0..1]
      BY <1>2, <1>9 DEF TimerExpires
  <2> QED BY <1>1, <1>2, <1>9, <2>1 DEF TimerExpires
<1>10. ASSUME NEW s \in Connections, Touch(s) \/ TimePasses(s) PROVE TypeOK'
  <2>1. idle' \in [Connections -> BOOLEAN]
      BY <1>2, <1>10, Zenon DEF Touch, TimePasses
  <2> QED BY <1>1, <1>2, <1>10, <2>1 DEF Touch, TimePasses, threadVars
<1>11. ASSUME NEW s \in Connections, SessionEnds(s) PROVE TypeOK'
    BY <1>1, <1>2, <1>5, <1>11 DEF SessionEnds
<1>12. CASE UNCHANGED vars
    BY <1>2, <1>12 DEF vars, threadVars
<1> QED BY <1>6, <1>7, <1>8, <1>9, <1>10, <1>11, <1>12 DEF Next

\* A thread that gets its first session starts the timer; a tick starts it
\* again or ends it together with the stub.
LEMMA TickingStep == IInv /\ [Next]_vars => Ticking'
<1> SUFFICES ASSUME IInv, [Next]_vars PROVE Ticking'
    OBVIOUS
<1>1. TypeOK /\ Ticking /\ \A t \in Threads : OrderedQueue(queue[t])
    BY DEF IInv
<1>2. /\ queue \in [Threads -> Seq(Tasks)]
      /\ timers \in [Threads -> 0..1] /\ stub \in [Threads -> BOOLEAN]
    BY <1>1 DEF TypeOK
<1>3. ASSUME NEW t \in Threads, NEW s \in Connections, CreateSession(s, t),
             \A u \in Threads :
                In(TimerTask, queue'[u]) <=> In(TimerTask, queue[u])
      PROVE  Ticking'
  <2>1. /\ stub' = [stub EXCEPT ![t] = TRUE]
        /\ timers' = [timers EXCEPT ![t] = IF stub[t] THEN timers[t]
                                                     ELSE timers[t] + 1]
      BY <1>3 DEF CreateSession
  <2> QED BY <1>1, <1>2, <1>3, <2>1 DEF Ticking
<1>4. ASSUME stub' = stub, timers' = timers,
             \A u \in Threads :
                In(TimerTask, queue'[u]) <=> In(TimerTask, queue[u])
      PROVE  Ticking'
    BY <1>1, <1>4 DEF Ticking
<1>5. ASSUME NEW s \in Connections, NEW t \in Threads, Accept(s, t)
      PROVE  Ticking'
  <2>1. \A u \in Threads : In(TimerTask, queue'[u]) <=> In(TimerTask, queue[u])
    <3>1. CASE UNCHANGED queue
        BY <3>1
    <3>2. CASE queue' = [queue EXCEPT ![t] = Append(queue[t], ConnectTask(s))]
      <4>1. ConnectTask(s) \in Tasks /\ ~IsClose(ConnectTask(s))
               /\ ConnectTask(s) # TimerTask
          BY TasksDiffer DEF IsClose
      <4>2. ~In(ConnectTask(s), queue[t])
          BY <1>5 DEF Accept, IInv, HandedOver
      <4>3. In(TimerTask, Append(queue[t], ConnectTask(s)))
               <=> In(TimerTask, queue[t])
          BY <1>1, <1>2, <4>1, <4>2, PostOne
      <4> QED BY <1>2, <3>2, <4>3
    <3> QED BY <1>5, <3>1, <3>2 DEF Accept
  <2>2. CreateSession(s, t) \/ UNCHANGED <<stub, timers>>
      BY <1>5 DEF Accept, OnConnected
  <2> QED BY <1>3, <1>4, <2>1, <2>2
<1>6. ASSUME NEW t \in Threads, NEW s \in Connections,
             RunConnect(t, s) \/ RunClose(t, s)
      PROVE  Ticking'
  <2>1. /\ queue[t] # <<>> /\ queue' = [queue EXCEPT ![t] = Tail(queue[t])]
        /\ Head(queue[t]) \in {ConnectTask(s), CloseTask(s)}
      BY <1>6 DEF RunConnect, RunClose, Runs
  <2>2. Head(queue[t]) # TimerTask
      BY <2>1, TasksDiffer
  <2>3. In(TimerTask, Tail(queue[t])) <=> In(TimerTask, queue[t])
      BY <1>1, <1>2, <2>1, <2>2, RunFirst
  <2>4. \A u \in Threads : In(TimerTask, queue'[u]) <=> In(TimerTask, queue[u])
      BY <1>2, <2>1, <2>3
  <2>5. CreateSession(s, t) \/ UNCHANGED <<stub, timers>>
      BY <1>6 DEF RunConnect, RunClose, OnConnected, CloseSession
  <2> QED BY <1>3, <1>4, <2>4, <2>5
<1>7. ASSUME NEW t \in Threads, TimerEnds(t) PROVE Ticking'
  <2>1. /\ queue[t] # <<>> /\ queue' = [queue EXCEPT ![t] = Tail(queue[t])]
        /\ Head(queue[t]) = TimerTask
        /\ stub' = [stub EXCEPT ![t] = FALSE] /\ timers' = timers
      BY <1>7 DEF TimerEnds, Runs
  <2>2. ~In(TimerTask, Tail(queue[t])) /\ In(TimerTask, queue[t])
      BY <1>1, <1>2, <2>1, RunFirst
  <2> QED BY <1>1, <1>2, <2>1, <2>2 DEF Ticking
<1>8. ASSUME NEW t \in Threads, Housekeeping(t) PROVE Ticking'
  <2>1. PICK c \in Closings(t) :
            queue' = [queue EXCEPT ![t] = Tail(queue[t]) \o c]
      BY <1>8 DEF Housekeeping
  <2>2. /\ queue[t] # <<>> /\ Head(queue[t]) = TimerTask /\ stub' = stub
        /\ timers' = [timers EXCEPT ![t] = timers[t] + 1]
      BY <1>8 DEF Housekeeping, Runs
  <2>3. /\ Tail(queue[t]) \in Seq(Tasks) /\ OrderedQueue(Tail(queue[t]))
        /\ ~In(TimerTask, Tail(queue[t])) /\ In(TimerTask, queue[t])
      BY <1>1, <1>2, <2>2, RunFirst
  <2>4. c \in Seq(Tasks) /\ \A i \in 1..Len(c) : IsClose(c[i])
      BY ClosingsClose DEF IInv
  <2>5. ~In(TimerTask, Tail(queue[t]) \o c)
      BY <2>3, <2>4, PostClosings
  <2>6. stub[t] /\ timers[t] = 0
      BY <1>1, <1>2, <2>3 DEF Ticking
  <2> QED BY <1>1, <1>2, <2>1, <2>2, <2>5, <2>6 DEF Ticking
<1>9. ASSUME NEW t \in Threads, TimerExpires(t) PROVE Ticking'
  <2>1. /\ timers[t] = 1 /\ timers' = [timers EXCEPT ![t] = timers[t] - 1]
        /\ queue' = [queue EXCEPT ![t] = Append(queue[t], TimerTask)]
        /\ stub' = stub
      BY <1>2, <1>9 DEF TimerExpires
  <2>2. In(TimerTask, Append(queue[t], TimerTask)) /\ stub[t]
      BY <1>1, <1>2, <2>1, TimerIsTask, PostOne DEF Ticking
  <2> QED BY <1>1, <1>2, <2>1, <2>2 DEF Ticking
<1>10. ASSUME UNCHANGED threadVars PROVE Ticking'
    BY <1>4, <1>10 DEF threadVars
<1> QED BY <1>4, <1>5, <1>6, <1>7, <1>8, <1>9, <1>10 DEF Next, vars, Task,
    StopProtocol, StopInterface, Touch, SessionEnds, TimePasses, CloseSession

\* A connection is handed over once, to the thread that its socket was given.
LEMMA HandedOverStep == IInv /\ [Next]_vars => HandedOver'
<1> SUFFICES ASSUME IInv, [Next]_vars PROVE HandedOver'
    OBVIOUS
<1>1. TypeOK /\ HandedOver /\ SessionsAgree
         /\ \A t \in Threads : OrderedQueue(queue[t])
    BY DEF IInv
<1>2. /\ queue \in [Threads -> Seq(Tasks)] /\ thread \in [Connections -> Threads]
      /\ conn \in [Connections -> {"none", "accepted", "open", "closed"}]
    BY <1>1 DEF TypeOK
\* A step that gives no thread a new connection.
<1>3. ASSUME thread' = thread,
             \A t \in Threads, s \in Connections :
                In(ConnectTask(s), queue'[t])
                   => /\ In(ConnectTask(s), queue[t])
                      /\ conn'[s] = conn[s]
      PROVE  HandedOver'
    BY <1>1, <1>3 DEF HandedOver
<1>4. ASSUME NEW s \in Connections, NEW t \in Threads, Accept(s, t)
      PROVE  HandedOver'
  <2>1. /\ conn[s] = "none" /\ thread' = [thread EXCEPT ![s] = t]
        /\ \A x \in Connections : x # s => conn'[x] = conn[x]
      BY <1>2, <1>4 DEF Accept, OnConnected
  <2>2. \A u \in Threads : ~In(ConnectTask(s), queue[u])
      BY <1>1, <2>1 DEF HandedOver
  <2>3. CASE UNCHANGED queue
      BY <1>1, <1>2, <2>1, <2>2, <2>3 DEF HandedOver
  <2>4. CASE /\ queue' = [queue EXCEPT ![t] = Append(queue[t], ConnectTask(s))]
             /\ conn' = [conn EXCEPT ![s] = "accepted"]
    <3>1. ConnectTask(s) \in Tasks /\ ~IsClose(ConnectTask(s))
        BY TasksDiffer DEF IsClose
    <3>2. \A task : In(task, Append(queue[t], ConnectTask(s)))
                        => In(task, queue[t]) \/ task = ConnectTask(s)
        BY <1>1, <1>2, <2>2, <3>1, PostOne
    <3>3. ASSUME NEW u \in Threads, NEW x \in Connections,
                 In(ConnectTask(x), queue'[u])
          PROVE  (x = s /\ u = t) \/ (x # s /\ In(ConnectTask(x), queue[u]))
      <4>1. CASE u = t
        <5>1. In(ConnectTask(x), queue[t]) \/ ConnectTask(x) = ConnectTask(s)
            BY <1>2, <2>4, <3>2, <3>3, <4>1
        <5> QED BY <2>2, <4>1, <5>1, TasksDiffer
      <4>2. CASE u # t
          BY <1>2, <2>2, <2>4, <3>3, <4>2
      <4> QED BY <4>1, <4>2
    <3> QED BY <1>1, <1>2, <2>1, <2>4, <3>3 DEF HandedOver
  <2> QED BY <1>4, <2>3, <2>4 DEF Accept
<1>5. ASSUME NEW t \in Threads, NEW s \in Connections, RunConnect(t, s)
      PROVE  HandedOver'
  <2>1. /\ queue[t] # <<>> /\ Head(queue[t]) = ConnectTask(s)
        /\ queue' = [queue EXCEPT ![t] = Tail(queue[t])] /\ thread' = thread
        /\ \A x \in Connections : x # s => conn'[x] = conn[x]
      BY <1>2, <1>5 DEF RunConnect, Runs, OnConnected
  <2>2. /\ \A task : In(task, Tail(queue[t])) => In(task, queue[t])
        /\ In(ConnectTask(s), queue[t]) /\ ~In(ConnectTask(s), Tail(queue[t]))
      BY <1>1, <1>2, <2>1, RunFirst
  <2>3. \A u \in Threads : In(ConnectTask(s), queue[u]) => u = t
      BY <1>1, <2>2 DEF HandedOver
  <2>4. \A u \in Threads, x \in Connections :
            In(ConnectTask(x), queue'[u]) => In(ConnectTask(x), queue[u]) /\ x # s
      BY <1>2, <2>1, <2>2, <2>3
  <2> QED BY <1>3, <2>1, <2>4
<1>6. ASSUME NEW s \in Connections, s \in sessions
      PROVE  \A u \in Threads : ~In(ConnectTask(s), queue[u])
    BY <1>1, <1>6 DEF HandedOver, SessionsAgree
<1>7. ASSUME NEW t \in Threads, NEW s \in Connections, RunClose(t, s)
      PROVE  HandedOver'
  <2>1. /\ queue[t] # <<>> /\ queue' = [queue EXCEPT ![t] = Tail(queue[t])]
        /\ thread' = thread
        /\ \A x \in Connections : x # s \/ s \notin sessions => conn'[x] = conn[x]
      BY <1>2, <1>7 DEF RunClose, Runs, CloseSession
  <2>2. \A task : In(task, Tail(queue[t])) => In(task, queue[t])
      BY <1>1, <1>2, <2>1, RunFirst
  <2>3. \A u \in Threads, x \in Connections :
            In(ConnectTask(x), queue'[u]) => In(ConnectTask(x), queue[u])
      BY <1>2, <2>1, <2>2
  <2> QED BY <1>3, <1>6, <2>1, <2>3
<1>8. ASSUME NEW t \in Threads, TimerEnds(t) \/ Housekeeping(t)
      PROVE  HandedOver'
  <2>1. queue[t] # <<>> /\ thread' = thread /\ conn' = conn
      BY <1>8 DEF TimerEnds, Housekeeping, Runs
  <2>2. /\ Tail(queue[t]) \in Seq(Tasks) /\ OrderedQueue(Tail(queue[t]))
        /\ \A task : In(task, Tail(queue[t])) => In(task, queue[t])
        /\ Head(queue[t]) = TimerTask => ~In(TimerTask, Tail(queue[t]))
      BY <1>1, <1>2, <2>1, RunFirst
  <2>3. CASE queue' = [queue EXCEPT ![t] = Tail(queue[t])]
      BY <1>2, <1>3, <2>1, <2>2, <2>3
  <2>4. ASSUME NEW c \in Closings(t), Head(queue[t]) = TimerTask,
               queue' = [queue EXCEPT ![t] = Tail(queue[t]) \o c]
        PROVE  HandedOver'
    <3>1. c \in Seq(Tasks) /\ \A i \in 1..Len(c) : IsClose(c[i])
        BY ClosingsClose DEF IInv
    <3>2. \A x \in Connections : In(ConnectTask(x), Tail(queue[t]) \o c)
                                    => In(ConnectTask(x), Tail(queue[t]))
        BY <2>2, <2>4, <3>1, PostClosings
    <3> QED BY <1>2, <1>3, <2>1, <2>2, <2>4, <3>2
  <2> QED BY <1>8, <2>3, <2>4 DEF TimerEnds, Housekeeping, Runs
<1>9. ASSUME NEW t \in Threads, TimerExpires(t) PROVE HandedOver'
  <2>1. /\ queue' = [queue EXCEPT ![t] = Append(queue[t], TimerTask)]
        /\ thread' = thread /\ conn' = conn /\ timers[t] > 0
      BY <1>9 DEF TimerExpires
  <2>2. ~In(TimerTask, queue[t])
      BY <2>1 DEF IInv, TypeOK, Ticking
  <2>3. \A task : In(task, Append(queue[t], TimerTask))
                      => In(task, queue[t]) \/ task = TimerTask
      BY <1>1, <1>2, <2>2, TimerIsTask, PostOne
  <2>4. \A x \in Connections : In(ConnectTask(x), Append(queue[t], TimerTask))
                                  => In(ConnectTask(x), queue[t])
      BY <2>3, TasksDiffer
  <2> QED BY <1>2, <1>3, <2>1, <2>4
<1>10. ASSUME NEW s \in Connections, SessionEnds(s) PROVE HandedOver'
  <2>1. /\ queue' = queue /\ thread' = thread /\ s \in sessions
        /\ \A x \in Connections : x # s => conn'[x] = conn[x]
      BY <1>2, <1>10 DEF SessionEnds, CloseSession
  <2> QED BY <1>3, <1>6, <2>1
<1>11. ASSUME UNCHANGED <<queue, thread, conn>> PROVE HandedOver'
    BY <1>3, <1>11
<1> QED BY <1>4, <1>5, <1>7, <1>8, <1>9, <1>10, <1>11 DEF Next, vars,
    threadVars, Task, StopProtocol, StopInterface, Touch, TimePasses

\* The table, the stubs and the sockets change together.
LEMMA TableStep == IInv /\ [Next]_vars => SessionsAgree' /\ FewSessions'
<1> SUFFICES ASSUME IInv, [Next]_vars PROVE SessionsAgree' /\ FewSessions'
    OBVIOUS
<1>1. TypeOK /\ HandedOver /\ SessionsAgree /\ FewSessions /\ Ticking
    BY DEF IInv
<1>2. /\ thread \in [Connections -> Threads]
      /\ conn \in [Connections -> {"none", "accepted", "open", "closed"}]
      /\ attached \in [Threads -> SUBSET Connections]
      /\ sessions \subseteq Connections /\ stub \in [Threads -> BOOLEAN]
    BY <1>1 DEF TypeOK
<1>3. ASSUME NEW s \in Connections, NEW t \in Threads, CreateSession(s, t),
             conn' = [conn EXCEPT ![s] = "open"], s \notin sessions,
             thread' = [thread EXCEPT ![s] = t]
      PROVE  SessionsAgree' /\ FewSessions'
  <2>1. /\ attached' = [attached EXCEPT ![t] = attached[t] \cup {s}]
        /\ sessions' = sessions \cup {s} /\ stub' = [stub EXCEPT ![t] = TRUE]
      BY <1>3 DEF CreateSession
  <2>2. IsFiniteSet(attached[t] \cup {s})
      BY <1>1, FS_AddElement DEF FewSessions
  <2>3. FewSessions'
      BY <1>1, <1>2, <2>1, <2>2 DEF FewSessions
  <2>4. \A x \in Connections : x \in sessions' <=> conn'[x] = "open"
      BY <1>1, <1>2, <1>3, <2>1 DEF SessionsAgree
  <2>5. \A u \in Threads : attached'[u] = {x \in sessions' : thread'[x] = u}
      BY <1>1, <1>2, <1>3, <2>1 DEF SessionsAgree
  <2>6. \A u \in Threads : attached'[u] # {} => stub'[u]
      BY <1>1, <1>2, <2>1 DEF SessionsAgree
  <2> QED BY <2>3, <2>4, <2>5, <2>6 DEF SessionsAgree
<1>4. ASSUME NEW s \in Connections, s \notin sessions, conn'[s] # "open",
             \A x \in Connections : x # s => conn'[x] = conn[x] /\ thread'[x] = thread[x],
             UNCHANGED <<attached, sessions, stub>>
      PROVE  SessionsAgree' /\ FewSessions'
  <2>1. FewSessions'
      BY <1>1, <1>4 DEF FewSessions
  <2>2. \A x \in Connections : x \in sessions <=> conn'[x] = "open"
      BY <1>1, <1>2, <1>4 DEF SessionsAgree
  <2>3. \A u \in Threads : {x \in sessions : thread'[x] = u}
                                = {x \in sessions : thread[x] = u}
      BY <1>2, <1>4
  <2> QED BY <1>1, <1>4, <2>1, <2>2, <2>3 DEF SessionsAgree
<1>5. ASSUME NEW s \in Connections, CloseSession(s), s \in sessions,
             thread' = thread
      PROVE  SessionsAgree' /\ FewSessions'
  <2>1. /\ attached' = [attached EXCEPT ![thread[s]] = attached[thread[s]] \ {s}]
        /\ sessions' = sessions \ {s} /\ stub' = stub
        /\ conn' = [conn EXCEPT ![s] = "closed"] /\ thread[s] \in Threads
      BY <1>2, <1>5 DEF CloseSession
  <2>2. IsFiniteSet(attached[thread[s]] \ {s})
      BY <1>1, <2>1, FS_RemoveElement DEF FewSessions
  <2>3. FewSessions'
      BY <1>1, <1>2, <2>1, <2>2 DEF FewSessions
  <2>4. \A x \in Connections : x \in sessions' <=> conn'[x] = "open"
      BY <1>1, <1>2, <2>1 DEF SessionsAgree
  <2>5. \A u \in Threads : attached'[u] = {x \in sessions' : thread'[x] = u}
      BY <1>1, <1>2, <1>5, <2>1 DEF SessionsAgree
  <2>6. \A u \in Threads : attached'[u] # {} => stub'[u]
      BY <1>1, <1>2, <2>1 DEF SessionsAgree
  <2> QED BY <2>3, <2>4, <2>5, <2>6 DEF SessionsAgree
<1>6. ASSUME UNCHANGED <<attached, sessions, stub, conn, thread>>
      PROVE  SessionsAgree' /\ FewSessions'
    BY <1>1, <1>6 DEF SessionsAgree, FewSessions
<1>7. ASSUME NEW s \in Connections, NEW t \in Threads, Accept(s, t)
      PROVE  SessionsAgree' /\ FewSessions'
  <2>1. s \notin sessions /\ thread' = [thread EXCEPT ![s] = t]
      BY <1>1, <1>7 DEF Accept, SessionsAgree
  <2>2. CASE CreateSession(s, t) /\ conn' = [conn EXCEPT ![s] = "open"]
      BY <1>3, <2>1, <2>2
  <2>3. CASE /\ conn' = [conn EXCEPT ![s] = "accepted"]
                   \/ conn' = [conn EXCEPT ![s] = "closed"]
             /\ UNCHANGED <<attached, sessions, stub>>
      BY <1>2, <1>4, <2>1, <2>3
  <2> QED BY <1>7, <2>2, <2>3 DEF Accept, OnConnected
<1>8. ASSUME NEW t \in Threads, NEW s \in Connections, RunConnect(t, s)
      PROVE  SessionsAgree' /\ FewSessions'
  <2>1. In(ConnectTask(s), queue[t])
      BY <1>1, <1>8, RunFirst DEF RunConnect, Runs, TypeOK, IInv
  <2>2. thread[s] = t /\ s \notin sessions
      BY <1>1, <2>1 DEF HandedOver, SessionsAgree
  <2>3. thread' = thread /\ thread = [thread EXCEPT ![s] = t]
      BY <1>2, <1>8, <2>2 DEF RunConnect
  <2>4. CASE CreateSession(s, t) /\ conn' = [conn EXCEPT ![s] = "open"]
      BY <1>3, <2>2, <2>3, <2>4
  <2>5. CASE /\ conn' = [conn EXCEPT ![s] = "closed"]
             /\ UNCHANGED <<attached, sessions, stub>>
      BY <1>2, <1>4, <2>2, <2>3, <2>5
  <2> QED BY <1>8, <2>4, <2>5 DEF RunConnect, OnConnected
<1>9. ASSUME NEW t \in Threads, NEW s \in Connections, RunClose(t, s)
      PROVE  SessionsAgree' /\ FewSessions'
    BY <1>5, <1>6, <1>9 DEF RunClose
<1>10. ASSUME NEW t \in Threads, TimerEnds(t)
       PROVE  SessionsAgree' /\ FewSessions'
  <2>1. /\ stub' = [stub EXCEPT ![t] = FALSE] /\ attached[t] = {}
        /\ UNCHANGED <<attached, sessions, conn, thread>>
      BY <1>10 DEF TimerEnds
  <2> QED BY <1>1, <1>2, <2>1 DEF SessionsAgree, FewSessions
<1>11. ASSUME NEW s \in Connections, SessionEnds(s)
       PROVE  SessionsAgree' /\ FewSessions'
    BY <1>5, <1>11 DEF SessionEnds
<1> QED BY <1>6, <1>7, <1>8, <1>9, <1>10, <1>11 DEF Next, vars, threadVars, Task,
    Housekeeping, TimerExpires, StopProtocol, StopInterface, Touch, TimePasses

-----------------------------------------------------------------------------
(***************************************************************************)
(* The theorems.                                                           *)
(***************************************************************************)

\* Whatever connections arrive, on whatever threads, the inductive invariant
\* holds: the order of the tasks in each queue, who has been handed over, the
\* timers and the table.
THEOREM ManagerInvariant == Spec => []IInv
<1>1. IInv /\ [Next]_vars => IInv'
    BY QueuesStep, TypeStep, TickingStep, HandedOverStep, TableStep
       DEF IInv, QueuesKept
<1> QED BY InitIInv, <1>1, PTL DEF Spec

\* Every variable keeps its type; above all, a thread never has two timers.
THEOREM SpecTypeOK == Spec => []TypeOK
<1>1. IInv => TypeOK
    BY DEF IInv
<1> QED BY ManagerInvariant, <1>1, PTL

\* A stub has one timer from its first session until it is given up, however
\* often stubs are given up and made again.
THEOREM SpecOneTimer == Spec => []OneTimer
<1>1. ASSUME IInv PROVE OneTimer
  <2>1. ASSUME NEW t \in Threads
        PROVE  LET ticks == {i \in DOMAIN queue[t] : queue[t][i] = TimerTask} IN
               /\ stub[t] <=> timers[t] = 1 \/ ticks # {}
               /\ timers[t] > 0 => timers[t] = 1 /\ ticks = {}
               /\ \A i, j \in ticks : i = j
    <3> DEFINE ticks == {i \in DOMAIN queue[t] : queue[t][i] = TimerTask}
    <3>1. /\ OrderedQueue(queue[t]) /\ timers[t] \in 0..1
          /\ DOMAIN queue[t] = 1..Len(queue[t])
          /\ stub[t] <=> timers[t] = 1 \/ In(TimerTask, queue[t])
          /\ timers[t] = 1 => ~In(TimerTask, queue[t])
        BY <1>1, LenProperties DEF IInv, TypeOK, Ticking
    <3>2. In(TimerTask, queue[t]) <=> ticks # {}
        BY <3>1 DEF In
    <3>3. \A i, j \in ticks : i = j
        BY <3>1 DEF OrderedQueue
    <3> QED BY <3>1, <3>2, <3>3
  <2> QED BY <2>1 DEF OneTimer
<1> QED BY ManagerInvariant, <1>1, PTL

\* The assertions of CloseSession: a session in the table is listed by the
\* stub of its thread, which exists, and its socket is open.
THEOREM SpecSessionsAgree == Spec => []SessionsAgree
<1>1. IInv => SessionsAgree
    BY DEF IInv
<1> QED BY ManagerInvariant, <1>1, PTL

\* When the timer gives up a stub, no task that it posted is left to run.
THEOREM StubsOutliveTasks == Spec => StubOutlivesTasks
<1>1. ASSUME IInv, [Next]_vars
      PROVE  [\A t \in Threads : stub[t] /\ ~stub'[t] =>
                  \A s \in Connections : CloseTask(s) \notin Queued(t)']_vars
  <2>1. ASSUME Next, NEW t \in Threads, stub[t], ~stub'[t], NEW s \in Connections
        PROVE  CloseTask(s) \notin Queued(t)'
    <3>1. stub \in [Threads -> BOOLEAN] /\ queue \in [Threads -> Seq(Tasks)]
             /\ OrderedQueue(queue[t])
        BY <1>1 DEF IInv, TypeOK
    <3>2. ASSUME NEW x \in Connections, NEW u \in Threads, CreateSession(x, u)
          PROVE  FALSE
        BY <2>1, <3>1, <3>2 DEF CreateSession
    <3>3. PICK u \in Threads : TimerEnds(u)
        BY <2>1, <3>2 DEF Next, Task, Accept, RunConnect, RunClose, OnConnected,
           CloseSession, Housekeeping, TimerExpires, StopProtocol,
           StopInterface, Touch, SessionEnds, TimePasses, threadVars
    <3>4. u = t
        BY <2>1, <3>1, <3>3 DEF TimerEnds
    <3>5. ~In(CloseTask(s), Tail(queue[t])) /\ Tail(queue[t]) \in Seq(Tasks)
        BY <3>1, <3>3, <3>4, RunFirst DEF TimerEnds, Runs
    <3>6. queue'[t] = Tail(queue[t])
        BY <3>1, <3>3, <3>4 DEF TimerEnds
    <3>7. DOMAIN Tail(queue[t]) = 1..Len(Tail(queue[t]))
        BY <3>5, LenProperties
    <3> QED BY <3>5, <3>6, <3>7 DEF Queued, In
  <2> QED BY <1>1, <2>1
<1> QED BY ManagerInvariant, <1>1, PTL DEF Spec, StubOutlivesTasks
=============================================================================
