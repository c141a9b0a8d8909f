-------------------------- MODULE DDLogProperties --------------------------
(***************************************************************************)
(* What makes the dispatch core correct, stated over module DDLog.         *)
(***************************************************************************)
EXTENDS DDLog

Pending(kind) ==
    {c \in UNION {ToSet(loggerQueue[q]) : q \in QueueIds} : c.kind = kind}

\* Messages that a log statement handed over and that some logger may still get.
InFlight ==
    {loggingQueue[i].arg : i \in {k \in DOMAIN loggingQueue : loggingQueue[k].op = "log"}}
    \cup (IF job.kind = "logMessage" THEN {job.arg} ELSE {})
    \cup {c.arg : c \in Pending("logMessage")}

\* A synchronous statement made on the logging queue itself overtakes the queue.
Direct(m) == m.by = OnLoggingQueue /\ m.sync

TypeOK ==
    /\ loggers \in Seq(Nodes)
    /\ loggingQueue \in Seq(Blocks)
    /\ running \in Blocks \cup {NoBlock}
    /\ job \in Jobs
    /\ todo \in Seq(Nodes)
    /\ outstanding \subseteq Nodes
    /\ loggerQueue \in [QueueIds -> Seq(Callbacks)]
    /\ blocked \subseteq Threads
    /\ calls \in 0 .. MaxCalls
    /\ issued \in 0 .. calls
    /\ received \in [Loggers -> Seq([msg : Messages, fmt : Formatters \cup {NoFormatter}])]
    /\ formatter \in [OwnQueue -> Formatters \cup {NoFormatter}]
    /\ flushed \in [Loggers -> Nat]
    /\ attached \in [Loggers -> Int]
    /\ detached \subseteq Loggers
    /\ alive \in BOOLEAN

\* Every logger gets the messages of the program in the order of the log
\* statements, whatever threads made them and whatever mixture of synchronous
\* and asynchronous calls: "All logging statements are added to the same queue
\* to ensure FIFO operation" (DDLog.m, _loggingQueue).  Statements made on the
\* logging queue itself are exempt: queueLogMessage: does not queue them.
DeliveredInOrder ==
    \A l \in Loggers : \A i, j \in DOMAIN received[l] :
        (i < j /\ ~Direct(received[l][i].msg) /\ ~Direct(received[l][j].msg))
            => received[l][i].msg.id <= received[l][j].msg.id

\* lt_log waits for its dispatch group "so that a slow logger doesn't end up
\* with a large queue of pending log messages": at any time all loggers
\* together have callbacks pending for one message, the one lt_log works on.
OneMessageAtATime ==
    \A c \in Pending("logMessage") : job.kind = "logMessage" /\ job.arg = c.arg

\* A thread does not return from a synchronous log statement while any
\* registered logger still has to see the message.
SyncReturnsDelivered ==
    \A m \in InFlight : (m.sync /\ m.by \in Threads /\ alive) => m.by \in blocked

\* DDLogger protocol: "Loggers will not receive log messages that were executed
\* after they were removed."
NoLogAfterRemoval ==
    \A c \in Pending("logMessage") : c.node.logger \notin detached

\* A message that waits on a logger's queue is for a node that is still registered:
\* lt_log reads the list long before the logger runs, but no removal comes between.
OnlyRegisteredAreCalled ==
    \A c \in Pending("logMessage") : c.node \in ToSet(loggers)

\* A logger is told that it was added before it is given its first message, and
\* is not told that it is removed while it still has one to come.
NotifiedBeforeLogging ==
    \A q \in QueueIds :
        (loggerQueue[q] # <<>> /\ Head(loggerQueue[q]).kind = "logMessage")
            => attached[Head(loggerQueue[q]).node.logger] > 0

\* When flushLog returns, no statement the caller made before it is in flight,
\* and each logger that implements -flush has flushed all it ever received.
FlushCoversCaller ==
    [][\A t \in blocked \ blocked' :
          (running.op = "flush" /\ running.by = t) =>
             /\ \A m \in InFlight : m.by # t
             /\ \A n \in ToSet(loggers) :
                   n.logger \in Flushable => flushed[n.logger] = Len(received[n.logger])]_vars

\* A process that ends through applicationWillTerminate loses no statement made
\* before the notification, on any thread, and leaves no logger unflushed.
ExitLosesNothing ==
    [][(alive /\ ~alive') =>
          /\ \A m \in InFlight : m.id > running.arg.upTo
          /\ \A n \in ToSet(loggers) :
                n.logger \in Flushable => flushed[n.logger] = Len(received[n.logger])]_vars

-----------------------------------------------------------------------------
(* DDLog implements OrderedBroadcast.  A block counts as a request until it   *)
(* has finished; a message that is being handed out counts as received by     *)
(* nobody; a formatter counts as set once its setter is on the logger's queue.*)

AbstractRequests ==
    IF job = NoJob \/ running.op = "client" THEN loggingQueue ELSE <<running>> \o loggingQueue

Settled(l) ==
    {k \in DOMAIN received[l] : ~(job.kind = "logMessage" /\ received[l][k].msg = job.arg)}
AbstractReceived ==
    [l \in Loggers |-> SubSeq(received[l], 1, Cardinality(Settled(l)))]

\* The formatter of a logger that has f when all that waits on its queue, s, has run.
InForce(s, f) ==
    LET setters == {i \in DOMAIN s : s[i].kind = "setFormatter"}
    IN  IF setters = {} THEN f ELSE s[Max(setters)].arg
AbstractFormatter ==
    [l \in OwnQueue |-> InForce(loggerQueue[OwnQueueOf(l)], formatter[l])]

Promise == INSTANCE OrderedBroadcast WITH
    requests <- AbstractRequests, received <- AbstractReceived, formatter <- AbstractFormatter

\* With all its queues, the core behaves like the atomic, ordered broadcast of
\* OrderedBroadcast.  It includes what the comment in -logFormatter demands: a
\* formatter applies to the statements after setLogFormatter: and to none
\* before, and the getter returns what the setter was last given.
BroadcastIsAtomic == Promise!Spec
=============================================================================
