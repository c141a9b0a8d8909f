------------------------------- MODULE DDLog -------------------------------
(***************************************************************************)
(* The dispatch core of CocoaLumberjack (DDLog.m): every log statement and *)
(* every change of the logger list goes through one serial GCD queue, the  *)
(* "logging queue".  A block that runs there hands a message to each       *)
(* registered logger on that logger's own serial queue and waits for all   *)
(* of them before the next block starts.  The logger formatter of          *)
(* DDAbstractLogger is read and written through the same two queues.       *)
(*                                                                         *)
(* GCD is modelled by what the code relies on: a serial queue runs its     *)
(* blocks one at a time in the order they were enqueued, dispatch_sync     *)
(* blocks the caller until its block has run, and a dispatch group waits   *)
(* for the blocks enqueued with it.                                        *)
(***************************************************************************)
EXTENDS Integers, Sequences, FiniteSets, SequencesExt

CONSTANTS
    Threads,        \* application threads that call the public API
    Loggers,        \* objects implementing the DDLogger protocol
    OwnQueue,       \* the loggers that provide a loggerQueue (DDAbstractLogger)
    Flushable,      \* the loggers that implement -flush
    Flags,          \* DDLogFlag bits
    Levels,         \* DDLogLevel masks, as sets of flags
    Formatters,     \* objects implementing DDLogFormatter
    NoFormatter,    \* nil, the initial value of _logFormatter
    Api,            \* the public operations the clients of a run use
    Installed,      \* the loggers added, and notified, before the run starts
    Multiprocessor, \* _numProcessors > 1
    MaxCalls,       \* bound: how many API calls a behaviour makes
    None            \* no thread, no argument

\* The logging queue itself as a caller: a client block that was dispatched to
\* [DDLog loggingQueue] runs on it and may log (dispatch_get_specific is set).
OnLoggingQueue == "on logging queue"
Callers == Threads \cup {OnLoggingQueue}

Operations == {"log", "add", "remove", "removeAll", "list", "flush",
               "terminate", "setFormatter", "getFormatter", "client"}

\* A serial queue is named by its logger and, for a queue that lt_addLogger
\* creates, by the call that asked for it.
QueueIds == Loggers \X (0 .. MaxCalls)
OwnQueueOf(l) == <<l, 0>>

\* DDLoggerNode: a logger registered at a level, with the queue it runs on.
Nodes == [logger : Loggers, level : SUBSET Flags, queue : QueueIds]

\* DDLogMessage: number in order of the log statements, flag, author, and
\* whether the statement was synchronous.
Messages == [id : 1 .. MaxCalls, flag : Flags, by : Callers, sync : BOOLEAN]

\* A block on the logging queue; by is the thread that dispatch_sync blocks.
Blocks ==
         [op : {"log"}, arg : Messages, by : Threads \cup {None}]
    \cup [op : {"add"}, arg : Nodes, by : {None}]
    \cup [op : {"remove"}, arg : Loggers, by : {None}]
    \cup [op : {"removeAll", "client"}, arg : {None}, by : {None}]
    \cup [op : {"list", "flush"}, arg : {None}, by : Threads]
    \cup [op : {"terminate"}, arg : [upTo : 0 .. MaxCalls], by : Threads]
    \cup [op : {"setFormatter"}, arg : [logger : OwnQueue, formatter : Formatters], by : {None}]
    \cup [op : {"getFormatter"}, arg : OwnQueue, by : Threads]

\* A block on a logger's queue.
Callbacks ==
         [kind : {"logMessage"}, node : Nodes, arg : Messages]
    \cup [kind : {"didAdd", "willRemove", "flush", "getFormatter"}, node : Nodes, arg : {None}]
    \cup [kind : {"setFormatter"}, node : Nodes, arg : Formatters]

\* What the running block has every logger do.
Jobs == [kind : {"logMessage"}, arg : Messages]
   \cup [kind : {"flush", "getFormatter", "willRemove", "none"}, arg : {None}]

NoBlock == [op |-> "none", arg |-> None, by |-> None]
NoJob   == [kind |-> "none", arg |-> None]

ASSUME DDLogAssumption ==
    /\ MaxCalls \in Nat
    /\ Multiprocessor \in BOOLEAN
    /\ OwnQueue \subseteq Loggers
    /\ Flushable \subseteq Loggers
    /\ Levels \subseteq SUBSET Flags
    /\ Api \subseteq Operations
    /\ OnLoggingQueue \notin Threads
    /\ None \notin Threads
    /\ NoFormatter \notin Formatters
    /\ Installed \in Seq(Nodes)
    /\ \A i \in DOMAIN Installed : Installed[i].queue = OwnQueueOf(Installed[i].logger)
    /\ \A i, j \in DOMAIN Installed :
          i # j => \/ Installed[i].logger # Installed[j].logger
                   \/ Installed[i].level # Installed[j].level

VARIABLES
    loggers,      \* _loggers, the array of nodes in order of addition
    loggingQueue, \* _loggingQueue: the blocks not started yet
    running,      \* the block the logging queue is executing
    job,          \* what that block dispatches to the loggers
    todo,         \* the nodes its loop has not visited yet
    outstanding,  \* nodes whose callback it waits for (_loggingGroup, or dispatch_sync)
    loggerQueue,  \* the serial queue of each logger
    blocked,      \* threads inside dispatch_sync
    calls,        \* API calls made so far
    issued,       \* log statements executed so far
    received,     \* per logger: the messages logMessage: was given, with the formatter used
    formatter,    \* _logFormatter of each logger
    flushed,      \* per logger: how many messages it had when it was last flushed
    attached,     \* per logger: didAdd minus willRemove notifications received
    detached,     \* loggers whose most recent lt_addLogger / lt_removeLogger was a removal
    result,       \* the __block result of the synchronous getter being executed
    returned,     \* per thread: what its last synchronous getter returned
    alive         \* the process has not exited

registry == <<loggers, detached>>
engine   == <<loggingQueue, running, job, todo, outstanding>>
callers  == <<blocked, calls, issued, returned, alive>>
effects  == <<received, formatter, flushed, attached>>
vars     == <<registry, engine, loggerQueue, callers, effects, result>>

Init ==
    /\ loggers = Installed
    /\ loggingQueue = <<>> /\ running = NoBlock /\ job = NoJob
    /\ todo = <<>> /\ outstanding = {}
    /\ loggerQueue = [q \in QueueIds |-> <<>>]
    /\ blocked = {} /\ calls = 0 /\ issued = 0 /\ alive = TRUE
    /\ returned = [t \in Threads |-> None] /\ result = None
    /\ received = [l \in Loggers |-> <<>>]
    /\ formatter = [l \in OwnQueue |-> NoFormatter]
    /\ flushed = [l \in Loggers |-> 0]
    /\ attached = [l \in Loggers |-> Cardinality({i \in DOMAIN Installed : Installed[i].logger = l})]
    /\ detached = {}

-----------------------------------------------------------------------------
(* The public API, called by a thread, or (asynchronous calls and log        *)
(* statements only) by a client block that runs on the logging queue.        *)

MayCall(c, op) ==
    /\ alive
    /\ op \in Api
    /\ calls < MaxCalls
    /\ IF c = OnLoggingQueue THEN running.op = "client" /\ job = NoJob
                             ELSE c \notin blocked

\* dispatch_async to the queue of a logger.
Enqueue(q, c) == [loggerQueue EXCEPT ![q] = Append(@, c)]

DispatchAsync(c, op, arg) ==
    /\ MayCall(c, op)
    /\ calls' = calls + 1
    /\ loggingQueue' = Append(loggingQueue, [op |-> op, arg |-> arg, by |-> None])
    /\ UNCHANGED <<registry, running, job, todo, outstanding, loggerQueue,
                   blocked, issued, returned, alive, effects, result>>

DispatchSync(t, op, arg) ==
    /\ MayCall(t, op)
    /\ calls' = calls + 1
    /\ loggingQueue' = Append(loggingQueue, [op |-> op, arg |-> arg, by |-> t])
    /\ blocked' = blocked \cup {t}
    /\ UNCHANGED <<registry, running, job, todo, outstanding, loggerQueue,
                   issued, returned, alive, effects, result>>

\* Faulty variant of Log: without asking for the queue's key, a synchronous statement
\* made on the logging queue waits for that queue.
LogWithoutKey(c, flag, sync) ==
    LET m == [id |-> issued + 1, flag |-> flag, by |-> c, sync |-> sync]
    IN  /\ MayCall(c, "log")
        /\ calls' = calls + 1
        /\ issued' = issued + 1
        /\ loggingQueue' = Append(loggingQueue, [op |-> "log", arg |-> m,
                                                 by |-> IF sync THEN c ELSE None])
        /\ blocked' = IF sync THEN blocked \cup {c} ELSE blocked
        /\ UNCHANGED <<registry, running, job, todo, outstanding, loggerQueue,
                       returned, alive, effects, result>>

\* queueLogMessage:asynchronously: enqueues lt_log, asynchronously or not.
Log(c, flag, sync) ==
    LET m == [id |-> issued + 1, flag |-> flag, by |-> c, sync |-> sync]
    IN  /\ MayCall(c, "log")
        /\ sync => c # OnLoggingQueue
        /\ calls' = calls + 1
        /\ issued' = issued + 1
        /\ loggingQueue' = Append(loggingQueue, [op |-> "log", arg |-> m,
                                                 by |-> IF sync THEN c ELSE None])
        /\ blocked' = IF sync THEN blocked \cup {c} ELSE blocked
        /\ UNCHANGED <<registry, running, job, todo, outstanding, loggerQueue,
                       returned, alive, effects, result>>

\* A synchronous log statement on the logging queue calls lt_log directly.
LogDirectly(flag) ==
    LET m == [id |-> issued + 1, flag |-> flag, by |-> OnLoggingQueue, sync |-> TRUE]
    IN  /\ MayCall(OnLoggingQueue, "log")
        /\ calls' = calls + 1
        /\ issued' = issued + 1
        /\ job' = [kind |-> "logMessage", arg |-> m]
        /\ todo' = loggers
        /\ UNCHANGED <<registry, loggingQueue, running, outstanding, loggerQueue,
                       blocked, returned, alive, effects, result>>

\* The queue is the logger's own, or one that lt_addLogger will create.
AddLogger(c, l, level) ==
    DispatchAsync(c, "add",
        [logger |-> l, level |-> level,
         queue |-> IF l \in OwnQueue THEN OwnQueueOf(l) ELSE <<l, calls + 1>>])
RemoveLogger(c, l)    == DispatchAsync(c, "remove", l)
RemoveAllLoggers(c)   == DispatchAsync(c, "removeAll", None)
AllLoggers(t)         == DispatchSync(t, "list", None)
FlushLog(t)           == DispatchSync(t, "flush", None)
\* Faulty variant of SetLogFormatter: straight to the logger's queue, around the
\* messages that still wait on the logging queue.
SetLogFormatterDirectly(c, l, f) ==
    /\ MayCall(c, "setFormatter")
    /\ calls' = calls + 1
    /\ loggerQueue' = Enqueue(OwnQueueOf(l),
          [kind |-> "setFormatter", arg |-> f,
           node |-> [logger |-> l, level |-> {}, queue |-> OwnQueueOf(l)]])
    /\ UNCHANGED <<registry, engine, blocked, issued, returned, alive, effects, result>>
SetLogFormatter(c, l, f) == DispatchAsync(c, "setFormatter", [logger |-> l, formatter |-> f])
LogFormatter(t, l)    == DispatchSync(t, "getFormatter", l)
\* A client dispatches a block of its own to [DDLog loggingQueue].
DispatchClientBlock(t) == DispatchAsync(t, "client", None)
\* applicationWillTerminate (notification or atexit) flushes, then the process exits.
ApplicationWillTerminate(t) == DispatchSync(t, "terminate", [upTo |-> issued])

-----------------------------------------------------------------------------
(* The logging queue.  Its head block starts when the previous one ended.    *)

IsNext(op) ==
    /\ alive
    /\ running = NoBlock
    /\ loggingQueue # <<>>
    /\ Head(loggingQueue).op = op

\* A block that only touches the logger list runs in one step.
RunsAtOnce ==
    /\ loggingQueue' = Tail(loggingQueue)
    /\ UNCHANGED <<running, job, todo, outstanding>>

Notify(kind, n) == Enqueue(n.queue, [kind |-> kind, node |-> n, arg |-> None])

\* Faulty variants of lt_addLogger: no didAdd notification; no check for a known node.
lt_addLoggerSilently ==
    /\ IsNext("add")
    /\ RunsAtOnce
    /\ loggers' = Append(loggers, Head(loggingQueue).arg)
    /\ detached' = detached \ {Head(loggingQueue).arg.logger}
    /\ UNCHANGED <<loggerQueue, callers, effects, result>>
lt_addLoggerAgain ==
    /\ IsNext("add")
    /\ RunsAtOnce
    /\ loggers' = Append(loggers, Head(loggingQueue).arg)
    /\ loggerQueue' = Notify("didAdd", Head(loggingQueue).arg)
    /\ detached' = detached \ {Head(loggingQueue).arg.logger}
    /\ UNCHANGED <<callers, effects, result>>

lt_addLogger ==
    /\ IsNext("add")
    /\ RunsAtOnce
    /\ LET n == Head(loggingQueue).arg
           known == \E i \in DOMAIN loggers : loggers[i].logger = n.logger
                                           /\ loggers[i].level = n.level
       IN  /\ loggers' = IF known THEN loggers ELSE Append(loggers, n)
           /\ loggerQueue' = IF known THEN loggerQueue ELSE Notify("didAdd", n)
           /\ detached' = detached \ {n.logger}
    /\ UNCHANGED <<callers, effects, result>>

\* Faulty variant of lt_removeLogger: the node is notified but the last one goes.
lt_removeLoggerLast ==
    /\ IsNext("remove")
    /\ RunsAtOnce
    /\ loggers' = IF loggers = <<>> THEN loggers ELSE Front(loggers)
    /\ detached' = detached \cup {Head(loggingQueue).arg}
    /\ UNCHANGED <<loggerQueue, callers, effects, result>>

\* Only the first node of the logger is notified and removed.
lt_removeLogger ==
    /\ IsNext("remove")
    /\ RunsAtOnce
    /\ LET l == Head(loggingQueue).arg
           matching == {i \in DOMAIN loggers : loggers[i].logger = l}
       IN  \/ /\ matching = {}
              /\ UNCHANGED <<loggers, loggerQueue>>
           \/ \E i \in matching :
                /\ \A j \in matching : i <= j
                /\ loggerQueue' = Notify("willRemove", loggers[i])
                /\ loggers' = SubSeq(loggers, 1, i - 1) \o SubSeq(loggers, i + 1, Len(loggers))
    /\ detached' = detached \cup {Head(loggingQueue).arg}
    /\ UNCHANGED <<callers, effects, result>>

\* lt_allLoggers / lt_allLoggersWithLevel: the caller gets a copy of the list.
lt_allLoggers ==
    /\ IsNext("list")
    /\ RunsAtOnce
    /\ LET t == Head(loggingQueue).by
       IN  /\ returned' = [returned EXCEPT ![t] = loggers]
           /\ blocked' = blocked \ {t}
    /\ UNCHANGED <<registry, loggerQueue, calls, issued, alive, effects, result>>

\* -[DDAbstractLogger setLogFormatter:], outer block: forward to the logger's queue.
ForwardFormatter ==
    /\ IsNext("setFormatter")
    /\ RunsAtOnce
    /\ LET l == Head(loggingQueue).arg.logger
           n == [logger |-> l, level |-> {}, queue |-> OwnQueueOf(l)]
       IN  loggerQueue' = Enqueue(OwnQueueOf(l),
              [kind |-> "setFormatter", node |-> n, arg |-> Head(loggingQueue).arg.formatter])
    /\ UNCHANGED <<registry, callers, effects, result>>

\* The other blocks visit loggers one by one, and most of them wait for them.
Starts(op, j, nodes) ==
    /\ IsNext(op)
    /\ loggingQueue' = Tail(loggingQueue)
    /\ running' = Head(loggingQueue)
    /\ job' = j
    /\ todo' = nodes
    /\ UNCHANGED <<registry, outstanding, loggerQueue, callers, effects, result>>

\* Faulty variant of lt_log: a logging queue that is not serial starts any block.
lt_logOutOfOrder ==
    /\ alive /\ running = NoBlock
    /\ \E i \in DOMAIN loggingQueue :
          /\ loggingQueue[i].op = "log"
          /\ running' = loggingQueue[i]
          /\ job' = [kind |-> "logMessage", arg |-> loggingQueue[i].arg]
          /\ loggingQueue' = RemoveAt(loggingQueue, i)
    /\ todo' = loggers
    /\ UNCHANGED <<registry, outstanding, loggerQueue, callers, effects, result>>

lt_log == Starts("log", [kind |-> "logMessage", arg |-> Head(loggingQueue).arg], loggers)
\* Each registered node is notified on its queue; the array is emptied at the end.
lt_removeAllLoggers ==
    Starts("removeAll", [kind |-> "willRemove", arg |-> None], loggers)
\* Faulty variant of lt_flush: the request is not passed on to the loggers.
lt_flushNobody == \E op \in {"flush", "terminate"} :
    Starts(op, [kind |-> "flush", arg |-> None], <<>>)
lt_flush == \E op \in {"flush", "terminate"} : Starts(op, [kind |-> "flush", arg |-> None], loggers)
GetFormatter ==
    LET l == Head(loggingQueue).arg
    IN  Starts("getFormatter", [kind |-> "getFormatter", arg |-> None],
               << [logger |-> l, level |-> {}, queue |-> OwnQueueOf(l)] >>)
ClientBlock == Starts("client", NoJob, <<>>)

\* Faulty variant of Wanted: the level of the node is not looked at.
WantedAtAnyLevel(n) == job.kind = "flush" => n.logger \in Flushable
\* The test at the head of the loops of lt_log and lt_flush.
Wanted(n) ==
    CASE job.kind = "logMessage" -> job.arg.flag \in n.level
      [] job.kind = "flush"      -> n.logger \in Flushable
      [] OTHER                   -> TRUE

\* One turn of the loop.  lt_flush, and lt_log on several processors, enqueue
\* for every node before they wait; otherwise each node is waited for.
VisitNode ==
    /\ alive
    /\ todo # <<>>
    /\ Multiprocessor \/ job.kind = "flush" \/ outstanding = {}
    /\ LET n == Head(todo)
       IN  IF Wanted(n)
           THEN /\ loggerQueue' = Enqueue(n.queue, [kind |-> job.kind, node |-> n, arg |-> job.arg])
                /\ outstanding' = IF job.kind = "willRemove" THEN outstanding
                                  ELSE outstanding \cup {n}
           ELSE UNCHANGED <<loggerQueue, outstanding>>
    /\ todo' = Tail(todo)
    /\ UNCHANGED <<registry, loggingQueue, running, job, callers, effects, result>>

\* Faulty variant of FinishJob: no dispatch_group_wait.
FinishJobUnwaited ==
    /\ alive /\ job # NoJob /\ todo = <<>>
    /\ job' = NoJob
    /\ IF running.op = "client" THEN UNCHANGED <<running, blocked>>
       ELSE running' = NoBlock /\ blocked' = blocked \ {running.by}
    /\ alive' = (running.op # "terminate")
    /\ UNCHANGED <<registry, loggingQueue, todo, outstanding, loggerQueue,
                   calls, issued, returned, effects, result>>

\* The wait is over: the block ends and a thread blocked on it goes on.
FinishJob ==
    /\ alive
    /\ job # NoJob
    /\ todo = <<>>
    /\ outstanding = {}
    /\ job' = NoJob
    /\ IF running.op = "client" THEN UNCHANGED <<running, blocked>>
       ELSE running' = NoBlock /\ blocked' = blocked \ {running.by}
    /\ returned' = IF running.op = "getFormatter"
                   THEN [returned EXCEPT ![running.by] = result] ELSE returned
    /\ alive' = (running.op # "terminate")
    /\ loggers' = IF job.kind = "willRemove" THEN <<>> ELSE loggers
    /\ detached' = IF job.kind = "willRemove" THEN Loggers ELSE detached
    /\ UNCHANGED <<loggingQueue, todo, outstanding, loggerQueue,
                   calls, issued, effects, result>>

ClientBlockEnds ==
    /\ alive
    /\ running.op = "client"
    /\ job = NoJob
    /\ running' = NoBlock
    /\ UNCHANGED <<registry, loggingQueue, job, todo, outstanding, loggerQueue,
                   callers, effects, result>>

-----------------------------------------------------------------------------
(* A logger's queue runs its next block.                                     *)

Pops(q, kind) ==
    /\ alive
    /\ loggerQueue[q] # <<>>
    /\ Head(loggerQueue[q]).kind = kind
    /\ loggerQueue' = [loggerQueue EXCEPT ![q] = Tail(@)]

\* Faulty variants of Leaves: the first block to end ends the wait; no block does.
LeavesForAll(n) == outstanding' = {}
LeavesNever(n) == UNCHANGED outstanding

\* A block of the dispatch group, or one that is waited for, leaves it.
Leaves(n) == outstanding' = outstanding \ {n}

logMessage(q) ==
    LET c == Head(loggerQueue[q])
        l == c.node.logger
    IN  /\ Pops(q, "logMessage")
        /\ Leaves(c.node)
        /\ received' = [received EXCEPT ![l] = Append(@,
              [msg |-> c.arg,
               fmt |-> IF l \in OwnQueue THEN formatter[l] ELSE NoFormatter])]
        /\ UNCHANGED <<registry, loggingQueue, running, job, todo, callers,
                       formatter, flushed, attached, result>>

flush(q) ==
    LET c == Head(loggerQueue[q])
    IN  /\ Pops(q, "flush")
        /\ Leaves(c.node)
        /\ flushed' = [flushed EXCEPT ![c.node.logger] = Len(received[c.node.logger])]
        /\ UNCHANGED <<registry, loggingQueue, running, job, todo, callers,
                       received, formatter, attached, result>>

ReadFormatter(q) ==
    LET c == Head(loggerQueue[q])
    IN  /\ Pops(q, "getFormatter")
        /\ Leaves(c.node)
        /\ result' = formatter[c.node.logger]
        /\ UNCHANGED <<registry, loggingQueue, running, job, todo, callers, effects>>

WriteFormatter(q) ==
    LET c == Head(loggerQueue[q])
    IN  /\ Pops(q, "setFormatter")
        /\ formatter' = [formatter EXCEPT ![c.node.logger] = c.arg]
        /\ UNCHANGED <<registry, engine, callers, received, flushed, attached, result>>

didAddLogger(q) ==
    /\ Pops(q, "didAdd")
    /\ attached' = [attached EXCEPT ![Head(loggerQueue[q]).node.logger] = @ + 1]
    /\ UNCHANGED <<registry, engine, callers, received, formatter, flushed, result>>

willRemoveLogger(q) ==
    /\ Pops(q, "willRemove")
    /\ attached' = [attached EXCEPT ![Head(loggerQueue[q]).node.logger] = @ - 1]
    /\ UNCHANGED <<registry, engine, callers, received, formatter, flushed, result>>

-----------------------------------------------------------------------------
CallApi ==
    \/ \E c \in Callers, f \in Flags, s \in BOOLEAN : Log(c, f, s)
    \/ \E f \in Flags : LogDirectly(f)
    \/ \E c \in Callers, l \in Loggers, v \in Levels : AddLogger(c, l, v)
    \/ \E c \in Callers, l \in Loggers : RemoveLogger(c, l)
    \/ \E c \in Callers : RemoveAllLoggers(c)
    \/ \E t \in Threads : AllLoggers(t)
    \/ \E t \in Threads : FlushLog(t)
    \/ \E t \in Threads : ApplicationWillTerminate(t)
    \/ \E c \in Callers, l \in OwnQueue, f \in Formatters : SetLogFormatter(c, l, f)
    \/ \E t \in Threads, l \in OwnQueue : LogFormatter(t, l)
    \/ \E t \in Threads : DispatchClientBlock(t)

RunLoggingQueue ==
    \/ lt_addLogger \/ lt_removeLogger \/ lt_removeAllLoggers \/ lt_allLoggers
    \/ ForwardFormatter \/ lt_log \/ lt_flush \/ GetFormatter \/ ClientBlock
    \/ VisitNode \/ FinishJob \/ ClientBlockEnds

RunLoggerQueue(q) ==
    \/ logMessage(q) \/ flush(q) \/ ReadFormatter(q) \/ WriteFormatter(q)
    \/ didAddLogger(q) \/ willRemoveLogger(q)

\* Nothing is left to do, or the process is gone: the only legal way to stop.
Quiescent ==
    /\ running = NoBlock
    /\ loggingQueue = <<>>
    /\ \A q \in QueueIds : loggerQueue[q] = <<>>

Stopped ==
    /\ ~alive \/ (Quiescent /\ blocked = {} /\ calls = MaxCalls)
    /\ UNCHANGED vars

Next ==
    \/ CallApi
    \/ RunLoggingQueue
    \/ \E q \in QueueIds : RunLoggerQueue(q)
    \/ Stopped

Spec == Init /\ [][Next]_vars

\* GCD keeps running the blocks of every queue that is not empty.
Fairness ==
    /\ WF_vars(RunLoggingQueue)
    /\ \A q \in QueueIds : WF_vars(RunLoggerQueue(q))

FairSpec == Spec /\ Fairness
=============================================================================
