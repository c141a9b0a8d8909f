--------------------------- MODULE DDLogInvariant ---------------------------
(***************************************************************************)
(* The inductive invariant behind the safety properties of DDLogProperties: *)
(* what ties the logging queue, the job it works on, the dispatch group and *)
(* the loggers' queues together.                                            *)
(***************************************************************************)
EXTENDS DDLogProperties

\* The callbacks that the running block waits for.
WaitedKinds == {"logMessage", "flush", "getFormatter"}

\* The array never holds the same logger twice at the same level.
LoggersDistinct ==
    \A i, j \in DOMAIN loggers :
        i # j => loggers[i].logger # loggers[j].logger \/ loggers[i].level # loggers[j].level

\* Only a running block has a job, and only a job has nodes to visit or wait for.
JobDiscipline ==
    /\ running = NoBlock => job.kind = "none"
    /\ job.kind = "none" => todo = <<>> /\ outstanding = {}
    /\ running.op = "log" => job.kind = "logMessage" /\ job.arg = running.arg
    /\ (job.kind = "logMessage" /\ running.op # "log") => Direct(job.arg)

\* A node is visited once, and is in the group from then on.
TodoFresh ==
    /\ \A i, j \in DOMAIN todo : i # j => todo[i] # todo[j]
    /\ \A i \in DOMAIN todo : todo[i] \notin outstanding

\* A waited callback belongs to the job, and its node is in the group ...
WaitedInGroup ==
    \A q \in QueueIds : \A i \in DOMAIN loggerQueue[q] :
        loggerQueue[q][i].kind \in WaitedKinds =>
            /\ loggerQueue[q][i].node \in outstanding
            /\ loggerQueue[q][i].node.queue = q
            /\ loggerQueue[q][i].kind = job.kind
            /\ loggerQueue[q][i].arg = job.arg

\* ... and it is the only one of its node.
WaitedOnce ==
    \A q \in QueueIds : \A i, j \in DOMAIN loggerQueue[q] :
        (/\ i # j
         /\ loggerQueue[q][i].kind \in WaitedKinds
         /\ loggerQueue[q][j].kind \in WaitedKinds)
            => loggerQueue[q][i].node # loggerQueue[q][j].node

\* A thread is blocked while its block is queued or running, and has only one.
OneBlockPerThread ==
    /\ \A i \in DOMAIN loggingQueue :
          loggingQueue[i].by \in Threads =>
             /\ loggingQueue[i].by \in blocked
             /\ loggingQueue[i].by # running.by
             /\ \A j \in DOMAIN loggingQueue : i # j => loggingQueue[i].by # loggingQueue[j].by
    /\ running.by \in Threads => running.by \in blocked

\* The block of a synchronous statement is the one its thread waits for.
SyncMessageNamesCaller ==
    /\ \A i \in DOMAIN loggingQueue :
          (/\ loggingQueue[i].op = "log"
           /\ loggingQueue[i].arg.sync) => loggingQueue[i].by = loggingQueue[i].arg.by
    /\ (running.op = "log" /\ running.arg.sync) => running.by = running.arg.by

\* The queue holds the statements in the order of their numbers; none is direct.
QueueOrdered ==
    \A i \in DOMAIN loggingQueue : loggingQueue[i].op = "log" =>
        /\ loggingQueue[i].arg.id <= issued
        /\ ~Direct(loggingQueue[i].arg)
        /\ \A j \in DOMAIN loggingQueue :
              (i < j /\ loggingQueue[j].op = "log") => loggingQueue[i].arg.id < loggingQueue[j].arg.id

\* The message being handed out is older than every queued one ...
JobIsOldest ==
    (job.kind = "logMessage" /\ ~Direct(job.arg)) =>
        /\ job.arg.id <= issued
        /\ \A i \in DOMAIN loggingQueue :
              loggingQueue[i].op = "log" => job.arg.id < loggingQueue[i].arg.id

\* ... and no older than any that was received.
ReceivedIsOlder ==
    \A l \in Loggers : \A k \in DOMAIN received[l] : ~Direct(received[l][k].msg) =>
        /\ received[l][k].msg.id <= issued
        /\ \A i \in DOMAIN loggingQueue :
              loggingQueue[i].op = "log" => received[l][k].msg.id < loggingQueue[i].arg.id
        /\ (job.kind = "logMessage" /\ ~Direct(job.arg)) => received[l][k].msg.id <= job.arg.id

\* All of the above: it holds initially and every step preserves it.
IInv ==
    /\ TypeOK
    /\ LoggersDistinct
    /\ JobDiscipline
    /\ TodoFresh
    /\ WaitedInGroup
    /\ WaitedOnce
    /\ OneBlockPerThread
    /\ SyncMessageNamesCaller
    /\ QueueOrdered
    /\ JobIsOldest
    /\ ReceivedIsOlder
    /\ DeliveredInOrder

-----------------------------------------------------------------------------
(* What a flush, an exit and a removal rely on, given IInv.                  *)

\* The messages that the running block hands out are for registered nodes.
JobNodesRegistered ==
    job.kind = "logMessage" => outstanding \cup ToSet(todo) \subseteq ToSet(loggers)

\* Behind a flush there is no statement of its caller, who waits ...
FlushComesLast ==
    /\ \A i, j \in DOMAIN loggingQueue :
          (i < j /\ loggingQueue[i].op = "flush" /\ loggingQueue[j].op = "log")
              => loggingQueue[j].arg.by # loggingQueue[i].by
    /\ running.op = "flush" => \A j \in DOMAIN loggingQueue :
          loggingQueue[j].op = "log" => loggingQueue[j].arg.by # running.by

\* ... and behind an exit only statements younger than the notification.
TerminateComesLast ==
    /\ \A i, j \in DOMAIN loggingQueue :
          (i < j /\ loggingQueue[i].op = "terminate" /\ loggingQueue[j].op = "log")
              => loggingQueue[j].arg.id > loggingQueue[i].arg.upTo
    /\ running.op = "terminate" => \A j \in DOMAIN loggingQueue :
          loggingQueue[j].op = "log" => loggingQueue[j].arg.id > running.arg.upTo
    /\ \A i \in DOMAIN loggingQueue :
          loggingQueue[i].op = "terminate" => loggingQueue[i].arg.upTo <= issued
    /\ running.op = "terminate" => running.arg.upTo <= issued

\* A logger that is neither to be visited nor waited for has been flushed.
FlushProgress ==
    /\ running.op \in {"flush", "terminate"} => job.kind = "flush"
    /\ job.kind = "flush" => \A n \in ToSet(loggers) :
          n.logger \in Flushable =>
             \/ n \in ToSet(todo) \cup outstanding
             \/ flushed[n.logger] = Len(received[n.logger])

ServiceInv ==
    /\ JobNodesRegistered
    /\ FlushComesLast
    /\ TerminateComesLast
    /\ FlushProgress

-----------------------------------------------------------------------------
(* What keeps the notifications in step with the array of nodes, given IInv. *)

\* A node is registered until it is told of its removal: lt_removeAllLoggers takes
\* the nodes out of the array only when it has told all of them.
Registered(n) ==
    n \in ToSet(loggers) /\ ~(job.kind = "willRemove" /\ n \notin ToSet(todo))

IsNotice(c, n) == c.kind \in {"didAdd", "willRemove"} /\ c.node = n

\* What a node was told last, if s is what waits on its queue: the contrary of the
\* first notice there, or how it is registered.
Told(s, n, registered) ==
    \/ \E i \in DOMAIN s : /\ IsNotice(s[i], n) /\ s[i].kind = "willRemove"
                           /\ \A k \in DOMAIN s : k < i => ~IsNotice(s[k], n)
    \/ registered /\ \A i \in DOMAIN s : ~IsNotice(s[i], n)

\* The notices of a node alternate, and the last is how it is registered.
Alternate(s, n, registered) ==
    /\ \A i, j \in DOMAIN s :
          (i < j /\ IsNotice(s[i], n) /\ IsNotice(s[j], n) /\ s[i].kind = s[j].kind) =>
              \E k \in DOMAIN s : i < k /\ k < j /\ IsNotice(s[k], n) /\ s[k].kind # s[i].kind
    /\ \A i \in DOMAIN s : IsNotice(s[i], n) =>
          \E k \in DOMAIN s : i <= k /\ IsNotice(s[k], n)
                              /\ (s[k].kind = "didAdd" <=> registered)

\* The nodes of a logger that were told that they are registered.
ToldNodes(l) == {n \in Nodes : n.logger = l /\ Told(loggerQueue[n.queue], n, Registered(n))}

\* lt_removeAllLoggers visits what is in the array.
RemovalVisitsRegistered == job.kind = "willRemove" => ToSet(todo) \subseteq ToSet(loggers)

\* A notice waits on the queue of its node, and none behind a message.
NoticesPlaced ==
    \A q \in QueueIds : \A i \in DOMAIN loggerQueue[q] :
        loggerQueue[q][i].kind \in {"didAdd", "willRemove"} =>
            /\ loggerQueue[q][i].node.queue = q
            /\ \A k \in DOMAIN loggerQueue[q] : k < i => loggerQueue[q][k].kind # "logMessage"

NoticesAlternate == \A n \in Nodes : Alternate(loggerQueue[n.queue], n, Registered(n))

\* The logger counts the nodes it was told of.
AttachedCounts ==
    \A l \in Loggers : IsFiniteSet(ToldNodes(l)) /\ attached[l] = Cardinality(ToldNodes(l))

NoticeInv ==
    /\ RemovalVisitsRegistered
    /\ NoticesPlaced
    /\ NoticesAlternate
    /\ AttachedCounts

-----------------------------------------------------------------------------
(* What lets a message that is handed out node by node, and a formatter that *)
(* passes two queues, look like one step each, given IInv and ServiceInv.    *)

\* What the logging queue executes shows in its job.
JobOfBlock ==
    /\ running.op \notin {"add", "remove", "list", "setFormatter"}
    /\ running.op \in {"removeAll", "getFormatter", "flush", "terminate", "log"} => job # NoJob
    /\ running.op = "client" => job.kind \in {"none", "logMessage"}
    /\ running.op = "removeAll" <=> job.kind = "willRemove"
    /\ running.op = "getFormatter" <=> job.kind = "getFormatter"

\* A message that is handed out or was received has a number that was given.
MessagesNumbered ==
    /\ job.kind = "logMessage" => job.arg.id <= issued
    /\ \A l \in Loggers : \A k \in DOMAIN received[l] : received[l][k].msg.id <= issued

\* The nodes of a logger that are to get the message, and those that have it.
Hits(l)   == {n \in ToSet(loggers) : n.logger = l /\ job.arg.flag \in n.level}
Served(l) == Hits(l) \ (outstanding \cup ToSet(todo))

\* What a logger has of the message is the end of what it received, one copy for each
\* node that was served, with the formatter that is in force.
HandedOut ==
    job.kind = "logMessage" =>
        /\ \A n \in outstanding : n \in Hits(n.logger)
        /\ \A l \in Loggers :
              /\ Cardinality(Served(l)) <= Len(received[l])
              /\ \A k \in DOMAIN received[l] :
                    received[l][k].msg = job.arg <=> k > Len(received[l]) - Cardinality(Served(l))
        /\ \A l \in Loggers : \A k \in DOMAIN received[l] :
              received[l][k].msg = job.arg =>
                  received[l][k].fmt = IF l \in OwnQueue THEN AbstractFormatter[l] ELSE NoFormatter

\* A logger that has a queue of its own runs on no other.
OnOwnQueue(n) == n.logger \in OwnQueue => n.queue = OwnQueueOf(n.logger)
QueuesOwned ==
    /\ \A n \in ToSet(loggers) \cup ToSet(todo) \cup outstanding : OnOwnQueue(n)
    /\ \A i \in DOMAIN loggingQueue : loggingQueue[i].op = "add" => OnOwnQueue(loggingQueue[i].arg)

\* Setters run on the queue of their logger, and none behind what uses the formatter.
SettersFirst ==
    \A q \in QueueIds : \A i \in DOMAIN loggerQueue[q] : loggerQueue[q][i].kind = "setFormatter" =>
        /\ loggerQueue[q][i].node.logger \in OwnQueue
        /\ q = OwnQueueOf(loggerQueue[q][i].node.logger)
        /\ \A k \in DOMAIN loggerQueue[q] :
              k < i => loggerQueue[q][k].kind \notin {"logMessage", "getFormatter"}

\* The getter asks one logger, and has its answer once it waits no more.
GetterAsks ==
    running.op = "getFormatter" =>
        /\ \A n \in ToSet(todo) \cup outstanding : n.logger = running.arg
        /\ todo = <<>> /\ outstanding = {} => result = AbstractFormatter[running.arg]

BroadcastInv ==
    /\ JobOfBlock
    /\ MessagesNumbered
    /\ HandedOut
    /\ QueuesOwned
    /\ SettersFirst
    /\ GetterAsks
=============================================================================
