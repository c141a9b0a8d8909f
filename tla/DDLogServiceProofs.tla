------------------------- MODULE DDLogServiceProofs -------------------------
(***************************************************************************)
(* What a flush, an exit and a removal guarantee, and that the loggers are *)
(* told in time that they were added or removed, proved on top of the      *)
(* inductive invariant of the dispatch core; and, in the second half, that *)
(* the dispatch core implements OrderedBroadcast.                          *)
(***************************************************************************)
EXTENDS DDLogProofs, WellFoundedInduction

\* What the four parts depend on: without a change of it they stay as they are.
LEMMA SameService ==
    ASSUME ServiceInv, UNCHANGED <<loggers, engine, issued, received, flushed>>
    PROVE  ServiceInv'
  BY DEF ServiceInv, JobNodesRegistered, FlushComesLast, TerminateComesLast, FlushProgress, engine

\* Enqueuing a block: a statement is nobody's who waits, and takes the next number.
LEMMA EnqueueServed ==
    ASSUME IInv, ServiceInv, NEW b \in Blocks,
           loggingQueue' = Append(loggingQueue, b),
           b.op = "log" => /\ b.arg.by \notin blocked
                           /\ b.arg.id = issued + 1 /\ issued' = issued + 1,
           b.op # "log" => issued' = issued,
           b.op = "terminate" => b.arg.upTo = issued,
           UNCHANGED <<loggers, running, job, todo, outstanding, received, flushed>>
    PROVE  ServiceInv'
  <1>0. /\ loggingQueue \in Seq(Blocks) /\ issued \in Nat
        /\ running \in Blocks \cup {NoBlock} /\ blocked \subseteq Threads
        /\ \A i \in DOMAIN loggingQueue : loggingQueue[i] \in Blocks /\ i \in Nat
    BY DDLogAssumption, SeqElements DEF IInv, TypeOK
  <1>1. \A i \in DOMAIN loggingQueue' :
            /\ i \in Nat
            /\ \/ i \in DOMAIN loggingQueue /\ loggingQueue'[i] = loggingQueue[i]
               \/ /\ loggingQueue'[i] = b
                  /\ i = Len(loggingQueue) + 1
                  /\ \A j \in DOMAIN loggingQueue : j < i
    BY <1>0, AppendFacts, LenProperties
  <1>2. /\ \A i \in DOMAIN loggingQueue : loggingQueue[i].op = "flush" => loggingQueue[i].by \in blocked
        /\ running.op = "flush" => running.by \in blocked
    <2>1. \A c \in Blocks : c.op = "flush" => c.by \in Threads
      BY DEF Blocks
    <2> QED
      BY <1>0, <2>1 DEF IInv, OneBlockPerThread, NoBlock
  <1>3. /\ \A i \in DOMAIN loggingQueue : loggingQueue[i].op = "terminate" =>
              loggingQueue[i].arg.upTo \in Nat /\ loggingQueue[i].arg.upTo <= issued
        /\ \A c \in Blocks : c.op = "terminate" => c.arg.upTo \in Nat
    <2>1. \A c \in Blocks : c.op = "terminate" => c.arg.upTo \in Nat
      BY DDLogAssumption DEF Blocks
    <2> QED
      BY <1>0, <2>1 DEF ServiceInv, TerminateComesLast
  <1>4. JobNodesRegistered' /\ FlushProgress'
    BY DEF ServiceInv, JobNodesRegistered, FlushProgress
  <1>5. FlushComesLast'
    <2>1. \A i, j \in DOMAIN loggingQueue' :
             (i < j /\ loggingQueue'[i].op = "flush" /\ loggingQueue'[j].op = "log")
                => loggingQueue'[j].arg.by # loggingQueue'[i].by
      <3> SUFFICES ASSUME NEW i \in DOMAIN loggingQueue', NEW j \in DOMAIN loggingQueue',
                          i < j, loggingQueue'[i].op = "flush", loggingQueue'[j].op = "log"
                   PROVE  loggingQueue'[j].arg.by # loggingQueue'[i].by
        OBVIOUS
      <3>1. i \in DOMAIN loggingQueue /\ loggingQueue'[i] = loggingQueue[i]
        BY <1>0, <1>1, LenProperties
      <3> QED
        BY <3>1, <1>1, <1>2 DEF ServiceInv, FlushComesLast
    <2>2. running.op = "flush" => \A j \in DOMAIN loggingQueue' :
             loggingQueue'[j].op = "log" => loggingQueue'[j].arg.by # running.by
      BY <1>1, <1>2 DEF ServiceInv, FlushComesLast
    <2> QED
      BY <2>1, <2>2 DEF FlushComesLast
  <1>6. TerminateComesLast'
    <2>1. \A i, j \in DOMAIN loggingQueue' :
             (i < j /\ loggingQueue'[i].op = "terminate" /\ loggingQueue'[j].op = "log")
                => loggingQueue'[j].arg.id > loggingQueue'[i].arg.upTo
      <3> SUFFICES ASSUME NEW i \in DOMAIN loggingQueue', NEW j \in DOMAIN loggingQueue',
                          i < j, loggingQueue'[i].op = "terminate", loggingQueue'[j].op = "log"
                   PROVE  loggingQueue'[j].arg.id > loggingQueue'[i].arg.upTo
        OBVIOUS
      <3>1. i \in DOMAIN loggingQueue /\ loggingQueue'[i] = loggingQueue[i]
        BY <1>0, <1>1, LenProperties
      <3>2. CASE j \in DOMAIN loggingQueue /\ loggingQueue'[j] = loggingQueue[j]
        BY <3>1, <3>2 DEF ServiceInv, TerminateComesLast
      <3>3. CASE loggingQueue'[j] = b
        BY <3>1, <3>3, <1>0, <1>3
      <3> QED
        BY <1>1, <3>2, <3>3
    <2>2. running.op = "terminate" => \A j \in DOMAIN loggingQueue' :
             loggingQueue'[j].op = "log" => loggingQueue'[j].arg.id > running.arg.upTo
      <3> SUFFICES ASSUME running.op = "terminate", NEW j \in DOMAIN loggingQueue',
                          loggingQueue'[j].op = "log"
                   PROVE  loggingQueue'[j].arg.id > running.arg.upTo
        OBVIOUS
      <3>1. running.arg.upTo <= issued /\ running.arg.upTo \in Nat
        BY <1>0, <1>3 DEF ServiceInv, TerminateComesLast, NoBlock
      <3> QED
        BY <1>0, <1>1, <3>1 DEF ServiceInv, TerminateComesLast
    <2>3. \A i \in DOMAIN loggingQueue' :
             loggingQueue'[i].op = "terminate" => loggingQueue'[i].arg.upTo <= issued'
      <3>1. issued <= issued'
        BY <1>0
      <3>2. b.op = "terminate" => b.arg.upTo = issued'
        OBVIOUS
      <3>3. \A i \in DOMAIN loggingQueue :
               loggingQueue[i].op = "terminate" => loggingQueue[i].arg.upTo <= issued'
        BY <1>0, <1>3, <3>1
      <3> QED
        BY <1>0, <1>1, <3>2, <3>3
    <2>4. running.op = "terminate" => running.arg.upTo <= issued'
      <3>1. running.op = "terminate" => running.arg.upTo \in Nat
        BY <1>0, <1>3 DEF NoBlock
      <3> QED
        BY <1>0, <3>1 DEF ServiceInv, TerminateComesLast
    <2> QED
      BY <2>1, <2>2, <2>3, <2>4 DEF TerminateComesLast
  <1> QED
    BY <1>4, <1>5, <1>6 DEF ServiceInv

\* Every call of the API keeps the four parts.
LEMMA CallServed == ASSUME IInv, ServiceInv, CallApi PROVE ServiceInv'
  <1> USE DDLogAssumption
  <1>a. calls \in 0 .. MaxCalls /\ issued \in 0 .. calls /\ blocked \subseteq Threads
    BY DEF IInv, TypeOK
  <1>1. ASSUME NEW c \in Callers, NEW op, NEW arg, DispatchAsync(c, op, arg),
               [op |-> op, arg |-> arg, by |-> None] \in Blocks, op \notin {"log", "terminate"}
        PROVE  ServiceInv'
    BY <1>1, EnqueueServed DEF DispatchAsync, registry, effects
  <1>2. ASSUME NEW t \in Threads, NEW op, NEW arg, DispatchSync(t, op, arg),
               [op |-> op, arg |-> arg, by |-> t] \in Blocks, op # "log",
               op = "terminate" => arg.upTo = issued
        PROVE  ServiceInv'
    BY <1>2, EnqueueServed DEF DispatchSync, registry, effects
  <1>3. ASSUME NEW c \in Callers, NEW f \in Flags, NEW sync \in BOOLEAN, Log(c, f, sync)
        PROVE  ServiceInv'
    <2> DEFINE m == [id |-> issued + 1, flag |-> f, by |-> c, sync |-> sync]
               b == [op |-> "log", arg |-> m, by |-> IF sync THEN c ELSE None]
    <2>1. calls < MaxCalls /\ c \notin blocked
      BY <1>3, <1>a DEF Log, MayCall, Callers
    <2>2. m \in Messages
      BY <1>a, <2>1 DEF Messages
    <2>3. b \in Blocks
      BY <1>3, <2>2 DEF Blocks, Log, Callers
    <2>4. /\ loggingQueue' = Append(loggingQueue, b) /\ issued' = issued + 1
          /\ UNCHANGED <<loggers, running, job, todo, outstanding, received, flushed>>
      BY <1>3 DEF Log, registry, effects
    <2>5. b.op = "log" /\ b.arg = m /\ m.by = c /\ m.id = issued + 1
      OBVIOUS
    <2> HIDE DEF m, b
    <2> QED
      BY <2>1, <2>3, <2>4, <2>5, EnqueueServed
  <1>4. ASSUME NEW f \in Flags, LogDirectly(f)
        PROVE  ServiceInv'
    <2>1. /\ job'.kind = "logMessage" /\ todo' = loggers /\ issued' = issued + 1
          /\ running.op = "client" /\ job = NoJob
          /\ UNCHANGED <<loggers, loggingQueue, running, outstanding>>
      BY <1>4 DEF LogDirectly, MayCall, registry
    <2>2. outstanding = {}
      BY <2>1 DEF IInv, JobDiscipline, NoJob
    <2>3. JobNodesRegistered' /\ FlushProgress' /\ FlushComesLast'
      BY <2>1, <2>2 DEF ServiceInv, JobNodesRegistered, FlushProgress, FlushComesLast
    <2>4. \A i \in DOMAIN loggingQueue :
             loggingQueue[i].op = "terminate" => loggingQueue[i].arg.upTo <= issued'
      <3>1. \A b \in Blocks : b.op = "terminate" => b.arg.upTo \in Nat
        BY DEF Blocks
      <3>2. \A i \in DOMAIN loggingQueue : loggingQueue[i] \in Blocks
        BY SeqElements DEF IInv, TypeOK
      <3> QED
        BY <1>a, <2>1, <3>1, <3>2 DEF ServiceInv, TerminateComesLast
    <2>5. TerminateComesLast'
      BY <2>1, <2>4 DEF ServiceInv, TerminateComesLast
    <2> QED
      BY <2>3, <2>5 DEF ServiceInv
  <1>5. ASSUME NEW c \in Callers, NEW l \in Loggers, NEW v \in Levels, AddLogger(c, l, v)
        PROVE  ServiceInv'
    <2> DEFINE n == [logger |-> l, level |-> v,
                     queue |-> IF l \in OwnQueue THEN OwnQueueOf(l) ELSE <<l, calls + 1>>]
    <2>1. n.queue \in QueueIds
      BY <1>5, <1>a DEF QueueIds, OwnQueueOf, AddLogger, DispatchAsync, MayCall
    <2>2. n \in Nodes
      BY <2>1 DEF Nodes
    <2> HIDE DEF n
    <2>3. [op |-> "add", arg |-> n, by |-> None] \in Blocks
      BY <2>2 DEF Blocks
    <2>4. DispatchAsync(c, "add", n)
      BY <1>5 DEF AddLogger, n
    <2> QED
      BY <2>3, <2>4, <1>1
  <1>6. ASSUME NEW c \in Callers, NEW l \in Loggers, RemoveLogger(c, l)
        PROVE  ServiceInv'
    BY <1>6, <1>1 DEF RemoveLogger, Blocks
  <1>7. ASSUME NEW c \in Callers, RemoveAllLoggers(c)
        PROVE  ServiceInv'
    BY <1>7, <1>1 DEF RemoveAllLoggers, Blocks
  <1>8. ASSUME NEW t \in Threads, AllLoggers(t) \/ FlushLog(t) \/ ApplicationWillTerminate(t)
        PROVE  ServiceInv'
    BY <1>8, <1>a, <1>2 DEF AllLoggers, FlushLog, ApplicationWillTerminate, Blocks
  <1>9. ASSUME NEW c \in Callers, NEW l \in OwnQueue, NEW f \in Formatters, SetLogFormatter(c, l, f)
        PROVE  ServiceInv'
    BY <1>9, <1>1 DEF SetLogFormatter, Blocks
  <1>10. ASSUME NEW t \in Threads, NEW l \in OwnQueue, LogFormatter(t, l)
         PROVE  ServiceInv'
    BY <1>10, <1>2 DEF LogFormatter, Blocks
  <1>11. ASSUME NEW t \in Threads, DispatchClientBlock(t)
         PROVE  ServiceInv'
    BY <1>11, <1>1 DEF DispatchClientBlock, Blocks, Callers
  <1> QED
    BY <1>3, <1>4, <1>5, <1>6, <1>7, <1>8, <1>9, <1>10, <1>11 DEF CallApi

-----------------------------------------------------------------------------
(* The logging queue.                                                        *)

\* A block that runs in one step leaves only what was behind it.
LEMMA AtOnceServed ==
    ASSUME IInv, ServiceInv, running = NoBlock, loggingQueue # <<>>, RunsAtOnce,
           UNCHANGED issued
    PROVE  ServiceInv'
  <1>1. /\ loggingQueue' = Tail(loggingQueue) /\ running' = NoBlock
        /\ job'.kind = "none"
    BY DEF RunsAtOnce, IInv, JobDiscipline
  <1>2. \A i \in DOMAIN loggingQueue' :
           /\ i \in Nat /\ i + 1 \in DOMAIN loggingQueue
           /\ loggingQueue'[i] = loggingQueue[i + 1]
    BY <1>1, HeadFacts
  <1>3. \A i, j \in DOMAIN loggingQueue' : i < j => i + 1 < j + 1
    BY <1>2
  <1> QED
    BY <1>1, <1>2, <1>3
    DEF ServiceInv, JobNodesRegistered, FlushComesLast, TerminateComesLast, FlushProgress, NoBlock

\* A block that visits loggers, or none, starts.
LEMMA StartServed ==
    ASSUME IInv, ServiceInv, NEW op, NEW j, NEW nodes, Starts(op, j, nodes),
           j.kind \in {"logMessage", "flush"} => nodes = loggers,
           op \in {"flush", "terminate"} => j.kind = "flush"
    PROVE  ServiceInv'
  <1>0. /\ running = NoBlock /\ loggingQueue # <<>> /\ Head(loggingQueue).op = op
        /\ loggingQueue' = Tail(loggingQueue) /\ running' = Head(loggingQueue)
        /\ job' = j /\ todo' = nodes
        /\ UNCHANGED <<loggers, outstanding, issued, received, flushed>>
    BY DEF Starts, IsNext, registry, callers, effects
  <1>1. outstanding = {}
    BY <1>0 DEF IInv, JobDiscipline
  <1>2. /\ 1 \in DOMAIN loggingQueue /\ running' = loggingQueue[1]
        /\ \A i \in DOMAIN loggingQueue' :
              /\ i \in Nat /\ i + 1 \in DOMAIN loggingQueue /\ 1 < i + 1
              /\ loggingQueue'[i] = loggingQueue[i + 1]
    BY <1>0, HeadFacts
  <1>3. \A i, k \in DOMAIN loggingQueue' : i < k => i + 1 < k + 1
    BY <1>2
  <1>4. JobNodesRegistered' /\ FlushProgress'
    BY <1>0, <1>1 DEF JobNodesRegistered, FlushProgress
  <1>5. FlushComesLast'
    BY <1>2, <1>3 DEF ServiceInv, FlushComesLast
  <1>6. TerminateComesLast'
    BY <1>0, <1>2, <1>3 DEF ServiceInv, TerminateComesLast
  <1> QED
    BY <1>4, <1>5, <1>6 DEF ServiceInv

\* A turn of the loop takes a node and may wait for it.
LEMMA VisitServed == ASSUME IInv, ServiceInv, VisitNode PROVE ServiceInv'
  <1> DEFINE n == Head(todo)
  <1>0. /\ todo # <<>> /\ todo' = Tail(todo)
        /\ outstanding' \in {outstanding, outstanding \cup {n}}
        /\ Wanted(n) /\ job.kind # "willRemove" => n \in outstanding'
        /\ UNCHANGED <<loggers, loggingQueue, running, job, issued, received, flushed>>
    BY DEF VisitNode, registry, callers, effects
  <1>1. todo \in Seq(Nodes) /\ outstanding \subseteq outstanding'
    BY <1>0 DEF IInv, TypeOK
  <1>2. ToSet(todo) = {n} \cup ToSet(todo')
    <2>1. todo' \in Seq(Nodes) /\ n = todo[1] /\ DOMAIN todo = 1 .. Len(todo)
          /\ DOMAIN todo' = 1 .. (Len(todo) - 1) /\ Len(todo) \in Nat
          /\ \A i \in DOMAIN todo' : todo'[i] = todo[i + 1]
      BY <1>0, <1>1, HeadTailProperties, LenProperties
    <2>2. \A i \in DOMAIN todo : i = 1 \/ (i - 1 \in DOMAIN todo' /\ todo[i] = todo'[i - 1])
      BY <2>1
    <2>3. 1 \in DOMAIN todo /\ \A i \in DOMAIN todo' : i + 1 \in DOMAIN todo
      BY <1>0, <1>1, <2>1, TailFacts
    <2> QED
      BY <2>1, <2>2, <2>3 DEF ToSet
  <1>3. JobNodesRegistered'
    BY <1>0, <1>2 DEF ServiceInv, JobNodesRegistered
  <1>4. FlushProgress'
    <2>1. job.kind = "flush" /\ n.logger \in Flushable => n \in outstanding'
      BY <1>0 DEF Wanted
    <2> QED
      BY <1>0, <1>1, <1>2, <2>1 DEF ServiceInv, FlushProgress
  <1>5. FlushComesLast' /\ TerminateComesLast'
    BY <1>0 DEF ServiceInv, FlushComesLast, TerminateComesLast
  <1> QED
    BY <1>3, <1>4, <1>5 DEF ServiceInv

\* The end of a block.
LEMMA EndServed ==
    ASSUME ServiceInv, job' = NoJob, running' = NoBlock \/ UNCHANGED running,
           running'.op \notin {"flush", "terminate"},
           UNCHANGED <<loggingQueue, issued>>
    PROVE  ServiceInv'
  BY DEF ServiceInv, JobNodesRegistered, FlushComesLast, TerminateComesLast, FlushProgress,
         NoJob, NoBlock

LEMMA LoggingQueueServed == ASSUME IInv, ServiceInv, RunLoggingQueue PROVE ServiceInv'
  <1>1. CASE lt_addLogger \/ lt_removeLogger \/ lt_allLoggers \/ ForwardFormatter
    BY <1>1, AtOnceServed
    DEF lt_addLogger, lt_removeLogger, lt_allLoggers, ForwardFormatter, IsNext, callers
  <1>2. CASE lt_log
    BY <1>2, StartServed DEF lt_log
  <1>3. CASE lt_removeAllLoggers
    BY <1>3, StartServed DEF lt_removeAllLoggers
  <1>4. CASE lt_flush
    BY <1>4, StartServed DEF lt_flush
  <1>5. CASE GetFormatter
    BY <1>5, StartServed DEF GetFormatter
  <1>6. CASE ClientBlock
    BY <1>6, StartServed DEF ClientBlock, NoJob
  <1>7. CASE VisitNode
    BY <1>7, VisitServed
  <1>8. CASE FinishJob
    BY <1>8, EndServed DEF FinishJob, NoBlock
  <1>9. CASE ClientBlockEnds
    BY <1>9, EndServed DEF ClientBlockEnds, NoBlock, callers
  <1> QED
    BY <1>1, <1>2, <1>3, <1>4, <1>5, <1>6, <1>7, <1>8, <1>9 DEF RunLoggingQueue

-----------------------------------------------------------------------------
(* The loggers' queues.                                                      *)

\* A callback that neither logs nor flushes.
LEMMA OtherCallbackServed ==
    ASSUME ServiceInv, job.kind # "flush" \/ UNCHANGED outstanding,
           outstanding' \subseteq outstanding,
           UNCHANGED <<loggers, loggingQueue, running, job, todo, issued, received, flushed>>
    PROVE  ServiceInv'
  BY DEF ServiceInv, JobNodesRegistered, FlushComesLast, TerminateComesLast, FlushProgress

\* While a flush waits for a logger, the other loggers stay flushed.
LEMMA FlushServed == ASSUME IInv, ServiceInv, NEW q \in QueueIds, flush(q) PROVE ServiceInv'
  <1> DEFINE c == Head(loggerQueue[q])
  <1>0. /\ Pops(q, "flush") /\ outstanding' = outstanding \ {c.node}
        /\ flushed' = [flushed EXCEPT ![c.node.logger] = Len(received[c.node.logger])]
        /\ UNCHANGED <<loggers, loggingQueue, running, job, todo, issued, received>>
    BY DEF flush, Leaves, registry, callers
  <1>1. flushed \in [Loggers -> Nat] /\ loggers \in Seq(Nodes)
    BY DEF IInv, TypeOK
  <1>2. \A n \in ToSet(loggers) : n \in Nodes /\ n.logger \in Loggers
    <2>1. \A i \in DOMAIN loggers : loggers[i] \in Nodes
      BY <1>1, SeqElements
    <2>2. \A n \in Nodes : n.logger \in Loggers
      BY DEF Nodes
    <2> QED
      BY <2>1, <2>2 DEF ToSet
  <1>3. FlushProgress'
    <2> SUFFICES ASSUME job.kind = "flush", NEW n \in ToSet(loggers), n.logger \in Flushable
                 PROVE  \/ n \in ToSet(todo) \cup outstanding'
                        \/ flushed'[n.logger] = Len(received[n.logger])
      BY <1>0 DEF ServiceInv, FlushProgress
    <2>1. CASE n.logger = c.node.logger
      BY <1>0, <1>1, <1>2, <2>1
    <2>2. CASE n.logger # c.node.logger
      <3>1. n # c.node /\ flushed'[n.logger] = flushed[n.logger]
        BY <1>0, <1>1, <1>2, <2>2
      <3> QED
        BY <1>0, <3>1 DEF ServiceInv, FlushProgress
    <2> QED
      BY <2>1, <2>2
  <1>4. JobNodesRegistered' /\ FlushComesLast' /\ TerminateComesLast'
    BY <1>0 DEF ServiceInv, JobNodesRegistered, FlushComesLast, TerminateComesLast
  <1> QED
    BY <1>3, <1>4 DEF ServiceInv

LEMMA LoggerQueueServed ==
    ASSUME IInv, ServiceInv, NEW q \in QueueIds, RunLoggerQueue(q) PROVE ServiceInv'
  <1> DEFINE c == Head(loggerQueue[q])
  <1>1. ASSUME NEW kind \in WaitedKinds, Pops(q, kind)
        PROVE  job.kind = kind
    <2>1. 1 \in DOMAIN loggerQueue[q] /\ c = loggerQueue[q][1] /\ c.kind = kind
      BY <1>1, PopFacts DEF Pops, IInv
    <2> QED
      BY <2>1 DEF IInv, WaitedInGroup
  <1>2. CASE logMessage(q)
    <2>1. /\ job.kind = "logMessage" /\ outstanding' \subseteq outstanding
          /\ UNCHANGED <<loggers, loggingQueue, running, job, todo, issued>>
      BY <1>1, <1>2 DEF logMessage, WaitedKinds, Leaves, registry, callers
    <2> QED
      BY <2>1
      DEF ServiceInv, JobNodesRegistered, FlushComesLast, TerminateComesLast, FlushProgress
  <1>3. CASE flush(q)
    BY <1>3, FlushServed
  <1>4. CASE ReadFormatter(q)
    <2>1. job.kind = "getFormatter"
      BY <1>1, <1>4 DEF ReadFormatter, WaitedKinds
    <2> QED
      BY <1>4, <2>1, OtherCallbackServed DEF ReadFormatter, Leaves, registry, callers, effects
  <1>5. CASE WriteFormatter(q)
    BY <1>5, OtherCallbackServed DEF WriteFormatter, registry, engine, callers
  <1>6. CASE didAddLogger(q)
    BY <1>6, OtherCallbackServed DEF didAddLogger, registry, engine, callers
  <1>7. CASE willRemoveLogger(q)
    BY <1>7, OtherCallbackServed DEF willRemoveLogger, registry, engine, callers
  <1> QED
    BY <1>2, <1>3, <1>4, <1>5, <1>6, <1>7 DEF RunLoggerQueue

-----------------------------------------------------------------------------
(* The theorems.                                                             *)

\* ServiceInv holds in every reachable state, given the invariant of DDLogProofs.
THEOREM ServiceInvariance == Spec => []ServiceInv
  <1>1. Init => ServiceInv
    BY DEF Init, ServiceInv, JobNodesRegistered, FlushComesLast, TerminateComesLast,
           FlushProgress, NoBlock, NoJob
  <1>2. ASSUME IInv, ServiceInv, [Next]_vars PROVE ServiceInv'
    <2>1. CASE UNCHANGED vars \/ Stopped
      BY <1>2, <2>1, SameService DEF vars, Stopped, registry, callers, effects
    <2> QED
      BY <1>2, <2>1, CallServed, LoggingQueueServed, LoggerQueueServed DEF Next
  <1> QED
    BY <1>1, <1>2, Invariance, PTL DEF Spec

\* No logger is given a message after the removal of the node it was meant for: a removal
\* never overtakes or splits the delivery of a message.
THEOREM RegisteredOnly == Spec => []OnlyRegisteredAreCalled
  <1>1. IInv /\ ServiceInv => OnlyRegisteredAreCalled
    <2> SUFFICES ASSUME IInv, ServiceInv, NEW c \in Pending("logMessage")
                 PROVE  c.node \in ToSet(loggers)
      BY DEF OnlyRegisteredAreCalled
    <2>1. c.node \in outstanding /\ job.kind = "logMessage"
      BY PendingFacts DEF IInv, WaitedInGroup, WaitedKinds
    <2> QED
      BY <2>1 DEF ServiceInv, JobNodesRegistered
  <1> QED
    BY <1>1, Invariance, ServiceInvariance, PTL

\* What is in flight when a flush has gone to all loggers waits on the logging queue.
LEMMA FlushDone ==
    ASSUME IInv, ServiceInv, FinishJob, running.op \in {"flush", "terminate"}
    PROVE  /\ \A m \in InFlight : \E i \in DOMAIN loggingQueue :
                 loggingQueue[i].op = "log" /\ m = loggingQueue[i].arg
           /\ \A n \in ToSet(loggers) :
                 n.logger \in Flushable => flushed[n.logger] = Len(received[n.logger])
  <1>1. job.kind = "flush" /\ todo = <<>> /\ outstanding = {}
    BY DEF ServiceInv, FlushProgress, FinishJob
  <1>2. Pending("logMessage") = {}
    BY <1>1, PendingFacts DEF IInv, WaitedInGroup, WaitedKinds
  <1>3. ToSet(todo) = {}
    BY <1>1 DEF ToSet
  <1> QED
    BY <1>1, <1>2, <1>3 DEF InFlight, ServiceInv, FlushProgress

\* flushLog comes after all that its caller logged, and reaches every logger.
THEOREM FlushCovers == Spec => FlushCoversCaller
  <1> DEFINE Covers == \A t \in blocked \ blocked' :
                (running.op = "flush" /\ running.by = t) =>
                   /\ \A m \in InFlight : m.by # t
                   /\ \A n \in ToSet(loggers) :
                         n.logger \in Flushable => flushed[n.logger] = Len(received[n.logger])
  <1>1. ASSUME IInv, ServiceInv, [Next]_vars PROVE [Covers]_vars
    <2> SUFFICES ASSUME NEW t \in blocked \ blocked', running.op = "flush", running.by = t, Next
                 PROVE  /\ \A m \in InFlight : m.by # t
                        /\ \A n \in ToSet(loggers) :
                              n.logger \in Flushable => flushed[n.logger] = Len(received[n.logger])
      BY <1>1
    <2>1. FinishJob
      <3>1. running # NoBlock
        BY DEF NoBlock
      <3>2. ~CallApi
        BY DEF CallApi, Log, LogDirectly, AddLogger, RemoveLogger, RemoveAllLoggers, AllLoggers,
               FlushLog, ApplicationWillTerminate, SetLogFormatter, LogFormatter,
               DispatchClientBlock, DispatchAsync, DispatchSync
      <3>3. RunLoggingQueue => FinishJob
        BY <3>1 DEF RunLoggingQueue, lt_addLogger, lt_removeLogger, lt_removeAllLoggers,
               lt_allLoggers, ForwardFormatter, lt_log, lt_flush, GetFormatter, ClientBlock,
               VisitNode, ClientBlockEnds, Starts, IsNext, callers
      <3>4. \A q \in QueueIds : ~RunLoggerQueue(q)
        BY DEF RunLoggerQueue, logMessage, flush, ReadFormatter, WriteFormatter, didAddLogger,
               willRemoveLogger, callers
      <3> QED
        BY <3>2, <3>3, <3>4 DEF Next, Stopped, vars, callers
    <2> QED
      BY <1>1, <2>1, FlushDone DEF ServiceInv, FlushComesLast
  <1> QED
    BY <1>1, Invariance, ServiceInvariance, PTL DEF Spec, FlushCoversCaller

\* An orderly exit loses nothing that was logged before the notification, by any thread,
\* and leaves no logger unflushed.
THEOREM ExitCovers == Spec => ExitLosesNothing
  <1> DEFINE Complete == (alive /\ ~alive') =>
                /\ \A m \in InFlight : m.id > running.arg.upTo
                /\ \A n \in ToSet(loggers) :
                      n.logger \in Flushable => flushed[n.logger] = Len(received[n.logger])
  <1>1. ASSUME IInv, ServiceInv, [Next]_vars PROVE [Complete]_vars
    <2> SUFFICES ASSUME alive, ~alive', Next
                 PROVE  /\ \A m \in InFlight : m.id > running.arg.upTo
                        /\ \A n \in ToSet(loggers) :
                              n.logger \in Flushable => flushed[n.logger] = Len(received[n.logger])
      BY <1>1
    <2>1. FinishJob /\ running.op = "terminate"
      <3>1. ~CallApi
        BY DEF CallApi, Log, LogDirectly, AddLogger, RemoveLogger, RemoveAllLoggers, AllLoggers,
               FlushLog, ApplicationWillTerminate, SetLogFormatter, LogFormatter,
               DispatchClientBlock, DispatchAsync, DispatchSync
      <3>2. RunLoggingQueue => FinishJob
        BY DEF RunLoggingQueue, lt_addLogger, lt_removeLogger, lt_removeAllLoggers,
               lt_allLoggers, ForwardFormatter, lt_log, lt_flush, GetFormatter, ClientBlock,
               VisitNode, ClientBlockEnds, Starts, IsNext, callers
      <3>3. \A q \in QueueIds : ~RunLoggerQueue(q)
        BY DEF RunLoggerQueue, logMessage, flush, ReadFormatter, WriteFormatter, didAddLogger,
               willRemoveLogger, callers
      <3>4. FinishJob
        BY <3>1, <3>2, <3>3 DEF Next, Stopped, vars, callers
      <3> QED
        BY <3>4 DEF FinishJob
    <2> QED
      BY <1>1, <2>1, FlushDone DEF ServiceInv, TerminateComesLast
  <1> QED
    BY <1>1, Invariance, ServiceInvariance, PTL DEF Spec, ExitLosesNothing

-----------------------------------------------------------------------------
(* The notices that wait on one queue: what a callback that comes or goes does *)
(* to what a node was told, and to how its notices alternate.                  *)

Smaller == {p \in Nat \X Nat : p[1] < p[2]}

\* A set of numbers has a least element.
LEMMA LeastNat ==
    ASSUME NEW T, T \subseteq Nat, T # {}
    PROVE  \E x \in T : \A y \in T : x <= y
  <1>1. IsWellFoundedOn(Smaller, Nat)
    BY NatLessThanWellFounded, Zenon DEF OpToRel, Smaller
  <1>2. PICK x \in T : \A y \in T : ~(<<y, x>> \in Smaller)
    BY <1>1, WFMin, Zenon
  <1>3. \A y \in T : ~(y < x)
    BY <1>2 DEF Smaller
  <1> QED
    BY <1>3

\* Between two notices of a kind there is one of the other.
LEMMA AlternateFacts ==
    ASSUME NEW s, NEW n, NEW r, Alternate(s, n, r), NEW i \in DOMAIN s, NEW j \in DOMAIN s,
           i < j, IsNotice(s[i], n), IsNotice(s[j], n), s[i].kind = s[j].kind
    PROVE  \E k \in DOMAIN s : i < k /\ k < j /\ IsNotice(s[k], n) /\ s[k].kind # s[i].kind
  BY Zenon DEF Alternate

\* Something that is no notice of the node goes to the end of its queue.
LEMMA OthersAppended ==
    ASSUME NEW s \in Seq(Callbacks), NEW c \in Callbacks, NEW n, NEW r, ~IsNotice(c, n)
    PROVE  /\ Told(Append(s, c), n, r) <=> Told(s, n, r)
           /\ Alternate(s, n, r) => Alternate(Append(s, c), n, r)
  <1> DEFINE t == Append(s, c)
  <1>1. /\ DOMAIN s \subseteq DOMAIN t
        /\ \A i \in DOMAIN s : t[i] = s[i]
        /\ \A i \in DOMAIN t : IsNotice(t[i], n) => i \in DOMAIN s
    BY AppendProperties, LenProperties DEF IsNotice
  <1> HIDE DEF t
  <1>2. Told(t, n, r) <=> Told(s, n, r)
    BY <1>1 DEF Told
  <1>3. ASSUME Alternate(s, n, r) PROVE Alternate(t, n, r)
    <2>1. ASSUME NEW i \in DOMAIN t, NEW j \in DOMAIN t,
                 i < j, IsNotice(t[i], n), IsNotice(t[j], n), t[i].kind = t[j].kind
          PROVE  \E k \in DOMAIN t : i < k /\ k < j /\ IsNotice(t[k], n) /\ t[k].kind # t[i].kind
      <3>1. /\ i \in DOMAIN s /\ j \in DOMAIN s /\ t[i] = s[i] /\ t[j] = s[j]
        BY <1>1, <2>1
      <3>2. PICK k \in DOMAIN s : i < k /\ k < j /\ IsNotice(s[k], n) /\ s[k].kind # s[i].kind
        BY <1>3, <2>1, <3>1, AlternateFacts
      <3> QED
        BY <1>1, <3>1, <3>2
    <2>2. ASSUME NEW i \in DOMAIN t, IsNotice(t[i], n)
          PROVE  \E k \in DOMAIN t : i <= k /\ IsNotice(t[k], n) /\ (t[k].kind = "didAdd" <=> r)
      <3>1. i \in DOMAIN s /\ t[i] = s[i]
        BY <1>1, <2>2
      <3>2. PICK k \in DOMAIN s : i <= k /\ IsNotice(s[k], n) /\ (s[k].kind = "didAdd" <=> r)
        BY <1>3, <2>2, <3>1 DEF Alternate
      <3> QED
        BY <1>1, <3>2
    <2> QED
      BY <2>1, <2>2 DEF Alternate
  <1> QED
    BY <1>2, <1>3 DEF t

\* A notice goes to the end of the queue, contrary to how the node was registered.
LEMMA NoticeAppended ==
    ASSUME NEW s \in Seq(Callbacks), NEW c \in Callbacks, NEW n, IsNotice(c, n),
           NEW r \in BOOLEAN, c.kind = IF r THEN "willRemove" ELSE "didAdd",
           Alternate(s, n, r)
    PROVE  /\ Told(Append(s, c), n, ~r) <=> Told(s, n, r)
           /\ Alternate(Append(s, c), n, ~r)
  <1> DEFINE t == Append(s, c)
             e == Len(s) + 1
  <1>1. /\ DOMAIN s \subseteq DOMAIN t
        /\ \A i \in DOMAIN s : t[i] = s[i] /\ i < e /\ i \in Nat
        /\ e \in DOMAIN t /\ t[e] = c /\ e \in Nat
        /\ \A i \in DOMAIN t : i \in DOMAIN s \/ i = e
    BY AppendProperties, LenProperties
  <1> HIDE DEF t, e
  <1>2. Told(t, n, ~r) <=> Told(s, n, r)
    <2>1. ASSUME Told(t, n, ~r) PROVE Told(s, n, r)
      <3>1. PICK i \in DOMAIN t : /\ IsNotice(t[i], n) /\ t[i].kind = "willRemove"
                                  /\ \A k \in DOMAIN t : k < i => ~IsNotice(t[k], n)
        BY <1>1, <2>1 DEF Told
      <3>2. CASE i \in DOMAIN s
        BY <1>1, <3>1, <3>2 DEF Told
      <3>3. CASE i = e
        BY <1>1, <3>1, <3>3 DEF Told
      <3> QED
        BY <1>1, <3>2, <3>3
    <2>2. ASSUME Told(s, n, r) PROVE Told(t, n, ~r)
      <3>1. CASE \E i \in DOMAIN s : /\ IsNotice(s[i], n) /\ s[i].kind = "willRemove"
                                     /\ \A k \in DOMAIN s : k < i => ~IsNotice(s[k], n)
        <4>1. PICK i \in DOMAIN s : /\ IsNotice(s[i], n) /\ s[i].kind = "willRemove"
                                     /\ \A k \in DOMAIN s : k < i => ~IsNotice(s[k], n)
          BY <3>1
        <4>2. i \in DOMAIN t /\ \A k \in DOMAIN t : k < i => k \in DOMAIN s
          BY <1>1
        <4> QED
          BY <1>1, <4>1, <4>2 DEF Told
      <3>2. CASE r /\ \A i \in DOMAIN s : ~IsNotice(s[i], n)
        <4>1. \A k \in DOMAIN t : k < e => ~IsNotice(t[k], n)
          BY <1>1, <3>2
        <4> QED
          BY <1>1, <3>2, <4>1 DEF Told
      <3> QED
        BY <2>2, <3>1, <3>2 DEF Told
    <2> QED
      BY <2>1, <2>2
  <1>3. Alternate(t, n, ~r)
    <2>1. \A i \in DOMAIN s : i <= e
      BY <1>1
    <2>2. ASSUME NEW i \in DOMAIN t, NEW j \in DOMAIN t,
                 i < j, IsNotice(t[i], n), IsNotice(t[j], n), t[i].kind = t[j].kind
          PROVE  \E k \in DOMAIN t : i < k /\ k < j /\ IsNotice(t[k], n) /\ t[k].kind # t[i].kind
      <3>1. i \in DOMAIN s
        BY <1>1, <2>2
      <3>2. CASE j \in DOMAIN s
        <4>1. t[i] = s[i] /\ t[j] = s[j]
          BY <1>1, <3>1, <3>2
        <4>2. PICK k \in DOMAIN s : i < k /\ k < j /\ IsNotice(s[k], n) /\ s[k].kind # s[i].kind
          BY <2>2, <3>1, <3>2, <4>1, AlternateFacts
        <4> QED
          BY <1>1, <4>1, <4>2
      <3>3. CASE j = e
        <4>1. PICK k \in DOMAIN s : i <= k /\ IsNotice(s[k], n)
                                    /\ (s[k].kind = "didAdd" <=> r)
          BY <1>1, <2>2, <3>1 DEF Alternate
        <4>2. s[k].kind # c.kind /\ s[i].kind = c.kind
          BY <1>1, <2>2, <3>1, <3>3, <4>1 DEF IsNotice
        <4>3. i < k
          BY <1>1, <3>1, <4>1, <4>2
        <4> QED
          BY <1>1, <2>2, <3>1, <3>3, <4>1, <4>2, <4>3
      <3> QED
        BY <1>1, <3>2, <3>3
    <2>3. ASSUME NEW i \in DOMAIN t
          PROVE  \E k \in DOMAIN t : i <= k /\ IsNotice(t[k], n) /\ (t[k].kind = "didAdd" <=> ~r)
      BY <1>1, <2>1
    <2> QED
      BY <2>2, <2>3 DEF Alternate
  <1> QED
    BY <1>2, <1>3 DEF t

\* Something that is no notice of the node runs.
LEMMA OthersTaken ==
    ASSUME NEW s \in Seq(Callbacks), s # <<>>, NEW n, NEW r, ~IsNotice(Head(s), n)
    PROVE  /\ Told(Tail(s), n, r) <=> Told(s, n, r)
           /\ Alternate(s, n, r) => Alternate(Tail(s), n, r)
  <1> DEFINE t == Tail(s)
  <1>1. /\ \A i \in DOMAIN t : i \in Nat /\ i + 1 \in DOMAIN s /\ t[i] = s[i + 1]
        /\ \A i \in DOMAIN s : i \in Nat /\ (IsNotice(s[i], n) => i - 1 \in DOMAIN t /\ i - 1 + 1 = i)
    <2>1. /\ t \in Seq(Callbacks) /\ Head(s) = s[1] /\ DOMAIN s = 1 .. Len(s)
          /\ DOMAIN t = 1 .. (Len(s) - 1) /\ Len(s) \in Nat
          /\ \A i \in DOMAIN t : t[i] = s[i + 1]
      BY HeadTailProperties, LenProperties
    <2> HIDE DEF t
    <2>2. \A i \in DOMAIN s : i # 1 => i - 1 \in DOMAIN t /\ i - 1 + 1 = i
      BY <2>1
    <2> QED
      BY <2>1, <2>2
  <1> HIDE DEF t
  <1>a. /\ \A i, j \in DOMAIN t : /\ i < j <=> i + 1 < j + 1
                                  /\ i <= j <=> i + 1 <= j + 1
        /\ \A i, j \in DOMAIN s : /\ i < j <=> i - 1 < j - 1
                                  /\ i <= j <=> i - 1 <= j - 1
    BY <1>1
  <1>2. Told(t, n, r) <=> Told(s, n, r)
    <2>1. ASSUME NEW i \in DOMAIN t, IsNotice(t[i], n), t[i].kind = "willRemove",
                 \A k \in DOMAIN t : k < i => ~IsNotice(t[k], n)
          PROVE  Told(s, n, r)
      <3>1. \A k \in DOMAIN s : k < i + 1 => ~IsNotice(s[k], n)
        <4> SUFFICES ASSUME NEW k \in DOMAIN s, k < i + 1, IsNotice(s[k], n) PROVE FALSE
          OBVIOUS
        <4>1. k - 1 \in DOMAIN t /\ k - 1 < i /\ t[k - 1] = s[k]
          BY <1>1
        <4> QED
          BY <2>1, <4>1
      <3> QED
        BY <1>1, <2>1, <3>1 DEF Told
    <2>2. ASSUME NEW i \in DOMAIN s, IsNotice(s[i], n), s[i].kind = "willRemove",
                 \A k \in DOMAIN s : k < i => ~IsNotice(s[k], n)
          PROVE  Told(t, n, r)
      <3>1. i - 1 \in DOMAIN t /\ t[i - 1] = s[i]
        BY <1>1, <2>2
      <3>2. \A k \in DOMAIN t : k < i - 1 => ~IsNotice(t[k], n)
        <4> SUFFICES ASSUME NEW k \in DOMAIN t, k < i - 1 PROVE ~IsNotice(t[k], n)
          OBVIOUS
        <4>1. k + 1 \in DOMAIN s /\ k + 1 < i /\ t[k] = s[k + 1]
          BY <1>1
        <4> QED
          BY <2>2, <4>1
      <3> QED
        BY <2>2, <3>1, <3>2 DEF Told
    <2>3. (\A i \in DOMAIN s : ~IsNotice(s[i], n)) <=> (\A i \in DOMAIN t : ~IsNotice(t[i], n))
      BY <1>1
    <2> QED
      BY <2>1, <2>2, <2>3 DEF Told
  <1>3. ASSUME Alternate(s, n, r) PROVE Alternate(t, n, r)
    <2>1. ASSUME NEW i \in DOMAIN t, NEW j \in DOMAIN t,
                 i < j, IsNotice(t[i], n), IsNotice(t[j], n), t[i].kind = t[j].kind
          PROVE  \E k \in DOMAIN t : i < k /\ k < j /\ IsNotice(t[k], n) /\ t[k].kind # t[i].kind
      <3>1. i + 1 \in DOMAIN s /\ j + 1 \in DOMAIN s /\ t[i] = s[i + 1] /\ t[j] = s[j + 1]
            /\ i + 1 < j + 1
        BY <1>1, <1>a, <2>1
      <3>2. PICK k \in DOMAIN s : i + 1 < k /\ k < j + 1 /\ IsNotice(s[k], n) /\ s[k].kind # t[i].kind
        BY <1>3, <2>1, <3>1, AlternateFacts
      <3>3. k - 1 \in DOMAIN t /\ t[k - 1] = s[k] /\ i < k - 1 /\ k - 1 < j
        <4>1. i \in Nat /\ j \in Nat /\ k \in Nat
          BY <1>1
        <4>2. k - 1 \in DOMAIN t /\ k - 1 + 1 = k
          BY <1>1, <3>2
        <4>3. t[k - 1] = s[k - 1 + 1]
          BY <1>1, <4>2
        <4>4. i < k - 1 /\ k - 1 < j
          BY <3>2, <4>1
        <4> QED
          BY <4>2, <4>3, <4>4
      <3> QED
        BY <3>2, <3>3
    <2>2. ASSUME NEW i \in DOMAIN t, IsNotice(t[i], n)
          PROVE  \E k \in DOMAIN t : i <= k /\ IsNotice(t[k], n) /\ (t[k].kind = "didAdd" <=> r)
      <3>1. i + 1 \in DOMAIN s /\ t[i] = s[i + 1]
        BY <1>1
      <3>2. PICK k \in DOMAIN s : i + 1 <= k /\ IsNotice(s[k], n) /\ (s[k].kind = "didAdd" <=> r)
        BY <1>3, <2>2, <3>1 DEF Alternate
      <3>3. k - 1 \in DOMAIN t /\ t[k - 1] = s[k] /\ i <= k - 1
        BY <1>1, <3>2
      <3> QED
        BY <3>2, <3>3
    <2> QED
      BY <2>1, <2>2 DEF Alternate
  <1> QED
    BY <1>2, <1>3 DEF t

\* A notice of the node runs: its logger is told what it was not told before.
LEMMA NoticeTaken ==
    ASSUME NEW s \in Seq(Callbacks), s # <<>>, NEW n, NEW r \in BOOLEAN,
           IsNotice(Head(s), n), Alternate(s, n, r)
    PROVE  /\ Told(s, n, r) <=> Head(s).kind = "willRemove"
           /\ Told(Tail(s), n, r) <=> Head(s).kind = "didAdd"
           /\ Alternate(Tail(s), n, r)
  <1> DEFINE t == Tail(s)
  <1>1. /\ \A i \in DOMAIN t : i \in Nat /\ i + 1 \in DOMAIN s /\ t[i] = s[i + 1] /\ 1 < i + 1
        /\ \A i \in DOMAIN s : i \in Nat /\ ~(i < 1) /\ (i # 1 => i - 1 \in DOMAIN t /\ t[i - 1] = s[i])
        /\ 1 \in DOMAIN s /\ s[1] = Head(s)
    <2>1. /\ t \in Seq(Callbacks) /\ Head(s) = s[1] /\ DOMAIN s = 1 .. Len(s)
          /\ DOMAIN t = 1 .. (Len(s) - 1) /\ Len(s) \in Nat /\ Len(s) # 0
          /\ \A i \in DOMAIN t : t[i] = s[i + 1]
      BY HeadTailProperties, LenProperties
    <2> HIDE DEF t
    <2>2. \A i \in DOMAIN s : i # 1 => i - 1 \in DOMAIN t /\ t[i - 1] = s[i]
      <3> SUFFICES ASSUME NEW i \in DOMAIN s, i # 1
                   PROVE  i - 1 \in DOMAIN t /\ t[i - 1] = s[i]
        OBVIOUS
      <3>1. i - 1 \in DOMAIN t /\ i - 1 + 1 = i
        BY <2>1
      <3> QED
        BY <2>1, <3>1
    <2> QED
      BY <2>1, <2>2
  <1> HIDE DEF t
  <1>2. Told(s, n, r) <=> Head(s).kind = "willRemove"
    BY <1>1 DEF Told
  <1>3. Alternate(t, n, r)
    <2>1. ASSUME NEW i \in DOMAIN t, NEW j \in DOMAIN t,
                 i < j, IsNotice(t[i], n), IsNotice(t[j], n), t[i].kind = t[j].kind
          PROVE  \E k \in DOMAIN t : i < k /\ k < j /\ IsNotice(t[k], n) /\ t[k].kind # t[i].kind
      <3>1. i + 1 \in DOMAIN s /\ j + 1 \in DOMAIN s /\ t[i] = s[i + 1] /\ t[j] = s[j + 1]
            /\ i + 1 < j + 1
        BY <1>1, <2>1
      <3>2. PICK k \in DOMAIN s : i + 1 < k /\ k < j + 1 /\ IsNotice(s[k], n) /\ s[k].kind # t[i].kind
        BY <2>1, <3>1, AlternateFacts
      <3>3. k - 1 \in DOMAIN t /\ t[k - 1] = s[k] /\ i < k - 1 /\ k - 1 < j
        BY <1>1, <2>1, <3>2
      <3> QED
        BY <3>2, <3>3
    <2>2. ASSUME NEW i \in DOMAIN t, IsNotice(t[i], n)
          PROVE  \E k \in DOMAIN t : i <= k /\ IsNotice(t[k], n) /\ (t[k].kind = "didAdd" <=> r)
      <3>1. i + 1 \in DOMAIN s /\ t[i] = s[i + 1]
        BY <1>1
      <3>2. PICK k \in DOMAIN s : i + 1 <= k /\ IsNotice(s[k], n) /\ (s[k].kind = "didAdd" <=> r)
        BY <2>2, <3>1 DEF Alternate
      <3>3. k - 1 \in DOMAIN t /\ t[k - 1] = s[k] /\ i <= k - 1
        BY <1>1, <3>2
      <3> QED
        BY <3>2, <3>3
    <2> QED
      BY <2>1, <2>2 DEF Alternate
  <1>4. CASE \A i \in DOMAIN t : ~IsNotice(t[i], n)
    <2>1. PICK k \in DOMAIN s : IsNotice(s[k], n) /\ (s[k].kind = "didAdd" <=> r)
      BY <1>1 DEF Alternate
    <2>2. k = 1
      BY <1>1, <1>4, <2>1
    <2> QED
      BY <1>1, <1>2, <1>3, <1>4, <2>1, <2>2 DEF Told, t
  <1>5. CASE \E i \in DOMAIN t : IsNotice(t[i], n)
    <2>1. PICK f \in DOMAIN t : IsNotice(t[f], n) /\ \A i \in DOMAIN t : IsNotice(t[i], n) => f <= i
      <3> DEFINE T == {i \in DOMAIN t : IsNotice(t[i], n)}
      <3>1. T \subseteq Nat /\ T # {}
        BY <1>1, <1>5
      <3> HIDE DEF T
      <3>2. PICK f \in T : \A i \in T : f <= i
        BY <3>1, LeastNat
      <3> QED
        BY <3>2 DEF T
    <2>2. \A i \in DOMAIN t : i < f => ~IsNotice(t[i], n)
      BY <1>1, <2>1
    <2>3. t[f].kind # Head(s).kind
      <3> SUFFICES ASSUME t[f].kind = Head(s).kind PROVE FALSE
        OBVIOUS
      <3>1. PICK k \in DOMAIN s : 1 < k /\ k < f + 1 /\ IsNotice(s[k], n)
        BY <1>1, <2>1 DEF Alternate
      <3>2. k - 1 \in DOMAIN t /\ k - 1 < f /\ t[k - 1] = s[k]
        BY <1>1, <3>1
      <3> QED
        BY <2>2, <3>1, <3>2
    <2>4. t[f].kind \in {"didAdd", "willRemove"} /\ Head(s).kind \in {"didAdd", "willRemove"}
      BY <2>1 DEF IsNotice
    <2>5. Told(t, n, r) <=> t[f].kind = "willRemove"
      <3>1. t[f].kind = "willRemove" => Told(t, n, r)
        BY <2>1, <2>2 DEF Told
      <3>2. ASSUME NEW i \in DOMAIN t, IsNotice(t[i], n), t[i].kind = "willRemove",
                   \A k \in DOMAIN t : k < i => ~IsNotice(t[k], n)
            PROVE  t[f].kind = "willRemove"
        <4>1. f <= i /\ ~(f < i) /\ f \in Nat /\ i \in Nat
          BY <1>1, <2>1, <3>2
        <4>2. i = f
          BY <4>1
        <4> QED
          BY <3>2, <4>2
      <3> QED
        BY <2>1, <3>1, <3>2 DEF Told
    <2> QED
      BY <1>2, <1>3, <2>3, <2>4, <2>5 DEF t
  <1> QED
    BY <1>4, <1>5

-----------------------------------------------------------------------------
(* The notices of all nodes, when a callback comes or goes.                   *)

\* At first nothing waits, and the nodes in the array are those that were told.
LEMMA InitNotices == Init => NoticeInv
  <1> SUFFICES ASSUME Init PROVE NoticeInv
    OBVIOUS
  <1>1. \A q \in QueueIds : loggerQueue[q] = <<>>
    BY DEF Init
  <1>2. \A n \in Nodes : n.queue \in QueueIds /\ loggerQueue[n.queue] = <<>>
    BY <1>1 DEF Nodes
  <1>3. RemovalVisitsRegistered /\ NoticesPlaced
    BY <1>1 DEF RemovalVisitsRegistered, NoticesPlaced, Init, NoJob
  <1>4. NoticesAlternate
    BY <1>2 DEF NoticesAlternate, Alternate
  <1>5. ASSUME NEW l \in Loggers
        PROVE  IsFiniteSet(ToldNodes(l)) /\ attached[l] = Cardinality(ToldNodes(l))
    <2> DEFINE D == {i \in DOMAIN Installed : Installed[i].logger = l}
               f == [i \in D |-> Installed[i]]
    <2>1. \A n \in Nodes : Told(loggerQueue[n.queue], n, Registered(n)) <=> n \in ToSet(Installed)
      <3>1. \A n \in Nodes : Registered(n) <=> n \in ToSet(Installed)
        BY DEF Registered, Init, NoJob
      <3> QED
        BY <1>2, <3>1 DEF Told
    <2>2. ToldNodes(l) = {n \in Nodes : n.logger = l /\ n \in ToSet(Installed)}
      BY <2>1 DEF ToldNodes
    <2>3. /\ Len(Installed) \in Nat /\ DOMAIN Installed = 1 .. Len(Installed)
          /\ \A i \in DOMAIN Installed : Installed[i] \in Nodes
      BY DDLogAssumption, SeqElements, LenProperties
    <2>4. IsFiniteSet(D)
      <3>1. IsFiniteSet(DOMAIN Installed)
        BY <2>3, FS_Interval
      <3> QED
        BY <3>1, FS_Subset
    <2>5. \A i, j \in D : i # j => f[i] # f[j]
      BY DDLogAssumption
    <2>6. \A n \in ToldNodes(l) : \E i \in D : f[i] = n
      BY <2>2 DEF ToSet
    <2>7. \A i \in D : f[i] \in ToldNodes(l)
      BY <2>2, <2>3 DEF ToSet
    <2> HIDE DEF D
    <2>8. f \in [D -> ToldNodes(l)]
      BY <2>7
    <2>9. f \in Surjection(D, ToldNodes(l)) /\ f \in Injection(D, ToldNodes(l))
      BY <2>5, <2>6, <2>8 DEF Surjection, Injection, IsInjective
    <2>10. IsFiniteSet(ToldNodes(l)) /\ Cardinality(ToldNodes(l)) = Cardinality(D)
      BY <2>4, <2>9, FS_Surjection
    <2>11. attached[l] = Cardinality(D)
      BY DEF Init, D
    <2> QED
      BY <2>10, <2>11
  <1> QED
    BY <1>3, <1>4, <1>5 DEF NoticeInv, AttachedCounts

\* What each node was told and how its notices alternate decide the invariant.
LEMMA NoticesKept ==
    ASSUME NoticeInv, RemovalVisitsRegistered', NoticesPlaced', UNCHANGED attached,
           \A n \in Nodes :
              /\ Alternate(loggerQueue'[n.queue], n, Registered(n)')
              /\ Told(loggerQueue'[n.queue], n, Registered(n)')
                    <=> Told(loggerQueue[n.queue], n, Registered(n))
    PROVE  NoticeInv'
  <1>1. \A l \in Loggers : ToldNodes(l)' = ToldNodes(l)
    BY DEF ToldNodes
  <1>2. AttachedCounts'
    BY <1>1 DEF NoticeInv, AttachedCounts
  <1>3. NoticesAlternate'
    BY DEF NoticesAlternate
  <1> QED
    BY <1>2, <1>3 DEF NoticeInv

\* Neither the loggers' queues nor the registration of a node changes.
LEMMA QuietNotices ==
    ASSUME NoticeInv, RemovalVisitsRegistered', UNCHANGED <<loggerQueue, attached>>,
           \A n \in Nodes : Registered(n)' <=> Registered(n)
    PROVE  NoticeInv'
  <1>1. NoticesPlaced'
    BY DEF NoticeInv, NoticesPlaced
  <1>2. \A n \in Nodes :
              /\ Alternate(loggerQueue'[n.queue], n, Registered(n)')
              /\ Told(loggerQueue'[n.queue], n, Registered(n)')
                    <=> Told(loggerQueue[n.queue], n, Registered(n))
    <2> SUFFICES ASSUME NEW n \in Nodes
                 PROVE  /\ Alternate(loggerQueue'[n.queue], n, Registered(n)')
                        /\ Told(loggerQueue'[n.queue], n, Registered(n)')
                              <=> Told(loggerQueue[n.queue], n, Registered(n))
      OBVIOUS
    <2>1. Registered(n)' = Registered(n)
      BY DEF Registered
    <2>2. loggerQueue'[n.queue] = loggerQueue[n.queue]
      OBVIOUS
    <2>3. Alternate(loggerQueue[n.queue], n, Registered(n))
      BY DEF NoticeInv, NoticesAlternate
    <2> QED
      BY <2>1, <2>2, <2>3, Zenon
  <1> QED
    BY <1>1, <1>2, NoticesKept

\* A node's queue, before and after a callback c is enqueued on q0.
LEMMA QueueFacts ==
    ASSUME TypeOK, NEW q0 \in QueueIds, NEW c \in Callbacks, loggerQueue' = Enqueue(q0, c)
    PROVE  \A q \in QueueIds :
              /\ loggerQueue[q] \in Seq(Callbacks)
              /\ loggerQueue'[q] = IF q = q0 THEN Append(loggerQueue[q], c) ELSE loggerQueue[q]
  BY DEF TypeOK, Enqueue

\* A callback that is no notice is enqueued.
LEMMA OtherEnqueued ==
    ASSUME IInv, NoticeInv, NEW q0 \in QueueIds, NEW c \in Callbacks,
           c.kind \notin {"didAdd", "willRemove"}, loggerQueue' = Enqueue(q0, c),
           UNCHANGED attached, RemovalVisitsRegistered',
           \A n \in Nodes : Registered(n)' <=> Registered(n)
    PROVE  NoticeInv'
  <1>1. TypeOK
    BY DEF IInv
  <1>2. NoticesPlaced'
    <2>1. \A q \in QueueIds : \A i \in DOMAIN loggerQueue[q] : i \in Nat /\ i <= Len(loggerQueue[q])
      BY <1>1, QueueFacts, AppendFacts, SeqElements
    <2>2. \A q \in QueueIds : \A i \in DOMAIN loggerQueue'[q] :
             \/ i \in DOMAIN loggerQueue[q] /\ loggerQueue'[q][i] = loggerQueue[q][i]
             \/ loggerQueue'[q][i] = c /\ \A k \in DOMAIN loggerQueue[q] : ~(i < k)
      <3>1. \A q \in QueueIds : \A i \in DOMAIN loggerQueue'[q] :
               \/ i \in DOMAIN loggerQueue[q] /\ loggerQueue'[q][i] = loggerQueue[q][i]
               \/ loggerQueue'[q][i] = c /\ i = Len(loggerQueue[q]) + 1
        BY <1>1, EnqueueFacts
      <3>2. \A q \in QueueIds : Len(loggerQueue[q]) \in Nat
        BY <1>1, QueueFacts, LenProperties
      <3> QED
        BY <2>1, <3>1, <3>2
    <2> QED
      BY <2>2 DEF NoticeInv, NoticesPlaced
  <1>3. ASSUME NEW n \in Nodes
        PROVE  /\ Alternate(loggerQueue'[n.queue], n, Registered(n)')
               /\ Told(loggerQueue'[n.queue], n, Registered(n)')
                     <=> Told(loggerQueue[n.queue], n, Registered(n))
    <2>1. Registered(n)' = Registered(n)
      BY DEF Registered
    <2>2. /\ n.queue \in QueueIds /\ loggerQueue[n.queue] \in Seq(Callbacks)
          /\ loggerQueue'[n.queue] = IF n.queue = q0 THEN Append(loggerQueue[n.queue], c)
                                                     ELSE loggerQueue[n.queue]
      BY <1>1, QueueFacts DEF Nodes
    <2>3. Alternate(loggerQueue[n.queue], n, Registered(n))
      BY DEF NoticeInv, NoticesAlternate
    <2>4. ~IsNotice(c, n)
      BY DEF IsNotice
    <2>5. PICK s : s = loggerQueue[n.queue]
      OBVIOUS
    <2>6. PICK r \in BOOLEAN : r = Registered(n)
      BY DEF Registered
    <2>7. /\ Told(Append(s, c), n, r) <=> Told(s, n, r)
          /\ Alternate(s, n, r) => Alternate(Append(s, c), n, r)
      BY <2>2, <2>4, <2>5, OthersAppended
    <2>8. CASE n.queue = q0
      <3>1. loggerQueue'[n.queue] = Append(s, c)
        BY <2>2, <2>5, <2>8
      <3> QED
        BY <2>1, <2>3, <2>5, <2>6, <2>7, <3>1, Zenon
    <2>9. CASE n.queue # q0
      BY <2>1, <2>2, <2>3, <2>9, Zenon
    <2> QED
      BY <2>8, <2>9
  <1> QED
    BY <1>2, <1>3, NoticesKept

\* A node is notified as its registration changes.
LEMMA NoticeEnqueued ==
    ASSUME IInv, NoticeInv, NEW n0 \in Nodes, NEW kind,
           kind = IF Registered(n0) THEN "willRemove" ELSE "didAdd",
           loggerQueue' = Notify(kind, n0),
           \A q \in QueueIds : \A i \in DOMAIN loggerQueue[q] : loggerQueue[q][i].kind # "logMessage",
           UNCHANGED attached, RemovalVisitsRegistered',
           Registered(n0)' <=> ~Registered(n0),
           \A n \in Nodes : n # n0 => (Registered(n)' <=> Registered(n))
    PROVE  NoticeInv'
  <1> DEFINE c == [kind |-> kind, node |-> n0, arg |-> None]
             q0 == n0.queue
  <1>1. TypeOK
    BY DEF IInv
  <1>2. c \in Callbacks /\ q0 \in QueueIds /\ c.kind = kind /\ c.node = n0
        /\ kind \in {"didAdd", "willRemove"}
    BY DEF Callbacks, Nodes
  <1>3. loggerQueue' = Enqueue(q0, c)
    BY DEF Notify
  <1> HIDE DEF c
  <1>4. NoticesPlaced'
    <2>1. \A q \in QueueIds : \A i \in DOMAIN loggerQueue'[q] :
             \/ i \in DOMAIN loggerQueue[q] /\ loggerQueue'[q][i] = loggerQueue[q][i]
             \/ q = q0 /\ loggerQueue'[q][i] = c
      BY <1>1, <1>2, <1>3, EnqueueFacts
    <2>2. \A q \in QueueIds : \A i \in DOMAIN loggerQueue'[q] : loggerQueue'[q][i].kind # "logMessage"
      BY <1>2, <2>1
    <2> QED
      BY <1>2, <2>1, <2>2 DEF NoticeInv, NoticesPlaced
  <1>5. ASSUME NEW n \in Nodes
        PROVE  /\ Alternate(loggerQueue'[n.queue], n, Registered(n)')
               /\ Told(loggerQueue'[n.queue], n, Registered(n)')
                     <=> Told(loggerQueue[n.queue], n, Registered(n))
    <2>2. /\ n.queue \in QueueIds /\ loggerQueue[n.queue] \in Seq(Callbacks)
          /\ loggerQueue'[n.queue] = IF n.queue = q0 THEN Append(loggerQueue[n.queue], c)
                                                     ELSE loggerQueue[n.queue]
      BY <1>1, <1>2, <1>3, QueueFacts DEF Nodes
    <2>3. Alternate(loggerQueue[n.queue], n, Registered(n))
      BY DEF NoticeInv, NoticesAlternate
    <2>5. PICK s : s = loggerQueue[n.queue]
      OBVIOUS
    <2>6. PICK r \in BOOLEAN : r = Registered(n)
      BY DEF Registered
    <2>8. CASE n = n0
      <3>1. loggerQueue'[n.queue] = Append(s, c)
        BY <2>2, <2>5, <2>8
      <3>2. Registered(n)' = ~r
        BY <2>6, <2>8 DEF Registered
      <3>3. IsNotice(c, n) /\ c.kind = IF r THEN "willRemove" ELSE "didAdd"
        BY <1>2, <2>6, <2>8 DEF IsNotice
      <3>4. s \in Seq(Callbacks) /\ Alternate(s, n, r)
        BY <2>2, <2>3, <2>5, <2>6, Zenon
      <3>5. /\ Told(Append(s, c), n, ~r) <=> Told(s, n, r)
            /\ Alternate(Append(s, c), n, ~r)
        BY <1>2, <3>3, <3>4, NoticeAppended
      <3> QED
        BY <2>5, <2>6, <3>1, <3>2, <3>5, Zenon
    <2>9. CASE n # n0
      <3>1. Registered(n)' = Registered(n)
        BY <2>9 DEF Registered
      <3>2. ~IsNotice(c, n)
        BY <1>2, <2>9 DEF IsNotice
      <3>3. /\ Told(Append(s, c), n, r) <=> Told(s, n, r)
            /\ Alternate(s, n, r) => Alternate(Append(s, c), n, r)
        BY <1>2, <2>2, <3>2, <2>5, OthersAppended
      <3>4. CASE n.queue = q0
        <4>1. loggerQueue'[n.queue] = Append(s, c)
          BY <2>2, <2>5, <3>4
        <4> QED
          BY <2>3, <2>5, <2>6, <3>1, <3>3, <4>1, Zenon
      <3>5. CASE n.queue # q0
        BY <2>2, <2>3, <3>1, <3>5, Zenon
      <3> QED
        BY <3>4, <3>5
    <2> QED
      BY <2>8, <2>9
  <1> QED
    BY <1>4, <1>5, NoticesKept

\* A node's queue, before and after the head of q0 runs.
LEMMA TakenFacts ==
    ASSUME TypeOK, NEW q0 \in QueueIds, NEW kind, Pops(q0, kind)
    PROVE  /\ \A q \in QueueIds :
                 /\ loggerQueue[q] \in Seq(Callbacks)
                 /\ loggerQueue'[q] = IF q = q0 THEN Tail(loggerQueue[q]) ELSE loggerQueue[q]
           /\ loggerQueue[q0] # <<>> /\ Head(loggerQueue[q0]) \in Callbacks
           /\ Head(loggerQueue[q0]).kind = kind
  <1>1. loggerQueue[q0] \in Seq(Callbacks) /\ loggerQueue[q0] # <<>>
    BY DEF TypeOK, Pops
  <1>2. Head(loggerQueue[q0]) \in Callbacks
    BY <1>1, TailFacts
  <1> QED
    BY <1>1, <1>2 DEF TypeOK, Pops

\* Whatever runs, no message gets before a notice.
LEMMA PlacedWhenTaken ==
    ASSUME IInv, NoticeInv, NEW q0 \in QueueIds, NEW kind, Pops(q0, kind)
    PROVE  NoticesPlaced'
  <1>1. TypeOK
    BY DEF IInv
  <1>2. /\ \A q \in QueueIds : q # q0 => loggerQueue'[q] = loggerQueue[q]
        /\ \A i \in DOMAIN loggerQueue'[q0] :
              /\ i \in Nat /\ i + 1 \in DOMAIN loggerQueue[q0]
              /\ loggerQueue'[q0][i] = loggerQueue[q0][i + 1]
    BY <1>1, PopFacts DEF Pops
  <1>3. \A i, k \in DOMAIN loggerQueue'[q0] : k < i => k + 1 < i + 1
    BY <1>2
  <1> SUFFICES ASSUME NEW q \in QueueIds, NEW i \in DOMAIN loggerQueue'[q],
                      loggerQueue'[q][i].kind \in {"didAdd", "willRemove"}
               PROVE  /\ loggerQueue'[q][i].node.queue = q
                      /\ \A k \in DOMAIN loggerQueue'[q] :
                            k < i => loggerQueue'[q][k].kind # "logMessage"
    BY DEF NoticesPlaced
  <1>4. CASE q = q0
    BY <1>2, <1>3, <1>4 DEF NoticeInv, NoticesPlaced
  <1>5. CASE q # q0
    BY <1>2, <1>5 DEF NoticeInv, NoticesPlaced
  <1> QED
    BY <1>4, <1>5

\* A node whose notice it is not is told what it was, whatever runs.
LEMMA OthersUntold ==
    ASSUME IInv, NoticeInv, NEW q0 \in QueueIds, NEW kind, Pops(q0, kind), NEW n \in Nodes,
           n.queue = q0 => ~IsNotice(Head(loggerQueue[q0]), n),
           Registered(n)' <=> Registered(n)
    PROVE  /\ Alternate(loggerQueue'[n.queue], n, Registered(n)')
           /\ Told(loggerQueue'[n.queue], n, Registered(n)')
                 <=> Told(loggerQueue[n.queue], n, Registered(n))
  <1>1. Registered(n)' = Registered(n)
    BY DEF Registered
  <1>2. /\ n.queue \in QueueIds /\ loggerQueue[n.queue] \in Seq(Callbacks)
        /\ loggerQueue'[n.queue] = IF n.queue = q0 THEN Tail(loggerQueue[n.queue])
                                                   ELSE loggerQueue[n.queue]
        /\ loggerQueue[q0] # <<>>
    BY TakenFacts DEF IInv, Nodes
  <1>3. Alternate(loggerQueue[n.queue], n, Registered(n))
    BY DEF NoticeInv, NoticesAlternate
  <1>4. PICK s : s = loggerQueue[n.queue]
    OBVIOUS
  <1>5. PICK r \in BOOLEAN : r = Registered(n)
    BY DEF Registered
  <1>6. CASE n.queue = q0
    <2>1. s \in Seq(Callbacks) /\ s # <<>> /\ ~IsNotice(Head(s), n)
          /\ loggerQueue'[n.queue] = Tail(s)
      BY <1>2, <1>4, <1>6
    <2>2. /\ Told(Tail(s), n, r) <=> Told(s, n, r)
          /\ Alternate(s, n, r) => Alternate(Tail(s), n, r)
      BY <2>1, OthersTaken
    <2> QED
      BY <1>1, <1>3, <1>4, <1>5, <2>1, <2>2, Zenon
  <1>7. CASE n.queue # q0
    BY <1>1, <1>2, <1>3, <1>7, Zenon
  <1> QED
    BY <1>6, <1>7

\* A callback that is no notice runs.
LEMMA OtherTaken ==
    ASSUME IInv, NoticeInv, NEW q0 \in QueueIds, NEW kind, Pops(q0, kind),
           kind \notin {"didAdd", "willRemove"},
           UNCHANGED <<loggers, job, todo, attached>>
    PROVE  NoticeInv'
  <1>1. RemovalVisitsRegistered'
    BY DEF NoticeInv, RemovalVisitsRegistered
  <1>2. Head(loggerQueue[q0]).kind = kind
    BY DEF Pops
  <1>3. \A n \in Nodes : /\ Registered(n)' <=> Registered(n)
                         /\ ~IsNotice(Head(loggerQueue[q0]), n)
    BY <1>2 DEF Registered, IsNotice
  <1>4. \A n \in Nodes :
           /\ Alternate(loggerQueue'[n.queue], n, Registered(n)')
           /\ Told(loggerQueue'[n.queue], n, Registered(n)')
                 <=> Told(loggerQueue[n.queue], n, Registered(n))
    BY <1>3, OthersUntold
  <1> QED
    BY <1>1, <1>4, PlacedWhenTaken, NoticesKept

\* A notice runs, and the logger counts it.
LEMMA NoticeRuns ==
    ASSUME IInv, NoticeInv, NEW q0 \in QueueIds, NEW kind \in {"didAdd", "willRemove"},
           Pops(q0, kind),
           attached' = [attached EXCEPT ![Head(loggerQueue[q0]).node.logger] =
                           IF kind = "didAdd" THEN @ + 1 ELSE @ - 1],
           UNCHANGED <<loggers, job, todo>>
    PROVE  NoticeInv'
  <1> DEFINE c == Head(loggerQueue[q0])
  <1>0. PICK n0 : n0 = c.node
    OBVIOUS
  <1>1. RemovalVisitsRegistered'
    BY DEF NoticeInv, RemovalVisitsRegistered
  <1>2. TypeOK /\ c \in Callbacks /\ c.kind = kind /\ c.node = n0 /\ loggerQueue[q0] # <<>>
        /\ loggerQueue[q0] \in Seq(Callbacks) /\ loggerQueue'[q0] = Tail(loggerQueue[q0])
    BY <1>0, TakenFacts DEF IInv
  <1>3. n0 \in Nodes /\ n0.logger \in Loggers
    BY <1>2 DEF Callbacks, Nodes
  <1>4. n0.queue = q0
    <2>1. 1 \in DOMAIN loggerQueue[q0] /\ c = loggerQueue[q0][1]
      BY <1>2, TailFacts
    <2> QED
      BY <1>2, <2>1 DEF NoticeInv, NoticesPlaced
  <1> HIDE DEF c
  <1>5. \A n \in Nodes : (Registered(n)' <=> Registered(n)) /\ (IsNotice(c, n) <=> n = n0)
    BY <1>2 DEF Registered, IsNotice
  <1>6. /\ Told(loggerQueue[q0], n0, Registered(n0)) <=> kind = "willRemove"
        /\ Told(loggerQueue'[q0], n0, Registered(n0)') <=> kind = "didAdd"
        /\ Alternate(loggerQueue'[q0], n0, Registered(n0)')
    <2>1. PICK s : s = loggerQueue[q0]
      OBVIOUS
    <2>2. PICK r \in BOOLEAN : r = Registered(n0) /\ r = Registered(n0)'
      BY <1>3, <1>5 DEF Registered
    <2>3. Alternate(s, n0, r)
      BY <1>3, <1>4, <2>1, <2>2, Zenon DEF NoticeInv, NoticesAlternate
    <2>4. s \in Seq(Callbacks) /\ s # <<>> /\ Head(s) = c /\ IsNotice(Head(s), n0)
          /\ loggerQueue'[q0] = Tail(s)
      BY <1>2, <1>3, <1>5, <2>1 DEF c
    <2>5. /\ Told(s, n0, r) <=> Head(s).kind = "willRemove"
          /\ Told(Tail(s), n0, r) <=> Head(s).kind = "didAdd"
          /\ Alternate(Tail(s), n0, r)
      BY <2>3, <2>4, NoticeTaken
    <2> QED
      BY <1>2, <2>1, <2>2, <2>4, <2>5, Zenon
  <1>7. \A n \in Nodes : n # n0 =>
           /\ Alternate(loggerQueue'[n.queue], n, Registered(n)')
           /\ Told(loggerQueue'[n.queue], n, Registered(n)')
                 <=> Told(loggerQueue[n.queue], n, Registered(n))
    BY <1>5, OthersUntold DEF c
  <1>8. NoticesAlternate'
    BY <1>4, <1>6, <1>7 DEF NoticesAlternate
  <1>9. AttachedCounts'
    <2> SUFFICES ASSUME NEW l \in Loggers
                 PROVE  IsFiniteSet(ToldNodes(l)') /\ attached'[l] = Cardinality(ToldNodes(l)')
      BY DEF AttachedCounts
    <2>1. IsFiniteSet(ToldNodes(l)) /\ attached[l] = Cardinality(ToldNodes(l))
          /\ attached \in [Loggers -> Int]
      BY <1>2 DEF NoticeInv, AttachedCounts, TypeOK
    <2>2. CASE l # n0.logger
      <3>1. ToldNodes(l)' = ToldNodes(l)
        BY <1>7, <2>2 DEF ToldNodes
      <3>2. attached'[l] = attached[l]
        BY <1>0, <2>1, <2>2 DEF c
      <3> QED
        BY <2>1, <3>1, <3>2
    <2>3. CASE l = n0.logger /\ kind = "didAdd"
      <3>1. ToldNodes(l)' = ToldNodes(l) \cup {n0} /\ n0 \notin ToldNodes(l)
        BY <1>3, <1>4, <1>6, <1>7, <2>3 DEF ToldNodes
      <3>2. attached'[l] = attached[l] + 1
        BY <1>0, <2>1, <2>3 DEF c
      <3> QED
        BY <2>1, <3>1, <3>2, FS_AddElement
    <2>4. CASE l = n0.logger /\ kind = "willRemove"
      <3>1. ToldNodes(l)' = ToldNodes(l) \ {n0} /\ n0 \in ToldNodes(l)
        BY <1>3, <1>4, <1>6, <1>7, <2>4 DEF ToldNodes
      <3>2. attached'[l] = attached[l] - 1
        BY <1>0, <2>1, <2>4 DEF c
      <3> QED
        BY <2>1, <3>1, <3>2, FS_RemoveElement
    <2> QED
      BY <2>2, <2>3, <2>4
  <1> QED
    BY <1>1, <1>8, <1>9, PlacedWhenTaken DEF NoticeInv

-----------------------------------------------------------------------------
(* Every step keeps the notices in step with the array.                      *)

\* Positions, when the one at i is taken out.
LEMMA Positions ==
    ASSUME NEW m \in Nat, NEW i \in 1 .. m, NEW k \in 1 .. m
    PROVE  /\ k < i => /\ k \in 1 .. i - 1 /\ k <= i - 1 /\ k \in 1 .. m - 1
           /\ ~(k < i) /\ k \in 1 .. m - 1 =>
                 /\ k - (i - 1) \in 1 .. m - i /\ k - (i - 1) + i = k + 1
                 /\ ~(k <= i - 1) /\ k + 1 \in 1 .. m
           /\ ~(k < i) /\ k # i => k - 1 \in 1 .. m - 1 /\ ~(k - 1 < i)
           /\ k \in Nat
  OBVIOUS

\* The elements of a sequence without repetition, when the one at i is taken out.
LEMMA RemovedSet ==
    ASSUME NEW S, NEW u \in Seq(S), NEW i \in DOMAIN u,
           NEW v, v = SubSeq(u, 1, i - 1) \o SubSeq(u, i + 1, Len(u)),
           \A j, k \in DOMAIN u : j # k => u[j] # u[k]
    PROVE  ToSet(v) = ToSet(u) \ {u[i]}
  <1> DEFINE s == SubSeq(u, 1, i - 1)
             t == SubSeq(u, i + 1, Len(u))
  <1>0. PICK m \in Nat : m = Len(u) /\ DOMAIN u = 1 .. m
    BY LenProperties
  <1>a. i \in 1 .. m /\ \A k \in 1 .. m : u[k] \in S
    BY <1>0, SeqElements
  <1>1. /\ s \in Seq(S) /\ Len(s) = i - 1
        /\ \A k \in 1 .. i - 1 : s[k] = u[k]
    <2>1. /\ 1 \in Int /\ i - 1 \in Int /\ i - 1 - 1 + 1 = i - 1 /\ (~(1 <= i - 1) => i - 1 = 0)
          /\ \A k \in 1 .. i - 1 : 1 + k - 1 = k
      BY <1>a
    <2>2. \A k \in 1 .. i - 1 : u[k] \in S
      BY <1>a
    <2>3. /\ s \in Seq(S)
          /\ Len(s) = IF 1 <= i - 1 THEN i - 1 - 1 + 1 ELSE 0
          /\ \A k \in 1 .. i - 1 - 1 + 1 : s[k] = u[1 + k - 1]
      BY <2>1, <2>2, SubSeqProperties
    <2> HIDE DEF s
    <2> QED
      BY <2>1, <2>3
  <1>2. /\ t \in Seq(S) /\ Len(t) = m - i
        /\ \A k \in 1 .. m - i : t[k] = u[k + i]
    <2>1. i + 1 \in Int /\ m \in Int /\ \A k \in i + 1 .. m : u[k] \in S
      BY <1>a
    <2>2. /\ t \in Seq(S)
          /\ Len(t) = IF i + 1 <= m THEN m - (i + 1) + 1 ELSE 0
          /\ \A k \in 1 .. m - (i + 1) + 1 : t[k] = u[i + 1 + k - 1]
      <3> SUFFICES ASSUME NEW f, f = SubSeq(u, i + 1, m)
                   PROVE  /\ f \in Seq(S)
                          /\ Len(f) = IF i + 1 <= m THEN m - (i + 1) + 1 ELSE 0
                          /\ \A k \in 1 .. m - (i + 1) + 1 : f[k] = u[i + 1 + k - 1]
        BY <1>0
      <3> QED
        BY <2>1, SubSeqProperties
    <2>3. m - (i + 1) + 1 = m - i /\ (~(i + 1 <= m) => m - i = 0)
      BY <1>a
    <2>4. \A k \in 1 .. m - i : i + 1 + k - 1 = k + i
      BY <1>a
    <2> HIDE DEF t
    <2> QED
      BY <2>2, <2>3, <2>4
  <1> HIDE DEF s, t
  <1>3. /\ s \o t \in Seq(S) /\ Len(s \o t) = Len(s) + Len(t)
        /\ \A k \in 1 .. Len(s) + Len(t) :
              (s \o t)[k] = IF k <= Len(s) THEN s[k] ELSE t[k - Len(s)]
    BY <1>1, <1>2, ConcatProperties
  <1>4. Len(s) + Len(t) = m - 1
    BY <1>a, <1>1, <1>2
  <1>5. v = s \o t
    BY <1>0 DEF s, t
  <1>6. /\ v \in Seq(S) /\ DOMAIN v = 1 .. m - 1
        /\ \A k \in 1 .. m - 1 : v[k] = IF k <= i - 1 THEN s[k] ELSE t[k - (i - 1)]
    BY <1>1, <1>3, <1>4, <1>5, LenProperties
  <1>7. ASSUME NEW k \in 1 .. m - 1
        PROVE  /\ k < i => k \in DOMAIN u /\ v[k] = u[k]
               /\ ~(k < i) => k + 1 \in DOMAIN u /\ v[k] = u[k + 1]
    <2>0. k \in 1 .. m
      OBVIOUS
    <2>1. CASE k < i
      <3>1. k \in 1 .. i - 1 /\ k <= i - 1 /\ k \in DOMAIN u
        BY <1>0, <1>a, <2>0, <2>1, Positions
      <3> QED
        BY <1>1, <1>6, <2>1, <3>1
    <2>2. CASE ~(k < i)
      <3>1. /\ k - (i - 1) \in 1 .. m - i /\ k - (i - 1) + i = k + 1
            /\ ~(k <= i - 1) /\ k + 1 \in DOMAIN u
        BY <1>0, <1>a, <2>0, <2>2, Positions
      <3>2. t[k - (i - 1)] = u[k - (i - 1) + i]
        BY <1>2, <3>1
      <3> QED
        BY <1>6, <2>2, <3>1, <3>2
    <2> QED
      BY <2>1, <2>2
  <1>8. \A k \in DOMAIN u : /\ k < i => k \in DOMAIN v
                            /\ ~(k < i) /\ k # i => k - 1 \in DOMAIN v /\ ~(k - 1 < i)
    <2> SUFFICES ASSUME NEW k \in DOMAIN u
                 PROVE  /\ k < i => k \in DOMAIN v
                        /\ ~(k < i) /\ k # i => k - 1 \in DOMAIN v /\ ~(k - 1 < i)
      OBVIOUS
    <2>1. k \in 1 .. m
      BY <1>0
    <2>2. /\ k < i => k \in 1 .. m - 1
          /\ ~(k < i) /\ k # i => k - 1 \in 1 .. m - 1 /\ ~(k - 1 < i)
      BY <1>a, <2>1, Positions
    <2> QED
      BY <1>6, <2>2
  <1>9. \A k \in DOMAIN v : k \in Nat /\ k \in 1 .. m - 1
    <2>1. \A k \in 1 .. m - 1 : k \in Nat
      OBVIOUS
    <2> QED
      BY <1>6, <2>1
  <1>10. \A k \in DOMAIN v : /\ k \in Nat
                             /\ k < i => k \in DOMAIN u /\ v[k] = u[k]
                             /\ ~(k < i) => k + 1 \in DOMAIN u /\ v[k] = u[k + 1]
    BY <1>7, <1>9
  <1>11. i \in Nat /\ \A k \in DOMAIN u : k \in Nat
    BY SeqElements
  <1>12. ASSUME NEW k \in DOMAIN v PROVE v[k] \in ToSet(u) \ {u[i]}
    <2>1. (k < i => k # i) /\ (~(k < i) => k + 1 # i)
      BY <1>8, <1>10, <1>11
    <2>2. PICK j \in DOMAIN u : j # i /\ v[k] = u[j]
      BY <1>8, <1>10, <2>1
    <2> QED
      BY <2>2 DEF ToSet
  <1>13. ASSUME NEW j \in DOMAIN u, j # i PROVE u[j] \in ToSet(v)
    <2>1. CASE j < i
      BY <1>8, <1>10, <2>1 DEF ToSet
    <2>2. CASE ~(j < i)
      <3>1. j - 1 \in DOMAIN v /\ ~(j - 1 < i) /\ j - 1 + 1 = j
        BY <1>8, <1>10, <1>11, <1>13, <2>2
      <3>2. v[j - 1] = u[j]
        BY <1>8, <1>10, <3>1
      <3> QED
        BY <3>1, <3>2 DEF ToSet
    <2> QED
      BY <2>1, <2>2
  <1>14. ToSet(u) \ {u[i]} \subseteq ToSet(v)
    BY <1>13 DEF ToSet
  <1>15. ToSet(v) \subseteq ToSet(u) \ {u[i]}
    BY <1>12 DEF ToSet
  <1> QED
    BY <1>14, <1>15

\* Only a message being handed out has loggers with a message pending.
LEMMA NoMessagePending ==
    ASSUME IInv, job.kind # "logMessage"
    PROVE  \A q \in QueueIds : \A i \in DOMAIN loggerQueue[q] :
              loggerQueue[q][i].kind # "logMessage"
  BY DEF IInv, WaitedInGroup, WaitedKinds

LEMMA CallNotices == ASSUME IInv, NoticeInv, CallApi PROVE NoticeInv'
  <1>1. /\ UNCHANGED <<loggers, loggerQueue, attached>>
        /\ \/ UNCHANGED <<job, todo>>
           \/ job = NoJob /\ job'.kind = "logMessage"
    <2>1. ASSUME NEW f \in Flags, LogDirectly(f)
          PROVE  /\ UNCHANGED <<loggers, loggerQueue, attached>>
                 /\ job = NoJob /\ job'.kind = "logMessage"
      BY <2>1 DEF LogDirectly, MayCall, registry, effects
    <2>2. ASSUME NEW c, NEW op, NEW arg, DispatchAsync(c, op, arg) \/ DispatchSync(c, op, arg)
          PROVE  UNCHANGED <<loggers, loggerQueue, attached, job, todo>>
      BY <2>2 DEF DispatchAsync, DispatchSync, registry, effects
    <2>3. ASSUME NEW c, NEW f, NEW sync, Log(c, f, sync)
          PROVE  UNCHANGED <<loggers, loggerQueue, attached, job, todo>>
      BY <2>3 DEF Log, registry, effects
    <2> QED
      BY <2>1, <2>2, <2>3
      DEF CallApi, AddLogger, RemoveLogger, RemoveAllLoggers, AllLoggers, FlushLog,
          ApplicationWillTerminate, SetLogFormatter, LogFormatter, DispatchClientBlock
  <1>2. \A n \in Nodes : Registered(n)' <=> Registered(n)
    BY <1>1 DEF Registered, NoJob
  <1>3. RemovalVisitsRegistered'
    BY <1>1 DEF NoticeInv, RemovalVisitsRegistered
  <1> QED
    BY <1>1, <1>2, <1>3, QuietNotices

LEMMA AddNotices == ASSUME IInv, NoticeInv, lt_addLogger PROVE NoticeInv'
  <1>1. PICK n : n = Head(loggingQueue).arg
    OBVIOUS
  <1>2. /\ running = NoBlock /\ loggingQueue # <<>> /\ Head(loggingQueue).op = "add"
        /\ UNCHANGED <<job, todo, attached>>
    BY DEF lt_addLogger, IsNext, RunsAtOnce, effects
  <1>3. n \in Nodes /\ job.kind = "none"
    BY <1>1, <1>2, HeadFacts DEF Blocks, IInv, JobDiscipline
  <1>4. RemovalVisitsRegistered'
    BY <1>2, <1>3 DEF RemovalVisitsRegistered
  <1>5. \A m \in Nodes : /\ Registered(m) <=> m \in ToSet(loggers)
                         /\ Registered(m)' <=> m \in ToSet(loggers')
    BY <1>2, <1>3 DEF Registered
  <1>6. CASE \E i \in DOMAIN loggers : loggers[i].logger = n.logger /\ loggers[i].level = n.level
    <2>1. UNCHANGED <<loggers, loggerQueue>>
      BY <1>1, <1>6 DEF lt_addLogger
    <2> QED
      BY <1>2, <1>4, <1>5, <2>1, QuietNotices
  <1>7. CASE ~ \E i \in DOMAIN loggers : loggers[i].logger = n.logger /\ loggers[i].level = n.level
    <2>1. loggers' = Append(loggers, n) /\ loggerQueue' = Notify("didAdd", n)
      BY <1>1, <1>7 DEF lt_addLogger
    <2>2. ToSet(loggers') = ToSet(loggers) \cup {n} /\ n \notin ToSet(loggers)
      <3>1. loggers \in Seq(Nodes)
        BY DEF IInv, TypeOK
      <3>2. /\ DOMAIN loggers' = 1 .. Len(loggers) + 1 /\ DOMAIN loggers = 1 .. Len(loggers)
            /\ Len(loggers) \in Nat
            /\ \A i \in DOMAIN loggers : loggers'[i] = loggers[i]
            /\ loggers'[Len(loggers) + 1] = n
        BY <1>3, <2>1, <3>1, AppendProperties, LenProperties
      <3>3. \A i \in DOMAIN loggers' : i \in DOMAIN loggers \/ i = Len(loggers) + 1
        BY <3>2
      <3>4. DOMAIN loggers \subseteq DOMAIN loggers' /\ Len(loggers) + 1 \in DOMAIN loggers'
        BY <3>2
      <3>5. n \notin ToSet(loggers)
        BY <1>7 DEF ToSet
      <3> QED
        BY <3>2, <3>3, <3>4, <3>5 DEF ToSet
    <2>3. /\ ~Registered(n) /\ Registered(n)'
          /\ \A m \in Nodes : m # n => (Registered(m)' <=> Registered(m))
      BY <1>3, <1>5, <2>2
    <2> QED
      BY <1>2, <1>3, <1>4, <2>1, <2>3, NoMessagePending, NoticeEnqueued
  <1> QED
    BY <1>6, <1>7

LEMMA RemoveNotices == ASSUME IInv, NoticeInv, lt_removeLogger PROVE NoticeInv'
  <1>1. PICK l : l = Head(loggingQueue).arg
    OBVIOUS
  <1>2. /\ running = NoBlock /\ loggingQueue # <<>> /\ Head(loggingQueue).op = "remove"
        /\ UNCHANGED <<job, todo, attached>>
    BY DEF lt_removeLogger, IsNext, RunsAtOnce, effects
  <1>3. job.kind = "none"
    BY <1>2 DEF IInv, JobDiscipline
  <1>4. RemovalVisitsRegistered'
    BY <1>2, <1>3 DEF RemovalVisitsRegistered
  <1>5. \A m \in Nodes : /\ Registered(m) <=> m \in ToSet(loggers)
                         /\ Registered(m)' <=> m \in ToSet(loggers')
    BY <1>2, <1>3 DEF Registered
  <1>6. CASE UNCHANGED <<loggers, loggerQueue>>
    BY <1>2, <1>4, <1>5, <1>6, QuietNotices
  <1>7. ASSUME NEW i \in DOMAIN loggers,
               loggerQueue' = Notify("willRemove", loggers[i]),
               loggers' = SubSeq(loggers, 1, i - 1) \o SubSeq(loggers, i + 1, Len(loggers))
        PROVE  NoticeInv'
    <2>1. PICK n : n = loggers[i]
      OBVIOUS
    <2>2. loggers \in Seq(Nodes) /\ n \in Nodes
      BY <2>1, SeqElements DEF IInv, TypeOK
    <2>4. ToSet(loggers') = ToSet(loggers) \ {n}
      <3>1. PICK v : v = loggers'
        OBVIOUS
      <3> QED
        BY <1>7, <2>1, <2>2, <3>1, LoggersFacts, RemovedSet
    <2>5. n \in ToSet(loggers)
      BY <2>1 DEF ToSet
    <2>6. /\ Registered(n) /\ ~Registered(n)'
          /\ \A m \in Nodes : m # n => (Registered(m)' <=> Registered(m))
      BY <1>5, <2>2, <2>4, <2>5
    <2> QED
      BY <1>2, <1>3, <1>4, <1>7, <2>1, <2>2, <2>6, NoMessagePending, NoticeEnqueued
  <1> QED
    BY <1>6, <1>7 DEF lt_removeLogger

\* A forwarded formatter is no notice.
LEMMA ForwardNotices == ASSUME IInv, NoticeInv, ForwardFormatter PROVE NoticeInv'
  <1> DEFINE l == Head(loggingQueue).arg.logger
             n == [logger |-> l, level |-> {}, queue |-> OwnQueueOf(l)]
             c == [kind |-> "setFormatter", node |-> n, arg |-> Head(loggingQueue).arg.formatter]
  <1>1. /\ loggingQueue # <<>> /\ Head(loggingQueue).op = "setFormatter"
        /\ UNCHANGED <<loggers, job, todo, attached>>
        /\ loggerQueue' = Enqueue(OwnQueueOf(l), c)
    BY DEF ForwardFormatter, IsNext, RunsAtOnce, registry, effects
  <1>2. Head(loggingQueue).arg \in [logger : OwnQueue, formatter : Formatters]
    BY <1>1, HeadFacts DEF Blocks
  <1>3. n \in Nodes /\ OwnQueueOf(l) \in QueueIds
    BY <1>2, DDLogAssumption DEF Nodes, OwnQueueOf, QueueIds
  <1>4. c \in Callbacks /\ c.kind \notin {"didAdd", "willRemove"}
    BY <1>2, <1>3 DEF Callbacks
  <1> HIDE DEF c, n, l
  <1>5. RemovalVisitsRegistered' /\ \A m \in Nodes : Registered(m)' <=> Registered(m)
    BY <1>1 DEF NoticeInv, RemovalVisitsRegistered, Registered
  <1> QED
    BY <1>1, <1>3, <1>4, <1>5, OtherEnqueued

LEMMA StartNotices ==
    ASSUME IInv, NoticeInv, NEW op, NEW j, NEW nodes, Starts(op, j, nodes),
           j.kind = "willRemove" => nodes = loggers
    PROVE  NoticeInv'
  <1>1. /\ running = NoBlock /\ job' = j /\ todo' = nodes
        /\ UNCHANGED <<loggers, loggerQueue, attached>>
    BY DEF Starts, IsNext, registry, effects
  <1>2. job.kind = "none"
    BY <1>1 DEF IInv, JobDiscipline
  <1>3. RemovalVisitsRegistered' /\ \A n \in Nodes : Registered(n)' <=> Registered(n)
    BY <1>1, <1>2 DEF RemovalVisitsRegistered, Registered
  <1> QED
    BY <1>1, <1>3, QuietNotices

\* The loop of lt_removeAllLoggers notifies a node that was registered till then.
LEMMA VisitNotices == ASSUME IInv, NoticeInv, VisitNode PROVE NoticeInv'
  <1>1. PICK n : n = Head(todo)
    OBVIOUS
  <1>2. /\ todo # <<>> /\ todo' = Tail(todo)
        /\ UNCHANGED <<loggers, job, attached>>
        /\ Wanted(n) => loggerQueue' = Enqueue(n.queue, [kind |-> job.kind, node |-> n, arg |-> job.arg])
        /\ ~Wanted(n) => UNCHANGED loggerQueue
    BY <1>1 DEF VisitNode, registry, effects
  <1>3. n \in Nodes /\ n.queue \in QueueIds /\ job \in Jobs /\ job.kind # "none"
    <2>1. n \in Nodes
      BY <1>1, <1>2, TailFacts DEF IInv, TypeOK
    <2> QED
      BY <1>2, <2>1 DEF IInv, TypeOK, JobDiscipline, Nodes
  <1>4. ToSet(todo') = ToSet(todo) \ {n} /\ n \in ToSet(todo)
    <2>1. /\ 1 \in DOMAIN todo /\ n = todo[1]
          /\ \A i \in DOMAIN todo' : i + 1 \in DOMAIN todo /\ i + 1 # 1 /\ todo'[i] = todo[i + 1]
      BY <1>1, <1>2, TailFacts DEF IInv, TypeOK
    <2>2. \A i \in DOMAIN todo : i # 1 => i - 1 \in DOMAIN todo' /\ i - 1 + 1 = i
      <3>1. /\ DOMAIN todo = 1 .. Len(todo) /\ Len(todo) \in Nat
            /\ DOMAIN todo' = 1 .. (Len(todo) - 1)
        BY <1>2, HeadTailProperties, LenProperties DEF IInv, TypeOK
      <3> QED
        BY <3>1
    <2>3. \A i \in DOMAIN todo : i # 1 => todo[i] # n
      BY <2>1 DEF IInv, TodoFresh
    <2>4. ToSet(todo') \subseteq ToSet(todo) \ {n}
      BY <2>1, <2>3 DEF ToSet
    <2>5. ASSUME NEW i \in DOMAIN todo, todo[i] # n PROVE todo[i] \in ToSet(todo')
      <3>1. i # 1
        BY <2>1, <2>5
      <3>2. i - 1 \in DOMAIN todo' /\ todo'[i - 1] = todo[i]
        BY <2>1, <2>2, <3>1
      <3> QED
        BY <3>2 DEF ToSet
    <2> QED
      BY <2>1, <2>4, <2>5 DEF ToSet
  <1>5. RemovalVisitsRegistered'
    BY <1>2, <1>4 DEF NoticeInv, RemovalVisitsRegistered
  <1>6. CASE job.kind = "willRemove"
    <2>1. Wanted(n)
      BY <1>6 DEF Wanted
    <2>2. job.arg = None
      BY <1>3, <1>6 DEF Jobs
    <2>3. loggerQueue' = Notify("willRemove", n)
      BY <1>2, <1>6, <2>1, <2>2 DEF Notify
    <2>4. Registered(n) /\ ~Registered(n)'
      BY <1>2, <1>4, <1>6 DEF Registered, NoticeInv, RemovalVisitsRegistered
    <2>5. \A m \in Nodes : m # n => (Registered(m)' <=> Registered(m))
      BY <1>2, <1>4, <1>6 DEF Registered
    <2> QED
      BY <1>2, <1>3, <1>5, <1>6, <2>3, <2>4, <2>5, NoMessagePending, NoticeEnqueued
  <1>7. CASE job.kind # "willRemove"
    <2>1. \A m \in Nodes : Registered(m)' <=> Registered(m)
      BY <1>2, <1>7 DEF Registered
    <2>2. CASE ~Wanted(n)
      BY <1>2, <1>5, <2>1, <2>2, QuietNotices
    <2>3. CASE Wanted(n)
      <3> DEFINE c == [kind |-> job.kind, node |-> n, arg |-> job.arg]
      <3>1. c \in Callbacks /\ c.kind \notin {"didAdd", "willRemove"}
        BY <1>3, <1>7 DEF Jobs, Callbacks
      <3>2. loggerQueue' = Enqueue(n.queue, c)
        BY <1>2, <2>3
      <3> HIDE DEF c
      <3> QED
        BY <1>2, <1>3, <1>5, <2>1, <3>1, <3>2, OtherEnqueued
    <2> QED
      BY <2>2, <2>3
  <1> QED
    BY <1>6, <1>7

\* lt_removeAllLoggers empties the array when every node was told.
LEMMA FinishNotices == ASSUME IInv, NoticeInv, FinishJob PROVE NoticeInv'
  <1>1. /\ job' = NoJob /\ todo = <<>> /\ loggers' = IF job.kind = "willRemove" THEN <<>> ELSE loggers
        /\ UNCHANGED <<loggerQueue, attached>>
    BY DEF FinishJob, effects
  <1>2. \A n \in Nodes : Registered(n)' <=> Registered(n)
    BY <1>1 DEF Registered, NoJob, ToSet
  <1>3. RemovalVisitsRegistered'
    BY <1>1 DEF RemovalVisitsRegistered, NoJob
  <1> QED
    BY <1>1, <1>2, <1>3, QuietNotices

LEMMA LoggingQueueNotices == ASSUME IInv, NoticeInv, RunLoggingQueue PROVE NoticeInv'
  <1>1. ASSUME UNCHANGED <<loggers, job, todo, loggerQueue, attached>>
        PROVE  NoticeInv'
    BY <1>1, QuietNotices DEF NoticeInv, RemovalVisitsRegistered, Registered
  <1>2. CASE lt_allLoggers \/ ClientBlockEnds
    BY <1>1, <1>2 DEF lt_allLoggers, ClientBlockEnds, RunsAtOnce, registry, effects
  <1>3. CASE lt_log \/ lt_removeAllLoggers \/ lt_flush \/ GetFormatter \/ ClientBlock
    BY <1>3, StartNotices
    DEF lt_log, lt_removeAllLoggers, lt_flush, GetFormatter, ClientBlock, NoJob
  <1> QED
    BY <1>2, <1>3, AddNotices, RemoveNotices, ForwardNotices, VisitNotices, FinishNotices
    DEF RunLoggingQueue

LEMMA LoggerQueueNotices ==
    ASSUME IInv, NoticeInv, NEW q \in QueueIds, RunLoggerQueue(q) PROVE NoticeInv'
  <1>1. CASE logMessage(q) \/ flush(q) \/ ReadFormatter(q) \/ WriteFormatter(q)
    BY <1>1, OtherTaken
    DEF logMessage, flush, ReadFormatter, WriteFormatter, registry, engine, effects
  <1>2. CASE didAddLogger(q)
    BY <1>2, NoticeRuns DEF didAddLogger, registry, engine
  <1>3. CASE willRemoveLogger(q)
    BY <1>3, NoticeRuns DEF willRemoveLogger, registry, engine
  <1> QED
    BY <1>1, <1>2, <1>3 DEF RunLoggerQueue

\* NoticeInv holds in every reachable state, given the invariant of DDLogProofs.
THEOREM NoticeInvariance == Spec => []NoticeInv
  <1>1. ASSUME IInv, NoticeInv, [Next]_vars PROVE NoticeInv'
    <2>1. CASE UNCHANGED vars \/ Stopped
      BY <1>1, <2>1, QuietNotices
      DEF vars, Stopped, registry, engine, effects, NoticeInv, RemovalVisitsRegistered, Registered
    <2> QED
      BY <1>1, <2>1, CallNotices, LoggingQueueNotices, LoggerQueueNotices DEF Next
  <1> QED
    BY <1>1, InitNotices, Invariance, PTL DEF Spec

\* A logger that is about to be given a message has been told that it was added, and of no
\* removal since: neither is its first message early nor its last one late.
THEOREM NotifiedFirst == Spec => []NotifiedBeforeLogging
  <1>1. IInv /\ ServiceInv /\ NoticeInv => NotifiedBeforeLogging
    <2> SUFFICES ASSUME IInv, ServiceInv, NoticeInv, NEW q \in QueueIds, loggerQueue[q] # <<>>,
                        Head(loggerQueue[q]).kind = "logMessage"
                 PROVE  attached[Head(loggerQueue[q]).node.logger] > 0
      BY DEF NotifiedBeforeLogging
    <2> DEFINE c == Head(loggerQueue[q])
               n == c.node
    <2>1. /\ loggerQueue[q] \in Seq(Callbacks) /\ c \in Callbacks
          /\ 1 \in DOMAIN loggerQueue[q] /\ c = loggerQueue[q][1]
      BY TailFacts DEF IInv, TypeOK
    <2>2. n \in Nodes /\ n.logger \in Loggers
      BY <2>1 DEF Callbacks, Nodes
    <2>3. n \in outstanding /\ n.queue = q /\ job.kind = "logMessage"
      BY <2>1 DEF IInv, WaitedInGroup, WaitedKinds
    <2>4. Registered(n)
      BY <2>3 DEF ServiceInv, JobNodesRegistered, Registered
    <2>5. \A i \in DOMAIN loggerQueue[q] : ~IsNotice(loggerQueue[q][i], n)
      <3>1. \A i \in DOMAIN loggerQueue[q] : i # 1 => 1 < i
        BY <2>1, LenProperties
      <3> QED
        BY <2>1, <3>1 DEF NoticeInv, NoticesPlaced, IsNotice
    <2>6. n \in ToldNodes(n.logger)
      BY <2>2, <2>3, <2>4, <2>5 DEF ToldNodes, Told
    <2>7. IsFiniteSet(ToldNodes(n.logger)) /\ attached[n.logger] = Cardinality(ToldNodes(n.logger))
      BY <2>2 DEF NoticeInv, AttachedCounts
    <2>8. Cardinality(ToldNodes(n.logger)) \in Nat /\ Cardinality(ToldNodes(n.logger)) # 0
      BY <2>6, <2>7, FS_CardinalityType, FS_EmptySet
    <2> QED
      BY <2>7, <2>8
  <1> QED
    BY <1>1, Invariance, ServiceInvariance, NoticeInvariance, PTL

-----------------------------------------------------------------------------
(* The refinement of OrderedBroadcast: which setter decides the formatter.   *)

\* The last setFormatter in a queue is at place i.
IsLastSetter(s, i) ==
    /\ i \in DOMAIN s /\ s[i].kind = "setFormatter"
    /\ \A j \in DOMAIN s : j > i => s[j].kind # "setFormatter"

\* Which setter decides, if there is one: there is a last one, and it is unique.
LEMMA InForceFacts ==
    ASSUME NEW s \in Seq(Callbacks), NEW f
    PROVE  /\ \A i : IsLastSetter(s, i) => InForce(s, f) = s[i].arg
           /\ (\A i \in DOMAIN s : s[i].kind # "setFormatter") => InForce(s, f) = f
           /\ \/ \A i \in DOMAIN s : s[i].kind # "setFormatter"
              \/ \E i : IsLastSetter(s, i)
  <1> DEFINE D == {i \in DOMAIN s : s[i].kind = "setFormatter"}
  <1>1. PICK n \in Nat : n = Len(s) /\ DOMAIN s = 1 .. n
    BY LenProperties
  <1>2. InForce(s, f) = IF D = {} THEN f ELSE s[Max(D)].arg
    BY DEF InForce
  <1>3. ASSUME NEW i, IsLastSetter(s, i) PROVE InForce(s, f) = s[i].arg
    <2>1. i \in D /\ \A j \in D : i >= j
      BY <1>1, <1>3 DEF IsLastSetter
    <2>2. \A x \in D : (\A j \in D : x >= j) => x = i
      BY <1>1, <2>1
    <2>3. Max(D) = i
      BY <2>1, <2>2 DEF Max
    <2> QED
      BY <1>2, <2>1, <2>3
  <1>4. ASSUME D # {} PROVE \E i : IsLastSetter(s, i)
    <2> DEFINE T == {n - i : i \in D}
    <2>1. T \subseteq Nat /\ T # {}
      BY <1>1, <1>4
    <2>2. PICK x \in T : \A y \in T : x <= y
      BY <2>1, LeastNat
    <2>3. PICK i \in D : x = n - i
      BY <2>2
    <2>4. \A j \in D : n - i <= n - j
      BY <2>2, <2>3
    <2>5. \A j \in D : ~(j > i)
      BY <1>1, <2>4
    <2>6. IsLastSetter(s, i)
      BY <2>5 DEF IsLastSetter
    <2> QED
      BY <2>6
  <1> QED
    BY <1>2, <1>3, <1>4

\* One more callback decides if it is a setter.
LEMMA InForceAppend ==
    ASSUME NEW s \in Seq(Callbacks), NEW c \in Callbacks, NEW f
    PROVE  InForce(Append(s, c), f) = IF c.kind = "setFormatter" THEN c.arg ELSE InForce(s, f)
  <1>1. PICK t : t = Append(s, c)
    OBVIOUS
  <1>2. PICK n \in Nat : n = Len(s) /\ DOMAIN s = 1 .. n
    BY LenProperties
  <1>3. /\ t \in Seq(Callbacks) /\ DOMAIN t = 1 .. n + 1 /\ t[n + 1] = c
        /\ \A i \in DOMAIN s : t[i] = s[i]
    BY <1>1, <1>2, AppendProperties, LenProperties
  <1>4. CASE c.kind = "setFormatter"
    <2>1. IsLastSetter(t, n + 1)
      BY <1>2, <1>3, <1>4 DEF IsLastSetter
    <2>2. InForce(t, f) = t[n + 1].arg
      BY <1>3, <2>1, InForceFacts
    <2> QED
      BY <1>1, <1>3, <1>4, <2>2
  <1>5. CASE c.kind # "setFormatter"
    <2>1. ASSUME NEW i, IsLastSetter(s, i) PROVE InForce(t, f) = InForce(s, f)
      <3>1. i \in DOMAIN s /\ i \in DOMAIN t /\ t[i] = s[i] /\ s[i].kind = "setFormatter"
        BY <1>2, <1>3, <2>1 DEF IsLastSetter
      <3>2. ASSUME NEW j \in DOMAIN t, j > i PROVE t[j].kind # "setFormatter"
        <4>1. j \in DOMAIN s \/ j = n + 1
          BY <1>2, <1>3
        <4> QED
          BY <1>3, <1>5, <2>1, <3>2, <4>1 DEF IsLastSetter
      <3>3. IsLastSetter(t, i)
        BY <3>1, <3>2 DEF IsLastSetter
      <3> QED
        BY <1>3, <2>1, <3>1, <3>3, InForceFacts
    <2>2. ASSUME \A i \in DOMAIN s : s[i].kind # "setFormatter" PROVE InForce(t, f) = InForce(s, f)
      <3>1. \A j \in DOMAIN t : j \in DOMAIN s \/ j = n + 1
        BY <1>2, <1>3
      <3>2. \A j \in DOMAIN t : t[j].kind # "setFormatter"
        BY <1>3, <1>5, <2>2, <3>1
      <3> QED
        BY <1>3, <2>2, <3>2, InForceFacts
    <2> QED
      BY <1>1, <1>5, <2>1, <2>2, InForceFacts
  <1> QED
    BY <1>4, <1>5

\* A setter that has run is in force, if no other is behind it.
LEMMA InForceTail ==
    ASSUME NEW s \in Seq(Callbacks), s # <<>>, NEW f, NEW g,
           g = IF Head(s).kind = "setFormatter" THEN Head(s).arg ELSE f
    PROVE  InForce(Tail(s), g) = InForce(s, f)
  <1>1. PICK t : t = Tail(s)
    OBVIOUS
  <1>2. PICK n \in Nat : n = Len(s) /\ DOMAIN s = 1 .. n
    BY LenProperties
  <1>3. /\ t \in Seq(Callbacks) /\ DOMAIN t = 1 .. n - 1 /\ n # 0
        /\ \A i \in DOMAIN t : t[i] = s[i + 1]
        /\ Head(s) = s[1]
    BY <1>1, <1>2, HeadTailProperties, LenProperties, EmptySeq, TailFacts
  <1>4. ASSUME NEW i, IsLastSetter(t, i) PROVE InForce(t, g) = InForce(s, f)
    <2>1. i \in DOMAIN t /\ i + 1 \in DOMAIN s /\ s[i + 1] = t[i] /\ t[i].kind = "setFormatter"
      BY <1>2, <1>3, <1>4 DEF IsLastSetter
    <2>2. ASSUME NEW j \in DOMAIN s, j > i + 1 PROVE s[j].kind # "setFormatter"
      <3>1. j - 1 \in DOMAIN t /\ j - 1 > i /\ j - 1 + 1 = j
        BY <1>2, <1>3, <2>1, <2>2
      <3>2. t[j - 1] = s[j]
        BY <1>3, <3>1
      <3> QED
        BY <1>4, <3>1, <3>2 DEF IsLastSetter
    <2>3. IsLastSetter(s, i + 1)
      BY <2>1, <2>2 DEF IsLastSetter
    <2> QED
      BY <1>3, <1>4, <2>1, <2>3, InForceFacts
  <1>5. ASSUME \A i \in DOMAIN t : t[i].kind # "setFormatter" PROVE InForce(t, g) = InForce(s, f)
    <2>0. ASSUME NEW j \in DOMAIN s, j # 1 PROVE s[j].kind # "setFormatter"
      <3>1. j - 1 \in DOMAIN t /\ j - 1 + 1 = j
        BY <1>2, <1>3, <2>0
      <3>2. t[j - 1] = s[j]
        BY <1>3, <3>1
      <3> QED
        BY <1>5, <3>1, <3>2
    <2>1. CASE s[1].kind = "setFormatter"
      <3>1. IsLastSetter(s, 1)
        BY <1>2, <1>3, <2>0, <2>1 DEF IsLastSetter
      <3>2. InForce(s, f) = s[1].arg
        BY <3>1, InForceFacts
      <3>3. InForce(t, g) = g
        BY <1>3, <1>5, InForceFacts
      <3> QED
        BY <1>3, <2>1, <3>2, <3>3
    <2>2. CASE s[1].kind # "setFormatter"
      <3>1. \A j \in DOMAIN s : s[j].kind # "setFormatter"
        BY <2>0, <2>2
      <3> QED
        BY <1>3, <1>5, <2>2, <3>1, InForceFacts
    <2> QED
      BY <2>1, <2>2
  <1> QED
    BY <1>1, <1>3, <1>4, <1>5, InForceFacts

-----------------------------------------------------------------------------
(* The formatter that the clients see.                                       *)

\* A callback that is enqueued changes it only if it is a setter.
LEMMA FormatterEnqueued ==
    ASSUME TypeOK, NEW q0 \in QueueIds, NEW c \in Callbacks, loggerQueue' = Enqueue(q0, c),
           UNCHANGED formatter
    PROVE  \A l \in OwnQueue :
              AbstractFormatter'[l] = IF q0 = OwnQueueOf(l) /\ c.kind = "setFormatter"
                                      THEN c.arg ELSE AbstractFormatter[l]
  <1> SUFFICES ASSUME NEW l \in OwnQueue
               PROVE  AbstractFormatter'[l] = IF q0 = OwnQueueOf(l) /\ c.kind = "setFormatter"
                                              THEN c.arg ELSE AbstractFormatter[l]
    OBVIOUS
  <1>1. PICK q \in QueueIds : q = OwnQueueOf(l)
    <2>1. OwnQueueOf(l) \in QueueIds
      BY DDLogAssumption DEF OwnQueueOf, QueueIds
    <2> QED
      BY <2>1
  <1>2. /\ loggerQueue[q] \in Seq(Callbacks)
        /\ loggerQueue'[q] = IF q = q0 THEN Append(loggerQueue[q], c) ELSE loggerQueue[q]
    BY QueueFacts
  <1>3. /\ AbstractFormatter[l] = InForce(loggerQueue[q], formatter[l])
        /\ AbstractFormatter'[l] = InForce(loggerQueue'[q], formatter[l])
    BY <1>1 DEF AbstractFormatter
  <1> QED
    BY <1>1, <1>2, <1>3, InForceAppend

\* A callback other than a setter that is enqueued does not change it.
LEMMA FormatterKept ==
    ASSUME TypeOK, NEW q0 \in QueueIds, NEW c \in Callbacks, loggerQueue' = Enqueue(q0, c),
           c.kind # "setFormatter", UNCHANGED formatter
    PROVE  AbstractFormatter' = AbstractFormatter
  <1>1. \A l \in OwnQueue : AbstractFormatter'[l] = AbstractFormatter[l]
    BY FormatterEnqueued
  <1> QED
    BY <1>1 DEF AbstractFormatter

\* No callback that runs changes it: a setter only makes it the formatter of the logger.
LEMMA FormatterTaken ==
    ASSUME TypeOK, NEW q0 \in QueueIds, NEW kind, Pops(q0, kind),
           IF kind = "setFormatter"
           THEN /\ q0 = OwnQueueOf(Head(loggerQueue[q0]).node.logger)
                /\ formatter' = [formatter EXCEPT ![Head(loggerQueue[q0]).node.logger]
                                     = Head(loggerQueue[q0]).arg]
           ELSE UNCHANGED formatter
    PROVE  AbstractFormatter' = AbstractFormatter
  <1>1. ASSUME NEW l \in OwnQueue PROVE AbstractFormatter'[l] = AbstractFormatter[l]
    <2>1. PICK q \in QueueIds : q = OwnQueueOf(l)
      <3>1. OwnQueueOf(l) \in QueueIds
        BY DDLogAssumption DEF OwnQueueOf, QueueIds
      <3> QED
        BY <3>1
    <2>2. PICK c : c = Head(loggerQueue[q0])
      OBVIOUS
    <2>3. /\ loggerQueue[q] \in Seq(Callbacks)
          /\ loggerQueue'[q] = IF q = q0 THEN Tail(loggerQueue[q]) ELSE loggerQueue[q]
          /\ loggerQueue[q0] # <<>> /\ c.kind = kind
      BY <2>2, TakenFacts
    <2>4. formatter' = IF kind = "setFormatter" THEN [formatter EXCEPT ![c.node.logger] = c.arg]
                       ELSE formatter
      BY <2>2
    <2>5. kind = "setFormatter" => q0 = OwnQueueOf(c.node.logger)
      BY <2>2
    <2>6. formatter \in [OwnQueue -> Formatters \cup {NoFormatter}]
      BY DEF TypeOK
    <2>7. /\ AbstractFormatter[l] = InForce(loggerQueue[q], formatter[l])
          /\ AbstractFormatter'[l] = InForce(loggerQueue'[q], formatter'[l])
      BY <2>1 DEF AbstractFormatter
    <2>8. CASE q = q0
      <3>1. kind = "setFormatter" => c.node.logger = l
        BY <2>1, <2>5, <2>8 DEF OwnQueueOf
      <3>2. formatter'[l] = IF c.kind = "setFormatter" THEN c.arg ELSE formatter[l]
        BY <2>3, <2>4, <2>6, <3>1
      <3>3. c = Head(loggerQueue[q]) /\ loggerQueue[q] # <<>> /\ loggerQueue'[q] = Tail(loggerQueue[q])
        BY <2>2, <2>3, <2>8
      <3> QED
        BY <2>3, <2>7, <3>2, <3>3, InForceTail
    <2>9. CASE q # q0
      <3>1. kind = "setFormatter" => c.node.logger # l
        BY <2>1, <2>5, <2>9
      <3>2. formatter'[l] = formatter[l]
        BY <2>4, <2>6, <3>1
      <3> QED
        BY <2>3, <2>7, <2>9, <3>2
    <2> QED
      BY <2>8, <2>9
  <1> QED
    BY <1>1 DEF AbstractFormatter

-----------------------------------------------------------------------------
(* The parts of BroadcastInv, one by one.                                    *)

\* Nothing is handed out, and nobody has set or asked anything, when the program starts.
LEMMA InitBroadcast == Init => BroadcastInv
  <1> SUFFICES ASSUME Init PROVE BroadcastInv
    OBVIOUS
  <1> USE DEF Init
  <1>1. JobOfBlock /\ GetterAsks
    BY DEF JobOfBlock, GetterAsks, NoBlock, NoJob
  <1>2. MessagesNumbered /\ HandedOut
    BY DEF MessagesNumbered, HandedOut, NoJob
  <1>3. QueuesOwned
    BY DDLogAssumption DEF QueuesOwned, OnOwnQueue, ToSet
  <1>4. SettersFirst
    BY DEF SettersFirst
  <1> QED
    BY <1>1, <1>2, <1>3, <1>4 DEF BroadcastInv

\* What the API calls do to the state, one step further down.
LEMMA CallFrame ==
    ASSUME CallApi
    PROVE  /\ UNCHANGED <<loggers, detached, running, outstanding, loggerQueue, returned, alive, effects, result>>
           /\ \/ /\ UNCHANGED <<job, todo>> /\ issued' \in {issued, issued + 1}
                 /\ \E b : loggingQueue' = Append(loggingQueue, b)
              \/ /\ job = NoJob /\ running.op = "client"
                 /\ \E f \in Flags : job' = [kind |-> "logMessage",
                       arg |-> [id |-> issued + 1, flag |-> f, by |-> OnLoggingQueue, sync |-> TRUE]]
                 /\ todo' = loggers /\ issued' = issued + 1
                 /\ UNCHANGED loggingQueue
  <1>1. ASSUME NEW f \in Flags, LogDirectly(f)
        PROVE  /\ UNCHANGED <<loggers, detached, running, outstanding, loggerQueue, returned, alive, effects, result>>
               /\ job = NoJob /\ running.op = "client"
               /\ job' = [kind |-> "logMessage",
                       arg |-> [id |-> issued + 1, flag |-> f, by |-> OnLoggingQueue, sync |-> TRUE]]
               /\ todo' = loggers /\ issued' = issued + 1
               /\ UNCHANGED loggingQueue
    BY <1>1 DEF LogDirectly, MayCall, registry
  <1>2. ASSUME NEW c, NEW op, NEW arg, DispatchAsync(c, op, arg) \/ DispatchSync(c, op, arg)
        PROVE  /\ UNCHANGED <<loggers, detached, running, outstanding, loggerQueue, returned, alive, effects, result>>
               /\ UNCHANGED <<job, todo>> /\ issued' \in {issued, issued + 1}
               /\ \E b : loggingQueue' = Append(loggingQueue, b)
    BY <1>2 DEF DispatchAsync, DispatchSync, registry
  <1>3. ASSUME NEW c, NEW f, NEW sync, Log(c, f, sync)
        PROVE  /\ UNCHANGED <<loggers, detached, running, outstanding, loggerQueue, returned, alive, effects, result>>
               /\ UNCHANGED <<job, todo>> /\ issued' \in {issued, issued + 1}
               /\ \E b : loggingQueue' = Append(loggingQueue, b)
    BY <1>3 DEF Log, registry
  <1> QED
    BY <1>1, <1>2, <1>3
    DEF CallApi, AddLogger, RemoveLogger, RemoveAllLoggers, AllLoggers, FlushLog,
        ApplicationWillTerminate, SetLogFormatter, LogFormatter, DispatchClientBlock

\* A block keeps the loop it started with until the loop is over.
LEMMA JobOfBlockStep == ASSUME IInv, JobOfBlock, [Next]_vars PROVE JobOfBlock'
  <1>1. ASSUME UNCHANGED <<running, job>> PROVE JobOfBlock'
    BY <1>1 DEF JobOfBlock
  <1>2. CASE CallApi
    <2>1. CASE UNCHANGED <<job, todo>>
      BY <1>1, <1>2, <2>1, CallFrame
    <2>2. CASE running.op = "client" /\ UNCHANGED running /\ job'.kind = "logMessage"
      BY <2>2 DEF JobOfBlock
    <2> QED
      BY <1>2, <2>1, <2>2, CallFrame
  <1>3. CASE lt_addLogger \/ lt_removeLogger \/ lt_allLoggers \/ ForwardFormatter
    BY <1>1, <1>3 DEF lt_addLogger, lt_removeLogger, lt_allLoggers, ForwardFormatter, RunsAtOnce
  <1>4. CASE lt_log \/ lt_removeAllLoggers \/ lt_flush \/ GetFormatter \/ ClientBlock
    BY <1>4 DEF lt_log, lt_removeAllLoggers, lt_flush, GetFormatter, ClientBlock, Starts, IsNext,
                JobOfBlock, NoJob
  <1>5. CASE VisitNode
    BY <1>1, <1>5 DEF VisitNode
  <1>6. CASE FinishJob
    BY <1>6 DEF FinishJob, JobOfBlock, NoJob, NoBlock
  <1>7. CASE ClientBlockEnds
    BY <1>7 DEF ClientBlockEnds, JobOfBlock, NoJob, NoBlock
  <1>8. ASSUME NEW q \in QueueIds, RunLoggerQueue(q) PROVE JobOfBlock'
    BY <1>1, <1>8
    DEF RunLoggerQueue, logMessage, flush, ReadFormatter, WriteFormatter, didAddLogger,
        willRemoveLogger, engine
  <1>9. CASE UNCHANGED vars
    BY <1>1, <1>9 DEF vars, engine
  <1> QED
    BY <1>2, <1>3, <1>4, <1>5, <1>6, <1>7, <1>8, <1>9 DEF Next, RunLoggingQueue, Stopped

\* What a callback that logs does: it hands the message of the job to a logger.
LEMMA LogMessageFacts ==
    ASSUME IInv, NEW q \in QueueIds, logMessage(q)
    PROVE  \E n \in Nodes : LET l == n.logger IN
              /\ n \in outstanding /\ n.queue = q /\ l \in Loggers
              /\ job.kind = "logMessage" /\ job.arg \in Messages
              /\ outstanding' = outstanding \ {n}
              /\ received' = [received EXCEPT ![l] = Append(@,
                    [msg |-> job.arg,
                     fmt |-> IF l \in OwnQueue THEN formatter[l] ELSE NoFormatter])]
              /\ loggerQueue[q] # <<>> /\ Head(loggerQueue[q]).kind = "logMessage"
              /\ UNCHANGED <<registry, loggingQueue, running, job, todo, callers,
                             formatter, flushed, attached, result>>
  <1>1. PICK c : c = Head(loggerQueue[q])
    OBVIOUS
  <1>2. TypeOK /\ Pops(q, "logMessage")
    BY DEF IInv, logMessage
  <1>3. /\ loggerQueue[q] \in Seq(Callbacks) /\ loggerQueue[q] # <<>>
        /\ c \in Callbacks /\ c.kind = "logMessage"
    BY <1>1, <1>2, TakenFacts
  <1>4. 1 \in DOMAIN loggerQueue[q] /\ c = loggerQueue[q][1]
    BY <1>1, <1>3, TailFacts
  <1>5. c.node \in outstanding /\ c.node.queue = q /\ job.kind = "logMessage" /\ c.arg = job.arg
    BY <1>3, <1>4 DEF IInv, WaitedInGroup, WaitedKinds
  <1>6. c.node \in Nodes /\ c.node.logger \in Loggers /\ job.arg \in Messages
    BY <1>3, <1>5 DEF Callbacks, Nodes
  <1>7. /\ outstanding' = outstanding \ {c.node}
        /\ received' = [received EXCEPT ![c.node.logger] = Append(@,
              [msg |-> c.arg,
               fmt |-> IF c.node.logger \in OwnQueue THEN formatter[c.node.logger] ELSE NoFormatter])]
        /\ UNCHANGED <<registry, loggingQueue, running, job, todo, callers,
                       formatter, flushed, attached, result>>
    BY <1>1 DEF logMessage, Leaves
  <1> QED
    BY <1>1, <1>3, <1>5, <1>6, <1>7

\* Only a log statement takes a number, so nobody has received one that is still to come.
LEMMA MessagesNumberedStep ==
    ASSUME IInv, MessagesNumbered, [Next]_vars PROVE MessagesNumbered'
  <1>0. /\ issued \in Nat /\ job \in Jobs
        /\ \A l \in Loggers : \A k \in DOMAIN received[l] : received[l][k].msg.id \in Nat
    <2>1. TypeOK
      BY DEF IInv
    <2>2. calls \in 0 .. MaxCalls /\ issued \in 0 .. calls /\ job \in Jobs
      BY <2>1 DEF TypeOK
    <2> QED
      BY <2>1, <2>2, DDLogAssumption, ReceivedFacts
  <1>1. ASSUME UNCHANGED <<issued, received>>, job' = job \/ job'.kind # "logMessage"
        PROVE  MessagesNumbered'
    BY <1>1 DEF MessagesNumbered
  <1>2. CASE CallApi
    <2>1. received' = received /\ issued' \in Nat /\ issued <= issued'
      BY <1>0, <1>2, CallFrame DEF effects
    <2>2. \A l \in Loggers : \A k \in DOMAIN received[l] : received[l][k].msg.id <= issued'
      BY <1>0, <2>1 DEF MessagesNumbered
    <2>3. CASE job' = job
      <3>1. job.kind = "logMessage" => job.arg.id \in Nat
        BY <1>0, MessageFacts
      <3> QED
        BY <1>0, <2>1, <2>2, <2>3, <3>1 DEF MessagesNumbered
    <2>4. CASE issued' = issued + 1 /\ job'.arg.id = issued + 1
      BY <1>0, <2>1, <2>2, <2>4 DEF MessagesNumbered
    <2> QED
      BY <1>2, <2>3, <2>4, CallFrame
  <1>3. CASE lt_addLogger \/ lt_removeLogger \/ lt_allLoggers \/ ForwardFormatter
    BY <1>1, <1>3 DEF lt_addLogger, lt_removeLogger, lt_allLoggers, ForwardFormatter, RunsAtOnce,
                      callers, effects
  <1>4. CASE lt_removeAllLoggers \/ lt_flush \/ GetFormatter \/ ClientBlock
    BY <1>1, <1>4 DEF lt_removeAllLoggers, lt_flush, GetFormatter, ClientBlock, Starts,
                      NoJob, callers, effects
  <1>5. CASE lt_log
    <2>1. /\ loggingQueue # <<>> /\ Head(loggingQueue).op = "log"
          /\ job' = [kind |-> "logMessage", arg |-> Head(loggingQueue).arg]
          /\ UNCHANGED <<issued, received>>
      BY <1>5 DEF lt_log, Starts, IsNext, callers, effects
    <2>2. Head(loggingQueue).arg.id <= issued
      BY <2>1, HeadFacts DEF IInv, QueueOrdered
    <2> QED
      BY <2>1, <2>2 DEF MessagesNumbered
  <1>6. CASE VisitNode \/ ClientBlockEnds
    BY <1>1, <1>6 DEF VisitNode, ClientBlockEnds, callers, effects
  <1>7. CASE FinishJob
    BY <1>1, <1>7 DEF FinishJob, NoJob, effects
  <1>8. ASSUME NEW q \in QueueIds, logMessage(q) PROVE MessagesNumbered'
    <2>1. PICK n \in Nodes : /\ n.logger \in Loggers /\ job.kind = "logMessage" /\ job.arg \in Messages
                             /\ received' = [received EXCEPT ![n.logger] = Append(@,
                                   [msg |-> job.arg,
                                    fmt |-> IF n.logger \in OwnQueue THEN formatter[n.logger] ELSE NoFormatter])]
                             /\ UNCHANGED <<job, callers>>
      BY <1>8, LogMessageFacts
    <2>2. PICK e : e = [msg |-> job.arg,
                        fmt |-> IF n.logger \in OwnQueue THEN formatter[n.logger] ELSE NoFormatter]
      OBVIOUS
    <2>3. e \in [msg : Messages, fmt : Formatters \cup {NoFormatter}] /\ e.msg = job.arg
      BY <2>1, <2>2 DEF IInv, TypeOK
    <2>4. \A l \in Loggers : received'[l] = IF l = n.logger THEN Append(received[l], e) ELSE received[l]
      BY <2>1, <2>2 DEF IInv, TypeOK
    <2>5. ASSUME NEW l \in Loggers, NEW k \in DOMAIN received'[l]
          PROVE  received'[l][k].msg.id <= issued
      <3>1. received[l] \in Seq([msg : Messages, fmt : Formatters \cup {NoFormatter}])
        BY ReceivedFacts DEF IInv
      <3>2. \/ k \in DOMAIN received[l] /\ received'[l][k] = received[l][k]
            \/ received'[l][k] = e
        <4>1. CASE l = n.logger
          <5>1. received'[l] = Append(received[l], e)
            BY <2>4, <4>1
          <5>2. k \in DOMAIN Append(received[l], e)
            BY <2>5, <5>1
          <5> QED
            BY <2>3, <3>1, <5>1, <5>2, AppendFacts
        <4>2. CASE l # n.logger
          BY <2>4, <2>5, <4>2
        <4> QED
          BY <4>1, <4>2
      <3> QED
        BY <2>1, <2>3, <3>2 DEF MessagesNumbered
    <2> QED
      BY <2>1, <2>5 DEF MessagesNumbered, callers
  <1>9. ASSUME NEW q \in QueueIds,
               flush(q) \/ ReadFormatter(q) \/ WriteFormatter(q) \/ didAddLogger(q) \/ willRemoveLogger(q)
        PROVE  MessagesNumbered'
    BY <1>1, <1>9
    DEF flush, ReadFormatter, WriteFormatter, didAddLogger, willRemoveLogger, engine, callers, effects
  <1>10. CASE UNCHANGED vars
    BY <1>1, <1>10 DEF vars, engine, callers, effects
  <1> QED
    BY <1>2, <1>3, <1>4, <1>5, <1>6, <1>7, <1>8, <1>9, <1>10
    DEF Next, RunLoggingQueue, RunLoggerQueue, Stopped

\* What the loops leave is in what they found.
LEMMA TailSet ==
    ASSUME NEW S, NEW s \in Seq(S), s # <<>>
    PROVE  /\ ToSet(s) = {Head(s)} \cup ToSet(Tail(s))
           /\ Head(s) \in ToSet(s)
  <1>1. PICK n \in Nat : n = Len(s) /\ DOMAIN s = 1 .. n
    BY LenProperties
  <1>2. /\ 1 \in DOMAIN s /\ Head(s) = s[1]
        /\ \A i \in DOMAIN Tail(s) : i + 1 \in DOMAIN s /\ Tail(s)[i] = s[i + 1]
    BY TailFacts
  <1>3. DOMAIN Tail(s) = 1 .. n - 1
    BY <1>1, HeadTailProperties, LenProperties
  <1>4. \A i \in DOMAIN s : i = 1 \/ (i - 1 \in DOMAIN Tail(s) /\ i - 1 + 1 = i)
    BY <1>1, <1>3
  <1>5. \A i \in DOMAIN s : i = 1 \/ (i - 1 \in DOMAIN Tail(s) /\ s[i] = Tail(s)[i - 1])
    BY <1>2, <1>4
  <1>6. \A i \in DOMAIN s : s[i] \in {Head(s)} \cup ToSet(Tail(s))
    <2> SUFFICES ASSUME NEW i \in DOMAIN s PROVE s[i] \in {Head(s)} \cup ToSet(Tail(s))
      OBVIOUS
    <2>1. CASE i - 1 \in DOMAIN Tail(s) /\ s[i] = Tail(s)[i - 1]
      BY <2>1 DEF ToSet
    <2> QED
      BY <1>2, <1>5, <2>1
  <1>7. ToSet(Tail(s)) \subseteq ToSet(s) /\ Head(s) \in ToSet(s)
    BY <1>2 DEF ToSet
  <1> QED
    BY <1>6, <1>7 DEF ToSet

\* The API calls add nothing to the loggers' queues.
LEMMA CallOwned == ASSUME IInv, QueuesOwned, CallApi PROVE QueuesOwned'
  <1>0. loggingQueue \in Seq(Blocks)
    BY DEF IInv, TypeOK
  <1>1. /\ UNCHANGED <<loggers, outstanding>> /\ (todo' = todo \/ todo' = loggers)
    BY CallFrame
  <1>2. \A n \in ToSet(loggers') \cup ToSet(todo') \cup outstanding' : OnOwnQueue(n)
    BY <1>1 DEF QueuesOwned
  <1>3. ASSUME NEW b, loggingQueue' = Append(loggingQueue, b), b.op = "add" => OnOwnQueue(b.arg)
        PROVE  QueuesOwned'
    <2>1. ASSUME NEW i \in DOMAIN loggingQueue', loggingQueue'[i].op = "add"
          PROVE  OnOwnQueue(loggingQueue'[i].arg)
      <3>1. loggingQueue \in Seq(UNION {Blocks, {b}}) /\ b \in UNION {Blocks, {b}}
        BY <1>0, SeqMonotonic
      <3>2. (i \in DOMAIN loggingQueue /\ loggingQueue'[i] = loggingQueue[i]) \/ loggingQueue'[i] = b
        BY <1>3, <2>1, <3>1, AppendFacts
      <3> QED
        BY <1>3, <2>1, <3>2 DEF QueuesOwned
    <2> QED
      BY <1>2, <2>1 DEF QueuesOwned
  <1>4. ASSUME NEW c, NEW op, NEW arg, DispatchAsync(c, op, arg) \/ DispatchSync(c, op, arg),
               op = "add" => OnOwnQueue(arg)
        PROVE  QueuesOwned'
    BY <1>3, <1>4 DEF DispatchAsync, DispatchSync
  <1>5. ASSUME NEW c, NEW f, NEW sync, Log(c, f, sync)
        PROVE  QueuesOwned'
    BY <1>3, <1>5 DEF Log
  <1>6. ASSUME NEW f, LogDirectly(f)
        PROVE  QueuesOwned'
    BY <1>2, <1>6 DEF LogDirectly, QueuesOwned
  <1>7. ASSUME NEW c, NEW l, NEW v, AddLogger(c, l, v)
        PROVE  QueuesOwned'
    BY <1>4, <1>7 DEF AddLogger, OnOwnQueue
  <1>8. ASSUME NEW c, NEW arg, NEW op, op # "add", DispatchAsync(c, op, arg) \/ DispatchSync(c, op, arg)
        PROVE  QueuesOwned'
    BY <1>4, <1>8
  <1>9. ASSUME NEW c, NEW l, NEW f,
               RemoveLogger(c, l) \/ RemoveAllLoggers(c) \/ SetLogFormatter(c, l, f) \/ DispatchClientBlock(c)
        PROVE  QueuesOwned'
    BY <1>8, <1>9 DEF RemoveLogger, RemoveAllLoggers, SetLogFormatter, DispatchClientBlock
  <1>10. ASSUME NEW t, NEW l,
                AllLoggers(t) \/ FlushLog(t) \/ ApplicationWillTerminate(t) \/ LogFormatter(t, l)
         PROVE  QueuesOwned'
    BY <1>8, <1>10 DEF AllLoggers, FlushLog, ApplicationWillTerminate, LogFormatter
  <1> QED
    BY <1>5, <1>6, <1>7, <1>9, <1>10 DEF CallApi

\* A callback is put on the queue of the logger it is for, by the visit of a node or by
\* a formatter call that is forwarded to it.
LEMMA QueuesOwnedStep == ASSUME IInv, QueuesOwned, [Next]_vars PROVE QueuesOwned'
  <1>0. /\ loggers \in Seq(Nodes) /\ todo \in Seq(Nodes) /\ outstanding \subseteq Nodes
    BY DEF IInv, TypeOK
  <1>1. ASSUME ToSet(loggers') \cup ToSet(todo') \cup outstanding' \subseteq
                   ToSet(loggers) \cup ToSet(todo) \cup outstanding,
               UNCHANGED loggingQueue \/ (loggingQueue # <<>> /\ loggingQueue' = Tail(loggingQueue))
        PROVE  QueuesOwned'
    <2>1. \A i \in DOMAIN loggingQueue' : loggingQueue'[i].op = "add" => OnOwnQueue(loggingQueue'[i].arg)
      BY <1>1, HeadFacts DEF QueuesOwned
    <2> QED
      BY <1>1, <2>1 DEF QueuesOwned
  <1>2. CASE lt_addLogger
    <2>1. PICK n : n = Head(loggingQueue).arg
      OBVIOUS
    <2>2. /\ loggingQueue # <<>> /\ Head(loggingQueue).op = "add"
          /\ loggingQueue' = Tail(loggingQueue) /\ UNCHANGED <<todo, outstanding>>
          /\ loggers' \in {loggers, Append(loggers, n)}
      BY <1>2, <2>1 DEF lt_addLogger, IsNext, RunsAtOnce
    <2>3. n \in Nodes /\ OnOwnQueue(n)
      BY <2>1, <2>2, HeadFacts DEF Blocks, QueuesOwned
    <2>4. ToSet(loggers') \subseteq ToSet(loggers) \cup {n}
      <3>1. \A i \in DOMAIN Append(loggers, n) :
               \/ i \in DOMAIN loggers /\ Append(loggers, n)[i] = loggers[i]
               \/ Append(loggers, n)[i] = n
        BY <1>0, <2>3, AppendFacts
      <3> QED
        BY <2>2, <3>1 DEF ToSet
    <2>5. \A i \in DOMAIN loggingQueue' : loggingQueue'[i].op = "add" => OnOwnQueue(loggingQueue'[i].arg)
      BY <2>2, HeadFacts DEF QueuesOwned
    <2> QED
      BY <2>2, <2>3, <2>4, <2>5 DEF QueuesOwned
  <1>3. CASE lt_removeLogger
    <2>1. /\ loggingQueue # <<>> /\ loggingQueue' = Tail(loggingQueue) /\ UNCHANGED <<todo, outstanding>>
          /\ \/ UNCHANGED loggers
             \/ \E i \in DOMAIN loggers :
                   loggers' = SubSeq(loggers, 1, i - 1) \o SubSeq(loggers, i + 1, Len(loggers))
      BY <1>3 DEF lt_removeLogger, IsNext, RunsAtOnce
    <2>2. ASSUME NEW i \in DOMAIN loggers,
                 loggers' = SubSeq(loggers, 1, i - 1) \o SubSeq(loggers, i + 1, Len(loggers))
          PROVE  ToSet(loggers') \subseteq ToSet(loggers)
      <3>1. PICK v : v = loggers'
        OBVIOUS
      <3>2. ToSet(v) = ToSet(loggers) \ {loggers[i]}
        BY <2>2, <3>1, LoggersFacts, RemovedSet
      <3> QED
        BY <3>1, <3>2
    <2> QED
      BY <1>1, <2>1, <2>2
  <1>4. CASE lt_allLoggers \/ ForwardFormatter
    BY <1>1, <1>4 DEF lt_allLoggers, ForwardFormatter, IsNext, RunsAtOnce, registry
  <1>5. CASE lt_log \/ lt_removeAllLoggers \/ lt_flush \/ ClientBlock
    <2>1. /\ loggingQueue # <<>> /\ loggingQueue' = Tail(loggingQueue)
          /\ UNCHANGED <<loggers, outstanding>> /\ todo' \in {loggers, <<>>}
      BY <1>5 DEF lt_log, lt_removeAllLoggers, lt_flush, ClientBlock, Starts, IsNext, registry
    <2>2. ToSet(<<>>) = {}
      BY DEF ToSet
    <2> QED
      BY <1>1, <2>1, <2>2
  <1>6. CASE GetFormatter
    <2>1. PICK l : l = Head(loggingQueue).arg
      OBVIOUS
    <2>2. /\ loggingQueue # <<>> /\ loggingQueue' = Tail(loggingQueue)
          /\ UNCHANGED <<loggers, outstanding>>
          /\ todo' = << [logger |-> l, level |-> {}, queue |-> OwnQueueOf(l)] >>
      BY <1>6, <2>1 DEF GetFormatter, Starts, IsNext, registry
    <2>3. \A n \in ToSet(todo') : OnOwnQueue(n)
      BY <2>2 DEF ToSet, OnOwnQueue
    <2>4. \A i \in DOMAIN loggingQueue' : loggingQueue'[i].op = "add" => OnOwnQueue(loggingQueue'[i].arg)
      BY <2>2, HeadFacts DEF QueuesOwned
    <2> QED
      BY <2>2, <2>3, <2>4 DEF QueuesOwned
  <1>7. CASE VisitNode
    <2>1. /\ todo # <<>> /\ todo' = Tail(todo) /\ UNCHANGED <<loggers, loggingQueue>>
          /\ outstanding' \in {outstanding, outstanding \cup {Head(todo)}}
      BY <1>7 DEF VisitNode, registry
    <2> QED
      BY <1>0, <1>1, <2>1, TailSet
  <1>8. CASE FinishJob
    <2>1. UNCHANGED <<todo, outstanding, loggingQueue>> /\ loggers' \in {loggers, <<>>}
      BY <1>8 DEF FinishJob
    <2>2. ToSet(<<>>) = {}
      BY DEF ToSet
    <2> QED
      BY <1>1, <2>1, <2>2
  <1>9. CASE ClientBlockEnds
    BY <1>1, <1>9 DEF ClientBlockEnds, registry
  <1>10. ASSUME NEW q \in QueueIds, RunLoggerQueue(q) PROVE QueuesOwned'
    <2>1. UNCHANGED <<loggers, todo, loggingQueue>> /\ outstanding' \subseteq outstanding
      BY <1>10
      DEF RunLoggerQueue, logMessage, flush, ReadFormatter, WriteFormatter, didAddLogger,
          willRemoveLogger, engine, registry, Leaves
    <2> QED
      BY <1>1, <2>1
  <1>11. CASE UNCHANGED vars
    BY <1>1, <1>11 DEF vars, engine, registry
  <1> QED
    BY CallOwned, <1>2, <1>3, <1>4, <1>5, <1>6, <1>7, <1>8, <1>9, <1>10, <1>11
    DEF Next, RunLoggingQueue, Stopped

\* While a message is handed out, the logging queue is busy, so no setter gets behind the
\* callback that logs.
LEMMA SettersFirstStep == ASSUME IInv, SettersFirst, [Next]_vars PROVE SettersFirst'
  <1>0. TypeOK
    BY DEF IInv
  <1>1. ASSUME UNCHANGED loggerQueue PROVE SettersFirst'
    BY <1>1 DEF SettersFirst
  \* A callback that is not a setter may be enqueued at any time.
  <1>2. ASSUME NEW q0 \in QueueIds, NEW c \in Callbacks, loggerQueue' = Enqueue(q0, c),
               c.kind = "setFormatter" =>
                   /\ c.node.logger \in OwnQueue /\ q0 = OwnQueueOf(c.node.logger)
                   /\ \A k \in DOMAIN loggerQueue[q0] :
                         loggerQueue[q0][k].kind \notin {"logMessage", "getFormatter"}
        PROVE  SettersFirst'
    <2> SUFFICES ASSUME NEW q \in QueueIds, NEW i \in DOMAIN loggerQueue'[q],
                        loggerQueue'[q][i].kind = "setFormatter"
                 PROVE  /\ loggerQueue'[q][i].node.logger \in OwnQueue
                        /\ q = OwnQueueOf(loggerQueue'[q][i].node.logger)
                        /\ \A k \in DOMAIN loggerQueue'[q] :
                              k < i => loggerQueue'[q][k].kind \notin {"logMessage", "getFormatter"}
      BY DEF SettersFirst
    <2>1. \A k \in DOMAIN loggerQueue'[q] :
             \/ k \in DOMAIN loggerQueue[q] /\ loggerQueue'[q][k] = loggerQueue[q][k]
             \/ /\ q = q0 /\ loggerQueue'[q][k] = c
                /\ k = Len(loggerQueue[q]) + 1 /\ k \notin DOMAIN loggerQueue[q]
      BY <1>0, <1>2, EnqueueFacts
    <2>2. Len(loggerQueue[q]) \in Nat /\ DOMAIN loggerQueue[q] = 1 .. Len(loggerQueue[q])
      BY <1>0, LenProperties DEF TypeOK
    <2>3. CASE i \in DOMAIN loggerQueue[q] /\ loggerQueue'[q][i] = loggerQueue[q][i]
      <3>1. \A k \in DOMAIN loggerQueue'[q] : k < i =>
               k \in DOMAIN loggerQueue[q] /\ loggerQueue'[q][k] = loggerQueue[q][k]
        BY <2>1, <2>2, <2>3
      <3> QED
        BY <2>3, <3>1 DEF SettersFirst
    <2>4. CASE q = q0 /\ loggerQueue'[q][i] = c /\ i = Len(loggerQueue[q]) + 1
      <3>1. \A k \in DOMAIN loggerQueue'[q] : k < i =>
               k \in DOMAIN loggerQueue[q] /\ loggerQueue'[q][k] = loggerQueue[q][k]
        BY <2>1, <2>2, <2>4
      <3> QED
        BY <1>2, <2>4, <3>1
    <2> QED
      BY <2>1, <2>3, <2>4
  <1>3. ASSUME NEW q0 \in QueueIds, NEW kind, Pops(q0, kind) PROVE SettersFirst'
    <2> SUFFICES ASSUME NEW q \in QueueIds, NEW i \in DOMAIN loggerQueue'[q],
                        loggerQueue'[q][i].kind = "setFormatter"
                 PROVE  /\ loggerQueue'[q][i].node.logger \in OwnQueue
                        /\ q = OwnQueueOf(loggerQueue'[q][i].node.logger)
                        /\ \A k \in DOMAIN loggerQueue'[q] :
                              k < i => loggerQueue'[q][k].kind \notin {"logMessage", "getFormatter"}
      BY DEF SettersFirst
    <2>1. /\ \A r \in QueueIds : r # q0 => loggerQueue'[r] = loggerQueue[r]
          /\ \A j \in DOMAIN loggerQueue'[q0] :
                /\ j \in Nat /\ j + 1 \in DOMAIN loggerQueue[q0]
                /\ loggerQueue'[q0][j] = loggerQueue[q0][j + 1]
      BY <1>0, <1>3, PopFacts DEF Pops
    <2>2. CASE q # q0
      BY <2>1, <2>2 DEF SettersFirst
    <2>3. CASE q = q0
      <3>1. \A k \in DOMAIN loggerQueue'[q] : k < i => k + 1 < i + 1
        BY <2>1, <2>3
      <3> QED
        BY <2>1, <2>3, <3>1 DEF SettersFirst
    <2> QED
      BY <2>2, <2>3
  <1>4. CASE CallApi
    BY <1>1, <1>4, CallFrame
  <1>5. CASE lt_addLogger \/ lt_removeLogger
    <2>1. /\ loggingQueue # <<>>
          /\ lt_addLogger => Head(loggingQueue).op = "add"
          /\ \/ UNCHANGED loggerQueue
             \/ lt_addLogger /\ loggerQueue' = Notify("didAdd", Head(loggingQueue).arg)
             \/ \E i \in DOMAIN loggers : loggerQueue' = Notify("willRemove", loggers[i])
      BY <1>5 DEF lt_addLogger, lt_removeLogger, IsNext
    <2>2. ASSUME NEW n \in Nodes, NEW kind \in {"didAdd", "willRemove"}, loggerQueue' = Notify(kind, n)
          PROVE  SettersFirst'
      <3>1. n.queue \in QueueIds /\ [kind |-> kind, node |-> n, arg |-> None] \in Callbacks
        BY DEF Nodes, Callbacks
      <3> QED
        BY <1>2, <2>2, <3>1 DEF Notify
    <2>3. \A i \in DOMAIN loggers : loggers[i] \in Nodes
      BY LoggersFacts, SeqElements
    <2>4. lt_addLogger => Head(loggingQueue).arg \in Nodes
      BY <2>1, HeadFacts DEF Blocks
    <2> QED
      BY <1>1, <2>1, <2>2, <2>3, <2>4
  <1>6. CASE ForwardFormatter
    <2>1. PICK l : l = Head(loggingQueue).arg.logger
      OBVIOUS
    <2>2. PICK n : n = [logger |-> l, level |-> {}, queue |-> OwnQueueOf(l)]
      OBVIOUS
    <2>3. PICK c : c = [kind |-> "setFormatter", node |-> n, arg |-> Head(loggingQueue).arg.formatter]
      OBVIOUS
    <2>4. /\ loggingQueue # <<>> /\ Head(loggingQueue).op = "setFormatter" /\ running = NoBlock
          /\ loggerQueue' = Enqueue(OwnQueueOf(l), c)
      BY <1>6, <2>1, <2>2, <2>3 DEF ForwardFormatter, IsNext
    <2>5. l \in OwnQueue /\ Head(loggingQueue).arg.formatter \in Formatters
      BY <2>1, <2>4, HeadFacts DEF Blocks
    <2>6. OwnQueueOf(l) \in QueueIds /\ n \in Nodes
      BY <2>2, <2>5, DDLogAssumption DEF OwnQueueOf, QueueIds, Nodes
    <2>7. c \in Callbacks /\ c.node.logger = l
      BY <2>2, <2>3, <2>5, <2>6 DEF Callbacks
    <2>8. \A q \in QueueIds : \A k \in DOMAIN loggerQueue[q] :
             loggerQueue[q][k].kind \notin {"logMessage", "getFormatter"}
      BY <2>4, IdleFacts DEF IInv, JobDiscipline, WaitedKinds
    <2> QED
      BY <1>2, <2>4, <2>5, <2>6, <2>7, <2>8
  <1>7. CASE VisitNode
    <2>1. PICK n : n = Head(todo)
      OBVIOUS
    <2>2. PICK c : c = [kind |-> job.kind, node |-> n, arg |-> job.arg]
      OBVIOUS
    <2>3. /\ todo # <<>> /\ (UNCHANGED loggerQueue \/ loggerQueue' = Enqueue(n.queue, c))
      BY <1>7, <2>1, <2>2 DEF VisitNode
    <2>4. n \in Nodes /\ n.queue \in QueueIds /\ job \in Jobs /\ job.kind # "none"
      <3>1. n \in Nodes
        BY <1>0, <2>1, <2>3, TailFacts DEF TypeOK
      <3> QED
        BY <1>0, <2>3, <3>1 DEF IInv, TypeOK, JobDiscipline, Nodes
    <2>5. c \in Callbacks /\ c.kind # "setFormatter"
      BY <2>2, <2>4 DEF Jobs, Callbacks
    <2> QED
      BY <1>1, <1>2, <2>3, <2>4, <2>5
  <1>8. CASE lt_allLoggers \/ ClientBlockEnds \/ FinishJob
    BY <1>1, <1>8 DEF lt_allLoggers, ClientBlockEnds, FinishJob
  <1>9. CASE lt_log \/ lt_removeAllLoggers \/ lt_flush \/ GetFormatter \/ ClientBlock
    BY <1>1, <1>9 DEF lt_log, lt_removeAllLoggers, lt_flush, GetFormatter, ClientBlock, Starts
  <1>10. ASSUME NEW q \in QueueIds, RunLoggerQueue(q) PROVE SettersFirst'
    BY <1>3, <1>10
    DEF RunLoggerQueue, logMessage, flush, ReadFormatter, WriteFormatter, didAddLogger, willRemoveLogger
  <1>11. CASE UNCHANGED vars
    BY <1>1, <1>11 DEF vars
  <1> QED
    BY <1>4, <1>5, <1>6, <1>7, <1>8, <1>9, <1>10, <1>11 DEF Next, RunLoggingQueue, Stopped

\* The clients see another formatter only when a setter gets to the logger's queue.
LEMMA FormatterStep ==
    ASSUME IInv, SettersFirst, [Next]_vars
    PROVE  ForwardFormatter \/ AbstractFormatter' = AbstractFormatter
  <1>0. TypeOK
    BY DEF IInv
  <1>1. ASSUME UNCHANGED <<loggerQueue, formatter>> PROVE AbstractFormatter' = AbstractFormatter
    BY <1>1 DEF AbstractFormatter
  <1>2. ASSUME NEW n \in Nodes, NEW kind \in {"didAdd", "willRemove"}, loggerQueue' = Notify(kind, n),
               UNCHANGED formatter
        PROVE  AbstractFormatter' = AbstractFormatter
    <2>1. PICK c : c = [kind |-> kind, node |-> n, arg |-> None]
      OBVIOUS
    <2>2. n.queue \in QueueIds /\ c \in Callbacks /\ c.kind # "setFormatter"
      BY <2>1 DEF Nodes, Callbacks
    <2> QED
      BY <1>0, <1>2, <2>1, <2>2, FormatterKept DEF Notify
  <1>3. CASE CallApi
    BY <1>1, <1>3, CallFrame DEF effects
  <1>4. CASE lt_addLogger \/ lt_removeLogger
    <2>1. /\ loggingQueue # <<>> /\ UNCHANGED formatter
          /\ lt_addLogger => Head(loggingQueue).op = "add"
          /\ \/ UNCHANGED loggerQueue
             \/ lt_addLogger /\ loggerQueue' = Notify("didAdd", Head(loggingQueue).arg)
             \/ \E i \in DOMAIN loggers : loggerQueue' = Notify("willRemove", loggers[i])
      BY <1>4 DEF lt_addLogger, lt_removeLogger, IsNext, effects
    <2>2. \A i \in DOMAIN loggers : loggers[i] \in Nodes
      BY LoggersFacts, SeqElements
    <2>3. lt_addLogger => Head(loggingQueue).arg \in Nodes
      BY <2>1, HeadFacts DEF Blocks
    <2> QED
      BY <1>1, <1>2, <2>1, <2>2, <2>3
  <1>5. CASE VisitNode
    <2>1. PICK n : n = Head(todo)
      OBVIOUS
    <2>2. PICK c : c = [kind |-> job.kind, node |-> n, arg |-> job.arg]
      OBVIOUS
    <2>3. /\ todo # <<>> /\ (UNCHANGED loggerQueue \/ loggerQueue' = Enqueue(n.queue, c))
          /\ UNCHANGED formatter
      BY <1>5, <2>1, <2>2 DEF VisitNode, effects
    <2>4. n \in Nodes /\ n.queue \in QueueIds /\ job \in Jobs /\ job.kind # "none"
      <3>1. n \in Nodes
        BY <1>0, <2>1, <2>3, TailFacts DEF TypeOK
      <3> QED
        BY <1>0, <2>3, <3>1 DEF IInv, TypeOK, JobDiscipline, Nodes
    <2>5. c \in Callbacks /\ c.kind # "setFormatter"
      BY <2>2, <2>4 DEF Jobs, Callbacks
    <2> QED
      BY <1>0, <1>1, <2>3, <2>4, <2>5, FormatterKept
  <1>6. CASE lt_allLoggers \/ ClientBlockEnds \/ FinishJob
    BY <1>1, <1>6 DEF lt_allLoggers, ClientBlockEnds, FinishJob, effects
  <1>7. CASE lt_log \/ lt_removeAllLoggers \/ lt_flush \/ GetFormatter \/ ClientBlock
    BY <1>1, <1>7 DEF lt_log, lt_removeAllLoggers, lt_flush, GetFormatter, ClientBlock, Starts, effects
  <1>8. ASSUME NEW q \in QueueIds,
               \/ logMessage(q) \/ flush(q) \/ ReadFormatter(q) \/ didAddLogger(q) \/ willRemoveLogger(q)
        PROVE  AbstractFormatter' = AbstractFormatter
    <2>1. \E kind : Pops(q, kind) /\ kind # "setFormatter" /\ UNCHANGED formatter
      BY <1>8 DEF logMessage, flush, ReadFormatter, didAddLogger, willRemoveLogger, effects
    <2>2. PICK kind : Pops(q, kind) /\ kind # "setFormatter" /\ UNCHANGED formatter
      BY <2>1
    <2> QED
      BY <1>0, <2>2, FormatterTaken
  <1>9. ASSUME NEW q \in QueueIds, WriteFormatter(q) PROVE AbstractFormatter' = AbstractFormatter
    <2>1. /\ Pops(q, "setFormatter")
          /\ formatter' = [formatter EXCEPT ![Head(loggerQueue[q]).node.logger] = Head(loggerQueue[q]).arg]
      BY <1>9 DEF WriteFormatter
    <2>2. /\ 1 \in DOMAIN loggerQueue[q] /\ Head(loggerQueue[q]) = loggerQueue[q][1]
          /\ loggerQueue[q][1].kind = "setFormatter"
      BY <1>0, <2>1, PopFacts DEF Pops
    <2>3. q = OwnQueueOf(Head(loggerQueue[q]).node.logger)
      BY <2>2 DEF SettersFirst
    <2> QED
      BY <1>0, <2>1, <2>3, FormatterTaken
  <1>10. CASE UNCHANGED vars
    BY <1>1, <1>10 DEF vars, effects
  <1> QED
    BY <1>3, <1>4, <1>5, <1>6, <1>7, <1>8, <1>9, <1>10
    DEF Next, RunLoggingQueue, RunLoggerQueue, Stopped

\* A getter is answered with the formatter that the setters before it leave in force.
LEMMA GetterAsksStep ==
    ASSUME IInv, JobOfBlock, QueuesOwned, SettersFirst, GetterAsks, [Next]_vars
    PROVE  GetterAsks'
  <1>0. TypeOK
    BY DEF IInv
  <1>1. ASSUME running'.op # "getFormatter" PROVE GetterAsks'
    BY <1>1 DEF GetterAsks
  <1>2. ASSUME UNCHANGED <<running, todo, outstanding, result>> PROVE GetterAsks'
    <2>1. CASE ForwardFormatter
      BY <1>1, <1>2, <2>1 DEF ForwardFormatter, IsNext, NoBlock
    <2>2. CASE AbstractFormatter' = AbstractFormatter
      BY <1>2, <2>2 DEF GetterAsks
    <2> QED
      BY <2>1, <2>2, FormatterStep
  <1>3. CASE CallApi
    <2>1. CASE UNCHANGED todo
      BY <1>2, <1>3, <2>1, CallFrame
    <2>2. CASE running.op = "client" /\ UNCHANGED running
      BY <1>1, <2>2
    <2> QED
      BY <1>3, <2>1, <2>2, CallFrame
  <1>4. CASE lt_addLogger \/ lt_removeLogger \/ lt_allLoggers \/ ForwardFormatter
    BY <1>1, <1>4
    DEF lt_addLogger, lt_removeLogger, lt_allLoggers, ForwardFormatter, RunsAtOnce, IsNext, NoBlock
  <1>5. CASE lt_log \/ lt_removeAllLoggers \/ lt_flush \/ ClientBlock
    BY <1>1, <1>5 DEF lt_log, lt_removeAllLoggers, lt_flush, ClientBlock, Starts, IsNext
  <1>6. CASE GetFormatter
    <2>1. PICK l : l = Head(loggingQueue).arg
      OBVIOUS
    <2>2. PICK n : n = [logger |-> l, level |-> {}, queue |-> OwnQueueOf(l)]
      OBVIOUS
    <2>3. /\ running = NoBlock /\ running'.arg = l /\ outstanding' = outstanding /\ todo' = <<n>>
      BY <1>6, <2>1, <2>2 DEF GetFormatter, Starts, IsNext
    <2>4. outstanding' = {}
      BY <2>3 DEF IInv, JobDiscipline
    <2> QED
      BY <2>2, <2>3, <2>4 DEF GetterAsks, ToSet
  <1>7. CASE VisitNode
    <2>1. CASE running.op = "getFormatter"
      <3>1. PICK n : n = Head(todo)
        OBVIOUS
      <3>2. Wanted(n)
        BY <2>1 DEF JobOfBlock, Wanted
      <3>3. /\ todo # <<>> /\ todo' = Tail(todo) /\ outstanding' = outstanding \cup {n}
            /\ UNCHANGED running
        BY <1>7, <2>1, <3>1, <3>2 DEF VisitNode, JobOfBlock
      <3>4. ToSet(todo) = {n} \cup ToSet(todo')
        BY <1>0, <3>1, <3>3, TailSet DEF TypeOK
      <3> QED
        BY <3>3, <3>4 DEF GetterAsks
    <2>2. CASE running.op # "getFormatter"
      BY <1>1, <1>7, <2>2 DEF VisitNode
    <2> QED
      BY <2>1, <2>2
  <1>8. CASE FinishJob
    BY <1>1, <1>8 DEF FinishJob, NoBlock
  <1>9. CASE ClientBlockEnds
    BY <1>1, <1>9 DEF ClientBlockEnds, NoBlock
  <1>10. ASSUME NEW q \in QueueIds, logMessage(q) \/ flush(q) PROVE GetterAsks'
    <2>1. /\ UNCHANGED running
          /\ \E kind \in {"logMessage", "flush"} : Pops(q, kind)
      BY <1>10 DEF logMessage, flush
    <2>2. 1 \in DOMAIN loggerQueue[q] /\ loggerQueue[q][1].kind \in {"logMessage", "flush"}
      BY <1>0, <2>1, PopFacts DEF Pops
    <2>3. job.kind \in {"logMessage", "flush"}
      BY <2>2 DEF IInv, WaitedInGroup, WaitedKinds
    <2> QED
      BY <1>1, <2>1, <2>3 DEF JobOfBlock
  <1>11. ASSUME NEW q \in QueueIds, WriteFormatter(q) \/ didAddLogger(q) \/ willRemoveLogger(q)
         PROVE  GetterAsks'
    BY <1>2, <1>11 DEF WriteFormatter, didAddLogger, willRemoveLogger, engine
  \* The getter reads what is in force: no setter waits behind it.
  <1>12. ASSUME NEW q \in QueueIds, ReadFormatter(q) PROVE GetterAsks'
    <2>1. PICK c : c = Head(loggerQueue[q])
      OBVIOUS
    <2>2. PICK l : l = c.node.logger
      OBVIOUS
    <2>3. /\ Pops(q, "getFormatter") /\ result' = formatter[l]
          /\ outstanding' = outstanding \ {c.node}
          /\ UNCHANGED <<running, todo, formatter>>
      BY <1>12, <2>1, <2>2 DEF ReadFormatter, Leaves, effects
    <2>4. /\ loggerQueue[q] \in Seq(Callbacks) /\ loggerQueue[q] # <<>> /\ c.kind = "getFormatter"
          /\ loggerQueue'[q] = Tail(loggerQueue[q])
      BY <1>0, <2>1, <2>3, TakenFacts
    <2>5. 1 \in DOMAIN loggerQueue[q] /\ c = loggerQueue[q][1]
      BY <2>1, <2>4, TailFacts
    <2>6. c.node \in outstanding /\ c.node.queue = q /\ job.kind = "getFormatter"
      BY <2>4, <2>5 DEF IInv, WaitedInGroup, WaitedKinds
    <2>7. running.op = "getFormatter" /\ l = running.arg
      BY <2>2, <2>6 DEF JobOfBlock, GetterAsks
    <2>8. l \in OwnQueue /\ q = OwnQueueOf(l)
      <3>1. running \in Blocks
        BY <1>0, <2>7 DEF TypeOK, NoBlock
      <3>2. l \in OwnQueue
        BY <2>7, <3>1 DEF Blocks
      <3> QED
        BY <2>2, <2>6, <3>2 DEF QueuesOwned, OnOwnQueue
    <2>9. \A i \in DOMAIN loggerQueue'[q] : loggerQueue'[q][i].kind # "setFormatter"
      <3>1. \A i \in DOMAIN loggerQueue'[q] :
               i + 1 \in DOMAIN loggerQueue[q] /\ 1 < i + 1 /\ loggerQueue'[q][i] = loggerQueue[q][i + 1]
        BY <2>4, TailFacts, HeadTailProperties, LenProperties
      <3> QED
        BY <2>4, <2>5, <3>1 DEF SettersFirst
    <2>10. AbstractFormatter'[l] = InForce(loggerQueue'[q], formatter[l])
      BY <2>3, <2>8 DEF AbstractFormatter
    <2>11. InForce(loggerQueue'[q], formatter[l]) = formatter[l]
      BY <2>4, <2>9, InForceFacts, TailFacts
    <2> QED
      BY <2>3, <2>7, <2>10, <2>11 DEF GetterAsks
  <1>13. CASE UNCHANGED vars
    BY <1>2, <1>13 DEF vars, engine
  <1> QED
    BY <1>3, <1>4, <1>5, <1>6, <1>7, <1>8, <1>9, <1>10, <1>11, <1>12, <1>13
    DEF Next, RunLoggingQueue, RunLoggerQueue, Stopped

\* A sequence has finitely many elements.
LEMMA ToSetFinite == ASSUME NEW S, NEW s \in Seq(S) PROVE IsFiniteSet(ToSet(s))
  <1>1. ToSet(s) = {s[i] : i \in 1 .. Len(s)} /\ Len(s) \in Nat
    BY LenProperties DEF ToSet
  <1>2. IsFiniteSet(1 .. Len(s))
    BY <1>1, FS_Interval
  <1>3. s \in [1 .. Len(s) -> ToSet(s)] /\ \A x \in ToSet(s) : \E i \in 1 .. Len(s) : s[i] = x
    BY <1>1, LenProperties
  <1>4. s \in Surjection(1 .. Len(s), ToSet(s))
    BY <1>3 DEF Surjection
  <1> QED
    BY <1>2, <1>4, FS_Surjection

\* The nodes of a message can be counted.
LEMMA ServedFinite ==
    ASSUME IInv
    PROVE  \A l : IsFiniteSet(Hits(l)) /\ IsFiniteSet(Served(l)) /\ Cardinality(Served(l)) \in Nat
  <1> TAKE l
  <1>1. IsFiniteSet(ToSet(loggers))
    BY LoggersFacts, ToSetFinite
  <1>2. Hits(l) \subseteq ToSet(loggers) /\ Served(l) \subseteq ToSet(loggers)
    BY DEF Hits, Served
  <1> QED
    BY <1>1, <1>2, FS_Subset, FS_CardinalityType

\* A message that no logger has yet is to be handed out to all.
LEMMA FreshHandedOut ==
    ASSUME IInv, job'.kind = "logMessage", todo' = loggers, UNCHANGED <<loggers, received>>,
           outstanding' = {},
           \A l \in Loggers : \A k \in DOMAIN received[l] : received[l][k].msg # job'.arg
    PROVE  HandedOut'
  <1>1. \A l : Served(l)' = {}
    BY DEF Served, Hits
  <1>2. Cardinality({}) = 0
    BY FS_EmptySet
  <1>3. ASSUME NEW l \in Loggers
        PROVE  /\ Cardinality(Served(l)') <= Len(received'[l])
               /\ \A k \in DOMAIN received'[l] :
                     received'[l][k].msg = job'.arg <=> k > Len(received'[l]) - Cardinality(Served(l)')
    <2>1. Cardinality(Served(l)') = 0
      BY <1>1, <1>2
    <2>2. /\ Len(received[l]) \in Nat
          /\ \A k \in DOMAIN received[l] : k \in Nat /\ k <= Len(received[l])
      BY ReceivedFacts, LenProperties DEF IInv
    <2> QED
      BY <2>1, <2>2
  <1>4. \A n \in outstanding' : n \in Hits(n.logger)'
    OBVIOUS
  <1> QED
    BY <1>3, <1>4 DEF HandedOut

\* The parts of HandedOut that change, with the nodes that wait fixed.
LEMMA SameHandedOut ==
    ASSUME HandedOut, UNCHANGED <<loggers, job, received>>,
           outstanding' \cup ToSet(todo') = outstanding \cup ToSet(todo),
           \A n \in outstanding' : n \in outstanding \/ n \in Hits(n.logger),
           AbstractFormatter' = AbstractFormatter
    PROVE  HandedOut'
  <1>1. \A l : Hits(l)' = Hits(l)
    BY DEF Hits
  <1>2. \A l : Served(l)' = Served(l)
    BY <1>1 DEF Served
  <1> QED
    BY <1>1, <1>2 DEF HandedOut

\* A visit moves a node from those to come to those waited for, or serves it not at all
\* when its level leaves the message out.
LEMMA VisitHandedOut ==
    ASSUME IInv, JobNodesRegistered, SettersFirst, HandedOut, VisitNode PROVE HandedOut'
  <1>1. CASE job.kind # "logMessage"
    BY <1>1 DEF VisitNode, HandedOut
  <1>2. CASE job.kind = "logMessage"
    <2>1. PICK n : n = Head(todo)
      OBVIOUS
    <2>2. /\ todo # <<>> /\ todo' = Tail(todo) /\ UNCHANGED <<loggers, job, received>>
          /\ outstanding' = IF job.arg.flag \in n.level THEN outstanding \cup {n} ELSE outstanding
      BY <1>2, <2>1 DEF VisitNode, Wanted, registry, effects
    <2>3. /\ ToSet(todo) = {n} \cup ToSet(todo') /\ n \in ToSet(todo)
      BY <2>1, <2>2, TailSet DEF IInv, TypeOK
    <2>4. n \in ToSet(loggers)
      BY <1>2, <2>3 DEF JobNodesRegistered
    <2>5. AbstractFormatter' = AbstractFormatter
      <3>1. ~ForwardFormatter
        BY <2>2 DEF ForwardFormatter, IsNext, IInv, JobDiscipline
      <3>2. Next
        BY DEF Next, RunLoggingQueue
      <3> QED
        BY <3>1, <3>2, FormatterStep
    <2>6. CASE job.arg.flag \in n.level
      <3>1. n \in Hits(n.logger)
        BY <2>4, <2>6 DEF Hits
      <3> QED
        BY <2>2, <2>3, <2>5, <2>6, <3>1, SameHandedOut
    <2>7. CASE ~(job.arg.flag \in n.level)
      <3>1. \A l : Hits(l)' = Hits(l) /\ n \notin Hits(l)
        BY <2>2, <2>7 DEF Hits
      <3>2. \A l : Served(l)' = Served(l)
        BY <2>2, <2>3, <2>7, <3>1 DEF Served
      <3> QED
        BY <2>2, <2>5, <2>7, <3>1, <3>2 DEF HandedOut
    <2> QED
      BY <2>6, <2>7
  <1> QED
    BY <1>1, <1>2

\* One more copy, at the end of what the logger has.
LEMMA CountedAppend ==
    ASSUME NEW S, NEW s \in Seq(S), NEW e \in S, NEW m, e.msg = m, NEW c \in Nat, c <= Len(s),
           \A k \in DOMAIN s : s[k].msg = m <=> k > Len(s) - c
    PROVE  /\ c + 1 <= Len(Append(s, e))
           /\ \A k \in DOMAIN Append(s, e) : Append(s, e)[k].msg = m <=> k > Len(Append(s, e)) - (c + 1)
  <1>1. PICK n \in Nat : n = Len(s) /\ DOMAIN s = 1 .. n
    BY LenProperties
  <1>2. PICK t : t = Append(s, e)
    OBVIOUS
  <1>3. /\ Len(t) = n + 1 /\ DOMAIN t = 1 .. n + 1
        /\ \A k \in 1 .. n : t[k] = s[k]
        /\ t[n + 1] = e
    BY <1>1, <1>2, AppendProperties, LenProperties
  <1>4. ASSUME NEW k \in 1 .. n + 1 PROVE t[k].msg = m <=> k > n + 1 - (c + 1)
    <2>1. CASE k \in 1 .. n
      <3>1. k > n + 1 - (c + 1) <=> k > n - c
        OBVIOUS
      <3>2. t[k].msg = m <=> k > n - c
        BY <1>1, <1>3, <2>1
      <3> QED
        BY <3>1, <3>2
    <2>2. CASE k = n + 1
      <3>1. k > n + 1 - (c + 1)
        BY <2>2
      <3> QED
        BY <1>3, <2>2, <3>1
    <2> QED
      BY <2>1, <2>2
  <1> QED
    BY <1>1, <1>2, <1>3, <1>4

\* A callback that logs turns a node waited for into one served, with one copy more.
LEMMA LogHandedOut ==
    ASSUME IInv, JobNodesRegistered, QueuesOwned, SettersFirst, HandedOut,
           NEW q \in QueueIds, logMessage(q)
    PROVE  HandedOut'
  <1>0. TypeOK
    BY DEF IInv
  <1>1. PICK n \in Nodes :
              /\ n \in outstanding /\ n.queue = q /\ n.logger \in Loggers
              /\ job.kind = "logMessage" /\ job.arg \in Messages
              /\ outstanding' = outstanding \ {n}
              /\ received' = [received EXCEPT ![n.logger] = Append(@,
                    [msg |-> job.arg,
                     fmt |-> IF n.logger \in OwnQueue THEN formatter[n.logger] ELSE NoFormatter])]
              /\ loggerQueue[q] # <<>> /\ Head(loggerQueue[q]).kind = "logMessage"
              /\ UNCHANGED <<registry, loggingQueue, running, job, todo, callers,
                             formatter, flushed, attached, result>>
    BY LogMessageFacts
  <1>2. PICK e : e = [msg |-> job.arg,
                      fmt |-> IF n.logger \in OwnQueue THEN formatter[n.logger] ELSE NoFormatter]
    OBVIOUS
  <1>3. e \in [msg : Messages, fmt : Formatters \cup {NoFormatter}] /\ e.msg = job.arg
    BY <1>0, <1>1, <1>2 DEF TypeOK
  <1>4. \A l \in Loggers : received'[l] = IF l = n.logger THEN Append(received[l], e) ELSE received[l]
    BY <1>0, <1>1, <1>2 DEF TypeOK
  <1>5. AbstractFormatter' = AbstractFormatter
    <2>1. Pops(q, "logMessage") /\ UNCHANGED formatter
      BY DEF logMessage
    <2> QED
      BY <1>0, <2>1, FormatterTaken
  <1>6. n \notin ToSet(todo) /\ n \in Hits(n.logger)
    BY <1>1 DEF IInv, TodoFresh, HandedOut, ToSet
  <1>7. \A l : Hits(l)' = Hits(l)
    BY <1>1 DEF Hits, registry
  <1>8. /\ Served(n.logger)' = Served(n.logger) \cup {n} /\ n \notin Served(n.logger)
        /\ \A l : l # n.logger => Served(l)' = Served(l)
    <2>1. \A l : Served(l)' = Hits(l) \ ((outstanding \ {n}) \cup ToSet(todo))
      BY <1>1, <1>7 DEF Served
    <2>2. \A l : l # n.logger => n \notin Hits(l)
      BY DEF Hits
    <2> QED
      BY <1>1, <1>6, <2>1, <2>2 DEF Served
  \* The formatter that the logger applies is the one the clients see.
  <1>9. e.fmt = IF n.logger \in OwnQueue THEN AbstractFormatter[n.logger] ELSE NoFormatter
    <2>1. CASE n.logger \in OwnQueue
      <3>1. q = OwnQueueOf(n.logger)
        BY <1>1, <2>1 DEF QueuesOwned, OnOwnQueue
      <3>2. loggerQueue[q] \in Seq(Callbacks)
        BY <1>0 DEF TypeOK
      <3>3. /\ 1 \in DOMAIN loggerQueue[q] /\ loggerQueue[q][1].kind = "logMessage"
            /\ \A i \in DOMAIN loggerQueue[q] : i = 1 \/ 1 < i
        BY <1>1, <3>2, TailFacts, LenProperties
      <3>4. \A i \in DOMAIN loggerQueue[q] : loggerQueue[q][i].kind # "setFormatter"
        BY <3>3 DEF SettersFirst
      <3>5. InForce(loggerQueue[q], formatter[n.logger]) = formatter[n.logger]
        BY <3>2, <3>4, InForceFacts
      <3> QED
        BY <1>2, <2>1, <3>1, <3>5 DEF AbstractFormatter
    <2> QED
      BY <1>2, <2>1
  <1>10. \A m \in outstanding' : m \in Hits(m.logger)'
    BY <1>1, <1>7 DEF HandedOut
  <1>11. ASSUME NEW l \in Loggers
         PROVE  /\ Cardinality(Served(l)') <= Len(received'[l])
                /\ \A k \in DOMAIN received'[l] :
                      received'[l][k].msg = job'.arg <=> k > Len(received'[l]) - Cardinality(Served(l)')
                /\ \A k \in DOMAIN received'[l] : received'[l][k].msg = job'.arg =>
                      received'[l][k].fmt = IF l \in OwnQueue THEN AbstractFormatter'[l] ELSE NoFormatter
    <2>1. CASE l = n.logger
      <3>1. PICK c \in Nat : c = Cardinality(Served(l))
        BY ServedFinite
      <3>2. Cardinality(Served(l)') = c + 1
        BY <1>8, <2>1, <3>1, ServedFinite, FS_AddElement
      <3>3. received[l] \in Seq([msg : Messages, fmt : Formatters \cup {NoFormatter}])
        BY <1>0, ReceivedFacts
      <3>4. /\ c <= Len(received[l])
            /\ \A k \in DOMAIN received[l] : received[l][k].msg = job.arg <=> k > Len(received[l]) - c
        BY <1>1, <3>1 DEF HandedOut
      <3>5. received'[l] = Append(received[l], e)
        BY <1>4, <2>1
      <3>6. /\ c + 1 <= Len(received'[l])
            /\ \A k \in DOMAIN received'[l] :
                  received'[l][k].msg = job.arg <=> k > Len(received'[l]) - (c + 1)
        BY <1>3, <3>3, <3>4, <3>5, CountedAppend
      <3>7. ASSUME NEW k \in DOMAIN received'[l], received'[l][k].msg = job.arg
            PROVE  received'[l][k].fmt = IF l \in OwnQueue THEN AbstractFormatter[l] ELSE NoFormatter
        <4>1. k \in DOMAIN Append(received[l], e)
          BY <3>5, <3>7
        <4>2. \/ k \in DOMAIN received[l] /\ received'[l][k] = received[l][k]
              \/ received'[l][k] = e
          BY <1>3, <3>3, <3>5, <4>1, AppendFacts
        <4> QED
          BY <1>1, <1>9, <2>1, <3>7, <4>2 DEF HandedOut
      <3> QED
        BY <1>1, <1>5, <3>2, <3>6, <3>7
    <2>2. CASE l # n.logger
      BY <1>1, <1>4, <1>5, <1>8, <2>2 DEF HandedOut
    <2> QED
      BY <2>1, <2>2
  <1> QED
    BY <1>10, <1>11 DEF HandedOut

\* The copies of the message that a logger has are those of the nodes that were served.
LEMMA HandedOutStep ==
    ASSUME IInv, JobNodesRegistered, MessagesNumbered, QueuesOwned, SettersFirst, HandedOut, [Next]_vars
    PROVE  HandedOut'
  <1>0. TypeOK
    BY DEF IInv
  <1>1. ASSUME job'.kind # "logMessage" PROVE HandedOut'
    BY <1>1 DEF HandedOut
  <1>2. ASSUME UNCHANGED <<loggers, job, outstanding, todo, received>> PROVE HandedOut'
    <2>1. CASE ForwardFormatter
      BY <1>1, <1>2, <2>1 DEF ForwardFormatter, IsNext, NoBlock, IInv, JobDiscipline
    <2>2. CASE AbstractFormatter' = AbstractFormatter
      <3>1. \A n \in outstanding' : n \in outstanding
        BY <1>2
      <3> QED
        BY <1>2, <2>2, <3>1, SameHandedOut
    <2> QED
      BY <2>1, <2>2, FormatterStep
  <1>3. CASE CallApi
    <2>1. CASE UNCHANGED <<job, todo>>
      BY <1>2, <1>3, <2>1, CallFrame DEF effects
    <2>2. CASE /\ job = NoJob /\ job'.kind = "logMessage" /\ job'.arg.id = issued + 1
               /\ todo' = loggers
      <3>1. outstanding = {}
        BY <2>2 DEF IInv, JobDiscipline, NoJob
      <3>2. \A l \in Loggers : \A k \in DOMAIN received[l] : received[l][k].msg # job'.arg
        <4>1. issued \in Nat
          BY <1>0, DDLogAssumption DEF TypeOK
        <4>2. \A l \in Loggers : \A k \in DOMAIN received[l] :
                 received[l][k].msg.id \in Nat /\ received[l][k].msg.id <= issued
          BY <1>0, ReceivedFacts DEF MessagesNumbered
        <4> QED
          BY <2>2, <4>1, <4>2
      <3> QED
        BY <1>3, <2>2, <3>1, <3>2, CallFrame, FreshHandedOut DEF effects
    <2> QED
      BY <1>3, <2>1, <2>2, CallFrame
  <1>4. CASE lt_addLogger \/ lt_removeLogger \/ lt_allLoggers \/ ForwardFormatter
    BY <1>1, <1>4
    DEF lt_addLogger, lt_removeLogger, lt_allLoggers, ForwardFormatter, RunsAtOnce, IsNext, NoBlock,
        IInv, JobDiscipline
  <1>5. CASE lt_removeAllLoggers \/ lt_flush \/ GetFormatter \/ ClientBlock
    BY <1>1, <1>5 DEF lt_removeAllLoggers, lt_flush, GetFormatter, ClientBlock, Starts, NoJob
  <1>6. CASE lt_log
    <2>1. PICK b : b = Head(loggingQueue)
      OBVIOUS
    <2>2. /\ loggingQueue # <<>> /\ b.op = "log" /\ running = NoBlock
          /\ job' = [kind |-> "logMessage", arg |-> b.arg] /\ todo' = loggers
          /\ UNCHANGED <<loggers, received, outstanding>>
      BY <1>6, <2>1 DEF lt_log, Starts, IsNext, registry, effects
    <2>3. outstanding' = {}
      BY <2>2 DEF IInv, JobDiscipline
    <2>4. 1 \in DOMAIN loggingQueue /\ b = loggingQueue[1] /\ b.arg \in Messages
      BY <2>1, <2>2, HeadFacts, MessageFacts
    <2>5. ASSUME NEW l \in Loggers, NEW k \in DOMAIN received[l], received[l][k].msg = b.arg
          PROVE  FALSE
      <3>1. ~Direct(b.arg) /\ b.arg.id \in Nat
        BY <2>2, <2>4, MessageFacts DEF IInv, QueueOrdered
      <3>2. received[l][k].msg.id < b.arg.id
        BY <2>2, <2>4, <2>5, <3>1 DEF IInv, ReceivedIsOlder
      <3> QED
        BY <2>5, <3>1, <3>2
    <2> QED
      BY <2>2, <2>3, <2>5, FreshHandedOut
  <1>7. CASE FinishJob
    BY <1>1, <1>7 DEF FinishJob, NoJob
  <1>8. CASE ClientBlockEnds
    BY <1>2, <1>8 DEF ClientBlockEnds, registry, effects
  <1>9. ASSUME NEW q \in QueueIds, flush(q) \/ ReadFormatter(q) PROVE HandedOut'
    <2>1. UNCHANGED job /\ \E kind \in {"flush", "getFormatter"} : Pops(q, kind)
      BY <1>9 DEF flush, ReadFormatter
    <2>2. 1 \in DOMAIN loggerQueue[q] /\ loggerQueue[q][1].kind \in {"flush", "getFormatter"}
      BY <1>0, <2>1, PopFacts DEF Pops
    <2>3. job.kind \in {"flush", "getFormatter"}
      BY <2>2 DEF IInv, WaitedInGroup, WaitedKinds
    <2> QED
      BY <1>1, <2>1, <2>3
  <1>10. ASSUME NEW q \in QueueIds, WriteFormatter(q) \/ didAddLogger(q) \/ willRemoveLogger(q)
         PROVE  HandedOut'
    BY <1>2, <1>10 DEF WriteFormatter, didAddLogger, willRemoveLogger, engine, registry
  <1>11. CASE UNCHANGED vars
    BY <1>2, <1>11 DEF vars, engine, registry, effects
  <1> QED
    BY <1>3, <1>4, <1>5, <1>6, <1>7, <1>8, <1>9, <1>10, <1>11, VisitHandedOut, LogHandedOut
    DEF Next, RunLoggingQueue, RunLoggerQueue, Stopped

\* The invariant of the refinement: how far the message of the job has been handed out, in
\* copies at the end of what each logger received, and what waits on the loggers' queues.
THEOREM BroadcastInvariance == Spec => []BroadcastInv
  <1>1. ASSUME IInv, ServiceInv, BroadcastInv, [Next]_vars PROVE BroadcastInv'
    BY <1>1, JobOfBlockStep, MessagesNumberedStep, HandedOutStep, QueuesOwnedStep,
       SettersFirstStep, GetterAsksStep
    DEF BroadcastInv, ServiceInv
  <1> QED
    BY <1>1, InitBroadcast, Invariance, ServiceInvariance, PTL DEF Spec

\* Counting from 1.
LEMMA CountTo == ASSUME NEW d \in Nat PROVE Cardinality(1 .. d) = d
  <1>1. Cardinality(1 .. d) = IF 1 > d THEN 0 ELSE d - 1 + 1
    BY FS_Interval
  <1> QED
    BY <1>1

\* The first d entries of a sequence.
LEMMA FirstOf ==
    ASSUME NEW S, NEW s, NEW d \in Nat, \A k \in 1 .. d : s[k] \in S
    PROVE  /\ SubSeq(s, 1, d) \in Seq(S) /\ Len(SubSeq(s, 1, d)) = d
           /\ \A k \in 1 .. d : SubSeq(s, 1, d)[k] = s[k]
  <1>1. d - 1 + 1 = d /\ (~(1 <= d) => d = 0) /\ \A k \in 1 .. d : 1 + k - 1 = k
    OBVIOUS
  <1>2. /\ SubSeq(s, 1, d) \in Seq(S)
        /\ Len(SubSeq(s, 1, d)) = IF 1 <= d THEN d - 1 + 1 ELSE 0
        /\ \A k \in 1 .. d - 1 + 1 : SubSeq(s, 1, d)[k] = s[1 + k - 1]
    BY SubSeqProperties
  <1> QED
    BY <1>1, <1>2

-----------------------------------------------------------------------------
(* DDLog implements OrderedBroadcast, step by step.                          *)

\* No message is left out of a sequence that holds none of the one handed out.
LEMMA WholeSeq ==
    ASSUME NEW S, NEW s \in Seq(S)
    PROVE  SubSeq(s, 1, Cardinality(DOMAIN s)) = s
  <1>1. Len(s) \in Nat /\ DOMAIN s = 1 .. Len(s)
    BY LenProperties
  <1>2. Cardinality(DOMAIN s) = Len(s)
    BY <1>1, FS_Interval
  <1> QED
    BY <1>2, SubSeqFull

\* When no message is handed out, a logger has what it received.
LEMMA ReceivedWhole ==
    ASSUME TypeOK, job.kind # "logMessage"
    PROVE  AbstractReceived = received
  <1>1. \A l \in Loggers : Settled(l) = DOMAIN received[l]
    BY DEF Settled
  <1>2. \A l \in Loggers : SubSeq(received[l], 1, Cardinality(Settled(l))) = received[l]
    BY <1>1, WholeSeq, ReceivedFacts
  <1>3. received = [l \in Loggers |-> received[l]]
    BY DEF TypeOK
  <1> QED
    BY <1>2, <1>3 DEF AbstractReceived

\* The same, after a step.
LEMMA ReceivedWholeThen ==
    ASSUME TypeOK', job'.kind # "logMessage"
    PROVE  AbstractReceived' = received'
  <1>0. /\ received' \in [Loggers -> Seq([msg : Messages, fmt : Formatters \cup {NoFormatter}])]
    BY DEF TypeOK
  <1>1. \A l \in Loggers : Settled(l)' = DOMAIN received'[l]
    BY DEF Settled
  <1>2. \A l \in Loggers : SubSeq(received'[l], 1, Cardinality(Settled(l)')) = received'[l]
    BY <1>0, <1>1, WholeSeq
  <1>3. received' = [l \in Loggers |-> received'[l]]
    BY <1>0
  <1> QED
    BY <1>2, <1>3 DEF AbstractReceived

\* A message that starts to be handed out has been received by nobody.
LEMMA ReceivedFresh ==
    ASSUME TypeOK, job.kind # "logMessage", UNCHANGED received,
           \A l \in Loggers : \A k \in DOMAIN received[l] : received[l][k].msg # job'.arg
    PROVE  AbstractReceived' = AbstractReceived
  <1>1. \A l \in Loggers : Settled(l) = DOMAIN received[l] /\ Settled(l)' = DOMAIN received[l]
    BY DEF Settled
  <1> QED
    BY <1>1 DEF AbstractReceived

\* Nobody receives anything: what the clients can see of it stays, too.
LEMMA ReceivedKept ==
    ASSUME UNCHANGED received,
           job' = job \/ (job.kind # "logMessage" /\ job'.kind # "logMessage")
    PROVE  AbstractReceived' = AbstractReceived
  <1>1. \A l \in Loggers : Settled(l)' = Settled(l)
    BY DEF Settled
  <1> QED
    BY <1>1 DEF AbstractReceived

\* A copy of the message that is handed out does not count yet.
LEMMA ReceivedInProgress ==
    ASSUME IInv, NEW q \in QueueIds, logMessage(q)
    PROVE  AbstractReceived' = AbstractReceived
  <1>0. TypeOK
    BY DEF IInv
  <1>1. PICK n \in Nodes :
              /\ n.logger \in Loggers /\ job.kind = "logMessage" /\ job.arg \in Messages
              /\ received' = [received EXCEPT ![n.logger] = Append(@,
                    [msg |-> job.arg,
                     fmt |-> IF n.logger \in OwnQueue THEN formatter[n.logger] ELSE NoFormatter])]
              /\ job' = job
    BY LogMessageFacts
  <1>2. PICK e : e = [msg |-> job.arg,
                      fmt |-> IF n.logger \in OwnQueue THEN formatter[n.logger] ELSE NoFormatter]
    OBVIOUS
  <1> DEFINE Entries == [msg : Messages, fmt : Formatters \cup {NoFormatter}]
  <1>3. e \in Entries /\ e.msg = job.arg
    BY <1>0, <1>1, <1>2 DEF TypeOK
  <1>4. \A l \in Loggers : received'[l] = IF l = n.logger THEN Append(received[l], e) ELSE received[l]
    BY <1>0, <1>1, <1>2 DEF TypeOK
  <1>5. \A l \in Loggers : received[l] \in Seq(Entries)
    BY <1>0, ReceivedFacts
  <1> HIDE DEF Entries
  <1>6. ASSUME NEW l \in Loggers, l = n.logger
        PROVE  SubSeq(received'[l], 1, Cardinality(Settled(l)')) = SubSeq(received[l], 1, Cardinality(Settled(l)))
    <2>1. PICK s \in Seq(Entries) : s = received[l]
      BY <1>5
    <2>2. PICK t : t = Append(s, e)
      OBVIOUS
    <2>3. received'[l] = t
      BY <1>4, <1>6, <2>1, <2>2
    <2>4. PICK m \in Nat : m = Len(s) /\ DOMAIN s = 1 .. m
      BY LenProperties
    <2>5. /\ t \in Seq(Entries) /\ DOMAIN t = 1 .. m + 1
          /\ \A k \in 1 .. m : t[k] = s[k]
          /\ t[m + 1] = e
      BY <1>3, <2>2, <2>4, AppendProperties, LenProperties
    <2>6. Settled(l)' = {k \in 1 .. m + 1 : t[k].msg # job.arg}
      BY <1>1, <2>3, <2>5 DEF Settled
    <2>7. Settled(l) = {k \in 1 .. m : s[k].msg # job.arg}
      BY <1>1, <2>1, <2>4 DEF Settled
    <2>8. \A k \in 1 .. m + 1 : k \in 1 .. m \/ k = m + 1
      OBVIOUS
    <2>9. \A k \in 1 .. m : k \in 1 .. m + 1
      OBVIOUS
    <2>10. Settled(l)' = Settled(l)
      BY <1>3, <2>5, <2>6, <2>7, <2>8, <2>9
    <2>11. Cardinality(Settled(l)) \in 0 .. m
      <3>1. IsFiniteSet(1 .. m) /\ Cardinality(1 .. m) = m
        BY FS_Interval
      <3>2. Settled(l) \subseteq 1 .. m
        BY <2>7
      <3> QED
        BY <3>1, <3>2, FS_Subset, FS_CardinalityType
    <2>12. PICK c \in 0 .. m : c = Cardinality(Settled(l))
      BY <2>11
    <2>13. SubSeq(t, 1, c) = SubSeq(s, 1, c)
      <3>1. \A k \in 1 .. c : s[k] \in Entries /\ t[k] = s[k]
        BY <2>4, <2>5, SeqElements
      <3>2. /\ SubSeq(s, 1, c) \in Seq(Entries) /\ Len(SubSeq(s, 1, c)) = c
            /\ \A k \in 1 .. c : SubSeq(s, 1, c)[k] = s[k]
        BY <3>1, FirstOf
      <3>3. \A k \in 1 .. c : t[k] \in Entries
        BY <3>1
      <3>4. /\ SubSeq(t, 1, c) \in Seq(Entries) /\ Len(SubSeq(t, 1, c)) = c
            /\ \A k \in 1 .. c : SubSeq(t, 1, c)[k] = t[k]
        BY <3>3, FirstOf
      <3> QED
        BY <3>1, <3>2, <3>4, SeqEqual
    <2> QED
      BY <2>1, <2>3, <2>10, <2>12, <2>13
  <1>7. ASSUME NEW l \in Loggers, l # n.logger
        PROVE  SubSeq(received'[l], 1, Cardinality(Settled(l)')) = SubSeq(received[l], 1, Cardinality(Settled(l)))
    <2>1. received'[l] = received[l]
      BY <1>4, <1>7
    <2>2. Settled(l)' = Settled(l)
      BY <1>1, <2>1 DEF Settled
    <2> QED
      BY <2>1, <2>2
  <1> QED
    BY <1>6, <1>7 DEF AbstractReceived

-----------------------------------------------------------------------------
(* The requests.                                                             *)

\* Without a block there is no loop.
LEMMA IdleJob == ASSUME IInv, running = NoBlock PROVE job = NoJob /\ job.kind = "none"
  BY DEF IInv, TypeOK, JobDiscipline, Jobs, NoJob

\* A sequence is the beginning of a longer one.
LEMMA PrefixSeq ==
    ASSUME NEW S, NEW z \in Seq(S), NEW y \in Seq(S), Len(y) = Len(z) + 1,
           \A i \in 1 .. Len(z) : y[i] = z[i]
    PROVE  SubSeq(y, 1, Len(z)) = z
  <1>1. PICK c \in Nat : c = Len(z)
    BY LenProperties
  <1>2. \A k \in 1 .. c : y[k] \in S
    BY <1>1, SeqElements, LenProperties
  <1>3. /\ SubSeq(y, 1, c) \in Seq(S)
        /\ Len(SubSeq(y, 1, c)) = IF 1 <= c THEN c - 1 + 1 ELSE 0
        /\ \A i \in 1 .. c - 1 + 1 : SubSeq(y, 1, c)[i] = y[1 + i - 1]
    BY <1>2, SubSeqProperties
  <1>4. c - 1 + 1 = c /\ (~(1 <= c) => c = 0) /\ \A k \in 1 .. c : 1 + k - 1 = k
    OBVIOUS
  <1>5. /\ SubSeq(y, 1, c) \in Seq(S) /\ Len(SubSeq(y, 1, c)) = c
        /\ \A k \in 1 .. c : SubSeq(y, 1, c)[k] = y[k]
    BY <1>3, <1>4
  <1> QED
    BY <1>1, <1>5, SeqEqual

\* A request more.
LEMMA RequestAppended ==
    ASSUME NEW S, NEW s \in Seq(S), NEW r \in S, NEW b \in S, NEW z \in Seq(S), z = s \/ z = <<r>> \o s,
           NEW y, y = IF z = s THEN Append(s, b) ELSE <<r>> \o Append(s, b)
    PROVE  Len(y) = Len(z) + 1 /\ SubSeq(y, 1, Len(z)) = z
  <1>1. y = Append(z, b)
    <2>1. CASE z = s
      BY <2>1
    <2>2. CASE z # s
      <3>1. Append(s, b) = s \o <<b>> /\ Append(z, b) = z \o <<b>>
        BY AppendIsConcat
      <3>2. <<r>> \in Seq(S) /\ <<b>> \in Seq(S)
        OBVIOUS
      <3>3. (<<r>> \o s) \o <<b>> = <<r>> \o (s \o <<b>>)
        BY <3>2, ConcatAssociative
      <3> QED
        BY <2>2, <3>1, <3>3
    <2> QED
      BY <2>1, <2>2
  <1>2. Len(y) = Len(z) + 1 /\ y \in Seq(S) /\ \A i \in 1 .. Len(z) : y[i] = z[i]
    BY <1>1, AppendProperties
  <1>3. SubSeq(y, 1, Len(z)) = z
    BY <1>2, PrefixSeq
  <1> QED
    BY <1>2, <1>3

\* The head of the queue is the oldest request, before it starts and after.
LEMMA HeadAndTail ==
    ASSUME NEW S, NEW s \in Seq(S)
    PROVE  /\ s # <<>> => <<Head(s)>> \o Tail(s) = s
           /\ \A r \in S : /\ <<r>> \o s # <<>> /\ Head(<<r>> \o s) = r /\ Tail(<<r>> \o s) = s
  <1>1. ASSUME s # <<>> PROVE <<Head(s)>> \o Tail(s) = s
    <2>1. PICK t \in Seq(S) : t = Tail(s)
      BY <1>1, HeadTailProperties
    <2>2. PICK n \in Nat : n = Len(s) /\ DOMAIN s = 1 .. n /\ n # 0
      BY <1>1, LenProperties, EmptySeq
    <2>3. Len(t) = n - 1 /\ \A i \in 1 .. n - 1 : t[i] = s[i + 1]
      BY <1>1, <2>1, <2>2, HeadTailProperties
    <2>4. Head(s) \in S /\ Head(s) = s[1]
      BY <1>1, TailFacts
    <2>a. <<Head(s)>> \in Seq(S)
      BY <2>4
    <2>5. PICK h \in Seq(S) : h = <<Head(s)>>
      BY <2>a
    <2>b. 1 + (n - 1) = n
      OBVIOUS
    <2>6. Len(h) = 1 /\ h[1] = s[1]
      BY <2>4, <2>5
    <2>7. /\ h \o t \in Seq(S) /\ Len(h \o t) = n
          /\ \A i \in 1 .. n : (h \o t)[i] = IF i <= 1 THEN h[i] ELSE t[i - 1]
      <3>1. /\ h \o t \in Seq(S) /\ Len(h \o t) = Len(h) + Len(t)
            /\ \A i \in 1 .. Len(h) + Len(t) :
                  (h \o t)[i] = IF i <= Len(h) THEN h[i] ELSE t[i - Len(h)]
        BY <2>1, <2>5, ConcatProperties
      <3> QED
        BY <2>3, <2>6, <2>b, <3>1
    <2>8. ASSUME NEW i \in 1 .. n PROVE (h \o t)[i] = s[i]
      <3>1. CASE i = 1
        BY <2>6, <2>7, <3>1
      <3>2. CASE i # 1
        <4>1. i - 1 \in 1 .. n - 1 /\ i - 1 + 1 = i /\ ~(i <= 1)
          BY <3>2
        <4> QED
          BY <2>3, <2>7, <4>1
      <3> QED
        BY <3>1, <3>2
    <2> QED
      BY <2>1, <2>2, <2>5, <2>7, <2>8, SeqEqual
  <1>2. ASSUME NEW r \in S PROVE <<r>> \o s # <<>> /\ Head(<<r>> \o s) = r /\ Tail(<<r>> \o s) = s
    <2>a. <<r>> \in Seq(S)
      OBVIOUS
    <2>1. PICK h \in Seq(S) : h = <<r>>
      BY <2>a
    <2>2. PICK n \in Nat : n = Len(s)
      BY LenProperties
    <2>3. PICK u \in Seq(S) : u = h \o s
      BY <2>1, ConcatProperties
    <2>4. Len(h) = 1 /\ h[1] = r
      BY <2>1
    <2>5. Len(u) = n + 1 /\ \A i \in 1 .. n + 1 : u[i] = IF i <= 1 THEN h[i] ELSE s[i - 1]
      <3>1. 1 + n = n + 1
        OBVIOUS
      <3>2. /\ Len(h \o s) = Len(h) + Len(s)
            /\ \A i \in 1 .. Len(h) + Len(s) :
                  (h \o s)[i] = IF i <= Len(h) THEN h[i] ELSE s[i - Len(h)]
        BY ConcatProperties
      <3> QED
        BY <2>2, <2>3, <2>4, <3>1, <3>2
    <2>6. u # <<>>
      BY <2>5, EmptySeq
    <2>7. Head(u) = r
      <3>1. 1 \in 1 .. n + 1
        OBVIOUS
      <3>2. u[1] = r
        BY <2>4, <2>5, <3>1
      <3> QED
        BY <2>6, <3>2, TailFacts
    <2>8. Tail(u) \in Seq(S) /\ Len(Tail(u)) = n /\ \A i \in 1 .. n : Tail(u)[i] = u[i + 1]
      <3>1. n + 1 - 1 = n
        OBVIOUS
      <3> QED
        BY <2>5, <2>6, <3>1, HeadTailProperties
    <2>9. ASSUME NEW i \in 1 .. n PROVE Tail(u)[i] = s[i]
      <3>1. i + 1 \in 1 .. n + 1 /\ ~(i + 1 <= 1) /\ i + 1 - 1 = i
        OBVIOUS
      <3> QED
        BY <2>5, <2>8, <3>1
    <2>10. Tail(u) = s
      BY <2>2, <2>8, <2>9, SeqEqual
    <2> QED
      BY <2>1, <2>3, <2>6, <2>7, <2>10
  <1> QED
    BY <1>1, <1>2

\* What stays when no request takes effect.
LEMMA PromiseStutters ==
    ASSUME UNCHANGED <<AbstractRequests, loggers, AbstractReceived, AbstractFormatter, returned, alive>>
    PROVE  UNCHANGED Promise!vars
  BY DEF Promise!vars

\* A call of the API is a new request, or a statement on the logging queue that has
\* no effect before it is handed out.
LEMMA CallIsSubmit ==
    ASSUME IInv, MessagesNumbered, CallApi, AbstractFormatter' = AbstractFormatter
    PROVE  [Promise!Next]_(Promise!vars)
  <1>0. /\ TypeOK /\ loggingQueue \in Seq(Blocks)
        /\ UNCHANGED <<loggers, running, returned, alive, received>>
    BY CallFrame DEF IInv, TypeOK, effects
  <1>1. alive
    <2>1. ASSUME NEW c, NEW op, NEW arg, DispatchAsync(c, op, arg) \/ DispatchSync(c, op, arg)
          PROVE  alive
      BY <2>1 DEF DispatchAsync, DispatchSync, MayCall
    <2>2. ASSUME NEW c, NEW f, NEW sync, Log(c, f, sync) \/ LogDirectly(f)
          PROVE  alive
      BY <2>2 DEF Log, LogDirectly, MayCall
    <2> QED
      BY <2>1, <2>2
      DEF CallApi, AddLogger, RemoveLogger, RemoveAllLoggers, AllLoggers, FlushLog,
          ApplicationWillTerminate, SetLogFormatter, LogFormatter, DispatchClientBlock
  <1>2. ASSUME UNCHANGED job, NEW b, loggingQueue' = Append(loggingQueue, b)
        PROVE  Promise!Next
    <2>1. AbstractReceived' = AbstractReceived
      BY <1>0, <1>2, ReceivedKept
    <2>2. PICK S : S = Blocks \cup {b, running}
      OBVIOUS
    <2>3. loggingQueue \in Seq(S) /\ running \in S /\ b \in S
      BY <1>0, <2>2, SeqMonotonic
    <2>4. AbstractRequests \in {loggingQueue, <<running>> \o loggingQueue}
      BY DEF AbstractRequests
    <2>5. AbstractRequests \in Seq(S)
      <3>1. <<running>> \in Seq(S)
        BY <2>3
      <3> QED
        BY <2>3, <2>4, <3>1, ConcatProperties
    <2>6. AbstractRequests' = IF job = NoJob \/ running.op = "client" THEN Append(loggingQueue, b)
                              ELSE <<running>> \o Append(loggingQueue, b)
      BY <1>0, <1>2 DEF AbstractRequests
    <2>7. <<running>> \o loggingQueue # loggingQueue
      <3>1. <<running>> \in Seq(S) /\ Len(<<running>>) = 1
        BY <2>3
      <3>2. Len(<<running>> \o loggingQueue) = 1 + Len(loggingQueue) /\ Len(loggingQueue) \in Nat
        BY <2>3, <3>1, ConcatProperties, LenProperties
      <3> QED
        BY <3>2
    <2>8. AbstractRequests' = IF AbstractRequests = loggingQueue THEN Append(loggingQueue, b)
                              ELSE <<running>> \o Append(loggingQueue, b)
      BY <2>6, <2>7 DEF AbstractRequests
    <2>9. PICK y : y = AbstractRequests'
      OBVIOUS
    <2>10. /\ Len(y) = Len(AbstractRequests) + 1
           /\ SubSeq(y, 1, Len(AbstractRequests)) = AbstractRequests
      BY <2>3, <2>4, <2>5, <2>8, <2>9, RequestAppended
    <2>11. Promise!Submit
      BY <1>0, <1>1, <2>1, <2>9, <2>10 DEF Promise!Submit
    <2> QED
      BY <2>11 DEF Promise!Next
  <1>3. ASSUME job = NoJob, running.op = "client", job'.arg.id = issued + 1, UNCHANGED loggingQueue
        PROVE  UNCHANGED Promise!vars
    <2>1. AbstractRequests' = AbstractRequests
      BY <1>0, <1>3 DEF AbstractRequests
    <2>2. issued \in Nat /\ \A l \in Loggers : \A k \in DOMAIN received[l] :
             received[l][k].msg.id \in Nat /\ received[l][k].msg.id <= issued
      <3>1. issued \in Nat
        BY <1>0, DDLogAssumption DEF TypeOK
      <3> QED
        BY <1>0, <3>1, ReceivedFacts DEF MessagesNumbered
    <2>3. \A l \in Loggers : \A k \in DOMAIN received[l] : received[l][k].msg # job'.arg
      BY <1>3, <2>2
    <2>4. AbstractReceived' = AbstractReceived
      BY <1>0, <1>3, <2>3, ReceivedFresh DEF NoJob
    <2> QED
      BY <1>0, <2>1, <2>4, PromiseStutters
  <1> QED
    BY <1>2, <1>3, CallFrame

\* What holds when a block that runs at once is the next.
LEMMA AtOnceRequests ==
    ASSUME IInv, running = NoBlock, loggingQueue # <<>>, RunsAtOnce, UNCHANGED received
    PROVE  /\ AbstractRequests = loggingQueue /\ AbstractRequests' = Tail(loggingQueue)
           /\ AbstractReceived' = AbstractReceived
  <1>1. job = NoJob /\ job' = NoJob /\ loggingQueue' = Tail(loggingQueue)
    BY IdleJob DEF RunsAtOnce
  <1> QED
    BY <1>1, ReceivedKept DEF AbstractRequests

\* lt_addLogger: is the addition, whole, or the request that was ignored.
LEMMA AddIsAtomic ==
    ASSUME IInv, lt_addLogger, AbstractFormatter' = AbstractFormatter
    PROVE  Promise!Next
  <1>1. /\ alive /\ running = NoBlock /\ loggingQueue # <<>> /\ RunsAtOnce
        /\ Head(loggingQueue).op = "add"
        /\ UNCHANGED <<received, returned, alive>>
    BY DEF lt_addLogger, IsNext, callers, effects
  <1>2. PICK r : r = Head(loggingQueue)
    OBVIOUS
  <1>3. loggers' = IF \E i \in DOMAIN loggers : loggers[i].logger = r.arg.logger
                                             /\ loggers[i].level = r.arg.level
                   THEN loggers ELSE Append(loggers, r.arg)
    BY <1>2 DEF lt_addLogger
  <1>4. Promise!PerformAdd(r)
    BY <1>1, <1>2, <1>3, AtOnceRequests DEF Promise!PerformAdd
  <1>5. Promise!Perform
    BY <1>1, <1>2, <1>4, AtOnceRequests DEF Promise!Perform
  <1> QED
    BY <1>5 DEF Promise!Next

\* Taking one element out, as the code does it and as the promise says it.
LEMMA RemovedSeq ==
    ASSUME NEW S, NEW u \in Seq(S), NEW i \in DOMAIN u
    PROVE  SubSeq(u, 1, i - 1) \o SubSeq(u, i + 1, Len(u)) =
               [j \in 1 .. Len(u) - 1 |-> IF j < i THEN u[j] ELSE u[j + 1]]
  <1>0. PICK m \in Nat : m = Len(u) /\ DOMAIN u = 1 .. m
    BY LenProperties
  <1>a. i \in 1 .. m /\ \A k \in 1 .. m : u[k] \in S
    BY <1>0, SeqElements
  <1>1. PICK s : s = SubSeq(u, 1, i - 1)
    OBVIOUS
  <1>2. PICK t : t = SubSeq(u, i + 1, m)
    OBVIOUS
  <1>3. /\ s \in Seq(S) /\ Len(s) = i - 1
        /\ \A k \in 1 .. i - 1 : s[k] = u[k]
    <2>1. /\ 1 \in Int /\ i - 1 \in Int /\ i - 1 - 1 + 1 = i - 1 /\ (~(1 <= i - 1) => i - 1 = 0)
          /\ \A k \in 1 .. i - 1 : 1 + k - 1 = k /\ k \in 1 .. m
      BY <1>a
    <2>2. \A k \in 1 .. i - 1 : u[k] \in S
      BY <1>a, <2>1
    <2>3. /\ SubSeq(u, 1, i - 1) \in Seq(S)
          /\ Len(SubSeq(u, 1, i - 1)) = IF 1 <= i - 1 THEN i - 1 - 1 + 1 ELSE 0
          /\ \A k \in 1 .. i - 1 - 1 + 1 : SubSeq(u, 1, i - 1)[k] = u[1 + k - 1]
      BY <2>1, <2>2, SubSeqProperties
    <2> QED
      BY <1>1, <2>1, <2>3
  <1>4. /\ t \in Seq(S) /\ Len(t) = m - i
        /\ \A k \in 1 .. m - i : t[k] = u[i + k]
    <2>1. /\ i + 1 \in Int /\ m \in Int /\ m - (i + 1) + 1 = m - i /\ (~(i + 1 <= m) => m - i = 0)
          /\ \A k \in 1 .. m - i : i + 1 + k - 1 = i + k
          /\ \A k \in i + 1 .. m : k \in 1 .. m
      BY <1>a
    <2>2. \A k \in i + 1 .. m : u[k] \in S
      BY <1>a, <2>1
    <2>3. /\ SubSeq(u, i + 1, m) \in Seq(S)
          /\ Len(SubSeq(u, i + 1, m)) = IF i + 1 <= m THEN m - (i + 1) + 1 ELSE 0
          /\ \A k \in 1 .. m - (i + 1) + 1 : SubSeq(u, i + 1, m)[k] = u[i + 1 + k - 1]
      BY <2>1, <2>2, SubSeqProperties
    <2> QED
      BY <1>2, <2>1, <2>3
  <1>5. PICK v : v = s \o t
    OBVIOUS
  <1>6. /\ v \in Seq(S) /\ Len(v) = m - 1
        /\ \A k \in 1 .. m - 1 : v[k] = IF k <= i - 1 THEN s[k] ELSE t[k - (i - 1)]
    <2>1. i - 1 + (m - i) = m - 1
      BY <1>a
    <2>2. /\ s \o t \in Seq(S) /\ Len(s \o t) = Len(s) + Len(t)
          /\ \A k \in 1 .. Len(s) + Len(t) : (s \o t)[k] = IF k <= Len(s) THEN s[k] ELSE t[k - Len(s)]
      BY <1>3, <1>4, ConcatProperties
    <2> QED
      BY <1>3, <1>4, <1>5, <2>1, <2>2
  <1>7. ASSUME NEW k \in 1 .. m - 1 PROVE v[k] = IF k < i THEN u[k] ELSE u[k + 1]
    <2>1. CASE k < i
      <3>1. k <= i - 1 /\ k \in 1 .. i - 1
        BY <1>a, <2>1
      <3> QED
        BY <1>3, <1>6, <2>1, <3>1
    <2>2. CASE ~(k < i)
      <3>1. ~(k <= i - 1) /\ k - (i - 1) \in 1 .. m - i /\ i + (k - (i - 1)) = k + 1
        BY <1>a, <2>2
      <3> QED
        BY <1>4, <1>6, <2>2, <3>1
    <2> QED
      BY <2>1, <2>2
  <1>8. PICK w : w = [j \in 1 .. m - 1 |-> IF j < i THEN u[j] ELSE u[j + 1]]
    OBVIOUS
  <1>9. DOMAIN v = 1 .. m - 1 /\ v = [k \in 1 .. m - 1 |-> v[k]]
    BY <1>6, LenProperties
  <1> QED
    BY <1>0, <1>1, <1>2, <1>5, <1>7, <1>9

\* lt_removeLogger: the node found first goes, or none.
LEMMA RemoveIsAtomic ==
    ASSUME IInv, lt_removeLogger, AbstractFormatter' = AbstractFormatter
    PROVE  Promise!Next
  <1>1. /\ alive /\ running = NoBlock /\ loggingQueue # <<>> /\ RunsAtOnce
        /\ Head(loggingQueue).op = "remove"
        /\ UNCHANGED <<received, returned, alive>>
    BY DEF lt_removeLogger, IsNext, callers, effects
  <1>2. PICK r : r = Head(loggingQueue)
    OBVIOUS
  <1>3. \/ /\ \A i \in DOMAIN loggers : loggers[i].logger # r.arg
           /\ UNCHANGED loggers
        \/ \E i \in DOMAIN loggers :
             /\ loggers[i].logger = r.arg
             /\ \A j \in DOMAIN loggers : loggers[j].logger = r.arg => i <= j
             /\ loggers' = SubSeq(loggers, 1, i - 1) \o SubSeq(loggers, i + 1, Len(loggers))
    BY <1>2 DEF lt_removeLogger
  <1>4. ASSUME NEW i \in DOMAIN loggers, loggers[i].logger = r.arg,
               \A j \in DOMAIN loggers : loggers[j].logger = r.arg => i <= j,
               loggers' = SubSeq(loggers, 1, i - 1) \o SubSeq(loggers, i + 1, Len(loggers))
        PROVE  /\ \A j \in 1 .. i - 1 : loggers[j].logger # r.arg
               /\ loggers' = [j \in 1 .. Len(loggers) - 1 |->
                                 IF j < i THEN loggers[j] ELSE loggers[j + 1]]
    <2>1. loggers \in Seq(Nodes)
      BY DEF IInv, TypeOK
    <2>2. DOMAIN loggers = 1 .. Len(loggers) /\ Len(loggers) \in Nat
      BY <2>1, LenProperties
    <2>3. \A j \in 1 .. i - 1 : j \in DOMAIN loggers /\ ~(i <= j)
      BY <1>4, <2>2
    <2> QED
      BY <1>4, <2>1, <2>3, RemovedSeq
  <1>5. Promise!PerformRemove(r)
    BY <1>1, <1>2, <1>3, <1>4, AtOnceRequests DEF Promise!PerformRemove
  <1>6. Promise!Perform
    BY <1>1, <1>2, <1>5, AtOnceRequests DEF Promise!Perform
  <1> QED
    BY <1>6 DEF Promise!Next

\* lt_allLoggers answers with the registered nodes.
LEMMA ListIsAtomic ==
    ASSUME IInv, lt_allLoggers, AbstractFormatter' = AbstractFormatter
    PROVE  Promise!Next
  <1>1. /\ alive /\ running = NoBlock /\ loggingQueue # <<>> /\ RunsAtOnce
        /\ Head(loggingQueue).op = "list"
        /\ UNCHANGED <<loggers, received, alive>>
    BY DEF lt_allLoggers, IsNext, registry, effects
  <1>2. PICK r : r = Head(loggingQueue)
    OBVIOUS
  <1>3. returned' = [returned EXCEPT ![r.by] = loggers]
    BY <1>2 DEF lt_allLoggers
  <1>4. Promise!PerformQuery(r)
    BY <1>1, <1>2, <1>3, AtOnceRequests DEF Promise!PerformQuery
  <1>5. Promise!Perform
    BY <1>1, <1>2, <1>4, AtOnceRequests DEF Promise!Perform
  <1> QED
    BY <1>5 DEF Promise!Next

\* A setter takes effect when the logging queue forwards it to the logger's own queue.
LEMMA ForwardIsAtomic ==
    ASSUME IInv, ForwardFormatter
    PROVE  Promise!Next
  <1>1. /\ alive /\ running = NoBlock /\ loggingQueue # <<>> /\ RunsAtOnce
        /\ Head(loggingQueue).op = "setFormatter"
        /\ UNCHANGED <<loggers, received, returned, alive, formatter>>
    BY DEF ForwardFormatter, IsNext, registry, callers, effects
  <1>2. PICK r : r = Head(loggingQueue)
    OBVIOUS
  <1>3. PICK l : l = r.arg.logger
    OBVIOUS
  <1>4. PICK n : n = [logger |-> l, level |-> {}, queue |-> OwnQueueOf(l)]
    OBVIOUS
  <1>5. PICK c : c = [kind |-> "setFormatter", node |-> n, arg |-> r.arg.formatter]
    OBVIOUS
  <1>6. loggerQueue' = Enqueue(OwnQueueOf(l), c)
    BY <1>2, <1>3, <1>4, <1>5 DEF ForwardFormatter
  <1>7. l \in OwnQueue /\ r.arg.formatter \in Formatters
    BY <1>1, <1>2, <1>3, HeadFacts DEF Blocks
  <1>8. OwnQueueOf(l) \in QueueIds /\ n \in Nodes
    BY <1>4, <1>7, DDLogAssumption DEF OwnQueueOf, QueueIds, Nodes
  <1>9. c \in Callbacks /\ c.kind = "setFormatter" /\ c.arg = r.arg.formatter
    BY <1>5, <1>7, <1>8 DEF Callbacks
  <1>10. \A k \in OwnQueue : AbstractFormatter'[k] = IF k = l THEN r.arg.formatter ELSE AbstractFormatter[k]
    <2>1. \A k \in OwnQueue : OwnQueueOf(l) = OwnQueueOf(k) <=> k = l
      BY DEF OwnQueueOf
    <2>2. TypeOK
      BY DEF IInv
    <2> QED
      BY <1>1, <1>6, <1>8, <1>9, <2>1, <2>2, FormatterEnqueued
  <1>11. AbstractFormatter' = [AbstractFormatter EXCEPT ![r.arg.logger] = r.arg.formatter]
    <2>1. AbstractFormatter' = [k \in OwnQueue |-> AbstractFormatter'[k]]
      BY DEF AbstractFormatter
    <2>2. AbstractFormatter = [k \in OwnQueue |-> AbstractFormatter[k]]
      BY DEF AbstractFormatter
    <2> QED
      BY <1>3, <1>10, <2>1, <2>2
  <1>12. Promise!PerformSetFormatter(r)
    BY <1>1, <1>2, <1>11, AtOnceRequests DEF Promise!PerformSetFormatter
  <1>13. Promise!Perform
    BY <1>1, <1>2, <1>12, AtOnceRequests DEF Promise!Perform
  <1> QED
    BY <1>13 DEF Promise!Next

\* A block that visits loggers changes nothing when it starts.
LEMMA StartIsStutter ==
    ASSUME IInv, NEW op, NEW j, NEW nodes, Starts(op, j, nodes), j # NoJob, op # "client",
           j.kind = "logMessage" => op = "log" /\ j.arg = Head(loggingQueue).arg,
           AbstractFormatter' = AbstractFormatter
    PROVE  UNCHANGED Promise!vars
  <1>1. /\ running = NoBlock /\ loggingQueue # <<>> /\ Head(loggingQueue).op = op
        /\ loggingQueue' = Tail(loggingQueue) /\ running' = Head(loggingQueue)
        /\ job' = j
        /\ UNCHANGED <<loggers, received, returned, alive>>
    BY DEF Starts, IsNext, registry, callers, effects
  <1>2. TypeOK /\ job = NoJob /\ job.kind # "logMessage" /\ loggingQueue \in Seq(Blocks)
    BY <1>1, IdleJob DEF IInv, TypeOK
  <1>3. AbstractRequests' = <<Head(loggingQueue)>> \o Tail(loggingQueue) /\ AbstractRequests = loggingQueue
    BY <1>1, <1>2 DEF AbstractRequests
  <1>4. AbstractRequests' = AbstractRequests
    BY <1>1, <1>2, <1>3, HeadAndTail
  <1>5. AbstractReceived' = AbstractReceived
    <2>1. CASE j.kind # "logMessage"
      BY <1>1, <1>2, <2>1, ReceivedKept
    <2>2. CASE j.kind = "logMessage"
      <3>1. 1 \in DOMAIN loggingQueue /\ loggingQueue[1].op = "log" /\ j.arg = loggingQueue[1].arg
        BY <1>1, <2>2, HeadFacts
      <3>2. ~Direct(j.arg) /\ j.arg.id \in Nat
        <4>1. Head(loggingQueue) \in Blocks
          BY <1>1, HeadFacts
        <4> QED
          BY <1>1, <2>2, <3>1, <4>1, MessageFacts DEF IInv, QueueOrdered
      <3>3. ASSUME NEW l \in Loggers, NEW k \in DOMAIN received[l], received[l][k].msg = j.arg
            PROVE  FALSE
        <4>1. received[l][k].msg.id < j.arg.id
          BY <3>1, <3>2, <3>3 DEF IInv, ReceivedIsOlder
        <4> QED
          BY <3>2, <3>3, <4>1
      <3> QED
        BY <1>1, <1>2, <3>3, ReceivedFresh
    <2> QED
      BY <2>1, <2>2
  <1> QED
    BY <1>1, <1>4, <1>5, PromiseStutters

\* A client's own block, before it logs anything, is a request without effect.
LEMMA ClientIsAtomic ==
    ASSUME IInv, ClientBlock, AbstractFormatter' = AbstractFormatter
    PROVE  Promise!Next
  <1>1. /\ alive /\ running = NoBlock /\ loggingQueue # <<>> /\ Head(loggingQueue).op = "client"
        /\ loggingQueue' = Tail(loggingQueue) /\ job' = NoJob
        /\ UNCHANGED <<loggers, received, returned, alive>>
    BY DEF ClientBlock, Starts, IsNext, registry, callers, effects
  <1>2. job = NoJob
    BY <1>1, IdleJob
  <1>3. AbstractRequests = loggingQueue /\ AbstractRequests' = Tail(loggingQueue)
    BY <1>1, <1>2 DEF AbstractRequests
  <1>4. AbstractReceived' = AbstractReceived
    BY <1>1, <1>2, ReceivedKept
  <1>5. PICK r : r = Head(loggingQueue)
    OBVIOUS
  <1>6. Promise!PerformNothing(r)
    BY <1>1, <1>4, <1>5 DEF Promise!PerformNothing
  <1>7. Promise!Perform
    BY <1>1, <1>3, <1>5, <1>6 DEF Promise!Perform
  <1> QED
    BY <1>7 DEF Promise!Next

\* The last c entries of s, and no others, are copies of m formatted with f.
EndsIn(s, c, m, f) ==
    /\ c <= Len(s)
    /\ \A k \in DOMAIN s : s[k].msg = m <=> k > Len(s) - c
    /\ \A k \in DOMAIN s : s[k].msg = m => s[k].fmt = f

\* The copies that an atomic broadcast would give each logger are the ones at the end
\* of what it received.
LEMMA CopiesAtEnd ==
    ASSUME NEW S, NEW s \in Seq(S), \A x \in S : x = [msg |-> x.msg, fmt |-> x.fmt],
           NEW m, NEW f, NEW c \in Nat, EndsIn(s, c, m, f),
           NEW t \in [1 .. c -> {[msg |-> m, fmt |-> f]}]
    PROVE  /\ Cardinality({k \in DOMAIN s : ~(s[k].msg = m)}) = Len(s) - c
           /\ SubSeq(s, 1, Len(s) - c) \o t = s
  <1>0. PICK n \in Nat : n = Len(s) /\ DOMAIN s = 1 .. n
    BY LenProperties
  <1>a. /\ c <= n
        /\ \A k \in 1 .. n : s[k].msg = m <=> k > n - c
        /\ \A k \in 1 .. n : s[k].msg = m => s[k].fmt = f
    BY <1>0 DEF EndsIn
  <1>1. PICK d \in Nat : d = n - c
    BY <1>a
  <1>2. \A k \in 1 .. n : s[k] \in S
    BY <1>0, SeqElements
  <1>3. Cardinality({k \in DOMAIN s : ~(s[k].msg = m)}) = n - c
    <2>1. \A k \in 1 .. n : ~(s[k].msg = m) <=> k <= d
      <3>1. \A k \in 1 .. n : k > n - c <=> ~(k <= d)
        BY <1>a, <1>1
      <3> QED
        BY <1>0, <1>a, <3>1
    <2>2. \A k : k \in 1 .. d <=> k \in 1 .. n /\ k <= d
      BY <1>a, <1>1
    <2>3. {k \in DOMAIN s : ~(s[k].msg = m)} = 1 .. d
      BY <1>0, <2>1, <2>2
    <2>4. Cardinality(1 .. d) = d
      BY CountTo
    <2> QED
      BY <1>1, <2>3, <2>4
  <1>4. PICK u : u = SubSeq(s, 1, d)
    OBVIOUS
  <1>5. u \in Seq(S) /\ Len(u) = d /\ \A k \in 1 .. d : u[k] = s[k]
    <2>1. \A k \in 1 .. d : k \in 1 .. n
      BY <1>a, <1>1
    <2>2. \A k \in 1 .. d : s[k] \in S
      BY <1>2, <2>1
    <2>3. /\ SubSeq(s, 1, d) \in Seq(S) /\ Len(SubSeq(s, 1, d)) = d
          /\ \A k \in 1 .. d : SubSeq(s, 1, d)[k] = s[k]
      BY <2>2, FirstOf
    <2> QED
      BY <1>4, <2>3
  <1>6. \A k \in 1 .. c : d + k \in 1 .. n /\ s[d + k] = [msg |-> m, fmt |-> f]
    <2> TAKE k \in 1 .. c
    <2>1. d + k \in 1 .. n /\ d + k > n - c
      BY <1>a, <1>1
    <2>2. s[d + k] \in S /\ s[d + k].msg = m /\ s[d + k].fmt = f
      BY <1>a, <1>2, <2>1
    <2> QED
      BY <2>1, <2>2
  <1>7. \A k \in 1 .. c : t[k] = [msg |-> m, fmt |-> f]
    OBVIOUS
  <1>8. t \in Seq(S) /\ Len(t) = c /\ \A k \in 1 .. c : t[k] = s[d + k]
    <2>1. \A k \in 1 .. c : t[k] = s[d + k] /\ t[k] \in S
      BY <1>2, <1>6, <1>7
    <2>2. t \in [1 .. c -> S]
      BY <2>1
    <2> QED
      BY <2>1, <2>2
  <1>9. PICK v : v = u \o t
    OBVIOUS
  <1>10. /\ v \in Seq(S) /\ Len(v) = n
         /\ \A k \in 1 .. n : v[k] = IF k <= d THEN u[k] ELSE t[k - d]
    <2>1. d + c = n
      BY <1>1, <1>a
    <2>2. /\ u \o t \in Seq(S) /\ Len(u \o t) = Len(u) + Len(t)
          /\ \A k \in 1 .. Len(u) + Len(t) : (u \o t)[k] = IF k <= Len(u) THEN u[k] ELSE t[k - Len(u)]
      BY <1>5, <1>8, ConcatProperties
    <2> QED
      BY <1>5, <1>8, <1>9, <2>1, <2>2
  <1>11. ASSUME NEW k \in 1 .. n PROVE v[k] = s[k]
    <2>1. CASE k <= d
      <3>1. k \in 1 .. d
        BY <2>1
      <3> QED
        BY <1>5, <1>10, <2>1, <3>1
    <2>2. CASE ~(k <= d)
      <3>1. k - d \in 1 .. c /\ d + (k - d) = k
        BY <1>1, <1>a, <2>2
      <3> QED
        BY <1>8, <1>10, <2>2, <3>1
    <2> QED
      BY <2>1, <2>2
  <1>12. v = s
    BY <1>0, <1>10, <1>11, SeqEqual
  <1> QED
    BY <1>0, <1>1, <1>3, <1>4, <1>9, <1>12

\* The nodes that get the message, counted by their places in the array.
LEMMA HitsCounted ==
    ASSUME IInv, NEW l
    PROVE  Cardinality({i \in DOMAIN loggers : loggers[i].logger = l /\ job.arg.flag \in loggers[i].level})
               = Cardinality(Hits(l))
  <1> DEFINE I == {i \in DOMAIN loggers : loggers[i].logger = l /\ job.arg.flag \in loggers[i].level}
  <1>1. PICK g : g = [i \in I |-> loggers[i]]
    OBVIOUS
  <1>2. Hits(l) = {loggers[i] : i \in I}
    BY DEF Hits, ToSet
  <1>3. \A i, j \in I : i # j => g[i] # g[j]
    BY <1>1, LoggersFacts
  <1>4. g \in [I -> Hits(l)] /\ \A x \in Hits(l) : \E i \in I : g[i] = x
    BY <1>1, <1>2
  <1>5. g \in Bijection(I, Hits(l))
    BY <1>3, <1>4 DEF Bijection, Injection, Surjection, IsInjective
  <1>6. ExistsBijection(I, Hits(l))
    BY <1>5 DEF ExistsBijection
  <1>7. IsFiniteSet(I)
    <2>1. DOMAIN loggers = 1 .. Len(loggers) /\ Len(loggers) \in Nat
      BY LoggersFacts, LenProperties
    <2>2. IsFiniteSet(DOMAIN loggers)
      BY <2>1, FS_Interval
    <2> QED
      BY <2>2, FS_Subset
  <1> QED
    BY <1>6, <1>7, FS_Bijection

\* When the block has waited for all of them, the message is with all loggers at once.
LEMMA BroadcastDone ==
    ASSUME IInv, HandedOut, IInv', job.kind = "logMessage", todo = <<>>, outstanding = {},
           job'.kind # "logMessage", UNCHANGED <<loggers, received>>, AbstractFormatter' = AbstractFormatter
    PROVE  Promise!Broadcast(job.arg)
  <1>0. TypeOK /\ TypeOK'
    BY DEF IInv
  <1>1. AbstractReceived' = received
    BY <1>0, ReceivedWholeThen
  <1>2. \A l : Served(l) = Hits(l)
    BY DEF Served, ToSet
  <1>3. ASSUME NEW l \in Loggers
        PROVE  AbstractReceived[l] \o [i \in 1 .. Cardinality(Hits(l)) |->
                  [msg |-> job.arg, fmt |-> IF l \in OwnQueue THEN AbstractFormatter[l] ELSE NoFormatter]]
                   = received[l]
    <2>1. PICK f : f = IF l \in OwnQueue THEN AbstractFormatter[l] ELSE NoFormatter
      OBVIOUS
    <2>a. PICK S : S = [msg : Messages, fmt : Formatters \cup {NoFormatter}]
      OBVIOUS
    <2>b. \A x \in S : x = [msg |-> x.msg, fmt |-> x.fmt]
      BY <2>a
    <2>2. PICK s \in Seq(S) : s = received[l]
      BY <1>0, <2>a, ReceivedFacts
    <2>3. PICK c \in Nat : c = Cardinality(Hits(l))
      BY ServedFinite, FS_CardinalityType
    <2>4. EndsIn(s, c, job.arg, f)
      BY <1>2, <2>1, <2>2, <2>3 DEF HandedOut, EndsIn
    <2>5. /\ Cardinality({k \in DOMAIN s : ~(s[k].msg = job.arg)}) = Len(s) - c
          /\ SubSeq(s, 1, Len(s) - c) \o [i \in 1 .. c |-> [msg |-> job.arg, fmt |-> f]] = s
      <3>1. PICK m : m = job.arg
        OBVIOUS
      <3>2. EndsIn(s, c, m, f)
        BY <2>4, <3>1
      <3>3. PICK t \in [1 .. c -> {[msg |-> m, fmt |-> f]}] : t = [i \in 1 .. c |-> [msg |-> m, fmt |-> f]]
        OBVIOUS
      <3>4. Cardinality({k \in DOMAIN s : ~(s[k].msg = m)}) = Len(s) - c
        BY <2>b, <3>2, CopiesAtEnd
      <3>5. SubSeq(s, 1, Len(s) - c) \o t = s
        BY <2>b, <3>2, CopiesAtEnd
      <3> QED
        BY <3>1, <3>3, <3>4, <3>5
    <2>6. Settled(l) = {k \in DOMAIN s : ~(s[k].msg = job.arg)}
      BY <2>2 DEF Settled
    <2>7. AbstractReceived[l] = SubSeq(s, 1, Len(s) - c)
      BY <2>2, <2>5, <2>6 DEF AbstractReceived
    <2> QED
      BY <2>1, <2>2, <2>3, <2>5, <2>7
  <1>4. \A l : Cardinality({i \in DOMAIN loggers : loggers[i].logger = l
                                                  /\ job.arg.flag \in loggers[i].level}) = Cardinality(Hits(l))
    BY HitsCounted
  <1>5. received = [l \in Loggers |-> received[l]]
    BY <1>0 DEF TypeOK
  <1>6. received = [l \in Loggers |->
            AbstractReceived[l] \o [i \in 1 .. Cardinality({i \in DOMAIN loggers :
                  loggers[i].logger = l /\ job.arg.flag \in loggers[i].level}) |->
               [msg |-> job.arg, fmt |-> IF l \in OwnQueue THEN AbstractFormatter[l] ELSE NoFormatter]]]
    BY <1>3, <1>4, <1>5
  <1>7. \A S : Promise!Cardinality(S) = Cardinality(S)
    BY Zenon DEF Promise!Cardinality, Cardinality
  <1> QED
    BY <1>1, <1>6, <1>7, Zenon DEF Promise!Broadcast

\* A message that a client's block handed out takes effect before what waits, if anybody got it.
LEMMA DirectIsAtomic ==
    ASSUME IInv, BroadcastInv, IInv', FinishJob, running.op = "client",
           AbstractFormatter' = AbstractFormatter
    PROVE  [Promise!Next]_(Promise!vars)
  <1>0. TypeOK /\ TypeOK'
    BY DEF IInv
  <1>1. /\ alive /\ job # NoJob /\ todo = <<>> /\ outstanding = {} /\ job' = NoJob
        /\ alive' = TRUE
        /\ UNCHANGED <<running, returned, loggingQueue, received>>
        /\ loggers' = IF job.kind = "willRemove" THEN <<>> ELSE loggers
    BY DEF FinishJob, effects
  <1>2. job.kind = "logMessage" /\ job'.kind # "logMessage" /\ UNCHANGED loggers
    <2>1. job \in Jobs
      BY <1>0 DEF TypeOK
    <2> QED
      BY <1>1, <2>1 DEF BroadcastInv, JobOfBlock, Jobs, NoJob
  <1>3. Promise!Broadcast(job.arg)
    BY <1>1, <1>2, BroadcastDone DEF BroadcastInv
  <1>4. AbstractRequests' = AbstractRequests
    BY <1>1 DEF AbstractRequests
  <1>5. UNCHANGED <<AbstractRequests, loggers, AbstractFormatter, returned, alive>>
    BY <1>1, <1>2, <1>4
  <1>6. AbstractReceived' = received
    BY <1>0, <1>1, <1>2, ReceivedWholeThen
  <1>7. CASE \E l \in Loggers : Cardinality(Hits(l)) # 0
    <2>1. PICK l \in Loggers : Cardinality(Hits(l)) # 0
      BY <1>7
    <2>2. Served(l) = Hits(l) /\ Cardinality(Hits(l)) \in Nat
      BY <1>1, ServedFinite, FS_CardinalityType DEF Served, ToSet
    <2>3. PICK s \in Seq([msg : Messages, fmt : Formatters \cup {NoFormatter}]) : s = received[l]
      BY <1>0, ReceivedFacts
    <2>4. PICK n \in Nat : n = Len(s) /\ DOMAIN s = 1 .. n
      BY LenProperties
    <2>5. /\ Cardinality(Hits(l)) <= n
          /\ \A k \in DOMAIN s : s[k].msg = job.arg <=> k > n - Cardinality(Hits(l))
      BY <1>2, <2>2, <2>3, <2>4 DEF BroadcastInv, HandedOut
    <2>6. n \in DOMAIN s /\ n > n - Cardinality(Hits(l)) /\ n # 0
      BY <2>1, <2>2, <2>4, <2>5
    <2>7. s[n].msg = job.arg /\ s # <<>>
      BY <2>4, <2>5, <2>6, EmptySeq
    <2>8. l \in {k \in Loggers : AbstractReceived'[k] # <<>>}
          /\ AbstractReceived'[l][Len(AbstractReceived'[l])].msg = job.arg
      BY <1>1, <1>6, <2>3, <2>4, <2>7
    <2>9. job.arg.sync
      BY <1>2 DEF IInv, JobDiscipline, Direct
    <2>10. Promise!Interject
      BY <1>1, <1>3, <1>5, <2>8, <2>9 DEF Promise!Interject
    <2> QED
      BY <2>10 DEF Promise!Next
  <1>8. CASE \A l \in Loggers : Cardinality(Hits(l)) = 0
    <2>1. \A l \in Loggers : Served(l) = Hits(l)
      BY <1>1 DEF Served, ToSet
    <2>2. ASSUME NEW l \in Loggers, NEW k \in DOMAIN received[l] PROVE received[l][k].msg # job.arg
      <3>1. received[l][k].msg = job.arg <=> k > Len(received[l]) - 0
        BY <1>2, <1>8, <2>1 DEF BroadcastInv, HandedOut
      <3>2. k \in Nat /\ Len(received[l]) \in Nat /\ k <= Len(received[l])
        BY <1>0, ReceivedFacts, LenProperties
      <3> QED
        BY <3>1, <3>2
    <2>3. \A l \in Loggers : Settled(l) = DOMAIN received[l] /\ Settled(l)' = DOMAIN received[l]
      BY <1>1, <1>2, <2>2 DEF Settled
    <2>4. AbstractReceived' = AbstractReceived
      BY <1>1, <2>3 DEF AbstractReceived
    <2> QED
      BY <1>5, <2>4, PromiseStutters
  <1> QED
    BY <1>7, <1>8

\* The end of a block that visited loggers is the moment its request takes effect.
LEMMA FinishIsAtomic ==
    ASSUME IInv, ServiceInv, BroadcastInv, IInv', FinishJob, running.op # "client",
           AbstractFormatter' = AbstractFormatter
    PROVE  Promise!Next
  <1>0. TypeOK /\ TypeOK' /\ running \in Blocks \cup {NoBlock} /\ loggingQueue \in Seq(Blocks)
    BY DEF IInv, TypeOK
  <1>1. /\ alive /\ job # NoJob /\ todo = <<>> /\ outstanding = {} /\ job' = NoJob
        /\ alive' = (running.op # "terminate")
        /\ returned' = IF running.op = "getFormatter"
                       THEN [returned EXCEPT ![running.by] = result] ELSE returned
        /\ UNCHANGED <<loggingQueue, received>>
        /\ loggers' = IF job.kind = "willRemove" THEN <<>> ELSE loggers
    BY DEF FinishJob, effects
  <1>2. running \in Blocks
    BY <1>0, <1>1, IdleJob
  <1>3. running.op \in {"log", "removeAll", "flush", "terminate", "getFormatter"}
    BY <1>2 DEF BroadcastInv, JobOfBlock, Blocks
  <1>4. PICK r \in Blocks : r = running
    BY <1>2
  <1>5. AbstractRequests = <<r>> \o loggingQueue /\ AbstractRequests' = loggingQueue
    BY <1>1, <1>4 DEF AbstractRequests
  <1>6. AbstractRequests # <<>> /\ Head(AbstractRequests) = r /\ AbstractRequests' = Tail(AbstractRequests)
    BY <1>0, <1>5, HeadAndTail
  <1>7. job.kind # "logMessage" => AbstractReceived' = AbstractReceived
    BY <1>1, ReceivedKept DEF NoJob
  <1>8. CASE r.op = "log"
    <2>1. job.kind = "logMessage" /\ job.arg = r.arg /\ job'.kind # "logMessage"
      BY <1>1, <1>4, <1>8 DEF IInv, JobDiscipline, NoJob
    <2>2. UNCHANGED <<loggers, returned, alive>>
      BY <1>1, <1>4, <1>8, <2>1
    <2>3. Promise!Broadcast(r.arg)
      BY <1>1, <2>1, <2>2, BroadcastDone DEF BroadcastInv
    <2> QED
      BY <1>1, <1>6, <1>8, <2>2, <2>3 DEF Promise!PerformLog, Promise!Perform, Promise!Next
  <1>9. CASE r.op = "removeAll"
    <2>1. job.kind = "willRemove"
      BY <1>4, <1>9 DEF BroadcastInv, JobOfBlock
    <2>2. loggers' = <<>> /\ UNCHANGED <<AbstractReceived, returned, alive>>
      BY <1>1, <1>4, <1>7, <1>9, <2>1
    <2> QED
      BY <1>1, <1>6, <1>9, <2>2 DEF Promise!PerformRemoveAll, Promise!Perform, Promise!Next
  <1>10. CASE r.op = "getFormatter"
    <2>1. job.kind = "getFormatter"
      BY <1>4, <1>10 DEF BroadcastInv, JobOfBlock
    <2>2. UNCHANGED <<loggers, AbstractReceived, alive>>
      BY <1>1, <1>4, <1>7, <1>10, <2>1
    <2>3. returned' = [returned EXCEPT ![r.by] = AbstractFormatter[r.arg]]
      BY <1>1, <1>4, <1>10 DEF BroadcastInv, GetterAsks
    <2> QED
      BY <1>1, <1>6, <1>10, <2>2, <2>3 DEF Promise!PerformQuery, Promise!Perform, Promise!Next
  <1>11. CASE r.op \in {"flush", "terminate"}
    <2>1. job.kind = "flush"
      BY <1>4, <1>11 DEF ServiceInv, FlushProgress
    <2>2. UNCHANGED <<loggers, AbstractReceived, returned>> /\ alive' = (r.op # "terminate")
      BY <1>1, <1>4, <1>7, <1>11, <2>1
    <2>3. CASE r.op = "flush"
      <3>1. UNCHANGED alive
        BY <1>1, <2>2, <2>3
      <3> QED
        BY <1>1, <1>6, <2>2, <2>3, <3>1 DEF Promise!PerformNothing, Promise!Perform, Promise!Next
    <2>4. CASE r.op = "terminate"
      <3>1. alive' = FALSE
        BY <2>2, <2>4
      <3> QED
        BY <1>1, <1>6, <2>2, <2>4, <3>1 DEF Promise!PerformExit, Promise!Perform, Promise!Next
    <2> QED
      BY <1>11, <2>3, <2>4
  <1> QED
    BY <1>3, <1>4, <1>8, <1>9, <1>10, <1>11

\* Every step of the engine is a step of the promise or changes nothing a client can see.
LEMMA StepIsAtomic ==
    ASSUME IInv, ServiceInv, BroadcastInv, IInv', [Next]_vars
    PROVE  [Promise!Next]_(Promise!vars)
  <1> USE DEF BroadcastInv
  <1>1. CASE ForwardFormatter
    BY <1>1, ForwardIsAtomic
  <1>2. CASE AbstractFormatter' = AbstractFormatter
    <2>1. CASE CallApi
      BY <1>2, <2>1, CallIsSubmit
    <2>2. CASE lt_addLogger \/ lt_removeLogger \/ lt_allLoggers \/ ForwardFormatter \/ ClientBlock
      BY <1>2, <2>2, AddIsAtomic, RemoveIsAtomic, ListIsAtomic, ForwardIsAtomic, ClientIsAtomic
    <2>3. CASE lt_log \/ lt_removeAllLoggers \/ lt_flush \/ GetFormatter
      BY <1>2, <2>3, StartIsStutter
      DEF lt_log, lt_removeAllLoggers, lt_flush, GetFormatter, NoJob
    <2>4. CASE FinishJob
      BY <1>2, <2>4, DirectIsAtomic, FinishIsAtomic
    <2>5. ASSUME UNCHANGED <<loggers, loggingQueue, running, job, received, returned, alive>>
          PROVE  UNCHANGED Promise!vars
      <3>1. AbstractReceived' = AbstractReceived /\ AbstractRequests' = AbstractRequests
        BY <2>5, ReceivedKept DEF AbstractRequests
      <3> QED
        BY <1>2, <2>5, <3>1, PromiseStutters
    <2>6. CASE VisitNode
      BY <2>5, <2>6 DEF VisitNode, registry, callers, effects
    <2>7. CASE ClientBlockEnds
      <3>1. /\ UNCHANGED <<loggers, loggingQueue, job, received, returned, alive>> /\ job = NoJob
        BY <2>7 DEF ClientBlockEnds, registry, callers, effects
      <3>2. AbstractReceived' = AbstractReceived /\ AbstractRequests' = AbstractRequests
        BY <3>1, ReceivedKept DEF AbstractRequests
      <3> QED
        BY <1>2, <3>1, <3>2, PromiseStutters
    <2>8. ASSUME NEW q \in QueueIds, logMessage(q) PROVE UNCHANGED Promise!vars
      <3>1. UNCHANGED <<loggers, loggingQueue, running, job, returned, alive>>
        BY <2>8 DEF logMessage, registry, callers
      <3>2. AbstractReceived' = AbstractReceived /\ AbstractRequests' = AbstractRequests
        BY <2>8, <3>1, ReceivedInProgress DEF AbstractRequests
      <3> QED
        BY <1>2, <3>1, <3>2, PromiseStutters
    <2>9. ASSUME NEW q \in QueueIds,
                 \/ flush(q) \/ ReadFormatter(q) \/ WriteFormatter(q) \/ didAddLogger(q)
                 \/ willRemoveLogger(q)
          PROVE  UNCHANGED Promise!vars
      BY <2>5, <2>9
      DEF flush, ReadFormatter, WriteFormatter, didAddLogger, willRemoveLogger, registry, engine,
          callers, effects
    <2>10. CASE UNCHANGED vars
      BY <2>5, <2>10 DEF vars, registry, engine, callers, effects
    <2> QED
      BY <2>1, <2>2, <2>3, <2>4, <2>6, <2>7, <2>8, <2>9, <2>10
      DEF Next, RunLoggingQueue, RunLoggerQueue, Stopped
  <1> QED
    BY <1>1, <1>2, FormatterStep

\* The program starts where the promise starts.
LEMMA InitIsAtomic == Init => Promise!Init
  <1> SUFFICES ASSUME Init PROVE Promise!Init
    OBVIOUS
  <1>1. job = NoJob /\ job.kind # "logMessage" /\ loggingQueue = <<>> /\ loggers = Installed
        /\ received = [l \in Loggers |-> <<>>] /\ formatter = [l \in OwnQueue |-> NoFormatter]
        /\ returned = [t \in Threads |-> None] /\ alive = TRUE
        /\ loggerQueue = [q \in QueueIds |-> <<>>]
    BY DEF Init, NoJob
  <1>2. TypeOK
    BY InitIInv DEF IInv
  <1>3. AbstractRequests = <<>> /\ AbstractReceived = [l \in Loggers |-> <<>>]
    BY <1>1, <1>2, ReceivedWhole DEF AbstractRequests
  <1>4. ASSUME NEW l \in OwnQueue PROVE AbstractFormatter[l] = NoFormatter
    <2>1. OwnQueueOf(l) \in QueueIds
      BY DDLogAssumption DEF OwnQueueOf, QueueIds
    <2>2. AbstractFormatter[l] = InForce(<<>>, NoFormatter)
      BY <1>1, <1>4, <2>1 DEF AbstractFormatter
    <2>3. <<>> \in Seq(Callbacks) /\ \A i \in DOMAIN <<>> : FALSE
      OBVIOUS
    <2>4. InForce(<<>>, NoFormatter) = NoFormatter
      BY <2>3 DEF InForce
    <2> QED
      BY <2>2, <2>4
  <1>5. AbstractFormatter = [l \in OwnQueue |-> NoFormatter]
    BY <1>4 DEF AbstractFormatter
  <1> QED
    BY <1>1, <1>3, <1>5 DEF Promise!Init

\* DDLog implements OrderedBroadcast (lt_log:, the dispatch group and the loggers' queues): to
\* its clients a log statement is with all the loggers at once, in the order of the requests,
\* each logger using the formatter that was set last before it, for any number of loggers,
\* threads and calls.
THEOREM Atomicity == Spec => BroadcastIsAtomic
  <1>1. ASSUME IInv, ServiceInv, BroadcastInv, IInv', [Next]_vars
        PROVE  [Promise!Next]_(Promise!vars)
    BY <1>1, StepIsAtomic
  <1> QED
    BY <1>1, InitIsAtomic, Invariance, ServiceInvariance, BroadcastInvariance, PTL
    DEF Spec, BroadcastIsAtomic, Promise!Spec
=============================================================================
