------------------------ MODULE DDLogFrontEndsProofs ------------------------
(***************************************************************************)
(* Machine-checked proofs about the front ends: they use the dispatch core *)
(* as its specification says, and what they promise on top of it.          *)
(***************************************************************************)
EXTENDS DDLogFrontEndsInvariant, DDLogServiceProofs

LEMMA AsynchronousFacts ==
    /\ \A flag \in Flags, async \in BOOLEAN \cup {None}, enabled \in BOOLEAN :
          Asynchronous(flag, async, enabled) \in BOOLEAN
    /\ \A level, sync : logAsync(level, sync) \in BOOLEAN
    /\ \A async \in BOOLEAN \cup {None}, enabled \in BOOLEAN :
          async # TRUE => ~Asynchronous(ErrorFlag, async, enabled)
  <1>1. None \notin BOOLEAN
    BY FrontEndsAssumption
  <1> QED
    BY <1>1 DEF Asynchronous, logAsync

\* A failed assertion logs synchronously, unless its caller asks for something else, or
\* not at all.
LEMMA AssertionLogs ==
    ASSUME NEW t, NEW a \in BOOLEAN \cup {None}, DDAssert(t, a)
    PROVE  \/ /\ doing' = [doing EXCEPT ![t] = issued + 1]
              /\ Log(t, ErrorFlag, TRUE) /\ urgent' = urgent \cup {issued + 1}
           \/ /\ doing' = [doing EXCEPT ![t] = issued + 1]
              /\ \E sync \in BOOLEAN : Log(t, ErrorFlag, sync)
              /\ urgent' = urgent
           \/ /\ doing' = [doing EXCEPT ![t] = 0]
              /\ UNCHANGED vars /\ urgent' = urgent
  <1> USE FrontEndsAssumption
  <1>1. PICK enabled \in BOOLEAN :
           \/ /\ Log(t, ErrorFlag, ~Asynchronous(ErrorFlag, a, enabled))
              /\ doing' = [doing EXCEPT ![t] = issued + 1]
              /\ urgent' = IF a = TRUE THEN urgent ELSE urgent \cup {issued + 1}
           \/ doing' = [doing EXCEPT ![t] = 0] /\ UNCHANGED vars /\ urgent' = urgent
    BY DEF DDAssert
  <1>2. CASE a # TRUE
    <2>1. (~Asynchronous(ErrorFlag, a, enabled)) = TRUE
      BY <1>2, AsynchronousFacts
    <2> QED
      BY <1>1, <1>2, <2>1
  <1>3. CASE a = TRUE
    <2>1. (~Asynchronous(ErrorFlag, a, enabled)) \in BOOLEAN
      OBVIOUS
    <2> QED
      BY <1>1, <1>3, <2>1
  <1> QED
    BY <1>2, <1>3

-----------------------------------------------------------------------------
(* The front ends implement the dispatch core.                               *)

\* Every statement of a front end is a log statement of the core.
LEMMA FrontEndsCall == FrontEnds => CallApi \/ UNCHANGED vars
  <1> USE FrontEndsAssumption, AsynchronousFacts
  <1> SUFFICES ASSUME FrontEnds PROVE CallApi \/ UNCHANGED vars
    OBVIOUS
  <1>a. AppThreads \subseteq Callers /\ Subscriptions \subseteq Callers /\ Subscriptions \subseteq Loggers
    BY DEF AppThreads, Callers
  <1>1. ASSUME NEW t \in AppThreads, NEW f \in Flags, NEW async \in BOOLEAN, NEW promised,
               Statement(t, f, async, promised)
        PROVE  CallApi
    BY <1>1, <1>a DEF Statement, CallApi
  <1>2. ASSUME NEW t \in AppThreads, NEW f \in Flags, LogMacro(t, f) PROVE CallApi
    <2>1. (f # ErrorFlag /\ AsyncEnabled) \in BOOLEAN
      OBVIOUS
    <2> QED
      BY <1>1, <1>2, <2>1 DEF LogMacro
  <1>3. ASSUME NEW t \in AppThreads, NEW f \in Flags, NEW a \in BOOLEAN \cup {None}, LogFunction(t, f, a)
        PROVE  CallApi
    <2>1. PICK enabled \in BOOLEAN :
             Statement(t, f, Asynchronous(f, a, enabled), f = ErrorFlag /\ a # TRUE)
      BY <1>3 DEF LogFunction
    <2>2. Asynchronous(f, a, enabled) \in BOOLEAN
      OBVIOUS
    <2> QED
      BY <1>1, <2>1, <2>2
  <1>4. ASSUME NEW t \in AppThreads, NEW v \in SwiftLogLevels, NEW s \in BOOLEAN \cup {None},
               SwiftLog(t, v, s)
        PROVE  CallApi
    <2>1. FlagOfLevel[v] \in Flags
      OBVIOUS
    <2> QED
      BY <1>1, <1>4, <2>1 DEF SwiftLog
  <1>5. ASSUME NEW t \in AppThreads, NEW a \in BOOLEAN \cup {None}, DDAssert(t, a)
        PROVE  CallApi \/ UNCHANGED vars
    <2>1. \/ \E enabled \in BOOLEAN : Log(t, ErrorFlag, ~Asynchronous(ErrorFlag, a, enabled))
          \/ UNCHANGED vars
      BY <1>5 DEF DDAssert
    <2>2. ErrorFlag \in Flags /\ \A enabled \in BOOLEAN : (~Asynchronous(ErrorFlag, a, enabled)) \in BOOLEAN
      OBVIOUS
    <2> QED
      BY <1>a, <2>1, <2>2 DEF CallApi
  <1>6. ASSUME NEW t \in AppThreads, assertionFailure(t) \/ receiveSubscription(t) \/ clearSubscriber(t)
        PROVE  UNCHANGED vars
    BY <1>6 DEF assertionFailure, receiveSubscription, clearSubscriber
  <1>7. ASSUME NEW t \in AppThreads, NEW s \in Subscriptions, NEW v \in SubscriptionLevels, receive(t, s, v)
        PROVE  CallApi
    BY <1>7, <1>a DEF receive, CallApi
  <1>8. ASSUME NEW t \in AppThreads, NEW s \in Subscriptions, cancel(t, s)
        PROVE  CallApi
    BY <1>8, <1>a DEF cancel, CallApi
  <1>9. ASSUME NEW s \in Subscriptions, cancelWhileReceiving(s)
        PROVE  CallApi
    BY <1>9, <1>a DEF cancelWhileReceiving, CallApi
  <1> QED
    BY <1>2, <1>3, <1>4, <1>5, <1>6, <1>7, <1>8, <1>9 DEF FrontEnds

LEMMA OtherCallsCall == OtherCalls \/ ClientBlockLogs => CallApi
  <1>1. AppThreads \subseteq Callers /\ AppThreads \subseteq Threads /\ OnLoggingQueue \in Callers
    BY DEF AppThreads, Callers
  <1>2. OtherCalls => CallApi
    BY <1>1 DEF OtherCalls, CallApi
  <1>3. ClientBlockLogs => CallApi
    BY <1>1 DEF ClientBlockLogs, CallApi
  <1> QED
    BY <1>2, <1>3

\* Each step of the composition is a step of the core or leaves it alone.
LEMMA FrontStep == [FrontNext]_allVars => [Next]_vars
  <1> SUFFICES ASSUME [FrontNext]_allVars PROVE [Next]_vars
    OBVIOUS
  <1>1. CASE FrontEnds \/ OtherCalls \/ ClientBlockLogs
    BY <1>1, FrontEndsCall, OtherCallsCall DEF Next
  <1>2. CASE RunLoggingQueue
    BY <1>2 DEF Next
  <1>3. ASSUME NEW q \in QueueIds, RunFrontQueue(q)
        PROVE  [Next]_vars
    BY <1>3 DEF RunFrontQueue, log, receiveValue, RunLoggerQueue, Next
  <1>4. CASE FrontStopped \/ UNCHANGED allVars
    BY <1>4 DEF FrontStopped, allVars
  <1> QED
    BY <1>1, <1>2, <1>3, <1>4 DEF FrontNext

\* Whatever the front ends do is a behaviour of DDLog: its theorems hold for programs that
\* log through macros, Swift functions, swift-log, assertions and Combine.
THEOREM FrontEndsUseDDLog == FrontSpec => Spec
  <1>1. FrontInit => Init
    BY DEF FrontInit
  <1> QED
    BY <1>1, FrontStep, PTL DEF FrontSpec, Spec

-----------------------------------------------------------------------------
(* What the core does with messages, as far as the front ends can tell.      *)

\* A message is on a logger's queue only while its block runs.
LEMMA InFlightAtWork == ASSUME IInv PROVE InFlight \subseteq AtWork
  <1>1. ASSUME NEW c \in Pending("logMessage") PROVE job.kind = "logMessage" /\ job.arg = c.arg
    BY <1>1, PendingFacts DEF IInv, WaitedInGroup, WaitedKinds
  <1> QED
    BY <1>1 DEF InFlight, AtWork

LEMMA AtWorkMessages == ASSUME IInv PROVE \A m \in AtWork : m \in Messages /\ m.id \in Nat
  <1>1. job \in Jobs /\ \A i \in DOMAIN loggingQueue : loggingQueue[i] \in Blocks
    BY SeqElements DEF IInv, TypeOK
  <1> QED
    BY <1>1, MessageFacts DEF AtWork

\* A block is added to those that wait.
LEMMA EnqueueWork ==
    ASSUME IInv, NEW b \in Blocks, loggingQueue' = Append(loggingQueue, b), UNCHANGED job
    PROVE  \A m \in AtWork' : m \in AtWork \/ (b.op = "log" /\ m = b.arg)
  <1>1. \A i \in DOMAIN loggingQueue' :
           \/ i \in DOMAIN loggingQueue /\ loggingQueue'[i] = loggingQueue[i]
           \/ loggingQueue'[i] = b
    BY AppendFacts DEF IInv, TypeOK
  <1> QED
    BY <1>1 DEF AtWork

\* Calls that log nothing put one other block on the logging queue.
LEMMA QuietCall ==
    ASSUME IInv, CallApi,
           ~ \E c \in Callers, f \in Flags, s \in BOOLEAN : Log(c, f, s),
           ~ \E f \in Flags : LogDirectly(f)
    PROVE  /\ \E b : b.op # "log" /\ loggingQueue' = Append(loggingQueue, b)
           /\ loggingQueue' \in Seq(Blocks)
           /\ issued' = issued
           /\ UNCHANGED <<registry, running, job, todo, outstanding, effects>>
           /\ blocked \subseteq blocked'
  <1>1. /\ \E b : b.op # "log" /\ loggingQueue' = Append(loggingQueue, b)
        /\ issued' = issued /\ UNCHANGED <<registry, running, job, todo, outstanding, effects>>
        /\ blocked \subseteq blocked'
    BY DEF CallApi, AddLogger, RemoveLogger, RemoveAllLoggers, AllLoggers, FlushLog,
           ApplicationWillTerminate, SetLogFormatter, LogFormatter, DispatchClientBlock,
           DispatchAsync, DispatchSync
  <1>2. loggingQueue' \in Seq(Blocks)
    BY CallStep DEF IInv, TypeOK
  <1> QED
    BY <1>1, <1>2

LEMMA LogFacts ==
    ASSUME IInv, NEW c \in Callers, NEW f \in Flags, NEW sync \in BOOLEAN, Log(c, f, sync)
    PROVE  LET m == [id |-> issued + 1, flag |-> f, by |-> c, sync |-> sync]
               b == [op |-> "log", arg |-> m, by |-> IF sync THEN c ELSE None]
           IN  /\ m \in Messages /\ b \in Blocks
               /\ loggingQueue' = Append(loggingQueue, b)
               /\ issued' = issued + 1 /\ issued' <= MaxCalls /\ issued \in Nat
               /\ blocked' = IF sync THEN blocked \cup {c} ELSE blocked
               /\ UNCHANGED <<registry, running, job, todo, outstanding, effects>>
               /\ \A n \in AtWork' : n \in AtWork \/ n = m
  <1> DEFINE m == [id |-> issued + 1, flag |-> f, by |-> c, sync |-> sync]
             b == [op |-> "log", arg |-> m, by |-> IF sync THEN c ELSE None]
  <1>1. calls \in 0 .. MaxCalls /\ issued \in 0 .. calls /\ calls < MaxCalls
    BY DEF IInv, TypeOK, Log, MayCall
  <1>2. m \in Messages
    BY <1>1, DDLogAssumption DEF Messages
  <1>3. b \in Blocks
    BY <1>2 DEF Blocks, Log, Callers
  <1>4. /\ loggingQueue' = Append(loggingQueue, b) /\ issued' = issued + 1
        /\ blocked' = IF sync THEN blocked \cup {c} ELSE blocked
        /\ UNCHANGED <<registry, running, job, todo, outstanding, effects>>
    BY DEF Log
  <1>5. b.op = "log" /\ b.arg = m
    OBVIOUS
  <1>6. \A n \in AtWork' : n \in AtWork \/ n = m
    <2> HIDE DEF m, b
    <2> QED
      BY <1>3, <1>4, <1>5, EnqueueWork
  <1>7. issued' <= MaxCalls /\ issued \in Nat
    BY <1>1, <1>4, DDLogAssumption
  <1> QED
    BY <1>2, <1>3, <1>4, <1>6, <1>7

LEMMA LoggedWork ==
    ASSUME IInv, NEW c \in Callers, NEW f \in Flags, NEW s \in BOOLEAN, Log(c, f, s)
    PROVE  /\ issued' = issued + 1
           /\ \A n \in AtWork' : n \in AtWork \/ n.id = issued + 1
  <1> DEFINE m == [id |-> issued + 1, flag |-> f, by |-> c, sync |-> s]
             b == [op |-> "log", arg |-> m, by |-> IF s THEN c ELSE None]
  <1>1. b \in Blocks
    BY LogFacts
  <1>2. loggingQueue' = Append(loggingQueue, b) /\ issued' = issued + 1 /\ UNCHANGED job
    BY DEF Log
  <1>3. b.op = "log" /\ b.arg = m /\ m.id = issued + 1
    OBVIOUS
  <1> HIDE DEF m, b
  <1> QED
    BY <1>1, <1>2, <1>3, EnqueueWork

LEMMA DirectWork ==
    ASSUME IInv, NEW f \in Flags, LogDirectly(f)
    PROVE  /\ issued' = issued + 1 /\ issued \in Nat
           /\ UNCHANGED <<registry, loggingQueue, running, blocked, effects>>
           /\ \A n \in AtWork' : n \in AtWork \/ n.id = issued + 1
  <1>1. /\ issued' = issued + 1 /\ UNCHANGED <<registry, loggingQueue, running, blocked, effects>>
        /\ job'.arg.id = issued + 1
    BY DEF LogDirectly
  <1>2. issued \in Nat
    BY DDLogAssumption DEF IInv, TypeOK
  <1> QED
    BY <1>1, <1>2 DEF AtWork

\* What is left of the logging queue when its head is taken.
LEMMA QueueTail ==
    ASSUME IInv, loggingQueue # <<>>, loggingQueue' = Tail(loggingQueue)
    PROVE  /\ \A i \in DOMAIN loggingQueue' : \E j \in DOMAIN loggingQueue :
                 loggingQueue'[i] = loggingQueue[j]
           /\ \A j \in DOMAIN loggingQueue :
                 \/ loggingQueue[j] = Head(loggingQueue)
                 \/ \E i \in DOMAIN loggingQueue' : loggingQueue'[i] = loggingQueue[j]
  <1>1. loggingQueue \in Seq(Blocks)
    BY DEF IInv, TypeOK
  <1>2. /\ \A i \in DOMAIN loggingQueue' :
              i \in Nat /\ i + 1 \in DOMAIN loggingQueue /\ loggingQueue'[i] = loggingQueue[i + 1]
        /\ loggingQueue[1] = Head(loggingQueue)
    BY HeadFacts
  <1>3. \A j \in DOMAIN loggingQueue : j = 1 \/ (j - 1 \in DOMAIN loggingQueue' /\ (j - 1) + 1 = j)
    <2>1. /\ DOMAIN loggingQueue = 1 .. Len(loggingQueue) /\ Len(loggingQueue) \in Nat
          /\ DOMAIN loggingQueue' = 1 .. (Len(loggingQueue) - 1)
      BY <1>1, HeadTailProperties, LenProperties
    <2> QED
      BY <2>1
  <1> QED
    BY <1>2, <1>3

\* The queues make no new messages.
LEMMA RunWork ==
    ASSUME IInv, RunLoggingQueue \/ \E q \in QueueIds : RunLoggerQueue(q)
    PROVE  issued' = issued /\ AtWork' \subseteq AtWork
  <1>1. CASE lt_addLogger \/ lt_removeLogger \/ lt_allLoggers \/ ForwardFormatter
    <2>1. /\ loggingQueue # <<>> /\ loggingQueue' = Tail(loggingQueue) /\ issued' = issued
          /\ UNCHANGED job
      BY <1>1 DEF lt_addLogger, lt_removeLogger, lt_allLoggers, ForwardFormatter, IsNext,
                 RunsAtOnce, callers
    <2> QED
      BY <2>1, QueueTail DEF AtWork
  <1>2. ASSUME NEW op, NEW j, NEW nodes, Starts(op, j, nodes),
               j.kind = "logMessage" => op = "log" /\ j.arg = Head(loggingQueue).arg
        PROVE  issued' = issued /\ AtWork' \subseteq AtWork
    <2>1. /\ loggingQueue # <<>> /\ loggingQueue' = Tail(loggingQueue) /\ issued' = issued
          /\ Head(loggingQueue).op = op /\ job' = j
      BY <1>2 DEF Starts, IsNext, callers
    <2>2. \E i \in DOMAIN loggingQueue : loggingQueue[i] = Head(loggingQueue)
      BY <2>1, HeadFacts
    <2> QED
      BY <1>2, <2>1, <2>2, QueueTail DEF AtWork
  <1>3. CASE lt_log
    BY <1>2, <1>3 DEF lt_log
  <1>4. CASE lt_removeAllLoggers \/ lt_flush \/ GetFormatter \/ ClientBlock
    BY <1>2, <1>4 DEF lt_removeAllLoggers, lt_flush, GetFormatter, ClientBlock, NoJob
  <1>5. CASE VisitNode \/ ClientBlockEnds
    BY <1>5 DEF VisitNode, ClientBlockEnds, AtWork, callers
  <1>6. CASE FinishJob
    BY <1>6 DEF FinishJob, AtWork, NoJob
  <1>7. ASSUME NEW q \in QueueIds, RunLoggerQueue(q)
        PROVE  issued' = issued /\ AtWork' \subseteq AtWork
    <2>1. logMessage(q) => UNCHANGED <<loggingQueue, job, issued>>
      BY DEF logMessage, callers
    <2>2. flush(q) => UNCHANGED <<loggingQueue, job, issued>>
      BY DEF flush, callers
    <2>3. ReadFormatter(q) => UNCHANGED <<loggingQueue, job, issued>>
      BY DEF ReadFormatter, callers
    <2>4. WriteFormatter(q) \/ didAddLogger(q) \/ willRemoveLogger(q)
          => UNCHANGED <<loggingQueue, job, issued>>
      BY DEF WriteFormatter, didAddLogger, willRemoveLogger, engine, callers
    <2>5. UNCHANGED <<loggingQueue, job, issued>>
      BY <1>7, <2>1, <2>2, <2>3, <2>4 DEF RunLoggerQueue
    <2> QED
      BY <2>5 DEF AtWork
  <1> QED
    BY <1>1, <1>3, <1>4, <1>5, <1>6, <1>7 DEF RunLoggingQueue

\* Messages keep their numbers, and a new one has the next.
LEMMA WorkStep ==
    ASSUME IInv, [Next]_vars
    PROVE  /\ issued \in Nat /\ issued' \in {issued, issued + 1}
           /\ \A m \in AtWork' : m \in AtWork \/ (issued' = issued + 1 /\ m.id = issued')
  <1>0. issued \in Nat
    BY DDLogAssumption DEF IInv, TypeOK
  <1>1. ASSUME NEW c \in Callers, NEW f \in Flags, NEW s \in BOOLEAN, Log(c, f, s)
        PROVE  /\ issued' = issued + 1
               /\ \A m \in AtWork' : m \in AtWork \/ m.id = issued + 1
    BY <1>1, LoggedWork
  <1>2. ASSUME NEW f \in Flags, LogDirectly(f)
        PROVE  /\ issued' = issued + 1
               /\ \A m \in AtWork' : m \in AtWork \/ m.id = issued + 1
    BY <1>2, DirectWork
  <1>3. ASSUME CallApi,
               ~ \E c \in Callers, f \in Flags, s \in BOOLEAN : Log(c, f, s),
               ~ \E f \in Flags : LogDirectly(f)
        PROVE  issued' = issued /\ AtWork' \subseteq AtWork
    <2>1. /\ issued' = issued /\ UNCHANGED job
          /\ \E b : b.op # "log" /\ loggingQueue' = Append(loggingQueue, b)
      BY <1>3, QuietCall
    <2>2. PICK b : b.op # "log" /\ loggingQueue' = Append(loggingQueue, b)
      BY <2>1
    <2>3. loggingQueue' \in Seq(Blocks) /\ loggingQueue \in Seq(Blocks)
      BY <1>3, QuietCall DEF IInv, TypeOK
    <2>4. b \in Blocks
      <3>1. /\ Len(loggingQueue) + 1 \in DOMAIN Append(loggingQueue, b)
            /\ Append(loggingQueue, b)[Len(loggingQueue) + 1] = b
        BY <2>3
      <3> QED
        BY <2>2, <2>3, <3>1, SeqElements
    <2> QED
      BY <2>1, <2>2, <2>4, EnqueueWork
  <1>4. CASE RunLoggingQueue \/ \E q \in QueueIds : RunLoggerQueue(q)
    BY <1>0, <1>4, RunWork
  <1>5. CASE Stopped \/ UNCHANGED vars
    <2>1. UNCHANGED <<loggingQueue, job, issued>>
      BY <1>5 DEF Stopped, vars, engine, callers
    <2> QED
      BY <1>0, <2>1 DEF AtWork
  <1>6. CASE CallApi
    BY <1>1, <1>2, <1>3, <1>6, <1>0
  <1> QED
    BY <1>0, <1>4, <1>5, <1>6 DEF Next

-----------------------------------------------------------------------------
(* What is urgent is synchronous.                                            *)

LEMMA UrgentStep ==
    ASSUME IInv, UrgentAreSynchronous, [FrontNext]_allVars
    PROVE  UrgentAreSynchronous'
  <1> USE FrontEndsAssumption
  <1>a. AppThreads \subseteq Threads /\ AppThreads \subseteq Callers
    BY DEF AppThreads, Callers
  <1>b. \A m \in AtWork : m.id \in Nat
    BY AtWorkMessages
  <1>1. ASSUME urgent' = urgent
        PROVE  UrgentAreSynchronous'
    <2>1. /\ issued \in Nat /\ issued' \in {issued, issued + 1}
          /\ \A m \in AtWork' : m \in AtWork \/ (issued' = issued + 1 /\ m.id = issued')
      BY FrontStep, WorkStep
    <2>2. issued + 1 \notin urgent /\ urgent \subseteq 1 .. issued'
      BY <2>1 DEF UrgentAreSynchronous
    <2>3. ASSUME NEW m \in AtWork' PROVE m.id <= issued' /\ (m.id \in urgent => m.sync /\ m.by \in Threads)
      BY <1>b, <2>1, <2>2 DEF UrgentAreSynchronous
    <2> QED
      BY <1>1, <2>2, <2>3 DEF UrgentAreSynchronous
  <1>2. ASSUME NEW t \in AppThreads, NEW f \in Flags, Log(t, f, TRUE), urgent' = urgent \cup {issued + 1}
        PROVE  UrgentAreSynchronous'
    <2> DEFINE m == [id |-> issued + 1, flag |-> f, by |-> t, sync |-> TRUE]
    <2>1. /\ issued' = issued + 1 /\ issued \in Nat
          /\ \A n \in AtWork' : n \in AtWork \/ n = m
      BY <1>a, <1>2, LogFacts
    <2>2. m.id = issued + 1 /\ m.sync /\ m.by \in Threads
      BY <1>a
    <2> HIDE DEF m
    <2>3. urgent' \subseteq 1 .. issued' /\ issued + 1 \notin urgent
      BY <1>2, <2>1 DEF UrgentAreSynchronous
    <2>4. ASSUME NEW n \in AtWork' PROVE n.id <= issued' /\ (n.id \in urgent' => n.sync /\ n.by \in Threads)
      <3>1. CASE n \in AtWork
        BY <1>2, <1>b, <2>1, <3>1 DEF UrgentAreSynchronous
      <3>2. CASE n = m
        BY <2>1, <2>2, <3>2
      <3> QED
        BY <2>1, <3>1, <3>2
    <2> QED
      BY <2>3, <2>4 DEF UrgentAreSynchronous
  <1>3. ASSUME NEW t \in AppThreads, NEW f \in Flags, NEW async \in BOOLEAN, NEW promised,
               Statement(t, f, async, promised), promised => ~async
        PROVE  UrgentAreSynchronous'
    <2>1. CASE promised
      <3>1. (~async) = TRUE
        BY <1>3, <2>1
      <3> QED
        BY <1>2, <1>3, <2>1, <3>1 DEF Statement
    <2>2. CASE ~promised
      BY <1>1, <1>3, <2>2 DEF Statement
    <2> QED
      BY <2>1, <2>2
  <1>4. ASSUME NEW t \in AppThreads, NEW f \in Flags, LogMacro(t, f)
        PROVE  UrgentAreSynchronous'
    <2>1. (f # ErrorFlag /\ AsyncEnabled) \in BOOLEAN
      OBVIOUS
    <2>2. Statement(t, f, f # ErrorFlag /\ AsyncEnabled, f = ErrorFlag)
      BY <1>4 DEF LogMacro
    <2> QED
      BY <1>3, <2>1, <2>2
  <1>5. ASSUME NEW t \in AppThreads, NEW f \in Flags, NEW a \in BOOLEAN \cup {None}, LogFunction(t, f, a)
        PROVE  UrgentAreSynchronous'
    <2>1. PICK enabled \in BOOLEAN :
             Statement(t, f, Asynchronous(f, a, enabled), f = ErrorFlag /\ a # TRUE)
      BY <1>5 DEF LogFunction
    <2>2. Asynchronous(f, a, enabled) \in BOOLEAN
      BY AsynchronousFacts
    <2>3. (f = ErrorFlag /\ a # TRUE) => ~Asynchronous(f, a, enabled)
      BY DEF Asynchronous
    <2> QED
      BY <1>3, <2>1, <2>2, <2>3
  <1>6. ASSUME NEW t \in AppThreads, NEW v \in SwiftLogLevels, NEW s \in BOOLEAN \cup {None},
               SwiftLog(t, v, s)
        PROVE  UrgentAreSynchronous'
    <2>1. logAsync(v, s) \in BOOLEAN /\ FlagOfLevel[v] \in Flags
      BY AsynchronousFacts
    <2>2. v >= Threshold => ~logAsync(v, s)
      BY DEF logAsync, SwiftLogLevels
    <2> QED
      BY <1>3, <1>6, <2>1, <2>2 DEF SwiftLog
  <1>7. ASSUME NEW t \in AppThreads, NEW a \in BOOLEAN \cup {None}, DDAssert(t, a)
        PROVE  UrgentAreSynchronous'
    <2>1. \/ urgent' = urgent
          \/ Log(t, ErrorFlag, TRUE) /\ urgent' = urgent \cup {issued + 1}
      BY <1>7, AssertionLogs
    <2> QED
      BY <1>1, <1>2, <2>1
  <1>8. CASE FrontEnds
    <2>1. ASSUME NEW t \in AppThreads, assertionFailure(t) \/ receiveSubscription(t) \/ clearSubscriber(t)
          PROVE  urgent' = urgent
      BY <2>1 DEF assertionFailure, receiveSubscription, clearSubscriber
    <2>2. ASSUME NEW t \in AppThreads, NEW s \in Subscriptions, NEW v, receive(t, s, v) \/ cancel(t, s)
          PROVE  urgent' = urgent
      BY <2>2 DEF receive, cancel
    <2>3. ASSUME NEW s \in Subscriptions, cancelWhileReceiving(s)
          PROVE  urgent' = urgent
      BY <2>3 DEF cancelWhileReceiving
    <2> QED
      BY <1>1, <1>4, <1>5, <1>6, <1>7, <1>8, <2>1, <2>2, <2>3 DEF FrontEnds
  <1>9. CASE UNCHANGED front
    BY <1>1, <1>9 DEF front
  <1>10. ASSUME NEW q \in QueueIds, RunFrontQueue(q)
         PROVE  urgent' = urgent
    BY <1>10 DEF RunFrontQueue, log, receiveValue, front
  <1> QED
    BY <1>1, <1>8, <1>9, <1>10 DEF FrontNext, OtherCalls, ClientBlockLogs, FrontStopped, allVars

-----------------------------------------------------------------------------
(* A thread that logged synchronously is freed when its statement is over.   *)

\* As long as a thread is blocked, its block waits or runs.
LEMMA AwaitsStep ==
    ASSUME IInv, [Next]_vars, NEW t \in Threads, NEW k, t \in blocked, Awaits(t, k), t \in blocked'
    PROVE  Awaits(t, k)'
  <1>1. ASSUME NEW b, loggingQueue' = Append(loggingQueue, b), UNCHANGED running
        PROVE  Awaits(t, k)'
    <2>1. loggingQueue \in Seq(Blocks)
      BY DEF IInv, TypeOK
    <2>2. \A i \in DOMAIN loggingQueue : i \in DOMAIN loggingQueue' /\ loggingQueue'[i] = loggingQueue[i]
      BY <1>1, <2>1, LenProperties
    <2> QED
      BY <1>1, <2>2 DEF Awaits
  <1>2. CASE CallApi
    <2>1. CASE \E f \in Flags : LogDirectly(f)
      BY <2>1 DEF LogDirectly, Awaits
    <2>2. CASE \E c \in Callers, f \in Flags, s \in BOOLEAN : Log(c, f, s)
      BY <1>1, <2>2 DEF Log
    <2>3. CASE /\ ~ \E c \in Callers, f \in Flags, s \in BOOLEAN : Log(c, f, s)
               /\ ~ \E f \in Flags : LogDirectly(f)
      BY <1>1, <1>2, <2>3, QuietCall
    <2> QED
      BY <2>1, <2>2, <2>3
  <1>3. CASE lt_addLogger \/ lt_removeLogger \/ lt_allLoggers \/ ForwardFormatter
    <2>1. /\ loggingQueue # <<>> /\ loggingQueue' = Tail(loggingQueue) /\ UNCHANGED running
          /\ Head(loggingQueue).op # "log"
      BY <1>3 DEF lt_addLogger, lt_removeLogger, lt_allLoggers, ForwardFormatter, IsNext, RunsAtOnce
    <2> QED
      BY <2>1, QueueTail DEF Awaits
  <1>4. ASSUME NEW op, NEW j, NEW nodes, Starts(op, j, nodes)
        PROVE  Awaits(t, k)'
    <2>1. /\ loggingQueue # <<>> /\ loggingQueue' = Tail(loggingQueue) /\ running = NoBlock
          /\ running' = Head(loggingQueue)
      BY <1>4 DEF Starts, IsNext
    <2> QED
      BY <2>1, QueueTail DEF Awaits, NoBlock
  <1>5. CASE lt_log \/ lt_removeAllLoggers \/ lt_flush \/ GetFormatter \/ ClientBlock
    BY <1>4, <1>5 DEF lt_log, lt_removeAllLoggers, lt_flush, GetFormatter, ClientBlock
  <1>6. CASE VisitNode \/ ClientBlockEnds
    BY <1>6 DEF VisitNode, ClientBlockEnds, Awaits
  <1>7. CASE FinishJob
    <2>1. CASE running.op = "client"
      BY <1>7, <2>1 DEF FinishJob, Awaits
    <2>2. CASE running.op # "client"
      <3>1. running.by # t /\ UNCHANGED loggingQueue
        BY <1>7, <2>2 DEF FinishJob
      <3> QED
        BY <3>1 DEF Awaits
    <2> QED
      BY <2>1, <2>2
  <1>8. CASE UNCHANGED vars \/ Stopped \/ \E q \in QueueIds : RunLoggerQueue(q)
    <2>1. UNCHANGED <<loggingQueue, running>>
      BY <1>8 DEF Stopped, vars, RunLoggerQueue, logMessage, flush, ReadFormatter, WriteFormatter,
                  didAddLogger, willRemoveLogger, engine
    <2> QED
      BY <2>1 DEF Awaits
  <1> QED
    BY <1>2, <1>3, <1>5, <1>6, <1>7, <1>8 DEF Next, RunLoggingQueue

\* When it is freed, the messages that are left are younger.
LEMMA FreedStep ==
    ASSUME IInv, [Next]_vars, NEW t \in Threads, NEW k \in Nat, t \in blocked, Awaits(t, k),
           t \notin blocked'
    PROVE  \A m \in AtWork' : m.id > k
  <1>0. /\ \A i \in DOMAIN loggingQueue : loggingQueue[i].by \in Threads =>
              \A j \in DOMAIN loggingQueue : i # j => loggingQueue[i].by # loggingQueue[j].by
        /\ \A i \in DOMAIN loggingQueue : loggingQueue[i].by \in Threads => loggingQueue[i].by # running.by
    BY DEF IInv, OneBlockPerThread
  <1>1. ~lt_allLoggers
    <2> SUFFICES ASSUME lt_allLoggers PROVE FALSE
      OBVIOUS
    <2>1. /\ running = NoBlock /\ loggingQueue # <<>> /\ Head(loggingQueue).op = "list"
          /\ blocked' = blocked \ {Head(loggingQueue).by}
      BY DEF lt_allLoggers, IsNext
    <2>2. Head(loggingQueue).by = t /\ 1 \in DOMAIN loggingQueue /\ Head(loggingQueue) = loggingQueue[1]
      BY <2>1, HeadFacts
    <2> QED
      BY <1>0, <2>1, <2>2 DEF Awaits, NoBlock
  <1>2. FinishJob
    <2>1. ~CallApi
      BY DEF CallApi, Log, LogDirectly, AddLogger, RemoveLogger, RemoveAllLoggers, AllLoggers,
             FlushLog, ApplicationWillTerminate, SetLogFormatter, LogFormatter,
             DispatchClientBlock, DispatchAsync, DispatchSync
    <2>2. RunLoggingQueue => FinishJob
      BY <1>1 DEF RunLoggingQueue, lt_addLogger, lt_removeLogger, lt_removeAllLoggers,
             ForwardFormatter, lt_log, lt_flush, GetFormatter, ClientBlock,
             VisitNode, ClientBlockEnds, Starts, callers
    <2>3. \A q \in QueueIds : ~RunLoggerQueue(q)
      BY DEF RunLoggerQueue, logMessage, flush, ReadFormatter, WriteFormatter, didAddLogger,
             willRemoveLogger, callers
    <2> QED
      BY <2>1, <2>2, <2>3 DEF Next, Stopped, vars, callers
  <1>3. running.by = t /\ job' = NoJob /\ UNCHANGED loggingQueue
    BY <1>2 DEF FinishJob
  <1>4. running.op = "log" /\ running.arg.id = k
    BY <1>0, <1>3 DEF Awaits
  <1>5. job.kind = "logMessage" /\ job.arg = running.arg
    BY <1>4 DEF IInv, JobDiscipline
  <1>6. ~Direct(job.arg)
    BY <1>3, <1>4, <1>5, DDLogAssumption DEF Direct, IInv, SyncMessageNamesCaller
  <1>7. \A i \in DOMAIN loggingQueue : loggingQueue[i].op = "log" => k < loggingQueue[i].arg.id
    BY <1>4, <1>5, <1>6 DEF IInv, JobIsOldest
  <1>8. \A m \in AtWork' : \E i \in DOMAIN loggingQueue : loggingQueue[i].op = "log" /\ m = loggingQueue[i].arg
    BY <1>3 DEF AtWork, NoJob
  <1>9. \A m \in AtWork : m.id \in Nat
    BY AtWorkMessages
  <1> QED
    BY <1>7, <1>8, <1>9 DEF AtWork

\* So what is known of a statement stays true, unless its thread makes another call.
LEMMA WaitsStep ==
    ASSUME IInv, [Next]_vars, NEW t \in Threads, NEW k \in Nat, k <= issued, Waits(t, k),
           t \notin blocked => t \notin blocked'
    PROVE  Waits(t, k)'
  <1>1. /\ issued \in Nat /\ issued' \in {issued, issued + 1}
        /\ \A m \in AtWork' : m \in AtWork \/ (issued' = issued + 1 /\ m.id = issued')
    BY WorkStep
  <1>3. ASSUME t \notin blocked' PROVE \A m \in AtWork' : m.id > k
    <2>1. CASE t \in blocked
      BY <1>3, <2>1, FreedStep DEF Waits, Awaits
    <2>2. CASE t \notin blocked
      BY <1>1, <1>3, <2>2 DEF Waits
    <2> QED
      BY <2>1, <2>2
  <1>4. ASSUME t \in blocked' PROVE Awaits(t, k)'
    BY <1>4, AwaitsStep DEF Waits, Awaits
  <1> QED
    BY <1>3, <1>4 DEF Waits, Awaits

\* A thread that is in the middle of an assertion makes no other call.
LEMMA BusyStep ==
    ASSUME [FrontNext]_allVars, NEW t \in AppThreads, doing[t] \in Nat, t \notin blocked
    PROVE  t \notin blocked'
  <1> USE FrontEndsAssumption
  <1>1. ~Free(t) /\ t \notin Subscriptions /\ t # OnLoggingQueue
    BY DDLogAssumption DEF Free, AppThreads
  <1>2. ASSUME NEW u, u # t, NEW f, NEW s, Log(u, f, s) PROVE t \notin blocked'
    BY <1>2 DEF Log
  <1>3. CASE FrontEnds
    <2>1. ASSUME NEW u \in AppThreads, NEW f, NEW a, NEW p, Statement(u, f, a, p)
          PROVE  t \notin blocked'
      BY <1>1, <1>2, <2>1 DEF Statement
    <2>2. ASSUME NEW u \in AppThreads, NEW f, NEW a, LogMacro(u, f) \/ LogFunction(u, f, a) \/ SwiftLog(u, f, a)
          PROVE  t \notin blocked'
      BY <2>1, <2>2 DEF LogMacro, LogFunction, SwiftLog
    <2>3. ASSUME NEW u \in AppThreads, NEW a, DDAssert(u, a) PROVE t \notin blocked'
      BY <1>1, <1>2, <2>3 DEF DDAssert, vars, callers
    <2>4. ASSUME NEW u \in AppThreads, assertionFailure(u) \/ receiveSubscription(u) \/ clearSubscriber(u)
          PROVE  t \notin blocked'
      BY <2>4 DEF assertionFailure, receiveSubscription, clearSubscriber, vars, callers
    <2>5. ASSUME NEW u \in AppThreads, NEW s, NEW v, receive(u, s, v) \/ cancel(u, s)
          PROVE  t \notin blocked'
      BY <2>5 DEF receive, cancel, AddLogger, RemoveLogger, DispatchAsync
    <2>6. ASSUME NEW s, cancelWhileReceiving(s) PROVE t \notin blocked'
      BY <2>6 DEF cancelWhileReceiving, RemoveLogger, DispatchAsync
    <2> QED
      BY <1>3, <2>2, <2>3, <2>4, <2>5, <2>6 DEF FrontEnds
  <1>4. CASE OtherCalls
    BY <1>1, <1>4 DEF OtherCalls, AddLogger, RemoveLogger, RemoveAllLoggers, AllLoggers, FlushLog,
           ApplicationWillTerminate, SetLogFormatter, LogFormatter, DispatchClientBlock,
           DispatchAsync, DispatchSync
  <1>5. CASE ClientBlockLogs
    BY <1>1, <1>5 DEF ClientBlockLogs, LogDirectly, Log
  <1>6. CASE RunLoggingQueue
    BY <1>6 DEF RunLoggingQueue, lt_addLogger, lt_removeLogger, lt_removeAllLoggers, lt_allLoggers,
           ForwardFormatter, lt_log, lt_flush, GetFormatter, ClientBlock, VisitNode, FinishJob,
           ClientBlockEnds, Starts, callers
  <1>7. ASSUME NEW q \in QueueIds, RunFrontQueue(q) PROVE t \notin blocked'
    BY <1>7 DEF RunFrontQueue, log, receiveValue, RunLoggerQueue, logMessage, flush, ReadFormatter,
           WriteFormatter, didAddLogger, willRemoveLogger, vars, callers
  <1>8. CASE FrontStopped \/ UNCHANGED allVars
    BY <1>8 DEF FrontStopped, allVars, vars, callers
  <1> QED
    BY <1>3, <1>4, <1>5, <1>6, <1>7, <1>8 DEF FrontNext

\* It is in the middle of an assertion only since its own statement.
LEMMA DoingStep ==
    ASSUME FrontTypeOK, [FrontNext]_allVars, NEW t \in AppThreads
    PROVE  \/ doing'[t] = doing[t]
           \/ doing'[t] \notin Nat \ {0}
           \/ /\ doing'[t] = issued + 1 /\ issued' = issued + 1
              /\ Log(t, ErrorFlag, TRUE) \/ urgent' = urgent
  <1> USE FrontEndsAssumption
  <1>0. /\ DOMAIN doing = AppThreads
        /\ \A u \in AppThreads : doing[u] \in Subscriptions \cup {None} \cup 0 .. MaxCalls
    BY DEF FrontTypeOK
  <1>1. CASE FrontEnds
    <2>1. ASSUME NEW u \in AppThreads, NEW a \in BOOLEAN \cup {None}, DDAssert(u, a)
          PROVE  \/ doing'[t] = doing[t] \/ doing'[t] = 0
                 \/ /\ doing'[t] = issued + 1 /\ issued' = issued + 1
                    /\ Log(t, ErrorFlag, TRUE) \/ urgent' = urgent
      <3>1. \A sync : Log(u, ErrorFlag, sync) => issued' = issued + 1
        BY DEF Log
      <3>2. \/ /\ doing' = [doing EXCEPT ![u] = issued + 1] /\ issued' = issued + 1
               /\ Log(u, ErrorFlag, TRUE) \/ urgent' = urgent
            \/ doing' = [doing EXCEPT ![u] = 0]
        BY <2>1, <3>1, AssertionLogs
      <3> QED
        BY <1>0, <3>2
    <2>2. ASSUME NEW u \in AppThreads, assertionFailure(u) \/ receiveSubscription(u) \/ clearSubscriber(u)
          PROVE  doing'[t] = doing[t] \/ doing'[t] = None
      BY <1>0, <2>2 DEF assertionFailure, receiveSubscription, clearSubscriber
    <2>3. ASSUME NEW u \in AppThreads, NEW s \in Subscriptions, NEW v, receive(u, s, v) \/ cancel(u, s)
          PROVE  doing'[t] = doing[t] \/ doing'[t] = s
      BY <1>0, <2>3 DEF receive, cancel
    <2>4. ASSUME NEW u, NEW f, NEW a, \/ LogMacro(u, f) \/ LogFunction(u, f, a) \/ SwiftLog(u, f, a)
                                    \/ cancelWhileReceiving(u)
          PROVE  doing' = doing
      BY <2>4 DEF LogMacro, LogFunction, SwiftLog, Statement, cancelWhileReceiving
    <2> QED
      BY <1>1, <2>1, <2>2, <2>3, <2>4 DEF FrontEnds
  <1>2. ASSUME NEW q \in QueueIds, RunFrontQueue(q) PROVE doing' = doing
    BY <1>2 DEF RunFrontQueue, log, receiveValue, front
  <1>3. CASE UNCHANGED front
    BY <1>3 DEF front
  <1> QED
    BY <1>1, <1>2, <1>3 DEF FrontNext, OtherCalls, ClientBlockLogs, FrontStopped, allVars

\* A synchronous statement waits as soon as it is made.
LEMMA StatementWaits ==
    ASSUME IInv, NEW t \in AppThreads, NEW f \in Flags, NEW k, k = issued + 1, Log(t, f, TRUE)
    PROVE  Waits(t, k)'
  <1> DEFINE m == [id |-> issued + 1, flag |-> f, by |-> t, sync |-> TRUE]
             b == [op |-> "log", arg |-> m, by |-> t]
  <1>1. /\ m \in Messages /\ b \in Blocks /\ loggingQueue' = Append(loggingQueue, b)
        /\ issued' = k /\ issued \in Nat /\ t \in blocked'
    <2>1. t \in Callers /\ TRUE \in BOOLEAN
      BY DEF AppThreads, Callers
    <2>2. LET b1 == [op |-> "log", arg |-> m, by |-> IF TRUE THEN t ELSE None]
          IN  /\ m \in Messages /\ b1 \in Blocks /\ loggingQueue' = Append(loggingQueue, b1)
              /\ issued' = issued + 1 /\ issued \in Nat
              /\ blocked' = IF TRUE THEN blocked \cup {t} ELSE blocked
      BY <2>1, LogFacts
    <2> QED
      BY <2>2
  <1>2. b.op = "log" /\ b.by = t /\ b.arg.id = k
    OBVIOUS
  <1> HIDE DEF m, b
  <1>3. loggingQueue \in Seq(Blocks)
    BY DEF IInv, TypeOK
  <1>4. /\ Len(loggingQueue) + 1 \in DOMAIN loggingQueue'
        /\ loggingQueue'[Len(loggingQueue) + 1] = b
    BY <1>1, <1>3
  <1>5. Awaits(t, k)'
    BY <1>1, <1>2, <1>4 DEF Awaits
  <1> QED
    BY <1>1, <1>5 DEF Waits

LEMMA UrgentGrows ==
    ASSUME [FrontNext]_allVars
    PROVE  urgent' = urgent \/ urgent' = urgent \cup {issued + 1}
  <1>1. ASSUME NEW t, NEW f, NEW a, LogMacro(t, f) \/ LogFunction(t, f, a) \/ SwiftLog(t, f, a)
        PROVE  urgent' = urgent \/ urgent' = urgent \cup {issued + 1}
    BY <1>1 DEF LogMacro, LogFunction, SwiftLog, Statement
  <1>2. ASSUME NEW t, NEW a, DDAssert(t, a)
        PROVE  urgent' = urgent \/ urgent' = urgent \cup {issued + 1}
    BY <1>2 DEF DDAssert
  <1>3. ASSUME NEW t, NEW s, NEW v,
               \/ assertionFailure(t) \/ receiveSubscription(t) \/ clearSubscriber(t)
               \/ receive(t, s, v) \/ cancel(t, s) \/ cancelWhileReceiving(s)
        PROVE  urgent' = urgent
    BY <1>3 DEF assertionFailure, receiveSubscription, clearSubscriber, receive, cancel,
                cancelWhileReceiving
  <1>4. ASSUME NEW q \in QueueIds, RunFrontQueue(q) PROVE urgent' = urgent
    BY <1>4 DEF RunFrontQueue, log, receiveValue, front
  <1>5. CASE FrontEnds
    BY <1>1, <1>2, <1>3, <1>5 DEF FrontEnds
  <1>6. CASE UNCHANGED front
    BY <1>6 DEF front
  <1> QED
    BY <1>4, <1>5, <1>6 DEF FrontNext, OtherCalls, ClientBlockLogs, FrontStopped, allVars

LEMMA AssertionStep ==
    ASSUME IInv, FrontTypeOK, UrgentAreSynchronous, AssertionWaits, [FrontNext]_allVars
    PROVE  AssertionWaits'
  <1>0. SUFFICES ASSUME NEW t \in AppThreads, NEW k \in Nat \ {0}, doing'[t] = k
                 PROVE  k <= issued' /\ (k \in urgent' => Waits(t, k)')
    BY DEF AssertionWaits, Waits, Awaits
  <1>a. issued \in Nat /\ issued' \in {issued, issued + 1}
    BY FrontStep, WorkStep
  <1>1. CASE doing[t] = k
    <2>1. t \in Threads /\ k <= issued /\ (k \in urgent => Waits(t, k))
      BY <1>1 DEF AssertionWaits, AppThreads
    <2>2. t \notin blocked => t \notin blocked'
      BY <1>1, BusyStep
    <2>3. k \in urgent' => k \in urgent
      BY <1>a, <2>1, UrgentGrows
    <2>4. k \in urgent => Waits(t, k)'
      BY <2>1, <2>2, FrontStep, WaitsStep
    <2> QED
      BY <1>a, <2>1, <2>3, <2>4
  <1>2. CASE k = issued + 1 /\ issued' = issued + 1 /\ (Log(t, ErrorFlag, TRUE) \/ urgent' = urgent)
    <2>1. CASE Log(t, ErrorFlag, TRUE)
      <3>1. Waits(t, k)'
        BY <1>2, <2>1, StatementWaits, FrontEndsAssumption
      <3> QED
        BY <1>2, <3>1
    <2>2. CASE urgent' = urgent
      <3>1. k \notin urgent'
        BY <1>a, <1>2, <2>2 DEF UrgentAreSynchronous
      <3> QED
        BY <1>2, <3>1
    <2> QED
      BY <1>2, <2>1, <2>2
  <1> QED
    BY <1>0, <1>1, <1>2, DoingStep

-----------------------------------------------------------------------------
(* Types.                                                                    *)

LEMMA GivenFacts ==
    ASSUME FrontTypeOK, NEW s \in Subscriptions
    PROVE  /\ Given(s) \in Nat
           /\ s \in receiving => Given(s) = Len(values[s]) + 1
           /\ s \notin receiving => Given(s) = Len(values[s])
  <1>1. values[s] \in Seq(Messages) /\ Len(values[s]) \in Nat
    BY LenProperties DEF FrontTypeOK
  <1>2. /\ s \in receiving => receiving \cap {s} = {s}
        /\ s \notin receiving => receiving \cap {s} = {}
        /\ Cardinality({s}) = 1 /\ Cardinality({}) = 0
    BY FS_Singleton, FS_EmptySet
  <1> DEFINE n == Len(values[s])
  <1>3. Given(s) = n + Cardinality(receiving \cap {s})
    BY DEF Given
  <1>4. /\ s \in receiving => Given(s) = n + 1
        /\ s \notin receiving => Given(s) = n + 0
    BY <1>2, <1>3
  <1>5. n \in Nat
    BY <1>1
  <1> HIDE DEF n
  <1>6. (s \in receiving => Given(s) = n + 1) /\ (s \notin receiving => Given(s) = n) /\ Given(s) \in Nat
    BY <1>4, <1>5
  <1> QED
    BY <1>6 DEF n

\* A message at the head of a logger's queue is the job's, for a registered node of it.
LEMMA MessageAtHead ==
    ASSUME IInv, ServiceInv, RegistryIsProper, NEW q \in QueueIds, AtMessage(q)
    PROVE  LET c == Head(loggerQueue[q])
           IN  /\ c \in Callbacks /\ c.arg \in Messages
               /\ c.node.logger = q[1]
               /\ q[1] \in Subscriptions => subscription[q[1]] # "none"
  <1> DEFINE c == Head(loggerQueue[q])
  <1>1. loggerQueue[q] \in Seq(Callbacks) /\ loggerQueue[q] # <<>> /\ c.kind = "logMessage"
    BY DEF IInv, TypeOK, AtMessage
  <1>2. c \in Callbacks /\ 1 \in DOMAIN loggerQueue[q] /\ c = loggerQueue[q][1]
    BY <1>1, TailFacts
  <1>3. c.arg \in Messages
    BY <1>1, <1>2 DEF Callbacks
  <1>4. c.node.queue = q /\ c.node \in outstanding /\ job.kind = "logMessage"
    BY <1>1, <1>2 DEF IInv, WaitedInGroup, WaitedKinds
  <1>5. c.node \in ToSet(loggers)
    BY <1>4 DEF ServiceInv, JobNodesRegistered
  <1>6. NodesAreProper(c.node)
    BY <1>5 DEF ToSet, RegistryIsProper
  <1> QED
    BY <1>2, <1>3, <1>4, <1>6 DEF NodesAreProper

LEMMA FrontTypeStep ==
    ASSUME IInv, ServiceInv, RegistryIsProper, FrontTypeOK, [FrontNext]_allVars
    PROVE  FrontTypeOK'
  <1> USE FrontEndsAssumption
  <1>1. CASE UNCHANGED front
    BY <1>1 DEF FrontTypeOK, front, combine
  <1>2. ASSUME NEW t, NEW f, NEW a, LogMacro(t, f) \/ LogFunction(t, f, a) \/ SwiftLog(t, f, a)
        PROVE  FrontTypeOK'
    BY <1>2 DEF FrontTypeOK, LogMacro, LogFunction, SwiftLog, Statement, combine
  <1>3. ASSUME NEW t \in AppThreads, NEW a \in BOOLEAN \cup {None}, DDAssert(t, a) PROVE FrontTypeOK'
    <2>1. \A sync : Log(t, ErrorFlag, sync) => issued + 1 \in 0 .. MaxCalls
      BY DDLogAssumption DEF Log, MayCall, IInv, TypeOK
    <2>2. 0 \in 0 .. MaxCalls
      BY DDLogAssumption
    <2>3. \E k \in 0 .. MaxCalls : doing' = [doing EXCEPT ![t] = k]
      BY <1>3, <2>1, <2>2, AssertionLogs
    <2>4. doing' \in [AppThreads -> Subscriptions \cup {None} \cup 0 .. MaxCalls]
      BY <2>3 DEF FrontTypeOK
    <2> QED
      BY <1>3, <2>4 DEF FrontTypeOK, DDAssert, combine
  <1>4. ASSUME NEW t \in AppThreads, assertionFailure(t) PROVE FrontTypeOK'
    BY <1>4 DEF FrontTypeOK, assertionFailure, combine
  <1>5. ASSUME NEW t \in AppThreads, receiveSubscription(t) \/ clearSubscriber(t) PROVE FrontTypeOK'
    <2>1. doing[t] \in Subscriptions
      BY <1>5 DEF receiveSubscription, clearSubscriber
    <2>2. Given(doing[t]) \in Nat
      BY <2>1, GivenFacts
    <2>3. None \in Subscriptions \cup {None} \cup 0 .. MaxCalls
      OBVIOUS
    <2>4. /\ doing' = [doing EXCEPT ![t] = None]
          /\ \/ subscription' = [subscription EXCEPT ![doing[t]] = "active"] /\ atCancel' = atCancel
             \/ /\ subscription' = [subscription EXCEPT ![doing[t]] = "cancelled"]
                /\ atCancel' = [atCancel EXCEPT ![doing[t]] = Given(doing[t])]
          /\ UNCHANGED <<receiving, values, aborted>>
      BY <1>5 DEF receiveSubscription, clearSubscriber
    <2>5. doing' \in [AppThreads -> Subscriptions \cup {None} \cup 0 .. MaxCalls]
      BY <2>3, <2>4 DEF FrontTypeOK
    <2>6. atCancel' \in [Subscriptions -> Nat]
      <3> DEFINE s == doing[t]
                 n == Given(s)
      <3>1. s \in Subscriptions /\ n \in Nat
        BY <2>1, <2>2
      <3>2. atCancel \in [Subscriptions -> Nat]
        BY DEF FrontTypeOK
      <3>3. atCancel' = atCancel \/ atCancel' = [atCancel EXCEPT ![s] = n]
        BY <2>4
      <3> HIDE DEF s, n
      <3> QED
        BY <3>1, <3>2, <3>3
    <2>7. subscription' \in [Subscriptions -> {"none", "adding", "active", "cancelling", "cancelled"}]
      BY <2>1, <2>4 DEF FrontTypeOK
    <2> QED
      BY <2>4, <2>5, <2>6, <2>7 DEF FrontTypeOK
  <1>6. ASSUME NEW t \in AppThreads, NEW s \in Subscriptions, NEW v, receive(t, s, v) \/ cancel(t, s)
        PROVE  FrontTypeOK'
    <2>1. /\ doing' = [doing EXCEPT ![t] = s]
          /\ \/ subscription' = [subscription EXCEPT ![s] = "adding"]
             \/ subscription' = [subscription EXCEPT ![s] = "cancelling"]
          /\ UNCHANGED <<receiving, values, atCancel, aborted>>
      BY <1>6 DEF receive, cancel
    <2>2. s \in Subscriptions \cup {None} \cup 0 .. MaxCalls
      OBVIOUS
    <2>3. doing' \in [AppThreads -> Subscriptions \cup {None} \cup 0 .. MaxCalls]
      BY <2>1, <2>2 DEF FrontTypeOK
    <2> QED
      BY <2>1, <2>3 DEF FrontTypeOK
  <1>7. ASSUME NEW s \in Subscriptions, cancelWhileReceiving(s) PROVE FrontTypeOK'
    BY <1>7, GivenFacts DEF FrontTypeOK, cancelWhileReceiving
  <1>8. ASSUME NEW q \in QueueIds, RunFrontQueue(q), ~UNCHANGED front PROVE FrontTypeOK'
    <2>1. q[1] \in Subscriptions /\ AtMessage(q) /\ (log(q) \/ receiveValue(q))
      BY <1>8 DEF RunFrontQueue, log, receiveValue
    <2>2. Head(loggerQueue[q]).arg \in Messages
      BY <2>1, MessageAtHead
    <2>3. CASE log(q)
      BY <2>1, <2>3 DEF FrontTypeOK, log
    <2>4. CASE receiveValue(q)
      <3>1. values' \in [Subscriptions -> Seq(Messages)]
        BY <2>1, <2>2, <2>4, AppendFacts DEF FrontTypeOK, receiveValue
      <3> QED
        BY <2>4, <3>1 DEF FrontTypeOK, receiveValue
    <2> QED
      BY <2>1, <2>3, <2>4
  <1>9. CASE FrontEnds
    BY <1>2, <1>3, <1>4, <1>5, <1>6, <1>7, <1>9 DEF FrontEnds
  <1> QED
    BY <1>1, <1>8, <1>9 DEF FrontNext, OtherCalls, ClientBlockLogs, FrontStopped, allVars

-----------------------------------------------------------------------------
(* The registry: queues belong to loggers, subscriptions to their publisher. *)

\* What is registered or is going to be was registered or going to be.
NodesKept ==
    /\ \A i \in DOMAIN loggers' :
          \/ \E j \in DOMAIN loggers : loggers'[i] = loggers[j]
          \/ \E j \in DOMAIN loggingQueue :
                loggingQueue[j].op = "add" /\ loggers'[i] = loggingQueue[j].arg
    /\ \A i \in DOMAIN loggingQueue' : loggingQueue'[i].op = "add" =>
          \E j \in DOMAIN loggingQueue : loggingQueue'[i] = loggingQueue[j]

\* A block joins the logging queue.
LEMMA JoinFacts ==
    ASSUME IInv, NEW b, loggingQueue' = Append(loggingQueue, b)
    PROVE  \A i \in DOMAIN loggingQueue' :
              \/ \E j \in DOMAIN loggingQueue : loggingQueue'[i] = loggingQueue[j]
              \/ loggingQueue'[i] = b
  <1>1. loggingQueue \in Seq(Blocks)
    BY DEF IInv, TypeOK
  <1> QED
    BY <1>1, LenProperties

LEMMA JoinKeeps ==
    ASSUME IInv, NEW b, b.op # "add", loggingQueue' = Append(loggingQueue, b), UNCHANGED loggers
    PROVE  NodesKept
  BY JoinFacts DEF NodesKept

\* The calls that add no logger.
LEMMA CallKeeps ==
    /\ \A c, f, s : IInv /\ Log(c, f, s) => NodesKept
    /\ \A f : IInv /\ LogDirectly(f) => NodesKept
    /\ \A c, op, arg : (IInv /\ op # "add" /\ DispatchAsync(c, op, arg)) => NodesKept
    /\ \A t, op, arg : (IInv /\ op # "add" /\ DispatchSync(t, op, arg)) => NodesKept
  <1>1. ASSUME NEW c, NEW f, NEW s, IInv, Log(c, f, s) PROVE NodesKept
    BY <1>1, JoinKeeps DEF Log, registry
  <1>2. ASSUME NEW f, IInv, LogDirectly(f) PROVE NodesKept
    BY <1>2 DEF LogDirectly, NodesKept, registry
  <1>3. ASSUME NEW c, NEW op, NEW arg, IInv, op # "add", DispatchAsync(c, op, arg) PROVE NodesKept
    BY <1>3, JoinKeeps DEF DispatchAsync, registry
  <1>4. ASSUME NEW c, NEW op, NEW arg, IInv, op # "add", DispatchSync(c, op, arg) PROVE NodesKept
    BY <1>4, JoinKeeps DEF DispatchSync, registry
  <1> QED
    BY <1>1, <1>2, <1>3, <1>4

\* A sequence without one of its elements.
LEMMA WithoutFacts ==
    ASSUME NEW S, NEW u \in Seq(S), NEW k \in DOMAIN u
    PROVE  LET w == SubSeq(u, 1, k - 1) \o SubSeq(u, k + 1, Len(u))
           IN  \A i \in DOMAIN w : \E j \in DOMAIN u : w[i] = u[j]
  <1> DEFINE s == SubSeq(u, 1, k - 1)
             t == SubSeq(u, k + 1, Len(u))
             w == s \o t
  <1>0. k \in 1 .. Len(u) /\ Len(u) \in Nat /\ DOMAIN u = 1 .. Len(u)
    BY LenProperties
  <1>1. s \in Seq(S) /\ Len(s) = k - 1 /\ \A i \in 1 .. k - 1 : s[i] = u[i]
    BY <1>0, SubSeqProperties
  <1>2. t \in Seq(S) /\ Len(t) = Len(u) - k /\ \A i \in 1 .. Len(u) - k : t[i] = u[i + k]
    BY <1>0, SubSeqProperties
  <1> HIDE DEF s, t
  <1>3. /\ w \in Seq(S) /\ Len(w) = Len(s) + Len(t)
        /\ \A i \in 1 .. Len(s) + Len(t) : w[i] = IF i <= Len(s) THEN s[i] ELSE t[i - Len(s)]
    BY <1>1, <1>2, ConcatProperties
  <1> HIDE DEF w
  <1>4. DOMAIN w = 1 .. Len(u) - 1
    BY <1>0, <1>1, <1>2, <1>3, LenProperties
  <1>5. ASSUME NEW i \in DOMAIN w PROVE \E j \in DOMAIN u : w[i] = u[j]
    <2>1. i \in 1 .. Len(u) - 1 /\ Len(s) + Len(t) = Len(u) - 1
      BY <1>0, <1>1, <1>2, <1>4
    <2>2. CASE i <= k - 1
      <3>1. i \in 1 .. k - 1 /\ w[i] = s[i] /\ s[i] = u[i] /\ i \in DOMAIN u
        BY <1>0, <1>1, <1>3, <2>1, <2>2
      <3> QED
        BY <3>1
    <2>3. CASE i > k - 1
      <3>1. i - (k - 1) \in 1 .. Len(u) - k /\ w[i] = t[i - (k - 1)]
        <4>1. i - (k - 1) \in 1 .. Len(u) - k /\ ~(i <= k - 1) /\ i \in 1 .. Len(s) + Len(t)
          BY <1>0, <2>1, <2>3
        <4>2. w[i] = IF i <= k - 1 THEN s[i] ELSE t[i - (k - 1)]
          BY <1>1, <1>3, <4>1
        <4> QED
          BY <4>1, <4>2
      <3>2. t[i - (k - 1)] = u[i + 1]
        <4> DEFINE m == i - (k - 1)
        <4>1. m + k = i + 1
          BY <1>0, <2>1
        <4> HIDE DEF m
        <4>2. m \in 1 .. Len(u) - k => t[m] = u[m + k]
          BY <1>2
        <4> QED
          BY <3>1, <4>1, <4>2 DEF m
      <3>3. i + 1 \in DOMAIN u
        BY <1>0, <2>1
      <3> QED
        BY <3>1, <3>2, <3>3
    <2> QED
      BY <1>0, <2>1, <2>2, <2>3
  <1> QED
    BY <1>5 DEF w, s, t

LEMMA RemovalKeeps == ASSUME IInv, lt_removeLogger PROVE NodesKept
  <1>1. loggers \in Seq(Nodes) /\ loggingQueue' = Tail(loggingQueue) /\ loggingQueue # <<>>
    BY DEF IInv, TypeOK, lt_removeLogger, RunsAtOnce, IsNext
  <1>2. ASSUME NEW k \in DOMAIN loggers,
               loggers' = SubSeq(loggers, 1, k - 1) \o SubSeq(loggers, k + 1, Len(loggers))
        PROVE  \A i \in DOMAIN loggers' : \E j \in DOMAIN loggers : loggers'[i] = loggers[j]
    BY <1>1, <1>2, WithoutFacts
  <1>3. \/ loggers' = loggers
        \/ \E k \in DOMAIN loggers :
              loggers' = SubSeq(loggers, 1, k - 1) \o SubSeq(loggers, k + 1, Len(loggers))
    BY DEF lt_removeLogger
  <1>4. \A i \in DOMAIN loggers' : \E j \in DOMAIN loggers : loggers'[i] = loggers[j]
    BY <1>2, <1>3
  <1> QED
    BY <1>1, <1>4, QueueTail DEF NodesKept

LEMMA AdditionKeeps == ASSUME IInv, lt_addLogger PROVE NodesKept
  <1> DEFINE b == Head(loggingQueue)
  <1>1. /\ loggers \in Seq(Nodes) /\ loggingQueue' = Tail(loggingQueue) /\ loggingQueue # <<>>
        /\ b.op = "add" /\ (loggers' = loggers \/ loggers' = Append(loggers, b.arg))
    BY DEF IInv, TypeOK, lt_addLogger, RunsAtOnce, IsNext
  <1>2. \E j \in DOMAIN loggingQueue : loggingQueue[j] = b
    BY <1>1, HeadFacts
  <1> HIDE DEF b
  <1>3. \A i \in DOMAIN loggers' : (\E j \in DOMAIN loggers : loggers'[i] = loggers[j]) \/ loggers'[i] = b.arg
    BY <1>1, LenProperties
  <1> QED
    BY <1>1, <1>2, <1>3, QueueTail DEF NodesKept

LEMMA RunKeeps ==
    ASSUME IInv, RunLoggingQueue \/ \E q \in QueueIds : RunLoggerQueue(q)
    PROVE  NodesKept
  <1>1. CASE lt_allLoggers \/ ForwardFormatter
    <2>1. loggingQueue' = Tail(loggingQueue) /\ loggingQueue # <<>> /\ UNCHANGED loggers
      BY <1>1 DEF lt_allLoggers, ForwardFormatter, RunsAtOnce, IsNext, registry
    <2> QED
      BY <2>1, QueueTail DEF NodesKept
  <1>2. CASE lt_removeAllLoggers \/ lt_log \/ lt_flush \/ GetFormatter \/ ClientBlock
    <2>1. loggingQueue' = Tail(loggingQueue) /\ loggingQueue # <<>> /\ UNCHANGED loggers
      BY <1>2 DEF lt_removeAllLoggers, lt_log, lt_flush, GetFormatter, ClientBlock, Starts,
                  IsNext, registry
    <2> QED
      BY <2>1, QueueTail DEF NodesKept
  <1>3. CASE VisitNode \/ ClientBlockEnds
    BY <1>3 DEF VisitNode, ClientBlockEnds, NodesKept, registry
  <1>4. CASE FinishJob
    <2>1. UNCHANGED loggingQueue /\ (UNCHANGED loggers \/ loggers' = <<>>)
      BY <1>4 DEF FinishJob
    <2>2. DOMAIN <<>> = {}
      OBVIOUS
    <2> QED
      BY <2>1, <2>2 DEF NodesKept
  <1>5. ASSUME NEW q \in QueueIds, RunLoggerQueue(q) PROVE NodesKept
    <2>1. UNCHANGED <<loggers, loggingQueue>>
      BY <1>5 DEF RunLoggerQueue, logMessage, flush, ReadFormatter, WriteFormatter, didAddLogger,
                  willRemoveLogger, engine, registry
    <2> QED
      BY <2>1 DEF NodesKept
  <1> QED
    BY <1>1, <1>2, <1>3, <1>4, <1>5, AdditionKeeps, RemovalKeeps DEF RunLoggingQueue

\* A subscription is made once, and cancelled for ever.
LEMMA SubscriptionStays ==
    ASSUME FrontTypeOK, [FrontNext]_allVars, NEW s \in Subscriptions
    PROVE  /\ subscription[s] # "none" => subscription'[s] # "none"
           /\ subscription[s] = "cancelled" => subscription'[s] = "cancelled"
  <1>0. DOMAIN subscription = Subscriptions
    BY DEF FrontTypeOK
  <1>1. CASE FrontEnds
    <2>1. ASSUME NEW t, NEW f, NEW a, LogMacro(t, f) \/ LogFunction(t, f, a) \/ SwiftLog(t, f, a)
          PROVE  subscription' = subscription
      BY <2>1 DEF LogMacro, LogFunction, SwiftLog, Statement, combine
    <2>2. ASSUME NEW t, NEW a, DDAssert(t, a) \/ assertionFailure(t) PROVE subscription' = subscription
      BY <2>2 DEF DDAssert, assertionFailure, combine
    <2>3. ASSUME NEW t, receiveSubscription(t) \/ clearSubscriber(t)
          PROVE  /\ subscription[s] # "none" => subscription'[s] # "none"
                 /\ subscription[s] = "cancelled" => subscription'[s] = "cancelled"
      BY <1>0, <2>3 DEF receiveSubscription, clearSubscriber
    <2>4. ASSUME NEW t, NEW u, NEW v, receive(t, u, v) \/ cancel(t, u) \/ cancelWhileReceiving(u)
          PROVE  /\ subscription[s] # "none" => subscription'[s] # "none"
                 /\ subscription[s] = "cancelled" => subscription'[s] = "cancelled"
      BY <1>0, <2>4 DEF receive, cancel, cancelWhileReceiving
    <2> QED
      BY <1>1, <2>1, <2>2, <2>3, <2>4 DEF FrontEnds
  <1>2. ASSUME NEW q, RunFrontQueue(q) PROVE subscription' = subscription
    BY <1>2 DEF RunFrontQueue, log, receiveValue, front, combine
  <1>3. CASE UNCHANGED front
    BY <1>3 DEF front, combine
  <1> QED
    BY <1>1, <1>2, <1>3 DEF FrontNext, OtherCalls, ClientBlockLogs, FrontStopped, allVars

LEMMA RegistryStep ==
    ASSUME IInv, FrontTypeOK, RegistryIsProper, [FrontNext]_allVars
    PROVE  RegistryIsProper'
  <1>a. AppThreads \subseteq Callers /\ OnLoggingQueue \in Callers /\ Subscriptions \subseteq Loggers
    BY FrontEndsAssumption DEF AppThreads, Callers
  <1>1. \A s \in Subscriptions : subscription[s] # "none" => subscription'[s] # "none"
    BY SubscriptionStays
  <1>2. ASSUME NodesKept PROVE RegistryIsProper'
    BY <1>1, <1>2 DEF NodesKept, RegistryIsProper, NodesAreProper
  <1>3. ASSUME NEW c, NEW l \in Loggers, NEW v, AddLogger(c, l, v),
               l \in Subscriptions => subscription'[l] # "none"
        PROVE  RegistryIsProper'
    <2> DEFINE n == [logger |-> l, level |-> v,
                     queue |-> IF l \in OwnQueue THEN OwnQueueOf(l) ELSE <<l, calls + 1>>]
               b == [op |-> "add", arg |-> n, by |-> None]
    <2>1. loggingQueue' = Append(loggingQueue, b) /\ UNCHANGED loggers
      BY <1>3 DEF AddLogger, DispatchAsync, registry
    <2>2. n.queue[1] = n.logger /\ n.logger = l /\ b.arg = n
      BY DEF OwnQueueOf
    <2> HIDE DEF n, b
    <2>3. \A i \in DOMAIN loggers' : NodesAreProper(loggers[i])'
      BY <1>1, <2>1 DEF RegistryIsProper, NodesAreProper
    <2>4. ASSUME NEW i \in DOMAIN loggingQueue', loggingQueue'[i].op = "add"
          PROVE  /\ loggingQueue'[i].arg.queue[1] = loggingQueue'[i].arg.logger
                 /\ loggingQueue'[i].arg.logger \in Subscriptions =>
                       subscription'[loggingQueue'[i].arg.logger] # "none"
      <3>1. CASE \E j \in DOMAIN loggingQueue : loggingQueue'[i] = loggingQueue[j]
        BY <1>1, <2>4, <3>1 DEF RegistryIsProper, NodesAreProper
      <3>2. CASE loggingQueue'[i] = b
        BY <1>3, <2>2, <3>2
      <3> QED
        BY <2>1, <3>1, <3>2, JoinFacts
    <2> QED
      BY <2>1, <2>3, <2>4 DEF RegistryIsProper, NodesAreProper
  <1>4. CASE FrontEnds
    <2>1. ASSUME NEW t, NEW f, NEW a, LogMacro(t, f) \/ LogFunction(t, f, a) \/ SwiftLog(t, f, a)
          PROVE  NodesKept
      BY <2>1, CallKeeps DEF LogMacro, LogFunction, SwiftLog, Statement
    <2>2. ASSUME UNCHANGED vars PROVE NodesKept
      BY <2>2 DEF vars, registry, engine, NodesKept
    <2>3. ASSUME NEW t, NEW a, DDAssert(t, a) \/ assertionFailure(t) \/ receiveSubscription(t) \/ clearSubscriber(t)
          PROVE  NodesKept
      BY <2>2, <2>3, CallKeeps DEF DDAssert, assertionFailure, receiveSubscription, clearSubscriber
    <2>4. ASSUME NEW t, NEW s, cancel(t, s) \/ cancelWhileReceiving(s) PROVE NodesKept
      BY <2>4, CallKeeps DEF cancel, cancelWhileReceiving, RemoveLogger
    <2>5. ASSUME NEW t, NEW s \in Subscriptions, NEW v, receive(t, s, v) PROVE RegistryIsProper'
      <3>1. subscription'[s] = "adding"
        BY <2>5 DEF receive, FrontTypeOK
      <3> QED
        BY <1>a, <1>3, <2>5, <3>1 DEF receive
    <2> QED
      BY <1>2, <1>4, <2>1, <2>3, <2>4, <2>5 DEF FrontEnds
  <1>5. CASE OtherCalls
    <2>1. ASSUME NEW t, NEW l \in Loggers \ Subscriptions, NEW v, AddLogger(t, l, v)
          PROVE  RegistryIsProper'
      BY <1>3, <2>1
    <2>2. ASSUME NEW t, \/ \E l : RemoveLogger(t, l)
                        \/ RemoveAllLoggers(t) \/ AllLoggers(t) \/ FlushLog(t)
                        \/ ApplicationWillTerminate(t) \/ DispatchClientBlock(t)
                        \/ \E l, f : SetLogFormatter(t, l, f)
                        \/ \E l : LogFormatter(t, l)
          PROVE  NodesKept
      BY <2>2, CallKeeps DEF RemoveLogger, RemoveAllLoggers, AllLoggers, FlushLog,
             ApplicationWillTerminate, DispatchClientBlock, SetLogFormatter, LogFormatter
    <2> QED
      BY <1>2, <1>5, <2>1, <2>2 DEF OtherCalls
  <1>6. CASE ClientBlockLogs
    BY <1>2, <1>6, CallKeeps DEF ClientBlockLogs
  <1>7. CASE RunLoggingQueue
    BY <1>2, <1>7, RunKeeps
  <1>8. CASE UNCHANGED vars
    BY <1>2, <1>8 DEF vars, registry, engine, NodesKept
  <1>9. ASSUME NEW q \in QueueIds, RunFrontQueue(q) PROVE RegistryIsProper'
    BY <1>2, <1>8, <1>9, RunKeeps DEF RunFrontQueue, log, receiveValue, RunLoggerQueue
  <1> QED
    BY <1>4, <1>5, <1>6, <1>7, <1>8, <1>9 DEF FrontNext, FrontStopped, allVars

-----------------------------------------------------------------------------
(* What a subscriber is given.                                               *)

\* A logger's queue hands its logger the message at its head.
LEMMA DeliveryFacts ==
    ASSUME IInv, ServiceInv, RegistryIsProper, NEW q \in QueueIds, AtMessage(q), logMessage(q),
           NEW s \in Subscriptions
    PROVE  /\ s # q[1] => received'[s] = received[s]
           /\ s = q[1] => \E e : /\ e.msg = Head(loggerQueue[q]).arg
                                 /\ received'[s] = Append(received[s], e)
  <1> DEFINE c == Head(loggerQueue[q])
             e == [msg |-> c.arg, fmt |-> IF c.node.logger \in OwnQueue
                                          THEN formatter[c.node.logger] ELSE NoFormatter]
  <1>1. s \in Loggers /\ DOMAIN received = Loggers
    BY FrontEndsAssumption DEF IInv, TypeOK
  <1>2. c.node.logger = q[1]
    BY MessageAtHead
  <1>3. received' = [received EXCEPT ![c.node.logger] = Append(@, e)]
    BY DEF logMessage
  <1>4. e.msg = c.arg
    OBVIOUS
  <1> HIDE DEF e
  <1> QED
    BY <1>1, <1>2, <1>3, <1>4

\* A step gives it nothing, or begins or ends to give it a value, or comes too late.
Untouched(s) ==
    /\ values'[s] = values[s] /\ received'[s] = received[s]
    /\ s \in receiving' <=> s \in receiving
    /\ subscription'[s] = "cancelled" =>
          \/ subscription[s] = "cancelled" /\ atCancel'[s] = atCancel[s]
          \/ atCancel'[s] = Given(s)
Begins(s) ==
    /\ s \notin receiving /\ s \in receiving' /\ subscription[s] # "cancelled"
    /\ values'[s] = values[s] /\ received'[s] = received[s]
Ends(s) ==
    /\ s \in receiving /\ s \notin receiving' /\ atCancel' = atCancel
    /\ \E e : values'[s] = Append(values[s], e.msg) /\ received'[s] = Append(received[s], e)
TooLate(s) ==
    /\ s \notin receiving /\ s \notin receiving' /\ subscription[s] = "cancelled"
    /\ values'[s] = values[s] /\ atCancel' = atCancel
    /\ \E e : received'[s] = Append(received[s], e)

LEMMA GivingStep ==
    ASSUME IInv, ServiceInv, RegistryIsProper, FrontTypeOK, [FrontNext]_allVars,
           NEW s \in Subscriptions
    PROVE  \/ Untouched(s)
           \/ UNCHANGED subscription /\ (Begins(s) \/ Ends(s) \/ TooLate(s))
  <1>0. /\ DOMAIN subscription = Subscriptions /\ DOMAIN values = Subscriptions
        /\ DOMAIN atCancel = Subscriptions
    BY DEF FrontTypeOK
  <1>1. ASSUME UNCHANGED <<combine, received>> PROVE Untouched(s)
    BY <1>1 DEF Untouched, combine
  <1>2. CASE FrontEnds
    <2>1. received' = received
      <3>1. CallApi \/ UNCHANGED vars
        BY <1>2, FrontEndsCall
      <3> QED
        BY <3>1 DEF vars, effects, CallApi, Log, LogDirectly, AddLogger, RemoveLogger, RemoveAllLoggers,
               AllLoggers, FlushLog, ApplicationWillTerminate, SetLogFormatter, LogFormatter,
               DispatchClientBlock, DispatchAsync, DispatchSync
    <2>2. ASSUME NEW t, NEW f, NEW a, LogMacro(t, f) \/ LogFunction(t, f, a) \/ SwiftLog(t, f, a)
          PROVE  UNCHANGED combine
      BY <2>2 DEF LogMacro, LogFunction, SwiftLog, Statement
    <2>3. ASSUME NEW t, NEW a, DDAssert(t, a) \/ assertionFailure(t) PROVE UNCHANGED combine
      BY <2>3 DEF DDAssert, assertionFailure
    <2>4. ASSUME NEW t, NEW u, NEW v, \/ receive(t, u, v) \/ cancel(t, u) \/ cancelWhileReceiving(u)
                                      \/ receiveSubscription(t) \/ clearSubscriber(t)
          PROVE  Untouched(s)
      BY <1>0, <2>1, <2>4 DEF Untouched, receive, cancel, cancelWhileReceiving, receiveSubscription,
             clearSubscriber
    <2> QED
      BY <1>1, <1>2, <2>1, <2>2, <2>3, <2>4 DEF FrontEnds
  <1>3. CASE (OtherCalls \/ ClientBlockLogs \/ RunLoggingQueue) /\ UNCHANGED front
    <2>1. CASE OtherCalls \/ ClientBlockLogs
      <3>1. received' = received
        BY <2>1, OtherCallsCall DEF effects, CallApi, Log, LogDirectly, AddLogger, RemoveLogger,
               RemoveAllLoggers, AllLoggers, FlushLog, ApplicationWillTerminate, SetLogFormatter,
               LogFormatter, DispatchClientBlock, DispatchAsync, DispatchSync
      <3> QED
        BY <1>1, <1>3, <3>1 DEF front
    <2>2. CASE RunLoggingQueue
      <3>1. received' = received
        BY <2>2 DEF effects, RunLoggingQueue, lt_addLogger, lt_removeLogger, lt_removeAllLoggers,
               lt_allLoggers, ForwardFormatter, lt_log, lt_flush, GetFormatter, ClientBlock,
               VisitNode, FinishJob, ClientBlockEnds, Starts
      <3> QED
        BY <1>1, <1>3, <3>1 DEF front
    <2> QED
      BY <1>3, <2>1, <2>2
  <1>4. ASSUME NEW q \in QueueIds, RunFrontQueue(q)
        PROVE  Untouched(s) \/ (UNCHANGED subscription /\ (Begins(s) \/ Ends(s) \/ TooLate(s)))
    <2>1. CASE ~(q[1] \in Subscriptions /\ AtMessage(q)) /\ RunLoggerQueue(q) /\ UNCHANGED front
      <3>1. CASE ~AtMessage(q)
        <4>1. received' = received
          BY <2>1, <3>1 DEF AtMessage, RunLoggerQueue, logMessage, flush, ReadFormatter, WriteFormatter,
                 didAddLogger, willRemoveLogger, Pops, effects
        <4> QED
          BY <1>1, <2>1, <4>1 DEF front
      <3>2. CASE AtMessage(q)
        <4>1. logMessage(q) /\ s # q[1]
          BY <2>1, <3>2 DEF AtMessage, RunLoggerQueue, logMessage, flush, ReadFormatter, WriteFormatter,
                 didAddLogger, willRemoveLogger, Pops
        <4>2. received'[s] = received[s]
          BY <3>2, <4>1, DeliveryFacts
        <4> QED
          BY <2>1, <4>2 DEF front, combine, Untouched
      <3> QED
        BY <3>1, <3>2
    <2>2. CASE q[1] \in Subscriptions /\ log(q)
      <3>1. CASE HasSubscriber(q[1])
        BY <2>2, <3>1 DEF log, HasSubscriber, Untouched, Begins, vars, effects
      <3>2. CASE ~HasSubscriber(q[1])
        <4>1. /\ logMessage(q) /\ AtMessage(q) /\ q[1] \notin receiving
              /\ UNCHANGED <<receiving, subscription, values, atCancel>>
          BY <2>2, <3>2 DEF log
        <4>2. subscription[q[1]] = "cancelled"
          BY <2>2, <3>2, <4>1, MessageAtHead DEF HasSubscriber, FrontTypeOK
        <4>3. CASE s = q[1]
          <5>1. \E e : received'[s] = Append(received[s], e)
            BY <4>1, <4>3, DeliveryFacts
          <5> QED
            BY <4>1, <4>2, <4>3, <5>1 DEF TooLate
        <4>4. CASE s # q[1]
          <5>1. received'[s] = received[s]
            BY <4>1, <4>4, DeliveryFacts
          <5> QED
            BY <4>1, <5>1 DEF Untouched
        <4> QED
          BY <4>3, <4>4
      <3> QED
        BY <3>1, <3>2
    <2>3. CASE q[1] \in Subscriptions /\ receiveValue(q)
      <3>1. /\ logMessage(q) /\ AtMessage(q) /\ q[1] \in receiving /\ receiving' = receiving \ {q[1]}
            /\ values' = [values EXCEPT ![q[1]] = Append(@, Head(loggerQueue[q]).arg)]
            /\ UNCHANGED <<subscription, atCancel>>
        BY <2>3 DEF receiveValue
      <3>2. CASE s = q[1]
        <4>1. PICK e : e.msg = Head(loggerQueue[q]).arg /\ received'[s] = Append(received[s], e)
          BY <3>1, <3>2, DeliveryFacts
        <4>2. values'[s] = Append(values[s], e.msg)
          BY <1>0, <3>1, <3>2, <4>1
        <4> QED
          BY <3>1, <3>2, <4>1, <4>2 DEF Ends
      <3>3. CASE s # q[1]
        <4>1. received'[s] = received[s] /\ values'[s] = values[s]
          BY <1>0, <3>1, <3>3, DeliveryFacts
        <4> QED
          BY <3>1, <3>3, <4>1 DEF Untouched
      <3> QED
        BY <3>2, <3>3
    <2> QED
      BY <1>4, <2>1, <2>2, <2>3 DEF RunFrontQueue
  <1>5. CASE UNCHANGED <<vars, front>>
    BY <1>1, <1>5 DEF vars, effects, front
  <1> QED
    BY <1>2, <1>3, <1>4, <1>5 DEF FrontNext, OtherCalls, ClientBlockLogs, FrontStopped, allVars

LEMMA ValuesStep ==
    ASSUME IInv, ServiceInv, FrontInv, [FrontNext]_allVars
    PROVE  ValuesAreReceived' /\ CancelHolds'
  <1> USE DEF FrontInv
  <1>1. ASSUME NEW s \in Subscriptions
        PROVE  /\ Len(values'[s]) <= Len(received'[s])
               /\ \A i \in DOMAIN values'[s] : values'[s][i] = received'[s][i].msg
               /\ (subscription'[s] # "cancelled" \/ s \in receiving') => Len(values'[s]) = Len(received'[s])
               /\ subscription'[s] = "cancelled" =>
                     /\ Len(values'[s]) <= atCancel'[s]
                     /\ s \in receiving' => Len(values'[s]) < atCancel'[s]
    <2> DEFINE v == values[s]
               r == received[s]
    <2>1. /\ v \in Seq(Messages) /\ Len(v) \in Nat
          /\ r \in Seq([msg : Messages, fmt : Formatters \cup {NoFormatter}]) /\ Len(r) \in Nat
          /\ DOMAIN v = 1 .. Len(v) /\ DOMAIN r = 1 .. Len(r) /\ atCancel[s] \in Nat
      BY FrontEndsAssumption, LenProperties DEF FrontTypeOK, IInv, TypeOK
    <2>2. /\ Len(v) <= Len(r) /\ \A i \in DOMAIN v : v[i] = r[i].msg
          /\ (subscription[s] # "cancelled" \/ s \in receiving) => Len(v) = Len(r)
          /\ subscription[s] = "cancelled" => /\ Len(v) <= atCancel[s]
                                              /\ s \in receiving => Len(v) < atCancel[s]
      BY DEF ValuesAreReceived, CancelHolds
    <2>3. subscription[s] = "cancelled" => subscription'[s] = "cancelled"
      BY SubscriptionStays
    <2>4. /\ s \in receiving => Given(s) = Len(v) + 1
          /\ s \notin receiving => Given(s) = Len(v)
      BY GivenFacts
    <2>5. ASSUME NEW e, received'[s] = Append(r, e)
          PROVE  /\ Len(received'[s]) = Len(r) + 1 /\ received'[s][Len(r) + 1] = e
                 /\ \A i \in 1 .. Len(r) : received'[s][i] = r[i]
      BY <2>1, <2>5, LenProperties
    <2>6. ASSUME NEW m, values'[s] = Append(v, m)
          PROVE  /\ Len(values'[s]) = Len(v) + 1 /\ values'[s][Len(v) + 1] = m
                 /\ DOMAIN values'[s] = 1 .. Len(v) + 1
                 /\ \A i \in 1 .. Len(v) : values'[s][i] = v[i]
      BY <2>1, <2>6, LenProperties
    <2>7. CASE Untouched(s)
      BY <2>1, <2>2, <2>3, <2>4, <2>7 DEF Untouched
    <2>8. CASE UNCHANGED subscription /\ Begins(s)
      BY <2>1, <2>2, <2>8 DEF Begins
    <2>9. CASE UNCHANGED subscription /\ Ends(s)
      <3>1. PICK e : values'[s] = Append(v, e.msg) /\ received'[s] = Append(r, e)
        BY <2>9 DEF Ends
      <3>2. s \in receiving /\ s \notin receiving' /\ Len(v) = Len(r) /\ atCancel' = atCancel
        BY <2>2, <2>9 DEF Ends
      <3> HIDE DEF v, r
      <3>3. Len(values'[s]) = Len(received'[s]) /\ Len(values'[s]) = Len(v) + 1
        BY <2>5, <2>6, <3>1, <3>2
      <3>4. \A i \in DOMAIN values'[s] : values'[s][i] = received'[s][i].msg
        <4> SUFFICES ASSUME NEW i \in 1 .. Len(v) + 1 PROVE values'[s][i] = received'[s][i].msg
          BY <2>6, <3>1
        <4>1. CASE i \in 1 .. Len(v)
          BY <2>1, <2>2, <2>5, <2>6, <3>1, <3>2, <4>1
        <4>2. CASE i = Len(v) + 1
          BY <2>5, <2>6, <3>1, <3>2, <4>2
        <4> QED
          BY <2>1, <4>1, <4>2
      <3> QED
        BY <2>1, <2>2, <2>9, <3>2, <3>3, <3>4
    <2>10. CASE UNCHANGED subscription /\ TooLate(s)
      <3>1. PICK e : received'[s] = Append(r, e)
        BY <2>10 DEF TooLate
      <3>2. /\ s \notin receiving /\ s \notin receiving' /\ subscription'[s] = "cancelled"
            /\ values'[s] = v /\ atCancel' = atCancel
        BY <2>10 DEF TooLate
      <3> HIDE DEF v, r
      <3>3. Len(received'[s]) = Len(r) + 1 /\ \A i \in 1 .. Len(r) : received'[s][i] = r[i]
        BY <2>5, <3>1
      <3>a. Len(v) \in Nat /\ Len(r) \in Nat /\ DOMAIN v = 1 .. Len(v)
        BY <2>1
      <3>b. Len(v) <= Len(r)
        BY <2>2
      <3>4. DOMAIN v \subseteq 1 .. Len(r)
        BY <3>a, <3>b
      <3>5. \A i \in DOMAIN values'[s] : values'[s][i] = received'[s][i].msg
        BY <2>2, <3>2, <3>3, <3>4
      <3>6. Len(v) <= Len(r) + 1
        BY <3>a, <3>b
      <3> QED
        BY <2>2, <2>10, <3>2, <3>3, <3>5, <3>6
    <2> QED
      BY <2>7, <2>8, <2>9, <2>10, GivingStep
  <1> QED
    BY <1>1 DEF ValuesAreReceived, CancelHolds

-----------------------------------------------------------------------------
(* The theorems.                                                             *)

LEMMA FrontInitially == FrontInit => FrontInv
  <1> SUFFICES ASSUME FrontInit PROVE FrontInv
    OBVIOUS
  <1> USE FrontEndsAssumption DEF FrontInit, Init
  <1>1. FrontTypeOK
    <2>1. <<>> \in Seq(Messages) /\ 0 \in Nat /\ None \in Subscriptions \cup {None} \cup 0 .. MaxCalls
      OBVIOUS
    <2>2. /\ doing \in [AppThreads -> Subscriptions \cup {None} \cup 0 .. MaxCalls]
          /\ values \in [Subscriptions -> Seq(Messages)]
          /\ atCancel \in [Subscriptions -> Nat]
      BY <2>1
    <2> QED
      BY <2>2 DEF FrontTypeOK
  <1>2. AtWork = {} /\ UrgentAreSynchronous
    BY DEF AtWork, NoJob, UrgentAreSynchronous
  <1>3. AssertionWaits
    BY DEF AssertionWaits
  <1>4. RegistryIsProper
    <2>1. \A i \in DOMAIN Installed : Installed[i].queue[1] = Installed[i].logger
      BY DDLogAssumption DEF OwnQueueOf
    <2> QED
      BY <2>1 DEF RegistryIsProper, NodesAreProper
  <1>5. ValuesAreReceived /\ CancelHolds
    BY DEF ValuesAreReceived, CancelHolds
  <1> QED
    BY <1>1, <1>2, <1>3, <1>4, <1>5 DEF FrontInv

\* The invariant of the front ends holds in every reachable state, given those of the core.
THEOREM FrontInvariance == FrontSpec => []FrontInv
  <1>1. IInv /\ ServiceInv /\ FrontInv /\ [FrontNext]_allVars => FrontInv'
    BY UrgentStep, AssertionStep, FrontTypeStep, RegistryStep, ValuesStep DEF FrontInv
  <1> QED
    BY <1>1, FrontInitially, FrontEndsUseDDLog, Invariance, ServiceInvariance, PTL DEF FrontSpec

\* Whatever is promised to be synchronous keeps its author until all loggers have it.
THEOREM UrgentDelivery == FrontSpec => []UrgentIsDelivered
  <1>1. ASSUME IInv, FrontInv, SyncReturnsDelivered PROVE UrgentIsDelivered
    BY <1>1, InFlightAtWork DEF FrontInv, UrgentAreSynchronous, UrgentIsDelivered, SyncReturnsDelivered
  <1> QED
    BY <1>1, FrontEndsUseDDLog, FrontInvariance, Invariance, SyncDelivery, PTL

\* When an assertion ends the process, its message and all older ones are with the loggers,
\* unless its caller asked for an asynchronous statement.
THEOREM AssertionDelivery == FrontSpec => AssertionLosesNothing
  <1> DEFINE Nothing == aborted' # aborted =>
                \A t \in AppThreads : (doing[t] # doing'[t] /\ doing[t] \in urgent)
                    => \A m \in InFlight : m.id > doing[t]
  <1>1. ASSUME IInv, FrontInv, [FrontNext]_allVars PROVE [Nothing]_allVars
    <2> SUFFICES ASSUME aborted' # aborted, NEW t \in AppThreads, doing[t] # doing'[t],
                        doing[t] \in urgent, NEW m \in InFlight
                 PROVE  m.id > doing[t]
      OBVIOUS
    <2>1. PICK u \in AppThreads : assertionFailure(u)
      <3>1. FrontEnds
        BY <1>1 DEF FrontNext, OtherCalls, ClientBlockLogs, RunFrontQueue, log, receiveValue,
                 FrontStopped, allVars, front
      <3> QED
        BY <3>1 DEF FrontEnds, LogMacro, LogFunction, SwiftLog, Statement, DDAssert, receive,
                 receiveSubscription, cancel, clearSubscriber, cancelWhileReceiving
    <2>2. t = u /\ doing[t] \in 0 .. MaxCalls /\ t \notin blocked
      BY <1>1, <2>1 DEF assertionFailure, FrontInv, FrontTypeOK
    <2>3. m \in AtWork /\ m.id \in Nat /\ m.id \in 1 .. MaxCalls
      BY <1>1, InFlightAtWork, AtWorkMessages, MessageFacts
    <2>4. CASE doing[t] = 0
      BY <2>3, <2>4, DDLogAssumption
    <2>5. CASE doing[t] \in Nat \ {0}
      BY <1>1, <2>2, <2>3, <2>5 DEF FrontInv, AssertionWaits, Waits
    <2> QED
      BY <2>2, <2>4, <2>5, DDLogAssumption
  <1> QED
    BY <1>1, FrontEndsUseDDLog, FrontInvariance, Invariance, PTL DEF FrontSpec, AssertionLosesNothing

\* A subscriber is given what DDLog gives its subscription, in that order, and after cancel
\* nothing but the value that is on its way.
THEOREM CancelEndsIt == FrontSpec => []CancelIsFinal
  <1>1. ASSUME FrontInv PROVE CancelIsFinal
    BY <1>1 DEF FrontInv, ValuesAreReceived, CancelHolds, CancelIsFinal
  <1> QED
    BY <1>1, FrontInvariance, PTL

\* The promise of DDLog holds of programs that log through the front ends: statements of
\* macros, Swift functions, swift-log and assertions, and the values of subscriptions, are
\* broadcast atomically and in order.
THEOREM FrontEndsAtomicity == FrontSpec => BroadcastIsAtomic
  BY FrontEndsUseDDLog, Atomicity

\* A subscription, like any logger, is called only while it is registered and is told of
\* its registration before its first value.
THEOREM FrontEndsRegistration == FrontSpec => [](OnlyRegisteredAreCalled /\ NotifiedBeforeLogging)
  BY FrontEndsUseDDLog, RegisteredOnly, NotifiedFirst, PTL
=============================================================================
