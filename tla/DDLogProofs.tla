---------------------------- MODULE DDLogProofs ----------------------------
(***************************************************************************)
(* Machine-checked proofs about the dispatch core, for every set of         *)
(* threads, loggers, levels and formatters and every bound on the calls.    *)
(***************************************************************************)
EXTENDS DDLogInvariant, FiniteSetTheorems, SequenceTheorems, TLAPS

\* What is left of a sequence when its head is taken, position by position.
LEMMA TailFacts ==
    ASSUME NEW S, NEW s \in Seq(S), s # <<>>
    PROVE  /\ Head(s) \in S
           /\ 1 \in DOMAIN s
           /\ Head(s) = s[1]
           /\ Tail(s) \in Seq(S)
           /\ \A i \in DOMAIN Tail(s) : /\ i \in Nat
                                        /\ i + 1 \in DOMAIN s
                                        /\ i + 1 # 1
                                        /\ Tail(s)[i] = s[i + 1]
  BY HeadTailProperties, LenProperties, ElementOfSeq

\* The elements of a sequence.
LEMMA SeqElements ==
    ASSUME NEW S, NEW s \in Seq(S)
    PROVE  \A i \in DOMAIN s : i \in Nat /\ s[i] \in S
  BY ElementOfSeq, LenProperties

\* A sequence with one more element, position by position.
LEMMA AppendFacts ==
    ASSUME NEW S, NEW s \in Seq(S), NEW e \in S
    PROVE  /\ Append(s, e) \in Seq(S)
           /\ \A i \in DOMAIN Append(s, e) : /\ i \in Nat
                                             /\ \/ i \in DOMAIN s /\ Append(s, e)[i] = s[i]
                                                \/ i \notin DOMAIN s /\ i = Len(s) + 1 /\ Append(s, e)[i] = e
           /\ \A i \in DOMAIN s : i <= Len(s)
  BY AppendProperties, LenProperties

\* A log block carries a message, and so does the job made from it.
LEMMA MessageFacts ==
    /\ \A m \in Messages : m.id \in 1 .. MaxCalls /\ m.id \in Nat
    /\ \A b \in Blocks : b.op = "log" => b.arg \in Messages
    /\ \A j \in Jobs : j.kind = "logMessage" => j.arg \in Messages
  BY DDLogAssumption DEF Blocks, Jobs, Messages

\* What a logger received are messages, at natural positions.
LEMMA ReceivedFacts ==
    ASSUME TypeOK, NEW l \in Loggers
    PROVE  /\ received[l] \in Seq([msg : Messages, fmt : Formatters \cup {NoFormatter}])
           /\ \A k \in DOMAIN received[l] : /\ k \in Nat
                                           /\ received[l][k].msg \in Messages
                                           /\ received[l][k].msg.id \in Nat
  <1>1. received[l] \in Seq([msg : Messages, fmt : Formatters \cup {NoFormatter}])
    BY DEF TypeOK
  <1>2. \A k \in DOMAIN received[l] :
            k \in Nat /\ received[l][k] \in [msg : Messages, fmt : Formatters \cup {NoFormatter}]
    BY <1>1, SeqElements
  <1> QED
    BY <1>1, <1>2, MessageFacts

\* The initial state satisfies the inductive invariant.
LEMMA InitIInv == Init => IInv
  <1> SUFFICES ASSUME Init PROVE IInv
    OBVIOUS
  <1> USE DDLogAssumption DEF Init
  <1>1. TypeOK
    <2>1. \A l \in Loggers : Cardinality({i \in DOMAIN Installed : Installed[i].logger = l}) \in Nat
      <3>1. Len(Installed) \in Nat /\ DOMAIN Installed = 1 .. Len(Installed)
        BY LenProperties
      <3>2. IsFiniteSet(DOMAIN Installed)
        BY <3>1, FS_Interval
      <3> QED
        BY <3>2, FS_Subset, FS_CardinalityType
    <2>2. <<>> \in Seq(Nodes) /\ <<>> \in Seq(Blocks) /\ <<>> \in Seq(Callbacks)
      OBVIOUS
    <2> QED
      BY <2>1, <2>2 DEF TypeOK, NoBlock, NoJob, Jobs
  <1>2. LoggersDistinct
    BY DEF LoggersDistinct
  <1>3. JobDiscipline /\ TodoFresh
    BY DEF JobDiscipline, TodoFresh, NoBlock, NoJob
  <1>4. WaitedInGroup /\ WaitedOnce
    BY DEF WaitedInGroup, WaitedOnce
  <1>5. OneBlockPerThread /\ SyncMessageNamesCaller
    BY DEF OneBlockPerThread, SyncMessageNamesCaller, NoBlock
  <1>6. QueueOrdered /\ JobIsOldest
    BY DEF QueueOrdered, JobIsOldest, NoJob
  <1>7. ReceivedIsOlder /\ DeliveredInOrder
    BY DEF ReceivedIsOlder, DeliveredInOrder
  <1> QED
    BY <1>1, <1>2, <1>3, <1>4, <1>5, <1>6, <1>7 DEF IInv

-----------------------------------------------------------------------------
(* The public API: every call puts one block at the end of the logging queue. *)

\* Enqueuing a block preserves the invariant, if a synchronous block names an
\* idle thread and a log statement takes the next number.
LEMMA EnqueueStep ==
    ASSUME IInv, NEW b \in Blocks,
           loggingQueue' = Append(loggingQueue, b),
           calls' = calls + 1, calls < MaxCalls,
           b.by \in Threads => b.by \notin blocked,
           blocked' = IF b.by \in Threads THEN blocked \cup {b.by} ELSE blocked,
           b.op = "log" => /\ issued' = issued + 1
                           /\ b.arg.id = issued + 1
                           /\ ~Direct(b.arg)
                           /\ b.arg.sync => b.by = b.arg.by,
           b.op # "log" => issued' = issued,
           UNCHANGED <<registry, running, job, todo, outstanding, loggerQueue,
                       returned, alive, effects, result>>
    PROVE  IInv'
  <1> USE DEF IInv, registry, effects
  <1>0. /\ loggingQueue \in Seq(Blocks) /\ job \in Jobs /\ issued \in Nat
        /\ \A i \in DOMAIN loggingQueue : loggingQueue[i] \in Blocks /\ i \in Nat
    BY DDLogAssumption, SeqElements DEF TypeOK
  <1>a. /\ loggingQueue' \in Seq(Blocks)
        /\ \A i \in DOMAIN loggingQueue' :
              /\ i \in Nat
              /\ \/ i \in DOMAIN loggingQueue /\ loggingQueue'[i] = loggingQueue[i]
                 \/ /\ loggingQueue'[i] = b
                    /\ i = Len(loggingQueue) + 1
                    /\ \A j \in DOMAIN loggingQueue : j < i
    BY <1>0, AppendFacts, LenProperties
  <1>b. \A i \in DOMAIN loggingQueue : loggingQueue[i].op = "log" =>
            loggingQueue[i].arg.id \in Nat /\ loggingQueue[i].arg.id <= issued
    BY <1>0, MessageFacts DEF QueueOrdered
  <1>c. issued <= issued' /\ (b.op = "log" => b.arg.id = issued' /\ issued < b.arg.id)
    BY <1>0
  <1>1. TypeOK'
    <2>1. calls' \in 0 .. MaxCalls /\ issued' \in 0 .. calls'
      BY DDLogAssumption DEF TypeOK
    <2>2. blocked' \subseteq Threads
      BY DEF TypeOK
    <2> QED
      BY <1>a, <2>1, <2>2 DEF TypeOK
  <1>2. LoggersDistinct' /\ JobDiscipline' /\ TodoFresh'
    BY DEF LoggersDistinct, JobDiscipline, TodoFresh
  <1>3. WaitedInGroup' /\ WaitedOnce'
    BY DEF WaitedInGroup, WaitedOnce
  <1>4. OneBlockPerThread'
    BY <1>a DEF OneBlockPerThread
  <1>5. SyncMessageNamesCaller'
    BY <1>a DEF SyncMessageNamesCaller
  <1>6. QueueOrdered'
    <2> SUFFICES ASSUME NEW i \in DOMAIN loggingQueue', loggingQueue'[i].op = "log"
                 PROVE  /\ loggingQueue'[i].arg.id <= issued'
                        /\ ~Direct(loggingQueue'[i].arg)
                        /\ \A j \in DOMAIN loggingQueue' :
                              (i < j /\ loggingQueue'[j].op = "log")
                                 => loggingQueue'[i].arg.id < loggingQueue'[j].arg.id
      BY DEF QueueOrdered
    <2>1. CASE i \in DOMAIN loggingQueue /\ loggingQueue'[i] = loggingQueue[i]
      BY <2>1, <1>0, <1>a, <1>b, <1>c DEF QueueOrdered
    <2>2. CASE /\ loggingQueue'[i] = b /\ i = Len(loggingQueue) + 1
               /\ \A j \in DOMAIN loggingQueue : j < i
      <3>1. \A j \in DOMAIN loggingQueue' : ~(i < j)
        BY <2>2, <1>0, <1>a, LenProperties
      <3> QED
        BY <2>2, <3>1, <1>0, <1>a, <1>c
    <2> QED
      BY <2>1, <2>2, <1>a
  <1>7. JobIsOldest'
    BY <1>0, <1>a, <1>b, <1>c, MessageFacts DEF JobIsOldest
  <1>8. ReceivedIsOlder'
    <2>1. \A l \in Loggers : \A k \in DOMAIN received[l] : received[l][k].msg.id \in Nat
      BY ReceivedFacts
    <2> QED
      BY <2>1, <1>0, <1>a, <1>b, <1>c DEF ReceivedIsOlder
  <1>9. DeliveredInOrder'
    BY DEF DeliveredInOrder
  <1> QED
    BY <1>1, <1>2, <1>3, <1>4, <1>5, <1>6, <1>7, <1>8, <1>9

\* Without a job there is no node to visit or wait for, and no callback is waited for.
LEMMA IdleFacts ==
    ASSUME IInv, job.kind = "none"
    PROVE  /\ todo = <<>> /\ outstanding = {}
           /\ \A q \in QueueIds : \A i \in DOMAIN loggerQueue[q] :
                 loggerQueue[q][i].kind \notin WaitedKinds
  BY DEF IInv, JobDiscipline, WaitedInGroup

\* The array and every part of it read backwards in the loops holds distinct nodes.
LEMMA LoggersFacts ==
    ASSUME IInv
    PROVE  /\ loggers \in Seq(Nodes)
           /\ \A i, j \in DOMAIN loggers : i # j => loggers[i] # loggers[j]
  BY DEF IInv, TypeOK, LoggersDistinct

\* A synchronous statement on the logging queue starts its job at once.
LEMMA LogDirectlyStep ==
    ASSUME IInv, NEW f \in Flags, LogDirectly(f) PROVE IInv'
  <1> DEFINE m == [id |-> issued + 1, flag |-> f, by |-> OnLoggingQueue, sync |-> TRUE]
  <1> USE DDLogAssumption DEF IInv, registry, effects
  <1>0. /\ job' = [kind |-> "logMessage", arg |-> m] /\ todo' = loggers
        /\ issued' = issued + 1 /\ calls' = calls + 1 /\ calls < MaxCalls
        /\ running.op = "client" /\ job = NoJob
        /\ UNCHANGED <<registry, loggingQueue, running, outstanding, loggerQueue,
                       blocked, returned, alive, effects, result>>
    BY DEF LogDirectly, MayCall
  <1>1. issued \in 0 .. calls /\ calls \in 0 .. MaxCalls
    BY DEF TypeOK
  <1>2. m \in Messages /\ Direct(m)
    BY <1>0, <1>1 DEF Messages, Callers, Direct
  <1> HIDE DEF m
  <1>3. /\ todo = <<>> /\ outstanding = {}
        /\ \A q \in QueueIds : \A i \in DOMAIN loggerQueue[q] :
              loggerQueue[q][i].kind \notin WaitedKinds
    BY <1>0, IdleFacts DEF NoJob
  <1>4. TypeOK'
    <2>1. job' \in Jobs
      BY <1>0, <1>2 DEF Jobs
    <2>2. calls' \in 0 .. MaxCalls /\ issued' \in 0 .. calls'
      BY <1>0, <1>1
    <2> QED
      BY <1>0, <2>1, <2>2 DEF TypeOK
  <1>5. LoggersDistinct' /\ DeliveredInOrder' /\ SyncMessageNamesCaller' /\ OneBlockPerThread'
    BY <1>0 DEF LoggersDistinct, DeliveredInOrder, SyncMessageNamesCaller, OneBlockPerThread
  <1>6. JobDiscipline'
    BY <1>0, <1>2 DEF JobDiscipline, NoBlock
  <1>7. TodoFresh'
    BY <1>0, <1>3, LoggersFacts DEF TodoFresh
  <1>8. WaitedInGroup' /\ WaitedOnce'
    BY <1>0, <1>3 DEF WaitedInGroup, WaitedOnce
  <1>9. QueueOrdered'
    <2>1. \A i \in DOMAIN loggingQueue : loggingQueue[i].op = "log" =>
             loggingQueue[i].arg.id \in Nat
      BY SeqElements, MessageFacts DEF TypeOK
    <2> QED
      BY <1>0, <1>1, <2>1 DEF QueueOrdered
  <1>10. JobIsOldest'
    BY <1>0, <1>2 DEF JobIsOldest
  <1>11. ReceivedIsOlder'
    BY <1>0, <1>1, <1>2, ReceivedFacts DEF ReceivedIsOlder
  <1> QED
    BY <1>4, <1>5, <1>6, <1>7, <1>8, <1>9, <1>10, <1>11

\* Every call of the API preserves the invariant.
LEMMA CallStep == ASSUME IInv, CallApi PROVE IInv'
  <1> USE DDLogAssumption
  <1>1. ASSUME NEW c \in Callers, NEW op, NEW arg, DispatchAsync(c, op, arg),
               [op |-> op, arg |-> arg, by |-> None] \in Blocks, op # "log"
        PROVE  IInv'
    BY <1>1, EnqueueStep DEF DispatchAsync, MayCall
  <1>2. ASSUME NEW t \in Threads, NEW op, NEW arg, DispatchSync(t, op, arg),
               [op |-> op, arg |-> arg, by |-> t] \in Blocks, op # "log"
        PROVE  IInv'
    <2>1. t # OnLoggingQueue /\ t \notin blocked
      BY <1>2 DEF DispatchSync, MayCall
    <2> QED
      BY <1>2, <2>1, EnqueueStep DEF DispatchSync, MayCall
  <1>3. ASSUME NEW c \in Callers, NEW f \in Flags, NEW sync \in BOOLEAN, Log(c, f, sync)
        PROVE  IInv'
    <2> DEFINE m == [id |-> issued + 1, flag |-> f, by |-> c, sync |-> sync]
               b == [op |-> "log", arg |-> m, by |-> IF sync THEN c ELSE None]
    <2>1. calls \in 0 .. MaxCalls /\ issued \in 0 .. calls /\ calls < MaxCalls
      BY <1>3 DEF IInv, TypeOK, Log, MayCall
    <2>2. m \in Messages
      BY <2>1 DEF Messages
    <2>3. sync => c \in Threads /\ c \notin blocked
      BY <1>3 DEF Log, MayCall, Callers
    <2>4. b \in Blocks
      BY <2>2, <2>3 DEF Blocks
    <2>5. ~Direct(m)
      BY <1>3 DEF Log, Direct
    <2> HIDE DEF m
    <2>6. /\ loggingQueue' = Append(loggingQueue, b) /\ issued' = issued + 1 /\ calls' = calls + 1
          /\ blocked' = IF sync THEN blocked \cup {c} ELSE blocked
          /\ UNCHANGED <<registry, running, job, todo, outstanding, loggerQueue,
                         returned, alive, effects, result>>
          /\ m.id = issued + 1 /\ m.sync = sync /\ m.by = c
      BY <1>3 DEF Log, m
    <2> QED
      BY <2>1, <2>3, <2>4, <2>5, <2>6, EnqueueStep
  <1>4. ASSUME NEW f \in Flags, LogDirectly(f)
        PROVE  IInv'
    BY <1>4, LogDirectlyStep
  <1>5. ASSUME NEW c \in Callers, NEW l \in Loggers, NEW v \in Levels, AddLogger(c, l, v)
        PROVE  IInv'
    <2> DEFINE n == [logger |-> l, level |-> v,
                     queue |-> IF l \in OwnQueue THEN OwnQueueOf(l) ELSE <<l, calls + 1>>]
    <2>a. calls < MaxCalls /\ calls \in 0 .. MaxCalls
      BY <1>5 DEF AddLogger, DispatchAsync, MayCall, IInv, TypeOK
    <2>b. calls + 1 \in 0 .. MaxCalls /\ 0 \in 0 .. MaxCalls
      BY <2>a
    <2>1. n \in Nodes
      <3>1. n.queue \in QueueIds
        BY <2>b DEF QueueIds, OwnQueueOf
      <3>2. v \in SUBSET Flags
        OBVIOUS
      <3> QED
        BY <3>1, <3>2 DEF Nodes
    <2> HIDE DEF n
    <2>2. [op |-> "add", arg |-> n, by |-> None] \in Blocks
      BY <2>1 DEF Blocks
    <2>3. DispatchAsync(c, "add", n)
      BY <1>5 DEF AddLogger, n
    <2> QED
      BY <2>2, <2>3, <1>1
  <1>6. ASSUME NEW c \in Callers, NEW l \in Loggers, RemoveLogger(c, l)
        PROVE  IInv'
    BY <1>6, <1>1 DEF RemoveLogger, Blocks
  <1>7. ASSUME NEW c \in Callers, RemoveAllLoggers(c)
        PROVE  IInv'
    BY <1>7, <1>1 DEF RemoveAllLoggers, Blocks
  <1>8. ASSUME NEW t \in Threads, AllLoggers(t) \/ FlushLog(t) \/ ApplicationWillTerminate(t)
        PROVE  IInv'
    <2>1. issued \in 0 .. MaxCalls
      BY DEF IInv, TypeOK
    <2> QED
      BY <1>8, <1>2, <2>1 DEF AllLoggers, FlushLog, ApplicationWillTerminate, Blocks
  <1>9. ASSUME NEW c \in Callers, NEW l \in OwnQueue, NEW f \in Formatters, SetLogFormatter(c, l, f)
        PROVE  IInv'
    BY <1>9, <1>1 DEF SetLogFormatter, Blocks
  <1>10. ASSUME NEW t \in Threads, NEW l \in OwnQueue, LogFormatter(t, l)
         PROVE  IInv'
    BY <1>10, <1>2 DEF LogFormatter, Blocks
  <1>11. ASSUME NEW t \in Threads, DispatchClientBlock(t)
         PROVE  IInv'
    BY <1>11, <1>1 DEF DispatchClientBlock, Blocks, Callers
  <1> QED
    BY <1>3, <1>4, <1>5, <1>6, <1>7, <1>8, <1>9, <1>10, <1>11 DEF CallApi

-----------------------------------------------------------------------------
(* The logging queue.                                                        *)

\* Taking the head of the logging queue: what remains, and what is known of it.
LEMMA HeadFacts ==
    ASSUME IInv, loggingQueue # <<>>
    PROVE  /\ Head(loggingQueue) \in Blocks
           /\ Tail(loggingQueue) \in Seq(Blocks)
           /\ 1 \in DOMAIN loggingQueue
           /\ Head(loggingQueue) = loggingQueue[1]
           /\ \A i \in DOMAIN Tail(loggingQueue) :
                 /\ i \in Nat /\ i + 1 \in DOMAIN loggingQueue /\ i + 1 # 1 /\ 1 < i + 1
                 /\ Tail(loggingQueue)[i] = loggingQueue[i + 1]
  <1>1. loggingQueue \in Seq(Blocks)
    BY DEF IInv, TypeOK
  <1> QED
    BY <1>1, TailFacts

\* Starting a block that visits loggers, or a client's block.
LEMMA StartStep ==
    ASSUME IInv, NEW op, NEW j \in Jobs, NEW nodes \in Seq(Nodes), Starts(op, j, nodes),
           op = "log" => j = [kind |-> "logMessage", arg |-> Head(loggingQueue).arg],
           op # "log" => j.kind # "logMessage",
           \A i, k \in DOMAIN nodes : i # k => nodes[i] # nodes[k],
           j.kind = "none" => nodes = <<>>
    PROVE  IInv'
  <1> USE DEF IInv, registry, effects, callers
  <1>0. /\ running = NoBlock /\ loggingQueue # <<>> /\ Head(loggingQueue).op = op
        /\ loggingQueue' = Tail(loggingQueue) /\ running' = Head(loggingQueue)
        /\ job' = j /\ todo' = nodes
        /\ UNCHANGED <<registry, outstanding, loggerQueue, callers, effects, result>>
    BY DEF Starts, IsNext
  <1>1. /\ todo = <<>> /\ outstanding = {} /\ job.kind = "none"
        /\ \A q \in QueueIds : \A i \in DOMAIN loggerQueue[q] :
              loggerQueue[q][i].kind \notin WaitedKinds
    BY <1>0, IdleFacts DEF JobDiscipline
  <1>2. Head(loggingQueue) # NoBlock
    BY <1>0, HeadFacts DEF Blocks, NoBlock
  <1>3. TypeOK'
    BY <1>0, HeadFacts DEF TypeOK
  <1>4. LoggersDistinct' /\ DeliveredInOrder'
    BY <1>0 DEF LoggersDistinct, DeliveredInOrder
  <1>5. JobDiscipline'
    BY <1>0, <1>1, <1>2 DEF JobDiscipline
  <1>6. TodoFresh'
    BY <1>0, <1>1 DEF TodoFresh
  <1>7. WaitedInGroup' /\ WaitedOnce'
    BY <1>0, <1>1 DEF WaitedInGroup, WaitedOnce
  <1>8. OneBlockPerThread'
    BY <1>0, HeadFacts DEF OneBlockPerThread
  <1>9. SyncMessageNamesCaller'
    BY <1>0, HeadFacts DEF SyncMessageNamesCaller
  <1>10. QueueOrdered'
    BY <1>0, HeadFacts DEF QueueOrdered
  <1>11. JobIsOldest'
    BY <1>0, HeadFacts DEF JobIsOldest, QueueOrdered
  <1>12. ReceivedIsOlder'
    <2>1. \A m \in Messages : m.id \in Nat
      BY MessageFacts
    <2>2. op = "log" => j.arg = loggingQueue[1].arg /\ loggingQueue[1].arg \in Messages
      BY <1>0, HeadFacts, MessageFacts
    <2> QED
      BY <1>0, <2>1, <2>2, HeadFacts, ReceivedFacts DEF ReceivedIsOlder
  <1> QED
    BY <1>3, <1>4, <1>5, <1>6, <1>7, <1>8, <1>9, <1>10, <1>11, <1>12

\* Adding one callback to the queue q0 of a logger, position by position.
LEMMA EnqueueFacts ==
    ASSUME TypeOK, NEW q0 \in QueueIds, NEW c \in Callbacks,
           loggerQueue' = Enqueue(q0, c)
    PROVE  /\ loggerQueue' \in [QueueIds -> Seq(Callbacks)]
           /\ \A q \in QueueIds : \A i \in DOMAIN loggerQueue'[q] :
                 \/ i \in DOMAIN loggerQueue[q] /\ loggerQueue'[q][i] = loggerQueue[q][i]
                 \/ /\ q = q0 /\ loggerQueue'[q][i] = c
                    /\ i = Len(loggerQueue[q]) + 1 /\ i \notin DOMAIN loggerQueue[q]
  <1>1. /\ loggerQueue \in [QueueIds -> Seq(Callbacks)]
        /\ \A q \in QueueIds : loggerQueue[q] \in Seq(Callbacks)
    BY DEF TypeOK
  <1>2. \A q \in QueueIds :
            loggerQueue'[q] = IF q = q0 THEN Append(loggerQueue[q], c) ELSE loggerQueue[q]
    BY <1>1 DEF Enqueue
  <1>3. loggerQueue' \in [QueueIds -> Seq(Callbacks)]
    BY <1>1, AppendFacts DEF Enqueue
  <1>4. ASSUME NEW q \in QueueIds, NEW i \in DOMAIN loggerQueue'[q]
        PROVE  \/ i \in DOMAIN loggerQueue[q] /\ loggerQueue'[q][i] = loggerQueue[q][i]
               \/ /\ q = q0 /\ loggerQueue'[q][i] = c
                  /\ i = Len(loggerQueue[q]) + 1 /\ i \notin DOMAIN loggerQueue[q]
    <2>1. loggerQueue[q] \in Seq(Callbacks)
      BY <1>1
    <2>2. CASE q = q0
      <3>1. loggerQueue'[q] = Append(loggerQueue[q], c)
        BY <1>2, <2>2
      <3>2. i \in DOMAIN Append(loggerQueue[q], c)
        BY <1>4, <3>1
      <3>3. \/ i \in DOMAIN loggerQueue[q] /\ Append(loggerQueue[q], c)[i] = loggerQueue[q][i]
            \/ /\ i \notin DOMAIN loggerQueue[q] /\ i = Len(loggerQueue[q]) + 1
               /\ Append(loggerQueue[q], c)[i] = c
        BY <2>1, <3>2, AppendFacts
      <3> QED
        BY <2>2, <3>1, <3>3
    <2>3. CASE q # q0
      BY <1>2, <1>4, <2>3
    <2> QED
      BY <2>2, <2>3
  <1> QED
    BY <1>3, <1>4

\* A block that runs in one step, touching the array or a logger's queue.
LEMMA AtOnceStep ==
    ASSUME IInv, running = NoBlock, loggingQueue # <<>>, Head(loggingQueue).op # "log",
           RunsAtOnce,
           loggers' \in Seq(Nodes), LoggersDistinct', detached' \subseteq Loggers,
           loggerQueue' \in [QueueIds -> Seq(Callbacks)],
           \A q \in QueueIds : \A i \in DOMAIN loggerQueue'[q] :
               \/ i \in DOMAIN loggerQueue[q] /\ loggerQueue'[q][i] = loggerQueue[q][i]
               \/ loggerQueue'[q][i].kind \notin WaitedKinds,
           blocked' = blocked \/ blocked' = blocked \ {Head(loggingQueue).by},
           UNCHANGED <<calls, issued, alive, effects>>
    PROVE  IInv'
  <1> USE DEF IInv, effects
  <1>0. loggingQueue' = Tail(loggingQueue) /\ UNCHANGED <<running, job, todo, outstanding>>
    BY DEF RunsAtOnce
  <1>1. /\ todo = <<>> /\ outstanding = {} /\ job.kind = "none"
        /\ \A q \in QueueIds : \A i \in DOMAIN loggerQueue'[q] :
              loggerQueue'[q][i].kind \notin WaitedKinds
    BY IdleFacts DEF JobDiscipline
  <1>2. running.by \notin Threads /\ running.op = "none"
    BY DDLogAssumption DEF NoBlock
  <1>3. TypeOK'
    BY <1>0, HeadFacts DEF TypeOK
  <1>4. JobDiscipline' /\ TodoFresh' /\ DeliveredInOrder'
    BY <1>0, <1>1 DEF JobDiscipline, TodoFresh, DeliveredInOrder
  <1>5. WaitedInGroup' /\ WaitedOnce'
    BY <1>1 DEF WaitedInGroup, WaitedOnce
  <1>6. OneBlockPerThread'
    <2>1. \A k \in DOMAIN loggingQueue' :
             /\ k + 1 \in DOMAIN loggingQueue /\ k + 1 # 1
             /\ loggingQueue'[k] = loggingQueue[k + 1]
      BY <1>0, HeadFacts
    <2>2. \A k, m \in DOMAIN loggingQueue' : k # m => k + 1 # m + 1
      BY <1>0, HeadFacts
    <2>3. 1 \in DOMAIN loggingQueue /\ Head(loggingQueue) = loggingQueue[1]
      BY HeadFacts
    <2>4. \A k \in DOMAIN loggingQueue' :
             loggingQueue'[k].by \in Threads =>
                /\ loggingQueue'[k].by \in blocked
                /\ loggingQueue'[k].by # Head(loggingQueue).by
                /\ loggingQueue'[k].by # running'.by
      BY <1>0, <2>1, <2>3 DEF OneBlockPerThread
    <2>5. \A k, m \in DOMAIN loggingQueue' :
             (loggingQueue'[k].by \in Threads /\ k # m) => loggingQueue'[k].by # loggingQueue'[m].by
      BY <2>1, <2>2 DEF OneBlockPerThread
    <2> QED
      BY <1>0, <1>2, <2>4, <2>5 DEF OneBlockPerThread
  <1>7. SyncMessageNamesCaller'
    BY <1>0, <1>2, HeadFacts DEF SyncMessageNamesCaller
  <1>8. QueueOrdered'
    BY <1>0, HeadFacts DEF QueueOrdered
  <1>9. JobIsOldest' /\ ReceivedIsOlder'
    BY <1>0, <1>1, HeadFacts DEF JobIsOldest, ReceivedIsOlder
  <1> QED
    BY <1>3, <1>4, <1>5, <1>6, <1>7, <1>8, <1>9

\* lt_addLogger preserves the invariant: a node that is added is new.
LEMMA AddStep == ASSUME IInv, lt_addLogger PROVE IInv'
  <1> DEFINE n == Head(loggingQueue).arg
  <1>1. /\ running = NoBlock /\ loggingQueue # <<>> /\ Head(loggingQueue).op = "add"
        /\ RunsAtOnce
        /\ UNCHANGED <<callers, effects, result>>
        /\ detached' = detached \ {n.logger}
    BY DEF lt_addLogger, IsNext
  <1>2. n \in Nodes
    BY <1>1, HeadFacts DEF Blocks
  <1>3. CASE \E i \in DOMAIN loggers : loggers[i].logger = n.logger /\ loggers[i].level = n.level
    <2>1. UNCHANGED <<loggers, loggerQueue>>
      BY <1>3 DEF lt_addLogger
    <2>2. /\ loggers' \in Seq(Nodes) /\ LoggersDistinct' /\ detached' \subseteq Loggers
          /\ loggerQueue' \in [QueueIds -> Seq(Callbacks)]
      BY <1>1, <2>1 DEF IInv, TypeOK, LoggersDistinct
    <2> QED
      BY <1>1, <2>1, <2>2, AtOnceStep DEF callers
  <1>4. CASE ~ \E i \in DOMAIN loggers : loggers[i].logger = n.logger /\ loggers[i].level = n.level
    <2> DEFINE c == [kind |-> "didAdd", node |-> n, arg |-> None]
    <2>1. loggers' = Append(loggers, n) /\ loggerQueue' = Notify("didAdd", n)
      BY <1>4 DEF lt_addLogger
    <2>2. loggers' \in Seq(Nodes) /\ LoggersDistinct'
      <3>1. loggers \in Seq(Nodes)
        BY DEF IInv, TypeOK
      <3>2. /\ loggers' \in Seq(Nodes)
            /\ \A i \in DOMAIN loggers' :
                  \/ i \in DOMAIN loggers /\ loggers'[i] = loggers[i]
                  \/ i = Len(loggers) + 1 /\ loggers'[i] = n
        BY <1>2, <2>1, <3>1, AppendFacts
      <3> QED
        BY <1>4, <3>2 DEF IInv, LoggersDistinct
    <2>3. c \in Callbacks /\ n.queue \in QueueIds /\ c.kind \notin WaitedKinds
      BY <1>2 DEF Callbacks, Nodes, WaitedKinds
    <2>4. loggerQueue' = Enqueue(n.queue, c)
      BY <2>1 DEF Notify
    <2> HIDE DEF c, n
    <2>5. /\ loggerQueue' \in [QueueIds -> Seq(Callbacks)]
          /\ \A q \in QueueIds : \A i \in DOMAIN loggerQueue'[q] :
                \/ i \in DOMAIN loggerQueue[q] /\ loggerQueue'[q][i] = loggerQueue[q][i]
                \/ loggerQueue'[q][i].kind \notin WaitedKinds
      BY <2>3, <2>4, EnqueueFacts DEF IInv
    <2>6. detached' \subseteq Loggers /\ UNCHANGED <<blocked, calls, issued, alive, effects>>
      BY <1>1 DEF callers, IInv, TypeOK
    <2> QED
      BY <1>1, <2>2, <2>5, <2>6, AtOnceStep
  <1> QED
    BY <1>3, <1>4

\* lt_removeLogger preserves the invariant: what is left of the array is distinct.
LEMMA RemoveStep == ASSUME IInv, lt_removeLogger PROVE IInv'
  <1> DEFINE l == Head(loggingQueue).arg
             matching == {i \in DOMAIN loggers : loggers[i].logger = l}
  <1>1. /\ running = NoBlock /\ loggingQueue # <<>> /\ Head(loggingQueue).op = "remove"
        /\ RunsAtOnce
        /\ UNCHANGED <<callers, effects, result>>
        /\ detached' = detached \cup {l}
    BY DEF lt_removeLogger, IsNext
  <1>2. l \in Loggers /\ detached' \subseteq Loggers
    BY <1>1, HeadFacts DEF Blocks, IInv, TypeOK
  <1>a. UNCHANGED <<blocked, calls, issued, alive, effects>>
    BY <1>1 DEF callers
  <1>3. CASE UNCHANGED <<loggers, loggerQueue>>
    <2>1. /\ loggers' \in Seq(Nodes) /\ LoggersDistinct'
          /\ loggerQueue' \in [QueueIds -> Seq(Callbacks)]
      BY <1>3 DEF IInv, TypeOK, LoggersDistinct
    <2> QED
      BY <1>1, <1>2, <1>a, <1>3, <2>1, AtOnceStep
  <1>4. ASSUME NEW i \in matching,
               loggerQueue' = Notify("willRemove", loggers[i]),
               loggers' = SubSeq(loggers, 1, i - 1) \o SubSeq(loggers, i + 1, Len(loggers))
        PROVE  IInv'
    <2> DEFINE n == loggers[i]
               c == [kind |-> "willRemove", node |-> n, arg |-> None]
    <2>1. /\ loggers \in Seq(Nodes) /\ i \in 1 .. Len(loggers) /\ Len(loggers) \in Nat
          /\ n \in Nodes
      BY <1>4, SeqElements, LenProperties DEF IInv, TypeOK
    <2>2. /\ loggers' \in Seq(Nodes)
          /\ \A k \in DOMAIN loggers' :
                k \in Nat /\ loggers'[k] = IF k < i THEN loggers[k] ELSE loggers[k + 1]
          /\ \A k \in DOMAIN loggers' :
                IF k < i THEN k \in DOMAIN loggers ELSE k + 1 \in DOMAIN loggers
      <3> DEFINE s == SubSeq(loggers, 1, i - 1)
                 t == SubSeq(loggers, i + 1, Len(loggers))
      <3>1. /\ s \in Seq(Nodes) /\ Len(s) = i - 1
            /\ \A k \in 1 .. i - 1 : s[k] = loggers[k]
        BY <2>1, SubSeqProperties
      <3>2. /\ t \in Seq(Nodes) /\ Len(t) = Len(loggers) - i
            /\ \A k \in 1 .. Len(loggers) - i : t[k] = loggers[k + i]
        BY <2>1, SubSeqProperties
      <3> HIDE DEF s, t
      <3>a. /\ s \o t \in Seq(Nodes) /\ Len(s \o t) = Len(s) + Len(t)
            /\ \A k \in 1 .. Len(s) + Len(t) :
                  (s \o t)[k] = IF k <= Len(s) THEN s[k] ELSE t[k - Len(s)]
        BY <3>1, <3>2, ConcatProperties
      <3>b. Len(s) + Len(t) = Len(loggers) - 1
        BY <2>1, <3>1, <3>2
      <3>3. /\ s \o t \in Seq(Nodes) /\ Len(s \o t) = Len(loggers) - 1
            /\ \A k \in 1 .. Len(loggers) - 1 :
                  (s \o t)[k] = IF k <= i - 1 THEN s[k] ELSE t[k - (i - 1)]
        BY <3>1, <3>a, <3>b
      <3>4. loggers' = s \o t
        BY <1>4 DEF s, t
      <3>5. DOMAIN loggers' = 1 .. Len(loggers) - 1 /\ DOMAIN loggers = 1 .. Len(loggers)
        BY <2>1, <3>3, <3>4, LenProperties
      <3>6. ASSUME NEW k \in 1 .. Len(loggers) - 1
            PROVE  /\ loggers'[k] = IF k < i THEN loggers[k] ELSE loggers[k + 1]
                   /\ IF k < i THEN k \in DOMAIN loggers ELSE k + 1 \in DOMAIN loggers
        <4>1. CASE k < i
          <5>1. k \in 1 .. i - 1 /\ k <= i - 1 /\ k \in DOMAIN loggers
            BY <2>1, <3>5, <4>1
          <5> QED
            BY <3>1, <3>3, <3>4, <4>1, <5>1
        <4>2. CASE ~(k < i)
          <5>1. /\ k - (i - 1) \in 1 .. Len(loggers) - i /\ k - (i - 1) + i = k + 1
                /\ ~(k <= i - 1) /\ k + 1 \in DOMAIN loggers
            BY <2>1, <3>5, <4>2
          <5>2. t[k - (i - 1)] = loggers[k - (i - 1) + i]
            BY <3>2, <5>1
          <5> QED
            BY <3>3, <3>4, <4>2, <5>1, <5>2
        <4> QED
          BY <4>1, <4>2
      <3> QED
        BY <3>3, <3>4, <3>5, <3>6
    <2>3. LoggersDistinct'
      <3> SUFFICES ASSUME NEW j \in DOMAIN loggers', NEW k \in DOMAIN loggers', j # k
                   PROVE  \/ loggers'[j].logger # loggers'[k].logger
                          \/ loggers'[j].level # loggers'[k].level
        BY DEF LoggersDistinct
      <3> DEFINE old(x) == IF x < i THEN x ELSE x + 1
      <3>1. /\ old(j) \in DOMAIN loggers /\ old(k) \in DOMAIN loggers /\ old(j) # old(k)
            /\ loggers'[j] = loggers[old(j)] /\ loggers'[k] = loggers[old(k)]
        BY <2>1, <2>2
      <3> HIDE DEF old
      <3> QED
        BY <3>1 DEF IInv, LoggersDistinct
    <2>4. c \in Callbacks /\ n.queue \in QueueIds /\ c.kind \notin WaitedKinds
      BY <2>1 DEF Callbacks, Nodes, WaitedKinds
    <2>5. loggerQueue' = Enqueue(n.queue, c)
      BY <1>4 DEF Notify
    <2> HIDE DEF c, n
    <2>6. /\ loggerQueue' \in [QueueIds -> Seq(Callbacks)]
          /\ \A q \in QueueIds : \A k \in DOMAIN loggerQueue'[q] :
                \/ k \in DOMAIN loggerQueue[q] /\ loggerQueue'[q][k] = loggerQueue[q][k]
                \/ loggerQueue'[q][k].kind \notin WaitedKinds
      BY <2>4, <2>5, EnqueueFacts DEF IInv
    <2> QED
      BY <1>1, <1>2, <1>a, <2>2, <2>3, <2>6, AtOnceStep
  <1> QED
    BY <1>3, <1>4 DEF lt_removeLogger

\* lt_allLoggers preserves the invariant: it releases the thread it answers.
LEMMA ListStep == ASSUME IInv, lt_allLoggers PROVE IInv'
  <1>1. /\ running = NoBlock /\ loggingQueue # <<>> /\ Head(loggingQueue).op = "list"
        /\ RunsAtOnce
        /\ blocked' = blocked \ {Head(loggingQueue).by}
        /\ UNCHANGED <<loggers, detached, loggerQueue, calls, issued, alive, effects>>
    BY DEF lt_allLoggers, IsNext, registry
  <1>2. /\ loggers' \in Seq(Nodes) /\ LoggersDistinct' /\ detached' \subseteq Loggers
        /\ loggerQueue' \in [QueueIds -> Seq(Callbacks)]
    BY <1>1 DEF IInv, TypeOK, LoggersDistinct
  <1> QED
    BY <1>1, <1>2, AtOnceStep

\* Forwarding a formatter puts a callback nobody waits for on the logger's queue.
LEMMA ForwardStep == ASSUME IInv, ForwardFormatter PROVE IInv'
  <1> DEFINE l == Head(loggingQueue).arg.logger
             n == [logger |-> l, level |-> {}, queue |-> OwnQueueOf(l)]
             c == [kind |-> "setFormatter", node |-> n, arg |-> Head(loggingQueue).arg.formatter]
  <1>1. /\ running = NoBlock /\ loggingQueue # <<>> /\ Head(loggingQueue).op = "setFormatter"
        /\ RunsAtOnce
        /\ UNCHANGED <<registry, callers, effects, result>>
        /\ loggerQueue' = Enqueue(OwnQueueOf(l), c)
    BY DEF ForwardFormatter, IsNext
  <1>2. Head(loggingQueue).arg \in [logger : OwnQueue, formatter : Formatters]
    BY <1>1, HeadFacts DEF Blocks
  <1>3. n \in Nodes /\ OwnQueueOf(l) \in QueueIds
    BY <1>2, DDLogAssumption DEF Nodes, OwnQueueOf, QueueIds
  <1>4. c \in Callbacks /\ c.kind \notin WaitedKinds
    BY <1>2, <1>3 DEF Callbacks, WaitedKinds
  <1> HIDE DEF c, n, l
  <1>5. /\ loggerQueue' \in [QueueIds -> Seq(Callbacks)]
        /\ \A q \in QueueIds : \A k \in DOMAIN loggerQueue'[q] :
              \/ k \in DOMAIN loggerQueue[q] /\ loggerQueue'[q][k] = loggerQueue[q][k]
              \/ loggerQueue'[q][k].kind \notin WaitedKinds
    BY <1>1, <1>3, <1>4, EnqueueFacts DEF IInv
  <1>6. loggers' \in Seq(Nodes) /\ LoggersDistinct' /\ detached' \subseteq Loggers
    BY <1>1 DEF registry, IInv, TypeOK, LoggersDistinct
  <1>7. blocked' = blocked /\ UNCHANGED <<calls, issued, alive, effects>>
    BY <1>1 DEF callers
  <1> QED
    BY <1>1, <1>5, <1>6, <1>7, AtOnceStep

\* One turn of the loop over the nodes.
LEMMA VisitStep == ASSUME IInv, VisitNode PROVE IInv'
  <1> DEFINE n == Head(todo)
             c == [kind |-> job.kind, node |-> n, arg |-> job.arg]
  <1>0. /\ todo # <<>> /\ todo' = Tail(todo)
        /\ UNCHANGED <<registry, loggingQueue, running, job, callers, effects, result>>
        /\ IF Wanted(n)
           THEN /\ loggerQueue' = Enqueue(n.queue, c)
                /\ outstanding' = IF job.kind = "willRemove" THEN outstanding
                                  ELSE outstanding \cup {n}
           ELSE UNCHANGED <<loggerQueue, outstanding>>
    BY DEF VisitNode
  <1>1. /\ todo \in Seq(Nodes) /\ TypeOK /\ n \in Nodes /\ todo' \in Seq(Nodes)
        /\ n = todo[1] /\ 1 \in DOMAIN todo
        /\ \A i \in DOMAIN todo' : /\ i \in Nat /\ i + 1 \in DOMAIN todo /\ i + 1 # 1
                                   /\ todo'[i] = todo[i + 1]
    BY <1>0, TailFacts DEF IInv, TypeOK
  <1>2. job \in Jobs /\ job.kind # "none"
    BY <1>0 DEF IInv, JobDiscipline, TypeOK
  <1>3. c \in Callbacks /\ n.queue \in QueueIds
    BY <1>1, <1>2 DEF Jobs, Callbacks, Nodes
  <1>4. /\ \A i \in DOMAIN todo : todo[i] \notin outstanding
        /\ \A i, j \in DOMAIN todo : i # j => todo[i] # todo[j]
    BY DEF IInv, TodoFresh
  <1>5. TodoFresh'
    BY <1>0, <1>1, <1>4 DEF TodoFresh
  <1>6. /\ LoggersDistinct' /\ OneBlockPerThread' /\ SyncMessageNamesCaller'
        /\ QueueOrdered' /\ JobIsOldest' /\ ReceivedIsOlder' /\ DeliveredInOrder'
    BY <1>0 DEF IInv, registry, callers, effects, LoggersDistinct, OneBlockPerThread,
       SyncMessageNamesCaller, QueueOrdered, JobIsOldest, ReceivedIsOlder, DeliveredInOrder
  <1>7. JobDiscipline'
    BY <1>0, <1>2 DEF IInv, JobDiscipline
  <1>8. CASE ~Wanted(n)
    <2>1. UNCHANGED <<loggerQueue, outstanding>>
      BY <1>0, <1>8
    <2>2. TypeOK'
      BY <1>0, <1>1, <2>1 DEF TypeOK, registry, callers, effects
    <2>3. WaitedInGroup' /\ WaitedOnce'
      BY <1>0, <2>1 DEF IInv, WaitedInGroup, WaitedOnce
    <2> QED
      BY <1>5, <1>6, <1>7, <2>2, <2>3 DEF IInv
  <1>9. CASE Wanted(n)
    <2> HIDE DEF c
    <2>1. /\ loggerQueue' = Enqueue(n.queue, c)
          /\ outstanding' = IF job.kind = "willRemove" THEN outstanding ELSE outstanding \cup {n}
      BY <1>0, <1>9
    <2>2. c.kind = job.kind /\ c.node = n /\ c.arg = job.arg
      BY DEF c
    <2> HIDE DEF n
    <2>3. /\ loggerQueue' \in [QueueIds -> Seq(Callbacks)]
          /\ \A q \in QueueIds : \A i \in DOMAIN loggerQueue'[q] :
                \/ i \in DOMAIN loggerQueue[q] /\ loggerQueue'[q][i] = loggerQueue[q][i]
                \/ /\ q = n.queue /\ loggerQueue'[q][i] = c
                   /\ i = Len(loggerQueue[q]) + 1 /\ i \notin DOMAIN loggerQueue[q]
      BY <1>1, <1>3, <2>1, EnqueueFacts
    <2>4. TypeOK'
      BY <1>0, <1>1, <2>1, <2>3 DEF TypeOK, registry, callers, effects
    <2>5. WaitedInGroup'
      BY <1>0, <2>1, <2>2, <2>3 DEF IInv, WaitedInGroup, WaitedKinds
    <2>6. n \notin outstanding
      BY <1>1, <1>4
    <2>7. WaitedOnce'
      BY <2>2, <2>3, <2>6 DEF IInv, WaitedInGroup, WaitedOnce
    <2> QED
      BY <1>5, <1>6, <1>7, <2>4, <2>5, <2>7 DEF IInv
  <1> QED
    BY <1>8, <1>9

\* The running block ends.
LEMMA FinishStep == ASSUME IInv, FinishJob PROVE IInv'
  <1> USE DEF IInv, effects
  <1>0. /\ job # NoJob /\ todo = <<>> /\ outstanding = {} /\ job' = NoJob
        /\ running.op # "client" => running' = NoBlock /\ blocked' = blocked \ {running.by}
        /\ running.op = "client" => UNCHANGED <<running, blocked>>
        /\ alive' \in BOOLEAN
        /\ loggers' = loggers \/ loggers' = <<>>
        /\ detached' = detached \/ detached' = Loggers
        /\ UNCHANGED <<loggingQueue, todo, outstanding, loggerQueue, calls, issued, effects>>
    BY DEF FinishJob
  <1>1. \A q \in QueueIds : \A i \in DOMAIN loggerQueue[q] :
            loggerQueue[q][i].kind \notin WaitedKinds
    BY <1>0 DEF WaitedInGroup
  <1>2. job'.kind = "none"
    BY <1>0 DEF NoJob
  <1>3. NoBlock.by \notin Threads /\ NoBlock.op = "none"
    BY DDLogAssumption DEF NoBlock
  <1>4. TypeOK'
    BY <1>0 DEF TypeOK, Jobs, NoJob
  <1>5. LoggersDistinct' /\ DeliveredInOrder'
    BY <1>0 DEF LoggersDistinct, DeliveredInOrder
  <1>6. JobDiscipline' /\ TodoFresh'
    BY <1>0, <1>2, <1>3 DEF JobDiscipline, TodoFresh
  <1>7. WaitedInGroup' /\ WaitedOnce'
    BY <1>0, <1>1 DEF WaitedInGroup, WaitedOnce
  <1>8. OneBlockPerThread' /\ SyncMessageNamesCaller'
    BY <1>0, <1>3 DEF OneBlockPerThread, SyncMessageNamesCaller
  <1>9. QueueOrdered' /\ JobIsOldest' /\ ReceivedIsOlder'
    BY <1>0, <1>2 DEF QueueOrdered, JobIsOldest, ReceivedIsOlder
  <1> QED
    BY <1>4, <1>5, <1>6, <1>7, <1>8, <1>9

\* The client's block ends.
LEMMA ClientEndStep == ASSUME IInv, ClientBlockEnds PROVE IInv'
  <1> USE DEF IInv, registry, callers, effects
  <1>0. /\ running.op = "client" /\ job = NoJob /\ running' = NoBlock
        /\ UNCHANGED <<registry, loggingQueue, job, todo, outstanding, loggerQueue,
                       callers, effects, result>>
    BY DEF ClientBlockEnds
  <1>1. NoBlock.by \notin Threads /\ NoBlock.op = "none" /\ job.kind = "none"
    BY <1>0, DDLogAssumption DEF NoBlock, NoJob
  <1>2. TypeOK'
    BY <1>0 DEF TypeOK
  <1>3. LoggersDistinct' /\ DeliveredInOrder' /\ JobDiscipline' /\ TodoFresh'
    BY <1>0, <1>1 DEF LoggersDistinct, DeliveredInOrder, JobDiscipline, TodoFresh
  <1>4. WaitedInGroup' /\ WaitedOnce'
    BY <1>0 DEF WaitedInGroup, WaitedOnce
  <1>5. OneBlockPerThread' /\ SyncMessageNamesCaller'
    BY <1>0, <1>1 DEF OneBlockPerThread, SyncMessageNamesCaller
  <1>6. QueueOrdered' /\ JobIsOldest' /\ ReceivedIsOlder'
    BY <1>0, <1>1 DEF QueueOrdered, JobIsOldest, ReceivedIsOlder
  <1> QED
    BY <1>2, <1>3, <1>4, <1>5, <1>6

\* Every step of the logging queue preserves the invariant.
LEMMA LoggingQueueStep == ASSUME IInv, RunLoggingQueue PROVE IInv'
  <1>1. CASE lt_log
    <2>1. IsNext("log") /\ Head(loggingQueue) \in Blocks
      BY <1>1, HeadFacts DEF lt_log, Starts, IsNext
    <2>2. [kind |-> "logMessage", arg |-> Head(loggingQueue).arg] \in Jobs
      BY <2>1, MessageFacts DEF IsNext, Jobs
    <2> QED
      BY <1>1, <2>2, LoggersFacts, StartStep DEF lt_log
  <1>2. CASE lt_removeAllLoggers
    <2>1. [kind |-> "willRemove", arg |-> None] \in Jobs
      BY DEF Jobs
    <2> QED
      BY <1>2, <2>1, LoggersFacts, StartStep DEF lt_removeAllLoggers
  <1>3. CASE lt_flush
    <2>1. [kind |-> "flush", arg |-> None] \in Jobs
      BY DEF Jobs
    <2>2. ASSUME NEW op \in {"flush", "terminate"},
                 Starts(op, [kind |-> "flush", arg |-> None], loggers)
          PROVE  IInv'
      BY <2>1, <2>2, LoggersFacts, StartStep
    <2> QED
      BY <1>3, <2>2 DEF lt_flush
  <1>4. CASE GetFormatter
    <2> DEFINE l == Head(loggingQueue).arg
               n == [logger |-> l, level |-> {}, queue |-> OwnQueueOf(l)]
    <2>1. l \in OwnQueue
      BY <1>4, HeadFacts DEF GetFormatter, Starts, IsNext, Blocks
    <2>2. n \in Nodes
      BY <2>1, DDLogAssumption DEF Nodes, OwnQueueOf, QueueIds
    <2>3. [kind |-> "getFormatter", arg |-> None] \in Jobs
      BY DEF Jobs
    <2>4. Starts("getFormatter", [kind |-> "getFormatter", arg |-> None], <<n>>)
      BY <1>4 DEF GetFormatter
    <2> HIDE DEF n
    <2>5. <<n>> \in Seq(Nodes) /\ \A i, k \in DOMAIN <<n>> : i = k
      BY <2>2
    <2> QED
      BY <2>3, <2>4, <2>5, StartStep
  <1>5. CASE ClientBlock
    <2>1. NoJob \in Jobs /\ NoJob.kind = "none"
      BY DEF NoJob, Jobs
    <2>2. <<>> \in Seq(Nodes) /\ \A i, k \in DOMAIN <<>> : i = k
      OBVIOUS
    <2>3. Starts("client", NoJob, <<>>)
      BY <1>5 DEF ClientBlock
    <2> HIDE DEF NoJob
    <2> QED
      BY <2>1, <2>2, <2>3, StartStep
  <1> QED
    BY <1>1, <1>2, <1>3, <1>4, <1>5, AddStep, RemoveStep, ListStep, ForwardStep,
       VisitStep, FinishStep, ClientEndStep DEF RunLoggingQueue

-----------------------------------------------------------------------------
(* The loggers' queues.                                                      *)

\* Taking the head of the queue q of a logger, position by position.
LEMMA PopFacts ==
    ASSUME TypeOK, NEW q \in QueueIds, loggerQueue[q] # <<>>,
           loggerQueue' = [loggerQueue EXCEPT ![q] = Tail(@)]
    PROVE  /\ loggerQueue' \in [QueueIds -> Seq(Callbacks)]
           /\ Head(loggerQueue[q]) \in Callbacks
           /\ 1 \in DOMAIN loggerQueue[q] /\ Head(loggerQueue[q]) = loggerQueue[q][1]
           /\ \A r \in QueueIds : r # q => loggerQueue'[r] = loggerQueue[r]
           /\ \A i \in DOMAIN loggerQueue'[q] :
                 /\ i \in Nat /\ i + 1 \in DOMAIN loggerQueue[q] /\ i + 1 # 1
                 /\ loggerQueue'[q][i] = loggerQueue[q][i + 1]
  <1>1. loggerQueue \in [QueueIds -> Seq(Callbacks)] /\ loggerQueue[q] \in Seq(Callbacks)
    BY DEF TypeOK
  <1>2. loggerQueue'[q] = Tail(loggerQueue[q])
    BY <1>1
  <1>3. /\ Head(loggerQueue[q]) \in Callbacks /\ Tail(loggerQueue[q]) \in Seq(Callbacks)
        /\ 1 \in DOMAIN loggerQueue[q] /\ Head(loggerQueue[q]) = loggerQueue[q][1]
        /\ \A i \in DOMAIN Tail(loggerQueue[q]) :
              /\ i \in Nat /\ i + 1 \in DOMAIN loggerQueue[q] /\ i + 1 # 1
              /\ Tail(loggerQueue[q])[i] = loggerQueue[q][i + 1]
    BY <1>1, TailFacts
  <1>4. loggerQueue' \in [QueueIds -> Seq(Callbacks)]
    BY <1>1, <1>3
  <1> QED
    BY <1>1, <1>2, <1>3, <1>4

\* A block of a logger's queue ends: the parts of the invariant that do not
\* speak of what the logger received.
LEMMA PopStep ==
    ASSUME IInv, NEW q \in QueueIds, NEW kind, Pops(q, kind),
           IF kind \in WaitedKinds THEN Leaves(Head(loggerQueue[q]).node)
                                   ELSE UNCHANGED outstanding,
           UNCHANGED <<registry, loggingQueue, running, job, todo, callers>>
    PROVE  /\ LoggersDistinct' /\ JobDiscipline' /\ TodoFresh' /\ WaitedInGroup'
           /\ WaitedOnce' /\ OneBlockPerThread' /\ SyncMessageNamesCaller'
           /\ QueueOrdered' /\ JobIsOldest'
  <1> DEFINE c == Head(loggerQueue[q])
  <1> USE DEF IInv, registry, callers
  <1>1. /\ loggerQueue[q] # <<>> /\ c.kind = kind
        /\ loggerQueue' = [loggerQueue EXCEPT ![q] = Tail(@)]
    BY DEF Pops
  <1>2. /\ 1 \in DOMAIN loggerQueue[q] /\ c = loggerQueue[q][1]
        /\ \A r \in QueueIds : r # q => loggerQueue'[r] = loggerQueue[r]
        /\ \A i \in DOMAIN loggerQueue'[q] :
              /\ i + 1 \in DOMAIN loggerQueue[q] /\ i + 1 # 1
              /\ loggerQueue'[q][i] = loggerQueue[q][i + 1]
    BY <1>1, PopFacts
  <1>3. outstanding' = IF kind \in WaitedKinds THEN outstanding \ {c.node} ELSE outstanding
    BY DEF Leaves
  <1> HIDE DEF c
  <1>4. LoggersDistinct' /\ OneBlockPerThread' /\ SyncMessageNamesCaller' /\ QueueOrdered' /\ JobIsOldest'
    BY DEF LoggersDistinct, OneBlockPerThread, SyncMessageNamesCaller, QueueOrdered, JobIsOldest
  <1>5. JobDiscipline' /\ TodoFresh'
    BY <1>3 DEF JobDiscipline, TodoFresh
  <1>6. WaitedOnce'
    <2> SUFFICES ASSUME NEW r \in QueueIds, NEW i \in DOMAIN loggerQueue'[r],
                        NEW j \in DOMAIN loggerQueue'[r], i # j,
                        loggerQueue'[r][i].kind \in WaitedKinds,
                        loggerQueue'[r][j].kind \in WaitedKinds
                 PROVE  loggerQueue'[r][i].node # loggerQueue'[r][j].node
      BY DEF WaitedOnce
    <2>1. CASE r = q
      <3>1. i \in Nat /\ j \in Nat
        BY <1>1, <2>1, PopFacts
      <3>2. i + 1 # j + 1
        BY <3>1
      <3> QED
        BY <1>2, <2>1, <3>2 DEF WaitedOnce
    <2>2. CASE r # q
      BY <1>2, <2>2 DEF WaitedOnce
    <2> QED
      BY <2>1, <2>2
  <1>7. WaitedInGroup'
    <2> SUFFICES ASSUME NEW r \in QueueIds, NEW i \in DOMAIN loggerQueue'[r],
                        loggerQueue'[r][i].kind \in WaitedKinds
                 PROVE  /\ loggerQueue'[r][i].node \in outstanding'
                        /\ loggerQueue'[r][i].node.queue = r
                        /\ loggerQueue'[r][i].kind = job.kind
                        /\ loggerQueue'[r][i].arg = job.arg
      BY DEF WaitedInGroup
    <2>1. CASE r = q
      <3>1. kind \in WaitedKinds => loggerQueue[q][i + 1].node # c.node
        BY <1>1, <1>2, <2>1 DEF WaitedOnce
      <3> QED
        BY <1>2, <1>3, <2>1, <3>1 DEF WaitedInGroup
    <2>2. CASE r # q
      <3>1. kind \in WaitedKinds => c.node.queue = q
        BY <1>1, <1>2 DEF WaitedInGroup
      <3> QED
        BY <1>2, <1>3, <2>2, <3>1 DEF WaitedInGroup
    <2> QED
      BY <2>1, <2>2
  <1> QED
    BY <1>4, <1>5, <1>6, <1>7

\* A callback that changes nothing the logger received preserves the invariant.
LEMMA OtherCallbackStep ==
    ASSUME IInv, NEW q \in QueueIds, NEW kind, Pops(q, kind),
           IF kind \in WaitedKinds THEN Leaves(Head(loggerQueue[q]).node)
                                   ELSE UNCHANGED outstanding,
           formatter' \in [OwnQueue -> Formatters \cup {NoFormatter}],
           flushed' \in [Loggers -> Nat], attached' \in [Loggers -> Int],
           UNCHANGED <<registry, loggingQueue, running, job, todo, callers, received>>
    PROVE  IInv'
  <1>1. TypeOK'
    <2>1. loggerQueue' \in [QueueIds -> Seq(Callbacks)]
      BY PopFacts DEF Pops, IInv
    <2>2. outstanding' \subseteq Nodes
      BY DEF Leaves, IInv, TypeOK
    <2> QED
      BY <2>1, <2>2 DEF IInv, TypeOK, registry, callers
  <1>2. DeliveredInOrder' /\ ReceivedIsOlder'
    BY DEF IInv, DeliveredInOrder, ReceivedIsOlder, callers
  <1> QED
    BY <1>1, <1>2, PopStep DEF IInv

\* A logger receives the message of the job, which is no older than any it has.
LEMMA LogMessageStep == ASSUME IInv, NEW q \in QueueIds, logMessage(q) PROVE IInv'
  <1> DEFINE c == Head(loggerQueue[q])
             l == c.node.logger
             e == [msg |-> c.arg, fmt |-> IF l \in OwnQueue THEN formatter[l] ELSE NoFormatter]
             Entries == [msg : Messages, fmt : Formatters \cup {NoFormatter}]
  <1>0. /\ Pops(q, "logMessage") /\ Leaves(c.node)
        /\ received' = [received EXCEPT ![l] = Append(@, e)]
        /\ UNCHANGED <<registry, loggingQueue, running, job, todo, callers,
                       formatter, flushed, attached, result>>
    BY DEF logMessage
  <1>1. /\ c \in Callbacks /\ c.kind = "logMessage" /\ 1 \in DOMAIN loggerQueue[q]
        /\ c = loggerQueue[q][1] /\ loggerQueue' \in [QueueIds -> Seq(Callbacks)]
    BY <1>0, PopFacts DEF Pops, IInv
  <1>2. c.arg \in Messages /\ l \in Loggers
    BY <1>1 DEF Callbacks, Nodes
  <1>3. e \in Entries
    BY <1>2 DEF IInv, TypeOK
  <1>4. job.kind = "logMessage" /\ job.arg = e.msg
    BY <1>1 DEF IInv, WaitedInGroup, WaitedKinds
  <1>5. TypeOK /\ \A k \in Loggers : received[k] \in Seq(Entries)
    BY DEF IInv, TypeOK
  <1>6. outstanding' \subseteq Nodes
    BY <1>0 DEF Leaves, IInv, TypeOK
  <1> HIDE DEF e, c, l, Entries
  <1>7. received' \in [Loggers -> Seq(Entries)]
    <2>1. Append(received[l], e) \in Seq(Entries)
      BY <1>2, <1>3, <1>5, AppendFacts
    <2> QED
      BY <1>0, <1>5, <2>1 DEF TypeOK, Entries
  <1>8. \A k \in Loggers : \A i \in DOMAIN received'[k] :
           /\ i \in Nat
           /\ \/ /\ i \in DOMAIN received[k] /\ received'[k][i] = received[k][i]
              \/ /\ received'[k][i] = e /\ \A j \in DOMAIN received'[k] : j <= i
    <2> SUFFICES ASSUME NEW k \in Loggers, NEW i \in DOMAIN received'[k]
                 PROVE  /\ i \in Nat
                        /\ \/ i \in DOMAIN received[k] /\ received'[k][i] = received[k][i]
                           \/ received'[k][i] = e /\ \A j \in DOMAIN received'[k] : j <= i
      OBVIOUS
    <2>0. received \in [Loggers -> Seq(Entries)]
      BY <1>5 DEF TypeOK, Entries
    <2>1. CASE k # l
      <3>1. received'[k] = received[k]
        BY <1>0, <2>0, <2>1
      <3> QED
        BY <1>5, <3>1, SeqElements
    <2>2. CASE k = l
      <3>1. received'[k] = Append(received[k], e)
        BY <1>0, <2>0, <2>2
      <3>2. /\ \A j \in DOMAIN Append(received[k], e) :
                  /\ j \in Nat
                  /\ \/ j \in DOMAIN received[k] /\ Append(received[k], e)[j] = received[k][j]
                     \/ /\ j \notin DOMAIN received[k] /\ j = Len(received[k]) + 1
                        /\ Append(received[k], e)[j] = e
            /\ \A j \in DOMAIN received[k] : j <= Len(received[k])
            /\ Len(received[k]) \in Nat
        BY <1>3, <1>5, AppendFacts, LenProperties
      <3>3. \A j \in DOMAIN Append(received[k], e) : j <= Len(received[k]) + 1
        BY <3>2
      <3> QED
        BY <3>1, <3>2, <3>3
    <2> QED
      BY <2>1, <2>2
  <1>9. TypeOK'
    BY <1>0, <1>1, <1>6, <1>7 DEF IInv, TypeOK, Entries, registry, callers
  <1>10. \A k \in Loggers : \A i \in DOMAIN received[k] :
            ~Direct(received[k][i].msg) =>
               /\ received[k][i].msg.id <= issued
               /\ \A j \in DOMAIN loggingQueue :
                     loggingQueue[j].op = "log" => received[k][i].msg.id < loggingQueue[j].arg.id
               /\ ~Direct(e.msg) => received[k][i].msg.id <= e.msg.id
    BY <1>4 DEF IInv, ReceivedIsOlder
  <1>11. /\ e.msg.id \in Nat
         /\ ~Direct(e.msg) =>
               /\ e.msg.id <= issued
               /\ \A j \in DOMAIN loggingQueue :
                     loggingQueue[j].op = "log" => e.msg.id < loggingQueue[j].arg.id
    BY <1>2, <1>4, MessageFacts DEF IInv, JobIsOldest, e
  <1>12. ReceivedIsOlder'
    <2>1. UNCHANGED <<issued, loggingQueue, job>>
      BY <1>0 DEF callers
    <2>2. e.msg.id <= e.msg.id
      BY <1>11
    <2> QED
      BY <1>4, <1>8, <1>10, <1>11, <2>1, <2>2 DEF ReceivedIsOlder
  <1>13. DeliveredInOrder'
    <2> SUFFICES ASSUME NEW k \in Loggers, NEW i \in DOMAIN received'[k],
                        NEW j \in DOMAIN received'[k], i < j,
                        ~Direct(received'[k][i].msg), ~Direct(received'[k][j].msg)
                 PROVE  received'[k][i].msg.id <= received'[k][j].msg.id
      BY DEF DeliveredInOrder
    <2>1. i \in DOMAIN received[k] /\ received'[k][i] = received[k][i]
      <3>1. i \in Nat /\ j \in Nat /\ ~(j <= i)
        BY <1>8
      <3> QED
        BY <1>8, <3>1
    <2>2. CASE j \in DOMAIN received[k] /\ received'[k][j] = received[k][j]
      BY <2>1, <2>2 DEF IInv, DeliveredInOrder
    <2>3. CASE received'[k][j] = e
      BY <1>10, <2>1, <2>3
    <2> QED
      BY <1>8, <2>2, <2>3
  <1>14. /\ LoggersDistinct' /\ JobDiscipline' /\ TodoFresh' /\ WaitedInGroup'
         /\ WaitedOnce' /\ OneBlockPerThread' /\ SyncMessageNamesCaller'
         /\ QueueOrdered' /\ JobIsOldest'
    BY <1>0, PopStep DEF WaitedKinds, c
  <1> QED
    BY <1>9, <1>12, <1>13, <1>14 DEF IInv

\* Every step of a logger's queue preserves the invariant.
LEMMA LoggerQueueStep == ASSUME IInv, NEW q \in QueueIds, RunLoggerQueue(q) PROVE IInv'
  <1> DEFINE c == Head(loggerQueue[q])
             l == c.node.logger
  <1>0. /\ formatter \in [OwnQueue -> Formatters \cup {NoFormatter}]
        /\ flushed \in [Loggers -> Nat] /\ attached \in [Loggers -> Int]
    BY DEF IInv, TypeOK
  <1>1. ASSUME NEW kind, Pops(q, kind)
        PROVE  c \in Callbacks /\ c.kind = kind /\ l \in Loggers
    BY <1>1, PopFacts DEF Pops, IInv, Callbacks, Nodes
  <1>2. CASE logMessage(q)
    BY <1>2, LogMessageStep
  <1>3. CASE flush(q)
    <2>1. Len(received[l]) \in Nat
      BY <1>1, <1>3, LenProperties DEF flush, IInv, TypeOK
    <2>2. flushed' \in [Loggers -> Nat]
      BY <1>0, <1>3, <2>1 DEF flush
    <2> QED
      BY <1>0, <1>3, <2>2, OtherCallbackStep DEF flush, WaitedKinds
  <1>4. CASE ReadFormatter(q)
    BY <1>0, <1>4, OtherCallbackStep DEF ReadFormatter, WaitedKinds, effects
  <1>5. CASE WriteFormatter(q)
    <2>1. c.arg \in Formatters
      BY <1>1, <1>5 DEF WriteFormatter, Callbacks
    <2>2. formatter' \in [OwnQueue -> Formatters \cup {NoFormatter}]
      BY <1>0, <1>5, <2>1 DEF WriteFormatter
    <2> QED
      BY <1>0, <1>5, <2>2, OtherCallbackStep DEF WriteFormatter, WaitedKinds, engine
  <1>6. CASE didAddLogger(q)
    <2>1. attached' = [attached EXCEPT ![l] = attached[l] + 1]
      BY <1>6 DEF didAddLogger
    <2>2. attached[l] + 1 \in Int
      BY <1>0, <1>1, <1>6 DEF didAddLogger
    <2>3. attached' \in [Loggers -> Int]
      BY <1>0, <2>1, <2>2
    <2> QED
      BY <1>0, <1>6, <2>3, OtherCallbackStep DEF didAddLogger, WaitedKinds, engine
  <1>7. CASE willRemoveLogger(q)
    <2>1. attached' = [attached EXCEPT ![l] = attached[l] - 1]
      BY <1>7 DEF willRemoveLogger
    <2>2. attached[l] - 1 \in Int
      BY <1>0, <1>1, <1>7 DEF willRemoveLogger
    <2>3. attached' \in [Loggers -> Int]
      BY <1>0, <2>1, <2>2
    <2> QED
      BY <1>0, <1>7, <2>3, OtherCallbackStep DEF willRemoveLogger, WaitedKinds, engine
  <1> QED
    BY <1>2, <1>3, <1>4, <1>5, <1>6, <1>7 DEF RunLoggerQueue

-----------------------------------------------------------------------------
(* The theorems.                                                             *)

\* A step that changes no variable preserves the invariant.
LEMMA StutterStep == ASSUME IInv, UNCHANGED vars PROVE IInv'
  <1> USE DEF IInv, vars, registry, engine, callers, effects
  <1>0. TypeOK'
    BY DEF TypeOK
  <1>1. LoggersDistinct' /\ DeliveredInOrder' /\ JobDiscipline' /\ TodoFresh'
    BY DEF LoggersDistinct, DeliveredInOrder, JobDiscipline, TodoFresh
  <1>2. WaitedInGroup' /\ WaitedOnce' /\ OneBlockPerThread' /\ SyncMessageNamesCaller'
    BY DEF WaitedInGroup, WaitedOnce, OneBlockPerThread, SyncMessageNamesCaller
  <1>3. QueueOrdered' /\ JobIsOldest' /\ ReceivedIsOlder'
    BY DEF QueueOrdered, JobIsOldest, ReceivedIsOlder
  <1> QED
    BY <1>0, <1>1, <1>2, <1>3

\* The invariant holds in every reachable state: the logging queue, the dispatch
\* group and the loggers' queues stay consistent with one another.
THEOREM Invariance == Spec => []IInv
  <1>1. Init => IInv
    BY InitIInv
  <1>2. IInv /\ [Next]_vars => IInv'
    BY CallStep, LoggingQueueStep, LoggerQueueStep, StutterStep DEF Next, Stopped
  <1> QED
    BY <1>1, <1>2, PTL DEF Spec

\* Every variable of the core keeps its type.
THEOREM TypeCorrect == Spec => []TypeOK
  <1>1. IInv => TypeOK
    BY DEF IInv
  <1> QED
    BY <1>1, Invariance, PTL

\* Every logger gets the messages in the order of the log statements, for any
\* number of threads and loggers and any mixture of calls.
THEOREM DeliveryOrder == Spec => []DeliveredInOrder
  <1>1. IInv => DeliveredInOrder
    BY DEF IInv
  <1> QED
    BY <1>1, Invariance, PTL

\* A callback pending on some logger's queue stands at a position of that queue.
LEMMA PendingFacts ==
    ASSUME TypeOK, NEW kind, NEW c \in Pending(kind)
    PROVE  \E q \in QueueIds : \E i \in DOMAIN loggerQueue[q] :
              c = loggerQueue[q][i] /\ c.kind = kind
  <1>1. PICK q \in QueueIds : c \in ToSet(loggerQueue[q]) /\ c.kind = kind
    BY DEF Pending
  <1>2. PICK i \in DOMAIN loggerQueue[q] : c = loggerQueue[q][i]
    BY <1>1 DEF ToSet
  <1> QED
    BY <1>1, <1>2

\* No logger has callbacks pending for two messages: lt_log waits for the group.
THEOREM Backlog == Spec => []OneMessageAtATime
  <1>1. IInv => OneMessageAtATime
    <2> SUFFICES ASSUME IInv, NEW c \in Pending("logMessage")
                 PROVE  job.kind = "logMessage" /\ job.arg = c.arg
      BY DEF OneMessageAtATime
    <2> QED
      BY PendingFacts DEF IInv, WaitedInGroup, WaitedKinds
  <1> QED
    BY <1>1, Invariance, PTL

\* A thread stays inside its synchronous log statement until every registered
\* logger has the message.
THEOREM SyncDelivery == Spec => []SyncReturnsDelivered
  <1>1. IInv => SyncReturnsDelivered
    <2> SUFFICES ASSUME IInv, NEW m \in InFlight, m.sync, m.by \in Threads
                 PROVE  m.by \in blocked
      BY DEF SyncReturnsDelivered
    <2> USE DEF IInv
    <2>1. CASE \E i \in DOMAIN loggingQueue : loggingQueue[i].op = "log" /\ m = loggingQueue[i].arg
      BY <2>1 DEF SyncMessageNamesCaller, OneBlockPerThread
    <2>2. CASE job.kind = "logMessage" /\ m = job.arg
      <3>1. m.by # OnLoggingQueue
        BY DDLogAssumption
      <3> QED
        BY <2>2, <3>1 DEF Direct, JobDiscipline, SyncMessageNamesCaller, OneBlockPerThread
    <2>3. CASE \E c \in Pending("logMessage") : m = c.arg
      <3>1. job.kind = "logMessage" /\ m = job.arg
        BY <2>3, PendingFacts DEF WaitedInGroup, WaitedKinds
      <3> QED
        BY <2>2, <3>1
    <2> QED
      BY <2>1, <2>2, <2>3 DEF InFlight
  <1> QED
    BY <1>1, Invariance, PTL
=============================================================================
