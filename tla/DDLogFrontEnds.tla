--------------------------- MODULE DDLogFrontEnds ---------------------------
(***************************************************************************)
(* The ways into DDLog that applications use, composed with its dispatch   *)
(* core: the log macros (DDLogMacros.h), the Swift functions               *)
(* (CocoaLumberjack.swift), DDAssert (DDAssert.swift), the swift-log       *)
(* handler (DDLogHandler.swift) and the Combine publisher                  *)
(* (DDLog+Combine.swift), whose subscriptions are loggers.  They decide    *)
(* which statements are made and which of them are synchronous.            *)
(*                                                                         *)
(* dynamicLogLevel and asyncLoggingEnabled are two atomic values that any  *)
(* thread may change at any time: a statement reads any value of each.     *)
(***************************************************************************)
EXTENDS DDLogProperties

CONSTANTS
    Subscriptions,      \* the Subscription objects, each made by one receive(subscriber:);
                        \* the thread that runs the queue of one is a caller of that name
    SubscriptionLevels, \* the levels that messagePublisher(with:) is given
    ErrorFlag,          \* DDLogFlagError
    LogLevel,           \* LOG_LEVEL_DEF and DDDefaultLogLevel
    AsyncEnabled,       \* LOG_ASYNC_ENABLED
    FlagOfLevel,        \* ddLogLevelAndFlag: the flag of each Logging.Logger.Level
    Threshold           \* syncLogging.tresholdLevel

\* Logging.Logger.Level, from trace to critical.
SwiftLogLevels == 0 .. 6

ASSUME FrontEndsAssumption ==
    /\ Subscriptions \subseteq (Loggers \cap Threads) \ (OwnQueue \cup Flushable)
    /\ \A i \in DOMAIN Installed : Installed[i].logger \notin Subscriptions
    /\ SubscriptionLevels \subseteq Levels
    /\ ErrorFlag \in Flags
    /\ LogLevel \subseteq Flags
    /\ AsyncEnabled \in BOOLEAN
    /\ FlagOfLevel \in [SwiftLogLevels -> Flags]
    /\ Threshold \in SwiftLogLevels
    /\ None \notin BOOLEAN \cup Subscriptions \cup Nat
    /\ Subscriptions \cap Nat = {}

VARIABLES
    subscription, \* the life of each Subscription; its subscriber is set from "adding" to "cancelling"
    receiving,    \* subscriptions whose subscriber is being given a value
    values,       \* per subscription: the values its subscriber was given
    atCancel,     \* per subscription: how many it was given, or about to be given, when cancel returned
    doing,        \* per thread: the subscription it makes or cancels, the statement it asserts with, or None
    urgent,       \* the statements that are promised to be synchronous
    aborted       \* an assertion ended the process

AppThreads == Threads \ Subscriptions

combine  == <<subscription, receiving, values, atCancel>>
front    == <<combine, doing, urgent, aborted>>
allVars  == <<vars, front>>

FrontInit ==
    /\ Init
    /\ subscription = [s \in Subscriptions |-> "none"]
    /\ receiving = {}
    /\ values = [s \in Subscriptions |-> <<>>]
    /\ atCancel = [s \in Subscriptions |-> 0]
    /\ doing = [t \in AppThreads |-> None]
    /\ urgent = {}
    /\ aborted = FALSE

Free(t) == doing[t] = None

-----------------------------------------------------------------------------
(* Log statements.                                                           *)

Statement(t, flag, async, promised) ==
    /\ Free(t)
    /\ Log(t, flag, ~async)
    /\ urgent' = IF promised THEN urgent \cup {issued + 1} ELSE urgent
    /\ UNCHANGED <<combine, doing, aborted>>

\* DDLogError and the other macros of DDLogMacros.h, all of them a LOG_MAYBE.
LogMacro(t, flag) ==
    /\ flag \in LogLevel
    /\ Statement(t, flag, flag # ErrorFlag /\ AsyncEnabled, flag = ErrorFlag)

\* Faulty variant of Asynchronous: DDLogError has no default of its own.
AsynchronousByDefault(flag, asynchronous, asyncLoggingEnabled) ==
    IF asynchronous # None THEN asynchronous ELSE asyncLoggingEnabled

\* DDLogError passes asynchronous ?? false, and _DDLogMessage uses
\* asynchronous ?? asyncLoggingEnabled.
Asynchronous(flag, asynchronous, asyncLoggingEnabled) ==
    CASE asynchronous # None -> asynchronous
      [] flag = ErrorFlag    -> FALSE
      [] OTHER               -> asyncLoggingEnabled

\* DDLogError, DDLogWarn, ... of Swift, through _DDLogMessage.
LogFunction(t, flag, asynchronous) ==
    \E dynamicLogLevel \in SUBSET Flags, asyncLoggingEnabled \in BOOLEAN :
        /\ flag \in LogLevel \cap dynamicLogLevel
        /\ Statement(t, flag, Asynchronous(flag, asynchronous, asyncLoggingEnabled),
                     flag = ErrorFlag /\ asynchronous # TRUE)

\* Faulty variant of logAsync: the threshold itself is asynchronous.
logAsyncAtThreshold(level, logSynchronous) ==
    level <= Threshold /\ (logSynchronous = None \/ ~logSynchronous)

\* _logAsync of DDLogHandler; logSynchronous is the value in the metadata, or None.
logAsync(level, logSynchronous) ==
    level < Threshold /\ (logSynchronous = None \/ ~logSynchronous)

\* log(event:) of DDLogHandler; the level has passed the Logger of swift-log.
SwiftLog(t, level, logSynchronous) ==
    Statement(t, FlagOfLevel[level], logAsync(level, logSynchronous), level >= Threshold)

-----------------------------------------------------------------------------
(* DDAssert, whose condition failed: it logs an error, asynchronously only if *)
(* its caller says so, then ends a debug build; a release build goes on.      *)

DDAssert(t, asynchronous) ==
    /\ Free(t)
    /\ \E dynamicLogLevel \in SUBSET Flags, asyncLoggingEnabled \in BOOLEAN :
          IF ErrorFlag \in LogLevel \cap dynamicLogLevel
          THEN /\ Log(t, ErrorFlag, ~Asynchronous(ErrorFlag, asynchronous, asyncLoggingEnabled))
               /\ doing' = [doing EXCEPT ![t] = issued + 1]
               /\ urgent' = IF asynchronous = TRUE THEN urgent ELSE urgent \cup {issued + 1}
          ELSE /\ MayCall(t, "log")
               /\ doing' = [doing EXCEPT ![t] = 0]
               /\ UNCHANGED <<vars, urgent>>
    /\ UNCHANGED <<combine, aborted>>

assertionFailure(t) ==
    /\ doing[t] \in 0 .. MaxCalls /\ t \notin blocked
    /\ alive
    /\ doing' = [doing EXCEPT ![t] = None]
    /\ aborted' \in BOOLEAN
    /\ UNCHANGED <<vars, combine, urgent>>

-----------------------------------------------------------------------------
(* Combine.                                                                  *)

\* receive(subscriber:) makes the Subscription, whose init adds it as a logger.
receive(t, s, level) ==
    /\ Free(t)
    /\ subscription[s] = "none"
    /\ AddLogger(t, s, level)
    /\ subscription' = [subscription EXCEPT ![s] = "adding"]
    /\ doing' = [doing EXCEPT ![t] = s]
    /\ UNCHANGED <<receiving, values, atCancel, urgent, aborted>>

\* Then it hands the Subscription to the subscriber.
receiveSubscription(t) ==
    /\ alive
    /\ doing[t] \in Subscriptions /\ subscription[doing[t]] = "adding"
    /\ subscription' = [subscription EXCEPT ![doing[t]] = "active"]
    /\ doing' = [doing EXCEPT ![t] = None]
    /\ UNCHANGED <<vars, receiving, values, atCancel, urgent, aborted>>

\* The values that a subscriber has, with the one that is being handed to it.
Given(s) == Len(values[s]) + Cardinality(receiving \cap {s})

cancel(t, s) ==
    /\ Free(t)
    /\ subscription[s] = "active"
    /\ RemoveLogger(t, s)
    /\ subscription' = [subscription EXCEPT ![s] = "cancelling"]
    /\ doing' = [doing EXCEPT ![t] = s]
    /\ UNCHANGED <<receiving, values, atCancel, urgent, aborted>>

\* The end of cancel: subscriber = nil.
clearSubscriber(t) ==
    /\ alive
    /\ doing[t] \in Subscriptions /\ subscription[doing[t]] = "cancelling"
    /\ subscription' = [subscription EXCEPT ![doing[t]] = "cancelled"]
    /\ atCancel' = [atCancel EXCEPT ![doing[t]] = Given(doing[t])]
    /\ doing' = [doing EXCEPT ![t] = None]
    /\ UNCHANGED <<vars, receiving, values, urgent, aborted>>

\* A subscriber may cancel while it is given a value (as prefix(_:) does): the whole
\* call then runs on the logger's queue.
cancelWhileReceiving(s) ==
    /\ s \in receiving
    /\ subscription[s] = "active"
    /\ RemoveLogger(s, s)
    /\ subscription' = [subscription EXCEPT ![s] = "cancelled"]
    /\ atCancel' = [atCancel EXCEPT ![s] = Given(s)]
    /\ UNCHANGED <<receiving, values, doing, urgent, aborted>>

\* Faulty variant of HasSubscriber: cancel leaves the subscriber set.
HasSubscriberForEver(s) == subscription[s] # "none"
HasSubscriber(s) == subscription[s] \in {"adding", "active", "cancelling"}

AtMessage(q) == loggerQueue[q] # <<>> /\ Head(loggerQueue[q]).kind = "logMessage"

\* log(message:) reads the subscriber, and does nothing without one.
log(q) ==
    /\ alive /\ AtMessage(q)
    /\ q[1] \notin receiving
    /\ IF HasSubscriber(q[1])
       THEN receiving' = receiving \cup {q[1]} /\ UNCHANGED vars
       ELSE logMessage(q) /\ UNCHANGED receiving
    /\ UNCHANGED <<subscription, values, atCancel, doing, urgent, aborted>>

\* The subscriber that was read is given the message.
receiveValue(q) ==
    /\ q[1] \in receiving /\ AtMessage(q)
    /\ logMessage(q)
    /\ receiving' = receiving \ {q[1]}
    /\ values' = [values EXCEPT ![q[1]] = Append(@, Head(loggerQueue[q]).arg)]
    /\ UNCHANGED <<subscription, atCancel, doing, urgent, aborted>>

-----------------------------------------------------------------------------
FrontEnds ==
    \/ \E t \in AppThreads, f \in Flags : LogMacro(t, f)
    \/ \E t \in AppThreads, f \in Flags, a \in BOOLEAN \cup {None} : LogFunction(t, f, a)
    \/ \E t \in AppThreads, v \in SwiftLogLevels, s \in BOOLEAN \cup {None} : SwiftLog(t, v, s)
    \/ \E t \in AppThreads, a \in BOOLEAN \cup {None} : DDAssert(t, a)
    \/ \E t \in AppThreads : assertionFailure(t)
    \/ \E t \in AppThreads, s \in Subscriptions, v \in SubscriptionLevels : receive(t, s, v)
    \/ \E t \in AppThreads, s \in Subscriptions : cancel(t, s)
    \/ \E s \in Subscriptions : cancelWhileReceiving(s)
    \/ \E t \in AppThreads : receiveSubscription(t) \/ clearSubscriber(t)

\* The rest of the API, by a thread that is in none of the above.
OtherCalls ==
    /\ \E t \in AppThreads : Free(t) /\
          \/ \E l \in Loggers \ Subscriptions, v \in Levels : AddLogger(t, l, v)
          \/ \E l \in Loggers \ Subscriptions : RemoveLogger(t, l)
          \/ RemoveAllLoggers(t)
          \/ AllLoggers(t)
          \/ FlushLog(t)
          \/ ApplicationWillTerminate(t)
          \/ \E l \in OwnQueue, f \in Formatters : SetLogFormatter(t, l, f)
          \/ \E l \in OwnQueue : LogFormatter(t, l)
          \/ DispatchClientBlock(t)
    /\ UNCHANGED front

\* Clients' own blocks on the logging queue log, too.
ClientBlockLogs ==
    /\ \E f \in Flags : LogDirectly(f) \/ Log(OnLoggingQueue, f, FALSE)
    /\ UNCHANGED front

RunFrontQueue(q) ==
    \/ ~(q[1] \in Subscriptions /\ AtMessage(q)) /\ RunLoggerQueue(q) /\ UNCHANGED front
    \/ q[1] \in Subscriptions /\ (log(q) \/ receiveValue(q))

FrontStopped ==
    /\ \/ ~alive
       \/ Quiescent /\ blocked = {} /\ calls = MaxCalls /\ \A t \in AppThreads : Free(t)
    /\ UNCHANGED allVars

FrontNext ==
    \/ ~aborted /\ (\/ FrontEnds \/ OtherCalls \/ ClientBlockLogs
                    \/ RunLoggingQueue /\ UNCHANGED front
                    \/ \E q \in QueueIds : RunFrontQueue(q)
                    \/ FrontStopped)
    \/ aborted /\ UNCHANGED allVars

FrontSpec == FrontInit /\ [][FrontNext]_allVars

\* GCD runs every queue that is not empty, and the subscriber returns.
FrontFairness ==
    /\ WF_allVars(~aborted /\ RunLoggingQueue /\ UNCHANGED front)
    /\ \A q \in QueueIds : WF_allVars(~aborted /\ RunFrontQueue(q))

FairFrontSpec == FrontSpec /\ FrontFairness
=============================================================================
