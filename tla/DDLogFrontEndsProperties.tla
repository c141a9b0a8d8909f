---------------------- MODULE DDLogFrontEndsProperties ----------------------
(***************************************************************************)
(* What the front ends promise on top of DDLog.                            *)
(***************************************************************************)
EXTENDS DDLogFrontEnds

\* Once cancel has returned, the subscriber is given nothing but the one value that was
\* being handed to it, though more messages may wait for it on three queues; and until
\* then it misses none of what DDLog gives its subscription (DDLog+Combine.swift).
CancelIsFinal ==
    \A s \in Subscriptions :
        /\ subscription[s] = "cancelled" => Len(values[s]) <= atCancel[s]
        /\ Len(values[s]) <= Len(received[s])
        /\ \A i \in DOMAIN values[s] : values[s][i] = received[s][i].msg
        /\ subscription[s] # "cancelled" => Len(values[s]) = Len(received[s])

\* "error messages that are always sent sync" (DDLogMacros.h), "all logs (except
\* errors)" (ConfigurationGlobals.swift) and "messages should be logged synchronously"
\* as of the threshold (DDLogHandler.swift): their author waits for all loggers.
UrgentIsDelivered ==
    \A m \in InFlight : (m.id \in urgent /\ alive) => m.by \in blocked

\* A process that DDAssert ends has given its loggers the message of the assertion and
\* all that was logged before it, by any thread ("output a log message even when
\* assertions are disabled", DDAssert.swift), unless the caller of DDAssert asked for an
\* asynchronous statement: that one may die on its way.
AssertionLosesNothing ==
    [][aborted' # aborted =>
          \A t \in AppThreads : (doing[t] # doing'[t] /\ doing[t] \in urgent)
              => \A m \in InFlight : m.id > doing[t]]_allVars

Over  == ~alive \/ aborted
Quiet == Quiescent /\ blocked = {}

\* Once the clients pause, all that they queued is worked off and no thread is left in a
\* synchronous call, however subscriptions and loggers come and go.  The clients are not
\* loggers: a synchronous statement or a getter from a logger's own callback waits for the
\* queue that waits for it (DDLog.m:1231, "immediate deadlock") and is left out.
NothingHangs == ~Quiet ~> (Over \/ Quiet)
=============================================================================
