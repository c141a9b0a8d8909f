---------------------- MODULE DDLogFrontEndsInvariant ----------------------
(***************************************************************************)
(* The inductive invariant behind the safety properties of the front ends, *)
(* to be used with those of the dispatch core.                             *)
(***************************************************************************)
EXTENDS DDLogFrontEndsProperties, DDLogInvariant

\* The messages that wait on the logging queue or are being handed out.
AtWork ==
    {loggingQueue[i].arg : i \in {k \in DOMAIN loggingQueue : loggingQueue[k].op = "log"}}
    \cup (IF job.kind = "logMessage" THEN {job.arg} ELSE {})

FrontTypeOK ==
    /\ subscription \in [Subscriptions -> {"none", "adding", "active", "cancelling", "cancelled"}]
    /\ receiving \subseteq Subscriptions
    /\ values \in [Subscriptions -> Seq(Messages)]
    /\ atCancel \in [Subscriptions -> Nat]
    /\ doing \in [AppThreads -> Subscriptions \cup {None} \cup 0 .. MaxCalls]
    /\ aborted \in BOOLEAN

\* Numbers are given once, and what is urgent is synchronous.
UrgentAreSynchronous ==
    /\ urgent \subseteq 1 .. issued
    /\ \A m \in AtWork : m.id <= issued /\ (m.id \in urgent => m.sync /\ m.by \in Threads)

\* The block of statement k of a thread, which waits or runs.
Awaits(t, k) ==
    \/ \E i \in DOMAIN loggingQueue :
          /\ loggingQueue[i].op = "log" /\ loggingQueue[i].by = t
          /\ loggingQueue[i].arg.id = k
    \/ running.op = "log" /\ running.by = t /\ running.arg.id = k

\* A thread is blocked while its statement k waits or runs, and when it is over nothing
\* older is left.
Waits(t, k) ==
    /\ t \notin blocked => \A m \in AtWork : m.id > k
    /\ t \in blocked => Awaits(t, k)

\* So it is with the statements of assertions that are not asynchronous by request.
AssertionWaits ==
    \A t \in AppThreads : doing[t] \in Nat \ {0} =>
        doing[t] <= issued /\ (doing[t] \in urgent => Waits(t, doing[t]))

\* A logger's queue is its own, and nothing of a subscription is registered, or about
\* to be, before it was made.
NodesAreProper(n) == n.queue[1] = n.logger /\ (n.logger \in Subscriptions => subscription[n.logger] # "none")
RegistryIsProper ==
    /\ \A i \in DOMAIN loggers : NodesAreProper(loggers[i])
    /\ \A i \in DOMAIN loggingQueue : loggingQueue[i].op = "add" => NodesAreProper(loggingQueue[i].arg)

\* A subscriber has the first of the messages that its subscription was given, and all
\* of them until it is cancelled and the value that is being handed over has come.
ValuesAreReceived ==
    \A s \in Subscriptions :
        /\ Len(values[s]) <= Len(received[s])
        /\ \A i \in DOMAIN values[s] : values[s][i] = received[s][i].msg
        /\ (subscription[s] # "cancelled" \/ s \in receiving) => Len(values[s]) = Len(received[s])

\* After cancel only the value that is being handed over can come.
CancelHolds ==
    \A s \in Subscriptions : subscription[s] = "cancelled" =>
        /\ Len(values[s]) <= atCancel[s]
        /\ s \in receiving => Len(values[s]) < atCancel[s]

FrontInv ==
    /\ FrontTypeOK
    /\ UrgentAreSynchronous
    /\ AssertionWaits
    /\ RegistryIsProper
    /\ ValuesAreReceived
    /\ CancelHolds
=============================================================================
