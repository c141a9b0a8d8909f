-------------------------- MODULE OrderedBroadcast --------------------------
(***************************************************************************)
(* What DDLog promises its clients, with no queue per logger, no dispatch  *)
(* group and no interleaving: requests take effect one at a time in the    *)
(* order they were made, and a log statement reaches every logger whose    *)
(* level includes its flag in one atomic step, each logger applying the    *)
(* formatter that was last set before the statement.                       *)
(***************************************************************************)
EXTENDS Integers, Sequences, FiniteSets

CONSTANTS Threads, Loggers, OwnQueue, Installed, NoFormatter, None

VARIABLES
    requests,  \* requests that have not taken effect, oldest first
    loggers,   \* the registered nodes, in order of addition
    received,  \* per logger: what it was given, with the formatter that applied
    formatter, \* per logger: the formatter in force
    returned,  \* per thread: the answer to its last query
    alive      \* the process has not exited

vars == <<requests, loggers, received, formatter, returned, alive>>

Init ==
    /\ requests = <<>>
    /\ loggers = Installed
    /\ received = [l \in Loggers |-> <<>>]
    /\ formatter = [l \in OwnQueue |-> NoFormatter]
    /\ returned = [t \in Threads |-> None]
    /\ alive = TRUE

\* A client makes one more request.
Submit ==
    /\ alive
    /\ Len(requests') = Len(requests) + 1
    /\ SubSeq(requests', 1, Len(requests)) = requests
    /\ UNCHANGED <<loggers, received, formatter, returned, alive>>

\* Every node whose level has the flag gives its logger one copy.
Broadcast(m) ==
    received' = [l \in Loggers |->
        LET hits == {i \in DOMAIN loggers : loggers[i].logger = l /\ m.flag \in loggers[i].level}
            fmt  == IF l \in OwnQueue THEN formatter[l] ELSE NoFormatter
        IN  received[l] \o [i \in 1 .. Cardinality(hits) |-> [msg |-> m, fmt |-> fmt]]]

PerformLog(r) ==
    /\ r.op = "log"
    /\ Broadcast(r.arg)
    /\ UNCHANGED <<loggers, formatter, returned, alive>>

\* A logger is known by its level too: the same logger at another level is another node.
PerformAdd(r) ==
    /\ r.op = "add"
    /\ loggers' = IF \E i \in DOMAIN loggers : loggers[i].logger = r.arg.logger
                                            /\ loggers[i].level = r.arg.level
                  THEN loggers ELSE Append(loggers, r.arg)
    /\ UNCHANGED <<received, formatter, returned, alive>>

\* The oldest node of the logger goes, if there is one.
PerformRemove(r) ==
    /\ r.op = "remove"
    /\ \/ /\ \A i \in DOMAIN loggers : loggers[i].logger # r.arg
          /\ UNCHANGED loggers
       \/ \E i \in DOMAIN loggers :
            /\ loggers[i].logger = r.arg
            /\ \A j \in 1 .. i - 1 : loggers[j].logger # r.arg
            /\ loggers' = [j \in 1 .. Len(loggers) - 1 |->
                              IF j < i THEN loggers[j] ELSE loggers[j + 1]]
    /\ UNCHANGED <<received, formatter, returned, alive>>

PerformRemoveAll(r) ==
    /\ r.op = "removeAll"
    /\ loggers' = <<>>
    /\ UNCHANGED <<received, formatter, returned, alive>>

PerformSetFormatter(r) ==
    /\ r.op = "setFormatter"
    /\ formatter' = [formatter EXCEPT ![r.arg.logger] = r.arg.formatter]
    /\ UNCHANGED <<loggers, received, returned, alive>>

PerformQuery(r) ==
    /\ r.op \in {"list", "getFormatter"}
    /\ returned' = [returned EXCEPT ![r.by] = IF r.op = "list" THEN loggers ELSE formatter[r.arg]]
    /\ UNCHANGED <<loggers, received, formatter, alive>>

\* A flush, and a client's own block, change nothing a client can see here.
PerformNothing(r) ==
    /\ r.op \in {"flush", "client"}
    /\ UNCHANGED <<loggers, received, formatter, returned, alive>>

PerformExit(r) ==
    /\ r.op = "terminate"
    /\ alive' = FALSE
    /\ UNCHANGED <<loggers, received, formatter, returned>>

\* The oldest request takes effect.
Perform ==
    /\ alive
    /\ requests # <<>>
    /\ requests' = Tail(requests)
    /\ LET r == Head(requests)
       IN  \/ PerformLog(r) \/ PerformAdd(r) \/ PerformRemove(r) \/ PerformRemoveAll(r)
           \/ PerformSetFormatter(r) \/ PerformQuery(r) \/ PerformNothing(r) \/ PerformExit(r)

\* A block that runs on the logging queue logs synchronously: its statement
\* takes effect at once, before the requests that wait.
Interject ==
    /\ alive
    /\ \E m \in {received'[l][Len(received'[l])].msg : l \in {k \in Loggers : received'[k] # <<>>}} :
          m.sync /\ Broadcast(m)
    /\ UNCHANGED <<requests, loggers, formatter, returned, alive>>

Next == Submit \/ Perform \/ Interject

Spec == Init /\ [][Next]_vars
=============================================================================
