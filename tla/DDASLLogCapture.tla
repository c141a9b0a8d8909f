--------------------------- MODULE DDASLLogCapture ---------------------------
(***************************************************************************)
(* Capturing the Apple System Log (DDASLLogCapture.m), composed with       *)
(* DDASLLogger (DDASLLogger.m), which writes to it: what NSLog saves is    *)
(* logged through DDLog, and what DDLog logs is saved.  syslogd notifies   *)
(* the capture without payload and coalesces notifications, so a handler   *)
(* searches the store for what is newer than the last message seen.        *)
(*                                                                         *)
(* Of the store and of notify(3) there is what the code relies on:         *)
(* messages get increasing identifiers (here their positions), a search    *)
(* returns in that order what is saved when it is made, and after a save   *)
(* every registration is notified.  Of DDLog there is one queue.           *)
(***************************************************************************)
EXTENDS Integers, Sequences, FiniteSets

CONSTANTS
    CaptureLevels, \* DDLogLevel masks that clients set, as sets of flags
    Statements,    \* the flags of the application's statements to DDLog
    MaxStarts,     \* bound: calls of captureAslLogs
    Instances      \* what differs between the instances that a run explores together

DDLogFlags == {"error", "warning", "info", "debug", "verbose"}

\* overlap: handlers of one registration may overlap; kinds: ASL level and presence of a
\* text of what the application gives to NSLog; callers: threads that may be in start at a
\* time; bounds on captures, on statements of the application to DDLog or NSLog, and on the
\* seconds of the clock.
ASSUME CaptureAssumption ==
    /\ MaxStarts \in Nat
    /\ CaptureLevels \subseteq SUBSET DDLogFlags
    /\ Statements \subseteq DDLogFlags
    /\ Instances \subseteq [overlap : BOOLEAN, kinds : SUBSET [severity : 0 .. 7, text : BOOLEAN],
                            callers : Nat, starts : 0 .. MaxStarts, events : Nat, time : Nat]

\* aslMessageReceived:, from ASL_LEVEL_EMERG = 0 to ASL_LEVEL_DEBUG = 7.
FlagOf(severity) ==
    CASE severity \in 0 .. 2 -> "error"
      [] severity = 3        -> "warning"
      [] severity = 4        -> "info"
      [] severity = 5        -> "debug"
      [] OTHER               -> "verbose"

\* logMessage: of DDASLLogger.
ASLLevelOf(flag) ==
    CASE flag = "error" -> 2 [] flag = "warning" -> 3 [] flag = "info" -> 4 [] OTHER -> 5

Captures == 1 .. MaxStarts
\* Up to two runs of the handler of a registration at a time.
Handlers == Captures \X {1, 2}
App      == <<0, 0>>

\* A message in the store: the event it tells of, its time in seconds, its level,
\* whether it has a text, and whether DDASLLogger wrote it (the DDLog key).
Entries == [origin : Nat, second : Nat, severity : 0 .. 7,
            text : BOOLEAN, ddlog : BOOLEAN]

\* A DDLogMessage, by the application or by a handler (_fileName tells which).
Messages == [origin : Nat, flag : DDLogFlags, by : Handlers \cup {App}]

\* A capture: when it started, lastSeenID, how many messages were saved when it was
\* registered, and whether a notification waits for its handler.
Registrations == [state : {"starting", "registered", "cancelled"}, startTime : Nat,
                  lastSeenID : Nat, from : Nat, notified : BOOLEAN]

\* A run of the handler: what it has still to visit of the response, in the order of the
\* identifiers, and the message it handed to aslMessageReceived: (0: none).
Idle == [busy |-> FALSE, response |-> {}, msg |-> 0]

VARIABLES
    cancel,       \* _cancel
    captureLevel, \* _captureLevel
    starting,     \* how many threads are in start and have found _cancel set
    launched,     \* blocks with captureAslLogs that have not run
    captures,     \* what captureAslLogs has registered
    handler,      \* runs of the notification handlers
    instance,     \* the instance explored
    store,        \* the ASL database
    unposted,     \* something was saved that was not notified
    now,          \* the clock, in seconds
    queue,        \* DDLog's queue
    delivered,    \* what DDLog's loggers were given
    events,       \* log statements so far
    handled       \* per capture: the identifiers given to aslMessageReceived:

control  == <<cancel, captureLevel, starting, launched>>
capture  == <<captures, handler, instance, handled>>
asl      == <<store, unposted, now>>
ddlog    == <<queue, delivered>>
vars     == <<control, capture, asl, ddlog, events>>

Init ==
    /\ cancel = TRUE /\ captureLevel = DDLogFlags
    /\ starting = 0 /\ launched = 0
    /\ captures = <<>> /\ handler = [h \in Handlers |-> Idle]
    /\ instance \in Instances
    /\ store = <<>> /\ unposted = FALSE /\ now = 0
    /\ queue = <<>> /\ delivered = <<>> /\ events = 0
    /\ handled = [c \in Captures |-> {}]

-----------------------------------------------------------------------------
(* The class methods.  start tests and sets _cancel without a lock.          *)

start ==
    /\ cancel /\ starting < instance.callers
    /\ Len(captures) + launched + starting < instance.starts
    /\ starting' = starting + 1
    /\ UNCHANGED <<cancel, captureLevel, launched, capture, asl, ddlog, events>>

startGoesOn ==
    /\ starting > 0
    /\ starting' = starting - 1
    /\ cancel' = FALSE
    /\ launched' = launched + 1
    /\ UNCHANGED <<captureLevel, capture, asl, ddlog, events>>

stop ==
    /\ ~cancel
    /\ cancel' = TRUE
    /\ UNCHANGED <<captureLevel, starting, launched, capture, asl, ddlog, events>>

setCaptureLevel(level) ==
    /\ captureLevel # level
    /\ captureLevel' = level
    /\ UNCHANGED <<cancel, starting, launched, capture, asl, ddlog, events>>

-----------------------------------------------------------------------------
(* captureAslLogs, on a global queue: it takes the time, then registers.     *)

captureAslLogs ==
    /\ launched > 0
    /\ launched' = launched - 1
    /\ captures' = Append(captures,
          [state |-> "starting", startTime |-> now, lastSeenID |-> 0, from |-> 0, notified |-> FALSE])
    /\ UNCHANGED <<cancel, captureLevel, starting, handler, instance, handled, asl, ddlog, events>>

notify_register_dispatch(c) ==
    /\ captures[c].state = "starting"
    /\ captures' = [captures EXCEPT ![c].state = "registered", ![c].from = Len(store)]
    /\ UNCHANGED <<control, handler, instance, handled, asl, ddlog, events>>

\* Faulty variants of Found: the time has to be later than the start; the last message
\* is found again.
FoundLater(c) ==
    {i \in DOMAIN store : /\ IF captures[c].lastSeenID > 0 THEN i > captures[c].lastSeenID
                                                           ELSE store[i].second > captures[c].startTime
                          /\ ~store[i].ddlog}
FoundAgain(c) ==
    {i \in DOMAIN store : /\ IF captures[c].lastSeenID > 0 THEN i >= captures[c].lastSeenID
                                                           ELSE store[i].second >= captures[c].startTime
                          /\ ~store[i].ddlog}

\* The search: by identifier once a message was seen, until then by time, and never
\* what DDASLLogger wrote.
Found(c) ==
    {i \in DOMAIN store : /\ IF captures[c].lastSeenID > 0 THEN i > captures[c].lastSeenID
                                                           ELSE store[i].second >= captures[c].startTime
                          /\ ~store[i].ddlog}

\* A notification: the handler starts and makes its search.
Search(h) ==
    LET c == h[1]
        others == {g \in Handlers : g[1] = c /\ handler[g].busy}
        free == {g \in Handlers : g[1] = c /\ ~handler[g].busy}
    IN  /\ captures[c].state = "registered" /\ captures[c].notified
        /\ h \in free /\ \A g \in free : h[2] <= g[2]
        /\ instance.overlap \/ others = {}
        /\ captures' = [captures EXCEPT ![c].notified = FALSE]
        /\ handler' = [handler EXCEPT ![h] =
              [busy |-> TRUE, response |-> Found(c), msg |-> 0]]
        /\ UNCHANGED <<control, instance, handled, asl, ddlog, events>>

\* A turn of the loop: a message without text, or of a level that is not captured, is
\* skipped; the others are logged, those of the highest levels synchronously.
aslMessageReceived(h, id) ==
    LET flag == FlagOf(store[id].severity)
    IN  /\ handler[h].msg = 0
        /\ \A j \in handler[h].response : id <= j
        /\ handler' = [handler EXCEPT ![h].response = @ \ {id}, ![h].msg = id]
        /\ handled' = [handled EXCEPT ![h[1]] = @ \cup {id}]
        /\ queue' = IF store[id].text /\ flag \in captureLevel
                    THEN Append(queue, [origin |-> store[id].origin, flag |-> flag, by |-> h])
                    ELSE queue
        /\ UNCHANGED <<control, captures, instance, asl, delivered, events>>

\* A synchronous statement of the handler that has not been delivered.
Waiting(h) == \E i \in DOMAIN queue : queue[i].by = h /\ queue[i].flag = "error"

\* Faulty variant of RememberID: the newest message of the store counts as seen.
RememberNewest(h) ==
    /\ handler[h].msg # 0 /\ ~Waiting(h)
    /\ captures' = [captures EXCEPT ![h[1]].lastSeenID = Len(store)]
    /\ handler' = [handler EXCEPT ![h].msg = 0]
    /\ UNCHANGED <<control, instance, handled, asl, ddlog, events>>

RememberID(h) ==
    /\ handler[h].msg # 0 /\ ~Waiting(h)
    /\ captures' = [captures EXCEPT ![h[1]].lastSeenID = handler[h].msg]
    /\ handler' = [handler EXCEPT ![h].msg = 0]
    /\ UNCHANGED <<control, instance, handled, asl, ddlog, events>>

\* The end of the handler: only here is _cancel looked at.
EndOfResponse(h) ==
    /\ handler[h].busy /\ handler[h].response = {} /\ handler[h].msg = 0
    /\ handler' = [handler EXCEPT ![h] = Idle]
    /\ captures' = IF cancel THEN [captures EXCEPT ![h[1]].state = "cancelled", ![h[1]].notified = FALSE]
                             ELSE captures
    /\ UNCHANGED <<control, instance, handled, asl, ddlog, events>>

-----------------------------------------------------------------------------
(* DDLog and DDASLLogger.                                                    *)

\* Faulty variant of Saved: captured messages are written back.
SavedAlways(m) == Append(store, [origin |-> m.origin, second |-> now,
                                 severity |-> ASLLevelOf(m.flag), text |-> TRUE, ddlog |-> TRUE])

\* logMessage: of DDASLLogger skips what was captured and marks what it writes.
Saved(m) ==
    IF m.by # App THEN store
    ELSE Append(store, [origin |-> m.origin, second |-> now, severity |-> ASLLevelOf(m.flag),
                        text |-> TRUE, ddlog |-> TRUE])

lt_log ==
    /\ queue # <<>>
    /\ queue' = Tail(queue)
    /\ delivered' = Append(delivered, Head(queue))
    /\ store' = Saved(Head(queue))
    /\ unposted' = (unposted \/ store' # store)
    /\ UNCHANGED <<control, capture, now, events>>

-----------------------------------------------------------------------------
(* The application, syslogd and the clock.                                   *)

LogStatement(flag) ==
    /\ events < instance.events
    /\ events' = events + 1
    /\ queue' = Append(queue, [origin |-> events + 1, flag |-> flag, by |-> App])
    /\ UNCHANGED <<control, capture, asl, delivered>>

NSLog(kind) ==
    /\ events < instance.events
    /\ events' = events + 1
    /\ store' = Append(store, [origin |-> events + 1, second |-> now, severity |-> kind.severity,
                               text |-> kind.text, ddlog |-> FALSE])
    /\ unposted' = TRUE
    /\ UNCHANGED <<control, capture, now, ddlog>>

\* syslogd notifies all registrations of whatever was saved since it last did.
Post ==
    /\ unposted
    /\ unposted' = FALSE
    /\ captures' = [c \in DOMAIN captures |->
          [captures[c] EXCEPT !.notified = captures[c].state = "registered"]]
    /\ UNCHANGED <<control, handler, instance, handled, store, now, ddlog, events>>

Tick ==
    /\ now < instance.time
    /\ now' = now + 1
    /\ UNCHANGED <<control, capture, store, unposted, ddlog, events>>

-----------------------------------------------------------------------------
Client ==
    \/ start \/ startGoesOn \/ stop
    \/ \E level \in CaptureLevels : setCaptureLevel(level)
    \/ \E flag \in Statements : LogStatement(flag)
    \/ \E kind \in instance.kinds : NSLog(kind)

Registered == {h \in Handlers : h[1] \in DOMAIN captures}

Handle(h) ==
    \/ Search(h)
    \/ \E id \in handler[h].response : aslMessageReceived(h, id)
    \/ RememberID(h)
    \/ EndOfResponse(h)

\* Nothing is left to do: the only legal way to stop.
Quiet ==
    /\ queue = <<>> /\ ~unposted /\ launched + starting = 0
    /\ \A h \in Handlers : ~handler[h].busy
    /\ \A c \in DOMAIN captures : captures[c].state # "starting" /\ ~captures[c].notified

Finished == Quiet /\ UNCHANGED vars

Next ==
    \/ Client
    \/ captureAslLogs
    \/ \E c \in DOMAIN captures : notify_register_dispatch(c)
    \/ \E h \in Registered : Handle(h)
    \/ lt_log
    \/ Post
    \/ Tick
    \/ Finished

Spec == Init /\ [][Next]_vars

\* Blocks of the global queues and of DDLog run, and syslogd notifies.
Fairness ==
    /\ WF_vars(captureAslLogs)
    /\ WF_vars(\E c \in DOMAIN captures : notify_register_dispatch(c))
    /\ \A h \in Handlers : WF_vars(h \in Registered /\ Handle(h))
    /\ WF_vars(lt_log)
    /\ WF_vars(Post)

FairSpec == Spec /\ Fairness
=============================================================================
