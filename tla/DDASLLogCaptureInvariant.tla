---------------------- MODULE DDASLLogCaptureInvariant ----------------------
(***************************************************************************)
(* The inductive invariant behind the safety properties of the capture.    *)
(***************************************************************************)
EXTENDS DDASLLogCaptureProperties

\* A handler that does not run holds nothing; nor does one without registration.
IdleHandlers ==
    \A h \in Handlers : (~handler[h].busy \/ h[1] \notin DOMAIN captures) => handler[h] = Idle

\* What a handler is to visit, or has just handed over, leaves nothing older unseen, and
\* is none of DDASLLogger's own.
ResponsesComplete ==
    \A h \in Handlers : h[1] \in DOMAIN captures =>
        /\ SeenUpTo(h[1], handler[h].msg)
        /\ \A id \in handler[h].response : SeenUpTo(h[1], id) /\ ~store[id].ddlog

\* What was seen was saved.
SeenIsSaved == \A c \in DOMAIN captures : captures[c].lastSeenID <= Len(store)

\* Events are numbered, and NSLog saves them in that order.
StoreInOrder ==
    /\ \A i \in DOMAIN store : store[i].origin \in 1 .. events
    /\ \A i, j \in DOMAIN store :
          (i < j /\ ~store[i].ddlog /\ ~store[j].ddlog) => store[i].origin < store[j].origin

\* A message that is captured is in the store, not written by DDASLLogger, and handled.
CapturedIsHandled ==
    \A k \in DOMAIN Logged : Logged[k].by # App =>
        \E i \in handled[Logged[k].by[1]] : ~store[i].ddlog /\ store[i].origin = Logged[k].origin

\* A message of the application is saved once it leaves the queue, by DDASLLogger.
StatementsAreSavedOnce ==
    /\ \A k \in DOMAIN Logged : Logged[k].origin \in 1 .. events
    /\ \A k \in DOMAIN Logged : Logged[k].by = App =>
          \A i \in DOMAIN store : store[i].origin = Logged[k].origin => store[i].ddlog
    /\ \A k \in DOMAIN queue : queue[k].by = App =>
          \A i \in DOMAIN store : store[i].origin # queue[k].origin

\* Nothing is handled for a capture that is still to be made.
HandledByCaptures == \A c \in Captures : c \notin DOMAIN captures => handled[c] = {}

\* Handlers that do not overlap go through the messages in order.
HandledInOrder ==
    ~instance.overlap =>
        /\ \A g, h \in Handlers :
              (g[1] = h[1] /\ handler[g].busy /\ handler[h].busy) => g = h
        /\ \A h \in Handlers : h[1] \in DOMAIN captures => \A i \in handled[h[1]] :
              /\ \A j \in handler[h].response : i < j
              /\ handler[h].msg # 0 => i <= handler[h].msg
        /\ \A c \in DOMAIN captures : \A i \in handled[c] :
              i <= captures[c].lastSeenID \/ \E h \in Handlers : h[1] = c /\ handler[h].msg # 0

CaptureInv ==
    /\ TypeOK
    /\ IdleHandlers
    /\ ResponsesComplete
    /\ SeenIsSaved
    /\ NothingSkipped
    /\ StoreInOrder
    /\ CapturedIsHandled
    /\ StatementsAreSavedOnce
    /\ NoEcho
    /\ HandledByCaptures
    /\ HandledInOrder
    /\ OnceInOrder
=============================================================================
