---------------------- MODULE DDASLLogCaptureProperties ----------------------
(***************************************************************************)
(* What makes the capture of the system log correct.                       *)
(***************************************************************************)
EXTENDS DDASLLogCapture

\* All that was logged through DDLog, in order.
Logged == delivered \o queue

TypeOK ==
    /\ cancel \in BOOLEAN /\ captureLevel \subseteq DDLogFlags
    /\ starting \in Nat /\ launched \in Nat
    /\ captures \in Seq(Registrations) /\ Len(captures) + launched + starting <= MaxStarts
    /\ handler \in [Handlers -> [busy : BOOLEAN, response : SUBSET (1 .. Len(store)), msg : 0 .. Len(store)]]
    /\ instance \in Instances
    /\ store \in Seq(Entries) /\ unposted \in BOOLEAN /\ now \in Nat
    /\ queue \in Seq(Messages) /\ delivered \in Seq(Messages)
    /\ events \in Nat
    /\ handled \in [Captures -> SUBSET (1 .. Len(store))]

\* With capture and DDASLLogger both in use nothing goes round: no event is saved
\* twice, and what the application logs through DDLog does not come back to the
\* loggers as a captured message ("Prevent duplicate log entries when both
\* DDASLLogCapture and DDASLLogger are used", CHANGELOG).
NoEcho ==
    /\ \A i, j \in DOMAIN store : store[i].origin = store[j].origin => i = j
    /\ \A i, j \in DOMAIN Logged :
          (Logged[i].by = App /\ Logged[i].origin = Logged[j].origin) => i = j

\* As long as its handlers do not overlap, a registration logs each message of the
\* system log once and in the order of the log ("to see each message once").
OnceInOrder ==
    ~instance.overlap => \A i, j \in DOMAIN Logged :
        (i < j /\ Logged[i].by # App /\ Logged[i].by[1] = Logged[j].by[1])
            => Logged[i].origin < Logged[j].origin

\* A message that a registration captures, and one that it has logged or is about to.
Eligible(c, i) == ~store[i].ddlog /\ store[i].second >= captures[c].startTime
Seen(c, i) == i \in handled[c] \/ \E h \in Handlers : h[1] = c /\ i \in handler[h].response
SeenUpTo(c, id) == \A i \in 1 .. id : Eligible(c, i) => Seen(c, i)

\* No message up to lastSeenID is passed over, though handlers overlap, messages are
\* saved while a handler visits its response, and lastSeenID may even go back.
NothingSkipped == \A c \in DOMAIN captures : SeenUpTo(c, captures[c].lastSeenID)

\* The identifiers that a message can have.
Ids == UNION {1 .. x.events : x \in Instances}

\* A message that was saved after the registration and has not been seen by it.
Due(c, i) ==
    /\ c \in DOMAIN captures /\ captures[c].state = "registered"
    /\ i \in DOMAIN store /\ i > captures[c].from /\ ~store[i].ddlog
    /\ i \notin handled[c]

\* Whatever is saved once a capture is registered is seen by it, or the capture is
\* cancelled, however notifications are coalesced.  The clock only moves forward: until a
\* message was seen the search starts from the second of the registration
\* (DDASLLogCapture.m:146, 173), and misses what is saved after the clock was set back.
EverythingIsSeen ==
    \A c \in Captures, i \in Ids : Due(c, i) ~> ~Due(c, i)

\* Each message of the system log is logged once: "We use ASL_KEY_MSG_ID to see each
\* message once" (DDASLLogCapture.m, captureAslLogs).
SeenOnce ==
    \A i, j \in DOMAIN Logged : Logged[i].origin = Logged[j].origin => i = j
=============================================================================
