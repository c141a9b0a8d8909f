----------------------- MODULE DDASLLogCaptureProofs -----------------------
(***************************************************************************)
(* Machine-checked proofs about the capture of the system log, for any     *)
(* number of registrations, messages and overlapping handlers.             *)
(***************************************************************************)
EXTENDS DDASLLogCaptureInvariant, SequenceTheorems, TLAPS

-----------------------------------------------------------------------------
(* The sequences.                                                            *)

LEMMA ElementFacts ==
    ASSUME NEW S, NEW s \in Seq(S)
    PROVE  /\ Len(s) \in Nat /\ DOMAIN s = 1 .. Len(s)
           /\ \A i \in DOMAIN s : i \in Nat /\ s[i] \in S
  BY ElementOfSeq, LenProperties

LEMMA AddedFacts ==
    ASSUME NEW S, NEW s \in Seq(S), NEW e \in S
    PROVE  /\ Append(s, e) \in Seq(S) /\ Len(Append(s, e)) = Len(s) + 1
           /\ DOMAIN Append(s, e) = 1 .. Len(s) + 1
           /\ \A i \in DOMAIN s : Append(s, e)[i] = s[i]
           /\ Append(s, e)[Len(s) + 1] = e
  BY AppendProperties, LenProperties

\* What was logged, position by position.
LEMMA LoggedFacts ==
    ASSUME TypeOK
    PROVE  /\ Logged \in Seq(Messages) /\ Len(Logged) = Len(delivered) + Len(queue)
           /\ \A k \in DOMAIN delivered : k \in DOMAIN Logged /\ Logged[k] = delivered[k]
           /\ \A k \in DOMAIN queue : /\ Len(delivered) + k \in DOMAIN Logged
                                      /\ Logged[Len(delivered) + k] = queue[k]
  <1>1. delivered \in Seq(Messages) /\ queue \in Seq(Messages)
    BY DEF TypeOK
  <1>2. /\ delivered \o queue \in Seq(Messages)
        /\ Len(delivered \o queue) = Len(delivered) + Len(queue)
        /\ \A k \in 1 .. Len(delivered) + Len(queue) :
              (delivered \o queue)[k] = IF k <= Len(delivered) THEN delivered[k]
                                        ELSE queue[k - Len(delivered)]
    BY <1>1, ConcatProperties
  <1>3. /\ Len(delivered) \in Nat /\ DOMAIN delivered = 1 .. Len(delivered)
        /\ Len(queue) \in Nat /\ DOMAIN queue = 1 .. Len(queue)
        /\ DOMAIN (delivered \o queue) = 1 .. Len(delivered) + Len(queue)
    BY <1>1, <1>2, LenProperties
  <1>4. ASSUME NEW k \in DOMAIN delivered
        PROVE  k \in DOMAIN (delivered \o queue) /\ (delivered \o queue)[k] = delivered[k]
    BY <1>2, <1>3
  <1>5. ASSUME NEW k \in DOMAIN queue
        PROVE  /\ Len(delivered) + k \in DOMAIN (delivered \o queue)
               /\ (delivered \o queue)[Len(delivered) + k] = queue[k]
    <2>1. /\ Len(delivered) + k \in 1 .. Len(delivered) + Len(queue)
          /\ ~(Len(delivered) + k <= Len(delivered))
          /\ (Len(delivered) + k) - Len(delivered) = k
      BY <1>3
    <2> QED
      BY <1>2, <1>3, <2>1
  <1> QED
    BY <1>2, <1>4, <1>5 DEF Logged

\* A message is logged.
LEMMA LogsFacts ==
    ASSUME TypeOK, NEW m \in Messages, queue' = Append(queue, m), UNCHANGED delivered
    PROVE  /\ DOMAIN Logged' = 1 .. Len(Logged) + 1 /\ Len(Logged) \in Nat
           /\ DOMAIN Logged = 1 .. Len(Logged)
           /\ \A k \in DOMAIN Logged : Logged'[k] = Logged[k]
           /\ Logged'[Len(Logged) + 1] = m
  <1>1. delivered \in Seq(Messages) /\ queue \in Seq(Messages) /\ Logged \in Seq(Messages)
    BY LoggedFacts DEF TypeOK
  <1>2. delivered \o Append(queue, m) = Append(delivered \o queue, m)
    BY <1>1
  <1> QED
    BY <1>1, <1>2, AddedFacts, ElementFacts DEF Logged

\* Delivery changes nothing of what was logged.
LEMMA DeliversFacts ==
    ASSUME TypeOK, queue # <<>>, queue' = Tail(queue), delivered' = Append(delivered, Head(queue))
    PROVE  Logged' = Logged
  <1>1. delivered \in Seq(Messages) /\ queue \in Seq(Messages)
    BY DEF TypeOK
  <1> DEFINE h == Head(queue)
             t == Tail(queue)
  <1>2. h \in Messages /\ t \in Seq(Messages) /\ queue = <<h>> \o t
    BY <1>1, HeadTailProperties
  <1> HIDE DEF h, t
  <1>3. Append(delivered, h) \o t = delivered \o (<<h>> \o t)
    BY <1>1, <1>2
  <1> QED
    BY <1>2, <1>3 DEF Logged, h, t

-----------------------------------------------------------------------------
(* Types.                                                                    *)

\* What the proofs use of the types.
LEMMA TypeFacts ==
    ASSUME TypeOK
    PROVE  /\ Len(store) \in Nat /\ DOMAIN store = 1 .. Len(store)
           /\ \A i \in DOMAIN store : store[i] \in Entries /\ store[i].origin \in Nat
           /\ Len(captures) \in Nat /\ DOMAIN captures = 1 .. Len(captures)
           /\ DOMAIN captures \subseteq Captures
           /\ \A c \in DOMAIN captures : captures[c] \in Registrations /\ captures[c].lastSeenID \in Nat
           /\ \A h \in Handlers : /\ h[1] \in Captures /\ h # App
                                  /\ handler[h].response \subseteq DOMAIN store
                                  /\ handler[h].msg \in 0 .. Len(store)
           /\ \A c \in Captures : handled[c] \subseteq DOMAIN store
           /\ events \in Nat
  <1>1. /\ Len(store) \in Nat /\ DOMAIN store = 1 .. Len(store)
        /\ \A i \in DOMAIN store : store[i] \in Entries
    BY ElementFacts DEF TypeOK
  <1>2. /\ Len(captures) \in Nat /\ DOMAIN captures = 1 .. Len(captures)
        /\ \A c \in DOMAIN captures : captures[c] \in Registrations
    BY ElementFacts DEF TypeOK
  <1>3. DOMAIN captures \subseteq Captures
    BY <1>2, CaptureAssumption DEF TypeOK, Captures
  <1>4. ASSUME NEW h \in Handlers
        PROVE  /\ h[1] \in Captures /\ h # App
               /\ handler[h].response \subseteq DOMAIN store
               /\ handler[h].msg \in 0 .. Len(store)
    <2>1. h[1] \in 1 .. MaxStarts /\ h # App
      BY DEF Handlers, Captures, App
    <2> QED
      BY <1>1, <2>1 DEF TypeOK, Captures
  <1>5. \A c \in Captures : handled[c] \subseteq DOMAIN store
    BY <1>1 DEF TypeOK
  <1>6. \A i \in DOMAIN store : store[i].origin \in Nat
    BY <1>1 DEF Entries
  <1>7. \A c \in DOMAIN captures : captures[c].lastSeenID \in Nat
    BY <1>2 DEF Registrations
  <1> QED
    BY <1>1, <1>2, <1>3, <1>4, <1>5, <1>6, <1>7 DEF TypeOK

LEMMA FlagFacts ==
    /\ \A severity \in 0 .. 7 : FlagOf(severity) \in DDLogFlags
    /\ \A flag \in DDLogFlags : ASLLevelOf(flag) \in 0 .. 7
  <1>1. ASSUME NEW severity \in 0 .. 7 PROVE FlagOf(severity) \in DDLogFlags
    BY DEF FlagOf, DDLogFlags
  <1>2. ASSUME NEW flag \in DDLogFlags PROVE ASLLevelOf(flag) \in 0 .. 7
    BY DEF ASLLevelOf, DDLogFlags
  <1> QED
    BY <1>1, <1>2

\* The handlers keep their types when the store grows.
LEMMA StoreGrows ==
    ASSUME TypeOK, NEW e \in Entries, store' = Append(store, e), UNCHANGED <<handler, handled>>
    PROVE  /\ store' \in Seq(Entries)
           /\ handler' \in [Handlers -> [busy : BOOLEAN, response : SUBSET (1 .. Len(store')),
                                         msg : 0 .. Len(store')]]
           /\ handled' \in [Captures -> SUBSET (1 .. Len(store'))]
           /\ DOMAIN store' = 1 .. Len(store) + 1
           /\ \A i \in DOMAIN store : store'[i] = store[i]
           /\ store'[Len(store) + 1] = e
  <1>1. /\ store' \in Seq(Entries) /\ Len(store') = Len(store) + 1
        /\ DOMAIN store' = 1 .. Len(store) + 1
        /\ \A i \in DOMAIN store : store'[i] = store[i]
        /\ store'[Len(store) + 1] = e
    BY AddedFacts DEF TypeOK
  <1>2. 1 .. Len(store) \subseteq 1 .. Len(store') /\ 0 .. Len(store) \subseteq 0 .. Len(store')
    BY <1>1, TypeFacts
  <1>3. ASSUME NEW h \in Handlers
        PROVE  handler[h] \in [busy : BOOLEAN, response : SUBSET (1 .. Len(store')), msg : 0 .. Len(store')]
    <2>1. handler[h] \in [busy : BOOLEAN, response : SUBSET (1 .. Len(store)), msg : 0 .. Len(store)]
      BY DEF TypeOK
    <2> QED
      BY <1>2, <2>1
  <1>4. ASSUME NEW c \in Captures PROVE handled[c] \in SUBSET (1 .. Len(store'))
    BY <1>2 DEF TypeOK
  <1> QED
    BY <1>1, <1>3, <1>4 DEF TypeOK

LEMMA TypeStep == ASSUME TypeOK, [Next]_vars PROVE TypeOK'
  <1> USE CaptureAssumption
  <1>0. /\ starting \in Nat /\ launched \in Nat /\ Len(captures) \in Nat /\ now \in Nat
        /\ instance.starts \in 0 .. MaxStarts /\ MaxStarts \in Nat
        /\ DOMAIN handler = Handlers /\ DOMAIN handled = Captures
    BY TypeFacts DEF TypeOK
  <1>1. CASE start
    <2>1. starting' \in Nat /\ Len(captures) + launched + starting' <= MaxStarts
      BY <1>0, <1>1 DEF start
    <2> QED
      BY <1>1, <2>1 DEF TypeOK, start, capture, asl, ddlog
  <1>2. CASE startGoesOn
    <2>1. /\ starting' \in Nat /\ launched' \in Nat
          /\ Len(captures) + launched' + starting' <= MaxStarts
      BY <1>0, <1>2 DEF startGoesOn, TypeOK
    <2> QED
      BY <1>2, <2>1 DEF TypeOK, startGoesOn, capture, asl, ddlog
  <1>3. CASE stop
    BY <1>3 DEF TypeOK, stop, capture, asl, ddlog
  <1>4. ASSUME NEW level \in CaptureLevels, setCaptureLevel(level) PROVE TypeOK'
    BY <1>4 DEF TypeOK, setCaptureLevel, capture, asl, ddlog
  <1>5. ASSUME NEW flag \in Statements, LogStatement(flag) PROVE TypeOK'
    <2> DEFINE m == [origin |-> events + 1, flag |-> flag, by |-> App]
    <2>1. m \in Messages
      BY DEF TypeOK, Messages
    <2>2. queue' \in Seq(Messages)
      BY <1>5, <2>1, AddedFacts DEF TypeOK, LogStatement
    <2>3. events' \in Nat
      BY <1>5 DEF TypeOK, LogStatement
    <2> QED
      BY <1>5, <2>2, <2>3 DEF TypeOK, LogStatement, control, capture, asl
  <1>6. ASSUME NEW kind \in instance.kinds, NSLog(kind) PROVE TypeOK'
    <2> DEFINE e == [origin |-> events + 1, second |-> now, severity |-> kind.severity,
                     text |-> kind.text, ddlog |-> FALSE]
    <2>1. kind \in [severity : 0 .. 7, text : BOOLEAN]
      BY DEF TypeOK
    <2>2. e \in Entries /\ events' \in Nat /\ store' = Append(store, e)
      BY <1>6, <2>1 DEF TypeOK, Entries, NSLog
    <2> HIDE DEF e
    <2> QED
      BY <1>6, <2>2, StoreGrows DEF TypeOK, NSLog, control, capture, ddlog
  <1>7. CASE captureAslLogs
    <2> DEFINE r == [state |-> "starting", startTime |-> now, lastSeenID |-> 0, from |-> 0, notified |-> FALSE]
    <2>1. r \in Registrations /\ captures' = Append(captures, r)
      BY <1>0, <1>7 DEF Registrations, captureAslLogs
    <2> HIDE DEF r
    <2>2. captures' \in Seq(Registrations) /\ Len(captures') = Len(captures) + 1
      BY <2>1, AddedFacts DEF TypeOK
    <2>3. launched' \in Nat /\ Len(captures') + launched' + starting <= MaxStarts
      BY <1>0, <1>7, <2>2 DEF TypeOK, captureAslLogs
    <2>4. UNCHANGED <<cancel, captureLevel, starting, handler, instance, handled, asl, ddlog, events>>
      BY <1>7 DEF captureAslLogs
    <2> QED
      BY <2>2, <2>3, <2>4 DEF TypeOK, asl, ddlog
  <1>8. ASSUME NEW c \in DOMAIN captures, NEW r \in Registrations, captures' = [captures EXCEPT ![c] = r]
        PROVE  captures' \in Seq(Registrations) /\ Len(captures') = Len(captures)
    BY <1>8, ExceptSeq DEF TypeOK
  <1>9. ASSUME NEW c \in DOMAIN captures, notify_register_dispatch(c) PROVE TypeOK'
    <2> DEFINE r == [captures[c] EXCEPT !.state = "registered", !.from = Len(store)]
    <2>1. r \in Registrations
      BY TypeFacts DEF Registrations
    <2>2. captures' = [captures EXCEPT ![c] = r]
      BY <1>9 DEF notify_register_dispatch
    <2> HIDE DEF r
    <2> QED
      BY <1>8, <1>9, <2>1, <2>2 DEF TypeOK, notify_register_dispatch, control, asl, ddlog
  <1>10. ASSUME NEW h \in Registered, Handle(h) PROVE TypeOK'
    <2>0. h \in Handlers /\ h[1] \in DOMAIN captures
      BY DEF Registered
    <2>a. handler[h] \in [busy : BOOLEAN, response : SUBSET (1 .. Len(store)), msg : 0 .. Len(store)]
      BY <2>0 DEF TypeOK
    <2>1. CASE Search(h)
      <3> DEFINE r == [captures[h[1]] EXCEPT !.notified = FALSE]
      <3>1. r \in Registrations
        BY <2>0, TypeFacts DEF Registrations
      <3>2. captures' = [captures EXCEPT ![h[1]] = r]
        BY <2>1 DEF Search
      <3> HIDE DEF r
      <3>3. Found(h[1]) \in SUBSET (1 .. Len(store)) /\ 0 \in 0 .. Len(store)
        BY TypeFacts DEF Found
      <3>4. handler' \in [Handlers -> [busy : BOOLEAN, response : SUBSET (1 .. Len(store)), msg : 0 .. Len(store)]]
        BY <2>1, <3>3 DEF TypeOK, Search
      <3> QED
        BY <1>8, <2>0, <2>1, <3>1, <3>2, <3>4 DEF TypeOK, Search, control, asl, ddlog
    <2>2. ASSUME NEW id \in handler[h].response, aslMessageReceived(h, id) PROVE TypeOK'
      <3> DEFINE flag == FlagOf(store[id].severity)
                 m == [origin |-> store[id].origin, flag |-> flag, by |-> h]
      <3>1. id \in 1 .. Len(store) /\ id \in 0 .. Len(store) /\ store[id] \in Entries
        BY <2>0, TypeFacts
      <3>2. m \in Messages
        BY <2>0, <3>1, FlagFacts DEF Messages, Entries
      <3>3. queue' \in Seq(Messages)
        <4>1. queue' = queue \/ queue' = Append(queue, m)
          BY <2>2 DEF aslMessageReceived
        <4>2. queue \in Seq(Messages)
          BY DEF TypeOK
        <4> HIDE DEF m
        <4> QED
          BY <3>2, <4>1, <4>2, AddedFacts
      <3>4. handler' \in [Handlers -> [busy : BOOLEAN, response : SUBSET (1 .. Len(store)), msg : 0 .. Len(store)]]
        BY <2>0, <2>a, <2>2, <3>1 DEF TypeOK, aslMessageReceived
      <3>5. handled' \in [Captures -> SUBSET (1 .. Len(store))]
        BY <2>0, <2>2, <3>1 DEF TypeOK, aslMessageReceived
      <3> QED
        BY <2>2, <3>3, <3>4, <3>5 DEF TypeOK, aslMessageReceived, control, asl
    <2>3. CASE RememberID(h)
      <3> DEFINE r == [captures[h[1]] EXCEPT !.lastSeenID = handler[h].msg]
      <3>0. handler[h].msg \in Nat /\ captures[h[1]] \in Registrations
        BY <2>0, TypeFacts
      <3>1. r \in Registrations
        BY <3>0 DEF Registrations
      <3>2. captures' = [captures EXCEPT ![h[1]] = r]
        BY <2>3 DEF RememberID
      <3> HIDE DEF r
      <3>3. 0 \in 0 .. Len(store)
        BY TypeFacts
      <3>4. handler' \in [Handlers -> [busy : BOOLEAN, response : SUBSET (1 .. Len(store)), msg : 0 .. Len(store)]]
        BY <2>a, <2>3, <3>3 DEF TypeOK, RememberID
      <3> QED
        BY <1>8, <2>0, <2>3, <3>1, <3>2, <3>4 DEF TypeOK, RememberID, control, asl, ddlog
    <2>4. CASE EndOfResponse(h)
      <3> DEFINE r == [captures[h[1]] EXCEPT !.state = "cancelled", !.notified = FALSE]
      <3>1. r \in Registrations
        BY <2>0, TypeFacts DEF Registrations
      <3>2. captures' = captures \/ captures' = [captures EXCEPT ![h[1]] = r]
        BY <2>4 DEF EndOfResponse
      <3> HIDE DEF r
      <3>3. 0 \in 0 .. Len(store)
        BY TypeFacts
      <3>4. handler' \in [Handlers -> [busy : BOOLEAN, response : SUBSET (1 .. Len(store)), msg : 0 .. Len(store)]]
        BY <2>4, <3>3 DEF TypeOK, EndOfResponse, Idle
      <3> QED
        BY <1>8, <2>0, <2>4, <3>1, <3>2, <3>4 DEF TypeOK, EndOfResponse, control, asl, ddlog
    <2> QED
      BY <1>10, <2>1, <2>2, <2>3, <2>4 DEF Handle
  <1>11. CASE lt_log
    <2> DEFINE m == Head(queue)
               e == [origin |-> m.origin, second |-> now, severity |-> ASLLevelOf(m.flag),
                     text |-> TRUE, ddlog |-> TRUE]
    <2>1. queue # <<>> /\ queue' = Tail(queue) /\ delivered' = Append(delivered, m)
      BY <1>11 DEF lt_log
    <2>2. m \in Messages /\ queue' \in Seq(Messages)
      BY <2>1, HeadTailProperties DEF TypeOK
    <2>3. e \in Entries
      BY <1>0, <2>2, FlagFacts DEF Messages, Entries
    <2>4. store' = store \/ store' = Append(store, e)
      BY <1>11 DEF lt_log, Saved
    <2>5. unposted' \in BOOLEAN
      BY <1>11 DEF lt_log
    <2>6. UNCHANGED <<control, capture, now, events>>
      BY <1>11 DEF lt_log
    <2> HIDE DEF m, e
    <2>7. delivered' \in Seq(Messages)
      BY <2>1, <2>2, AddedFacts DEF TypeOK
    <2>8. UNCHANGED <<handler, handled>>
      BY <2>6 DEF capture
    <2>9. /\ store' \in Seq(Entries)
          /\ handler' \in [Handlers -> [busy : BOOLEAN, response : SUBSET (1 .. Len(store')),
                                        msg : 0 .. Len(store')]]
          /\ handled' \in [Captures -> SUBSET (1 .. Len(store'))]
      BY <2>3, <2>4, <2>8, StoreGrows DEF TypeOK
    <2> QED
      BY <2>2, <2>5, <2>6, <2>7, <2>9 DEF TypeOK, control, capture
  <1>12. CASE Post
    <2> DEFINE r(c) == [captures[c] EXCEPT !.notified = captures[c].state = "registered"]
    <2>1. captures' = [c \in 1 .. Len(captures) |-> r(c)]
      BY <1>12, TypeFacts DEF Post
    <2>2. \A c \in 1 .. Len(captures) : r(c) \in Registrations
      BY TypeFacts DEF Registrations
    <2> HIDE DEF r
    <2>3. captures' \in Seq(Registrations) /\ Len(captures') = Len(captures)
      BY <1>0, <2>1, <2>2, LenProperties
    <2> QED
      BY <1>12, <2>3 DEF TypeOK, Post, control, ddlog
  <1>13. CASE Tick
    <2>1. now' \in Nat
      BY <1>0, <1>13 DEF Tick
    <2> QED
      BY <1>13, <2>1 DEF TypeOK, Tick, control, capture, ddlog
  <1>14. CASE UNCHANGED vars
    BY <1>14 DEF TypeOK, vars, control, capture, asl, ddlog
  <1>15. CASE Client
    BY <1>1, <1>2, <1>3, <1>4, <1>5, <1>6, <1>15 DEF Client
  <1> QED
    BY <1>7, <1>9, <1>10, <1>11, <1>12, <1>13, <1>14, <1>15 DEF Next, Finished

-----------------------------------------------------------------------------
(* Nothing is skipped.                                                       *)

\* What is seen of a registration stays seen while nothing is saved.
LEMMA SeenStays ==
    ASSUME TypeOK, UNCHANGED store, NEW c \in DOMAIN captures, NEW id \in Nat, id <= Len(store),
           SeenUpTo(c, id), captures'[c].startTime = captures[c].startTime,
           \A i \in 1 .. Len(store) : Seen(c, i) => Seen(c, i)'
    PROVE  SeenUpTo(c, id)'
  <1>1. ASSUME NEW i \in 1 .. id, Eligible(c, i)' PROVE Seen(c, i)'
    <2>1. i \in 1 .. Len(store) /\ Eligible(c, i)
      BY <1>1, TypeFacts DEF Eligible
    <2> QED
      BY <1>1, <2>1 DEF SeenUpTo
  <1> QED
    BY <1>1 DEF SeenUpTo, Eligible, Seen

\* What the handlers and registrations rely on, for all of them.
SearchInv == IdleHandlers /\ ResponsesComplete /\ SeenIsSaved /\ NothingSkipped

\* Steps that leave the handlers alone.
LEMMA SameHandlers ==
    ASSUME TypeOK, SearchInv, UNCHANGED <<handler, handled>>,
           store' = store \/ \E e \in Entries : store' = Append(store, e),
           DOMAIN captures \subseteq DOMAIN captures',
           \A c \in DOMAIN captures : /\ captures'[c].startTime = captures[c].startTime
                                      /\ captures'[c].lastSeenID = captures[c].lastSeenID,
           \A c \in DOMAIN captures' \ DOMAIN captures : captures'[c].lastSeenID = 0
    PROVE  SearchInv'
  <1>1. \A i \in DOMAIN store : store'[i] = store[i]
    BY StoreGrows
  <1>2. ASSUME NEW c \in DOMAIN captures, NEW id \in 0 .. Len(store), SeenUpTo(c, id)
        PROVE  SeenUpTo(c, id)'
    <2>1. ASSUME NEW i \in 1 .. id, Eligible(c, i)' PROVE Seen(c, i)'
      <3>1. i \in DOMAIN store
        BY TypeFacts
      <3>2. Eligible(c, i)
        BY <1>1, <2>1, <3>1 DEF Eligible
      <3> QED
        BY <1>2, <3>2 DEF SeenUpTo, Seen
    <2> QED
      BY <2>1 DEF SeenUpTo, Eligible, Seen
  <1>3. ASSUME NEW c PROVE SeenUpTo(c, 0)'
    BY DEF SeenUpTo
  <1>4. IdleHandlers'
    BY DEF SearchInv, IdleHandlers
  <1>5. ASSUME NEW h \in Handlers, h[1] \in DOMAIN captures'
        PROVE  /\ SeenUpTo(h[1], handler[h].msg)'
               /\ \A id \in handler'[h].response : SeenUpTo(h[1], id)' /\ ~store'[id].ddlog
    <2>1. CASE h[1] \in DOMAIN captures
      <3>1. /\ handler[h].msg \in 0 .. Len(store) /\ handler[h].response \subseteq DOMAIN store
            /\ DOMAIN store \subseteq 0 .. Len(store)
        BY TypeFacts
      <3>2. SeenUpTo(h[1], handler[h].msg)
        BY <2>1 DEF SearchInv, ResponsesComplete
      <3>3. SeenUpTo(h[1], handler[h].msg)'
        <4>1. PICK k : k = handler[h].msg
          OBVIOUS
        <4>2. SeenUpTo(h[1], k)'
          BY <1>2, <2>1, <3>1, <3>2, <4>1
        <4> QED
          BY <4>1, <4>2 DEF SeenUpTo, Eligible, Seen
      <3>4. ASSUME NEW id \in handler[h].response PROVE SeenUpTo(h[1], id)' /\ ~store'[id].ddlog
        BY <1>1, <1>2, <2>1, <3>1, <3>4 DEF SearchInv, ResponsesComplete
      <3> QED
        BY <3>3, <3>4
    <2>2. CASE h[1] \notin DOMAIN captures
      <3>1. handler'[h].response = {} /\ handler'[h].msg = 0
        BY <2>2 DEF SearchInv, IdleHandlers, Idle
      <3> QED
        BY <3>1 DEF SeenUpTo
    <2> QED
      BY <2>1, <2>2
  <1>6. ASSUME NEW c \in DOMAIN captures'
        PROVE  SeenUpTo(c, captures[c].lastSeenID)' /\ captures'[c].lastSeenID <= Len(store')
    <2>0. Len(store) \in Nat /\ Len(store') \in Nat /\ Len(store) <= Len(store')
      BY TypeFacts, AddedFacts DEF TypeOK
    <2>1. CASE c \in DOMAIN captures
      <3>1. PICK k : k = captures[c].lastSeenID
        OBVIOUS
      <3>2. k \in 0 .. Len(store) /\ SeenUpTo(c, k)
        BY <2>1, <3>1, TypeFacts DEF SearchInv, SeenIsSaved, NothingSkipped
      <3>3. SeenUpTo(c, k)' /\ captures'[c].lastSeenID = k
        BY <1>2, <2>1, <3>1, <3>2
      <3> QED
        BY <2>0, <3>2, <3>3 DEF SeenUpTo, Eligible, Seen
    <2>2. CASE c \notin DOMAIN captures
      <3>1. captures'[c].lastSeenID = 0
        BY <1>6, <2>2
      <3> QED
        BY <2>0, <3>1 DEF SeenUpTo
    <2> QED
      BY <2>1, <2>2
  <1> QED
    BY <1>4, <1>5, <1>6 DEF SearchInv, ResponsesComplete, SeenIsSaved, NothingSkipped

\* Steps of a handler: only its own registration changes.
LEMMA HandlerFrame ==
    ASSUME TypeOK, SearchInv, NEW h \in Handlers, h[1] \in DOMAIN captures, UNCHANGED store,
           DOMAIN captures' = DOMAIN captures,
           \A c \in DOMAIN captures : /\ captures'[c].startTime = captures[c].startTime
                                      /\ c # h[1] => captures'[c] = captures[c],
           \A g \in Handlers : g # h => handler'[g] = handler[g],
           \A c \in Captures : \A i \in 1 .. Len(store) : Seen(c, i) => Seen(c, i)',
           \A id \in handler'[h].response \cup {handler'[h].msg} :
              id \in 0 .. Len(store) /\ SeenUpTo(h[1], id)',
           \A id \in handler'[h].response : ~store[id].ddlog,
           handler'[h] = Idle \/ handler'[h].busy,
           captures'[h[1]].lastSeenID \in {captures[h[1]].lastSeenID, handler[h].msg}
    PROVE  SearchInv'
  <1>1. ASSUME NEW c \in DOMAIN captures, NEW id \in 0 .. Len(store), SeenUpTo(c, id)
        PROVE  SeenUpTo(c, id)'
    <2>1. c \in Captures
      BY TypeFacts
    <2> QED
      BY <1>1, <2>1, SeenStays, TypeFacts
  <1>2. IdleHandlers'
    BY DEF SearchInv, IdleHandlers
  <1>3. ASSUME NEW g \in Handlers, g[1] \in DOMAIN captures
        PROVE  /\ SeenUpTo(g[1], handler[g].msg)'
               /\ \A id \in handler'[g].response : SeenUpTo(g[1], id)' /\ ~store'[id].ddlog
    <2>1. CASE g = h
      <3>1. PICK k : k = handler'[h].msg
        OBVIOUS
      <3>2. SeenUpTo(h[1], k)'
        BY <3>1
      <3> QED
        BY <2>1, <3>1, <3>2 DEF SeenUpTo, Eligible, Seen
    <2>2. CASE g # h
      <3>1. /\ handler[g].msg \in 0 .. Len(store) /\ handler[g].response \subseteq 0 .. Len(store)
            /\ handler'[g] = handler[g]
        BY <2>2, TypeFacts
      <3>2. PICK k : k = handler[g].msg
        OBVIOUS
      <3>3. SeenUpTo(g[1], k)'
        BY <1>1, <1>3, <3>1, <3>2 DEF SearchInv, ResponsesComplete
      <3>4. \A id \in handler[g].response : SeenUpTo(g[1], id)' /\ ~store[id].ddlog
        BY <1>1, <1>3, <3>1 DEF SearchInv, ResponsesComplete
      <3> QED
        BY <3>1, <3>2, <3>3, <3>4 DEF SeenUpTo, Eligible, Seen
    <2> QED
      BY <2>1, <2>2
  <1>4. ASSUME NEW c \in DOMAIN captures
        PROVE  SeenUpTo(c, captures[c].lastSeenID)' /\ captures'[c].lastSeenID <= Len(store')
    <2>1. PICK k : k = captures'[c].lastSeenID
      OBVIOUS
    <2>2. CASE k = captures[c].lastSeenID
      <3>1. k \in 0 .. Len(store) /\ SeenUpTo(c, k)
        BY <1>4, <2>2, TypeFacts DEF SearchInv, SeenIsSaved, NothingSkipped
      <3>2. SeenUpTo(c, k)'
        BY <1>1, <3>1
      <3> QED
        BY <2>1, <3>1, <3>2, TypeFacts DEF SeenUpTo, Eligible, Seen
    <2>3. CASE c = h[1] /\ k = handler[h].msg
      <3>1. k \in 0 .. Len(store) /\ SeenUpTo(c, k)
        BY <2>3, TypeFacts DEF SearchInv, ResponsesComplete
      <3>2. SeenUpTo(c, k)'
        BY <1>1, <3>1
      <3> QED
        BY <2>1, <3>1, <3>2, TypeFacts DEF SeenUpTo, Eligible, Seen
    <2> QED
      BY <1>4, <2>1, <2>2, <2>3
  <1> QED
    BY <1>2, <1>3, <1>4 DEF SearchInv, ResponsesComplete, SeenIsSaved, NothingSkipped

\* The handler visits or ends, so that what it was to visit is still seen.
LEMMA VisitedIsSeen ==
    ASSUME TypeOK, NEW h \in Handlers, NEW id, DOMAIN handled = Captures,
           handled' = [handled EXCEPT ![h[1]] = @ \cup {id}],
           handler'[h].response = handler[h].response \ {id},
           \A g \in Handlers : g # h => handler'[g] = handler[g],
           NEW c \in Captures, NEW i, Seen(c, i)
    PROVE  Seen(c, i)'
  <1>1. h[1] \in Captures
    BY TypeFacts
  <1>2. handled[c] \subseteq handled'[c] /\ id \in handled'[h[1]]
    BY <1>1
  <1>3. CASE i \in handled[c]
    BY <1>2, <1>3 DEF Seen
  <1>4. ASSUME NEW g \in Handlers, g[1] = c, i \in handler[g].response PROVE Seen(c, i)'
    BY <1>2, <1>4 DEF Seen
  <1> QED
    BY <1>3, <1>4 DEF Seen

LEMMA HandleSees ==
    ASSUME TypeOK, SearchInv, NEW h \in Registered, Handle(h)
    PROVE  SearchInv'
  <1> DEFINE c == h[1]
  <1>0. /\ h \in Handlers /\ c \in DOMAIN captures /\ c \in Captures
        /\ DOMAIN handler = Handlers /\ DOMAIN handled = Captures
        /\ handler[h].msg \in 0 .. Len(store) /\ handler[h].response \subseteq DOMAIN store
        /\ DOMAIN store = 1 .. Len(store) /\ Len(store) \in Nat
    BY TypeFacts DEF Registered, TypeOK
  <1>1. CASE Search(h)
    <2>1. /\ ~handler[h].busy
          /\ captures' = [captures EXCEPT ![c].notified = FALSE]
          /\ handler' = [handler EXCEPT ![h] = [busy |-> TRUE, response |-> Found(c), msg |-> 0]]
          /\ UNCHANGED <<store, handled>>
      BY <1>1 DEF Search, asl
    <2>2. handler[h].response = {}
      BY <1>0, <2>1 DEF SearchInv, IdleHandlers, Idle
    <2>3. handler'[h] = [busy |-> TRUE, response |-> Found(c), msg |-> 0]
      BY <1>0, <2>1
    <2>4. \A g \in Handlers : g # h => handler'[g] = handler[g]
      BY <1>0, <2>1
    <2>5. \A d \in Captures : \A i \in 1 .. Len(store) : Seen(d, i) => Seen(d, i)'
      BY <2>1, <2>2, <2>4 DEF Seen
    <2>6. /\ DOMAIN captures' = DOMAIN captures
          /\ \A d \in DOMAIN captures : /\ captures'[d].startTime = captures[d].startTime
                                        /\ captures'[d].lastSeenID = captures[d].lastSeenID
                                        /\ d # c => captures'[d] = captures[d]
      BY <2>1, TypeFacts DEF Registrations
    <2>7. Found(c) \subseteq 0 .. Len(store) /\ \A id \in Found(c) : ~store[id].ddlog
      BY <1>0 DEF Found
    <2>8. ASSUME NEW id \in 0 .. Len(store) PROVE SeenUpTo(c, id)'
      <3>1. ASSUME NEW i \in 1 .. id, Eligible(c, i)' PROVE Seen(c, i)'
        <4>a. i \in 1 .. Len(store)
          BY <1>0, <2>8, <3>1
        <4>b. captures'[c].startTime = captures[c].startTime /\ store' = store
          BY <1>0, <2>1, <2>6
        <4>1. i \in 1 .. Len(store) /\ Eligible(c, i)
          BY <3>1, <4>a, <4>b DEF Eligible
        <4>2. CASE i \in Found(c)
          BY <1>0, <2>3, <4>2 DEF Seen
        <4>3. CASE i \notin Found(c)
          <5>1. captures[c].lastSeenID > 0 /\ i <= captures[c].lastSeenID
            BY <1>0, <4>1, <4>3, TypeFacts DEF Found, Eligible
          <5>2. Seen(c, i)
            BY <1>0, <4>1, <5>1, TypeFacts DEF SearchInv, NothingSkipped, SeenUpTo
          <5> QED
            BY <1>0, <2>5, <4>1, <5>2
        <4> QED
          BY <4>2, <4>3
      <3> QED
        BY <3>1 DEF SeenUpTo, Eligible, Seen
    <2> QED
      BY <1>0, <2>1, <2>3, <2>4, <2>5, <2>6, <2>7, <2>8, HandlerFrame
  <1>2. ASSUME NEW id \in handler[h].response, aslMessageReceived(h, id) PROVE SearchInv'
    <2>1. /\ handler' = [handler EXCEPT ![h].response = @ \ {id}, ![h].msg = id]
          /\ handled' = [handled EXCEPT ![c] = @ \cup {id}]
          /\ UNCHANGED <<store, captures>>
      BY <1>2 DEF aslMessageReceived, asl
    <2>2. /\ handler'[h].response = handler[h].response \ {id} /\ handler'[h].msg = id
          /\ handler'[h].busy = handler[h].busy
          /\ \A g \in Handlers : g # h => handler'[g] = handler[g]
      BY <1>0, <2>1 DEF TypeOK
    <2>3. \A d \in Captures : \A i \in 1 .. Len(store) : Seen(d, i) => Seen(d, i)'
      BY <1>0, <2>1, <2>2, VisitedIsSeen
    <2>4. ASSUME NEW j \in handler[h].response PROVE SeenUpTo(c, j)'
      <3>1. SeenUpTo(c, j) /\ j \in Nat /\ j <= Len(store)
        BY <1>0, <2>4 DEF SearchInv, ResponsesComplete
      <3> QED
        BY <1>0, <2>1, <2>3, <3>1, SeenStays
    <2>5. handler[h].busy
      BY <1>0 DEF SearchInv, IdleHandlers, Idle
    <2>6. \A j \in handler[h].response : ~store[j].ddlog /\ j \in 0 .. Len(store)
      BY <1>0 DEF SearchInv, ResponsesComplete
    <2>7. handler'[h].response \cup {handler'[h].msg} \subseteq handler[h].response
      BY <2>2
    <2>8. \A j \in handler'[h].response \cup {handler'[h].msg} : j \in 0 .. Len(store) /\ SeenUpTo(c, j)'
      BY <2>4, <2>6, <2>7
    <2> QED
      BY <1>0, <2>1, <2>2, <2>3, <2>5, <2>6, <2>8, HandlerFrame
  <1>3. CASE RememberID(h)
    <2>1. /\ captures' = [captures EXCEPT ![c].lastSeenID = handler[h].msg]
          /\ handler' = [handler EXCEPT ![h].msg = 0]
          /\ UNCHANGED <<store, handled>> /\ handler[h].msg # 0
      BY <1>3 DEF RememberID, asl
    <2>2. /\ handler'[h].response = handler[h].response /\ handler'[h].msg = 0
          /\ handler'[h].busy = handler[h].busy
          /\ \A g \in Handlers : g # h => handler'[g] = handler[g]
      BY <1>0, <2>1 DEF TypeOK
    <2>3. \A d \in Captures : \A i \in 1 .. Len(store) : Seen(d, i) => Seen(d, i)'
      BY <2>1, <2>2 DEF Seen
    <2>4. /\ DOMAIN captures' = DOMAIN captures
          /\ \A d \in DOMAIN captures : /\ captures'[d].startTime = captures[d].startTime
                                        /\ d # c => captures'[d] = captures[d]
          /\ captures'[c].lastSeenID = handler[h].msg
      BY <1>0, <2>1, TypeFacts DEF Registrations
    <2>5. ASSUME NEW j \in handler[h].response PROVE SeenUpTo(c, j)'
      <3>1. SeenUpTo(c, j) /\ j \in Nat /\ j <= Len(store)
        BY <1>0, <2>5 DEF SearchInv, ResponsesComplete
      <3> QED
        BY <1>0, <2>1, <2>3, <2>4, <3>1, SeenStays
    <2>6. SeenUpTo(c, 0)' /\ 0 \in 0 .. Len(store)
      BY <1>0 DEF SeenUpTo
    <2>7. handler[h].busy
      BY <1>0, <2>1 DEF SearchInv, IdleHandlers, Idle
    <2>8. \A j \in handler[h].response : ~store[j].ddlog /\ j \in 0 .. Len(store)
      BY <1>0 DEF SearchInv, ResponsesComplete
    <2>9. \A j \in handler'[h].response \cup {handler'[h].msg} : j \in 0 .. Len(store) /\ SeenUpTo(c, j)'
      BY <2>2, <2>5, <2>6, <2>8
    <2> QED
      BY <1>0, <2>1, <2>2, <2>3, <2>4, <2>7, <2>8, <2>9, HandlerFrame
  <1>4. CASE EndOfResponse(h)
    <2>1. /\ handler[h].response = {} /\ handler' = [handler EXCEPT ![h] = Idle]
          /\ UNCHANGED <<store, handled>>
          /\ \/ captures' = captures
             \/ captures' = [captures EXCEPT ![c].state = "cancelled", ![c].notified = FALSE]
      BY <1>4 DEF EndOfResponse, asl
    <2>2. handler'[h] = Idle /\ \A g \in Handlers : g # h => handler'[g] = handler[g]
      BY <1>0, <2>1
    <2>3. \A d \in Captures : \A i \in 1 .. Len(store) : Seen(d, i) => Seen(d, i)'
      BY <2>1, <2>2 DEF Seen
    <2>a. captures[c] \in Registrations
      BY <1>0, TypeFacts
    <2> DEFINE r == [captures[c] EXCEPT !.state = "cancelled", !.notified = FALSE]
    <2>b. r.startTime = captures[c].startTime /\ r.lastSeenID = captures[c].lastSeenID
      BY <2>a DEF Registrations
    <2>c. captures' = captures \/ captures' = [captures EXCEPT ![c] = r]
      BY <2>1
    <2> HIDE DEF r
    <2>4. /\ DOMAIN captures' = DOMAIN captures
          /\ \A d \in DOMAIN captures : /\ captures'[d].startTime = captures[d].startTime
                                        /\ captures'[d].lastSeenID = captures[d].lastSeenID
                                        /\ d # c => captures'[d] = captures[d]
      BY <1>0, <2>b, <2>c
    <2>5. SeenUpTo(c, 0)' /\ 0 \in 0 .. Len(store)
      BY <1>0 DEF SeenUpTo
    <2>6. handler'[h].response = {} /\ handler'[h].msg = 0
      BY <2>2 DEF Idle
    <2> QED
      BY <1>0, <2>1, <2>2, <2>3, <2>4, <2>5, <2>6, HandlerFrame
  <1> QED
    BY <1>1, <1>2, <1>3, <1>4 DEF Handle

LEMMA SearchStep == ASSUME TypeOK, SearchInv, [Next]_vars PROVE SearchInv'
  <1>0. /\ DOMAIN captures \subseteq Captures /\ DOMAIN captures = 1 .. Len(captures)
        /\ Len(captures) \in Nat /\ captures \in Seq(Registrations)
        /\ \A c \in DOMAIN captures : captures[c] \in Registrations
    BY TypeFacts DEF TypeOK
  <1>1. ASSUME UNCHANGED <<captures, handler, handled>>,
               store' = store \/ \E e \in Entries : store' = Append(store, e)
        PROVE  SearchInv'
    BY <1>1, SameHandlers
  <1>2. CASE Client
    <2>1. CASE start \/ startGoesOn \/ stop
      BY <1>1, <2>1 DEF start, startGoesOn, stop, capture, asl
    <2>2. ASSUME NEW level, setCaptureLevel(level) PROVE SearchInv'
      BY <1>1, <2>2 DEF setCaptureLevel, capture, asl
    <2>3. ASSUME NEW flag, LogStatement(flag) PROVE SearchInv'
      BY <1>1, <2>3 DEF LogStatement, capture, asl
    <2>4. ASSUME NEW kind \in instance.kinds, NSLog(kind) PROVE SearchInv'
      <3> DEFINE e == [origin |-> events + 1, second |-> now, severity |-> kind.severity,
                       text |-> kind.text, ddlog |-> FALSE]
      <3>1. kind \in [severity : 0 .. 7, text : BOOLEAN]
        BY CaptureAssumption DEF TypeOK
      <3>2. e \in Entries /\ store' = Append(store, e)
        BY <2>4, <3>1 DEF TypeOK, Entries, NSLog
      <3> QED
        BY <1>1, <2>4, <3>2 DEF NSLog, capture
    <2> QED
      BY <1>2, <2>1, <2>2, <2>3, <2>4 DEF Client
  <1>3. CASE captureAslLogs
    <2> DEFINE r == [state |-> "starting", startTime |-> now, lastSeenID |-> 0, from |-> 0, notified |-> FALSE]
    <2>1. r \in Registrations /\ r.lastSeenID = 0
      BY DEF Registrations, TypeOK
    <2>2. captures' = Append(captures, r) /\ UNCHANGED <<store, handler, handled>>
      BY <1>3 DEF captureAslLogs, asl
    <2> HIDE DEF r
    <2>3. /\ DOMAIN captures' = 1 .. Len(captures) + 1
          /\ \A c \in DOMAIN captures : captures'[c] = captures[c]
          /\ captures'[Len(captures) + 1] = r
      BY <1>0, <2>1, <2>2, AddedFacts
    <2>4. DOMAIN captures \subseteq DOMAIN captures'
      BY <1>0, <2>3
    <2>5. \A c \in DOMAIN captures' \ DOMAIN captures : captures'[c].lastSeenID = 0
      BY <1>0, <2>1, <2>3
    <2> QED
      BY <2>2, <2>3, <2>4, <2>5, SameHandlers
  <1>4. ASSUME NEW c \in DOMAIN captures, notify_register_dispatch(c) PROVE SearchInv'
    <2> DEFINE r == [captures[c] EXCEPT !.state = "registered", !.from = Len(store)]
    <2>1. r.startTime = captures[c].startTime /\ r.lastSeenID = captures[c].lastSeenID
      BY <1>0 DEF Registrations
    <2>2. captures' = [captures EXCEPT ![c] = r] /\ UNCHANGED <<store, handler, handled>>
      BY <1>4 DEF notify_register_dispatch, asl
    <2> HIDE DEF r
    <2> QED
      BY <2>1, <2>2, SameHandlers
  <1>5. CASE lt_log
    <2> DEFINE m == Head(queue)
               e == [origin |-> m.origin, second |-> now, severity |-> ASLLevelOf(m.flag),
                     text |-> TRUE, ddlog |-> TRUE]
    <2>1. m \in Messages
      BY <1>5, HeadTailProperties DEF lt_log, TypeOK
    <2>2. e \in Entries
      BY <2>1, FlagFacts DEF Messages, Entries, TypeOK
    <2>3. store' = store \/ store' = Append(store, e)
      BY <1>5 DEF lt_log, Saved
    <2>4. UNCHANGED <<captures, handler, handled>>
      BY <1>5 DEF lt_log, capture
    <2> HIDE DEF m, e
    <2> QED
      BY <1>1, <2>2, <2>3, <2>4
  <1>6. CASE Post
    <2>1. /\ captures' = [c \in DOMAIN captures |->
                 [captures[c] EXCEPT !.notified = captures[c].state = "registered"]]
          /\ UNCHANGED <<store, handler, handled>>
      BY <1>6 DEF Post
    <2>2. \A c \in DOMAIN captures : /\ captures'[c].startTime = captures[c].startTime
                                     /\ captures'[c].lastSeenID = captures[c].lastSeenID
      BY <1>0, <2>1 DEF Registrations
    <2> QED
      BY <2>1, <2>2, SameHandlers
  <1>7. CASE Tick \/ UNCHANGED vars
    BY <1>1, <1>7 DEF Tick, vars, capture, asl
  <1> QED
    BY <1>2, <1>3, <1>4, <1>5, <1>6, <1>7, HandleSees DEF Next, Finished

-----------------------------------------------------------------------------
(* The origins of what is saved and logged.                                  *)

OriginsInv == StoreInOrder /\ CapturedIsHandled /\ StatementsAreSavedOnce /\ NoEcho

\* What was logged comes from the application or from a handler.
LEMMA ByFacts ==
    ASSUME TypeOK
    PROVE  /\ \A k \in DOMAIN Logged : /\ Logged[k] \in Messages /\ Logged[k].origin \in Nat
                                       /\ Logged[k].by # App => Logged[k].by[1] \in Captures
           /\ App[1] \notin Captures
  <1>1. \A k \in DOMAIN Logged : Logged[k] \in Messages
    BY LoggedFacts, ElementFacts
  <1>2. ASSUME NEW m \in Messages
        PROVE  m.origin \in Nat /\ (m.by # App => m.by[1] \in Captures)
    BY TypeFacts DEF Messages
  <1>3. App[1] \notin Captures
    BY CaptureAssumption DEF App, Captures
  <1> QED
    BY <1>1, <1>2, <1>3

\* A statement of the application is logged.
LEMMA StatementOrigins ==
    ASSUME TypeOK, OriginsInv, NEW m \in Messages, m.by = App, m.origin = events + 1,
           queue' = Append(queue, m), events' = events + 1, UNCHANGED <<delivered, store, handled>>
    PROVE  OriginsInv'
  <1>1. /\ DOMAIN Logged' = 1 .. Len(Logged) + 1 /\ Len(Logged) \in Nat
        /\ DOMAIN Logged = 1 .. Len(Logged)
        /\ \A k \in DOMAIN Logged : Logged'[k] = Logged[k]
        /\ Logged'[Len(Logged) + 1] = m
    BY LogsFacts
  <1>2. /\ events \in Nat /\ DOMAIN store = 1 .. Len(store)
        /\ \A i \in DOMAIN store : store[i].origin \in Nat
    BY TypeFacts
  <1>3. \A i \in DOMAIN store : store[i].origin # m.origin
    BY <1>2 DEF OriginsInv, StoreInOrder
  <1>4. \A k \in DOMAIN Logged : Logged[k].origin # m.origin
    BY <1>2 DEF OriginsInv, StatementsAreSavedOnce
  <1>5. StoreInOrder'
    BY <1>2 DEF OriginsInv, StoreInOrder
  <1>6. CapturedIsHandled'
    <2>1. \A k \in DOMAIN Logged' : Logged'[k].by # App => k \in DOMAIN Logged /\ Logged'[k] = Logged[k]
      BY <1>1
    <2> QED
      BY <2>1 DEF OriginsInv, CapturedIsHandled
  <1>7. StatementsAreSavedOnce'
    <2>1. \A k \in DOMAIN Logged' : (k \in DOMAIN Logged /\ Logged'[k] = Logged[k]) \/ Logged'[k] = m
      BY <1>1
    <2>2. \A k \in DOMAIN Logged' : Logged'[k].origin \in 1 .. events'
      BY <1>2, <2>1 DEF OriginsInv, StatementsAreSavedOnce
    <2>3. \A k \in DOMAIN queue' : (k \in DOMAIN queue /\ queue'[k] = queue[k]) \/ queue'[k] = m
      BY AddedFacts, ElementFacts DEF TypeOK
    <2>4. ASSUME NEW k \in DOMAIN Logged', Logged'[k].by = App, NEW i \in DOMAIN store,
                 store[i].origin = Logged'[k].origin
          PROVE  store[i].ddlog
      BY <1>3, <2>1, <2>4 DEF OriginsInv, StatementsAreSavedOnce
    <2>5. ASSUME NEW k \in DOMAIN queue', queue'[k].by = App, NEW i \in DOMAIN store
          PROVE  store[i].origin # queue'[k].origin
      BY <1>3, <2>3, <2>5 DEF OriginsInv, StatementsAreSavedOnce
    <2> QED
      BY <2>2, <2>4, <2>5 DEF StatementsAreSavedOnce
  <1>8. NoEcho'
    <2>1. ASSUME NEW i \in DOMAIN Logged', NEW j \in DOMAIN Logged', Logged'[i].by = App,
                 Logged'[i].origin = Logged'[j].origin
          PROVE  i = j
      <3>1. CASE i \in DOMAIN Logged /\ j \in DOMAIN Logged
        BY <1>1, <2>1, <3>1 DEF OriginsInv, NoEcho
      <3>2. CASE i \in DOMAIN Logged /\ j = Len(Logged) + 1
        BY <1>1, <1>4, <2>1, <3>2
      <3>3. CASE i = Len(Logged) + 1 /\ j \in DOMAIN Logged
        BY <1>1, <1>4, <2>1, <3>3
      <3>4. i \in DOMAIN Logged \/ i = Len(Logged) + 1
        BY <1>1
      <3>5. j \in DOMAIN Logged \/ j = Len(Logged) + 1
        BY <1>1
      <3> QED
        BY <3>1, <3>2, <3>3, <3>4, <3>5
    <2> QED
      BY <2>1 DEF OriginsInv, NoEcho
  <1> QED
    BY <1>5, <1>6, <1>7, <1>8 DEF OriginsInv

\* A message is saved whose origin is new to the store: by NSLog with the origin of a new
\* event, or by DDASLLogger with that of a statement that leaves the queue.
LEMMA SavedOrigins ==
    ASSUME TypeOK, OriginsInv, NEW e \in Entries, store' = Append(store, e), UNCHANGED handled,
           events' \in Nat, events <= events', Logged' = Logged, e.origin \in 1 .. events',
           \A i \in DOMAIN store : store[i].origin # e.origin,
           ~e.ddlog => events' = events + 1 /\ e.origin = events',
           \A k \in DOMAIN queue' : queue'[k].by = App =>
              /\ queue'[k].origin # e.origin
              /\ \E j \in DOMAIN queue : queue[j] = queue'[k]
    PROVE  OriginsInv'
  <1>1. /\ DOMAIN store' = 1 .. Len(store) + 1 /\ DOMAIN store = 1 .. Len(store) /\ Len(store) \in Nat
        /\ \A i \in DOMAIN store : store'[i] = store[i]
        /\ store'[Len(store) + 1] = e
    BY AddedFacts, TypeFacts DEF TypeOK
  <1>2. /\ events \in Nat /\ \A c \in Captures : handled[c] \subseteq DOMAIN store
        /\ \A i \in DOMAIN store : store[i].origin \in Nat
    BY TypeFacts
  <1>3. \A i \in DOMAIN store' : (i \in DOMAIN store /\ store'[i] = store[i]) \/ (i = Len(store) + 1 /\ store'[i] = e)
    BY <1>1
  <1>4. StoreInOrder'
    <2>1. \A i \in DOMAIN store' : store'[i].origin \in 1 .. events'
      BY <1>2, <1>3 DEF OriginsInv, StoreInOrder
    <2>2. ASSUME NEW i \in DOMAIN store', NEW j \in DOMAIN store', i < j,
                 ~store'[i].ddlog, ~store'[j].ddlog
          PROVE  store'[i].origin < store'[j].origin
      <3>1. i \in DOMAIN store /\ store'[i] = store[i]
        BY <1>1, <2>2
      <3>2. CASE j \in DOMAIN store
        BY <1>1, <2>2, <3>1, <3>2 DEF OriginsInv, StoreInOrder
      <3>3. CASE j = Len(store) + 1
        <4>1. store'[j].origin = events + 1
          BY <1>1, <2>2, <3>3
        <4> QED
          BY <1>2, <3>1, <4>1 DEF OriginsInv, StoreInOrder
      <3> QED
        BY <1>3, <3>2, <3>3
    <2> QED
      BY <2>1, <2>2 DEF StoreInOrder
  <1>5. CapturedIsHandled'
    <2>1. ASSUME NEW k \in DOMAIN Logged, Logged[k].by # App
          PROVE  \E i \in handled[Logged[k].by[1]] : ~store'[i].ddlog /\ store'[i].origin = Logged[k].origin
      <3>1. PICK i \in handled[Logged[k].by[1]] : ~store[i].ddlog /\ store[i].origin = Logged[k].origin
        BY <2>1 DEF OriginsInv, CapturedIsHandled
      <3>2. i \in DOMAIN store
        BY <1>2, <2>1, ByFacts
      <3> QED
        BY <1>1, <3>1, <3>2
    <2> QED
      BY <2>1 DEF CapturedIsHandled
  <1>6. StatementsAreSavedOnce'
    <2>1. \A k \in DOMAIN Logged : Logged[k].origin \in 1 .. events'
      BY <1>2 DEF OriginsInv, StatementsAreSavedOnce
    <2>2. ASSUME NEW k \in DOMAIN Logged, Logged[k].by = App, NEW i \in DOMAIN store',
                 store'[i].origin = Logged[k].origin
          PROVE  store'[i].ddlog
      <3>1. CASE i \in DOMAIN store
        BY <1>1, <2>2, <3>1 DEF OriginsInv, StatementsAreSavedOnce
      <3>2. CASE store'[i] = e /\ ~e.ddlog
        <4>1. Logged[k].origin = events + 1
          BY <2>2, <3>2
        <4> QED
          BY <1>2, <4>1 DEF OriginsInv, StatementsAreSavedOnce
      <3> QED
        BY <1>3, <3>1, <3>2
    <2>3. ASSUME NEW k \in DOMAIN queue', queue'[k].by = App, NEW i \in DOMAIN store'
          PROVE  store'[i].origin # queue'[k].origin
      BY <1>3, <2>3 DEF OriginsInv, StatementsAreSavedOnce
    <2> QED
      BY <2>1, <2>2, <2>3 DEF StatementsAreSavedOnce
  <1>7. NoEcho'
    <2>1. ASSUME NEW i \in DOMAIN store', NEW j \in DOMAIN store', store'[i].origin = store'[j].origin
          PROVE  i = j
      BY <1>3, <2>1 DEF OriginsInv, NoEcho
    <2> QED
      BY <2>1 DEF OriginsInv, NoEcho
  <1> QED
    BY <1>4, <1>5, <1>6, <1>7 DEF OriginsInv

\* A handler visits a message, and logs it or not.
LEMMA VisitOrigins ==
    ASSUME TypeOK, OriginsInv, NEW h \in Handlers, NEW id \in DOMAIN store, ~store[id].ddlog,
           handled' = [handled EXCEPT ![h[1]] = @ \cup {id}],
           NEW m \in Messages, m.by = h, m.origin = store[id].origin,
           queue' = queue \/ queue' = Append(queue, m),
           UNCHANGED <<delivered, store, events>>
    PROVE  OriginsInv'
  <1>1. /\ h[1] \in Captures /\ h # App /\ DOMAIN handled = Captures
    BY TypeFacts DEF TypeOK
  <1>2. \A c \in Captures : handled[c] \subseteq handled'[c]
    BY <1>1
  <1>3. id \in handled'[h[1]]
    BY <1>1
  <1>4. \A k \in DOMAIN Logged' : (k \in DOMAIN Logged /\ Logged'[k] = Logged[k]) \/ Logged'[k] = m
    <2>1. CASE queue' = queue
      BY <2>1 DEF Logged
    <2>2. CASE queue' = Append(queue, m)
      BY <2>2, LogsFacts
    <2> QED
      BY <2>1, <2>2
  <1>5. \A k \in DOMAIN queue' : (k \in DOMAIN queue /\ queue'[k] = queue[k]) \/ queue'[k] = m
    <2>1. CASE queue' = queue
      BY <2>1
    <2>2. CASE queue' = Append(queue, m)
      <3>1. queue \in Seq(Messages)
        BY DEF TypeOK
      <3> QED
        BY <2>2, <3>1, AddedFacts, ElementFacts
    <2> QED
      BY <2>1, <2>2
  <1>6. StoreInOrder'
    BY DEF OriginsInv, StoreInOrder
  <1>7. CapturedIsHandled'
    <2>1. ASSUME NEW k \in DOMAIN Logged', Logged'[k].by # App
          PROVE  \E i \in handled'[Logged'[k].by[1]] : ~store[i].ddlog /\ store[i].origin = Logged'[k].origin
      <3>1. CASE k \in DOMAIN Logged /\ Logged'[k] = Logged[k]
        BY <1>2, <2>1, <3>1, ByFacts DEF OriginsInv, CapturedIsHandled
      <3>2. CASE Logged'[k] = m
        BY <1>3, <3>2
      <3> QED
        BY <1>4, <3>1, <3>2
    <2> QED
      BY <2>1 DEF CapturedIsHandled
  <1>8. StatementsAreSavedOnce'
    <2>1. \A k \in DOMAIN Logged' : Logged'[k].origin \in 1 .. events
      BY <1>4 DEF OriginsInv, StatementsAreSavedOnce, StoreInOrder
    <2>2. \A k \in DOMAIN Logged' : Logged'[k].by = App => k \in DOMAIN Logged /\ Logged'[k] = Logged[k]
      BY <1>1, <1>4
    <2>3. \A k \in DOMAIN queue' : queue'[k].by = App => k \in DOMAIN queue /\ queue'[k] = queue[k]
      BY <1>1, <1>5
    <2> QED
      BY <2>1, <2>2, <2>3 DEF OriginsInv, StatementsAreSavedOnce
  <1>9. NoEcho'
    <2>1. ASSUME NEW i \in DOMAIN Logged', NEW j \in DOMAIN Logged', Logged'[i].by = App,
                 Logged'[i].origin = Logged'[j].origin
          PROVE  i = j
      <3>1. i \in DOMAIN Logged /\ Logged'[i] = Logged[i]
        BY <1>1, <1>4, <2>1
      <3>2. CASE j \in DOMAIN Logged /\ Logged'[j] = Logged[j]
        BY <2>1, <3>1, <3>2 DEF OriginsInv, NoEcho
      <3>3. Logged'[j] # m
        BY <2>1, <3>1 DEF OriginsInv, StatementsAreSavedOnce
      <3> QED
        BY <1>4, <3>2, <3>3
    <2> QED
      BY <2>1 DEF OriginsInv, NoEcho
  <1> QED
    BY <1>6, <1>7, <1>8, <1>9 DEF OriginsInv

LEMMA OriginsStep == ASSUME TypeOK, SearchInv, OriginsInv, [Next]_vars PROVE OriginsInv'
  <1>0. events \in Nat /\ DOMAIN store = 1 .. Len(store)
    BY TypeFacts
  <1>1. ASSUME UNCHANGED <<store, queue, delivered, events, handled>> PROVE OriginsInv'
    BY <1>1 DEF OriginsInv, StoreInOrder, CapturedIsHandled, StatementsAreSavedOnce, NoEcho, Logged
  <1>2. CASE Client
    <2>1. CASE start \/ startGoesOn \/ stop
      BY <1>1, <2>1 DEF start, startGoesOn, stop, capture, asl, ddlog
    <2>2. ASSUME NEW level, setCaptureLevel(level) PROVE OriginsInv'
      BY <1>1, <2>2 DEF setCaptureLevel, capture, asl, ddlog
    <2>3. ASSUME NEW flag \in Statements, LogStatement(flag) PROVE OriginsInv'
      <3> DEFINE m == [origin |-> events + 1, flag |-> flag, by |-> App]
      <3>1. m \in Messages /\ m.by = App /\ m.origin = events + 1
        BY <1>0, CaptureAssumption DEF Messages
      <3>2. /\ queue' = Append(queue, m) /\ events' = events + 1
            /\ UNCHANGED <<delivered, store, handled>>
        BY <2>3 DEF LogStatement, capture, asl
      <3> HIDE DEF m
      <3> QED
        BY <3>1, <3>2, StatementOrigins
    <2>4. ASSUME NEW kind \in instance.kinds, NSLog(kind) PROVE OriginsInv'
      <3> DEFINE e == [origin |-> events + 1, second |-> now, severity |-> kind.severity,
                       text |-> kind.text, ddlog |-> FALSE]
      <3>1. kind \in [severity : 0 .. 7, text : BOOLEAN]
        BY CaptureAssumption DEF TypeOK
      <3>2. e \in Entries /\ e.origin = events + 1
        BY <1>0, <3>1 DEF TypeOK, Entries
      <3>3. /\ store' = Append(store, e) /\ events' = events + 1
            /\ UNCHANGED <<handled, queue, delivered>>
        BY <2>4 DEF NSLog, capture, ddlog
      <3> HIDE DEF e
      <3>4. \A i \in DOMAIN store : store[i].origin # e.origin
        BY <1>0, <3>2 DEF OriginsInv, StoreInOrder
      <3>5. \A k \in DOMAIN queue : queue[k].origin # e.origin
        <4>1. \A k \in DOMAIN Logged : Logged[k].origin # e.origin
          BY <1>0, <3>2 DEF OriginsInv, StatementsAreSavedOnce
        <4> QED
          BY <4>1, LoggedFacts
      <3>6. Logged' = Logged /\ events' \in Nat /\ events <= events' /\ e.origin \in 1 .. events'
        BY <1>0, <3>2, <3>3 DEF Logged
      <3> QED
        BY <3>2, <3>3, <3>4, <3>5, <3>6, SavedOrigins
    <2> QED
      BY <1>2, <2>1, <2>2, <2>3, <2>4 DEF Client
  <1>3. CASE captureAslLogs
    BY <1>1, <1>3 DEF captureAslLogs, asl, ddlog
  <1>4. ASSUME NEW c, notify_register_dispatch(c) PROVE OriginsInv'
    BY <1>1, <1>4 DEF notify_register_dispatch, asl, ddlog
  <1>5. ASSUME NEW h \in Registered, Handle(h) PROVE OriginsInv'
    <2>0. h \in Handlers /\ h[1] \in DOMAIN captures
      BY DEF Registered
    <2>1. CASE Search(h)
      BY <1>1, <2>1 DEF Search, asl, ddlog
    <2>2. ASSUME NEW id \in handler[h].response, aslMessageReceived(h, id) PROVE OriginsInv'
      <3> DEFINE m == [origin |-> store[id].origin, flag |-> FlagOf(store[id].severity), by |-> h]
      <3>1. id \in DOMAIN store /\ store[id] \in Entries /\ ~store[id].ddlog
        BY <2>0, TypeFacts DEF SearchInv, ResponsesComplete
      <3>2. m \in Messages /\ m.by = h /\ m.origin = store[id].origin
        BY <2>0, <3>1, FlagFacts DEF Messages, Entries
      <3>3. /\ handled' = [handled EXCEPT ![h[1]] = @ \cup {id}]
            /\ queue' = queue \/ queue' = Append(queue, m)
            /\ UNCHANGED <<delivered, store, events>>
        BY <2>2 DEF aslMessageReceived, asl
      <3> HIDE DEF m
      <3> QED
        BY <2>0, <3>1, <3>2, <3>3, VisitOrigins
    <2>3. CASE RememberID(h) \/ EndOfResponse(h)
      BY <1>1, <2>3 DEF RememberID, EndOfResponse, asl, ddlog
    <2> QED
      BY <1>5, <2>1, <2>2, <2>3 DEF Handle
  <1>6. CASE lt_log
    <2> DEFINE m == Head(queue)
               e == [origin |-> m.origin, second |-> now, severity |-> ASLLevelOf(m.flag),
                     text |-> TRUE, ddlog |-> TRUE]
    <2>1. /\ queue # <<>> /\ queue' = Tail(queue) /\ delivered' = Append(delivered, m)
          /\ UNCHANGED <<handled, events>>
      BY <1>6 DEF lt_log, capture
    <2>2. m \in Messages /\ Logged' = Logged
      BY <2>1, HeadTailProperties, DeliversFacts DEF TypeOK
    <2>3. store' = IF m.by # App THEN store ELSE Append(store, e)
      BY <1>6 DEF lt_log, Saved
    <2>4. /\ 1 \in DOMAIN queue /\ queue[1] = m
          /\ \A k \in DOMAIN queue' : k + 1 \in DOMAIN queue /\ queue'[k] = queue[k + 1] /\ k \in 1 .. Len(queue)
      BY <2>1, HeadTailProperties, ElementFacts DEF TypeOK
    <2>5. CASE m.by # App
      <3>1. store' = store
        BY <2>3, <2>5
      <3>2. StatementsAreSavedOnce'
        BY <2>1, <2>2, <2>4, <3>1 DEF OriginsInv, StatementsAreSavedOnce
      <3> QED
        BY <2>1, <2>2, <3>1, <3>2 DEF OriginsInv, StoreInOrder, CapturedIsHandled, NoEcho
    <2>6. CASE m.by = App
      <3>1. e \in Entries /\ e.origin = m.origin /\ e.ddlog
        BY <2>2, FlagFacts DEF Messages, Entries, TypeOK
      <3>2. store' = Append(store, e)
        BY <2>3, <2>6
      <3> HIDE DEF e
      <3>3. \A i \in DOMAIN store : store[i].origin # e.origin
        BY <2>4, <2>6, <3>1 DEF OriginsInv, StatementsAreSavedOnce
      <3>4. /\ Len(delivered) \in Nat /\ Len(delivered) + 1 \in DOMAIN Logged
            /\ Logged[Len(delivered) + 1] = m
        BY <2>4, LoggedFacts, ElementFacts DEF TypeOK
      <3>5. e.origin \in 1 .. events
        BY <3>1, <3>4 DEF OriginsInv, StatementsAreSavedOnce
      <3>6. ASSUME NEW k \in DOMAIN queue', queue'[k].by = App
            PROVE  queue'[k].origin # e.origin /\ \E j \in DOMAIN queue : queue[j] = queue'[k]
        <4>1. /\ Len(delivered) + (k + 1) \in DOMAIN Logged
              /\ Logged[Len(delivered) + (k + 1)] = queue'[k]
          BY <2>4, LoggedFacts
        <4>2. Len(delivered) + (k + 1) # Len(delivered) + 1
          BY <2>4, <3>4
        <4>3. queue'[k].origin # m.origin
          BY <2>6, <3>4, <4>1, <4>2 DEF OriginsInv, NoEcho
        <4> QED
          BY <2>4, <3>1, <4>3
      <3> HIDE DEF m
      <3> QED
        BY <1>0, <2>1, <2>2, <3>1, <3>2, <3>3, <3>5, <3>6, SavedOrigins
    <2> QED
      BY <2>5, <2>6
  <1>7. CASE Post \/ Tick \/ UNCHANGED vars
    BY <1>1, <1>7 DEF Post, Tick, vars, capture, asl, ddlog
  <1> QED
    BY <1>2, <1>3, <1>4, <1>5, <1>6, <1>7 DEF Next, Finished

-----------------------------------------------------------------------------
(* The order in which handlers that do not overlap go through the log.       *)

OrderInv == HandledByCaptures /\ HandledInOrder /\ OnceInOrder

\* Nothing of a captured message is logged.
LEMMA OrderFrame ==
    ASSUME TypeOK, OnceInOrder, UNCHANGED instance,
           \/ Logged' = Logged
           \/ \E m \in Messages : m.by = App /\ queue' = Append(queue, m) /\ UNCHANGED delivered
    PROVE  OnceInOrder'
  <1>1. CASE Logged' = Logged
    BY <1>1 DEF OnceInOrder
  <1>2. ASSUME NEW m \in Messages, m.by = App, queue' = Append(queue, m), UNCHANGED delivered
        PROVE  OnceInOrder'
    <2>1. /\ DOMAIN Logged' = 1 .. Len(Logged) + 1 /\ Len(Logged) \in Nat
          /\ DOMAIN Logged = 1 .. Len(Logged)
          /\ \A k \in DOMAIN Logged : Logged'[k] = Logged[k]
          /\ Logged'[Len(Logged) + 1] = m
      BY <1>2, LogsFacts
    <2>2. ASSUME ~instance.overlap, NEW i \in DOMAIN Logged', NEW j \in DOMAIN Logged', i < j,
                 Logged'[i].by # App, Logged'[i].by[1] = Logged'[j].by[1]
          PROVE  Logged'[i].origin < Logged'[j].origin
      <3>1. i \in DOMAIN Logged /\ Logged'[i] = Logged[i]
        BY <2>1, <2>2
      <3>2. Logged'[j] # m
        BY <1>2, <2>2, <3>1, ByFacts
      <3>3. j \in DOMAIN Logged /\ Logged'[j] = Logged[j]
        BY <2>1, <3>2
      <3> QED
        BY <2>2, <3>1, <3>3 DEF OnceInOrder
    <2> QED
      BY <2>2 DEF OnceInOrder
  <1> QED
    BY <1>1, <1>2

\* No handler moves; captures may be made, and nothing was handled for them.
LEMMA HandledFrame ==
    ASSUME TypeOK, HandledByCaptures, HandledInOrder, UNCHANGED <<handler, handled, instance>>,
           DOMAIN captures \subseteq DOMAIN captures', DOMAIN captures' \subseteq Captures,
           \A c \in DOMAIN captures : captures'[c].lastSeenID = captures[c].lastSeenID
    PROVE  HandledByCaptures' /\ HandledInOrder'
  <1>1. HandledByCaptures'
    BY DEF HandledByCaptures
  <1>2. ASSUME NEW c \in DOMAIN captures', NEW i \in handled[c]
        PROVE  c \in DOMAIN captures /\ captures'[c].lastSeenID = captures[c].lastSeenID
    BY <1>2 DEF HandledByCaptures
  <1>3. HandledInOrder'
    BY <1>2 DEF HandledInOrder
  <1> QED
    BY <1>1, <1>3

LEMMA HandleOrders ==
    ASSUME TypeOK, SearchInv, OriginsInv, OrderInv, NEW h \in Registered, Handle(h)
    PROVE  OrderInv'
  <1> DEFINE c == h[1]
  <1>0. /\ h \in Handlers /\ c \in DOMAIN captures /\ c \in Captures
        /\ DOMAIN handler = Handlers /\ DOMAIN handled = Captures
        /\ handler[h].msg \in 0 .. Len(store) /\ handler[h].response \subseteq DOMAIN store
        /\ DOMAIN store = 1 .. Len(store) /\ Len(store) \in Nat
        /\ \A d \in Captures : handled[d] \subseteq 1 .. Len(store)
        /\ \A d \in DOMAIN captures : captures[d] \in Registrations /\ captures[d].lastSeenID \in Nat
    BY TypeFacts DEF Registered, TypeOK
  <1>i. instance' = instance
    BY DEF Handle, Search, aslMessageReceived, RememberID, EndOfResponse
  <1>1. CASE Search(h)
    <2>1. /\ ~handler[h].busy /\ UNCHANGED <<handled, queue, delivered>>
          /\ instance.overlap \/ {g \in Handlers : g[1] = c /\ handler[g].busy} = {}
          /\ captures' = [captures EXCEPT ![c].notified = FALSE]
          /\ handler' = [handler EXCEPT ![h] = [busy |-> TRUE, response |-> Found(c), msg |-> 0]]
      BY <1>1 DEF Search, ddlog
    <2>2. /\ handler'[h] = [busy |-> TRUE, response |-> Found(c), msg |-> 0]
          /\ \A g \in Handlers : g # h => handler'[g] = handler[g]
      BY <1>0, <2>1
    <2>3. /\ DOMAIN captures' = DOMAIN captures
          /\ \A d \in DOMAIN captures : captures'[d].lastSeenID = captures[d].lastSeenID
      BY <1>0, <2>1 DEF Registrations
    <2>4. ASSUME ~instance.overlap PROVE \A g \in Handlers : g[1] = c => handler[g] = Idle
      BY <2>1, <2>4 DEF SearchInv, IdleHandlers
    <2>5. ASSUME ~instance.overlap, NEW i \in handled[c] PROVE i <= captures[c].lastSeenID
      BY <1>0, <2>4, <2>5 DEF OrderInv, HandledInOrder, Idle
    <2>6. ASSUME ~instance.overlap, NEW i \in handled[c], NEW j \in Found(c) PROVE i < j
      <3>1. i <= captures[c].lastSeenID /\ i \in 1 .. Len(store)
        BY <1>0, <2>5, <2>6
      <3>2. captures[c].lastSeenID > 0
        BY <1>0, <3>1
      <3>3. j > captures[c].lastSeenID /\ j \in 1 .. Len(store)
        BY <1>0, <2>6, <3>2 DEF Found
      <3> QED
        BY <1>0, <3>1, <3>3
    <2>7. HandledByCaptures'
      BY <2>1, <2>3 DEF OrderInv, HandledByCaptures
    <2>8. ASSUME ~instance.overlap, NEW f \in Handlers, NEW g \in Handlers, f[1] = g[1],
                 handler'[f].busy, handler'[g].busy
          PROVE  f = g
      <3>1. CASE f # h /\ g # h
        BY <2>2, <2>8, <3>1 DEF OrderInv, HandledInOrder
      <3>2. \A e \in Handlers : (e # h /\ e[1] = c) => ~handler'[e].busy
        BY <2>2, <2>4, <2>8 DEF Idle
      <3> QED
        BY <2>8, <3>1, <3>2
    <2>9. ASSUME ~instance.overlap, NEW g \in Handlers, g[1] \in DOMAIN captures, NEW i \in handled[g[1]]
          PROVE  /\ \A j \in handler'[g].response : i < j
                 /\ handler'[g].msg # 0 => i <= handler'[g].msg
      <3>1. CASE g = h
        BY <2>2, <2>6, <2>9, <3>1
      <3>2. CASE g # h
        BY <2>2, <2>9, <3>2 DEF OrderInv, HandledInOrder
      <3> QED
        BY <3>1, <3>2
    <2>10. ASSUME ~instance.overlap, NEW d \in DOMAIN captures, NEW i \in handled[d]
           PROVE  i <= captures'[d].lastSeenID \/ \E g \in Handlers : g[1] = d /\ handler'[g].msg # 0
      <3>1. CASE d = c
        BY <2>3, <2>5, <2>10, <3>1
      <3>2. CASE d # c
        BY <2>2, <2>3, <2>10, <3>2 DEF OrderInv, HandledInOrder
      <3> QED
        BY <3>1, <3>2
    <2>11. HandledInOrder'
      BY <1>i, <2>1, <2>3, <2>8, <2>9, <2>10 DEF HandledInOrder
    <2>12. OnceInOrder'
      BY <1>i, <2>1 DEF OrderInv, OnceInOrder, Logged
    <2> QED
      BY <2>7, <2>11, <2>12 DEF OrderInv
  <1>2. ASSUME NEW id \in handler[h].response, aslMessageReceived(h, id) PROVE OrderInv'
    <2> DEFINE m == [origin |-> store[id].origin, flag |-> FlagOf(store[id].severity), by |-> h]
    <2>1. /\ handler' = [handler EXCEPT ![h].response = @ \ {id}, ![h].msg = id]
          /\ handled' = [handled EXCEPT ![c] = @ \cup {id}]
          /\ \A j \in handler[h].response : id <= j
          /\ queue' = queue \/ queue' = Append(queue, m)
          /\ UNCHANGED <<store, captures, delivered>>
      BY <1>2 DEF aslMessageReceived, asl
    <2>2. /\ handler'[h].response = handler[h].response \ {id} /\ handler'[h].msg = id
          /\ handler'[h].busy = handler[h].busy
          /\ \A g \in Handlers : g # h => handler'[g] = handler[g]
      BY <1>0, <2>1 DEF TypeOK
    <2>3. /\ handled'[c] = handled[c] \cup {id}
          /\ \A d \in Captures : d # c => handled'[d] = handled[d]
      BY <1>0, <2>1
    <2>4. handler[h].busy
      BY <1>0, <1>2 DEF SearchInv, IdleHandlers, Idle
    <2>5. /\ id \in DOMAIN store /\ id \in Nat /\ id # 0
          /\ store[id] \in Entries /\ ~store[id].ddlog
      BY <1>0, <1>2, TypeFacts DEF SearchInv, ResponsesComplete
    <2>6. ASSUME ~instance.overlap, NEW i \in handled[c] PROVE i < id
      BY <1>0, <1>2, <2>6 DEF OrderInv, HandledInOrder
    <2>7. ASSUME ~instance.overlap, NEW g \in Handlers, g # h, g[1] = c PROVE handler[g] = Idle
      BY <1>0, <2>4, <2>7 DEF OrderInv, HandledInOrder, SearchInv, IdleHandlers
    <2>8. HandledByCaptures'
      BY <1>0, <2>1, <2>3 DEF OrderInv, HandledByCaptures
    <2>9. ASSUME ~instance.overlap, NEW f \in Handlers, NEW g \in Handlers, f[1] = g[1],
                 handler'[f].busy, handler'[g].busy
          PROVE  f = g
      BY <2>2, <2>9 DEF OrderInv, HandledInOrder
    <2>10. ASSUME ~instance.overlap, NEW g \in Handlers, g[1] \in DOMAIN captures, NEW i \in handled'[g[1]]
           PROVE  /\ \A j \in handler'[g].response : i < j
                  /\ handler'[g].msg # 0 => i <= handler'[g].msg
      <3>1. CASE g = h
        <4>1. \A j \in handler'[h].response : id < j /\ j \in Nat
          BY <1>0, <2>1, <2>2, <2>5
        <4>2. i <= id /\ i \in Nat
          <5>1. CASE i = id
            BY <2>5, <5>1
          <5>2. CASE i \in handled[c]
            BY <1>0, <2>5, <2>6, <2>10, <5>2
          <5> QED
            BY <2>3, <2>10, <3>1, <5>1, <5>2
        <4> QED
          BY <2>2, <2>5, <3>1, <4>1, <4>2
      <3>2. CASE g # h /\ g[1] = c
        BY <2>2, <2>7, <2>10, <3>2 DEF Idle
      <3>3. CASE g[1] # c
        <4>1. g # h /\ g[1] \in Captures
          BY <3>3, TypeFacts
        <4> QED
          BY <2>2, <2>3, <2>10, <3>3, <4>1 DEF OrderInv, HandledInOrder
      <3> QED
        BY <3>1, <3>2, <3>3
    <2>11. ASSUME ~instance.overlap, NEW d \in DOMAIN captures, NEW i \in handled'[d]
           PROVE  i <= captures[d].lastSeenID \/ \E g \in Handlers : g[1] = d /\ handler'[g].msg # 0
      <3>1. CASE d = c
        BY <1>0, <2>2, <2>5, <3>1
      <3>2. CASE d # c
        BY <2>2, <2>3, <2>11, <3>2, TypeFacts DEF OrderInv, HandledInOrder
      <3> QED
        BY <3>1, <3>2
    <2>12. HandledInOrder'
      BY <1>i, <2>1, <2>9, <2>10, <2>11 DEF HandledInOrder
    <2>13. OnceInOrder'
      <3>1. CASE queue' = queue
        BY <1>i, <2>1, <3>1 DEF OrderInv, OnceInOrder, Logged
      <3>2. CASE queue' = Append(queue, m)
        <4>1. m \in Messages /\ m.by = h /\ m.origin = store[id].origin
          BY <1>0, <2>5, FlagFacts DEF Messages, Entries
        <4> HIDE DEF m
        <4>2. /\ DOMAIN Logged' = 1 .. Len(Logged) + 1 /\ Len(Logged) \in Nat
              /\ DOMAIN Logged = 1 .. Len(Logged)
              /\ \A k \in DOMAIN Logged : Logged'[k] = Logged[k]
              /\ Logged'[Len(Logged) + 1] = m
          BY <2>1, <3>2, <4>1, LogsFacts
        <4>3. ASSUME ~instance.overlap, NEW i \in DOMAIN Logged', NEW j \in DOMAIN Logged', i < j,
                     Logged'[i].by # App, Logged'[i].by[1] = Logged'[j].by[1]
              PROVE  Logged'[i].origin < Logged'[j].origin
          <5>1. i \in DOMAIN Logged /\ Logged'[i] = Logged[i]
            BY <4>2, <4>3
          <5>2. CASE j \in DOMAIN Logged
            BY <4>2, <4>3, <5>1, <5>2 DEF OrderInv, OnceInOrder
          <5>3. CASE j = Len(Logged) + 1
            <6>1. Logged[i].by[1] = c
              BY <4>1, <4>2, <4>3, <5>1, <5>3
            <6>2. PICK n \in handled[c] : ~store[n].ddlog /\ store[n].origin = Logged[i].origin
              BY <4>3, <5>1, <6>1 DEF OriginsInv, CapturedIsHandled
            <6>3. n < id /\ n \in DOMAIN store
              BY <1>0, <2>6, <4>3
            <6>4. store[n].origin < store[id].origin
              BY <2>5, <6>2, <6>3 DEF OriginsInv, StoreInOrder
            <6> QED
              BY <4>1, <4>2, <5>1, <5>3, <6>2, <6>4
          <5> QED
            BY <4>2, <5>2, <5>3
        <4> QED
          BY <1>i, <4>3 DEF OnceInOrder
      <3> QED
        BY <2>1, <3>1, <3>2
    <2> QED
      BY <2>8, <2>12, <2>13 DEF OrderInv
  <1>3. CASE RememberID(h)
    <2>1. /\ captures' = [captures EXCEPT ![c].lastSeenID = handler[h].msg]
          /\ handler' = [handler EXCEPT ![h].msg = 0]
          /\ UNCHANGED <<handled, queue, delivered>> /\ handler[h].msg # 0
      BY <1>3 DEF RememberID, ddlog
    <2>2. /\ handler'[h].response = handler[h].response /\ handler'[h].msg = 0
          /\ handler'[h].busy = handler[h].busy
          /\ \A g \in Handlers : g # h => handler'[g] = handler[g]
      BY <1>0, <2>1 DEF TypeOK
    <2>3. /\ DOMAIN captures' = DOMAIN captures
          /\ \A d \in DOMAIN captures : d # c => captures'[d] = captures[d]
          /\ captures'[c].lastSeenID = handler[h].msg
      BY <1>0, <2>1 DEF Registrations
    <2>4. HandledByCaptures'
      BY <2>1, <2>3 DEF OrderInv, HandledByCaptures
    <2>5. ASSUME ~instance.overlap, NEW f \in Handlers, NEW g \in Handlers, f[1] = g[1],
                 handler'[f].busy, handler'[g].busy
          PROVE  f = g
      BY <2>2, <2>5 DEF OrderInv, HandledInOrder
    <2>6. ASSUME ~instance.overlap, NEW g \in Handlers, g[1] \in DOMAIN captures, NEW i \in handled[g[1]]
          PROVE  /\ \A j \in handler'[g].response : i < j
                 /\ handler'[g].msg # 0 => i <= handler'[g].msg
      <3>1. CASE g = h
        BY <2>2, <2>6, <3>1 DEF OrderInv, HandledInOrder
      <3>2. CASE g # h
        BY <2>2, <2>6, <3>2 DEF OrderInv, HandledInOrder
      <3> QED
        BY <3>1, <3>2
    <2>7. ASSUME ~instance.overlap, NEW d \in DOMAIN captures, NEW i \in handled[d]
          PROVE  i <= captures'[d].lastSeenID \/ \E g \in Handlers : g[1] = d /\ handler'[g].msg # 0
      <3>1. CASE d = c
        BY <1>0, <2>1, <2>3, <2>7, <3>1 DEF OrderInv, HandledInOrder
      <3>2. CASE d # c
        BY <2>2, <2>3, <2>7, <3>2 DEF OrderInv, HandledInOrder
      <3> QED
        BY <3>1, <3>2
    <2>8. HandledInOrder'
      BY <1>i, <2>1, <2>3, <2>5, <2>6, <2>7 DEF HandledInOrder
    <2>9. OnceInOrder'
      BY <1>i, <2>1 DEF OrderInv, OnceInOrder, Logged
    <2> QED
      BY <2>4, <2>8, <2>9 DEF OrderInv
  <1>4. CASE EndOfResponse(h)
    <2>1. /\ handler[h].msg = 0 /\ handler' = [handler EXCEPT ![h] = Idle]
          /\ UNCHANGED <<handled, queue, delivered>>
          /\ \/ captures' = captures
             \/ captures' = [captures EXCEPT ![c].state = "cancelled", ![c].notified = FALSE]
      BY <1>4 DEF EndOfResponse, ddlog
    <2>2. handler'[h] = Idle /\ \A g \in Handlers : g # h => handler'[g] = handler[g]
      BY <1>0, <2>1
    <2> DEFINE r == [captures[c] EXCEPT !.state = "cancelled", !.notified = FALSE]
    <2>b. r.lastSeenID = captures[c].lastSeenID
      BY <1>0 DEF Registrations
    <2>c. captures' = captures \/ captures' = [captures EXCEPT ![c] = r]
      BY <2>1
    <2> HIDE DEF r
    <2>3. /\ DOMAIN captures' = DOMAIN captures
          /\ \A d \in DOMAIN captures : captures'[d].lastSeenID = captures[d].lastSeenID
      BY <1>0, <2>b, <2>c
    <2>4. HandledByCaptures'
      BY <2>1, <2>3 DEF OrderInv, HandledByCaptures
    <2>5. ASSUME ~instance.overlap, NEW f \in Handlers, NEW g \in Handlers, f[1] = g[1],
                 handler'[f].busy, handler'[g].busy
          PROVE  f = g
      BY <2>2, <2>5 DEF OrderInv, HandledInOrder, Idle
    <2>6. ASSUME ~instance.overlap, NEW g \in Handlers, g[1] \in DOMAIN captures, NEW i \in handled[g[1]]
          PROVE  /\ \A j \in handler'[g].response : i < j
                 /\ handler'[g].msg # 0 => i <= handler'[g].msg
      BY <2>2, <2>6 DEF OrderInv, HandledInOrder, Idle
    <2>7. ASSUME ~instance.overlap, NEW d \in DOMAIN captures, NEW i \in handled[d]
          PROVE  i <= captures'[d].lastSeenID \/ \E g \in Handlers : g[1] = d /\ handler'[g].msg # 0
      BY <2>1, <2>2, <2>3, <2>7 DEF OrderInv, HandledInOrder
    <2>8. HandledInOrder'
      BY <1>i, <2>1, <2>3, <2>5, <2>6, <2>7 DEF HandledInOrder
    <2>9. OnceInOrder'
      <3>1. Logged' = Logged
        BY <2>1 DEF Logged
      <3> QED
        BY <1>i, <3>1 DEF OrderInv, OnceInOrder
    <2> QED
      BY <2>4, <2>8, <2>9 DEF OrderInv
  <1> QED
    BY <1>1, <1>2, <1>3, <1>4 DEF Handle

LEMMA OrderStep == ASSUME TypeOK, SearchInv, OriginsInv, OrderInv, [Next]_vars PROVE OrderInv'
  <1>0. /\ DOMAIN captures \subseteq Captures /\ DOMAIN captures = 1 .. Len(captures)
        /\ Len(captures) \in Nat /\ captures \in Seq(Registrations)
        /\ \A c \in DOMAIN captures : captures[c] \in Registrations
    BY TypeFacts DEF TypeOK
  <1>1. DOMAIN captures' \subseteq Captures
    <2>1. TypeOK'
      BY TypeStep
    <2>2. /\ Len(captures') \in Nat /\ DOMAIN captures' = 1 .. Len(captures')
          /\ Len(captures') <= MaxStarts
      <3>1. /\ captures' \in Seq(Registrations) /\ launched' \in Nat /\ starting' \in Nat
            /\ Len(captures') + launched' + starting' <= MaxStarts
        BY <2>1 DEF TypeOK
      <3>2. Len(captures') \in Nat /\ DOMAIN captures' = 1 .. Len(captures')
        BY <3>1, ElementFacts
      <3> QED
        BY <3>1, <3>2, CaptureAssumption
    <2> QED
      BY <2>2, CaptureAssumption DEF Captures
  <1>2. ASSUME UNCHANGED <<handler, handled, instance>>, DOMAIN captures \subseteq DOMAIN captures',
               \A c \in DOMAIN captures : captures'[c].lastSeenID = captures[c].lastSeenID,
               \/ Logged' = Logged
               \/ \E m \in Messages : m.by = App /\ queue' = Append(queue, m) /\ UNCHANGED delivered
        PROVE  OrderInv'
    BY <1>1, <1>2, HandledFrame, OrderFrame DEF OrderInv
  <1>3. ASSUME UNCHANGED <<captures, handler, handled, instance, queue, delivered>> PROVE OrderInv'
    BY <1>0, <1>2, <1>3 DEF Logged
  <1>4. CASE Client
    <2>1. CASE start \/ startGoesOn \/ stop
      BY <1>3, <2>1 DEF start, startGoesOn, stop, capture, ddlog
    <2>2. ASSUME NEW level, setCaptureLevel(level) PROVE OrderInv'
      BY <1>3, <2>2 DEF setCaptureLevel, capture, ddlog
    <2>3. ASSUME NEW flag \in Statements, LogStatement(flag) PROVE OrderInv'
      <3> DEFINE m == [origin |-> events + 1, flag |-> flag, by |-> App]
      <3>1. m \in Messages /\ m.by = App
        BY CaptureAssumption DEF Messages, TypeOK
      <3>2. queue' = Append(queue, m) /\ UNCHANGED <<delivered, captures, handler, handled, instance>>
        BY <2>3 DEF LogStatement, capture
      <3> HIDE DEF m
      <3> QED
        BY <1>2, <3>1, <3>2
    <2>4. ASSUME NEW kind, NSLog(kind) PROVE OrderInv'
      BY <1>3, <2>4 DEF NSLog, capture, ddlog
    <2> QED
      BY <1>4, <2>1, <2>2, <2>3, <2>4 DEF Client
  <1>5. CASE captureAslLogs
    <2> DEFINE r == [state |-> "starting", startTime |-> now, lastSeenID |-> 0, from |-> 0, notified |-> FALSE]
    <2>1. r \in Registrations
      BY DEF Registrations, TypeOK
    <2>2. captures' = Append(captures, r) /\ UNCHANGED <<handler, handled, instance, queue, delivered>>
      BY <1>5 DEF captureAslLogs, ddlog
    <2> HIDE DEF r
    <2>3. /\ DOMAIN captures \subseteq DOMAIN captures'
          /\ \A c \in DOMAIN captures : captures'[c] = captures[c]
      BY <1>0, <2>1, <2>2, AddedFacts
    <2> QED
      BY <1>2, <2>2, <2>3 DEF Logged
  <1>6. ASSUME NEW c \in DOMAIN captures, notify_register_dispatch(c) PROVE OrderInv'
    <2> DEFINE r == [captures[c] EXCEPT !.state = "registered", !.from = Len(store)]
    <2>1. r.lastSeenID = captures[c].lastSeenID
      BY <1>0 DEF Registrations
    <2>2. /\ captures' = [captures EXCEPT ![c] = r]
          /\ UNCHANGED <<handler, handled, instance, queue, delivered>>
      BY <1>6 DEF notify_register_dispatch, ddlog
    <2> HIDE DEF r
    <2>3. /\ DOMAIN captures' = DOMAIN captures
          /\ \A d \in DOMAIN captures : captures'[d].lastSeenID = captures[d].lastSeenID
      BY <2>1, <2>2
    <2> QED
      BY <1>2, <2>2, <2>3 DEF Logged
  <1>7. CASE lt_log
    <2>1. Logged' = Logged /\ UNCHANGED <<captures, handler, handled, instance>>
      BY <1>7, DeliversFacts DEF lt_log, capture
    <2> QED
      BY <1>2, <2>1
  <1>8. CASE Post
    <2>1. /\ captures' = [c \in DOMAIN captures |->
                 [captures[c] EXCEPT !.notified = captures[c].state = "registered"]]
          /\ UNCHANGED <<handler, handled, instance, queue, delivered>>
      BY <1>8 DEF Post, ddlog
    <2>2. /\ DOMAIN captures' = DOMAIN captures
          /\ \A c \in DOMAIN captures : captures'[c].lastSeenID = captures[c].lastSeenID
      BY <1>0, <2>1 DEF Registrations
    <2> QED
      BY <1>2, <2>1, <2>2 DEF Logged
  <1>9. CASE Tick \/ UNCHANGED vars
    BY <1>3, <1>9 DEF Tick, vars, capture, ddlog
  <1> QED
    BY <1>4, <1>5, <1>6, <1>7, <1>8, <1>9, HandleOrders DEF Next, Finished

-----------------------------------------------------------------------------
LEMMA Initially == Init => TypeOK /\ SearchInv /\ OriginsInv /\ OrderInv
  <1> SUFFICES ASSUME Init PROVE TypeOK /\ SearchInv /\ OriginsInv /\ OrderInv
    OBVIOUS
  <1> USE CaptureAssumption DEF Init
  <1>1. [busy |-> FALSE, response |-> {}, msg |-> 0] \in
           [busy : BOOLEAN, response : SUBSET (1 .. Len(store)), msg : 0 .. Len(store)]
    OBVIOUS
  <1>2. /\ handler \in [Handlers -> [busy : BOOLEAN, response : SUBSET (1 .. Len(store)), msg : 0 .. Len(store)]]
        /\ handled \in [Captures -> SUBSET (1 .. Len(store))]
    BY <1>1 DEF Idle
  <1>3. /\ captures \in Seq(Registrations) /\ Len(captures) = 0 /\ DOMAIN captures = {}
        /\ store \in Seq(Entries) /\ queue \in Seq(Messages) /\ delivered \in Seq(Messages)
    OBVIOUS
  <1>a. /\ cancel \in BOOLEAN /\ captureLevel \subseteq DDLogFlags
        /\ instance \in Instances /\ unposted \in BOOLEAN
    OBVIOUS
  <1>b. /\ starting \in Nat /\ launched \in Nat /\ now \in Nat /\ events \in Nat
        /\ Len(captures) + launched + starting <= MaxStarts
    BY <1>3
  <1>4. TypeOK
    BY <1>2, <1>3, <1>a, <1>b DEF TypeOK
  <1>5. SearchInv
    BY <1>3 DEF SearchInv, IdleHandlers, ResponsesComplete, SeenIsSaved, NothingSkipped
  <1>6. Logged = <<>> /\ DOMAIN Logged = {} /\ DOMAIN store = {} /\ DOMAIN queue = {}
    BY DEF Logged
  <1>7. OriginsInv
    BY <1>6 DEF OriginsInv, StoreInOrder, CapturedIsHandled, StatementsAreSavedOnce, NoEcho
  <1>8. OrderInv
    BY <1>3, <1>6 DEF OrderInv, HandledByCaptures, HandledInOrder, OnceInOrder, Idle
  <1> QED
    BY <1>4, <1>5, <1>7, <1>8

-----------------------------------------------------------------------------
(* The theorems.                                                             *)

\* Every variable keeps its type, and no more captures are made than asked for.
THEOREM CaptureTypes == Spec => []TypeOK
  BY Initially, TypeStep, PTL DEF Spec

\* No message is passed over, for any overlap of the handlers and any notifications.
THEOREM NoneIsSkipped == Spec => []NothingSkipped
  <1>1. SearchInv => NothingSkipped
    BY DEF SearchInv
  <1> QED
    BY <1>1, Initially, TypeStep, SearchStep, PTL DEF Spec

\* Nothing goes round between the capture and DDASLLogger.
THEOREM NothingGoesRound == Spec => []NoEcho
  <1>1. OriginsInv => NoEcho
    BY DEF OriginsInv
  <1> QED
    BY <1>1, Initially, TypeStep, SearchStep, OriginsStep, PTL DEF Spec

\* Handlers that do not overlap log each message of the system log once, in order.
THEOREM CapturedOnceInOrder == Spec => []OnceInOrder
  <1>1. OrderInv => OnceInOrder
    BY DEF OrderInv
  <1> QED
    BY <1>1, Initially, TypeStep, SearchStep, OriginsStep, OrderStep, PTL DEF Spec
=============================================================================
