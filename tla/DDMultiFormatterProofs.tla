----------------------- MODULE DDMultiFormatterProofs -----------------------
(***************************************************************************)
(* Proofs of what readers of the chain see, of the lines that come out of  *)
(* it and of the verdicts of its filters, for any number of loggers,       *)
(* clients, formatters and changes that wait.                              *)
(***************************************************************************)
EXTENDS DDMultiFormatterProperties, TLAPS, WellFoundedInduction

\* What the chain is before the i-th block of the queue runs.
Before(i) == IF i = 1 THEN formatters ELSE queue[i - 1].chain

\* Each block expects what its change makes of what the block before it expects, and
\* clients know the chain after all of them.
QueueExpects ==
    /\ \A i \in 1 .. Len(queue) :
          queue[i].chain = Apply(queue[i].op, queue[i].arg, Before(i))
    /\ expected[None] = Before(Len(queue) + 1)

\* A block that reads is of a reader that is not reading yet and has no other block.
Reads(i) == i \in 1 .. Len(queue) /\ queue[i].op = "read"
ReadersExpect ==
    \A i \in 1 .. Len(queue) : Reads(i) =>
        /\ queue[i].arg \in Readers \ reading
        /\ expected[queue[i].arg] = queue[i].chain
ReadersOnce ==
    \A i, j \in 1 .. Len(queue) : Reads(i) /\ Reads(j) /\ queue[i].arg = queue[j].arg => i = j

\* A logger without a message neither reads nor waits.
ReadersHaveMessages ==
    \A l \in Loggers : message[l] = None => ~Busy(l)

Shapes ==
    /\ \E S : queue \in Seq(S)
    /\ reading \subseteq Readers
    /\ message \in [Loggers -> Messages \cup {None}]
    /\ expected = [r \in Readers \cup {None} |-> expected[r]]

ChainIInv ==
    /\ Shapes
    /\ QueueExpects /\ ReadersExpect /\ ReadersOnce
    /\ ReadersHaveMessages
    /\ ChainAsRequested

-----------------------------------------------------------------------------
(* The queue.                                                                *)

\* What a block at the end and one less at the front mean, whatever a block is.
LEMMA AppendFacts ==
    ASSUME NEW S, NEW q \in Seq(S), NEW e
    PROVE  /\ \E T : Append(q, e) \in Seq(T)
           /\ Len(q) \in Nat /\ Len(Append(q, e)) = Len(q) + 1
           /\ \A i \in 1 .. Len(q) : Append(q, e)[i] = q[i]
           /\ Append(q, e)[Len(q) + 1] = e
  <1> DEFINE T == S \cup {e}
  <1>1. q \in Seq(T) /\ e \in T
    OBVIOUS
  <1>2. Append(q, e) \in Seq(T)
    BY <1>1
  <1> HIDE DEF T
  <1> QED
    BY <1>1, <1>2

LEMMA TailFacts ==
    ASSUME NEW S, NEW q \in Seq(S), q # <<>>
    PROVE  /\ Tail(q) \in Seq(S)
           /\ Len(q) \in Nat \ {0} /\ Len(Tail(q)) = Len(q) - 1
           /\ \A i \in 1 .. Len(q) - 1 : Tail(q)[i] = q[i + 1]
           /\ Head(q) = q[1]
  OBVIOUS

\* A new block that expects what its change makes of the requested chain keeps the
\* expectations; it reads only for one that is not busy.
LEMMA Enqueue ==
    ASSUME ChainIInv, NEW op, NEW arg,
           queue' = Append(queue, [op |-> op, arg |-> arg, chain |-> expected'[None]]),
           UNCHANGED <<formatters, reading>>,
           expected'[None] = Apply(op, arg, expected[None]),
           expected' = [r \in Readers \cup {None} |-> expected'[r]],
           \A r \in Readers : (r \in reading \/ Waiting(r)) => expected'[r] = expected[r],
           op = "read" => /\ arg \in Readers /\ ~Busy(arg)
                          /\ expected'[arg] = expected'[None]
    PROVE  /\ \E S : queue' \in Seq(S)
           /\ QueueExpects' /\ ReadersExpect' /\ ReadersOnce' /\ ChainAsRequested'
           /\ \A r : Waiting(r)' => Waiting(r) \/ (op = "read" /\ r = arg)
  <1> DEFINE e == [op |-> op, arg |-> arg, chain |-> expected'[None]]
  <1>1. PICK S : queue \in Seq(S)
    BY DEF ChainIInv, Shapes
  <1>3. e.op = op /\ e.arg = arg /\ e.chain = expected'[None]
    OBVIOUS
  <1>a. queue' = Append(queue, e)
    OBVIOUS
  <1> HIDE DEF e
  <1>2. /\ \E T : queue' \in Seq(T)
        /\ Len(queue) \in Nat /\ Len(queue') = Len(queue) + 1
        /\ \A i \in 1 .. Len(queue) : queue'[i] = queue[i]
        /\ queue'[Len(queue) + 1] = e
    <2>1. /\ \E T : Append(queue, e) \in Seq(T)
          /\ Len(queue) \in Nat /\ Len(Append(queue, e)) = Len(queue) + 1
          /\ \A i \in 1 .. Len(queue) : Append(queue, e)[i] = queue[i]
          /\ Append(queue, e)[Len(queue) + 1] = e
      BY <1>1, AppendFacts, Zenon
    <2> QED
      BY <1>a, <2>1, Zenon
  <1>4. \A i \in 1 .. Len(queue) + 1 : Before(i)' = Before(i)
    BY <1>2 DEF Before
  <1>5. QueueExpects'
    <2>0. PICK n : n = Len(queue)
      OBVIOUS
    <2>1. \A i \in 1 .. n : queue'[i].chain = Apply(queue'[i].op, queue'[i].arg, Before(i)')
      BY <1>2, <1>4, <2>0 DEF ChainIInv, QueueExpects
    <2>2. e.chain = Apply(e.op, e.arg, Before(n + 1)')
      BY <1>2, <1>3, <1>4, <2>0 DEF ChainIInv, QueueExpects
    <2>3. expected'[None] = Before(n + 2)'
      BY <1>2, <1>3, <2>0 DEF Before
    <2> QED
      BY <1>2, <2>0, <2>1, <2>2, <2>3 DEF QueueExpects
  <1>6. \A i \in 1 .. Len(queue) : Reads(i)' <=> Reads(i)
    BY <1>2 DEF Reads
  <1>7. \A i \in 1 .. Len(queue) : Reads(i) => Waiting(queue[i].arg)
    BY <1>1 DEF Reads, Waiting
  <1>8. ReadersExpect'
    <2>1. ASSUME NEW i \in 1 .. Len(queue), Reads(i)
          PROVE  queue'[i].arg \in Readers \ reading /\ expected'[queue'[i].arg] = queue'[i].chain
      BY <1>2, <1>7, <2>1 DEF ChainIInv, ReadersExpect
    <2>2. op = "read" => e.arg \in Readers \ reading /\ expected'[e.arg] = e.chain
      BY <1>3 DEF Busy
    <2> QED
      BY <1>2, <1>3, <1>6, <2>1, <2>2 DEF ReadersExpect, Reads
  <1>9. ReadersOnce'
    <2>1. ASSUME NEW i \in 1 .. Len(queue), Reads(i), op = "read"
          PROVE  queue[i].arg # arg
      BY <1>7, <2>1 DEF Busy
    <2> QED
      BY <1>2, <1>3, <1>6, <2>1 DEF ChainIInv, ReadersOnce, Reads
  <1>10. ChainAsRequested'
    BY DEF ChainIInv, Shapes, ChainAsRequested
  <1>11. \A r : Waiting(r)' => Waiting(r) \/ (op = "read" /\ r = arg)
    <2>1. DOMAIN queue = 1 .. Len(queue) /\ DOMAIN queue' = 1 .. Len(queue')
      BY <1>1, <1>2
    <2> QED
      BY <1>2, <1>3, <2>1 DEF Waiting
  <1> QED
    BY <1>2, <1>5, <1>8, <1>9, <1>10, <1>11

\* Taking the first block off keeps the expectations if the chain becomes what that
\* block expects.
LEMMA Dequeue ==
    ASSUME ChainIInv, queue # <<>>, queue' = Tail(queue),
           formatters' = Head(queue).chain, UNCHANGED expected,
           \/ UNCHANGED reading
           \/ Head(queue).op = "read" /\ reading' = reading \cup {Head(queue).arg}
    PROVE  /\ \E S : queue' \in Seq(S)
           /\ QueueExpects' /\ ReadersExpect' /\ ReadersOnce'
           /\ \A r : Waiting(r)' => Waiting(r)
  <1>1. PICK S : queue \in Seq(S)
    BY DEF ChainIInv, Shapes
  <1>2. /\ queue' \in Seq(S)
        /\ Len(queue) \in Nat \ {0} /\ Len(queue') = Len(queue) - 1
        /\ \A i \in 1 .. Len(queue) - 1 : queue'[i] = queue[i + 1]
        /\ Head(queue) = queue[1]
    BY <1>1, TailFacts
  <1>3. \A i \in 1 .. Len(queue) : Before(i)' = Before(i + 1)
    BY <1>2 DEF Before
  <1>4. QueueExpects'
    BY <1>2, <1>3 DEF ChainIInv, QueueExpects
  <1>5. \A i \in 1 .. Len(queue) - 1 : Reads(i)' => Reads(i + 1)
    BY <1>2 DEF Reads
  <1>6. ReadersOnce'
    BY <1>2, <1>5 DEF ChainIInv, ReadersOnce
  <1>7. ReadersExpect'
    <2>1. ASSUME NEW i \in 1 .. Len(queue) - 1, Reads(i)'
          PROVE  /\ queue[i + 1].arg \in Readers \ reading'
                 /\ expected[queue[i + 1].arg] = queue[i + 1].chain
      <3>1. Reads(i + 1) /\ i + 1 \in 1 .. Len(queue) /\ 1 \in 1 .. Len(queue) /\ i + 1 # 1
        BY <1>2, <1>5, <2>1
      <3>2. Head(queue).op = "read" => queue[i + 1].arg # Head(queue).arg
        BY <1>2, <3>1 DEF ChainIInv, ReadersOnce, Reads
      <3> QED
        BY <3>1, <3>2 DEF ChainIInv, ReadersExpect
    <2> QED
      BY <1>2, <2>1 DEF ReadersExpect
  <1>8. \A r : Waiting(r)' => Waiting(r)
    <2>1. DOMAIN queue = 1 .. Len(queue) /\ DOMAIN queue' = 1 .. Len(queue')
      BY <1>1, <1>2
    <2> QED
      BY <1>2, <2>1 DEF Waiting
  <1> QED
    BY <1>2, <1>4, <1>6, <1>7, <1>8

-----------------------------------------------------------------------------
(* The invariant.                                                            *)

LEMMA ChainInitial == Init => ChainIInv
  <1> SUFFICES ASSUME Init PROVE ChainIInv
    OBVIOUS
  <1>1. queue = <<>> /\ queue \in Seq({}) /\ Len(queue) = 0 /\ DOMAIN queue = {}
    BY DEF Init
  <1>2. Shapes
    BY <1>1 DEF Init, Shapes
  <1>3. QueueExpects
    BY <1>1 DEF Init, QueueExpects, Before
  <1>4. ReadersExpect /\ ReadersOnce
    BY <1>1 DEF ReadersExpect, ReadersOnce
  <1>5. ReadersHaveMessages
    BY <1>1 DEF Init, ReadersHaveMessages, Busy, Waiting
  <1>6. ChainAsRequested
    BY DEF Init, ChainAsRequested
  <1> QED
    BY <1>2, <1>3, <1>4, <1>5, <1>6 DEF ChainIInv

\* A change is requested.
LEMMA ChangeChainPreserves ==
    ASSUME ChainIInv, NEW op \in {"add", "remove", "clear"}, NEW f, ChangeChain(op, f)
    PROVE  ChainIInv'
  <1>1. None \notin Readers
    BY FormatterAssumption
  <1>2. /\ expected'[None] = Apply(op, f, expected[None])
        /\ \A r \in Readers : expected'[r] = expected[r]
        /\ expected' = [r \in Readers \cup {None} |-> expected'[r]]
    BY <1>1 DEF ChangeChain, ChainIInv, Shapes
  <1>3. /\ \E S : queue' \in Seq(S)
        /\ QueueExpects' /\ ReadersExpect' /\ ReadersOnce' /\ ChainAsRequested'
        /\ \A r : Waiting(r)' => Waiting(r)
    <2>1. UNCHANGED <<formatters, reading>> /\ op # "read"
      BY DEF ChangeChain
    <2>2. queue' = Append(queue, [op |-> op, arg |-> f, chain |-> expected'[None]])
      BY DEF ChangeChain
    <2> QED
      BY <1>2, <2>1, <2>2, Enqueue
  <1>4. Shapes'
    BY <1>2, <1>3 DEF ChangeChain, ChainIInv, Shapes
  <1>5. ReadersHaveMessages'
    BY <1>3 DEF ChangeChain, ChainIInv, ReadersHaveMessages, Busy
  <1> QED
    BY <1>3, <1>4, <1>5 DEF ChainIInv

\* A reader that is not busy asks.
LEMMA ReadChainPreserves ==
    ASSUME ChainIInv, NEW r \in Readers, ~Busy(r), ReadChain(r), UNCHANGED <<formatters, reading>>
    PROVE  /\ \E S : queue' \in Seq(S)
           /\ QueueExpects' /\ ReadersExpect' /\ ReadersOnce' /\ ChainAsRequested'
           /\ expected' = [s \in Readers \cup {None} |-> expected'[s]]
           /\ \A s : Waiting(s)' => Waiting(s) \/ s = r
  <1>1. None \notin Readers
    BY FormatterAssumption
  <1>2. /\ expected'[None] = expected[None] /\ expected'[r] = expected[None]
        /\ \A s \in Readers : s # r => expected'[s] = expected[s]
        /\ expected' = [s \in Readers \cup {None} |-> expected'[s]]
    BY <1>1 DEF ReadChain, ChainIInv, Shapes
  <1>3. Apply("read", r, expected[None]) = expected[None]
    BY DEF Apply
  <1>4. queue' = Append(queue, [op |-> "read", arg |-> r, chain |-> expected'[None]])
    BY <1>2 DEF ReadChain
  <1>5. \A s \in Readers : (s \in reading \/ Waiting(s)) => expected'[s] = expected[s]
    BY <1>2 DEF Busy
  <1> QED
    BY <1>2, <1>3, <1>4, <1>5, Enqueue

LEMMA AskPreserves ==
    ASSUME ChainIInv, NEW t \in Threads, AskForChain(t)
    PROVE  ChainIInv'
  <1>1. t \in Readers /\ t \notin Loggers
    BY FormatterAssumption DEF Readers
  <1>2. /\ \E S : queue' \in Seq(S)
        /\ QueueExpects' /\ ReadersExpect' /\ ReadersOnce' /\ ChainAsRequested'
        /\ expected' = [s \in Readers \cup {None} |-> expected'[s]]
        /\ \A s : Waiting(s)' => Waiting(s) \/ s = t
    BY <1>1, ReadChainPreserves DEF AskForChain
  <1>3. Shapes'
    BY <1>2 DEF AskForChain, ChainIInv, Shapes
  <1>4. ReadersHaveMessages'
    BY <1>1, <1>2 DEF AskForChain, ChainIInv, ReadersHaveMessages, Busy
  <1> QED
    BY <1>2, <1>3, <1>4 DEF ChainIInv

LEMMA FormatPreserves ==
    ASSUME ChainIInv, NEW l \in Loggers, NEW c \in Contexts, formatLogMessage(l, c)
    PROVE  ChainIInv'
  <1>1. l \in Readers /\ ~Busy(l)
    BY DEF Readers, formatLogMessage, ChainIInv, ReadersHaveMessages
  <1>2. /\ \E S : queue' \in Seq(S)
        /\ QueueExpects' /\ ReadersExpect' /\ ReadersOnce' /\ ChainAsRequested'
        /\ expected' = [s \in Readers \cup {None} |-> expected'[s]]
        /\ \A s : Waiting(s)' => Waiting(s) \/ s = l
    BY <1>1, ReadChainPreserves DEF formatLogMessage
  <1>3. [context |-> c, next |-> 1, line |-> <<>>] \in Messages
    BY DEF Messages, Lines
  <1>4. /\ message' \in [Loggers -> Messages \cup {None}]
        /\ message'[l] # None /\ \A k \in Loggers : k # l => message'[k] = message[k]
    BY <1>3, FormatterAssumption DEF formatLogMessage, ChainIInv, Shapes
  <1>5. Shapes'
    BY <1>2, <1>4 DEF formatLogMessage, ChainIInv, Shapes
  <1>6. ReadersHaveMessages'
    BY <1>2, <1>4 DEF formatLogMessage, ChainIInv, ReadersHaveMessages, Busy
  <1> QED
    BY <1>2, <1>5, <1>6 DEF ChainIInv

\* A barrier runs when nobody reads.
LEMMA BarrierPreserves ==
    ASSUME ChainIInv, RunBarrier
    PROVE  ChainIInv'
  <1>1. queue # <<>> /\ queue' = Tail(queue) /\ reading = {} /\ UNCHANGED <<reading, expected, message>>
    BY DEF RunBarrier, BarrierMayRun, history
  <1>2. formatters' = Head(queue).chain
    <2>1. PICK S : queue \in Seq(S)
      BY DEF ChainIInv, Shapes
    <2>2. 1 \in 1 .. Len(queue) /\ Head(queue) = queue[1]
      BY <1>1, <2>1, TailFacts
    <2>3. queue[1].chain = Apply(queue[1].op, queue[1].arg, Before(1))
      BY <2>2 DEF ChainIInv, QueueExpects
    <2> QED
      BY <2>2, <2>3 DEF RunBarrier, Before
  <1>3. /\ \E S : queue' \in Seq(S)
        /\ QueueExpects' /\ ReadersExpect' /\ ReadersOnce'
        /\ \A r : Waiting(r)' => Waiting(r)
    BY <1>1, <1>2, Dequeue
  <1>4. Shapes'
    BY <1>1, <1>3 DEF ChainIInv, Shapes
  <1>5. ReadersHaveMessages'
    BY <1>1, <1>3 DEF ChainIInv, ReadersHaveMessages, Busy
  <1>6. ChainAsRequested'
    BY <1>1 DEF ChainAsRequested
  <1> QED
    BY <1>3, <1>4, <1>5, <1>6 DEF ChainIInv

\* The first reader of the queue finds the chain that it expects.
LEMMA StartPreserves ==
    ASSUME ChainIInv, StartReading
    PROVE  ChainIInv'
  <1>1. /\ queue # <<>> /\ queue' = Tail(queue) /\ Head(queue).op = "read"
        /\ reading' = reading \cup {Head(queue).arg} /\ UNCHANGED <<formatters, expected, message>>
    BY DEF StartReading, history
  <1>2. PICK S : queue \in Seq(S)
    BY DEF ChainIInv, Shapes
  <1>3. Reads(1) /\ 1 \in 1 .. Len(queue) /\ Head(queue) = queue[1]
    BY <1>1, <1>2, TailFacts DEF Reads
  <1>4. formatters = Head(queue).chain
    <2>1. queue[1].chain = Apply("read", queue[1].arg, Before(1))
      BY <1>1, <1>3 DEF ChainIInv, QueueExpects
    <2> QED
      BY <1>3, <2>1 DEF Apply, Before
  <1>5. Head(queue).arg \in Readers /\ expected[Head(queue).arg] = formatters
    BY <1>3, <1>4 DEF ChainIInv, ReadersExpect
  <1>6. Waiting(Head(queue).arg)
    BY <1>1, <1>2, <1>3 DEF Waiting
  <1>7. /\ \E T : queue' \in Seq(T)
        /\ QueueExpects' /\ ReadersExpect' /\ ReadersOnce'
        /\ \A r : Waiting(r)' => Waiting(r)
    BY <1>1, <1>4, Dequeue
  <1>8. Shapes'
    BY <1>1, <1>5, <1>7 DEF ChainIInv, Shapes
  <1>9. ReadersHaveMessages'
    BY <1>1, <1>6, <1>7 DEF ChainIInv, ReadersHaveMessages, Busy
  <1>10. ChainAsRequested'
    BY <1>1, <1>5 DEF ChainIInv, ChainAsRequested
  <1> QED
    BY <1>7, <1>8, <1>9, <1>10 DEF ChainIInv

\* A reader that leaves is expected nowhere any more.
LEMMA LeavePreserves ==
    ASSUME ChainIInv, NEW r \in reading, UNCHANGED chain,
           reading' = reading \ {r},
           expected' = [expected EXCEPT ![r] = <<>>],
           message' \in [Loggers -> Messages \cup {None}],
           \A l \in Loggers : l # r => message'[l] = message[l]
    PROVE  ChainIInv'
  <1>1. r \in Readers /\ None \notin Readers
    BY FormatterAssumption DEF ChainIInv, Shapes
  <1>2. /\ \A s \in Readers \cup {None} : s # r => expected'[s] = expected[s]
        /\ expected' = [s \in Readers \cup {None} |-> expected'[s]]
    BY <1>1 DEF ChainIInv, Shapes
  <1>3. UNCHANGED <<formatters, queue>> /\ \A s : Waiting(s)' = Waiting(s)
    BY DEF chain, Waiting
  <1>4. Shapes'
    BY <1>1, <1>2, <1>3 DEF ChainIInv, Shapes
  <1>5. QueueExpects'
    BY <1>1, <1>2, <1>3 DEF ChainIInv, QueueExpects, Before
  <1>6. ReadersExpect' /\ ReadersOnce'
    BY <1>1, <1>2, <1>3 DEF ChainIInv, ReadersExpect, ReadersOnce, Reads
  <1>7. ~Waiting(r)
    <2>1. PICK S : queue \in Seq(S)
      BY DEF ChainIInv, Shapes
    <2> QED
      BY <2>1 DEF ChainIInv, ReadersExpect, Reads, Waiting
  <1>8. ReadersHaveMessages'
    BY <1>3, <1>7 DEF ChainIInv, ReadersHaveMessages, Busy
  <1>9. ChainAsRequested'
    BY <1>1, <1>2, <1>3 DEF ChainIInv, Shapes, ChainAsRequested
  <1> QED
    BY <1>4, <1>5, <1>6, <1>8, <1>9 DEF ChainIInv

\* What changes neither chain, readers nor expectations.
LEMMA MessageStepPreserves ==
    ASSUME ChainIInv, UNCHANGED <<chain, reading, expected>>,
           message' \in [Loggers -> Messages \cup {None}],
           \A l \in Loggers : message'[l] = None => message[l] = None
    PROVE  ChainIInv'
  <1>1. UNCHANGED <<formatters, queue, reading, expected>> /\ \A s : Busy(s)' = Busy(s)
    BY DEF chain, Busy, Waiting
  <1>2. Shapes'
    BY <1>1 DEF ChainIInv, Shapes
  <1>3. QueueExpects' /\ ReadersExpect' /\ ReadersOnce' /\ ChainAsRequested'
    BY <1>1 DEF ChainIInv, QueueExpects, Before, ReadersExpect, ReadersOnce, Reads, ChainAsRequested
  <1>4. ReadersHaveMessages'
    BY <1>1 DEF ChainIInv, ReadersHaveMessages
  <1> QED
    BY <1>2, <1>3, <1>4 DEF ChainIInv

LEMMA NextFormatterPreserves ==
    ASSUME ChainIInv, NEW l \in Loggers, NextFormatter(l)
    PROVE  ChainIInv'
  <1>1. l \in reading /\ message[l] \in Messages /\ message[l].line \in Lines
    <2>1. l \in reading /\ message[l] # None
      BY DEF NextFormatter, ChainIInv, ReadersHaveMessages, Busy
    <2>2. message[l] \in Messages
      BY <2>1 DEF ChainIInv, Shapes
    <2> QED
      BY <2>1, <2>2 DEF NextFormatter, Done, Messages
  <1> DEFINE f == formatters[message[l].next]
             m == [context |-> message[l].context, next |-> message[l].next + 1,
                   line |-> Formatted(f, message[l])]
  <1>2. Formatted(f, message[l]) \in Lines \cup {None}
    BY <1>1 DEF Formatted, logMessageForLine, Lines
  <1>3. m \in Messages
    BY <1>1, <1>2 DEF Messages
  <1>4. message' = [message EXCEPT ![l] = m]
    BY DEF NextFormatter
  <1>5. m # None
    BY <1>3, FormatterAssumption
  <1> HIDE DEF m
  <1>6. /\ message' \in [Loggers -> Messages \cup {None}]
        /\ \A k \in Loggers : message'[k] = None => message[k] = None
    BY <1>3, <1>4, <1>5 DEF ChainIInv, Shapes
  <1> QED
    BY <1>6, MessageStepPreserves DEF NextFormatter, history

LEMMA ChainInductive == ChainIInv /\ [Next]_vars => ChainIInv'
  <1> SUFFICES ASSUME ChainIInv, [Next]_vars PROVE ChainIInv'
    OBVIOUS
  <1>1. ASSUME NEW f \in Formatters, addFormatter(f) \/ removeFormatter(f)
        PROVE  ChainIInv'
    BY <1>1, ChangeChainPreserves DEF addFormatter, removeFormatter
  <1>2. ASSUME removeAllFormatters
        PROVE  ChainIInv'
    BY <1>2, ChangeChainPreserves DEF removeAllFormatters
  <1>3. ASSUME RunBarrier \/ StartReading
        PROVE  ChainIInv'
    BY <1>3, BarrierPreserves, StartPreserves
  <1>4. ASSUME NEW t \in Threads, AskForChain(t)
        PROVE  ChainIInv'
    BY <1>4, AskPreserves
  <1>5. ASSUME NEW t \in Threads, Answer(t)
        PROVE  ChainIInv'
    BY <1>5, LeavePreserves DEF Answer, ChainIInv, Shapes
  <1>6. ASSUME NEW l \in Loggers, NEW c \in Contexts, formatLogMessage(l, c)
        PROVE  ChainIInv'
    BY <1>6, FormatPreserves
  <1>7. ASSUME NEW l \in Loggers, NextFormatter(l)
        PROVE  ChainIInv'
    BY <1>7, NextFormatterPreserves
  <1>8. ASSUME NEW l \in Loggers, ReturnLine(l)
        PROVE  ChainIInv'
    <2>1. /\ message' \in [Loggers -> Messages \cup {None}]
          /\ \A k \in Loggers : k # l => message'[k] = message[k]
      BY <1>8 DEF ReturnLine, ChainIInv, Shapes
    <2> QED
      BY <1>8, <2>1, LeavePreserves DEF ReturnLine
  <1>9. ASSUME NEW f, NEW set, ChangeSet(f, set)
        PROVE  ChainIInv'
    BY <1>9, MessageStepPreserves DEF ChangeSet, ChainIInv, Shapes
  <1>10. ASSUME UNCHANGED vars
         PROVE  ChainIInv'
    BY <1>10, MessageStepPreserves DEF vars, history, ChainIInv, Shapes
  <1> QED
    BY <1>1, <1>2, <1>3, <1>4, <1>5, <1>6, <1>7, <1>8, <1>9, <1>10
       DEF Next, addToSet, removeFromSet

\* Every step keeps the invariant that relates the chain, the changes that wait and what
\* readers expect.
THEOREM ChainInvariance == Spec => []ChainIInv
  BY ChainInitial, ChainInductive, PTL DEF Spec

\* Whoever reads the chain sees exactly what was requested by the time it asked, for any
\* number of loggers, clients and changes that wait.
THEOREM ChainRead == Spec => []ChainAsRequested
  <1>1. ChainIInv => ChainAsRequested
    BY DEF ChainIInv
  <1> QED
    BY <1>1, ChainInvariance, PTL

-----------------------------------------------------------------------------
(* Of a sequence the elements in a set.                                      *)

\* A set of numbers has a least element.
Smaller == {p \in Nat \X Nat : p[1] < p[2]}
LEMMA LeastNat ==
    ASSUME NEW T, T \subseteq Nat, T # {}
    PROVE  \E x \in T : \A y \in T : x <= y
  <1>1. IsWellFoundedOn(Smaller, Nat)
    BY NatLessThanWellFounded, Zenon DEF OpToRel, Smaller
  <1>2. PICK x \in T : \A y \in T : ~(<<y, x>> \in Smaller)
    BY <1>1, WFMin, Zenon
  <1>3. \A y \in T : ~(y < x)
    BY <1>2 DEF Smaller
  <1> QED
    BY <1>3

\* What FirstIn(seq, S) is, up to the m-th element.
Extended(seq, S, s, n) == IF seq[n] \in S THEN Append(s, seq[n]) ELSE s
Selects(g, seq, S, m) ==
    g = [n \in 0 .. m |-> IF n = 0 THEN <<>> ELSE Extended(seq, S, g[n - 1], n)]

\* One element more.
LEMMA SelectsMore ==
    ASSUME NEW T, NEW seq \in Seq(T), NEW S, NEW m \in Nat, m < Len(seq),
           NEW g \in [0 .. m -> Seq(T)], Selects(g, seq, S, m)
    PROVE  \E h \in [0 .. m + 1 -> Seq(T)] : Selects(h, seq, S, m + 1)
  <1>1. PICK e : e = Extended(seq, S, g[m], m + 1)
    OBVIOUS
  <1>2. e \in Seq(T)
    BY <1>1 DEF Extended
  <1> DEFINE h == [n \in 0 .. m + 1 |-> IF n = m + 1 THEN e ELSE g[n]]
  <1>3. h \in [0 .. m + 1 -> Seq(T)]
    BY <1>2
  <1>4. \A n \in 0 .. m : h[n] = g[n]
    OBVIOUS
  <1>5. h[m + 1] = e
    OBVIOUS
  <1>6. \A n \in 0 .. m : g[n] = IF n = 0 THEN <<>> ELSE Extended(seq, S, g[n - 1], n)
    BY DEF Selects
  <1> HIDE DEF h
  <1>7. ASSUME NEW n \in 0 .. m + 1
        PROVE  h[n] = IF n = 0 THEN <<>> ELSE Extended(seq, S, h[n - 1], n)
    <2>1. CASE n = m + 1
      <3>1. n - 1 = m /\ n # 0 /\ h[m] = g[m]
        BY <1>4, <2>1
      <3> QED
        BY <1>1, <1>5, <2>1, <3>1
    <2>2. CASE n = 0
      BY <1>4, <1>6, <2>2
    <2>3. CASE n # 0 /\ n # m + 1
      <3>1. n \in 0 .. m /\ n - 1 \in 0 .. m
        BY <2>3
      <3>2. h[n] = g[n] /\ h[n - 1] = g[n - 1] /\ g[n] = Extended(seq, S, g[n - 1], n)
        BY <1>4, <1>6, <2>3, <3>1
      <3> QED
        BY <2>3, <3>2
    <2> QED
      BY <2>1, <2>2, <2>3
  <1>8. Selects(h, seq, S, m + 1)
    <2>1. h = [n \in 0 .. m + 1 |-> h[n]]
      BY <1>3
    <2> QED
      BY <1>7, <2>1 DEF Selects
  <1> QED
    BY <1>3, <1>8

\* There is such a function.
LEMMA SelectsExists ==
    ASSUME NEW T, NEW seq \in Seq(T), NEW S
    PROVE  \E g \in [0 .. Len(seq) -> Seq(T)] : Selects(g, seq, S, Len(seq))
  <1> DEFINE NoneFor(m) == ~ \E g \in [0 .. m -> Seq(T)] : Selects(g, seq, S, m)
             Bad == {m \in 0 .. Len(seq) : NoneFor(m)}
  <1>1. SUFFICES ASSUME Len(seq) \in Bad PROVE FALSE
    OBVIOUS
  <1>2. PICK x \in Bad : \A y \in Bad : x <= y
    <2>1. Bad \subseteq Nat /\ Bad # {}
      BY <1>1
    <2> QED
      BY <2>1, LeastNat
  <1>3. x # 0
    <2>1. PICK g : g = [n \in 0 .. 0 |-> <<>>]
      OBVIOUS
    <2>2. g \in [0 .. 0 -> Seq(T)]
      BY <2>1
    <2>3. Selects(g, seq, S, 0)
      BY <2>1 DEF Selects
    <2> QED
      BY <1>2, <2>2, <2>3
  <1>4. x - 1 \in Nat /\ x - 1 < Len(seq) /\ x - 1 \in 0 .. Len(seq) /\ ~NoneFor(x - 1)
    <2>1. x \in 0 .. Len(seq) /\ Len(seq) \in Nat /\ NoneFor(x)
      BY <1>2
    <2>2. x - 1 \in Nat /\ x - 1 < Len(seq) /\ x - 1 \in 0 .. Len(seq) /\ ~(x <= x - 1)
      BY <1>3, <2>1
    <2>3. x - 1 \notin Bad
      BY <1>2, <2>2
    <2> QED
      BY <2>2, <2>3
  <1>5. PICK g \in [0 .. x - 1 -> Seq(T)] : Selects(g, seq, S, x - 1)
    BY <1>4
  <1>6. PICK m \in Nat : m = x - 1
    BY <1>4
  <1>7. \E h \in [0 .. m + 1 -> Seq(T)] : Selects(h, seq, S, m + 1)
    <2>1. m < Len(seq) /\ g \in [0 .. m -> Seq(T)] /\ Selects(g, seq, S, m)
      BY <1>4, <1>5, <1>6
    <2> QED
      BY <2>1, SelectsMore
  <1> QED
    BY <1>2, <1>4, <1>6, <1>7

\* What FirstIn is for each number of elements.
LEMMA FirstInFacts ==
    ASSUME NEW T, NEW seq \in Seq(T), NEW S
    PROVE  /\ FirstIn(seq, S)[0] = <<>>
           /\ \A n \in 1 .. Len(seq) :
                 FirstIn(seq, S)[n] = Extended(seq, S, FirstIn(seq, S)[n - 1], n)
           /\ \A n \in 0 .. Len(seq) : FirstIn(seq, S)[n] \in Seq(T)
  <1>1. PICK g \in [0 .. Len(seq) -> Seq(T)] : Selects(g, seq, S, Len(seq))
    BY SelectsExists
  <1>2. FirstIn(seq, S) = CHOOSE h : Selects(h, seq, S, Len(seq))
    BY DEF FirstIn, Selects, Extended
  <1>3. Selects(FirstIn(seq, S), seq, S, Len(seq))
    BY <1>1, <1>2
  <1> DEFINE f == FirstIn(seq, S)
             Bad == {n \in 0 .. Len(seq) : f[n] \notin Seq(T)}
  <1>4. f[0] = <<>> /\ \A n \in 1 .. Len(seq) : f[n] = Extended(seq, S, f[n - 1], n)
    BY <1>3 DEF Selects
  <1> HIDE DEF f
  <1>5. Bad = {}
    <2>1. SUFFICES ASSUME Bad # {} PROVE FALSE
      OBVIOUS
    <2>2. PICK x \in Bad : \A y \in Bad : x <= y
      <3>1. Bad \subseteq Nat
        OBVIOUS
      <3> QED
        BY <2>1, <3>1, LeastNat
    <2>3. x # 0 /\ x \in 0 .. Len(seq) /\ f[x] \notin Seq(T)
      <3>1. f[0] \in Seq(T)
        BY <1>4
      <3> QED
        BY <2>2, <3>1
    <2>4. x - 1 \in 0 .. Len(seq) /\ ~(x <= x - 1)
      BY <2>3
    <2>5. f[x - 1] \in Seq(T)
      BY <2>2, <2>4
    <2>6. f[x] = Extended(seq, S, f[x - 1], x) /\ seq[x] \in T
      BY <1>4, <2>3
    <2> QED
      BY <2>3, <2>5, <2>6 DEF Extended
  <1> QED
    BY <1>4, <1>5 DEF f

-----------------------------------------------------------------------------
(* Lines and verdicts.                                                       *)

\* A message has not come further than through the chain that was asked for, and its
\* line has what the links so far wrote.
LinksApplied(l) ==
    /\ message[l].next <= Len(expected[l]) + 1
    /\ message[l].line # None =>
          message[l].line = FirstIn(expected[l], Writers)[message[l].next - 1]

\* What a filter would answer now is among its verdicts.
AnswersKnown(l) ==
    \A f \in Filters : Accepts(f, contextSet[f], message[l].context) \in verdicts[l][f]

\* A filter that the message has passed has accepted it, or one has rejected it.
Passed(l) == {f \in Filters : \E k \in 1 .. message[l].next - 1 : expected[l][k] = f}
VerdictsGiven(l) ==
    /\ message[l].line # None => \A f \in Passed(l) : TRUE \in verdicts[l][f]
    /\ message[l].line = None => \E f \in Passed(l) : FALSE \in verdicts[l][f]

Formatting(l) == LinksApplied(l) /\ AnswersKnown(l) /\ VerdictsGiven(l)
FormatIInv ==
    /\ TypeOK
    /\ \A l \in Loggers : message[l] # None => Formatting(l)

LEMMA FormatInitial == Init => FormatIInv
  <1> SUFFICES ASSUME Init PROVE FormatIInv
    OBVIOUS
  <1>1. /\ \A l \in Loggers : message[l] = None /\ ~Busy(l)
        /\ message \in [Loggers -> Messages \cup {None}]
    BY DEF Init, Busy, Waiting
  <1>2. TypeOK
    BY <1>1 DEF Init, TypeOK, NoVerdicts
  <1> QED
    BY <1>1, <1>2 DEF FormatIInv

\* Nothing of what concerns a logger changes.
LEMMA SameFormatting ==
    ASSUME NEW l \in Loggers, Formatting(l), UNCHANGED contextSet,
           message'[l] = message[l], expected'[l] = expected[l], verdicts'[l] = verdicts[l]
    PROVE  Formatting(l)'
  BY DEF Formatting, LinksApplied, AnswersKnown, Passed, VerdictsGiven

-----------------------------------------------------------------------------
(* Types.                                                                    *)

LEMMA ApplyTyped ==
    ASSUME NEW op \in {"add", "remove", "clear", "read"}, NEW f, op = "add" => f \in Formatters,
           NEW seq \in Seq(Formatters)
    PROVE  Apply(op, f, seq) \in Seq(Formatters)
  <1>1. removeObject(f, seq) \in Seq(Formatters)
    <2>1. Len(seq) \in 0 .. Len(seq)
      OBVIOUS
    <2>2. FirstIn(seq, Formatters \ {f})[Len(seq)] \in Seq(Formatters)
      BY <2>1, FirstInFacts
    <2> QED
      BY <2>2 DEF removeObject, Only
  <1> QED
    BY <1>1 DEF Apply

\* A new block of the queue.
LEMMA EnqueueTyped ==
    ASSUME TypeOK, NEW b \in Blocks, queue' = Append(queue, b)
    PROVE  /\ queue' \in Seq(Blocks)
           /\ \A r : Waiting(r)' <=> (Waiting(r) \/ (b.op = "read" /\ b.arg = r))
  <1>1. queue \in Seq(Blocks)
    BY DEF TypeOK
  <1>2. /\ queue' \in Seq(Blocks)
        /\ DOMAIN queue = 1 .. Len(queue) /\ DOMAIN queue' = 1 .. Len(queue) + 1
        /\ Len(queue) \in Nat
        /\ \A i \in 1 .. Len(queue) : queue'[i] = queue[i]
        /\ queue'[Len(queue) + 1] = b
    BY <1>1
  <1> QED
    BY <1>2 DEF Waiting

\* The first block leaves the queue.
LEMMA DequeueTyped ==
    ASSUME TypeOK, queue # <<>>, queue' = Tail(queue)
    PROVE  /\ queue' \in Seq(Blocks) /\ Head(queue) \in Blocks
           /\ \A r : Waiting(r) <=> (Waiting(r)' \/ (Head(queue).op = "read" /\ Head(queue).arg = r))
  <1>1. queue \in Seq(Blocks)
    BY DEF TypeOK
  <1>2. /\ queue' \in Seq(Blocks) /\ Head(queue) \in Blocks
        /\ DOMAIN queue = 1 .. Len(queue) /\ DOMAIN queue' = 1 .. Len(queue) - 1
        /\ Len(queue) \in Nat \ {0}
        /\ \A i \in 1 .. Len(queue) - 1 : queue'[i] = queue[i + 1]
        /\ Head(queue) = queue[1]
    BY <1>1
  <1>3. \A r, i : i \in 1 .. Len(queue) /\ i # 1 => i - 1 \in 1 .. Len(queue) - 1 /\ queue'[i - 1] = queue[i]
    BY <1>2
  <1>4. \A r : Waiting(r)' => Waiting(r)
    BY <1>2 DEF Waiting
  <1>5. ASSUME NEW r, Waiting(r)
        PROVE  Waiting(r)' \/ (Head(queue).op = "read" /\ Head(queue).arg = r)
    BY <1>2, <1>3, <1>5 DEF Waiting
  <1>6. \A r : Head(queue).op = "read" /\ Head(queue).arg = r => Waiting(r)
    BY <1>2 DEF Waiting
  <1> QED
    BY <1>2, <1>4, <1>5, <1>6, Zenon

LEMMA ChangeChainFormats ==
    ASSUME ChainIInv, FormatIInv, NEW op \in {"add", "remove", "clear"},
           NEW f \in Formatters \cup {None}, op = "add" => f \in Formatters, ChangeChain(op, f)
    PROVE  FormatIInv'
  <1>1. None \notin Readers
    BY FormatterAssumption
  <1>2. expected[None] \in Seq(Formatters)
    BY DEF FormatIInv, TypeOK
  <1>3. PICK s \in Seq(Formatters) : s = Apply(op, f, expected[None])
    BY <1>2, ApplyTyped
  <1>4. /\ expected' = [expected EXCEPT ![None] = s]
        /\ UNCHANGED <<formatters, reading, message, contextSet, verdicts>>
    BY <1>3 DEF ChangeChain
  <1>5. /\ expected' \in [Readers \cup {None} -> Seq(Formatters)] /\ expected'[None] = s
        /\ \A r \in Readers : expected'[r] = expected[r]
    BY <1>1, <1>4 DEF FormatIInv, TypeOK
  <1>6. PICK b \in Blocks : b.op = op /\ queue' = Append(queue, b)
    <2>1. [op |-> op, arg |-> f, chain |-> s] \in Blocks
      BY DEF Blocks
    <2>2. queue' = Append(queue, [op |-> op, arg |-> f, chain |-> s])
      BY <1>5 DEF ChangeChain
    <2> QED
      BY <2>1, <2>2
  <1>7. queue' \in Seq(Blocks) /\ \A r : Waiting(r)' <=> Waiting(r)
    BY <1>6, EnqueueTyped DEF FormatIInv
  <1>8. TypeOK'
    BY <1>4, <1>5, <1>7 DEF FormatIInv, TypeOK, Busy
  <1>9. \A l \in Loggers : message'[l] # None => Formatting(l)'
    BY <1>4, <1>5, SameFormatting DEF FormatIInv, Readers
  <1> QED
    BY <1>8, <1>9 DEF FormatIInv

\* A reader asks that was not busy.
LEMMA ReadChainTyped ==
    ASSUME TypeOK, NEW r \in Readers, ReadChain(r)
    PROVE  /\ queue' \in Seq(Blocks)
           /\ expected' \in [Readers \cup {None} -> Seq(Formatters)]
           /\ \A s \in Readers : s # r => expected'[s] = expected[s]
           /\ expected'[r] = expected[None]
           /\ \A s : Waiting(s)' <=> (Waiting(s) \/ s = r)
  <1>1. expected[None] \in Seq(Formatters)
    BY DEF TypeOK
  <1>2. /\ expected' \in [Readers \cup {None} -> Seq(Formatters)]
        /\ \A s \in Readers : s # r => expected'[s] = expected[s]
        /\ expected'[r] = expected[None]
    BY <1>1 DEF TypeOK, ReadChain
  <1>3. PICK b \in Blocks : b.op = "read" /\ b.arg = r /\ queue' = Append(queue, b)
    <2>1. [op |-> "read", arg |-> r, chain |-> expected[None]] \in Blocks
      BY <1>1 DEF Blocks
    <2> QED
      BY <2>1 DEF ReadChain
  <1>4. queue' \in Seq(Blocks) /\ \A s : Waiting(s)' <=> (Waiting(s) \/ (b.op = "read" /\ b.arg = s))
    BY <1>3, EnqueueTyped
  <1> QED
    BY <1>2, <1>3, <1>4

LEMMA AskFormats ==
    ASSUME ChainIInv, FormatIInv, NEW t \in Threads, AskForChain(t)
    PROVE  FormatIInv'
  <1>1. t \in Readers /\ t \notin Loggers /\ UNCHANGED <<formatters, reading, message, contextSet, verdicts>>
    BY FormatterAssumption DEF Readers, AskForChain
  <1>2. /\ queue' \in Seq(Blocks)
        /\ expected' \in [Readers \cup {None} -> Seq(Formatters)]
        /\ \A s \in Readers : s # t => expected'[s] = expected[s]
        /\ \A s : Waiting(s)' <=> (Waiting(s) \/ s = t)
    BY <1>1, ReadChainTyped DEF AskForChain, FormatIInv
  <1>3. TypeOK'
    BY <1>1, <1>2 DEF FormatIInv, TypeOK, Busy
  <1>4. \A l \in Loggers : message'[l] # None => Formatting(l)'
    BY <1>1, <1>2, SameFormatting DEF FormatIInv, Readers
  <1> QED
    BY <1>3, <1>4 DEF FormatIInv

LEMMA BarrierFormats ==
    ASSUME ChainIInv, FormatIInv, RunBarrier
    PROVE  FormatIInv'
  <1>1. /\ queue # <<>> /\ queue' = Tail(queue) /\ Head(queue).op # "read"
        /\ UNCHANGED <<reading, message, contextSet, expected, verdicts>>
    BY DEF RunBarrier, BarrierMayRun, history
  <1>2. /\ queue' \in Seq(Blocks)
        /\ \A r : Waiting(r) <=> (Waiting(r)' \/ (Head(queue).op = "read" /\ Head(queue).arg = r))
    BY <1>1, DequeueTyped DEF FormatIInv
  <1>3. formatters' \in Seq(Formatters)
    <2>1. queue \in Seq(Blocks) /\ 1 \in 1 .. Len(queue) /\ Head(queue) = queue[1] /\ queue[1] \in Blocks
      BY <1>1 DEF FormatIInv, TypeOK
    <2>2. queue[1].chain = Apply(queue[1].op, queue[1].arg, formatters)
      BY <2>1 DEF ChainIInv, QueueExpects, Before
    <2>3. queue[1].chain \in Seq(Formatters)
      BY <2>1 DEF Blocks
    <2> QED
      BY <2>1, <2>2, <2>3 DEF RunBarrier
  <1>4. TypeOK'
    BY <1>1, <1>2, <1>3 DEF FormatIInv, TypeOK, Busy
  <1>5. \A l \in Loggers : message'[l] # None => Formatting(l)'
    BY <1>1, SameFormatting DEF FormatIInv
  <1> QED
    BY <1>4, <1>5 DEF FormatIInv

LEMMA StartFormats ==
    ASSUME ChainIInv, FormatIInv, StartReading
    PROVE  FormatIInv'
  <1>1. /\ queue # <<>> /\ queue' = Tail(queue) /\ Head(queue).op = "read"
        /\ reading' = reading \cup {Head(queue).arg}
        /\ UNCHANGED <<formatters, message, contextSet, expected, verdicts>>
    BY DEF StartReading, history
  <1>2. /\ queue' \in Seq(Blocks)
        /\ \A r : Waiting(r) <=> (Waiting(r)' \/ (Head(queue).op = "read" /\ Head(queue).arg = r))
    BY <1>1, DequeueTyped DEF FormatIInv
  <1>3. Head(queue).arg \in Readers
    <2>1. queue \in Seq(Blocks) /\ 1 \in 1 .. Len(queue) /\ Head(queue) = queue[1]
      BY <1>1 DEF FormatIInv, TypeOK
    <2> QED
      BY <1>1, <2>1 DEF ChainIInv, ReadersExpect, Reads
  <1>4. \A r : Busy(r)' <=> Busy(r)
    BY <1>1, <1>2 DEF Busy
  <1>5. TypeOK'
    BY <1>1, <1>2, <1>3, <1>4 DEF FormatIInv, TypeOK
  <1>6. \A l \in Loggers : message'[l] # None => Formatting(l)'
    BY <1>1, SameFormatting DEF FormatIInv
  <1> QED
    BY <1>5, <1>6 DEF FormatIInv

\* A reader leaves; if it is a logger, without its message.
LEMMA LeaveFormats ==
    ASSUME ChainIInv, FormatIInv, NEW r \in reading, UNCHANGED <<chain, contextSet>>,
           reading' = reading \ {r}, expected' = [expected EXCEPT ![r] = <<>>],
           message' \in [Loggers -> Messages \cup {None}],
           verdicts' \in [Loggers -> [Filters -> SUBSET BOOLEAN]],
           r \in Loggers => message'[r] = None,
           \A l \in Loggers : l # r => message'[l] = message[l] /\ verdicts'[l] = verdicts[l]
    PROVE  FormatIInv'
  <1>1. r \in Readers /\ UNCHANGED <<formatters, queue>> /\ \A s : Waiting(s)' = Waiting(s)
    BY DEF ChainIInv, Shapes, chain, Waiting
  <1>2. /\ expected' \in [Readers \cup {None} -> Seq(Formatters)]
        /\ \A s \in Readers : s # r => expected'[s] = expected[s]
    BY <1>1 DEF FormatIInv, TypeOK
  <1>3. ~Waiting(r)
    <2>1. queue \in Seq(Blocks)
      BY DEF FormatIInv, TypeOK
    <2> QED
      BY <2>1 DEF ChainIInv, ReadersExpect, Reads, Waiting
  <1>4. \A l \in Loggers : message'[l] # None <=> Busy(l)'
    BY <1>1, <1>3 DEF Busy, FormatIInv, TypeOK
  <1>5. TypeOK'
    BY <1>1, <1>2, <1>4 DEF FormatIInv, TypeOK
  <1>6. \A l \in Loggers : message'[l] # None => Formatting(l)'
    BY <1>2, SameFormatting DEF FormatIInv, Readers
  <1> QED
    BY <1>5, <1>6 DEF FormatIInv

LEMMA AcceptsBoolean ==
    ASSUME NEW f, NEW set, NEW c
    PROVE  Accepts(f, set, c) \in BOOLEAN
  BY DEF Accepts

\* A message that has just come has passed nothing.
LEMMA FormatFormats ==
    ASSUME ChainIInv, FormatIInv, NEW l \in Loggers, NEW c \in Contexts, formatLogMessage(l, c)
    PROVE  FormatIInv'
  <1>1. l \in Readers /\ message[l] = None /\ UNCHANGED <<formatters, reading, contextSet>>
    BY DEF Readers, formatLogMessage
  <1>2. /\ queue' \in Seq(Blocks)
        /\ expected' \in [Readers \cup {None} -> Seq(Formatters)]
        /\ \A s \in Readers : s # l => expected'[s] = expected[s]
        /\ expected'[l] = expected[None]
        /\ \A s : Waiting(s)' <=> (Waiting(s) \/ s = l)
    BY <1>1, ReadChainTyped DEF formatLogMessage, FormatIInv
  <1>3. PICK m \in Messages : m = [context |-> c, next |-> 1, line |-> <<>>]
    <2>1. [context |-> c, next |-> 1, line |-> <<>>] \in Messages
      BY DEF Messages, Lines
    <2> QED
      BY <2>1
  <1>4. PICK v \in [Filters -> SUBSET BOOLEAN] : v = [f \in Filters |-> {Accepts(f, contextSet[f], c)}]
    BY AcceptsBoolean
  <1>5. m # None /\ m.line # None
    <2>1. <<>> \in Lines
      BY DEF Lines
    <2> QED
      BY <1>3, <2>1, FormatterAssumption
  <1>6. message' = [message EXCEPT ![l] = m] /\ verdicts' = [verdicts EXCEPT ![l] = v]
    BY <1>3, <1>4 DEF formatLogMessage
  <1>7. /\ message' \in [Loggers -> Messages \cup {None}] /\ message'[l] = m
        /\ verdicts' \in [Loggers -> [Filters -> SUBSET BOOLEAN]] /\ verdicts'[l] = v
        /\ \A k \in Loggers : k # l => message'[k] = message[k] /\ verdicts'[k] = verdicts[k]
    BY <1>6 DEF FormatIInv, TypeOK
  <1>8. TypeOK'
    <2>1. \A k \in Loggers : message'[k] # None <=> Busy(k)'
      BY <1>1, <1>2, <1>5, <1>7 DEF FormatIInv, TypeOK, Busy
    <2> QED
      BY <1>1, <1>2, <1>7, <2>1 DEF FormatIInv, TypeOK
  <1>9. Formatting(l)'
    <2>1. LinksApplied(l)'
      <3>1. PICK s \in Seq(Formatters) : s = expected'[l]
        BY <1>1, <1>2
      <3>2. FirstIn(s, Writers)[0] = <<>>
        BY FirstInFacts
      <3>3. Len(s) \in Nat /\ m.next = 1 /\ m.line = <<>>
        BY <1>3
      <3> QED
        BY <1>7, <3>1, <3>2, <3>3 DEF LinksApplied
    <2>2. AnswersKnown(l)'
      BY <1>1, <1>3, <1>4, <1>7 DEF AnswersKnown
    <2>3. VerdictsGiven(l)'
      BY <1>3, <1>5, <1>7 DEF VerdictsGiven, Passed
    <2> QED
      BY <2>1, <2>2, <2>3 DEF Formatting
  <1>10. \A k \in Loggers : message'[k] # None => Formatting(k)'
    BY <1>1, <1>2, <1>7, <1>9, SameFormatting DEF FormatIInv, Readers
  <1> QED
    BY <1>8, <1>10 DEF FormatIInv

\* One link: what it returns for the line so far, and what its verdict was.
LEMMA LinkReturns ==
    ASSUME NEW f \in Formatters, NEW m \in Messages, m.line \in Lines
    PROVE  /\ Formatted(f, m) \in Lines \cup {None}
           /\ f \in Writers => f \notin Filters /\ Formatted(f, m) = Append(m.line, f)
           /\ f \notin Writers => f \in Filters
           /\ f \notin Writers /\ Accepts(f, contextSet[f], m.context) => Formatted(f, m) = m.line
           /\ f \notin Writers /\ ~Accepts(f, contextSet[f], m.context) => Formatted(f, m) = None
  BY FormatterAssumption DEF Formatted, logMessageForLine, Formatters, Lines

LEMMA NextFormatterFormats ==
    ASSUME ChainIInv, FormatIInv, NEW l \in Loggers, NextFormatter(l)
    PROVE  FormatIInv'
  <1>1. PICK s \in Seq(Formatters) : s = expected[l] /\ s = formatters
    BY DEF NextFormatter, ChainIInv, ChainAsRequested, FormatIInv, TypeOK
  <1>2. PICK m \in Messages : m = message[l] /\ m # None
    BY DEF NextFormatter, FormatIInv, TypeOK, Busy
  <1>3. m.next \in 1 .. Len(s) /\ m.line \in Lines /\ Len(s) \in Nat /\ m.line # None
    BY <1>1, <1>2 DEF NextFormatter, Done, Messages
  <1>4. PICK f \in Formatters : f = s[m.next]
    BY <1>3
  <1>5. PICK x \in Lines \cup {None} : x = Formatted(f, m)
    BY <1>2, <1>3, LinkReturns
  <1>6. PICK w \in Messages : w = [context |-> m.context, next |-> m.next + 1, line |-> x]
    <2>1. [context |-> m.context, next |-> m.next + 1, line |-> x] \in Messages
      BY <1>2 DEF Messages
    <2> QED
      BY <2>1
  <1>7. /\ message' = [message EXCEPT ![l] = w]
        /\ UNCHANGED <<formatters, queue, reading, contextSet, expected, verdicts>>
    BY <1>1, <1>2, <1>4, <1>5, <1>6 DEF NextFormatter, chain, history
  <1>8. /\ message' \in [Loggers -> Messages \cup {None}] /\ message'[l] = w /\ w # None
        /\ \A k \in Loggers : k # l => message'[k] = message[k]
    BY <1>6, <1>7, FormatterAssumption DEF FormatIInv, TypeOK
  <1>9. TypeOK'
    BY <1>2, <1>7, <1>8 DEF FormatIInv, TypeOK, Busy, Waiting
  <1>10. Formatting(l)
    BY <1>2 DEF FormatIInv
  <1>11. Formatting(l)'
    <2>1. m.next \in Nat \ {0} /\ w.next = m.next + 1 /\ w.line = x /\ w.context = m.context
      BY <1>3, <1>6
    <2>2. LinksApplied(l)'
      <3>1. PICK g : g = FirstIn(s, Writers)
        OBVIOUS
      <3>2. m.line = g[m.next - 1]
        BY <1>1, <1>2, <1>3, <1>10, <3>1 DEF Formatting, LinksApplied
      <3>3. g[m.next] = Extended(s, Writers, g[m.next - 1], m.next)
        BY <1>3, <3>1, FirstInFacts
      <3>4. x # None => x = g[m.next]
        <4>1. CASE f \in Writers
          BY <1>2, <1>3, <1>4, <1>5, <3>2, <3>3, <4>1, LinkReturns DEF Extended
        <4>2. CASE f \notin Writers
          BY <1>2, <1>3, <1>4, <1>5, <3>2, <3>3, <4>2, LinkReturns DEF Extended
        <4> QED
          BY <4>1, <4>2
      <3>5. w.next <= Len(s) + 1 /\ w.next - 1 = m.next
        BY <1>3, <2>1
      <3> QED
        BY <1>1, <1>7, <1>8, <2>1, <3>1, <3>4, <3>5 DEF LinksApplied
    <2>3. AnswersKnown(l)'
      BY <1>2, <1>7, <1>8, <1>10, <2>1 DEF Formatting, AnswersKnown
    <2>4. VerdictsGiven(l)'
      <3>1. \A k : k \in 1 .. w.next - 1 <=> k \in 1 .. m.next - 1 \/ k = m.next
        BY <2>1
      <3>2. \A h \in Filters : h \in Passed(l)' <=> h \in Passed(l) \/ h = f
        BY <1>1, <1>2, <1>4, <1>7, <1>8, <3>1 DEF Passed
      <3>3. \A h \in Passed(l) : TRUE \in verdicts[l][h]
        BY <1>2, <1>3, <1>10 DEF Formatting, VerdictsGiven
      <3>4. f \in Filters => Accepts(f, contextSet[f], m.context) \in verdicts[l][f]
        BY <1>2, <1>10 DEF Formatting, AnswersKnown
      <3>5. CASE f \in Writers
        <4>1. x # None
          <5>1. x = Append(m.line, f)
            BY <1>3, <1>5, <3>5, LinkReturns
          <5>2. Append(m.line, f) \in Lines
            BY <1>3, <3>5 DEF Lines
          <5> QED
            BY <5>1, <5>2, FormatterAssumption
        <4>2. f \notin Filters
          BY <1>2, <1>3, <3>5, LinkReturns
        <4>3. \A h \in Passed(l)' : h \in Passed(l)
          BY <3>2, <4>2 DEF Passed
        <4> QED
          BY <1>7, <1>8, <2>1, <3>3, <4>1, <4>3 DEF VerdictsGiven
      <3>6. CASE f \notin Writers /\ Accepts(f, contextSet[f], m.context)
        <4>1. f \in Filters /\ x = m.line /\ x # None
          BY <1>2, <1>3, <1>5, <3>6, LinkReturns
        <4>2. TRUE \in verdicts[l][f]
          <5>1. Accepts(f, contextSet[f], m.context) = TRUE
            BY <3>6, AcceptsBoolean
          <5> QED
            BY <3>4, <4>1, <5>1, Zenon
        <4>3. \A h \in Passed(l)' : h \in Passed(l) \/ h = f
          BY <3>2 DEF Passed
        <4> QED
          BY <1>7, <1>8, <2>1, <3>3, <4>1, <4>2, <4>3 DEF VerdictsGiven
      <3>7. CASE f \notin Writers /\ ~Accepts(f, contextSet[f], m.context)
        <4>1. f \in Filters /\ x = None
          BY <1>2, <1>3, <1>5, <3>7, LinkReturns
        <4>2. FALSE \in verdicts[l][f]
          <5>1. Accepts(f, contextSet[f], m.context) = FALSE
            BY <3>7, AcceptsBoolean
          <5> QED
            BY <3>4, <4>1, <5>1, Zenon
        <4>3. f \in Passed(l)'
          BY <3>2, <4>1
        <4> QED
          BY <1>7, <1>8, <2>1, <4>1, <4>2, <4>3 DEF VerdictsGiven
      <3> QED
        BY <3>5, <3>6, <3>7
    <2> QED
      BY <2>2, <2>3, <2>4 DEF Formatting
  <1>12. \A k \in Loggers : message'[k] # None => Formatting(k)'
    BY <1>7, <1>8, <1>11, SameFormatting DEF FormatIInv
  <1> QED
    BY <1>9, <1>12 DEF FormatIInv

LEMMA ReturnLineFormats ==
    ASSUME ChainIInv, FormatIInv, NEW l \in Loggers, ReturnLine(l)
    PROVE  FormatIInv'
  <1>1. NoVerdicts \in [Filters -> SUBSET BOOLEAN]
    BY DEF NoVerdicts
  <1>2. /\ message' \in [Loggers -> Messages \cup {None}] /\ message'[l] = None
        /\ verdicts' \in [Loggers -> [Filters -> SUBSET BOOLEAN]]
        /\ \A k \in Loggers : k # l => message'[k] = message[k] /\ verdicts'[k] = verdicts[k]
    BY <1>1 DEF ReturnLine, FormatIInv, TypeOK
  <1> QED
    BY <1>2, LeaveFormats DEF ReturnLine

\* A filter adds its new verdict, also on messages that it has had already.
LEMMA ChangeSetFormats ==
    ASSUME ChainIInv, FormatIInv, NEW f \in Filters, NEW set \in SUBSET Contexts, ChangeSet(f, set)
    PROVE  FormatIInv'
  <1>1. /\ UNCHANGED <<formatters, queue, reading, message, expected>>
        /\ contextSet' = [contextSet EXCEPT ![f] = set]
    BY DEF ChangeSet, chain
  <1>2. /\ contextSet' \in [Filters -> SUBSET Contexts] /\ contextSet'[f] = set
        /\ \A h \in Filters : h # f => contextSet'[h] = contextSet[h]
    BY <1>1 DEF FormatIInv, TypeOK
  <1>3. ASSUME NEW l \in Loggers
        PROVE  /\ verdicts'[l] \in [Filters -> SUBSET BOOLEAN]
               /\ \A h \in Filters : verdicts[l][h] \subseteq verdicts'[l][h]
               /\ message[l] # None => Accepts(f, set, message[l].context) \in verdicts'[l][f]
               /\ message[l] # None => \A h \in Filters : h # f => verdicts'[l][h] = verdicts[l][h]
    <2>1. PICK a \in BOOLEAN : a = Accepts(f, set, message[l].context)
      BY AcceptsBoolean
    <2>2. verdicts[l] \in [Filters -> SUBSET BOOLEAN]
      BY DEF FormatIInv, TypeOK
    <2>3. verdicts'[l] = IF message[l] = None THEN verdicts[l]
                         ELSE [verdicts[l] EXCEPT ![f] = @ \cup {a}]
      BY <2>1 DEF ChangeSet
    <2> QED
      BY <2>1, <2>2, <2>3
  <1>4. TypeOK'
    <2>1. verdicts' \in [Loggers -> [Filters -> SUBSET BOOLEAN]]
      <3>1. verdicts' = [l \in Loggers |-> verdicts'[l]]
        BY DEF ChangeSet
      <3> QED
        BY <1>3, <3>1
    <2> QED
      BY <1>1, <1>2, <2>1 DEF FormatIInv, TypeOK, Busy, Waiting
  <1>5. ASSUME NEW l \in Loggers, message[l] # None
        PROVE  Formatting(l)'
    <2>1. Formatting(l)
      BY <1>5 DEF FormatIInv
    <2>2. LinksApplied(l)'
      BY <1>1, <2>1 DEF Formatting, LinksApplied
    <2>3. AnswersKnown(l)'
      BY <1>1, <1>2, <1>3, <1>5, <2>1 DEF Formatting, AnswersKnown
    <2>4. Passed(l)' = Passed(l) /\ Passed(l) \subseteq Filters
      BY <1>1 DEF Passed
    <2>5. VerdictsGiven(l)'
      BY <1>1, <1>3, <2>1, <2>4 DEF Formatting, VerdictsGiven
    <2> QED
      BY <2>2, <2>3, <2>5 DEF Formatting
  <1> QED
    BY <1>1, <1>4, <1>5 DEF FormatIInv

-----------------------------------------------------------------------------
(* The theorems.                                                             *)

LEMMA FormatInductive == ChainIInv /\ FormatIInv /\ [Next]_vars => FormatIInv'
  <1> SUFFICES ASSUME ChainIInv, FormatIInv, [Next]_vars PROVE FormatIInv'
    OBVIOUS
  <1>1. ASSUME NEW f \in Formatters, addFormatter(f) \/ removeFormatter(f)
        PROVE  FormatIInv'
    BY <1>1, ChangeChainFormats DEF addFormatter, removeFormatter
  <1>2. ASSUME removeAllFormatters
        PROVE  FormatIInv'
    BY <1>2, ChangeChainFormats DEF removeAllFormatters
  <1>3. ASSUME RunBarrier \/ StartReading
        PROVE  FormatIInv'
    BY <1>3, BarrierFormats, StartFormats
  <1>4. ASSUME NEW t \in Threads, AskForChain(t)
        PROVE  FormatIInv'
    BY <1>4, AskFormats
  <1>5. ASSUME NEW t \in Threads, Answer(t)
        PROVE  FormatIInv'
    <2>1. t \notin Loggers
      BY FormatterAssumption
    <2> QED
      BY <1>5, <2>1, LeaveFormats DEF Answer, FormatIInv, TypeOK
  <1>6. ASSUME NEW l \in Loggers, NEW c \in Contexts, formatLogMessage(l, c)
        PROVE  FormatIInv'
    BY <1>6, FormatFormats
  <1>7. ASSUME NEW l \in Loggers, NextFormatter(l) \/ ReturnLine(l)
        PROVE  FormatIInv'
    BY <1>7, NextFormatterFormats, ReturnLineFormats
  <1>8. ASSUME NEW f \in Filters, NEW c \in Contexts, addToSet(f, c) \/ removeFromSet(f, c)
        PROVE  FormatIInv'
    <2>1. contextSet[f] \cup {c} \in SUBSET Contexts /\ contextSet[f] \ {c} \in SUBSET Contexts
      BY DEF FormatIInv, TypeOK
    <2> QED
      BY <1>8, <2>1, ChangeSetFormats DEF addToSet, removeFromSet
  <1>9. ASSUME UNCHANGED vars
        PROVE  FormatIInv'
    <2>1. UNCHANGED <<formatters, queue, reading, message, contextSet, expected, verdicts>>
      BY <1>9 DEF vars, chain, history
    <2>2. TypeOK'
      BY <2>1 DEF FormatIInv, TypeOK, Busy, Waiting
    <2> QED
      BY <2>1, <2>2, SameFormatting DEF FormatIInv
  <1> QED
    BY <1>1, <1>2, <1>3, <1>4, <1>5, <1>6, <1>7, <1>8, <1>9 DEF Next

\* Every step keeps the types and what ties lines and verdicts to the links a message has
\* passed.
THEOREM FormatInvariance == Spec => []FormatIInv
  BY FormatInitial, FormatInductive, ChainInvariance, PTL DEF Spec

\* The links a logger whose message is through has passed.
LEMMA AllPassed ==
    ASSUME ChainIInv, FormatIInv, NEW l \in Loggers, Returns(l)
    PROVE  /\ expected[l] \in Seq(Formatters) /\ Formatting(l)
           /\ message[l].line # None => message[l].next = Len(expected[l]) + 1
           /\ Passed(l) \subseteq ToSet(expected[l]) \cap Filters
           /\ message[l].line # None => Passed(l) = ToSet(expected[l]) \cap Filters
  <1>1. PICK s \in Seq(Formatters) : s = expected[l] /\ s = formatters
    BY DEF Returns, ChainIInv, ChainAsRequested, FormatIInv, TypeOK
  <1>2. Formatting(l) /\ message[l] \in Messages
    BY DEF Returns, FormatIInv, TypeOK, Busy
  <1>3. message[l].next \in Nat \ {0} /\ message[l].next <= Len(s) + 1 /\ Len(s) \in Nat
    BY <1>1, <1>2 DEF Formatting, LinksApplied, Messages
  <1>4. message[l].line # None => message[l].next = Len(s) + 1
    BY <1>1, <1>3 DEF Returns, Done
  <1>5. ToSet(s) = {s[k] : k \in 1 .. Len(s)}
    BY DEF ToSet
  <1>6. Passed(l) \subseteq ToSet(s) \cap Filters
    BY <1>1, <1>3, <1>5 DEF Passed
  <1>7. message[l].line # None => ToSet(s) \cap Filters \subseteq Passed(l)
    <2> SUFFICES ASSUME message[l].line # None, NEW f \in ToSet(s) \cap Filters
                 PROVE  f \in Passed(l)
      OBVIOUS
    <2>1. PICK k \in 1 .. Len(s) : s[k] = f
      BY <1>5
    <2>2. k \in 1 .. message[l].next - 1
      BY <1>3, <1>4
    <2> QED
      BY <1>1, <2>1, <2>2 DEF Passed
  <1> QED
    BY <1>1, <1>2, <1>4, <1>6, <1>7

\* A line that comes out has what each formatter of the chain that was asked for writes,
\* once and in order, for chains of any length that change in any way meanwhile.
THEOREM LineCorrect == Spec => []WholeChainApplied
  <1>1. ChainIInv /\ FormatIInv => WholeChainApplied
    <2> SUFFICES ASSUME ChainIInv, FormatIInv, NEW l \in Loggers,
                        Returns(l), message[l].line # None
                 PROVE  message[l].line = Only(expected[l], Writers)
      BY DEF WholeChainApplied
    <2>1. message[l].next - 1 = Len(expected[l]) /\ Formatting(l)
      BY AllPassed
    <2> QED
      BY <2>1 DEF Formatting, LinksApplied, Only
  <1> QED
    BY <1>1, ChainInvariance, FormatInvariance, PTL

\* A message that comes out was accepted by every filter of the chain since the logger
\* asked, and one that is dropped was rejected by one, however the sets of the filters
\* change meanwhile.
THEOREM VerdictCorrect == Spec => []VerdictJustified
  <1>1. ChainIInv /\ FormatIInv => VerdictJustified
    <2> SUFFICES ASSUME ChainIInv, FormatIInv, NEW l \in Loggers, Returns(l)
                 PROVE  LET filters == ToSet(expected[l]) \cap Filters
                        IN  IF message[l].line # None THEN \A f \in filters : TRUE \in verdicts[l][f]
                            ELSE \E f \in filters : FALSE \in verdicts[l][f]
      BY DEF VerdictJustified
    <2> QED
      BY AllPassed DEF Formatting, VerdictsGiven
  <1> QED
    BY <1>1, ChainInvariance, FormatInvariance, PTL
=============================================================================
