-------------------------- MODULE DDMultiFormatter --------------------------
(***************************************************************************)
(* A chain of formatters (DDMultiFormatter.m) that several loggers share,  *)
(* with the context filters (DDContextFilterLogFormatter.m) among its      *)
(* links.  The chain is behind a concurrent dispatch queue: formatting and *)
(* the getters read it side by side, changes are asynchronous barriers.    *)
(* The set of a filter is behind a mutex of its own and changes at once,   *)
(* also while a message is on its way through the chain.                   *)
(*                                                                         *)
(* Formatting takes a step for each link.  A line is the sequence of the   *)
(* formatters that contributed to it; the filters return it as it is.      *)
(***************************************************************************)
EXTENDS Integers, Sequences, SequencesExt

CONSTANTS
    Loggers,       \* loggers that have the chain as their formatter
    Threads,       \* clients that change the chain and ask for it
    Allowlists,    \* DDContextAllowlistFilterLogFormatter objects
    Denylists,     \* DDContextDenylistFilterLogFormatter objects
    Writers,       \* formatters that contribute text and reject nothing
    Contexts,      \* logging contexts
    MaxFormatters, \* bound: length of the chain
    MaxPending,    \* bound: changes of the chain that wait on the queue
    None           \* nil

Filters    == Allowlists \cup Denylists
Formatters == Filters \cup Writers
Readers    == Loggers \cup Threads

Lines      == Seq(Writers)
Messages   == [context : Contexts, next : Nat \ {0}, line : Lines \cup {None}]

ASSUME FormatterAssumption ==
    /\ Loggers \cap Threads = {}
    /\ Allowlists \cap Denylists = {} /\ Filters \cap Writers = {}
    /\ MaxFormatters \in Nat /\ MaxPending \in Nat
    /\ None \notin Formatters \cup Readers \cup Lines \cup Messages

VARIABLES
    formatters,  \* _formatters: what the chain consists of
    queue,       \* _queue: blocks that have not started; each with what its caller
                 \* expects the chain to be when it is done
    reading,     \* the readers whose block runs
    message,     \* the message a logger has formatted: its context, the next link,
                 \* the line so far; None if the logger has nothing to format
    contextSet,  \* _set of each filter
    expected,    \* the chain when all changes are made that were asked for; of a
                 \* reader, as it was when the reader asked
    verdicts     \* answers each filter could give to a logger since it asked

chain   == <<formatters, queue>>
history == <<expected, verdicts>>
vars    == <<chain, reading, message, contextSet, history>>

\* A reader has a block on the queue or running.
Waiting(r) == \E i \in DOMAIN queue : queue[i].op = "read" /\ queue[i].arg = r
Busy(r)    == r \in reading \/ Waiting(r)

Accepts(f, set, context) ==
    \/ f \in Writers
    \/ f \in Allowlists /\ context \in set
    \/ f \in Denylists /\ context \notin set

NoVerdicts == [f \in Filters |-> {}]

Init ==
    /\ formatters = <<>> /\ queue = <<>> /\ reading = {}
    /\ message = [l \in Loggers |-> None]
    /\ contextSet = [f \in Filters |-> {}]
    /\ expected = [r \in Readers \cup {None} |-> <<>>]
    /\ verdicts = [l \in Loggers |-> NoVerdicts]

-----------------------------------------------------------------------------
(* The queue.                                                                *)

\* A barrier waits for the blocks before it and lets none of those behind it start.
BarrierMayRun == queue # <<>> /\ Head(queue).op # "read" /\ reading = {}

Changes == SelectSeq(queue, LAMBDA block : block.op # "read")

\* Of the first n elements of a sequence those in S, and of all of them.  A function:
\* the proofs have to unfold it.
FirstIn(seq, S) ==
    LET first[n \in 0 .. Len(seq)] ==
            IF n = 0 THEN <<>>
            ELSE IF seq[n] \in S THEN Append(first[n - 1], seq[n]) ELSE first[n - 1]
    IN  first
Only(seq, S) == FirstIn(seq, S)[Len(seq)]

\* It removes every occurrence.
removeObject(f, seq) == Only(seq, Formatters \ {f})

Apply(op, f, seq) ==
    CASE op = "add"    -> Append(seq, f)
      [] op = "remove" -> removeObject(f, seq)
      [] op = "clear"  -> <<>>
      [] op = "read"   -> seq

\* dispatch_barrier_async by a thread that waits for nothing.
ChangeChain(op, f) ==
    /\ \E t \in Threads : ~Busy(t)
    /\ Len(Changes) < MaxPending
    /\ Len(Apply(op, f, expected[None])) <= MaxFormatters
    /\ expected' = [expected EXCEPT ![None] = Apply(op, f, @)]
    /\ queue' = Append(queue, [op |-> op, arg |-> f, chain |-> expected'[None]])
    /\ UNCHANGED <<formatters, reading, message, contextSet, verdicts>>

addFormatter(f)     == ChangeChain("add", f)
removeFormatter(f)  == ChangeChain("remove", f)
removeAllFormatters == ChangeChain("clear", None)

\* dispatch_sync.
ReadChain(r) ==
    /\ expected' = [expected EXCEPT ![r] = expected[None]]
    /\ queue' = Append(queue, [op |-> "read", arg |-> r, chain |-> expected[None]])

\* Faulty variant of RunBarrier: the change is an ordinary asynchronous block.
RunChange ==
    /\ queue # <<>> /\ Head(queue).op # "read"
    /\ formatters' = Apply(Head(queue).op, Head(queue).arg, formatters)
    /\ queue' = Tail(queue)
    /\ UNCHANGED <<reading, message, contextSet, history>>
RunBarrier ==
    /\ BarrierMayRun
    /\ formatters' = Apply(Head(queue).op, Head(queue).arg, formatters)
    /\ queue' = Tail(queue)
    /\ UNCHANGED <<reading, message, contextSet, history>>

StartReading ==
    /\ queue # <<>> /\ Head(queue).op = "read"
    /\ reading' = reading \cup {Head(queue).arg}
    /\ queue' = Tail(queue)
    /\ UNCHANGED <<formatters, message, contextSet, history>>

\* formatters, isFormattingWithFormatter:.
AskForChain(t) ==
    /\ ~Busy(t)
    /\ ReadChain(t)
    /\ UNCHANGED <<formatters, reading, message, contextSet, verdicts>>

Answer(t) ==
    /\ t \in reading
    /\ reading' = reading \ {t}
    /\ expected' = [expected EXCEPT ![t] = <<>>]
    /\ UNCHANGED <<chain, message, contextSet, verdicts>>

-----------------------------------------------------------------------------
(* Formatting.                                                               *)

formatLogMessage(l, context) ==
    /\ message[l] = None
    /\ message' = [message EXCEPT ![l] = [context |-> context, next |-> 1, line |-> <<>>]]
    /\ verdicts' = [verdicts EXCEPT ![l] =
                       [f \in Filters |-> {Accepts(f, contextSet[f], context)}]]
    /\ ReadChain(l)
    /\ UNCHANGED <<formatters, reading, contextSet>>

\* Faulty variant of logMessageForLine: the original is handed on.
logMessageForOriginal(m) == <<>>
\* A copy of the message that has the line so far.
logMessageForLine(m) == m.line

\* What a link returns for a message.
Formatted(f, m) ==
    IF f \in Writers THEN Append(logMessageForLine(m), f)
    ELSE IF Accepts(f, contextSet[f], m.context) THEN logMessageForLine(m) ELSE None

Done(m) == m.line = None \/ m.next > Len(formatters)

\* Faulty variant of NextFormatter: the loop goes on with a line that was rejected.
NextFormatterAlways(l) ==
    /\ l \in reading
    /\ message[l].next <= Len(formatters)
    /\ message' = [message EXCEPT ![l] =
          [context |-> @.context, next |-> @.next + 1,
           line |-> Formatted(formatters[@.next],
                       [@ EXCEPT !.line = IF @ = None THEN <<>> ELSE @])]]
    /\ UNCHANGED <<chain, reading, contextSet, history>>
\* Faulty variant of NextFormatter: the loop goes through self.formatters, whose block
\* waits behind a change that waits for this one.
NextFormatterAsking(l) ==
    /\ l \in reading
    /\ ~Done(message[l]) /\ Changes = <<>>
    /\ message' = [message EXCEPT ![l] =
          [context |-> @.context, next |-> @.next + 1,
           line |-> Formatted(formatters[@.next], @)]]
    /\ UNCHANGED <<chain, reading, contextSet, history>>
NextFormatter(l) ==
    /\ l \in reading
    /\ ~Done(message[l])
    /\ message' = [message EXCEPT ![l] =
          [context |-> @.context, next |-> @.next + 1,
           line |-> Formatted(formatters[@.next], @)]]
    /\ UNCHANGED <<chain, reading, contextSet, history>>

ReturnLine(l) ==
    /\ l \in reading
    /\ Done(message[l])
    /\ reading' = reading \ {l}
    /\ message' = [message EXCEPT ![l] = None]
    /\ expected' = [expected EXCEPT ![l] = <<>>]
    /\ verdicts' = [verdicts EXCEPT ![l] = NoVerdicts]
    /\ UNCHANGED <<chain, contextSet>>

-----------------------------------------------------------------------------
(* The sets of the filters.                                                  *)

ChangeSet(f, set) ==
    /\ \E t \in Threads : ~Busy(t)
    /\ contextSet' = [contextSet EXCEPT ![f] = set]
    /\ verdicts' = [l \in Loggers |->
          IF message[l] = None THEN verdicts[l]
          ELSE [verdicts[l] EXCEPT ![f] = @ \cup {Accepts(f, set, message[l].context)}]]
    /\ UNCHANGED <<chain, reading, message, expected>>

\* addToAllowlist:, addToDenylist: and their counterparts.
addToSet(f, c)      == ChangeSet(f, contextSet[f] \cup {c})
removeFromSet(f, c) == ChangeSet(f, contextSet[f] \ {c})

Next ==
    \/ \E f \in Formatters : addFormatter(f) \/ removeFormatter(f)
    \/ removeAllFormatters
    \/ RunBarrier \/ StartReading
    \/ \E t \in Threads : AskForChain(t) \/ Answer(t)
    \/ \E l \in Loggers, c \in Contexts : formatLogMessage(l, c)
    \/ \E l \in Loggers : NextFormatter(l) \/ ReturnLine(l)
    \/ \E f \in Filters, c \in Contexts : addToSet(f, c) \/ removeFromSet(f, c)

\* GCD runs every block it can, and a block that runs comes to its end.
Fairness ==
    /\ WF_vars(RunBarrier) /\ WF_vars(StartReading)
    /\ \A t \in Threads : WF_vars(Answer(t))
    /\ \A l \in Loggers : WF_vars(NextFormatter(l)) /\ WF_vars(ReturnLine(l))

Spec     == Init /\ [][Next]_vars
FairSpec == Spec /\ Fairness
=============================================================================
