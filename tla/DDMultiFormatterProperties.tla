--------------------- MODULE DDMultiFormatterProperties ---------------------
(***************************************************************************)
(* What makes a shared chain of formatters correct.                        *)
(***************************************************************************)
EXTENDS DDMultiFormatter

Blocks == [op : {"add", "remove", "clear", "read"}, arg : Formatters \cup Readers \cup {None},
           chain : Seq(Formatters)]

TypeOK ==
    /\ formatters \in Seq(Formatters) /\ queue \in Seq(Blocks)
    /\ reading \subseteq Readers
    /\ message \in [Loggers -> Messages \cup {None}]
    /\ \A l \in Loggers : message[l] # None <=> Busy(l)
    /\ contextSet \in [Filters -> SUBSET Contexts]
    /\ expected \in [Readers \cup {None} -> Seq(Formatters)]
    /\ verdicts \in [Loggers -> [Filters -> SUBSET BOOLEAN]]

\* Whoever reads the chain sees, from the first link to the last, the chain as it was
\* asked for by then: with every earlier change, also the reader's own, and with no
\* later one, in spite of changes being asynchronous.
ChainAsRequested ==
    \A r \in reading : formatters = expected[r]

\* A line that comes out has the contribution of every formatter of the chain once and
\* in order, and a rejected message has no line.
Returns(l) == l \in reading /\ Done(message[l])
WholeChainApplied ==
    \A l \in Loggers : Returns(l) /\ message[l].line # None =>
        message[l].line = Only(expected[l], Writers)

\* A message comes out only if each filter of the chain accepted it at some moment
\* since it was to be formatted, and is dropped only if one rejected it.
VerdictJustified ==
    \A l \in Loggers : Returns(l) =>
        LET filters == ToSet(expected[l]) \cap Filters
        IN  IF message[l].line # None THEN \A f \in filters : TRUE \in verdicts[l][f]
            ELSE \E f \in filters : FALSE \in verdicts[l][f]

\* Nobody waits for ever for the chain: the logger that formats holds up the logging
\* queue, and changes and readers wait for one another.
EveryReaderReturns ==
    \A r \in Readers : Busy(r) ~> ~Busy(r)

\* Changes are not starved by loggers that format message after message.
ChangesTakeEffect ==
    Changes # <<>> ~> BarrierMayRun

\* Neither side starves the other.
NobodyStarves == EveryReaderReturns /\ ChangesTakeEffect
=============================================================================
