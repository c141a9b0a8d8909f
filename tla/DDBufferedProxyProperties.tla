--------------------- MODULE DDBufferedProxyProperties ---------------------
(***************************************************************************)
(* What makes the buffering proxy correct.                                 *)
(***************************************************************************)
EXTENDS DDBufferedProxy

TypeOK ==
    /\ wrapped \in BOOLEAN /\ registered \in BOOLEAN /\ alive \in BOOLEAN
    /\ buffer \in Seq(Chunks) /\ ranges \in Seq(Chunks) /\ written \in Seq(Chunks)
    /\ currentBufferSizeBytes \in Nat
    /\ maxBufferSizeBytes \in 0 .. MaxBufferSize
    /\ offset \in Nat \cup {None}
    /\ closed \in Nat /\ synced \subseteq Nat /\ unsaved \subseteq Nat
    /\ logged \in 0 .. MaxMessages /\ taken \subseteq Chunks /\ lost \subseteq Chunks /\ incidents \in Nat

\* The proxy's count is what its buffer holds, and memory is bounded by the size that
\* the system allows, however a thread sets the limit between two ranges of a message.
MemoryBounded ==
    currentBufferSizeBytes = Total(buffer) /\ currentBufferSizeBytes < MaxBufferSize

Before(c, d) == c.msg < d.msg \/ (c.msg = d.msg /\ c.part < d.part)
Stored == written \o buffer \o ranges

\* The files, the buffer and the message at hand hold the log in the order of its
\* statements, each part once, however sends, flushes, rolls, failures and releases
\* of the proxy fall between the ranges of messages.
OnceAndInOrder ==
    /\ \A i, j \in DOMAIN Stored : i < j => Before(Stored[i], Stored[j])
    /\ \A i \in DOMAIN Stored : Stored[i] \notin lost

\* Of what was logged only writes that failed are missing: nothing is dropped when
\* the buffer is full, sent or released together with the proxy.
NothingDropped ==
    alive => taken = ToSet(Stored) \cup lost

\* After a flush, and at the orderly exit of a process that has the proxy registered,
\* nothing is in memory and all that was ever written is on the disk, in the open file and
\* in those that sends, removals and clients rolled before, except where synchronising
\* itself failed and was not made up for.
FlushReachesDisk ==
    [][(flush \/ (alive /\ ~alive' /\ registered)) =>
          buffer' = <<>> /\ DOMAIN written' \subseteq synced' \cup unsaved']_vars
=============================================================================
