------------------------ MODULE DDBufferedProxyProofs ------------------------
(***************************************************************************)
(* Proofs of OnceAndInOrder, NothingDropped, FlushReachesDisk and          *)
(* MemoryBounded for buffers, files and messages of any size and any       *)
(* number of failures.  BufferIInv relates the log to files, buffer and    *)
(* message at hand, DiskIInv the files that were closed to the disk.       *)
(***************************************************************************)
EXTENDS DDBufferedProxyProperties, TLAPS, WellFoundedInduction

Sorted(s) == \A i, j \in 1 .. Len(s) : i < j => Before(s[i], s[j])
Precedes(s, t) == \A i \in 1 .. Len(s), j \in 1 .. Len(t) : Before(s[i], t[j])

\* Files, memory and the message at hand are each in order and follow one another,
\* and nothing in them is lost.
Ordered(w, b, r, l) ==
    /\ w \in Seq(Chunks) /\ b \in Seq(Chunks) /\ r \in Seq(Chunks) /\ l \subseteq Chunks
    /\ Sorted(w) /\ Sorted(b) /\ Sorted(r)
    /\ Precedes(w, b) /\ Precedes(w, r) /\ Precedes(b, r)
    /\ l \cap (ToSet(w) \cup ToSet(b) \cup ToSet(r)) = {}

Everything(w, b, r, l) == ToSet(w) \cup ToSet(b) \cup ToSet(r) \cup l

BufferIInv ==
    /\ Ordered(written, buffer, ranges, lost)
    /\ taken = Everything(written, buffer, ranges, lost)
    /\ logged \in Nat /\ \A c \in taken : c.msg <= logged

-----------------------------------------------------------------------------
(* Sequences of chunks.                                                      *)

LEMMA Irreflexive == \A c \in Chunks : ~Before(c, c)
  BY DEF Chunks, Before

LEMMA SetOfSequence ==
    ASSUME NEW s \in Seq(Chunks)
    PROVE  /\ ToSet(s) \subseteq Chunks
           /\ \A c : c \in ToSet(s) <=> \E i \in 1 .. Len(s) : c = s[i]
  BY DEF ToSet

LEMMA Disjoint ==
    ASSUME NEW s \in Seq(Chunks), NEW t \in Seq(Chunks), Precedes(s, t)
    PROVE  ToSet(s) \cap ToSet(t) = {}
  <1>1. ASSUME NEW i \in 1 .. Len(s), NEW j \in 1 .. Len(t), s[i] = t[j]
        PROVE  FALSE
    <2>1. s[i] \in Chunks
      OBVIOUS
    <2> QED
      BY <1>1, <2>1, Irreflexive DEF Precedes
  <1> QED
    BY <1>1, SetOfSequence

LEMMA Concatenation ==
    ASSUME NEW s \in Seq(Chunks), NEW t \in Seq(Chunks)
    PROVE  /\ s \o t \in Seq(Chunks)
           /\ ToSet(s \o t) = ToSet(s) \cup ToSet(t)
           /\ Sorted(s) /\ Sorted(t) /\ Precedes(s, t) => Sorted(s \o t)
           /\ \A u \in Seq(Chunks) : Precedes(s, u) /\ Precedes(t, u) => Precedes(s \o t, u)
  <1> DEFINE st == s \o t
             m == Len(s)
             n == Len(t)
  <1>1. /\ m \in Nat /\ n \in Nat
        /\ st \in Seq(Chunks) /\ Len(st) = m + n
        /\ \A i \in 1 .. m + n : st[i] = IF i <= m THEN s[i] ELSE t[i - m]
    OBVIOUS
  <1> HIDE DEF st
  <1>2. ToSet(st) = ToSet(s) \cup ToSet(t)
    <2>1. \A i \in 1 .. m : i \in 1 .. m + n /\ st[i] = s[i]
      BY <1>1
    <2>2. \A i \in 1 .. n : i + m \in 1 .. m + n /\ st[i + m] = t[i]
      <3> SUFFICES ASSUME NEW i \in 1 .. n
                   PROVE  i + m \in 1 .. m + n /\ st[i + m] = t[i]
        OBVIOUS
      <3> DEFINE k == i + m
      <3>1. k \in 1 .. m + n /\ ~(k <= m) /\ k - m = i
        <4>1. i \in Nat /\ 1 <= i /\ i <= n /\ m \in Nat /\ n \in Nat
          BY <1>1
        <4> HIDE DEF m, n
        <4> QED
          BY <4>1
      <3> HIDE DEF k
      <3>2. st[k] = t[k - m]
        BY <1>1, <3>1
      <3> QED
        BY <3>1, <3>2 DEF k
    <2>3. \A i \in 1 .. m + n : i \in 1 .. m \/ (i - m \in 1 .. n /\ st[i] = t[i - m])
      BY <1>1
    <2>4. \A c : c \in ToSet(st) <=> \E i \in 1 .. m + n : c = st[i]
      <3>1. \A c : c \in ToSet(st) <=> \E i \in 1 .. Len(st) : c = st[i]
        BY <1>1, SetOfSequence, Zenon
      <3>2. Len(st) = m + n
        BY <1>1
      <3> HIDE DEF m, n
      <3> QED
        BY <3>1, <3>2, Zenon
    <2>5. /\ \A c : c \in ToSet(s) <=> \E i \in 1 .. m : c = s[i]
          /\ \A c : c \in ToSet(t) <=> \E i \in 1 .. n : c = t[i]
      BY SetOfSequence
    <2> HIDE DEF m, n
    <2>6. ASSUME NEW c \in ToSet(st) PROVE c \in ToSet(s) \cup ToSet(t)
      BY <2>1, <2>3, <2>4, <2>5
    <2>7. ASSUME NEW c \in ToSet(s) \cup ToSet(t) PROVE c \in ToSet(st)
      BY <2>1, <2>2, <2>4, <2>5
    <2> QED
      BY <2>6, <2>7
  <1>3. ASSUME Sorted(s), Sorted(t), Precedes(s, t)
        PROVE  Sorted(st)
    <2> SUFFICES ASSUME NEW i \in 1 .. m + n, NEW j \in 1 .. m + n, i < j
                 PROVE  Before(st[i], st[j])
      BY <1>1 DEF Sorted
    <2>1. CASE j <= m
      BY <1>1, <1>3, <2>1 DEF Sorted
    <2>2. CASE i <= m /\ m < j
      <3>1. j - m \in 1 .. n /\ i \in 1 .. m /\ st[i] = s[i] /\ st[j] = t[j - m]
        BY <1>1, <2>2
      <3> QED
        BY <1>3, <3>1 DEF Precedes
    <2>3. CASE m < i
      <3>1. /\ i - m \in 1 .. n /\ j - m \in 1 .. n /\ i - m < j - m
            /\ st[i] = t[i - m] /\ st[j] = t[j - m]
        BY <1>1, <2>3
      <3> QED
        BY <1>3, <3>1 DEF Sorted
    <2> QED
      BY <1>1, <2>1, <2>2, <2>3
  <1>4. ASSUME NEW u \in Seq(Chunks), Precedes(s, u), Precedes(t, u)
        PROVE  Precedes(st, u)
    <2> SUFFICES ASSUME NEW i \in 1 .. m + n, NEW j \in 1 .. Len(u)
                 PROVE  Before(st[i], u[j])
      BY <1>1 DEF Precedes
    <2>1. CASE i <= m
      BY <1>1, <1>4, <2>1 DEF Precedes
    <2>2. CASE m < i
      <3>1. i - m \in 1 .. n /\ st[i] = t[i - m]
        BY <1>1, <2>2
      <3> QED
        BY <1>4, <3>1 DEF Precedes
    <2> QED
      BY <1>1, <2>1, <2>2
  <1> QED
    BY <1>1, <1>2, <1>3, <1>4 DEF st

LEMMA Nothing ==
    /\ <<>> \in Seq(Chunks) /\ ToSet(<<>>) = {} /\ Sorted(<<>>)
    /\ \A s : Precedes(<<>>, s) /\ Precedes(s, <<>>)
  BY DEF ToSet, Sorted, Precedes

-----------------------------------------------------------------------------
(* What the actions are made of.                                             *)

\* Sending empties the buffer and keeps everything, in order, written or lost.
LEMMA SendKeepsOrder ==
    ASSUME NEW data, NEW flushes, NEW r, Ordered(written, data, r, lost), Send(data, flushes)
    PROVE  /\ Ordered(written', buffer', r, lost')
           /\ Everything(written', buffer', r, lost') = Everything(written, data, r, lost)
  <1>1. buffer' = <<>>
    BY DEF Send
  <1>2. CASE data = <<>> /\ UNCHANGED <<written, lost>>
    BY <1>1, <1>2
  <1>3. CASE written' = written \o data /\ lost' = lost
    <2>1. /\ written' \in Seq(Chunks) /\ ToSet(written') = ToSet(written) \cup ToSet(data)
          /\ Sorted(written') /\ Precedes(written', r)
      BY <1>3, Concatenation DEF Ordered
    <2> QED
      BY <1>1, <1>3, <2>1, Nothing DEF Ordered, Everything
  <1>4. CASE written' = written /\ lost' = lost \cup ToSet(data)
    <2>1. ToSet(data) \subseteq Chunks
      BY SetOfSequence DEF Ordered
    <2>2. ToSet(written) \cap ToSet(data) = {} /\ ToSet(data) \cap ToSet(r) = {}
      BY Disjoint DEF Ordered
    <2> QED
      BY <1>1, <1>4, <2>1, <2>2, Nothing DEF Ordered, Everything
  <1>5. PICK writes \in BOOLEAN, checks \in BOOLEAN : lt_logData(data, writes, checks)
    BY DEF Send
  <1> QED
    BY <1>2, <1>3, <1>4, <1>5 DEF lt_logData, Write, WriteFails

\* The next range goes from the message at hand to the end of the buffer.
LEMMA AppendKeepsOrder ==
    ASSUME NEW w, NEW b, NEW r, NEW l, Ordered(w, b, r, l), r # <<>>
    PROVE  /\ Ordered(w, Append(b, Head(r)), Tail(r), l)
           /\ Everything(w, Append(b, Head(r)), Tail(r), l) = Everything(w, b, r, l)
  <1> DEFINE a == Append(b, Head(r))
             t == Tail(r)
  <1>1. /\ w \in Seq(Chunks) /\ b \in Seq(Chunks) /\ r \in Seq(Chunks)
        /\ Sorted(w) /\ Sorted(b) /\ Sorted(r)
        /\ Precedes(w, b) /\ Precedes(w, r) /\ Precedes(b, r)
    BY DEF Ordered
  <1>2. /\ Len(r) \in Nat \ {0} /\ Head(r) = r[1] /\ r[1] \in Chunks
        /\ t \in Seq(Chunks) /\ Len(t) = Len(r) - 1
        /\ \A i \in 1 .. Len(r) - 1 : t[i] = r[i + 1]
    BY <1>1
  <1>3. /\ a \in Seq(Chunks) /\ Len(b) \in Nat /\ Len(a) = Len(b) + 1
        /\ \A i \in 1 .. Len(b) : a[i] = b[i]
        /\ a[Len(b) + 1] = r[1]
    BY <1>1, <1>2
  <1> HIDE DEF a, t
  <1>4. Sorted(a) /\ Sorted(t)
    <2>1. ASSUME NEW i \in 1 .. Len(b) PROVE Before(b[i], r[1])
      <3>1. 1 \in 1 .. Len(r)
        BY <1>2
      <3> QED
        BY <1>1, <3>1 DEF Precedes
    <2>2. Sorted(a)
      <3> SUFFICES ASSUME NEW i \in 1 .. Len(a), NEW j \in 1 .. Len(a), i < j
                   PROVE  Before(a[i], a[j])
        BY DEF Sorted
      <3> DEFINE n == Len(b)
      <3>0. n \in Nat /\ Len(a) = n + 1
        BY <1>3
      <3>1. ASSUME j <= n PROVE Before(a[i], a[j])
        <4>1. i \in 1 .. n /\ j \in 1 .. n
          <5> HIDE DEF n
          <5> QED
            BY <3>0, <3>1
        <4> QED
          BY <1>1, <1>3, <4>1 DEF Sorted
      <3>2. ASSUME j = n + 1 PROVE Before(a[i], a[j])
        <4>1. i \in 1 .. n
          <5> HIDE DEF n
          <5> QED
            BY <3>0, <3>2
        <4> QED
          BY <1>3, <2>1, <3>2, <4>1
      <3>3. j <= n \/ j = n + 1
        <4> HIDE DEF n
        <4> QED
          BY <3>0
      <3> QED
        BY <3>1, <3>2, <3>3
    <2>3. Sorted(t)
      BY <1>1, <1>2 DEF Sorted
    <2> QED
      BY <2>2, <2>3
  <1>5. Precedes(w, a) /\ Precedes(w, t)
    <2>1. Precedes(w, a)
      <3> SUFFICES ASSUME NEW i \in 1 .. Len(w), NEW j \in 1 .. Len(a)
                   PROVE  Before(w[i], a[j])
        BY DEF Precedes
      <3>1. CASE j <= Len(b)
        BY <1>1, <1>3, <3>1 DEF Precedes
      <3>2. CASE j = Len(b) + 1
        <4>1. 1 \in 1 .. Len(r)
          BY <1>2
        <4> QED
          BY <1>1, <1>3, <3>2, <4>1 DEF Precedes
      <3> QED
        BY <1>3, <3>1, <3>2
    <2>2. Precedes(w, t)
      BY <1>1, <1>2 DEF Precedes
    <2> QED
      BY <2>1, <2>2
  <1>6. Precedes(a, t)
    <2> SUFFICES ASSUME NEW i \in 1 .. Len(a), NEW j \in 1 .. Len(t)
                 PROVE  Before(a[i], t[j])
      BY DEF Precedes
    <2>1. j + 1 \in 1 .. Len(r) /\ 1 \in 1 .. Len(r) /\ t[j] = r[j + 1] /\ 1 < j + 1
      BY <1>2
    <2>2. CASE i <= Len(b)
      BY <1>1, <1>3, <2>1, <2>2 DEF Precedes
    <2>3. CASE i = Len(b) + 1
      BY <1>1, <1>3, <2>1, <2>3 DEF Sorted
    <2> QED
      BY <1>3, <2>2, <2>3
  <1>7. ToSet(a) = ToSet(b) \cup {r[1]} /\ ToSet(r) = ToSet(t) \cup {r[1]}
    <2>1. /\ \A c : c \in ToSet(a) <=> \E i \in 1 .. Len(a) : c = a[i]
          /\ \A c : c \in ToSet(b) <=> \E i \in 1 .. Len(b) : c = b[i]
          /\ \A c : c \in ToSet(r) <=> \E i \in 1 .. Len(r) : c = r[i]
          /\ \A c : c \in ToSet(t) <=> \E i \in 1 .. Len(t) : c = t[i]
      BY <1>1, <1>2, <1>3, SetOfSequence
    <2>2. ToSet(a) = ToSet(b) \cup {r[1]}
      <3>1. ASSUME NEW c \in ToSet(a) PROVE c \in ToSet(b) \cup {r[1]}
        BY <1>3, <2>1
      <3>2. ASSUME NEW c \in ToSet(b) PROVE c \in ToSet(a)
        BY <1>3, <2>1
      <3>3. r[1] \in ToSet(a)
        BY <1>3, <2>1
      <3> QED
        BY <3>1, <3>2, <3>3
    <2>3. ToSet(r) = ToSet(t) \cup {r[1]}
      <3>1. ASSUME NEW c \in ToSet(r) PROVE c \in ToSet(t) \cup {r[1]}
        <4>1. PICK i \in 1 .. Len(r) : c = r[i]
          BY <2>1
        <4>2. CASE i = 1
          BY <4>1, <4>2
        <4>3. CASE i # 1
          <5>1. i - 1 \in 1 .. Len(t) /\ t[i - 1] = r[i]
            BY <1>2, <4>1, <4>3
          <5> QED
            BY <2>1, <4>1, <5>1
        <4> QED
          BY <4>2, <4>3
      <3>2. ASSUME NEW c \in ToSet(t) PROVE c \in ToSet(r)
        <4>1. PICK i \in 1 .. Len(t) : c = t[i]
          BY <2>1
        <4>2. i + 1 \in 1 .. Len(r) /\ t[i] = r[i + 1]
          BY <1>2, <4>1
        <4> QED
          BY <2>1, <4>1, <4>2
      <3>3. r[1] \in ToSet(r)
        BY <1>2, <2>1
      <3> QED
        BY <3>1, <3>2, <3>3
    <2> QED
      BY <2>2, <2>3
  <1>8. Ordered(w, a, t, l)
    BY <1>1, <1>2, <1>3, <1>4, <1>5, <1>6, <1>7 DEF Ordered
  <1>9. Everything(w, a, t, l) = Everything(w, b, r, l)
    BY <1>7 DEF Everything
  <1> QED
    BY <1>8, <1>9 DEF a, t

-----------------------------------------------------------------------------
(* The invariant.                                                            *)

LEMMA BufferInitial == Init => BufferIInv
  BY Nothing DEF Init, BufferIInv, Ordered, Everything

LEMMA LogPreserves ==
    ASSUME BufferIInv, logMessage
    PROVE  BufferIInv'
  <1>1. /\ UNCHANGED <<written, buffer, lost>> /\ ranges = <<>> /\ logged \in Nat
        /\ logged < MaxMessages /\ logged' = logged + 1 /\ taken' = taken \cup ToSet(ranges')
    BY DEF logMessage, Idle, memory, file, losses, BufferIInv
  <1>0. PICK n \in 1 .. MaxRanges : \E size \in [1 .. n -> RangeSizes] :
           ranges' = [i \in 1 .. n |-> [msg |-> logged + 1, part |-> i, size |-> size[i]]]
    BY DEF logMessage
  <1>2. PICK size \in [1 .. n -> RangeSizes] :
           ranges' = [i \in 1 .. n |-> [msg |-> logged + 1, part |-> i, size |-> size[i]]]
    BY <1>0
  <1>3. n \in Nat /\ MaxMessages \in Nat /\ MaxRanges \in Nat
    BY BufferAssumption, <1>2
  <1>4. \A i \in 1 .. n : /\ ranges'[i] \in Chunks
                          /\ ranges'[i].msg = logged + 1 /\ ranges'[i].part = i
    BY <1>1, <1>2, <1>3 DEF Chunks
  <1>5. ranges' \in Seq(Chunks) /\ Len(ranges') = n
    BY <1>2, <1>3, <1>4
  <1>6. Sorted(ranges')
    BY <1>1, <1>4, <1>5 DEF Sorted, Before
  <1>7. ASSUME NEW s \in Seq(Chunks), \A i \in 1 .. Len(s) : s[i] \in taken
        PROVE  Precedes(s, ranges')
    <2>1. \A i \in 1 .. Len(s) : s[i] \in Chunks /\ s[i].msg <= logged /\ s[i].msg \in Nat
      <3>1. \A c \in Chunks : c.msg \in Nat
        BY DEF Chunks
      <3>2. \A i \in 1 .. Len(s) : s[i] \in Chunks
        OBVIOUS
      <3> QED
        BY <1>7, <3>1, <3>2 DEF BufferIInv
    <2>2. ASSUME NEW i \in 1 .. Len(s), NEW j \in 1 .. n
          PROVE  Before(s[i], ranges'[j])
      <3>1. s[i].msg <= logged /\ s[i].msg \in Nat /\ ranges'[j].msg = logged + 1
        BY <1>4, <2>1
      <3> QED
        BY <1>1, <3>1 DEF Before
    <2> QED
      BY <1>5, <2>2 DEF Precedes
  <1>8. /\ written \in Seq(Chunks) /\ buffer \in Seq(Chunks)
        /\ \A i \in 1 .. Len(written) : written[i] \in taken
        /\ \A i \in 1 .. Len(buffer) : buffer[i] \in taken
    BY SetOfSequence DEF BufferIInv, Ordered, Everything
  <1>9. Precedes(written, ranges') /\ Precedes(buffer, ranges')
    BY <1>7, <1>8
  <1>10. \A c \in ToSet(ranges') : c.msg = logged + 1
    BY <1>4, <1>5, SetOfSequence
  <1>11. lost \cap ToSet(ranges') = {}
    <2>1. \A c \in lost : c.msg <= logged /\ c.msg \in Nat
      BY DEF BufferIInv, Ordered, Everything, Chunks
    <2> QED
      BY <1>1, <1>10, <2>1
  <1>12. Ordered(written, buffer, ranges', lost)
    BY <1>5, <1>6, <1>9, <1>11 DEF BufferIInv, Ordered
  <1>13. taken' = Everything(written, buffer, ranges', lost)
    BY <1>1, Nothing DEF BufferIInv, Everything
  <1>14. \A c \in taken' : c.msg <= logged'
    <2>1. \A c \in taken : c.msg <= logged /\ c.msg \in Nat
      <3>1. taken \subseteq Chunks
        BY SetOfSequence DEF BufferIInv, Ordered, Everything
      <3> QED
        BY <3>1 DEF BufferIInv, Chunks
    <2> QED
      BY <1>1, <1>10, <2>1
  <1> QED
    BY <1>1, <1>12, <1>13, <1>14 DEF BufferIInv

LEMMA AppendPreserves ==
    ASSUME BufferIInv, AppendRange
    PROVE  BufferIInv'
  <1> DEFINE a == Append(buffer, Head(ranges))
  <1>1. ranges # <<>> /\ ranges' = Tail(ranges) /\ UNCHANGED <<logged, taken>>
    BY DEF AppendRange, history
  <1>2. /\ Ordered(written, a, ranges', lost)
        /\ Everything(written, a, ranges', lost) = taken
    BY <1>1, AppendKeepsOrder DEF BufferIInv
  <1>3. CASE Send(a, FALSE)
    <2>1. /\ Ordered(written', buffer', ranges', lost')
          /\ Everything(written', buffer', ranges', lost') = taken
      BY <1>2, <1>3, SendKeepsOrder
    <2> QED
      BY <1>1, <2>1 DEF BufferIInv
  <1>4. CASE buffer' = a /\ UNCHANGED <<written, lost>>
    BY <1>1, <1>2, <1>4 DEF BufferIInv
  <1> QED
    BY <1>3, <1>4 DEF AppendRange, file, losses

LEMMA SendPreserves ==
    ASSUME BufferIInv, NEW flushes, Send(buffer, flushes), UNCHANGED <<ranges, logged, taken>>
    PROVE  BufferIInv'
  <1>1. /\ Ordered(written', buffer', ranges, lost')
        /\ Everything(written', buffer', ranges, lost') = Everything(written, buffer, ranges, lost)
    BY SendKeepsOrder DEF BufferIInv
  <1> QED
    BY <1>1 DEF BufferIInv

LEMMA OthersPreserve ==
    ASSUME BufferIInv, UNCHANGED <<written, buffer, ranges, lost, logged, taken>>
    PROVE  BufferIInv'
  BY DEF BufferIInv, Ordered, Everything, Sorted, Precedes

LEMMA BufferInductive == BufferIInv /\ [Next]_vars => BufferIInv'
  <1> SUFFICES ASSUME BufferIInv, [Next]_vars PROVE BufferIInv'
    OBVIOUS
  <1>1. CASE logMessage
    BY <1>1, LogPreserves
  <1>2. CASE AppendRange
    BY <1>2, AppendPreserves
  <1>3. CASE flush \/ dealloc
    BY <1>3, SendPreserves DEF flush, dealloc, FlushAll, history
  <1>4. CASE ApplicationWillTerminate
    <2>1. CASE registered
      BY <1>4, <2>1, SendPreserves DEF ApplicationWillTerminate, FlushAll, history
    <2>2. CASE ~registered
      BY <1>4, <2>2, OthersPreserve DEF ApplicationWillTerminate, memory, file, losses, history
    <2> QED
      BY <2>1, <2>2
  <1>5. ASSUME NEW n \in BufferSizes, setMaxBufferSizeBytes(n)
        PROVE  BufferIInv'
    BY <1>5, OthersPreserve DEF setMaxBufferSizeBytes, memory, file, losses, history
  <1>6. CASE rollLogFile \/ willRemoveLogger
    BY <1>6, OthersPreserve DEF rollLogFile, willRemoveLogger, Roll, memory, history
  <1>7. CASE didAddLogger \/ wrapWithBuffer
    BY <1>7, OthersPreserve DEF didAddLogger, wrapWithBuffer, memory, file, losses, history
  <1>8. CASE Exited \/ UNCHANGED vars
    BY <1>8, OthersPreserve DEF Exited, vars, memory, file, losses, history
  <1> QED
    BY <1>1, <1>2, <1>3, <1>4, <1>5, <1>6, <1>7, <1>8 DEF Next

\* Every step keeps the order of what is written, in memory and at hand, and loses
\* sight of nothing.
THEOREM BufferInvariance == Spec => []BufferIInv
  BY BufferInitial, BufferInductive, PTL DEF Spec

\* Files, buffer and the message at hand hold the log in order and once, for messages of
\* any number of ranges, limits and file sizes of any value and any failures.
THEOREM LogInOrder == Spec => []OnceAndInOrder
  <1>1. ASSUME BufferIInv
        PROVE  OnceAndInOrder
    <2> DEFINE wb == written \o buffer
    <2>1. /\ wb \in Seq(Chunks) /\ Sorted(wb) /\ Precedes(wb, ranges)
          /\ ToSet(wb) = ToSet(written) \cup ToSet(buffer)
      BY <1>1, Concatenation DEF BufferIInv, Ordered
    <2>2. /\ Stored \in Seq(Chunks) /\ Sorted(Stored)
          /\ ToSet(Stored) = ToSet(wb) \cup ToSet(ranges)
      BY <1>1, <2>1, Concatenation DEF BufferIInv, Ordered, Stored
    <2>3. lost \cap ToSet(Stored) = {}
      BY <1>1, <2>1, <2>2 DEF BufferIInv, Ordered
    <2>4. DOMAIN Stored = 1 .. Len(Stored)
      BY <2>2
    <2>5. \A i \in DOMAIN Stored : Stored[i] \in ToSet(Stored)
      BY <2>2, <2>4, SetOfSequence
    <2> QED
      BY <2>2, <2>3, <2>4, <2>5 DEF OnceAndInOrder, Sorted
  <1> QED
    BY <1>1, BufferInvariance, PTL

\* Only writes that failed are missing from what was logged.
THEOREM LogComplete == Spec => []NothingDropped
  <1>1. ASSUME BufferIInv
        PROVE  NothingDropped
    <2> DEFINE wb == written \o buffer
    <2>1. wb \in Seq(Chunks) /\ ToSet(wb) = ToSet(written) \cup ToSet(buffer)
      BY <1>1, Concatenation DEF BufferIInv, Ordered
    <2>2. ToSet(Stored) = ToSet(wb) \cup ToSet(ranges)
      BY <1>1, <2>1, Concatenation DEF BufferIInv, Ordered, Stored
    <2> QED
      BY <1>1, <2>1, <2>2 DEF BufferIInv, Everything, NothingDropped
  <1> QED
    BY <1>1, BufferInvariance, PTL

-----------------------------------------------------------------------------
(* Files and disk.                                                           *)

\* Every file that was closed was synchronised, as far as that did not fail, and without an
\* open file all that was written is in closed ones.
DiskIInv ==
    /\ closed \in 0 .. Len(written)
    /\ offset = None => closed = Len(written)
    /\ 1 .. closed \subseteq synced \cup unsaved

LEMMA DiskInitial == Init => DiskIInv
  BY Nothing DEF Init, DiskIInv

\* No place is forgotten by synchronising, whether or not it succeeds.
LEMMA SynchronizeRemembers ==
    ASSUME NEW success, Synchronize(success)
    PROVE  synced' \cup unsaved' = synced \cup unsaved \cup OpenFile
  BY DEF Synchronize

\* Where the file was rolled it was synchronised first.
LEMMA RollKeepsDisk ==
    ASSUME DiskIInv, Len(written) \in Nat, Len(written') \in Nat, Len(written) <= Len(written'),
           NEW success, SynchronizeIfRolled(success)
    PROVE  DiskIInv'
  <1>1. CASE offset' = None
    <2>1. closed' = Len(written') /\ Synchronize(success)
      BY <1>1 DEF SynchronizeIfRolled
    <2>2. 1 .. Len(written') \subseteq 1 .. closed \cup OpenFile
      BY DEF DiskIInv, OpenFile
    <2> QED
      BY <2>1, <2>2, SynchronizeRemembers DEF DiskIInv
  <1>2. CASE offset' # None
    BY <1>2 DEF SynchronizeIfRolled, disk, DiskIInv
  <1> QED
    BY <1>1, <1>2

\* A flush leaves no place out, neither of the open file nor of those closed before.
LEMMA FlushKeepsDisk ==
    ASSUME DiskIInv, Len(written) \in Nat, Len(written') \in Nat, Len(written) <= Len(written'),
           NEW success, lt_flush(success)
    PROVE  DiskIInv' /\ 1 .. Len(written') \subseteq synced' \cup unsaved'
  <1>1. CASE offset' = None
    <2>1. SynchronizeIfRolled(success) /\ closed' = Len(written')
      BY <1>1 DEF lt_flush, SynchronizeIfRolled
    <2>2. DiskIInv'
      BY <2>1, RollKeepsDisk
    <2> QED
      BY <2>1, <2>2 DEF DiskIInv
  <1>2. CASE offset' # None
    <2>1. Synchronize(success) /\ closed' = closed
      BY <1>2 DEF lt_flush
    <2>2. 1 .. Len(written') \subseteq 1 .. closed \cup OpenFile
      BY DEF DiskIInv, OpenFile
    <2>3. 1 .. closed \subseteq synced \cup unsaved /\ closed \in 0 .. Len(written)
      BY DEF DiskIInv
    <2> QED
      BY <1>2, <2>1, <2>2, <2>3, SynchronizeRemembers DEF DiskIInv
  <1> QED
    BY <1>1, <1>2

\* Sending is a write, or a failed one, and a roll or a flush.
LEMMA SendKeepsDisk ==
    ASSUME DiskIInv, written \in Seq(Chunks), NEW data \in Seq(Chunks), NEW flushes,
           Send(data, flushes)
    PROVE  DiskIInv' /\ (flushes => 1 .. Len(written') \subseteq synced' \cup unsaved')
  <1>1. PICK writes \in BOOLEAN, checks \in BOOLEAN, syncs \in BOOLEAN :
           /\ lt_logData(data, writes, checks)
           /\ IF flushes THEN lt_flush(syncs) ELSE SynchronizeIfRolled(syncs)
    BY DEF Send
  <1>2. written' = written \/ written' = written \o data
    BY <1>1 DEF lt_logData, Write, WriteFails
  <1>3. Len(written) \in Nat /\ Len(written') \in Nat /\ Len(written) <= Len(written')
    BY <1>2
  <1>4. CASE flushes
    BY <1>1, <1>3, <1>4, FlushKeepsDisk
  <1>5. CASE ~flushes
    BY <1>1, <1>3, <1>5, RollKeepsDisk
  <1> QED
    BY <1>4, <1>5

LEMMA RollsKeepDisk ==
    ASSUME DiskIInv, written \in Seq(Chunks), Roll
    PROVE  DiskIInv'
  <1>1. PICK syncs \in BOOLEAN : SynchronizeIfRolled(syncs)
    BY DEF Roll
  <1>2. written' = written /\ Len(written) \in Nat
    BY DEF Roll
  <1> QED
    BY <1>1, <1>2, RollKeepsDisk

LEMMA OthersKeepDisk ==
    ASSUME DiskIInv, UNCHANGED file
    PROVE  DiskIInv'
  BY DEF DiskIInv, file, disk

LEMMA DiskInductive == BufferIInv /\ DiskIInv /\ [Next]_vars => DiskIInv'
  <1> SUFFICES ASSUME BufferIInv, DiskIInv, [Next]_vars PROVE DiskIInv'
    OBVIOUS
  <1>0. written \in Seq(Chunks) /\ buffer \in Seq(Chunks) /\ ranges \in Seq(Chunks)
    BY DEF BufferIInv, Ordered
  <1>1. CASE AppendRange
    <2>1. CASE Send(Append(buffer, Head(ranges)), FALSE)
      <3>1. Append(buffer, Head(ranges)) \in Seq(Chunks)
        BY <1>0, <1>1 DEF AppendRange
      <3> QED
        BY <1>0, <2>1, <3>1, SendKeepsDisk
    <2>2. CASE UNCHANGED file
      BY <2>2, OthersKeepDisk
    <2> QED
      BY <1>1, <2>1, <2>2 DEF AppendRange
  <1>2. CASE flush \/ dealloc
    BY <1>0, <1>2, SendKeepsDisk DEF flush, dealloc, FlushAll
  <1>3. CASE ApplicationWillTerminate
    BY <1>0, <1>3, SendKeepsDisk, OthersKeepDisk DEF ApplicationWillTerminate, FlushAll
  <1>4. CASE rollLogFile \/ willRemoveLogger
    BY <1>0, <1>4, RollsKeepDisk DEF rollLogFile, willRemoveLogger
  <1>5. CASE logMessage \/ (\E n \in BufferSizes : setMaxBufferSizeBytes(n)) \/ didAddLogger \/ wrapWithBuffer
    BY <1>5, OthersKeepDisk DEF logMessage, setMaxBufferSizeBytes, didAddLogger, wrapWithBuffer
  <1>6. CASE Exited \/ UNCHANGED vars
    BY <1>6, OthersKeepDisk DEF Exited, vars
  <1> QED
    BY <1>1, <1>2, <1>3, <1>4, <1>5, <1>6 DEF Next

\* Whatever was rolled before, by a send, a removal or a client, is on the disk or known to
\* have failed to get there.
THEOREM DiskInvariance == Spec => []DiskIInv
  BY DiskInitial, DiskInductive, BufferInvariance, PTL DEF Spec

\* A flush and the orderly exit of a registered proxy leave nothing in memory, and all that
\* was ever written on the disk, in the open file and in all that were rolled before, except
\* where synchronising failed.
THEOREM FlushComplete == Spec => FlushReachesDisk
  <1> DEFINE OnDisk == buffer' = <<>> /\ DOMAIN written' \subseteq synced' \cup unsaved'
  <1>1. ASSUME BufferIInv, BufferIInv', DiskIInv, FlushAll
        PROVE  OnDisk
    <2>1. written \in Seq(Chunks) /\ buffer \in Seq(Chunks) /\ written' \in Seq(Chunks)
      BY <1>1 DEF BufferIInv, Ordered
    <2>2. 1 .. Len(written') \subseteq synced' \cup unsaved'
      BY <1>1, <2>1, SendKeepsDisk DEF FlushAll
    <2>3. buffer' = <<>> /\ DOMAIN written' = 1 .. Len(written')
      BY <1>1, <2>1 DEF FlushAll, Send
    <2> QED
      BY <2>2, <2>3
  <1>2. ASSUME [Next]_vars, alive, ~alive', registered
        PROVE  FlushAll
    <2>1. ApplicationWillTerminate
      BY <1>2 DEF Next, vars, logMessage, AppendRange, flush, setMaxBufferSizeBytes, rollLogFile,
                  didAddLogger, willRemoveLogger, dealloc, wrapWithBuffer, Exited
    <2> QED
      BY <1>2, <2>1 DEF ApplicationWillTerminate
  <1>3. ASSUME BufferIInv, BufferIInv', DiskIInv, [Next]_vars
        PROVE  [(flush \/ (alive /\ ~alive' /\ registered)) => OnDisk]_vars
    <2>1. flush => FlushAll
      BY DEF flush
    <2> HIDE DEF OnDisk
    <2> QED
      BY <1>1, <1>2, <1>3, <2>1
  <1> QED
    BY <1>3, BufferInvariance, DiskInvariance, PTL DEF Spec, FlushReachesDisk

-----------------------------------------------------------------------------
(* The size of a sequence of chunks.                                         *)

\* A set of numbers has a least element.
Smaller == {p \in Nat \X Nat : p[1] < p[2]}
LEMMA LeastNat ==
    ASSUME NEW T, T \subseteq Nat, T # {}
    PROVE  \E x \in T : \A y \in T : x <= y
  <1>1. IsWellFoundedOn(Smaller, Nat)
    BY NatLessThanWellFounded, Zenon DEF OpToRel, Smaller
  <1>2. PICK x \in T : \A y \in T : ~(<<y, x>> \in Smaller)
    BY <1>1, WFMin, Zenon
  <1>3. \A y \in T : ~(y < x)
    BY <1>2 DEF Smaller
  <1> QED
    BY <1>3

\* The sizes of the first chunks, up to the m-th.
Sums(g, s, m) == g = [n \in 0 .. m |-> IF n = 0 THEN 0 ELSE g[n - 1] + s[n].size]

\* One chunk more.
LEMMA SumsMore ==
    ASSUME NEW s \in Seq(Chunks), NEW m \in Nat, m < Len(s),
           NEW g \in [0 .. m -> Nat], Sums(g, s, m)
    PROVE  \E h \in [0 .. m + 1 -> Nat] : Sums(h, s, m + 1)
  <1>1. PICK e : e = g[m] + s[m + 1].size
    OBVIOUS
  <1>2. e \in Nat
    <2>1. s[m + 1] \in Chunks /\ g[m] \in Nat
      OBVIOUS
    <2>2. s[m + 1].size \in Nat
      BY <2>1, BufferAssumption DEF Chunks
    <2> QED
      BY <1>1, <2>1, <2>2
  <1> DEFINE h == [n \in 0 .. m + 1 |-> IF n = m + 1 THEN e ELSE g[n]]
  <1>3. h \in [0 .. m + 1 -> Nat]
    BY <1>2
  <1>4. \A n \in 0 .. m : h[n] = g[n]
    OBVIOUS
  <1>5. h[m + 1] = e
    OBVIOUS
  <1>6. \A n \in 0 .. m : g[n] = IF n = 0 THEN 0 ELSE g[n - 1] + s[n].size
    BY DEF Sums
  <1> HIDE DEF h
  <1>7. ASSUME NEW n \in 0 .. m + 1
        PROVE  h[n] = IF n = 0 THEN 0 ELSE h[n - 1] + s[n].size
    <2>1. CASE n = m + 1
      <3>1. n - 1 = m /\ n # 0 /\ h[m] = g[m]
        BY <1>4, <2>1
      <3> QED
        BY <1>1, <1>5, <2>1, <3>1
    <2>2. CASE n = 0
      BY <1>4, <1>6, <2>2
    <2>3. CASE n # 0 /\ n # m + 1
      <3>1. n \in 0 .. m /\ n - 1 \in 0 .. m
        BY <2>3
      <3>2. h[n] = g[n] /\ h[n - 1] = g[n - 1] /\ g[n] = g[n - 1] + s[n].size
        BY <1>4, <1>6, <2>3, <3>1
      <3> QED
        BY <2>3, <3>2
    <2> QED
      BY <2>1, <2>2, <2>3
  <1>8. Sums(h, s, m + 1)
    <2>1. h = [n \in 0 .. m + 1 |-> h[n]]
      BY <1>3
    <2> QED
      BY <1>7, <2>1 DEF Sums
  <1> QED
    BY <1>3, <1>8

LEMMA SumsExist ==
    ASSUME NEW s \in Seq(Chunks)
    PROVE  \E g \in [0 .. Len(s) -> Nat] : Sums(g, s, Len(s))
  <1> DEFINE NoneFor(m) == ~ \E g \in [0 .. m -> Nat] : Sums(g, s, m)
             Bad == {m \in 0 .. Len(s) : NoneFor(m)}
  <1>1. SUFFICES ASSUME Len(s) \in Bad PROVE FALSE
    OBVIOUS
  <1>2. PICK x \in Bad : \A y \in Bad : x <= y
    <2>1. Bad \subseteq Nat /\ Bad # {}
      BY <1>1
    <2> QED
      BY <2>1, LeastNat
  <1>3. x # 0
    <2>1. PICK g : g = [n \in 0 .. 0 |-> 0]
      OBVIOUS
    <2>2. g \in [0 .. 0 -> Nat]
      BY <2>1
    <2>3. Sums(g, s, 0)
      BY <2>1 DEF Sums
    <2> QED
      BY <1>2, <2>2, <2>3
  <1>4. x - 1 \in Nat /\ x - 1 < Len(s) /\ x - 1 \in 0 .. Len(s) /\ ~NoneFor(x - 1)
    <2>1. x \in 0 .. Len(s) /\ Len(s) \in Nat /\ NoneFor(x)
      BY <1>2
    <2>2. x - 1 \in Nat /\ x - 1 < Len(s) /\ x - 1 \in 0 .. Len(s) /\ ~(x <= x - 1)
      BY <1>3, <2>1
    <2>3. x - 1 \notin Bad
      BY <1>2, <2>2
    <2> QED
      BY <2>2, <2>3
  <1>5. PICK g \in [0 .. x - 1 -> Nat] : Sums(g, s, x - 1)
    BY <1>4
  <1>6. PICK m \in Nat : m = x - 1
    BY <1>4
  <1>7. \E h \in [0 .. m + 1 -> Nat] : Sums(h, s, m + 1)
    <2>1. m < Len(s) /\ g \in [0 .. m -> Nat] /\ Sums(g, s, m)
      BY <1>4, <1>5, <1>6
    <2> QED
      BY <2>1, SumsMore
  <1>8. m + 1 = x /\ NoneFor(x)
    <2>1. x \in 0 .. Len(s) /\ NoneFor(x)
      BY <1>2
    <2> HIDE DEF NoneFor
    <2> QED
      BY <1>6, <2>1
  <1> QED
    BY <1>7, <1>8

\* Two that sum up the same chunks agree.
LEMMA SumsAgree ==
    ASSUME NEW m \in Nat, NEW s, NEW t, \A n \in 1 .. m : s[n] = t[n],
           NEW i \in Nat, NEW j \in Nat, m <= i, m <= j,
           NEW g, Sums(g, s, i), NEW h, Sums(h, t, j)
    PROVE  g[m] = h[m]
  <1> DEFINE Bad == {n \in 0 .. m : g[n] # h[n]}
  <1>1. SUFFICES ASSUME m \in Bad PROVE FALSE
    OBVIOUS
  <1>2. PICK x \in Bad : \A y \in Bad : x <= y
    <2>1. Bad \subseteq Nat /\ Bad # {}
      BY <1>1
    <2> QED
      BY <2>1, LeastNat
  <1>3. /\ \A n \in 0 .. m : g[n] = IF n = 0 THEN 0 ELSE g[n - 1] + s[n].size
        /\ \A n \in 0 .. m : h[n] = IF n = 0 THEN 0 ELSE h[n - 1] + t[n].size
    <2>1. \A n \in 0 .. i : g[n] = IF n = 0 THEN 0 ELSE g[n - 1] + s[n].size
      BY DEF Sums
    <2>2. \A n \in 0 .. j : h[n] = IF n = 0 THEN 0 ELSE h[n - 1] + t[n].size
      BY DEF Sums
    <2>3. \A n \in 0 .. m : n \in 0 .. i /\ n \in 0 .. j
      OBVIOUS
    <2> QED
      BY <2>1, <2>2, <2>3
  <1>4. x \in 1 .. m
    BY <1>2, <1>3
  <1>5. x - 1 \in 0 .. m /\ ~(x <= x - 1) /\ x \in 0 .. m /\ x # 0
    BY <1>4
  <1>6. g[x - 1] = h[x - 1]
    BY <1>2, <1>5
  <1> QED
    BY <1>2, <1>3, <1>4, <1>5, <1>6

LEMMA SizeOfFirstFacts ==
    ASSUME NEW s \in Seq(Chunks)
    PROVE  /\ Sums(SizeOfFirst(s), s, Len(s))
           /\ Total(s) \in Nat
  <1>1. PICK g \in [0 .. Len(s) -> Nat] : Sums(g, s, Len(s))
    BY SumsExist
  <1>2. SizeOfFirst(s) = CHOOSE h : Sums(h, s, Len(s))
    BY DEF SizeOfFirst, Sums
  <1>3. Sums(SizeOfFirst(s), s, Len(s))
    BY <1>1, <1>2
  <1>4. Len(s) \in Nat /\ Len(s) <= Len(s)
    OBVIOUS
  <1>5. SizeOfFirst(s)[Len(s)] = g[Len(s)]
    BY <1>1, <1>3, <1>4, SumsAgree
  <1> QED
    BY <1>1, <1>3, <1>4, <1>5 DEF Total

LEMMA TotalOfNothing == Total(<<>>) = 0
  <1>1. <<>> \in Seq(Chunks) /\ Len(<<>>) = 0
    OBVIOUS
  <1>2. PICK g : g = SizeOfFirst(<<>>)
    OBVIOUS
  <1>3. Sums(g, <<>>, 0)
    BY <1>1, <1>2, SizeOfFirstFacts
  <1>4. g[0] = 0
    BY <1>3 DEF Sums
  <1> QED
    BY <1>1, <1>2, <1>4 DEF Total

\* A chunk at the end adds its size.
LEMMA TotalOfAppend ==
    ASSUME NEW s \in Seq(Chunks), NEW c \in Chunks
    PROVE  Total(Append(s, c)) = Total(s) + c.size
  <1>1. PICK t \in Seq(Chunks) : t = Append(s, c)
    <2>1. Append(s, c) \in Seq(Chunks)
      OBVIOUS
    <2> QED
      BY <2>1
  <1>2. PICK m \in Nat : m = Len(s)
    OBVIOUS
  <1>3. Len(t) = m + 1 /\ t[m + 1] = c /\ \A n \in 1 .. m : s[n] = t[n]
    BY <1>1, <1>2
  <1>4. PICK g : g = SizeOfFirst(s) /\ Sums(g, s, m) /\ Total(s) = g[m]
    BY <1>2, SizeOfFirstFacts DEF Total
  <1>5. PICK h : h = SizeOfFirst(t) /\ Sums(h, t, m + 1) /\ Total(t) = h[m + 1]
    BY <1>3, SizeOfFirstFacts DEF Total
  <1>6. g[m] = h[m]
    <2>1. m + 1 \in Nat /\ m <= m /\ m <= m + 1
      OBVIOUS
    <2> QED
      BY <1>3, <1>4, <1>5, <2>1, SumsAgree
  <1>7. h[m + 1] = h[m] + t[m + 1].size
    BY <1>5 DEF Sums
  <1> QED
    BY <1>1, <1>3, <1>4, <1>5, <1>6, <1>7

-----------------------------------------------------------------------------
(* Types and the bound of the buffer.                                        *)

SizeIInv == TypeOK /\ MemoryBounded

LEMMA SizeInitial == Init => SizeIInv
  <1> SUFFICES ASSUME Init PROVE SizeIInv
    OBVIOUS
  <1>1. TypeOK
    <2>1. /\ DefaultBufferSize \in 0 .. MaxBufferSize /\ 0 \in 0 .. MaxMessages
          /\ <<>> \in Seq(Chunks)
      BY BufferAssumption
    <2> QED
      BY <2>1 DEF Init, TypeOK
  <1>2. MemoryBounded
    BY BufferAssumption, TotalOfNothing DEF Init, MemoryBounded
  <1> QED
    BY <1>1, <1>2 DEF SizeIInv

\* Handing data over leaves a file of some size or none.
LEMMA DataTyped ==
    ASSUME SizeIInv, NEW data \in Seq(Chunks), NEW writes, NEW checks, lt_logData(data, writes, checks)
    PROVE  offset' \in Nat \cup {None}
  <1>1. Total(data) \in Nat
    BY SizeOfFirstFacts
  <1>2. Size \in Nat /\ offset \in Nat \cup {None}
    BY DEF Size, SizeIInv, TypeOK
  <1>3. CASE offset' = offset
    BY <1>2, <1>3
  <1>4. CASE Write(data, checks)
    <2>1. Size + Total(data) \in Nat
      BY <1>1, <1>2
    <2> QED
      BY <1>4, <2>1 DEF Write, Checked
  <1>5. CASE WriteFails(data, checks)
    BY <1>2, <1>5 DEF WriteFails, Checked
  <1> QED
    BY <1>3, <1>4, <1>5 DEF lt_logData

\* So do synchronising and closing it.
LEMMA DiskTyped ==
    ASSUME SizeIInv, Len(written') \in Nat, NEW syncs,
           lt_flush(syncs) \/ SynchronizeIfRolled(syncs)
    PROVE  closed' \in Nat /\ synced' \subseteq Nat /\ unsaved' \subseteq Nat
  <1>1. closed \in Nat /\ synced \subseteq Nat /\ unsaved \subseteq Nat
    BY DEF SizeIInv, TypeOK
  <1>2. OpenFile \subseteq Nat
    BY <1>1 DEF OpenFile
  <1>3. Synchronize(syncs) => synced' \subseteq Nat /\ unsaved' \subseteq Nat
    BY <1>1, <1>2 DEF Synchronize
  <1> QED
    BY <1>1, <1>3 DEF lt_flush, SynchronizeIfRolled, disk

LEMMA IncidentsTyped ==
    ASSUME SizeIInv, NEW success, Attempt(success)
    PROVE  incidents' \in Nat
  BY DEF Attempt, SizeIInv, TypeOK

\* Nothing is left in memory after it, and the rest keeps its type.
LEMMA SendBounds ==
    ASSUME SizeIInv, BufferIInv', NEW data \in Seq(Chunks), NEW flushes, Send(data, flushes),
           wrapped' \in BOOLEAN, alive' \in BOOLEAN, UNCHANGED <<registered, maxBufferSizeBytes, logged>>
    PROVE  SizeIInv'
  <1>0. PICK writes \in BOOLEAN, checks \in BOOLEAN, syncs \in BOOLEAN :
           /\ lt_logData(data, writes, checks)
           /\ lt_flush(syncs) \/ SynchronizeIfRolled(syncs)
           /\ Attempt(writes /\ checks /\ syncs)
    BY DEF Send
  <1>1. offset' \in Nat \cup {None} /\ incidents' \in Nat
    BY <1>0, DataTyped, IncidentsTyped
  <1>2. written' \in Seq(Chunks) /\ buffer' \in Seq(Chunks) /\ ranges' \in Seq(Chunks) /\ lost' \subseteq Chunks
    BY DEF BufferIInv, Ordered
  <1>3. taken' \subseteq Chunks
    BY <1>2, SetOfSequence DEF BufferIInv, Everything
  <1>4. closed' \in Nat /\ synced' \subseteq Nat /\ unsaved' \subseteq Nat
    BY <1>0, <1>2, DiskTyped
  <1>5. TypeOK'
    BY <1>1, <1>2, <1>3, <1>4 DEF Send, SizeIInv, TypeOK
  <1>6. MemoryBounded'
    BY BufferAssumption, TotalOfNothing DEF Send, MemoryBounded
  <1> QED
    BY <1>5, <1>6 DEF SizeIInv

\* What leaves the buffer alone.
LEMMA OthersBound ==
    ASSUME SizeIInv, BufferIInv', UNCHANGED memory, incidents' \in Nat,
           wrapped' \in BOOLEAN, registered' \in BOOLEAN, alive' \in BOOLEAN,
           maxBufferSizeBytes' \in 0 .. MaxBufferSize, logged' \in 0 .. MaxMessages,
           offset' \in Nat \cup {None},
           closed' \in Nat, synced' \subseteq Nat, unsaved' \subseteq Nat
    PROVE  SizeIInv'
  <1>1. UNCHANGED <<buffer, currentBufferSizeBytes>>
    BY DEF memory
  <1>2. written' \in Seq(Chunks) /\ buffer' \in Seq(Chunks) /\ ranges' \in Seq(Chunks) /\ lost' \subseteq Chunks
    BY DEF BufferIInv, Ordered
  <1>3. taken' \subseteq Chunks
    BY <1>2, SetOfSequence DEF BufferIInv, Everything
  <1>4. TypeOK'
    BY <1>1, <1>2, <1>3 DEF SizeIInv, TypeOK
  <1>5. MemoryBounded'
    BY <1>1 DEF SizeIInv, MemoryBounded
  <1> QED
    BY <1>4, <1>5 DEF SizeIInv

\* A range is added below the limit and never reaches the largest one.
LEMMA AppendBounds ==
    ASSUME SizeIInv, BufferIInv, BufferIInv', AppendRange
    PROVE  SizeIInv'
  <1>1. /\ buffer \in Seq(Chunks) /\ ranges \in Seq(Chunks) /\ ranges # <<>>
        /\ UNCHANGED <<wrapped, registered, alive, maxBufferSizeBytes, logged, taken>>
    BY DEF AppendRange, BufferIInv, Ordered, history
  <1>2. PICK c \in Chunks : c = Head(ranges) /\ c.size \in Nat
    <2>1. Head(ranges) \in Chunks
      BY <1>1
    <2>2. Head(ranges).size \in Nat
      BY <2>1, BufferAssumption DEF Chunks
    <2> QED
      BY <2>1, <2>2
  <1>3. Append(buffer, c) \in Seq(Chunks)
    BY <1>1
  <1>4. CASE Send(Append(buffer, c), FALSE)
    <2>1. wrapped' \in BOOLEAN /\ alive' \in BOOLEAN
      BY <1>1 DEF SizeIInv, TypeOK
    <2> QED
      BY <1>1, <1>3, <1>4, <2>1, SendBounds
  <1>5. CASE ~Full /\ buffer' = Append(buffer, c)
             /\ currentBufferSizeBytes' = currentBufferSizeBytes + c.size /\ UNCHANGED <<file, losses>>
    <2>1. /\ currentBufferSizeBytes \in Nat /\ maxBufferSizeBytes \in 0 .. MaxBufferSize
          /\ MaxBufferSize \in Nat
      BY BufferAssumption DEF SizeIInv, TypeOK
    <2>2. currentBufferSizeBytes' \in Nat /\ currentBufferSizeBytes' < MaxBufferSize
      BY <1>2, <1>5, <2>1 DEF Full
    <2>3. Total(buffer)' = currentBufferSizeBytes'
      <3>1. Total(Append(buffer, c)) = Total(buffer) + c.size
        BY <1>1, TotalOfAppend
      <3>2. Total(buffer)' = Total(Append(buffer, c))
        BY <1>5
      <3> QED
        BY <1>5, <3>1, <3>2 DEF SizeIInv, MemoryBounded
    <2>4. written' \in Seq(Chunks) /\ buffer' \in Seq(Chunks) /\ ranges' \in Seq(Chunks) /\ lost' \subseteq Chunks
      BY DEF BufferIInv, Ordered
    <2>5. taken' \subseteq Chunks
      BY <2>4, SetOfSequence DEF BufferIInv, Everything
    <2>6. TypeOK'
      BY <1>1, <1>5, <2>2, <2>4, <2>5 DEF file, disk, losses, SizeIInv, TypeOK
    <2> QED
      BY <2>2, <2>3, <2>6 DEF SizeIInv, MemoryBounded
  <1> QED
    BY <1>2, <1>4, <1>5 DEF AppendRange

LEMMA SizeInductive == BufferIInv /\ BufferIInv' /\ SizeIInv /\ [Next]_vars => SizeIInv'
  <1> SUFFICES ASSUME BufferIInv, BufferIInv', SizeIInv, [Next]_vars PROVE SizeIInv'
    OBVIOUS
  <1>0. buffer \in Seq(Chunks) /\ written \in Seq(Chunks) /\ TypeOK /\ Len(written) \in Nat
    BY DEF BufferIInv, Ordered, SizeIInv
  <1>1. CASE logMessage
    BY <1>0, <1>1, BufferAssumption, OthersBound DEF logMessage, TypeOK, file, disk, losses
  <1>2. CASE AppendRange
    BY <1>2, AppendBounds
  <1>3. CASE flush \/ dealloc
    BY <1>0, <1>3, SendBounds DEF flush, dealloc, FlushAll, history, TypeOK
  <1>4. CASE ApplicationWillTerminate
    <2>1. CASE registered
      BY <1>0, <1>4, <2>1, SendBounds DEF ApplicationWillTerminate, FlushAll, history, TypeOK
    <2>2. CASE ~registered
      BY <1>0, <1>4, <2>2, OthersBound DEF ApplicationWillTerminate, file, disk, losses, history, TypeOK
    <2> QED
      BY <2>1, <2>2
  <1>5. ASSUME NEW n \in BufferSizes, setMaxBufferSizeBytes(n)
        PROVE  SizeIInv'
    <2>1. maxBufferSizeBytes' \in 0 .. MaxBufferSize
      BY <1>5, BufferAssumption DEF setMaxBufferSizeBytes
    <2> QED
      BY <1>0, <1>5, <2>1, OthersBound DEF setMaxBufferSizeBytes, file, disk, losses, history, TypeOK
  <1>6. CASE rollLogFile \/ willRemoveLogger
    <2>1. Roll
      BY <1>6 DEF rollLogFile, willRemoveLogger
    <2>2. PICK syncs \in BOOLEAN : SynchronizeIfRolled(syncs) /\ Attempt(syncs)
      BY <2>1 DEF Roll
    <2>3. incidents' \in Nat /\ closed' \in Nat /\ synced' \subseteq Nat /\ unsaved' \subseteq Nat
      BY <1>0, <2>1, <2>2, DiskTyped, IncidentsTyped DEF Roll
    <2> QED
      BY <1>0, <1>6, <2>3, OthersBound DEF rollLogFile, willRemoveLogger, Roll, history, TypeOK
  <1>7. CASE didAddLogger \/ wrapWithBuffer
    BY <1>0, <1>7, BufferAssumption, OthersBound DEF didAddLogger, wrapWithBuffer, file, disk, losses, history, TypeOK
  <1>8. CASE Exited \/ UNCHANGED vars
    BY <1>0, <1>8, OthersBound DEF Exited, vars, file, disk, losses, history, TypeOK
  <1> QED
    BY <1>1, <1>2, <1>3, <1>4, <1>5, <1>6, <1>7, <1>8 DEF Next

\* The variables keep their types, and the proxy knows how much it holds: less than the
\* largest buffer, for ranges of any size and limits set at any time.
THEOREM MemoryBound == Spec => [](TypeOK /\ MemoryBounded)
  <1>1. Spec => []SizeIInv
    BY SizeInitial, SizeInductive, BufferInvariance, PTL DEF Spec
  <1> QED
    BY <1>1, PTL DEF SizeIInv
=============================================================================
