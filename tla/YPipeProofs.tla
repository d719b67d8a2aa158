---------------------------- MODULE YPipeProofs ----------------------------
(***************************************************************************)
(* Proofs about ypipe_t for every set of payloads and every bound.          *)
(***************************************************************************)
EXTENDS YPipe, SequenceTheorems, TLAPS

\* Safety needs no fairness.
SafetySpec == Init /\ [][Next]_vars

\* The inductive invariant: the pointer order alone is not inductive for the
\* wake-up, nor the wake-up without the pointer order.
IInv == TypeOK /\ PointerOrder /\ WholeMessages /\ SleepRecorded /\ DeliveredInOrder

\* What a prefix of a sequence is.
LEMMA PrefixProperties ==
  ASSUME NEW S, NEW s \in Seq(S), NEW n \in 0 .. Len(s)
  PROVE  /\ SubSeq(s, 1, n) \in Seq(S) /\ Len(SubSeq(s, 1, n)) = n
         /\ \A i \in 1 .. n : SubSeq(s, 1, n)[i] = s[i]
  <1>1. \A i \in 1 .. n : s[i] \in S
    OBVIOUS
  <1>2. 1 \in Int /\ n \in Int
    OBVIOUS
  <1>3. /\ SubSeq(s, 1, n) \in Seq(S)
        /\ Len(SubSeq(s, 1, n)) = IF 1 <= n THEN n - 1 + 1 ELSE 0
        /\ \A i \in 1 .. n - 1 + 1 : SubSeq(s, 1, n)[i] = s[1 + i - 1]
    BY <1>1, <1>2, SubSeqProperties
  <1> QED BY <1>3

\* The pipe as the constructor leaves it (ypipe.hpp:23-32).
LEMMA InitIInv == Init => IInv
  <1> SUFFICES ASSUME Init PROVE IInv
    OBVIOUS
  <1> USE DEF Init, Null, Back
  <1>1. TypeOK
    <2>1. asleep \in BOOLEAN /\ wake \in BOOLEAN
      BY Zenon
    <2>2. buf \in Seq(Item) /\ got \in Seq(Item)
      OBVIOUS
    <2> QED BY <2>1, <2>2 DEF TypeOK
  <1>2. PointerOrder /\ WholeMessages /\ DeliveredInOrder
    BY DEF PointerOrder, WholeMessages, DeliveredInOrder
  <1>3. SleepRecorded
    BY Zenon DEF SleepRecorded
  <1> QED BY <1>1, <1>2, <1>3 DEF IInv

\* write() keeps the pointers ordered and moves _f only to a message boundary.
LEMMA WriteIInv == ASSUME IInv, NEW item \in Item, Write(item) PROVE IInv'
  <1> USE DEF IInv, Null, Back, readerVars
  <1>1. TypeOK'
    BY DEF TypeOK, Write, Item
  <1>2. PointerOrder'
    BY DEF TypeOK, PointerOrder, Write
  <1>3. WholeMessages'
    BY DEF TypeOK, PointerOrder, WholeMessages, Write, Item
  <1>4. SleepRecorded'
    BY DEF SleepRecorded, Write
  <1>5. DeliveredInOrder'
    BY DEF TypeOK, PointerOrder, DeliveredInOrder, Write
  <1> QED BY <1>1, <1>2, <1>3, <1>4, <1>5

\* unwrite() removes an incomplete item only, never one the reader may see.
LEMMA UnwriteIInv == ASSUME IInv, Unwrite PROVE IInv'
  <1> USE DEF IInv, Null, Back, readerVars
  <1>0. /\ buf' \in Seq(Item) /\ Len(buf') = Len(buf) - 1
        /\ \A i \in 1 .. Len(buf) - 1 : buf'[i] = buf[i]
    <2>1. buf' = SubSeq(buf, 1, Len(buf) - 1)
      BY DEF Unwrite
    <2>2. buf \in Seq(Item) /\ Len(buf) - 1 \in 0 .. Len(buf)
      BY DEF TypeOK, PointerOrder, Unwrite
    <2> QED BY <2>1, <2>2, PrefixProperties
  <1>1. TypeOK'
    BY <1>0 DEF TypeOK, Unwrite
  <1>2. PointerOrder'
    BY <1>0 DEF TypeOK, PointerOrder, Unwrite
  <1>3. WholeMessages'
    BY <1>0 DEF TypeOK, PointerOrder, WholeMessages, Unwrite
  <1>4. SleepRecorded'
    BY DEF SleepRecorded, Unwrite
  <1>5. DeliveredInOrder'
    BY <1>0 DEF TypeOK, PointerOrder, DeliveredInOrder, Unwrite
  <1> QED BY <1>1, <1>2, <1>3, <1>4, <1>5

\* The two halves of flush(), and the caller's wake-up.
LEMMA FlushIInv == ASSUME IInv, FlushCas \/ FlushSet \/ WakeReader PROVE IInv'
  <1> USE DEF IInv, Null, Back, readerVars, FlushCas, FlushSet, WakeReader
  <1>1. TypeOK'
    BY DEF TypeOK
  <1>2. PointerOrder'
    BY DEF TypeOK, PointerOrder
  <1>3. WholeMessages'
    BY DEF TypeOK, PointerOrder, WholeMessages
  <1>4. SleepRecorded'
    <2>1. CASE FlushCas
      <3>1. c = Null => c' = Null
        BY <2>1 DEF TypeOK, PointerOrder
      <3> QED BY <2>1, <3>1 DEF SleepRecorded
    <2>2. CASE FlushSet
      BY <2>2 DEF SleepRecorded
    <2>3. CASE WakeReader
      BY <2>3 DEF SleepRecorded
    <2> QED BY <2>1, <2>2, <2>3
  <1>5. DeliveredInOrder'
    BY DEF DeliveredInOrder
  <1> QED BY <1>1, <1>2, <1>3, <1>4, <1>5

\* read() and read_if(), whatever the predicate answers, asleep or awake.
LEMMA ReadIfIInv == ASSUME IInv, NEW a \in BOOLEAN, ReadIf(a) PROVE IInv'
  <1> USE DEF IInv, Null, Back, writerVars, ReadIf, CheckRead, CheckedR,
              CheckedC, Prefetched, Readable
  <1>0. Readable => front < w
    BY DEF TypeOK, PointerOrder
  <1>1. TypeOK'
    <2>1. asleep' \in BOOLEAN /\ wake' \in BOOLEAN
      BY Zenon DEF TypeOK
    <2>2. CASE Readable /\ a
      <3>1. buf[front + 1] \in Item
        BY <1>0, <2>2 DEF TypeOK, PointerOrder
      <3> QED BY <2>1, <2>2, <3>1 DEF TypeOK
    <2>3. CASE ~(Readable /\ a)
      BY <2>1, <2>3 DEF TypeOK
    <2> QED BY <2>2, <2>3
  <1>2. PointerOrder'
    BY DEF TypeOK, PointerOrder
  <1>3. WholeMessages'
    BY DEF WholeMessages
  <1>4. SleepRecorded'
    BY DEF TypeOK, PointerOrder, SleepRecorded
  <1>5. DeliveredInOrder'
    <2>1. CASE Readable /\ a
      <3>1. front \in Nat /\ got \in Seq(Item) /\ Len(got) = front /\ \A i \in 1 .. front : got[i] = buf[i]
        BY DEF TypeOK, DeliveredInOrder
      <3>2. buf[front + 1] \in Item
        BY <1>0, <2>1 DEF TypeOK, PointerOrder
      <3>3. front' = front + 1 /\ got' = Append(got, buf[front + 1]) /\ buf' = buf
        BY <2>1
      <3>4. /\ Len(got') = front + 1 /\ got'[front + 1] = buf[front + 1]
            /\ \A i \in 1 .. front : got'[i] = got[i]
        BY <3>1, <3>2, <3>3, AppendProperties
      <3> QED BY <3>1, <3>3, <3>4 DEF DeliveredInOrder
    <2>2. CASE ~(Readable /\ a)
      BY <2>2 DEF DeliveredInOrder
    <2> QED BY <2>1, <2>2
  <1> QED BY <1>1, <1>2, <1>3, <1>4, <1>5

\* probe_if_published() and the arrival of a wake-up.
LEMMA ProbeIInv == ASSUME IInv, ProbeIfPublished \/ Awaken PROVE IInv'
  <1> USE DEF IInv, Null, Back, writerVars, ProbeIfPublished, Awaken, Prefetched
  <1>1. TypeOK'
    BY DEF TypeOK, PointerOrder
  <1>2. PointerOrder'
    BY DEF TypeOK, PointerOrder
  <1>3. WholeMessages' /\ DeliveredInOrder'
    BY DEF WholeMessages, DeliveredInOrder
  <1>4. SleepRecorded'
    BY Zenon DEF SleepRecorded
  <1> QED BY <1>1, <1>2, <1>3, <1>4

\* IInv is inductive.
LEMMA NextIInv == IInv /\ [Next]_vars => IInv'
  <1> SUFFICES ASSUME IInv, [Next]_vars PROVE IInv'
    OBVIOUS
  <1>1. CASE \E item \in Item : Write(item)
    BY <1>1, WriteIInv
  <1>2. CASE Unwrite
    BY <1>2, UnwriteIInv
  <1>3. CASE FlushCas \/ FlushSet \/ WakeReader
    BY <1>3, FlushIInv
  <1>4. CASE Read \/ PollWhileAsleep \/ ReadRejected
    BY <1>4, ReadIfIInv DEF Read, PollWhileAsleep, ReadRejected
  <1>5. CASE ProbeIfPublished \/ Awaken
    BY <1>5, ProbeIInv
  <1>6. CASE UNCHANGED vars
    BY <1>6 DEF vars, IInv, TypeOK, PointerOrder, WholeMessages, SleepRecorded,
                DeliveredInOrder, Back
  <1> QED BY <1>1, <1>2, <1>3, <1>4, <1>5, <1>6 DEF Next, Writer, Reader

\* Every state a pipe can reach satisfies the inductive invariant.
THEOREM Invariance == SafetySpec => []IInv
  BY InitIInv, NextIInv, PTL DEF SafetySpec

\* Types and pointer order hold in every reachable state (ypipe.hpp:184-201).
THEOREM Ordered == SafetySpec => [](TypeOK /\ PointerOrder)
  <1>1. IInv => TypeOK /\ PointerOrder
    BY DEF IInv
  <1> QED BY <1>1, Invariance, PTL

\* flush() never publishes part of a message (ypipe.hpp:43-56, 76-98).
THEOREM NeverPartial == SafetySpec => []WholeMessages
  <1>1. IInv => WholeMessages
    BY DEF IInv
  <1> QED BY <1>1, Invariance, PTL

\* No interleaving of check_read() and flush() strands a sleeping reader.
THEOREM WakeupNotLost == SafetySpec => []NoLostWakeup
  <1>1. IInv => NoLostWakeup
    BY DEF IInv, TypeOK, PointerOrder, SleepRecorded, NoLostWakeup, Null
  <1> QED BY <1>1, Invariance, PTL
-----------------------------------------------------------------------------
(* ypipe_t implements the FIFO channel of whole messages.                   *)

\* Two buffers that agree up to n have the same prefix of length n.
LEMMA SamePrefix ==
  ASSUME NEW S, NEW s \in Seq(S), NEW t \in Seq(S),
         NEW n \in 0 .. Len(s), n <= Len(t), \A i \in 1 .. n : s[i] = t[i]
  PROVE  SubSeq(s, 1, n) = SubSeq(t, 1, n)
  <1>1. n \in 0 .. Len(t)
    OBVIOUS
  <1>2. /\ SubSeq(s, 1, n) \in Seq(S) /\ Len(SubSeq(s, 1, n)) = n
        /\ \A i \in 1 .. n : SubSeq(s, 1, n)[i] = s[i]
    BY PrefixProperties
  <1>3. /\ SubSeq(t, 1, n) \in Seq(S) /\ Len(SubSeq(t, 1, n)) = n
        /\ \A i \in 1 .. n : SubSeq(t, 1, n)[i] = t[i]
    BY <1>1, PrefixProperties
  <1> QED BY <1>2, <1>3, SeqEqual

\* A prefix of a longer prefix.
LEMMA PrefixOfPrefix ==
  ASSUME NEW S, NEW s \in Seq(S), NEW n \in 0 .. Len(s), NEW m \in 0 .. n
  PROVE  SubSeq(SubSeq(s, 1, n), 1, m) = SubSeq(s, 1, m)
  <1>1. /\ SubSeq(s, 1, n) \in Seq(S) /\ Len(SubSeq(s, 1, n)) = n
        /\ \A i \in 1 .. n : SubSeq(s, 1, n)[i] = s[i]
    BY PrefixProperties
  <1> QED BY <1>1, SamePrefix

\* Every step of the pipe is a step of the channel or leaves it alone.
LEMMA StepRefines == IInv /\ [Next]_vars => [Channel!Next]_(Channel!vars)
  <1> SUFFICES ASSUME IInv, [Next]_vars PROVE [Channel!Next]_(Channel!vars)
    OBVIOUS
  <1> DEFINE snt == SubSeq(buf, 1, w)
  <1>0. /\ snt \in Seq(Item) /\ Len(snt) = w
        /\ \A i \in 1 .. w : snt[i] = buf[i]
    BY PrefixProperties DEF IInv, TypeOK, PointerOrder, Back
  <1>t. TypeOK /\ PointerOrder /\ TypeOK' /\ PointerOrder'
    BY NextIInv DEF IInv
  <1>1. CASE \E item \in Item : Write(item)
    <2> PICK item \in Item : Write(item)
      BY <1>1
    <2>1. SubSeq(buf', 1, w) = SubSeq(buf, 1, w)
      <3>1. \A i \in 1 .. w : buf[i] = buf'[i]
        BY <1>t DEF Write, TypeOK, PointerOrder, Back
      <3> QED BY <1>t, <3>1, SamePrefix DEF Write, TypeOK, PointerOrder, Back
    <2> QED BY <2>1 DEF Write, readerVars, Channel!vars
  <1>2. CASE Unwrite
    <2>1. SubSeq(buf', 1, w) = SubSeq(buf, 1, w)
      <3>1. w \in 0 .. Len(buf) - 1 /\ Len(buf) - 1 \in 0 .. Len(buf)
        BY <1>2, <1>t DEF Unwrite, TypeOK, PointerOrder, Back
      <3> QED BY <1>2, <1>t, <3>1, PrefixOfPrefix DEF Unwrite, TypeOK, Back
    <2> QED BY <1>2, <2>1 DEF Unwrite, readerVars, Channel!vars
  <1>3. ASSUME FlushCas \/ FlushSet, w' = f, w < f PROVE Channel!Publish
    <2> DEFINE snt2 == SubSeq(buf, 1, f)
    <2>0. buf' = buf /\ got' = got /\ f \in 1 .. Len(buf)
      BY <1>3, <1>t DEF FlushCas, FlushSet, readerVars, TypeOK, PointerOrder, Back
    <2>1. snt' = snt2
      BY <1>3, <2>0
    <2>2. /\ snt2 \in Seq(Item) /\ Len(snt2) = f
          /\ \A i \in 1 .. f : snt2[i] = buf[i]
      BY <2>0, <1>t, PrefixProperties DEF TypeOK
    <2>3. SubSeq(snt2, 1, w) = snt
      BY <1>3, <1>t, PrefixOfPrefix DEF TypeOK, PointerOrder, Back
    <2>4. ~snt2[f].more
      BY <2>0, <2>2 DEF IInv, WholeMessages
    <2> HIDE DEF snt, snt2
    <2> QED BY <1>0, <1>3, <2>0, <2>1, <2>2, <2>3, <2>4
            DEF Channel!Publish, Channel!Item, Item, snt
  <1>4. CASE FlushCas \/ FlushSet \/ WakeReader
    <2>1. CASE w' = w
      BY <1>4, <2>1 DEF FlushCas, FlushSet, WakeReader, readerVars, Channel!vars
    <2>2. CASE w' # w
      BY <1>3, <1>4, <1>t, <2>2
         DEF FlushCas, FlushSet, WakeReader, PointerOrder, TypeOK, Channel!Next
    <2> QED BY <2>1, <2>2
  <1>5. ASSUME NEW a \in BOOLEAN, ReadIf(a) PROVE [Channel!Next]_(Channel!vars)
    <2>1. CASE Readable /\ a
      <3>1. front < w /\ Len(got) = front
        BY <2>1, <1>t DEF IInv, DeliveredInOrder, Readable, CheckedR, Prefetched,
                          TypeOK, PointerOrder, Null
      <3>2. snt[Len(got) + 1] = buf[front + 1]
        BY <1>0, <1>t, <3>1 DEF TypeOK
      <3>3. snt' = snt /\ got' = Append(got, buf[front + 1])
        BY <1>5, <2>1 DEF ReadIf, writerVars
      <3> HIDE DEF snt
      <3> QED BY <1>0, <3>1, <3>2, <3>3 DEF Channel!Deliver, Channel!Next, snt
    <2>2. CASE ~(Readable /\ a)
      BY <1>5, <2>2 DEF ReadIf, writerVars, Channel!vars
    <2> QED BY <2>1, <2>2
  <1>6. CASE Read \/ PollWhileAsleep \/ ReadRejected
    BY <1>5, <1>6 DEF Read, PollWhileAsleep, ReadRejected
  <1>7. CASE ProbeIfPublished \/ Awaken
    BY <1>7 DEF ProbeIfPublished, Awaken, writerVars, Channel!vars
  <1>8. CASE UNCHANGED vars
    BY <1>8 DEF vars, Channel!vars
  <1> QED BY <1>1, <1>2, <1>4, <1>6, <1>7, <1>8 DEF Next, Writer, Reader

\* ypipe_t delivers whole messages, in order, without loss or duplication,
\* for every payload set and every interleaving of its two threads.
THEOREM PipeImplementsChannel == SafetySpec => ImplementsChannel
  <1>1. Init => Channel!Init
    BY SubSeqEmpty DEF Init, Channel!Init
  <1> QED BY <1>1, StepRefines, Invariance, PTL
          DEF SafetySpec, ImplementsChannel, Channel!Spec
=============================================================================
