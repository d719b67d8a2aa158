------------------------------- MODULE YPipe -------------------------------
(***************************************************************************)
(* The lock-free single-reader single-writer queue ypipe_t                  *)
(* (core/src/runtime/core/ypipe.hpp) under every mailbox and every pipe,    *)
(* together with the wake-up its flush() obliges the caller to deliver.     *)
(*                                                                          *)
(* A pointer into the queue is the number of items before the element it    *)
(* points to, so &_queue.front() is front, &_queue.back() is Len(buf) and   *)
(* the terminator element is the position after the last item.  buf keeps   *)
(* the items already popped: positions are never reused.                    *)
(***************************************************************************)
EXTENDS Integers, Sequences

CONSTANTS Value,        \* payloads
          MaxItems      \* bound on the items ever written

ASSUME MaxItemsAssumption == MaxItems \in Nat

VARIABLES
    buf,      \* every item written and not unwritten
    front,    \* _queue.front(): items popped so far (reader)
    w,        \* _w: first un-flushed item (writer)
    f,        \* _f: first item to be flushed in the future (writer)
    r,        \* _r: first un-prefetched item, or Null (reader)
    c,        \* _c: past the last flushed item, or Null (shared, atomic)
    wpc,      \* where the writer is inside flush() and its caller's duty
    asleep,   \* the reader was told there is nothing to read and waits
    wake,     \* a wake-up is on its way to the reader
    got       \* history: items handed to the reader

vars == <<buf, front, w, f, r, c, wpc, asleep, wake, got>>
writerVars == <<buf, w, f, wpc>>
readerVars == <<front, r, asleep, got>>

Null == -1
Item == [val : Value, more : BOOLEAN]
Back == Len(buf)

Init ==
    /\ buf = <<>> /\ front = 0
    /\ w = 0 /\ f = 0 /\ r = 0 /\ c = 0
    /\ wpc = "idle"
    /\ asleep = FALSE /\ wake = FALSE
    /\ got = <<>>
-----------------------------------------------------------------------------
(* The writer thread.                                                       *)

\* Mutant of Write: _f moves past an incomplete item too.
BugWriteFlushesParts(item) ==
    /\ wpc = "idle"
    /\ Back < MaxItems
    /\ buf' = Append(buf, item)
    /\ f' = Back + 1
    /\ UNCHANGED <<w, c, wpc, wake, readerVars>>

\* write(value_, incomplete_)
Write(item) ==
    /\ wpc = "idle"
    /\ Back < MaxItems
    /\ buf' = Append(buf, item)
    /\ f' = IF item.more THEN f ELSE Back + 1
    /\ UNCHANGED <<w, c, wpc, wake, readerVars>>

\* Mutants of Unwrite: without its guard; and rewinding _f as well.
BugUnwriteAnything ==
    /\ wpc = "idle"
    /\ Back > 0
    /\ buf' = SubSeq(buf, 1, Back - 1)
    /\ UNCHANGED <<w, f, c, wpc, wake, readerVars>>

\* unwrite(value_): only an incomplete item can be taken back.
Unwrite ==
    /\ wpc = "idle"
    /\ f # Back
    /\ buf' = SubSeq(buf, 1, Back - 1)
    /\ UNCHANGED <<w, f, c, wpc, wake, readerVars>>

\* Mutant of FlushCas: publishes up to the terminator instead of up to _f.
BugFlushToBack ==
    /\ wpc = "idle"
    /\ w # f
    /\ \/ /\ c = w
          /\ c' = Back
          /\ w' = Back
          /\ wpc' = wpc
       \/ /\ c # w
          /\ wpc' = "set"
          /\ UNCHANGED <<c, w>>
    /\ UNCHANGED <<buf, f, wake, readerVars>>

\* flush() up to the compare-and-swap: on success the reader is alive and _w
\* moves; on failure the reader is asleep and _c is stored in a step of its own.
FlushCas ==
    /\ wpc = "idle"
    /\ w # f
    /\ \/ /\ c = w
          /\ c' = f
          /\ w' = f
          /\ wpc' = wpc
       \/ /\ c # w
          /\ wpc' = "set"
          /\ UNCHANGED <<c, w>>
    /\ UNCHANGED <<buf, f, wake, readerVars>>

\* Mutant of FlushSet: reports success, so the caller owes no wake-up.
BugFlushForgetsSleeper ==
    /\ wpc = "set"
    /\ c' = f
    /\ w' = f
    /\ wpc' = "idle"
    /\ UNCHANGED <<buf, f, wake, readerVars>>

\* _c.set(_f); _w = _f; return false
FlushSet ==
    /\ wpc = "set"
    /\ c' = f
    /\ w' = f
    /\ wpc' = "wake"
    /\ UNCHANGED <<buf, f, wake, readerVars>>

\* The caller wakes the reader "before using the pipe again".
WakeReader ==
    /\ wpc = "wake"
    /\ wake' = TRUE
    /\ wpc' = "idle"
    /\ UNCHANGED <<buf, w, f, c, readerVars>>
-----------------------------------------------------------------------------
(* The reader thread.                                                       *)

Prefetched == r # Null /\ front # r

\* check_read(): the value of _r after the call, and of _c.
CheckedR == IF Prefetched THEN r ELSE c
BugCheckedCNeverNull == c      \* mutant: a plain load instead of the CAS
CheckedC == IF ~Prefetched /\ c = front THEN Null ELSE c
Readable == CheckedR # Null /\ CheckedR # front

CheckRead == r' = CheckedR /\ c' = CheckedC

\* read(), and read_if() with accept_ the predicate's answer: empty, rejected
\* or consumed.  A reader that finds nothing goes to sleep; mailboxes also call
\* this while asleep, and a success makes them active again.
ReadIf(accept_) ==
    /\ CheckRead
    /\ asleep' = ~Readable
    /\ IF Readable /\ accept_
         THEN front' = front + 1 /\ got' = Append(got, buf[front + 1])
         ELSE UNCHANGED <<front, got>>
    /\ UNCHANGED <<writerVars, wake>>

Read == ~asleep /\ ReadIf(TRUE)
PollWhileAsleep == asleep /\ ReadIf(TRUE)
ReadRejected == ~asleep /\ ReadIf(FALSE)

\* probe_if_published(): prefetches without ever storing Null in _c.
ProbeIfPublished ==
    /\ ~Prefetched
    /\ c # Null /\ c # front
    /\ r' = c
    /\ UNCHANGED <<front, asleep, got, writerVars, c, wake>>

\* The wake-up reaches the reader.
Awaken ==
    /\ wake
    /\ wake' = FALSE
    /\ asleep' = FALSE
    /\ UNCHANGED <<front, r, got, writerVars, c>>
-----------------------------------------------------------------------------
Writer == (\E item \in Item : Write(item)) \/ Unwrite \/ FlushCas \/ FlushSet \/ WakeReader
Reader == Read \/ PollWhileAsleep \/ ReadRejected \/ ProbeIfPublished \/ Awaken

Next == Writer \/ Reader

\* A writer inside flush() runs on and wakes the reader; an awake reader reads
\* and a woken one wakes.  Nothing makes the writer write or flush, nor a
\* sleeping reader poll.
Fairness ==
    /\ WF_vars(FlushSet) /\ WF_vars(WakeReader)
    /\ WF_vars(Read) /\ WF_vars(Awaken)

Spec == Init /\ [][Next]_vars /\ Fairness
-----------------------------------------------------------------------------
TypeOK ==
    /\ buf \in Seq(Item) /\ got \in Seq(Item)
    /\ front \in Nat /\ w \in Nat /\ f \in Nat
    /\ r \in Nat \cup {Null} /\ c \in Nat \cup {Null}
    /\ wpc \in {"idle", "set", "wake"}
    /\ asleep \in BOOLEAN /\ wake \in BOOLEAN

\* The pointers never cross: the reader stays behind what is published, what is
\* published behind what is complete, and _c is either Null with nothing left to
\* read or exactly the writer's _w.  (ypipe.hpp: flush, check_read, unwrite.)
PointerOrder ==
    /\ front <= w /\ w <= f /\ f <= Back
    /\ r # Null => front <= r /\ r <= w
    /\ c = w \/ (c = Null /\ front = w)
    /\ wpc = "set" => c = Null /\ w < f

\* "Incomplete items are never flushed down the stream": both the publication
\* point and the flush target lie between two messages.
WholeMessages ==
    /\ f > 0 => ~buf[f].more
    /\ w > 0 => ~buf[w].more
    /\ \A i \in f + 1 .. Back : buf[i].more

\* A sleeping reader with something published has a wake-up on its way, or the
\* writer has yet to perform the one flush() asked for.
NoLostWakeup ==
    (asleep /\ front < w) => wake \/ wpc = "wake"

\* Why NoLostWakeup holds: sleep is recorded in _c until the writer sees it.
SleepRecorded ==
    asleep => c = Null \/ wake \/ wpc = "wake"

\* The reader gets the items written, each once, in order (read, read_if).
DeliveredInOrder ==
    /\ Len(got) = front
    /\ \A i \in 1 .. front : got[i] = buf[i]

\* Whatever is published is read, however the reader's going to sleep
\* interleaves with the writer's flush.
PublishedIsRead ==
    \A n \in 1 .. MaxItems : (w >= n) ~> (front >= n)

\* ypipe_t implements the FIFO channel of whole messages.
Channel == INSTANCE FifoChannel WITH sent <- SubSeq(buf, 1, w), rcvd <- got
ImplementsChannel == Channel!Spec
=============================================================================
