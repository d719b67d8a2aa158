--------------------------- MODULE MailboxProofs ---------------------------
(***************************************************************************)
(* Proofs about the command mailbox for every set of senders and every      *)
(* number of commands.                                                      *)
(***************************************************************************)
EXTENDS Mailbox, TLAPS

\* Safety needs no fairness.
SafetySpec == Init /\ [][Next]_vars

\* A pipe whose reader is recorded as awake has a handler, or a sender that will
\* schedule one; and a reader recorded as asleep has read everything.  Without
\* the second half a send() that finds the reader awake would prove nothing.
AwakeIsServed ==
    /\ (Async /\ ~sleeping) => scheduled \/ spc # "out"
    /\ sleeping => Pending = 0

\* The termination mailbox: its one command is announced exactly once, by a
\* signal that stays in the descriptor until the waiter has taken it.
AnnouncedOnce ==
    IF Async THEN cpc # "wait" ELSE
      /\ sent = 0 => /\ sleeping /\ spc = "out" /\ ~signaled /\ fd = 0 /\ ~active
      /\ spc \in {"hint", "exchange"} => ~signaled
      /\ spc \in {"post", "out"} /\ sent = 1 => fd > 0 \/ active \/ cpc = "done"
      /\ rcvd = 1 => cpc = "done"
      /\ cpc = "wait" => ~active
      /\ cpc \in {"clear1", "drain1"} => Pending > 0

IInv == OneHandler /\ NoStrandedCommand /\ AwakeIsServed /\ AnnouncedOnce

\* recv(cmd, -1) never sleeps over the command it waits for: once send() has
\* returned, the descriptor that wait() polls is readable (ctx.cpp:
\* wait_for_reaper_done; signaler.cpp: send, recv_failable).
TerminationWaitIsWoken ==
    (cpc = "wait" /\ Pending > 0 /\ spc = "out") => fd > 0

Flags == /\ sleeping \in BOOLEAN /\ active \in BOOLEAN /\ hint \in BOOLEAN
         /\ scheduled \in BOOLEAN /\ signaled \in BOOLEAN
-----------------------------------------------------------------------------
\* The flags of the mailbox are Booleans after every step of send() and recv().
LEMMA FlagsStep == ASSUME Flags, Next PROVE Flags'
  <1> USE DEF Flags, pipeVars, signalVars
  <1>1. ASSUME NEW s \in Sender, SendPublish(s) PROVE Flags'
    BY <1>1, Zenon DEF SendPublish
  <1>2. CASE SendStep
    BY <1>2, Zenon DEF SendStep, SendHint, SignalExchange, SignalWrite, SchedulePost
  <1>3. CASE RecvStep
    BY <1>3, Zenon DEF RecvStep, RecvEnter, SignalWait, SignalClear, SignalRead,
                       RecvRead, HandlerStart, Reschedule
  <1>4. CASE WaitInterrupted
    BY <1>4, Zenon DEF WaitInterrupted
  <1> QED BY <1>1, <1>2, <1>3, <1>4 DEF Next

\* The bound of the pipe's counters, and what it leaves them.
LEMMA Counters ==
  /\ SendLimit \in Nat /\ (~Async => SendLimit = 1)
  /\ TypeOK => /\ sent \in Nat /\ rcvd \in Nat /\ Pending \in Nat
               /\ rcvd <= sent /\ sent <= SendLimit
  <1>1. SendLimit \in Nat /\ (~Async => SendLimit = 1)
    BY MaxSendsAssumption DEF SendLimit
  <1> QED BY <1>1 DEF TypeOK, Pending

\* The mailbox as its constructor and set_io_context() leave it.
LEMMA InitIInv == Init => IInv
  <1> SUFFICES ASSUME Init PROVE IInv
    OBVIOUS
  <1> USE Counters DEF Init, Async, Pending
  <1>1. OneHandler
    <2>1. Flags
      BY Zenon DEF Flags
    <2>2. ASSUME Async
          PROVE  posted + (IF Running THEN 1 ELSE 0) = (IF scheduled THEN 1 ELSE 0)
      <3>1. scheduled
        BY <2>2, Zenon
      <3>2. posted = 1 /\ cpc = "idle"
        BY <2>2
      <3> QED BY <3>1, <3>2 DEF Running
    <2> QED BY <2>1, <2>2 DEF Flags, OneHandler, TypeOK
  <1>2. NoStrandedCommand /\ AwakeIsServed /\ AnnouncedOnce
    BY DEF NoStrandedCommand, AwakeIsServed, AnnouncedOnce
  <1> QED BY <1>1, <1>2 DEF IInv

\* send() up to the flush: a sleeping reader makes the sender the one who must
\* wake it, an awake one is served already.
LEMMA PublishIInv == ASSUME IInv, NEW s \in Sender, SendPublish(s) PROVE IInv'
  <1> USE Counters DEF IInv, SendPublish, Async, Pending,
              OneHandler, TypeOK, signalVars, senderVars
  <1>0. Flags /\ Flags' /\ SendLimit' = SendLimit
    <2>1. consumer' = consumer
      BY DEF SendPublish
    <2> QED BY <2>1, FlagsStep DEF Flags, Next, SendLimit
  <1>1. OneHandler'
    BY <1>0 DEF Running, Flags
  <1>2. NoStrandedCommand'
    BY <1>0 DEF NoStrandedCommand, AwakeIsServed
  <1>3. AwakeIsServed'
    BY <1>0 DEF AwakeIsServed
  <1>4. AnnouncedOnce'
    BY <1>0 DEF AnnouncedOnce
  <1> QED BY <1>1, <1>2, <1>3, <1>4

\* The rest of send(), under _sync: the hint, the signal, the post.
LEMMA SendStepIInv == ASSUME IInv, SendStep PROVE IInv'
  <1> USE Counters DEF IInv, Async, Pending, OneHandler, TypeOK,
              pipeVars, signalVars, senderVars
  <1>0. Flags /\ Flags' /\ SendLimit' = SendLimit
    <2>1. consumer' = consumer
      BY DEF SendStep, SendHint, SignalExchange, SignalWrite, SchedulePost
    <2> QED BY <2>1, FlagsStep DEF Flags, Next, SendLimit
  <1>1. CASE SendHint
    <2>1. OneHandler'
      BY <1>0, <1>1 DEF Flags, SendHint, Running
    <2>2. NoStrandedCommand' /\ AwakeIsServed' /\ AnnouncedOnce'
      BY <1>0, <1>1 DEF SendHint, NoStrandedCommand, AwakeIsServed, AnnouncedOnce
    <2> QED BY <2>1, <2>2
  <1>2. CASE SignalExchange
    <2>1. OneHandler'
      BY <1>0, <1>2 DEF Flags, SignalExchange, Running
    <2>2. NoStrandedCommand' /\ AwakeIsServed' /\ AnnouncedOnce'
      BY <1>0, <1>2 DEF SignalExchange, NoStrandedCommand, AwakeIsServed, AnnouncedOnce
    <2> QED BY <2>1, <2>2
  <1>3. CASE SignalWrite
    <2>1. OneHandler'
      BY <1>0, <1>3 DEF Flags, SignalWrite, Running
    <2>2. NoStrandedCommand' /\ AwakeIsServed' /\ AnnouncedOnce'
      BY <1>0, <1>3 DEF SignalWrite, NoStrandedCommand, AwakeIsServed, AnnouncedOnce
    <2> QED BY <2>1, <2>2
  <1>4. CASE SchedulePost
    <2>1. OneHandler'
      BY <1>0, <1>4 DEF Flags, SchedulePost, Running
    <2>2. NoStrandedCommand' /\ AwakeIsServed' /\ AnnouncedOnce'
      BY <1>0, <1>4 DEF SchedulePost, NoStrandedCommand, AwakeIsServed, AnnouncedOnce
    <2> QED BY <2>1, <2>2
  <1> QED BY <1>1, <1>2, <1>3, <1>4 DEF SendStep

\* recv() and the handler around it.  reschedule_if_needed() is the step that
\* matters: it gives up _scheduled only after it has seen the pipe empty.
LEMMA RecvStepIInv == ASSUME IInv, RecvStep PROVE IInv'
  <1> USE Counters DEF IInv, Async, Pending, OneHandler, TypeOK,
              pipeVars, signalVars, senderVars, AfterEmpty
  <1>0. Flags /\ Flags' /\ SendLimit' = SendLimit
    <2>1. consumer' = consumer
      BY DEF RecvStep, RecvEnter, SignalWait, SignalClear, SignalRead,
             RecvRead, HandlerStart, Reschedule
    <2> QED BY <2>1, FlagsStep DEF Flags, Next, SendLimit
  <1>1. CASE RecvEnter
    <2>1. OneHandler'
      BY <1>0, <1>1 DEF Flags, RecvEnter, Running
    <2>2. NoStrandedCommand' /\ AwakeIsServed' /\ AnnouncedOnce'
      BY <1>0, <1>1 DEF RecvEnter, NoStrandedCommand, AwakeIsServed, AnnouncedOnce, Running
    <2> QED BY <2>1, <2>2
  <1>2. CASE SignalWait
    <2>1. OneHandler'
      BY <1>0, <1>2 DEF Flags, SignalWait, Running
    <2>2. NoStrandedCommand' /\ AwakeIsServed' /\ AnnouncedOnce'
      BY <1>0, <1>2 DEF SignalWait, NoStrandedCommand, AwakeIsServed, AnnouncedOnce
    <2> QED BY <2>1, <2>2
  <1>3. CASE SignalClear
    <2>1. OneHandler'
      BY <1>0, <1>3 DEF Flags, SignalClear, Running
    <2>2. NoStrandedCommand' /\ AwakeIsServed' /\ AnnouncedOnce'
      BY <1>0, <1>3 DEF SignalClear, NoStrandedCommand, AwakeIsServed, AnnouncedOnce
    <2> QED BY <2>1, <2>2
  <1>4. CASE SignalRead
    <2>1. OneHandler'
      BY <1>0, <1>4 DEF Flags, SignalRead, Running
    <2>2. NoStrandedCommand' /\ AwakeIsServed' /\ AnnouncedOnce'
      BY <1>0, <1>4 DEF SignalRead, NoStrandedCommand, AwakeIsServed, AnnouncedOnce
    <2> QED BY <2>1, <2>2
  <1>5. CASE RecvRead
    <2>1. OneHandler'
      BY <1>0, <1>5 DEF Flags, RecvRead, Running
    <2>2. NoStrandedCommand' /\ AwakeIsServed' /\ AnnouncedOnce'
      BY <1>0, <1>5 DEF RecvRead, NoStrandedCommand, AwakeIsServed, AnnouncedOnce, Running
    <2> QED BY <2>1, <2>2
  <1>6. CASE HandlerStart
    <2>1. OneHandler'
      BY <1>0, <1>6 DEF Flags, HandlerStart, Running
    <2>2. NoStrandedCommand' /\ AwakeIsServed' /\ AnnouncedOnce'
      BY <1>0, <1>6 DEF HandlerStart, NoStrandedCommand, AwakeIsServed, AnnouncedOnce
    <2> QED BY <2>1, <2>2
  <1>7. CASE Reschedule
    <2>1. OneHandler'
      BY <1>0, <1>7 DEF Flags, Reschedule, Running
    <2>2. NoStrandedCommand' /\ AwakeIsServed' /\ AnnouncedOnce'
      BY <1>0, <1>7 DEF Reschedule, NoStrandedCommand, AwakeIsServed, AnnouncedOnce
    <2> QED BY <2>1, <2>2
  <1> QED BY <1>1, <1>2, <1>3, <1>4, <1>5, <1>6, <1>7 DEF RecvStep

\* EINTR sends the blocking receiver back to recv() and touches nothing else.
LEMMA WaitInterruptedIInv == ASSUME IInv, WaitInterrupted PROVE IInv'
  <1> USE Counters DEF IInv, Async, Pending, OneHandler, TypeOK,
              pipeVars, signalVars, senderVars, WaitInterrupted
  <1>0. Flags /\ Flags' /\ SendLimit' = SendLimit
    <2>1. consumer' = consumer
      OBVIOUS
    <2> QED BY <2>1, FlagsStep DEF Flags, Next, SendLimit
  <1>1. OneHandler'
    BY <1>0 DEF Flags, Running
  <1>2. NoStrandedCommand' /\ AwakeIsServed' /\ AnnouncedOnce'
    BY <1>0 DEF NoStrandedCommand, AwakeIsServed, AnnouncedOnce
  <1> QED BY <1>1, <1>2

\* Every step of a sender or of the consumer keeps the invariant.
LEMMA NextIInv == IInv /\ [Next]_vars => IInv'
  <1> SUFFICES ASSUME IInv, [Next]_vars PROVE IInv'
    OBVIOUS
  <1>1. CASE \E s \in Sender : SendPublish(s)
    BY <1>1, PublishIInv
  <1>2. CASE SendStep
    BY <1>2, SendStepIInv
  <1>3. CASE RecvStep
    BY <1>3, RecvStepIInv
  <1>4. CASE UNCHANGED vars
    BY <1>4 DEF vars, IInv, OneHandler, TypeOK, Running, NoStrandedCommand,
                AwakeIsServed, AnnouncedOnce, Async, Pending, SendLimit
  <1>5. CASE WaitInterrupted
    BY <1>5, WaitInterruptedIInv
  <1> QED BY <1>1, <1>2, <1>3, <1>4, <1>5 DEF Next

\* The inductive invariant holds in every behaviour of the mailbox.
THEOREM Invariance == SafetySpec => []IInv
  BY InitIInv, NextIInv, PTL DEF SafetySpec

\* However many senders race with the end of a drain, _scheduled stands for
\* exactly one handler, posted or running: the command pipe never has two
\* readers (mailbox.cpp: schedule_if_needed_unlocked, reschedule_if_needed).
THEOREM HandlerIsUnique == SafetySpec => []OneHandler
  <1>1. IInv => OneHandler
    BY DEF IInv
  <1> QED BY <1>1, Invariance, PTL

\* No command stays in an executor's pipe without a handler or a sender that
\* is about to schedule one.
THEOREM CommandsAreNotStranded == SafetySpec => []NoStrandedCommand
  <1>1. IInv => NoStrandedCommand
    BY DEF IInv
  <1> QED BY <1>1, Invariance, PTL

\* zlink_ctx_term() waits for the reaper's "done" on a descriptor that is
\* readable from the moment the reaper's send() returns.
THEOREM TerminationIsAnnounced == SafetySpec => []TerminationWaitIsWoken
  <1>1. IInv => TerminationWaitIsWoken
    BY Counters DEF IInv, OneHandler, TypeOK, Running, AnnouncedOnce,
           TerminationWaitIsWoken, Pending, Async
  <1> QED BY <1>1, Invariance, PTL
=============================================================================
