------------------------------ MODULE Mailbox ------------------------------
(***************************************************************************)
(* The command mailbox (core/src/runtime/core/mailbox.cpp) with many        *)
(* senders and the two consumers that own a mailbox for life:               *)
(*                                                                          *)
(*   "executor"  an io_thread_t or the reaper_t: an asio handler posted by  *)
(*               send() drains with recv(cmd, 0) and ends with              *)
(*               reschedule_if_needed()                                     *)
(*   "blocking"  ctx_t::wait_for_reaper_done(), which calls recv(cmd, -1)   *)
(*               on the termination mailbox until one command arrives       *)
(*                                                                          *)
(* The command pipe is used through the contract YPipe is shown to meet: a  *)
(* FIFO (commands are numbered in publication order, so it is the pair sent,*)
(* rcvd) and a bit saying that the reader was told it is empty.  Neither    *)
(* consumer has pollers registered nor a descriptor handed out, so          *)
(* _signalers is empty and _primary_signaler_required is false.             *)
(***************************************************************************)
EXTENDS Integers, FiniteSets

CONSTANTS Sender,       \* sending threads
          MaxSends      \* bound on the commands sent to an executor

ASSUME MaxSendsAssumption == MaxSends \in Nat

VARIABLES
    consumer,    \* whose mailbox this is: "executor" or "blocking"
    sent,        \* commands published into _cpipe
    rcvd,        \* commands read out of _cpipe
    sleeping,    \* _cpipe._c is NULL: the next flush() reports a sleeping reader
    holder,      \* the sender inside _sync, or NoOne
    spc,         \* where that sender is in send()
    active,      \* _active
    hint,        \* _command_pending_hint
    scheduled,   \* _scheduled
    posted,      \* asio handlers posted and not yet started
    signaled,    \* _signaler._signaled
    fd,          \* _signaler's eventfd counter
    cpc          \* where the consumer is

vars == <<consumer, sent, rcvd, sleeping, holder, spc, active, hint, scheduled,
          posted, signaled, fd, cpc>>
pipeVars == <<sent, rcvd, sleeping>>
signalVars == <<signaled, fd>>
senderVars == <<holder, spc>>

NoOne == "no one"
Async == consumer = "executor"
Pending == sent - rcvd

\* The termination mailbox gets one command, the reaper's "done" (_done_sent).
SendLimit == IF Async THEN MaxSends ELSE 1

\* mailbox_t::mailbox_t(), then for an executor set_io_context() and the
\* schedule_if_needed() its constructor ends with.
Init ==
    /\ consumer \in {"executor", "blocking"}
    /\ sent = 0 /\ rcvd = 0
    /\ sleeping = TRUE
    /\ holder = NoOne /\ spc = "out"
    /\ active = FALSE /\ hint = FALSE
    /\ scheduled = Async
    /\ posted = IF Async THEN 1 ELSE 0
    /\ signaled = FALSE /\ fd = 0
    /\ cpc = IF Async THEN "idle" ELSE "recv"
-----------------------------------------------------------------------------
(* send(): everything below runs under _sync, one step per access that the  *)
(* consumer can see.                                                        *)

\* Lock; _cpipe.write(); _cpipe.flush().  A reader that is awake needs nothing
\* more and the lock is released.
SendPublish(s) ==
    /\ holder = NoOne
    /\ sent < SendLimit
    /\ sent' = sent + 1
    /\ sleeping' = FALSE
    /\ IF sleeping THEN holder' = s /\ spc' = "hint"
                   ELSE UNCHANGED senderVars
    /\ UNCHANGED <<consumer, rcvd, active, hint, scheduled, posted, signalVars, cpc>>

\* Mutant of SendHint: a consumer without an executor is not signaled.
BugNoSignal ==
    /\ spc = "hint"
    /\ hint' = TRUE
    /\ spc' = "post"
    /\ UNCHANGED <<consumer, pipeVars, holder, active, scheduled, posted, signalVars, cpc>>

\* _command_pending_hint.store(true), then the test of the primary signaler.
SendHint ==
    /\ spc = "hint"
    /\ hint' = TRUE
    /\ spc' = IF Async THEN "post" ELSE "exchange"
    /\ UNCHANGED <<consumer, pipeVars, holder, active, scheduled, posted, signalVars, cpc>>

\* signaler_t::send(): _signaled.exchange(true) folds repeated signals.
SignalExchange ==
    /\ spc = "exchange"
    /\ signaled' = TRUE
    /\ spc' = IF signaled THEN "post" ELSE "write"
    /\ UNCHANGED <<consumer, pipeVars, holder, active, hint, scheduled, posted, fd, cpc>>

\* signaler_t::send(): write() to the eventfd.
SignalWrite ==
    /\ spc = "write"
    /\ fd' = fd + 1
    /\ spc' = "post"
    /\ UNCHANGED <<consumer, pipeVars, holder, active, hint, scheduled, posted, signaled, cpc>>

\* Mutant of SchedulePost: posts whether or not a handler is scheduled.
BugPostAlways ==
    /\ spc = "post"
    /\ IF Async
         THEN scheduled' = TRUE /\ posted' = posted + 1
         ELSE UNCHANGED <<scheduled, posted>>
    /\ spc' = "out" /\ holder' = NoOne
    /\ UNCHANGED <<consumer, pipeVars, active, hint, signalVars, cpc>>

\* schedule_if_needed_unlocked(), then unlock.
SchedulePost ==
    /\ spc = "post"
    /\ IF Async /\ ~scheduled
         THEN scheduled' = TRUE /\ posted' = posted + 1
         ELSE UNCHANGED <<scheduled, posted>>
    /\ spc' = "out" /\ holder' = NoOne
    /\ UNCHANGED <<consumer, pipeVars, active, hint, signalVars, cpc>>
-----------------------------------------------------------------------------
(* recv(cmd_, timeout_, true): timeout_ is 0 for an executor, -1 otherwise. *)

\* Where a recv() that returns EAGAIN leaves the consumer.
AfterEmpty == IF Async THEN "resched" ELSE "recv"

\* activate_if_command_pending(true), and the test that follows it.  An
\* executor whose own post woke it leaves the signaler alone.
RecvEnter ==
    /\ cpc = "recv"
    /\ \/ /\ active
          /\ cpc' = "read"
          /\ UNCHANGED <<active, sleeping>>
       \/ /\ ~active /\ Pending > 0
          /\ IF scheduled THEN active' = TRUE /\ cpc' = "read"
                          ELSE active' = active /\ cpc' = "clear1"
          /\ UNCHANGED sleeping
       \/ /\ ~active /\ Pending = 0
          /\ sleeping' = TRUE
          /\ cpc' = IF Async THEN "clear2" ELSE "wait"
          /\ UNCHANGED active
    /\ UNCHANGED <<consumer, sent, rcvd, senderVars, hint, scheduled, posted, signalVars>>

\* _signaler.wait(-1) returns 0: the descriptor is readable.
SignalWait ==
    /\ cpc = "wait"
    /\ fd > 0
    /\ cpc' = "clear2"
    /\ UNCHANGED <<consumer, pipeVars, senderVars, active, hint, scheduled, posted, signalVars>>

\* A signal interrupts the poll: wait() fails with EINTR, which recv() reports
\* and wait_for_reaper_done() retries.  It may happen; nothing makes it happen.
WaitInterrupted ==
    /\ cpc = "wait"
    /\ cpc' = "recv"
    /\ UNCHANGED <<consumer, pipeVars, senderVars, active, hint, scheduled, posted, signalVars>>

\* signaler_t::recv_failable(), first half: _signaled.store(false).  "1" is the
\* call in activate_if_command_pending, which ignores the result, "2" the one in
\* recv() itself.
SignalClear ==
    /\ cpc \in {"clear1", "clear2"}
    /\ signaled' = FALSE
    /\ cpc' = IF cpc = "clear1" THEN "drain1" ELSE "drain2"
    /\ UNCHANGED <<consumer, pipeVars, senderVars, active, hint, scheduled, posted, fd>>

\* recv_failable(), second half: read() takes the whole counter and writes back
\* all but one; it fails when the counter is zero or the call is interrupted,
\* and either failure is reported as EAGAIN.
SignalRead ==
    /\ cpc \in {"drain1", "drain2"}
    /\ \E got \in {n \in {0, 1} : n <= fd} :
          /\ fd' = fd - got
          /\ IF got = 1 \/ cpc = "drain1"
               THEN active' = TRUE /\ cpc' = "read"
               ELSE active' = active /\ cpc' = AfterEmpty
    /\ UNCHANGED <<consumer, pipeVars, senderVars, hint, scheduled, posted, signaled>>

\* _cpipe.read(cmd_): a command, or the end of the batch.
RecvRead ==
    /\ cpc = "read"
    /\ IF Pending > 0
         THEN /\ rcvd' = rcvd + 1
              /\ cpc' = IF Async THEN "recv" ELSE "done"
              /\ UNCHANGED <<sleeping, active>>
         ELSE /\ sleeping' = TRUE
              /\ active' = FALSE
              /\ cpc' = AfterEmpty
              /\ UNCHANGED rcvd
    /\ UNCHANGED <<consumer, sent, senderVars, hint, scheduled, posted, signalVars>>

\* The io_context runs the posted handler.
HandlerStart ==
    /\ cpc = "idle"
    /\ posted > 0
    /\ posted' = posted - 1
    /\ cpc' = "recv"
    /\ UNCHANGED <<consumer, pipeVars, senderVars, active, hint, scheduled, signalVars>>

\* Mutant of Reschedule: clears _scheduled without looking at the pipe again.
BugNoRecheck ==
    /\ cpc = "resched"
    /\ holder = NoOne
    /\ scheduled' = FALSE
    /\ cpc' = "idle"
    /\ UNCHANGED <<consumer, pipeVars, senderVars, active, hint, posted, signalVars>>

\* reschedule_if_needed(), under _sync.
Reschedule ==
    /\ cpc = "resched"
    /\ holder = NoOne
    /\ IF Pending > 0
         THEN scheduled' = TRUE /\ cpc' = "recv" /\ sleeping' = sleeping
         ELSE scheduled' = FALSE /\ cpc' = "idle" /\ sleeping' = TRUE
    /\ UNCHANGED <<consumer, sent, rcvd, senderVars, active, hint, posted, signalVars>>
-----------------------------------------------------------------------------
SendStep == SendHint \/ SignalExchange \/ SignalWrite \/ SchedulePost
RecvStep == RecvEnter \/ SignalWait \/ SignalClear \/ SignalRead \/ RecvRead
                \/ HandlerStart \/ Reschedule

Next == (\E s \in Sender : SendPublish(s)) \/ SendStep \/ RecvStep \/ WaitInterrupted

\* A sender inside send() runs on; so do the executor and a receiver whose
\* descriptor is readable.  A wait is not fair to be interrupted.
Spec == Init /\ [][Next]_vars /\ WF_vars(SendStep) /\ WF_vars(RecvStep)
-----------------------------------------------------------------------------
TypeOK ==
    /\ consumer \in {"executor", "blocking"}
    /\ sent \in 0 .. SendLimit /\ rcvd \in 0 .. sent
    /\ holder \in Sender \cup {NoOne}
    /\ spc \in {"out", "hint", "exchange", "write", "post"}
    /\ sleeping \in BOOLEAN /\ active \in BOOLEAN /\ hint \in BOOLEAN
    /\ scheduled \in BOOLEAN /\ signaled \in BOOLEAN
    /\ posted \in Nat /\ fd \in Nat
    /\ cpc \in {"idle", "recv", "wait", "clear1", "clear2", "drain1", "drain2",
                "read", "resched", "done"}

Running == cpc \notin {"idle", "done"}

\* The command pipe has one reader: at most one handler is posted or running,
\* and exactly one while _scheduled is set (mailbox.cpp: send, _scheduled).
OneHandler ==
    /\ TypeOK
    /\ Async => posted + (IF Running THEN 1 ELSE 0) = (IF scheduled THEN 1 ELSE 0)

\* A command in the pipe is never forgotten: a handler will run, or the sender
\* that published it is still inside send() and will schedule one.
NoStrandedCommand ==
    (Async /\ Pending > 0) => scheduled \/ spc # "out"

\* Every command sent to an executor is received, however it interleaves with
\* the end of a drain; and recv(cmd, -1) of the termination wait, which only the
\* signal can be relied on to wake, returns once "done" was sent.
CommandsAreReceived ==
    \A n \in 1 .. MaxSends : (sent >= n) ~> (rcvd >= n)
=============================================================================
