----------------------------- MODULE SocketTurn -----------------------------
(***************************************************************************)
(* A socket's mailbox while the threads that call the public API own its    *)
(* commands (no async executor installed): who drains, who waits, and how a *)
(* waiter learns of a command.                                              *)
(*                                                                          *)
(*   Receiver  a thread in a blocking socket_base_t::recv() (at most one,   *)
(*             as the guide asks)                                           *)
(*   Puller    a thread in a blocking zlink_completion_recv(), whose wait   *)
(*             is socket_base_t::prepare_completion_pull() (at most one)    *)
(*   Caller    threads in any other public call, say send(), that drains    *)
(*             commands in passing with process_commands(0, ...)            *)
(*                                                                          *)
(* Commands: "read" is activate_read of an application pipe, "reply" the    *)
(* same of a completion pipe, "wake" a request_completion.  Blocking calls  *)
(* have no time limit (RCVTIMEO -1).                                        *)
(***************************************************************************)
EXTENDS Naturals, Sequences

CONSTANTS Receiver, Puller, Caller,
          PollRate,       \* inbound_poll_rate: commands one drain may apply
          MaxMessages,    \* bound on application messages from the peer
          MaxReplies,     \* bound on replies from the peer
          MaxCalls,       \* bound on the Callers' drains
          MaxSignals,     \* bound on commandless signal() edges
          ReceiverShares  \* others may call the socket while recv() blocks

Thread == Receiver \cup Puller \cup Caller
NoOne == "no one"

ASSUME RolesAssumption ==
    /\ Receiver \cap Puller = {} /\ Caller \cap (Receiver \cup Puller) = {}
    /\ \A t, u \in Receiver : t = u
    /\ \A t, u \in Puller : t = u
    /\ NoOne \notin Thread /\ PollRate \in Nat \ {0} /\ ReceiverShares \in BOOLEAN

VARIABLES
    mq,          \* commands in the mailbox's _cpipe
    asleep,      \* _cpipe's reader was told it is empty
    hint,        \* _command_pending_hint
    sending,     \* a send() woke the mailbox and is still inside _sync
    epoch,       \* _command_wait_epoch
    sigPending,  \* _command_wait_signal_pending
    observers,   \* threads between begin_ and end_command_wait_observation()
    turn,        \* the thread that owns the socket turn, or NoOne
    applied,     \* commands applied by the drain in progress
    pc,          \* per thread: where it is
    phase,       \* per thread: the timeout its drain has, 0 ("poll") or -1 ("block")
    woke,        \* per thread: woke_since_last_claim
    obs,         \* per thread: the command epoch it observed
    msgs, pipeAsleep, readable, got,    \* application pipe and recv() results
    replies, repliesAsleep, queued, reqPending, ready, pulled,  \* completions
    arrived, calls, signals             \* totals against the bounds

mailVars == <<mq, asleep, hint, sending, epoch, sigPending>>
threadVars == <<pc, phase, woke, obs, observers>>
appVars == <<msgs, pipeAsleep, readable, got>>
replyVars == <<replies, repliesAsleep, queued, reqPending, ready, pulled>>
boundVars == <<arrived, calls, signals>>
vars == <<mailVars, threadVars, turn, applied, appVars, replyVars, boundVars>>

\* _command_waiters is the number of threads inside the condition wait.
Waiters == {t \in Thread : pc[t] = "asleep"}

\* The threads that use the socket together.
Together == IF ReceiverShares THEN {Thread} ELSE {Receiver, Puller \cup Caller}

Init ==
    /\ mq = <<>> /\ asleep = TRUE /\ hint = FALSE /\ sending = FALSE
    /\ epoch = 0 /\ sigPending = FALSE /\ observers = {}
    /\ turn = NoOne /\ applied = 0
    /\ \E users \in Together :
          pc = [t \in Thread |-> IF t \notin users THEN "absent"
                                 ELSE IF t \in Receiver THEN "try"
                                 ELSE IF t \in Puller THEN "check" ELSE "out"]
    /\ phase = [t \in Thread |-> IF t \in Receiver THEN "first" ELSE "poll"]
    /\ woke = [t \in Thread |-> FALSE]
    /\ obs = [t \in Thread |-> 0]
    /\ msgs = 0 /\ pipeAsleep = TRUE /\ readable = FALSE /\ got = 0
    /\ replies = 0 /\ repliesAsleep = TRUE /\ queued = FALSE
    /\ reqPending = FALSE /\ ready = 0 /\ pulled = 0
    /\ arrived = [kind \in {"read", "reply"} |-> 0]
    /\ calls = 0 /\ signals = 0
-----------------------------------------------------------------------------
(* mailbox_t, as a socket uses it.                                          *)

\* Mutant of Bumped: the epoch does not move for a thread that only observes.
BugBumpedForSleepers == IF Waiters # {} THEN epoch + 1 ELSE epoch

Bumped == IF observers # {} \/ Waiters # {} THEN epoch + 1 ELSE epoch

\* send(), up to the point where it has found the reader asleep or not.
Enqueue(cmd) ==
    /\ ~sending
    /\ mq' = Append(mq, cmd)
    /\ asleep' = FALSE
    /\ sending' = asleep
    /\ epoch' = Bumped

\* The rest of send() for a sleeping reader: the hint, then unlock.  The socket
\* has no poller, and its signaler has no waiter.
SendHint ==
    /\ sending
    /\ hint' = TRUE
    /\ sending' = FALSE
    /\ UNCHANGED <<mq, asleep, epoch, sigPending, threadVars, turn, applied,
                   appVars, replyVars, boundVars>>

\* signal(): a commandless edge, say from a newly writable pipe.
Signal ==
    /\ signals < MaxSignals
    /\ ~sending
    /\ signals' = signals + 1
    /\ epoch' = Bumped
    /\ sigPending' = (sigPending \/ (Waiters = {} /\ observers = {}))
    /\ UNCHANGED <<mq, asleep, hint, sending, threadVars, turn, applied, appVars,
                   replyVars, arrived, calls>>
-----------------------------------------------------------------------------
(* The peer: a write that finds the inbound reader asleep sends a command.  *)

PeerWrite ==
    /\ arrived["read"] < MaxMessages
    /\ arrived' = [arrived EXCEPT !["read"] = @ + 1]
    /\ msgs' = msgs + 1
    /\ pipeAsleep' = FALSE
    /\ IF pipeAsleep THEN Enqueue("read")
                     ELSE UNCHANGED <<mq, asleep, sending, epoch>>
    /\ UNCHANGED <<hint, sigPending, threadVars, turn, applied, readable, got,
                   replyVars, calls, signals>>

PeerReply ==
    /\ arrived["reply"] < MaxReplies
    /\ arrived' = [arrived EXCEPT !["reply"] = @ + 1]
    /\ replies' = replies + 1
    /\ repliesAsleep' = FALSE
    /\ IF repliesAsleep THEN Enqueue("reply")
                        ELSE UNCHANGED <<mq, asleep, sending, epoch>>
    /\ UNCHANGED <<hint, sigPending, threadVars, turn, applied, appVars, queued,
                   reqPending, ready, pulled, calls, signals>>
-----------------------------------------------------------------------------
(* process_commands(): one claim of the turn, one step per command.         *)

Step(t, where) == pc' = [pc EXCEPT ![t] = where]

\* Take the turn, then take_command_pending_hint().
Claim(t) ==
    /\ pc[t] = "claim"
    /\ turn = NoOne
    /\ turn' = t
    /\ applied' = 0
    /\ hint' = FALSE
    /\ Step(t, "drain")
    /\ UNCHANGED <<mq, asleep, sending, epoch, sigPending, phase, woke, obs,
                   observers, appVars, replyVars, boundVars>>

\* process_command(): activate_read makes the application pipe readable; that of
\* a completion pipe is left to the completion owner and announced to it, once.
Apply(cmd) ==
    CASE cmd = "read" ->
            /\ readable' = TRUE
            /\ mq' = Tail(mq)
            /\ UNCHANGED <<epoch, queued, reqPending>>
      [] cmd = "reply" ->
            /\ ~sending
            /\ queued' = TRUE
            /\ reqPending' = TRUE
            /\ mq' = IF reqPending THEN Tail(mq) ELSE Append(Tail(mq), "wake")
            /\ epoch' = IF reqPending THEN epoch ELSE Bumped
            /\ UNCHANGED readable
      [] cmd = "wake" ->
            /\ mq' = Tail(mq)
            /\ UNCHANGED <<epoch, queued, reqPending, readable>>

\* recv(cmd, 0, false) returned a command: apply it under the turn.
DrainOne(t) ==
    /\ pc[t] = "drain"
    /\ applied < PollRate
    /\ mq # <<>>
    /\ Apply(Head(mq))
    /\ applied' = applied + 1
    /\ UNCHANGED <<asleep, hint, sending, sigPending, threadVars, turn, msgs,
                   pipeAsleep, got, replies, repliesAsleep, ready, pulled, boundVars>>

\* Where a thread goes when process_commands() returns.
Returned(t) ==
    CASE t \in Receiver -> "try"
      [] t \in Caller -> "out"
      [] t \in Puller -> IF phase[t] = "poll" THEN "collect" ELSE "end"

\* recv() found the pipe empty, or inbound_poll_rate was reached: release the
\* turn, and return if there was a command, a wake-up, or no time to wait.
DrainEnd(t) ==
    /\ pc[t] = "drain"
    /\ \/ applied = PollRate /\ UNCHANGED asleep
       \/ applied < PollRate /\ mq = <<>> /\ asleep' = TRUE
    /\ turn' = NoOne
    /\ Step(t, IF applied > 0 \/ woke[t] \/ phase[t] = "poll" THEN Returned(t) ELSE "wait")
    /\ UNCHANGED <<mq, hint, sending, epoch, sigPending, phase, woke, obs,
                   observers, applied, appVars, replyVars, boundVars>>

\* Mutant of WaitEnter: the epoch observed before the ready check is not used.
BugWaitIgnoresObserved(t) ==
    /\ pc[t] = "wait"
    /\ ~sending
    /\ IF hint \/ sigPending
         THEN /\ sigPending' = FALSE
              /\ woke' = [woke EXCEPT ![t] = TRUE]
              /\ Step(t, "claim")
              /\ UNCHANGED obs
         ELSE /\ obs' = [obs EXCEPT ![t] = epoch]
              /\ Step(t, "asleep")
              /\ UNCHANGED <<sigPending, woke>>
    /\ UNCHANGED <<mq, asleep, hint, sending, epoch, phase, observers, turn,
                   applied, appVars, replyVars, boundVars>>

\* wait_for_command_signal(), entry: only a Puller passes an observed epoch.
WaitEnter(t) ==
    /\ pc[t] = "wait"
    /\ ~sending
    /\ IF hint \/ sigPending \/ (t \in Puller /\ epoch # obs[t])
         THEN /\ sigPending' = FALSE
              /\ woke' = [woke EXCEPT ![t] = TRUE]
              /\ Step(t, "claim")
              /\ UNCHANGED obs
         ELSE /\ obs' = [obs EXCEPT ![t] = epoch]
              /\ Step(t, "asleep")
              /\ UNCHANGED <<sigPending, woke>>
    /\ UNCHANGED <<mq, asleep, hint, sending, epoch, phase, observers, turn,
                   applied, appVars, replyVars, boundVars>>

\* wait_for_command_signal(), the condition became true.
Wake(t) == epoch # obs[t] \/ hint \/ sigPending

WaitReturn(t) ==
    /\ pc[t] = "asleep"
    /\ ~sending
    /\ Wake(t)
    /\ sigPending' = FALSE
    /\ woke' = [woke EXCEPT ![t] = TRUE]
    /\ Step(t, "claim")
    /\ UNCHANGED <<mq, asleep, hint, sending, epoch, phase, obs, observers, turn,
                   applied, appVars, replyVars, boundVars>>
-----------------------------------------------------------------------------
(* recv(): xrecv() under the turn, then process_commands() until it pays.   *)

\* Mutant of RecvTry: an xrecv() that finds nothing does not leave the inbound
\* pipe asleep, so the peer's next write sends no activate_read.
BugRecvLeavesPipeAwake(t) ==
    /\ t \in Receiver /\ pc[t] = "try"
    /\ turn = NoOne
    /\ IF readable /\ msgs > 0
         THEN /\ msgs' = msgs - 1 /\ got' = got + 1
              /\ phase' = [phase EXCEPT ![t] = "first"]
              /\ UNCHANGED <<readable, pc, woke>>
         ELSE /\ readable' = FALSE
              /\ \/ phase' = [phase EXCEPT ![t] = "block"]
                 \/ phase[t] = "first" /\ phase' = [phase EXCEPT ![t] = "poll"]
              /\ woke' = [woke EXCEPT ![t] = FALSE]
              /\ Step(t, "claim")
              /\ UNCHANGED <<msgs, got>>
    /\ UNCHANGED <<mailVars, obs, observers, turn, applied, pipeAsleep, replyVars, boundVars>>

RecvTry(t) ==
    /\ t \in Receiver /\ pc[t] = "try"
    /\ turn = NoOne
    /\ IF readable /\ msgs > 0
         THEN /\ msgs' = msgs - 1 /\ got' = got + 1
              /\ phase' = [phase EXCEPT ![t] = "first"]
              /\ UNCHANGED <<readable, pipeAsleep, pc, woke>>
         ELSE /\ readable' = FALSE
              /\ pipeAsleep' = (pipeAsleep \/ readable)
              /\ \/ phase' = [phase EXCEPT ![t] = "block"]
                 \/ phase[t] = "first" /\ phase' = [phase EXCEPT ![t] = "poll"]
              /\ woke' = [woke EXCEPT ![t] = FALSE]
              /\ Step(t, "claim")
              /\ UNCHANGED <<msgs, got>>
    /\ UNCHANGED <<mailVars, obs, observers, turn, applied, replyVars, boundVars>>

\* A send() or any other call that drains in passing.
CallStart(t) ==
    /\ t \in Caller /\ pc[t] = "out"
    /\ calls < MaxCalls
    /\ calls' = calls + 1
    /\ Step(t, "claim")
    /\ UNCHANGED <<mailVars, phase, woke, obs, observers, turn, applied, appVars,
                   replyVars, arrived, signals>>
-----------------------------------------------------------------------------
(* prepare_completion_pull()                                                *)

\* has_ready(): the caller takes the completion and comes back; otherwise
\* begin_command_wait_observation() and get_events(ZLINK_POLLCOMPLETION).
PullCheck(t) ==
    /\ t \in Puller /\ pc[t] = "check"
    /\ IF ready > 0
         THEN /\ ready' = ready - 1 /\ pulled' = pulled + 1
              /\ UNCHANGED <<observers, obs, phase, woke, pc>>
         ELSE /\ ~sending
              /\ observers' = observers \cup {t}
              /\ obs' = [obs EXCEPT ![t] = epoch]
              /\ phase' = [phase EXCEPT ![t] = "poll"]
              /\ woke' = [woke EXCEPT ![t] = FALSE]
              /\ Step(t, "claim")
              /\ UNCHANGED <<ready, pulled>>
    /\ UNCHANGED <<mailVars, turn, applied, appVars, replies, repliesAsleep, queued,
                   reqPending, boundVars>>

\* Mutant of PullCollect: takes the announcement but not the replies.
BugCollectNothing(t) ==
    /\ pc[t] = "collect"
    /\ turn = NoOne
    /\ reqPending' = FALSE
    /\ queued' = FALSE
    /\ phase' = [phase EXCEPT ![t] = "block"]
    /\ Step(t, IF ready > 0 THEN "end" ELSE "claim")
    /\ UNCHANGED <<mailVars, woke, obs, observers, turn, applied, appVars, replies,
                   repliesAsleep, ready, pulled, boundVars>>

\* The completion drain of get_events(), under the turn, and has_ready() again.
PullCollect(t) ==
    /\ pc[t] = "collect"
    /\ turn = NoOne
    /\ reqPending' = FALSE
    /\ queued' = FALSE
    /\ IF queued THEN ready' = ready + replies /\ replies' = 0 /\ repliesAsleep' = TRUE
                 ELSE UNCHANGED <<ready, replies, repliesAsleep>>
    /\ phase' = [phase EXCEPT ![t] = "block"]
    /\ Step(t, IF ready' > 0 THEN "end" ELSE "claim")
    /\ UNCHANGED <<mailVars, woke, obs, observers, turn, applied, appVars, pulled,
                   boundVars>>

\* end_command_wait_observation()
PullEnd(t) ==
    /\ pc[t] = "end"
    /\ ~sending
    /\ observers' = observers \ {t}
    /\ Step(t, "check")
    /\ UNCHANGED <<mailVars, phase, woke, obs, turn, applied, appVars, replyVars,
                   boundVars>>
-----------------------------------------------------------------------------
ThreadStep(t) ==
    \/ Claim(t) \/ DrainOne(t) \/ DrainEnd(t) \/ WaitEnter(t) \/ WaitReturn(t)
    \/ RecvTry(t) \/ PullCheck(t) \/ PullCollect(t) \/ PullEnd(t)

Next ==
    \/ SendHint \/ Signal \/ PeerWrite \/ PeerReply
    \/ \E t \in Thread : ThreadStep(t) \/ CallStart(t)

\* Threads and senders run on; nobody has to write, signal or call.  A thread
\* that waits for the turn gets it, since drains are bounded.
Spec ==
    /\ Init /\ [][Next]_vars
    /\ WF_vars(SendHint)
    /\ \A t \in Thread : WF_vars(ThreadStep(t))
-----------------------------------------------------------------------------
TypeOK ==
    /\ mq \in Seq({"read", "reply", "wake"})
    /\ turn \in Thread \cup {NoOne} /\ applied \in 0 .. PollRate
    /\ asleep \in BOOLEAN /\ hint \in BOOLEAN /\ sending \in BOOLEAN
    /\ sigPending \in BOOLEAN /\ epoch \in Nat /\ observers \subseteq Puller
    /\ pc \in [Thread -> {"absent", "out", "try", "check", "claim", "drain", "wait", "asleep",
                          "collect", "end"}]
    /\ phase \in [Thread -> {"first", "poll", "block"}]
    /\ woke \in [Thread -> BOOLEAN] /\ obs \in [Thread -> Nat]
    /\ msgs \in Nat /\ got \in Nat /\ pipeAsleep \in BOOLEAN /\ readable \in BOOLEAN
    /\ replies \in Nat /\ ready \in Nat /\ pulled \in Nat
    /\ repliesAsleep \in BOOLEAN /\ queued \in BOOLEAN /\ reqPending \in BOOLEAN

\* A thread asleep in wait_for_command_signal() while a command is queued is
\* about to be woken: registration cannot miss the enqueue (mailbox.cpp).
NobodySleepsOverCommands ==
    /\ TypeOK
    /\ \A t \in Waiters : mq # <<>> => sending \/ Wake(t)

\* A completion puller asleep with a reply already applied by another thread's
\* drain is about to be woken: "the ready recheck cannot be separated from its
\* wake edge" (prepare_completion_pull).
PullerSeesAppliedReply ==
    \A t \in Waiters \cap Puller : queued \/ ready > 0 => Wake(t)

\* "No wake-up is lost": a message that reached the application pipe is handed
\* to the thread blocked in recv(), if there is one.
MessagesAreReceived ==
    \A t \in Receiver, n \in 1 .. MaxMessages :
       (pc[t] # "absent" /\ arrived["read"] >= n) ~> (got >= n)

\* A reply is handed to the thread blocked in zlink_completion_recv(), if there
\* is one, whatever other threads drain.
RepliesArePulled ==
    \A t \in Puller, n \in 1 .. MaxReplies :
       (pc[t] # "absent" /\ arrived["reply"] >= n) ~> (pulled >= n)
=============================================================================
