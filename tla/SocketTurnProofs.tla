-------------------------- MODULE SocketTurnProofs --------------------------
(***************************************************************************)
(* Proofs about the socket turn and its waiters, for every number of        *)
(* callers, messages and replies and for every inbound_poll_rate.           *)
(***************************************************************************)
EXTENDS SocketTurn, SequenceTheorems, TLAPS

\* Safety needs no fairness.
SafetySpec == Init /\ [][Next]_vars

\* A completion puller between begin_ and end_command_wait_observation().
Observing(t) == pc[t] \in {"claim", "drain", "collect", "wait", "asleep", "end"}

\* A puller that found nothing after it had observed the epoch.
Blocked(t) == \/ pc[t] \in {"wait", "asleep"}
              \/ pc[t] \in {"claim", "drain"} /\ phase[t] = "block"

\* A thread in recv() has the socket to itself, unless the guide is ignored.
Apart == \A t \in Receiver, u \in Puller \cup Caller :
            ~ReceiverShares => pc[t] = "absent" \/ pc[u] = "absent"

\* A receiver that is about to sleep found the mailbox empty.  Nobody else has
\* taken the hint since, so a command that came is announced or about to be.
ReceiverIsTold ==
    /\ asleep => mq = <<>>
    /\ ~ReceiverShares =>
          \A t \in Receiver : pc[t] \in {"wait", "asleep"} => asleep \/ sending \/ hint

\* Each thread stays in its own call: a caller never waits, and only a puller
\* takes completions.
InOwnCall ==
    /\ \A t \in Caller : phase[t] = "poll" /\ pc[t] \in {"absent", "out", "claim", "drain"}
    /\ \A t \in Receiver : pc[t] \in {"absent", "try", "claim", "drain", "wait", "asleep"}

\* For a puller every command and every applied reply moves the epoch away from
\* the one it observed: it need not see the hint, which others may have taken.
PullerIsTold ==
    /\ reqPending => queued
    /\ \A t \in Puller :
          /\ obs[t] <= epoch /\ phase[t] \in {"poll", "block"}
          /\ Observing(t) => t \in observers
          /\ pc[t] \in {"wait", "asleep"} => phase[t] = "block" /\ (mq # <<>> => obs[t] < epoch)
          /\ Blocked(t) => ready = 0 /\ (queued => obs[t] < epoch)

IInv == TypeOK /\ Apart /\ ReceiverIsTold /\ InOwnCall /\ PullerIsTold
-----------------------------------------------------------------------------
(* Types.                                                                   *)

Command == {"read", "reply", "wake"}

Flags ==
    /\ asleep \in BOOLEAN /\ hint \in BOOLEAN /\ sending \in BOOLEAN /\ sigPending \in BOOLEAN
    /\ pipeAsleep \in BOOLEAN /\ readable \in BOOLEAN
    /\ repliesAsleep \in BOOLEAN /\ queued \in BOOLEAN /\ reqPending \in BOOLEAN
    /\ woke \in [Thread -> BOOLEAN]

Places ==
    /\ turn \in Thread \cup {NoOne} /\ observers \subseteq Puller
    /\ pc \in [Thread -> {"absent", "out", "try", "check", "claim", "drain", "wait", "asleep",
                          "collect", "end"}]
    /\ phase \in [Thread -> {"first", "poll", "block"}]

Counts ==
    /\ mq \in Seq(Command) /\ applied \in 0 .. PollRate
    /\ epoch \in Nat /\ obs \in [Thread -> Nat]
    /\ msgs \in Nat /\ got \in Nat /\ replies \in Nat /\ ready \in Nat /\ pulled \in Nat

\* The type invariant in three parts, one for each kind of reasoning.
LEMMA TypeParts == TypeOK <=> Flags /\ Places /\ Counts
  BY DEF TypeOK, Flags, Places, Counts, Command

\* The epoch never goes back, and moves whenever somebody observes it or waits.
LEMMA BumpedEpoch ==
  ASSUME epoch \in Nat
  PROVE  /\ Bumped \in Nat /\ Bumped >= epoch
         /\ \A t \in Thread : t \in observers \/ pc[t] = "asleep" => Bumped > epoch
  BY DEF Bumped, Waiters

\* Applying a command: the mailbox keeps commands only, and the epoch does not
\* go back.
LEMMA ApplyProperties ==
  ASSUME Counts, mq # <<>>, Apply(Head(mq))
  PROVE  /\ mq' \in Seq(Command) /\ epoch' \in Nat /\ epoch' >= epoch
         /\ \/ mq' = Tail(mq) /\ epoch' = epoch /\ UNCHANGED <<queued, reqPending>>
            \/ mq' = Tail(mq) /\ epoch' = epoch /\ queued' = TRUE /\ reqPending' = TRUE
                 /\ reqPending
            \/ epoch' = Bumped /\ queued' = TRUE /\ reqPending' = TRUE
  <1>1. mq \in Seq(Command) /\ Head(mq) \in Command /\ Tail(mq) \in Seq(Command)
    BY HeadTailProperties, EmptySeq DEF Counts
  <1>2. Append(Tail(mq), "wake") \in Seq(Command)
    <2>1. "wake" \in Command
      BY DEF Command
    <2> QED BY <1>1, <2>1, AppendProperties
  <1>3. epoch \in Nat /\ Bumped \in Nat /\ Bumped >= epoch
    BY BumpedEpoch DEF Counts
  <1>4. CASE Head(mq) = "read"
    <2>1. mq' = Tail(mq) /\ UNCHANGED <<epoch, queued, reqPending>>
      BY <1>4 DEF Apply
    <2> QED BY <1>1, <1>3, <2>1
  <1>5. CASE Head(mq) = "reply"
    <2>1. /\ queued' = TRUE /\ reqPending' = TRUE
          /\ mq' = IF reqPending THEN Tail(mq) ELSE Append(Tail(mq), "wake")
          /\ epoch' = IF reqPending THEN epoch ELSE Bumped
      BY <1>5 DEF Apply
    <2>2. CASE reqPending
      BY <1>1, <1>3, <2>1, <2>2
    <2>3. CASE ~reqPending
      BY <1>2, <1>3, <2>1, <2>3
    <2> QED BY <2>2, <2>3
  <1>6. CASE Head(mq) = "wake"
    <2>1. mq' = Tail(mq) /\ UNCHANGED <<epoch, queued, reqPending>>
      BY <1>6 DEF Apply
    <2> QED BY <1>1, <1>3, <2>1
  <1> QED BY <1>1, <1>4, <1>5, <1>6 DEF Command

\* The flags are Booleans after every step.
LEMMA FlagsStep == ASSUME Flags, Counts, Next PROVE Flags'
  <1> USE DEF Flags, threadVars, mailVars, appVars, replyVars
  <1>1. CASE SendHint \/ Signal \/ PeerWrite \/ PeerReply
    <2>1. CASE SendHint \/ Signal
      BY <2>1, Zenon DEF SendHint, Signal, Enqueue
    <2>2. CASE PeerWrite \/ PeerReply
      BY <2>2, Zenon DEF PeerWrite, PeerReply, Enqueue
    <2> QED BY <1>1, <2>1, <2>2
  <1>2. ASSUME NEW t \in Thread, DrainOne(t) PROVE Flags'
    <2>1. Head(mq) \in Command
      BY <1>2, HeadTailProperties, EmptySeq DEF DrainOne, Counts
    <2>2. CASE Head(mq) = "read"
      <3>1. readable' = TRUE /\ UNCHANGED <<queued, reqPending>>
        BY <1>2, <2>2 DEF DrainOne, Apply
      <3> QED BY <1>2, <3>1, Zenon DEF DrainOne
    <2>3. CASE Head(mq) = "reply"
      <3>1. queued' = TRUE /\ reqPending' = TRUE /\ UNCHANGED readable
        BY <1>2, <2>3 DEF DrainOne, Apply
      <3> QED BY <1>2, <3>1, Zenon DEF DrainOne
    <2>4. CASE Head(mq) = "wake"
      <3>1. UNCHANGED <<queued, reqPending, readable>>
        BY <1>2, <2>4 DEF DrainOne, Apply
      <3> QED BY <1>2, <3>1, Zenon DEF DrainOne
    <2> QED BY <2>1, <2>2, <2>3, <2>4 DEF Command
  <1>3. ASSUME NEW t \in Thread,
               Claim(t) \/ DrainEnd(t) \/ WaitEnter(t) \/ WaitReturn(t) \/ RecvTry(t)
                 \/ PullCheck(t) \/ PullCollect(t) \/ PullEnd(t) \/ CallStart(t)
        PROVE Flags'
    <2>1. UNCHANGED woke \/ woke' = [woke EXCEPT ![t] = TRUE] \/ woke' = [woke EXCEPT ![t] = FALSE]
      BY <1>3, Zenon DEF Claim, DrainEnd, WaitEnter, WaitReturn, RecvTry, PullCheck, PullCollect,
           PullEnd, CallStart
    <2>2. woke' \in [Thread -> BOOLEAN]
      BY <2>1
    <2>3. asleep' \in BOOLEAN /\ hint' \in BOOLEAN /\ sending' \in BOOLEAN /\ sigPending' \in BOOLEAN
      BY <1>3, Zenon DEF Claim, DrainEnd, WaitEnter, WaitReturn, RecvTry, PullCheck, PullCollect,
           PullEnd, CallStart
    <2>4. /\ pipeAsleep' \in BOOLEAN /\ readable' \in BOOLEAN /\ repliesAsleep' \in BOOLEAN
          /\ queued' \in BOOLEAN /\ reqPending' \in BOOLEAN
      BY <1>3, Zenon DEF Claim, DrainEnd, WaitEnter, WaitReturn, RecvTry, PullCheck, PullCollect,
           PullEnd, CallStart
    <2> QED BY <2>2, <2>3, <2>4
  <1> QED BY <1>1, <1>2, <1>3 DEF Next, ThreadStep

\* Where the threads are after every step.
LEMMA PlacesStep == ASSUME Places, Next PROVE Places'
  <1> USE DEF Places, threadVars, mailVars, appVars, replyVars, Step
  <1>1. CASE SendHint \/ Signal \/ PeerWrite \/ PeerReply
    BY <1>1 DEF SendHint, Signal, PeerWrite, PeerReply
  <1>2. ASSUME NEW t \in Thread, ThreadStep(t) \/ CallStart(t) PROVE Places'
    <2>1. CASE Claim(t) \/ DrainOne(t) \/ WaitEnter(t) \/ WaitReturn(t) \/ CallStart(t)
      BY <1>2, <2>1 DEF Claim, DrainOne, WaitEnter, WaitReturn, CallStart
    <2>2. CASE DrainEnd(t)
      <3>1. Returned(t) \in {"try", "out", "collect", "end"}
        BY RolesAssumption DEF Returned, Thread
      <3> QED BY <2>2, <3>1 DEF DrainEnd
    <2>3. CASE RecvTry(t)
      BY <1>2, <2>3 DEF RecvTry
    <2>4. CASE PullCheck(t)
      BY <1>2, <2>4 DEF PullCheck
    <2>5. CASE PullCollect(t) \/ PullEnd(t)
      BY <1>2, <2>5 DEF PullCollect, PullEnd
    <2> QED BY <1>2, <2>1, <2>2, <2>3, <2>4, <2>5 DEF ThreadStep
  <1> QED BY <1>1, <1>2 DEF Next

\* Sending a command leaves commands in the mailbox.
LEMMA EnqueueProperties ==
  ASSUME Counts, NEW c \in Command, Enqueue(c)
  PROVE  mq' \in Seq(Command) /\ epoch' \in Nat /\ epoch' = Bumped /\ mq' # <<>>
  BY BumpedEpoch, AppendProperties, EmptySeq DEF Counts, Enqueue

\* The counters after every step.
LEMMA CountsStep == ASSUME Flags, Counts, Next PROVE Counts'
  <1> USE RolesAssumption DEF Counts, threadVars, mailVars, appVars, replyVars
  <1>0. Bumped \in Nat /\ "read" \in Command /\ "reply" \in Command
    BY BumpedEpoch DEF Command
  <1>1. CASE SendHint \/ Signal
    BY <1>0, <1>1 DEF SendHint, Signal
  <1>2. CASE PeerWrite
    <2>1. CASE pipeAsleep
      BY <1>0, <1>2, <2>1, EnqueueProperties DEF PeerWrite
    <2>2. CASE ~pipeAsleep
      BY <1>2, <2>2 DEF PeerWrite
    <2> QED BY <2>1, <2>2
  <1>3. CASE PeerReply
    <2>1. CASE repliesAsleep
      BY <1>0, <1>3, <2>1, EnqueueProperties DEF PeerReply
    <2>2. CASE ~repliesAsleep
      BY <1>3, <2>2 DEF PeerReply
    <2> QED BY <2>1, <2>2
  <1>4. ASSUME NEW t \in Thread, ThreadStep(t) \/ CallStart(t) PROVE Counts'
    <2>1. CASE Claim(t) \/ DrainEnd(t) \/ WaitReturn(t) \/ PullEnd(t) \/ CallStart(t)
      BY <2>1 DEF Claim, DrainEnd, WaitReturn, PullEnd, CallStart
    <2>2. CASE DrainOne(t)
      <3>1. mq' \in Seq(Command) /\ epoch' \in Nat
        BY <2>2, ApplyProperties DEF DrainOne
      <3> QED BY <2>2, <3>1 DEF DrainOne
    <2>3. CASE WaitEnter(t)
      BY <1>4, <2>3 DEF WaitEnter
    <2>4. CASE RecvTry(t)
      BY <2>4 DEF RecvTry
    <2>5. CASE PullCheck(t)
      BY <1>4, <2>5 DEF PullCheck
    <2>6. CASE PullCollect(t)
      BY <2>6 DEF PullCollect
    <2> QED BY <1>4, <2>1, <2>2, <2>3, <2>4, <2>5, <2>6 DEF ThreadStep
  <1> QED BY <1>1, <1>2, <1>3, <1>4 DEF Next
-----------------------------------------------------------------------------
(* The waiters.                                                             *)

\* What a step of one thread leaves of the others' places.
LEMMA OtherPlaces ==
  ASSUME Places, Next, NEW u \in Thread
  PROVE  /\ pc[u] = "absent" => pc'[u] = "absent"
         /\ pc'[u] \in {"wait", "asleep"} => pc[u] \in {"wait", "asleep", "drain"}
  <1>1. CASE SendHint \/ Signal \/ PeerWrite \/ PeerReply
    BY <1>1 DEF SendHint, Signal, PeerWrite, PeerReply, threadVars
  <1>2. ASSUME NEW t \in Thread, ThreadStep(t) \/ CallStart(t)
        PROVE  /\ pc[u] = "absent" => pc'[u] = "absent"
               /\ pc'[u] \in {"wait", "asleep"} => pc[u] \in {"wait", "asleep", "drain"}
    <2>0. Returned(t) \in {"try", "out", "collect", "end"}
      BY RolesAssumption DEF Returned, Thread
    <2>1. CASE u # t
      BY <1>2, <2>1 DEF ThreadStep, CallStart, Claim, DrainOne, DrainEnd, WaitEnter, WaitReturn,
           RecvTry, PullCheck, PullCollect, PullEnd, Step, threadVars, Places
    <2>2. CASE u = t
      BY <1>2, <2>0, <2>2 DEF ThreadStep, CallStart, Claim, DrainOne, DrainEnd, WaitEnter, WaitReturn,
           RecvTry, PullCheck, PullCollect, PullEnd, Step, threadVars, Places
    <2> QED BY <2>1, <2>2
  <1> QED BY <1>1, <1>2 DEF Next

\* Threads that do not use the socket never start to.
LEMMA ApartStep == ASSUME Places, Apart, Next PROVE Apart'
  BY OtherPlaces DEF Apart, Thread

\* A step of process_commands(), recv() or prepare_completion_pull() leaves its
\* thread in the same call.
LEMMA InOwnCallStep == ASSUME Places, InOwnCall, Next PROVE InOwnCall'
  <1>1. CASE SendHint \/ Signal \/ PeerWrite \/ PeerReply
    BY <1>1 DEF SendHint, Signal, PeerWrite, PeerReply, threadVars, InOwnCall
  <1>2. ASSUME NEW t \in Thread, ThreadStep(t) \/ CallStart(t) PROVE InOwnCall'
    <2>1. \A u \in Thread \ {t} : pc'[u] = pc[u] /\ phase'[u] = phase[u]
      BY <1>2 DEF ThreadStep, CallStart, Claim, DrainOne, DrainEnd, WaitEnter, WaitReturn,
           RecvTry, PullCheck, PullCollect, PullEnd, Step, threadVars, Places
    <2>2. CASE t \in Caller
      <3>1. Returned(t) = "out" /\ t \notin Receiver /\ t \notin Puller
        BY <2>2, RolesAssumption DEF Returned
      <3>2. phase'[t] = "poll" /\ pc'[t] \in {"absent", "out", "claim", "drain"}
        BY <1>2, <2>2, <3>1 DEF InOwnCall, ThreadStep, CallStart, Claim, DrainOne, DrainEnd, WaitEnter,
           WaitReturn, RecvTry, PullCheck, PullCollect, PullEnd, Step, threadVars, Places
      <3> QED BY <2>1, <3>1, <3>2 DEF InOwnCall, Thread
    <2>3. CASE t \in Receiver
      <3>1. Returned(t) = "try" /\ t \notin Caller /\ t \notin Puller
        BY <2>3, RolesAssumption DEF Returned
      <3>2. pc'[t] \in {"absent", "try", "claim", "drain", "wait", "asleep"}
        BY <1>2, <2>3, <3>1 DEF InOwnCall, ThreadStep, CallStart, Claim, DrainOne, DrainEnd, WaitEnter,
           WaitReturn, RecvTry, PullCheck, PullCollect, PullEnd, Step, threadVars, Places
      <3> QED BY <2>1, <3>1, <3>2 DEF InOwnCall, Thread
    <2>4. CASE t \notin Caller \cup Receiver
      BY <2>1, <2>4 DEF InOwnCall, Thread
    <2> QED BY <2>2, <2>3, <2>4
  <1> QED BY <1>1, <1>2 DEF Next

\* A receiver that has the socket to itself sleeps only over an empty mailbox or
\* under a command that is announced, or about to be.
LEMMA ReceiverIsToldStep ==
  ASSUME TypeOK, Apart, InOwnCall, ReceiverIsTold, Next
  PROVE  ReceiverIsTold'
  <1>t. Flags /\ Places /\ Counts
    BY TypeParts
  <1>1. asleep' => mq' = <<>>
    <2>1. CASE SendHint \/ Signal \/ PeerWrite \/ PeerReply
      BY <2>1 DEF SendHint, Signal, PeerWrite, PeerReply, Enqueue, ReceiverIsTold
    <2>2. ASSUME NEW t \in Thread, ThreadStep(t) \/ CallStart(t) PROVE asleep' => mq' = <<>>
      BY <2>2 DEF ThreadStep, CallStart, Claim, DrainOne, DrainEnd, WaitEnter, WaitReturn,
           RecvTry, PullCheck, PullCollect, PullEnd, mailVars, ReceiverIsTold
    <2> QED BY <2>1, <2>2 DEF Next
  <1>2. ASSUME ~ReceiverShares, NEW u \in Receiver, pc'[u] \in {"wait", "asleep"}
        PROVE  asleep' \/ sending' \/ hint'
    <2>0. u \in Thread /\ pc[u] \in {"wait", "asleep", "drain"}
      BY <1>2, <1>t, OtherPlaces DEF Thread
    <2>1. pc[u] \in {"wait", "asleep"} => asleep \/ sending \/ hint
      BY <1>2 DEF ReceiverIsTold
    <2>2. \A t \in Thread : t # u => pc[t] = "absent"
      BY <1>2, <2>0, RolesAssumption DEF Apart, Thread
    <2>3. CASE SendHint
      BY <2>3 DEF SendHint
    <2>4. CASE Signal
      BY <1>2, <2>1, <2>4 DEF Signal, threadVars
    <2>5. CASE PeerWrite \/ PeerReply
      <3>1. pc' = pc /\ hint' = hint
        BY <2>5, Zenon DEF PeerWrite, PeerReply, threadVars
      <3>2. UNCHANGED <<asleep, sending>> \/ (~sending /\ sending' = asleep)
        BY <2>5, Zenon DEF PeerWrite, PeerReply, Enqueue
      <3> QED BY <1>2, <2>1, <3>1, <3>2, Zenon
    <2>6. ASSUME NEW t \in Thread, ThreadStep(t) \/ CallStart(t)
          PROVE  asleep' \/ sending' \/ hint'
      <3>0. pc[t] # "absent"
        BY <2>6 DEF ThreadStep, CallStart, Claim, DrainOne, DrainEnd, WaitEnter, WaitReturn,
             RecvTry, PullCheck, PullCollect, PullEnd
      <3>1. t = u
        BY <2>2, <3>0
      <3>2. Returned(u) = "try"
        BY <1>2, RolesAssumption DEF Returned
      <3>3. pc'[u] \in {"wait", "asleep"} /\ u \notin Puller /\ u \notin Caller
        BY <1>2, RolesAssumption
      <3>4. CASE DrainEnd(u)
        <4>1. applied = 0
          BY <1>t, <2>0, <3>2, <3>3, <3>4 DEF DrainEnd, Step, Places, Counts
        <4> QED BY <3>4, <4>1, RolesAssumption DEF DrainEnd
      <3>5. CASE WaitEnter(u)
        BY <2>1, <3>5 DEF WaitEnter
      <3>6. CASE ~DrainEnd(u) /\ ~WaitEnter(u)
        BY <1>t, <2>0, <2>6, <3>1, <3>3, <3>6 DEF ThreadStep, CallStart, Claim, DrainOne, WaitReturn,
             RecvTry, PullCheck, PullCollect, PullEnd, Step, Places, threadVars
      <3> QED BY <3>4, <3>5, <3>6
    <2> QED BY <2>3, <2>4, <2>5, <2>6 DEF Next
  <1> QED BY <1>1, <1>2 DEF ReceiverIsTold

\* A puller's observed epoch falls behind whenever there is something to do.
LEMMA PullerIsToldStep ==
  ASSUME TypeOK, InOwnCall, PullerIsTold, Next
  PROVE  PullerIsTold'
  <1>t. Flags /\ Places /\ Counts /\ Flags' /\ Places' /\ Counts'
    BY TypeParts, FlagsStep, PlacesStep, CountsStep
  <1>b. /\ Bumped \in Nat /\ Bumped >= epoch /\ epoch \in Nat
        /\ \A t \in Thread : t \in observers \/ pc[t] = "asleep" => Bumped > epoch
    BY <1>t, BumpedEpoch DEF Counts
  <1>r. \A t \in Puller : /\ t \in Thread /\ t \notin Receiver /\ t \notin Caller
                          /\ \A u \in Puller : u = t
    BY RolesAssumption DEF Thread
  <1>1. CASE SendHint \/ Signal
    <2>1. UNCHANGED <<pc, phase, obs, observers, mq, reqPending, queued, ready>>
      BY <1>1 DEF SendHint, Signal, threadVars, replyVars
    <2>2. epoch' \in Nat /\ epoch' >= epoch
      BY <1>1, <1>b DEF SendHint, Signal
    <2> QED BY <1>t, <1>b, <1>r, <2>1, <2>2 DEF PullerIsTold, Observing, Blocked, Counts
  <1>2. CASE PeerWrite \/ PeerReply
    <2>1. UNCHANGED <<pc, phase, obs, observers, reqPending, queued, ready>>
      BY <1>2 DEF PeerWrite, PeerReply, threadVars, replyVars
    <2>2. UNCHANGED <<mq, epoch>> \/ epoch' = Bumped
      BY <1>2 DEF PeerWrite, PeerReply, Enqueue
    <2> QED BY <1>t, <1>b, <1>r, <2>1, <2>2 DEF PullerIsTold, Observing, Blocked, Counts
  <1>3. ASSUME NEW t \in Thread, DrainOne(t) PROVE PullerIsTold'
    <2>1. UNCHANGED <<pc, phase, obs, observers, ready>>
      BY <1>3 DEF DrainOne, threadVars
    <2>2. mq # <<>> /\ Apply(Head(mq))
      BY <1>3 DEF DrainOne
    <2>3. \/ epoch' = epoch /\ UNCHANGED <<queued, reqPending>>
          \/ epoch' = epoch /\ queued' = TRUE /\ reqPending' = TRUE /\ reqPending
          \/ epoch' = Bumped /\ queued' = TRUE /\ reqPending' = TRUE
      BY <1>t, <2>2, ApplyProperties
    <2>4. reqPending' => queued'
      BY <2>3, Zenon DEF PullerIsTold
    <2>5. (queued' => queued) \/ epoch' = Bumped
      BY <2>3, Zenon DEF PullerIsTold
    <2>6. epoch' \in {epoch, Bumped}
      BY <2>3
    <2> QED BY <1>t, <1>b, <1>r, <2>1, <2>2, <2>4, <2>5, <2>6
         DEF PullerIsTold, Observing, Blocked, Counts
  <1>4. ASSUME NEW t \in Thread, t \notin Puller,
               Claim(t) \/ DrainEnd(t) \/ WaitEnter(t) \/ WaitReturn(t) \/ RecvTry(t)
                 \/ PullCheck(t) \/ PullCollect(t) \/ PullEnd(t) \/ CallStart(t)
        PROVE  PullerIsTold'
    <2>1. pc[t] \notin {"collect", "end"}
      BY <1>4 DEF InOwnCall, Thread
    <2>2. UNCHANGED <<observers, mq, epoch, reqPending, queued, ready>>
      BY <1>4, <2>1 DEF Claim, DrainEnd, WaitEnter, WaitReturn, RecvTry, PullCheck, PullCollect,
           PullEnd, CallStart, mailVars, replyVars
    <2>3. \A u \in Puller : pc'[u] = pc[u] /\ phase'[u] = phase[u] /\ obs'[u] = obs[u]
      <3>1. CASE Claim(t) \/ DrainEnd(t) \/ WaitEnter(t) \/ WaitReturn(t)
        BY <1>4, <1>t, <1>r, <3>1
           DEF Claim, DrainEnd, WaitEnter, WaitReturn, Step, Places, Counts
      <3>2. CASE RecvTry(t) \/ PullCheck(t) \/ PullCollect(t) \/ PullEnd(t) \/ CallStart(t)
        BY <1>4, <1>t, <1>r, <2>1, <3>2
           DEF RecvTry, PullCheck, PullCollect, PullEnd, CallStart, Step, Places, Counts
      <3> QED BY <1>4, <3>1, <3>2
    <2> QED BY <2>2, <2>3 DEF PullerIsTold, Observing, Blocked
  <1>5. ASSUME NEW t \in Puller,
               Claim(t) \/ DrainEnd(t) \/ WaitEnter(t) \/ WaitReturn(t) \/ RecvTry(t)
                 \/ PullCheck(t) \/ PullCollect(t) \/ PullEnd(t) \/ CallStart(t)
        PROVE  PullerIsTold'
    <2>0. /\ t \in Thread /\ obs[t] <= epoch /\ phase[t] \in {"poll", "block"}
          /\ Observing(t) => t \in observers
          /\ pc[t] \in {"wait", "asleep"} => phase[t] = "block" /\ (mq # <<>> => obs[t] < epoch)
          /\ Blocked(t) => ready = 0 /\ (queued => obs[t] < epoch)
          /\ obs[t] \in Nat /\ ready \in Nat /\ replies \in Nat /\ applied \in 0..PollRate
      BY <1>t, <1>r DEF PullerIsTold, Counts
    <2>s. SUFFICES /\ reqPending' => queued'
                   /\ obs'[t] <= epoch' /\ phase'[t] \in {"poll", "block"}
                   /\ Observing(t)' => t \in observers'
                   /\ pc'[t] \in {"wait", "asleep"} =>
                         phase'[t] = "block" /\ (mq' # <<>> => obs'[t] < epoch')
                   /\ Blocked(t)' => ready' = 0 /\ (queued' => obs'[t] < epoch')
      BY <1>r DEF PullerIsTold
    <2>p. reqPending => queued
      BY DEF PullerIsTold
    <2>1. CASE Claim(t) \/ WaitReturn(t) \/ PullEnd(t)
      BY <1>t, <2>0, <2>p, <2>1 DEF Claim, WaitReturn, PullEnd, Observing, Blocked, Step, Places,
           mailVars, replyVars
    <2>2. CASE DrainEnd(t)
      <3>1. Returned(t) \in {"collect", "end"}
        BY <1>5, <1>r DEF Returned
      <3>2. /\ UNCHANGED <<phase, obs, observers, epoch, mq, reqPending, queued, ready>>
            /\ pc'[t] \in {"collect", "end"} \/ (pc'[t] = "wait" /\ phase[t] # "poll" /\ applied = 0)
            /\ pc[t] = "drain" /\ (applied = 0 => mq = <<>>)
        BY <1>t, <2>0, <2>2, <3>1, RolesAssumption DEF DrainEnd, Step, Places, mailVars, replyVars
      <3> QED BY <2>0, <2>p, <3>2 DEF Observing, Blocked
    <2>3. CASE WaitEnter(t)
      <3>1. /\ UNCHANGED <<phase, observers, epoch, mq, reqPending, queued, ready>>
            /\ pc[t] = "wait"
            /\ \/ pc'[t] = "claim" /\ obs' = obs
               \/ pc'[t] = "asleep" /\ epoch = obs[t] /\ obs'[t] = epoch
        BY <1>t, <2>0, <2>3 DEF WaitEnter, Step, Places, Counts, mailVars, replyVars
      <3> QED BY <1>b, <2>0, <2>p, <3>1 DEF Observing, Blocked
    <2>4. CASE PullCheck(t)
      <3>1. CASE ready > 0
        <4>1. UNCHANGED <<phase, obs, pc, observers, epoch, mq, reqPending, queued>> /\ pc[t] = "check"
          BY <2>4, <3>1 DEF PullCheck, mailVars
        <4> QED BY <2>0, <2>p, <4>1 DEF Observing, Blocked
      <3>2. CASE ~(ready > 0)
        <4>1. /\ UNCHANGED <<epoch, mq, reqPending, queued, ready>>
              /\ pc'[t] = "claim" /\ phase'[t] = "poll" /\ obs'[t] = epoch /\ t \in observers'
          BY <1>t, <2>0, <2>4, <3>2 DEF PullCheck, mailVars, Step, Places, Counts
        <4> QED BY <1>b, <2>p, <4>1 DEF Observing, Blocked
      <3> QED BY <3>1, <3>2
    <2>5. CASE PullCollect(t)
      <3>1. /\ UNCHANGED <<epoch, mq, obs, observers>> /\ pc[t] = "collect"
            /\ pc'[t] \in {"claim", "end"} /\ (pc'[t] = "claim" => ready' = 0)
            /\ phase'[t] = "block" /\ ~reqPending' /\ ~queued'
        BY <1>t, <2>0, <2>5 DEF PullCollect, mailVars, Step, Places, Counts
      <3> QED BY <2>0, <3>1 DEF Observing, Blocked
    <2>6. CASE RecvTry(t) \/ CallStart(t)
      BY <1>5, <1>r, <2>6 DEF RecvTry, CallStart
    <2> QED BY <1>5, <2>1, <2>2, <2>3, <2>4, <2>5, <2>6
  <1> QED BY <1>1, <1>2, <1>3, <1>4, <1>5 DEF Next, ThreadStep
-----------------------------------------------------------------------------
(* The inductive invariant, and what follows from it.                       *)

\* A new socket, before any of its threads has called.
LEMMA InitIInv == ASSUME Init PROVE IInv
  <1> USE DEF Init
  <1>1. Flags
    <2>1. woke \in [Thread -> BOOLEAN]
      OBVIOUS
    <2> QED BY <2>1, Zenon DEF Flags
  <1>2. PICK users \in Together :
          pc = [t \in Thread |-> IF t \notin users THEN "absent"
                                 ELSE IF t \in Receiver THEN "try"
                                 ELSE IF t \in Puller THEN "check" ELSE "out"]
    OBVIOUS
  <1>3. Places
    BY <1>2 DEF Places
  <1>4. Counts
    BY RolesAssumption DEF Counts
  <1>5. Apart
    BY <1>2, RolesAssumption DEF Apart, Together, Thread
  <1>6. InOwnCall
    BY <1>2, RolesAssumption DEF InOwnCall, Thread
  <1>7. ReceiverIsTold
    BY DEF ReceiverIsTold
  <1>8. PullerIsTold
    <2>1. \A t \in Puller : /\ pc[t] \in {"absent", "check"} /\ obs[t] = 0 /\ phase[t] = "poll"
      BY <1>2, RolesAssumption DEF Thread
    <2>2. ~reqPending /\ epoch = 0
      OBVIOUS
    <2>3. \A t \in Puller : ~Observing(t) /\ ~Blocked(t)
      BY <2>1 DEF Observing, Blocked
    <2> HIDE DEF Init
    <2> QED BY <2>1, <2>2, <2>3 DEF PullerIsTold
  <1> QED BY <1>1, <1>3, <1>4, <1>5, <1>6, <1>7, <1>8, TypeParts DEF IInv

\* Every step keeps the invariant.
LEMMA NextIInv == ASSUME IInv, [Next]_vars PROVE IInv'
  <1> USE DEF IInv
  <1>1. CASE Next
    <2>1. Flags /\ Places /\ Counts
      BY TypeParts
    <2>2. Flags' /\ Places' /\ Counts'
      BY <1>1, <2>1, FlagsStep, PlacesStep, CountsStep
    <2>3. TypeOK'
      BY <2>2, TypeParts DEF TypeOK, Flags, Places, Counts, Command
    <2> QED BY <1>1, <2>1, <2>3, ApartStep, InOwnCallStep, ReceiverIsToldStep, PullerIsToldStep
  <1>2. CASE UNCHANGED vars
    <2> USE <1>2 DEF vars, mailVars, threadVars, appVars, replyVars
    <2>1. TypeOK' /\ Apart' /\ ReceiverIsTold' /\ InOwnCall'
      BY DEF TypeOK, Apart, ReceiverIsTold, InOwnCall
    <2>2. PullerIsTold'
      BY DEF PullerIsTold, Observing, Blocked
    <2> QED BY <2>1, <2>2
  <1> QED BY <1>1, <1>2

\* What holds in every reachable state, whether recv() is alone or not.
THEOREM Invariance == SafetySpec => []IInv
  <1>1. Init => IInv
    BY InitIInv
  <1>2. IInv /\ [Next]_vars => IInv'
    BY NextIInv
  <1> QED BY <1>1, <1>2, PTL DEF SafetySpec

\* While recv() has the socket to itself, as the guide asks, no thread sleeps in
\* wait_for_command_signal() over a queued command that will not wake it.
THEOREM SleepersAreWoken ==
  ASSUME ~ReceiverShares
  PROVE  SafetySpec => []NobodySleepsOverCommands
  <1>1. IInv => NobodySleepsOverCommands
    <2> SUFFICES ASSUME IInv, NEW t \in Thread, pc[t] = "asleep", mq # <<>>
                 PROVE  sending \/ Wake(t)
      BY DEF NobodySleepsOverCommands, Waiters, IInv
    <2>1. CASE t \in Receiver
      BY <2>1 DEF IInv, ReceiverIsTold, Wake
    <2>2. CASE t \in Puller
      <3>1. obs[t] < epoch /\ obs[t] \in Nat /\ epoch \in Nat
        BY <2>2 DEF IInv, PullerIsTold, TypeOK
      <3> QED BY <3>1 DEF Wake
    <2>3. CASE t \in Caller
      BY <2>3 DEF IInv, InOwnCall
    <2> QED BY <2>1, <2>2, <2>3 DEF Thread
  <1> QED BY <1>1, Invariance, PTL

\* A completion puller is never asleep over a reply that another thread applied,
\* whoever else calls the socket: "the ready recheck cannot be separated from
\* its wake edge" (prepare_completion_pull).
THEOREM PullersAreWoken == SafetySpec => []PullerSeesAppliedReply
  <1>1. IInv => PullerSeesAppliedReply
    <2> SUFFICES ASSUME IInv, NEW t \in Thread, t \in Puller, pc[t] = "asleep", queued \/ ready > 0
                 PROVE  Wake(t)
      BY DEF PullerSeesAppliedReply, Waiters
    <2>1. obs[t] < epoch /\ obs[t] \in Nat /\ epoch \in Nat
      BY DEF IInv, PullerIsTold, Blocked, TypeOK
    <2> QED BY <2>1 DEF Wake
  <1> QED BY <1>1, Invariance, PTL
=============================================================================
