-------------------------- MODULE CompletionQueue --------------------------
(***************************************************************************)
(* The completion queue of one DEALER socket with one application pipe      *)
(* (core/src/api/socket/socket_completion_queue_internal.cpp), and the two  *)
(* kinds of record that live in it:                                         *)
(*                                                                          *)
(*   "request"   reserved before a DONTWAIT request is admitted, published  *)
(*               when the pending request is resolved                       *)
(*   "writable"  a wait token given to a caller that was refused, published *)
(*               when what refused it is gone                               *)
(*                                                                          *)
(* A request is refused for want of queue credit, or because the pipe's     *)
(* correlation window (core/src/runtime/core/pipe_receive.cpp) is full.  The*)
(* window is given back by any thread, and announced through the mailbox.   *)
(*                                                                          *)
(* One step is one section under the queue's mutex, the request table's     *)
(* mutex or the pipe's _out_sync.  turn is the socket turn: commands are    *)
(* processed, requests admitted and tokens registered under it.             *)
(***************************************************************************)
EXTENDS Integers, Sequences, FiniteSets, SequencesExt

CONSTANTS Submitter,       \* threads in zlink_request with DONTWAIT
          MaxOutstanding,  \* max_outstanding_completions
          Window,          \* request_correlation_count_budget
          MaxId            \* bound on the completion ids issued

ASSUME BoundsAssumption ==
    MaxOutstanding \in Nat \ {0} /\ Window \in Nat \ {0} /\ MaxId \in Nat

VARIABLES
    nextId,       \* next_id
    closed,       \* lifecycle_errno is set
    closing,      \* closing, of the request table
    stage,        \* per id: what became of its reservation
    snapshot,     \* per id: the epoch in request_wait, NoEpoch when it is empty
    readyQ,       \* ready_head .. ready_tail
    waitQ,        \* writable_wait_head .. writable_wait_tail
    outstanding,  \* outstanding
    pending,      \* ids in pending_requests
    resolving,    \* ids taken out of pending_requests and not yet published
    leases,       \* ids holding a place in the correlation window
    refusing,     \* _request_correlation_waiting
    epoch,        \* _request_correlation_release_epoch
    released,     \* _request_correlation_activation_pending
    activations,  \* deferred activate_write commands in the mailbox
    credit,       \* the pipe admits another message
    turn,         \* the submitter holding the socket turn between steps, or NoOne
    pc, mine, wait   \* per submitter: place, its reservation, its request_wait

recordVars == <<nextId, closed, stage, snapshot, readyQ, waitQ, outstanding>>
requestVars == <<closing, pending, resolving>>
windowVars == <<leases, refusing, epoch, released, activations, credit>>
threadVars == <<turn, pc, mine, wait>>
vars == <<recordVars, requestVars, windowVars, threadVars>>

Id == 1 .. MaxId
NoEpoch == -1
NoOne == "no one"

Init ==
    /\ nextId = 1 /\ closed = FALSE
    /\ stage = [i \in Id |-> "unused"] /\ snapshot = [i \in Id |-> NoEpoch]
    /\ readyQ = <<>> /\ waitQ = <<>> /\ outstanding = 0
    /\ closing = FALSE /\ pending = {} /\ resolving = {} /\ leases = {}
    /\ refusing = FALSE /\ epoch = 0 /\ released = FALSE /\ activations = 0
    /\ credit = TRUE /\ turn = NoOne
    /\ pc = [t \in Submitter |-> "out"]
    /\ mine = [t \in Submitter |-> 0]
    /\ wait = [t \in Submitter |-> NoEpoch]
-----------------------------------------------------------------------------
(* Sections of the queue.                                                   *)

\* acquire_reservation_locked() succeeds.
CanAcquire == ~closed /\ outstanding < MaxOutstanding /\ nextId <= MaxId

Acquire(as) ==
    /\ stage' = [stage EXCEPT ![nextId] = as]
    /\ nextId' = nextId + 1
    /\ outstanding' = outstanding + 1

\* release(): the reservation is detached and its node goes back to the cache.
Released(i) ==
    /\ stage' = [stage EXCEPT ![i] = "gone"]
    /\ outstanding' = outstanding - 1

\* request_correlation_released(): the pipe gave back a place since the refusal.
WindowReturned(i) == snapshot[i] # NoEpoch /\ snapshot[i] # epoch

\* publish_writable_waiters(): the tokens of waitQ in set go, in order, to the
\* ready list.
PublishWaiters(set) ==
    /\ waitQ' = SelectSeq(waitQ, LAMBDA i : i \notin set)
    /\ readyQ' = readyQ \o SelectSeq(waitQ, LAMBDA i : i \in set)
    /\ stage' = [i \in Id |-> IF i \in set THEN "ready" ELSE stage[i]]
    /\ snapshot' = [i \in Id |-> IF i \in set THEN NoEpoch ELSE snapshot[i]]
    /\ UNCHANGED <<nextId, closed, outstanding>>

\* Mutant of CreditTokens: credit also publishes the tokens of the window.
BugCreditForAll == Range(waitQ)

\* The tokens an ADMITTED publication is for: physical credit passes over the
\* tokens that wait for the window, and the other way round.
CreditTokens == {i \in Range(waitQ) : snapshot[i] = NoEpoch}
WindowTokens == {i \in Range(waitQ) : WindowReturned(i)}
-----------------------------------------------------------------------------
(* zlink_request(DONTWAIT)                                                  *)

\* reserve()
Reserve(t) ==
    /\ pc[t] = "out"
    /\ CanAcquire
    /\ Acquire("held")
    /\ mine' = [mine EXCEPT ![t] = nextId]
    /\ pc' = [pc EXCEPT ![t] = "prepare"]
    /\ UNCHANGED <<closed, snapshot, readyQ, waitQ, requestVars, windowVars, turn,
                   wait>>

\* The entry in pending_requests, or prepare_errno.
AddPending(t) ==
    /\ pc[t] = "prepare"
    /\ \/ pending' = pending \cup {mine[t]} /\ pc' = [pc EXCEPT ![t] = "admit"]
       \/ pc' = [pc EXCEPT ![t] = "drop"] /\ UNCHANGED pending
    /\ UNCHANGED <<recordVars, closing, resolving, windowVars, turn, mine, wait>>

\* The call returns, and its locals are gone.
Leave(t) ==
    /\ pc' = [pc EXCEPT ![t] = "out"]
    /\ mine' = [mine EXCEPT ![t] = 0]
    /\ wait' = [wait EXCEPT ![t] = NoEpoch]

\* Places in the window of requests that were prepared and not written.
Uncommitted == {mine[t] : t \in {u \in Submitter : pc[u] = "rollback"}}
WindowFull == Cardinality(leases \cup Uncommitted) >= Window

\* The admission attempt, under the turn.  A pipe known to be full is not tried.
\* Otherwise the observer's prepare phase takes a place in the correlation
\* window before the pipe is asked for credit.
Admit(t) ==
    /\ pc[t] = "admit"
    /\ turn = NoOne
    /\ LET open == mine[t] \in pending /\ ~closing
       IN \/ /\ open /\ ~WindowFull /\ credit
             /\ leases' = leases \cup {mine[t]}
             /\ Leave(t)
             /\ UNCHANGED <<refusing, turn>>
          \/ /\ open /\ ~WindowFull
             /\ turn' = t
             /\ pc' = [pc EXCEPT ![t] = "rollback"]
             /\ UNCHANGED <<leases, refusing, mine, wait>>
          \/ /\ open /\ WindowFull
             /\ refusing' = TRUE
             /\ wait' = [wait EXCEPT ![t] = epoch]
             /\ pc' = [pc EXCEPT ![t] = "erase"]
             /\ UNCHANGED <<leases, turn, mine>>
          \/ /\ ~open \/ ~credit
             /\ pc' = [pc EXCEPT ![t] = IF credit THEN "abandon" ELSE "erase"]
             /\ UNCHANGED <<leases, refusing, turn, mine, wait>>
    /\ UNCHANGED <<recordVars, requestVars, epoch, released, activations, credit>>

\* release_request_correlation(): the first return since a refusal advances the
\* epoch and sends the pipe a deferred activate_write.
WindowReturns ==
    /\ refusing' = FALSE
    /\ IF refusing THEN /\ epoch' = epoch + 1
                        /\ released' = TRUE
                        /\ activations' = activations + 1
                   ELSE UNCHANGED <<epoch, released, activations>>

\* The finish phase of the observer when the pipe did not take the message.
Rollback(t) ==
    /\ pc[t] = "rollback"
    /\ WindowReturns
    /\ turn' = NoOne
    /\ pc' = [pc EXCEPT ![t] = IF credit THEN "abandon" ELSE "erase"]
    /\ UNCHANGED <<recordVars, requestVars, leases, credit, mine, wait>>

\* Where a caller that removed its pending entry goes on.
AfterErase(t) == IF pc[t] = "erase" THEN "release" ELSE "drop"

\* Mutant of Erase: releases the reservation whoever removed the entry.
BugEraseAlwaysReleases(t) ==
    /\ pc[t] \in {"erase", "abandon"}
    /\ pending' = pending \ {mine[t]}
    /\ pc' = [pc EXCEPT ![t] = AfterErase(t)]
    /\ UNCHANGED <<recordVars, closing, resolving, windowVars, turn, mine, wait>>

\* finish_request_submit_failure(): whoever removes the pending entry owns the
\* reservation, and a caller that lost reports success.
Erase(t) ==
    /\ pc[t] \in {"erase", "abandon"}
    /\ pending' = pending \ {mine[t]}
    /\ IF mine[t] \in pending
         THEN pc' = [pc EXCEPT ![t] = AfterErase(t)] /\ UNCHANGED <<mine, wait>>
         ELSE Leave(t)
    /\ UNCHANGED <<recordVars, closing, resolving, windowVars, turn>>

\* release(), in a section of its own.  Only a refusal goes on to a wait token.
Release(t) ==
    /\ pc[t] \in {"release", "drop"}
    /\ Released(mine[t])
    /\ IF pc[t] = "release"
         THEN pc' = [pc EXCEPT ![t] = "register"] /\ UNCHANGED <<mine, wait>>
         ELSE Leave(t)
    /\ UNCHANGED <<nextId, closed, snapshot, readyQ, waitQ, requestVars,
                   windowVars, turn>>

\* Mutant of Link: no recheck of the epoch once the token is linked.
BugLinkWithoutRecheck(t) ==
    /\ Acquire("waiting")
    /\ snapshot' = [snapshot EXCEPT ![nextId] = wait[t]]
    /\ waitQ' = Append(waitQ, nextId)
    /\ UNCHANGED <<closed, readyQ>>

\* reserve_writable_wait(): link the token, then recheck its pipe's epoch under
\* the same mutex; a token already due goes straight to the ready list.
Link(t) ==
    LET due == wait[t] # NoEpoch /\ wait[t] # epoch
    IN  /\ Acquire(IF due THEN "ready" ELSE "waiting")
        /\ snapshot' = [snapshot EXCEPT ![nextId] = IF due THEN NoEpoch ELSE wait[t]]
        /\ readyQ' = IF due THEN Append(readyQ, nextId) ELSE readyQ
        /\ waitQ' = IF due THEN waitQ ELSE Append(waitQ, nextId)
        /\ UNCHANGED <<closed>>

\* register_send_writable_wait_after_failure(): the turn is kept for the
\* readiness recheck of a token that waits for credit.
Register(t) ==
    /\ pc[t] = "register"
    /\ turn = NoOne
    /\ IF CanAcquire THEN Link(t) ELSE UNCHANGED recordVars
    /\ IF CanAcquire /\ wait[t] = NoEpoch
         THEN turn' = t /\ pc' = [pc EXCEPT ![t] = "recheck"] /\ UNCHANGED <<mine, wait>>
         ELSE turn' = turn /\ Leave(t)
    /\ UNCHANGED <<requestVars, windowVars>>

\* Mutant of Recheck: the token is left to the next write activation.
BugNoReadyRecheck(t) ==
    /\ pc[t] = "recheck"
    /\ turn' = NoOne
    /\ Leave(t)
    /\ UNCHANGED <<recordVars, requestVars, windowVars>>

\* xsend_writable_target_ready() and publish_send_writable_target().
Recheck(t) ==
    /\ pc[t] = "recheck"
    /\ IF credit /\ ~closed THEN PublishWaiters(CreditTokens)
                            ELSE UNCHANGED recordVars
    /\ turn' = NoOne
    /\ Leave(t)
    /\ UNCHANGED <<requestVars, windowVars>>
-----------------------------------------------------------------------------
(* Resolution of a request, on any thread: reply, timeout or disconnect once *)
(* it was admitted, and discard_request_reply_state_for_close().            *)

\* take_pending_request(): one thread wins the entry.
Take(i) ==
    /\ i \in pending
    /\ i \in leases \/ closing
    /\ pending' = pending \ {i}
    /\ resolving' = resolving \cup {i}
    /\ UNCHANGED <<recordVars, closing, windowVars, threadVars>>

\* The correlation of the entry is released.
ReturnWindow(i) ==
    /\ i \in resolving \cap leases
    /\ leases' = leases \ {i}
    /\ WindowReturns
    /\ UNCHANGED <<recordVars, requestVars, credit, threadVars>>

\* publish_pending_request_completion(); a closed queue takes nothing more and
\* the reservation is released instead, as the discard for close does.
Publish(i) ==
    /\ i \in resolving \ leases
    /\ resolving' = resolving \ {i}
    /\ \/ (closed \/ closing) /\ Released(i) /\ UNCHANGED readyQ
       \/ /\ ~closed
          /\ stage' = [stage EXCEPT ![i] = "ready"]
          /\ readyQ' = Append(readyQ, i)
          /\ UNCHANGED outstanding
    /\ UNCHANGED <<nextId, closed, snapshot, waitQ, closing, pending, windowVars,
                   threadVars>>
-----------------------------------------------------------------------------
(* Commands, under the turn.                                                *)

\* process_activate_write(): a window wake, if one is due, then the credit wake.
Activated(hasCredit) ==
    /\ turn = NoOne
    /\ released' = FALSE
    /\ credit' = hasCredit
    /\ IF closed THEN UNCHANGED recordVars
       ELSE PublishWaiters((IF released THEN WindowTokens ELSE {})
                             \cup (IF hasCredit THEN CreditTokens ELSE {}))
    /\ UNCHANGED <<requestVars, leases, refusing, epoch, threadVars>>

\* The command release_request_correlation() sent to its own pipe.
DeferredActivation ==
    /\ activations > 0
    /\ activations' = activations - 1
    /\ Activated(credit)

\* The peer's activate_write for a pipe that was full.
PeerCredit ==
    /\ ~credit
    /\ Activated(TRUE)
    /\ UNCHANGED activations

\* Another sender, in its own turn, fills the pipe.
Fill ==
    /\ credit
    /\ turn = NoOne
    /\ credit' = FALSE
    /\ UNCHANGED <<recordVars, requestVars, leases, refusing, epoch, released, activations,
                   threadVars>>
-----------------------------------------------------------------------------
\* socket_completion::recv()
Recv ==
    /\ readyQ # <<>>
    /\ Released(Head(readyQ))
    /\ readyQ' = Tail(readyQ)
    /\ UNCHANGED <<nextId, closed, snapshot, waitQ, requestVars, windowVars, threadVars>>

\* close(): delivery stops, records stay with the queue until it is destroyed.
Close ==
    /\ turn = NoOne
    /\ ~closed
    /\ closed' = TRUE
    /\ stage' = [i \in Id |-> IF stage[i] \in {"waiting", "ready"} THEN "dropped" ELSE stage[i]]
    /\ snapshot' = [i \in Id |-> NoEpoch]
    /\ readyQ' = <<>> /\ waitQ' = <<>>
    /\ UNCHANGED <<nextId, outstanding, requestVars, windowVars, threadVars>>

\* discard_request_reply_state_for_close() of zlink_close(); a terminated context
\* closes the queue only.
StartClose ==
    /\ ~closing /\ closing' = TRUE
    /\ UNCHANGED <<recordVars, pending, resolving, windowVars, threadVars>>
-----------------------------------------------------------------------------
Submit(t) ==
    \/ AddPending(t) \/ Admit(t) \/ Rollback(t) \/ Erase(t) \/ Release(t)
    \/ Register(t) \/ Recheck(t)

Resolve(i) == Take(i) \/ ReturnWindow(i) \/ Publish(i)

Next ==
    \/ \E t \in Submitter : Reserve(t) \/ Submit(t)
    \/ \E i \in Id : Resolve(i)
    \/ DeferredActivation \/ PeerCredit \/ Fill \/ Recv \/ Close \/ StartClose

\* A call that has begun returns; every admitted request is resolved (it has a
\* timeout) and published; commands are processed; the peer goes on reading.
Spec ==
    /\ Init /\ [][Next]_vars
    /\ \A t \in Submitter : WF_vars(Submit(t))
    /\ \A i \in Id : WF_vars(Resolve(i))
    /\ WF_vars(DeferredActivation) /\ WF_vars(PeerCredit)
-----------------------------------------------------------------------------
TypeOK ==
    /\ nextId \in 1 .. MaxId + 1 /\ closed \in BOOLEAN /\ closing \in BOOLEAN
    /\ stage \in [Id -> {"unused", "held", "waiting", "ready", "dropped", "gone"}]
    /\ snapshot \in [Id -> Nat \cup {NoEpoch}]
    /\ readyQ \in Seq(Id) /\ waitQ \in Seq(Id) /\ outstanding \in 0 .. MaxOutstanding
    /\ pending \subseteq Id /\ resolving \subseteq Id /\ leases \subseteq Id
    /\ refusing \in BOOLEAN /\ released \in BOOLEAN /\ credit \in BOOLEAN
    /\ epoch \in Nat /\ activations \in Nat
    /\ turn \in Submitter \cup {NoOne}
    /\ pc \in [Submitter -> {"out", "prepare", "admit", "rollback", "erase", "abandon",
                            "release", "drop", "register", "recheck"}]
    /\ mine \in [Submitter -> Id \cup {0}] /\ wait \in [Submitter -> Nat \cup {NoEpoch}]

Live(i) == stage[i] \in {"held", "waiting", "ready", "dropped"}

\* The 65,536 bound counts exactly the reservations still owed an end, whoever
\* ends them: recv(), release(), or nobody once the queue is closed.
OutstandingIsExact == outstanding = Cardinality({i \in Id : Live(i)})

\* The lists hold each record once and only in the list its stage says; one that
\* recv() has returned is in none.
ListsAreExact ==
    /\ TypeOK
    /\ IsInjective(readyQ) /\ Range(readyQ) = {i \in Id : stage[i] = "ready"}
    /\ IsInjective(waitQ) /\ Range(waitQ) = {i \in Id : stage[i] = "waiting"}

\* A reservation node is reused only when nobody can still publish it.
OwnedUntilResolved ==
    LET withCaller == {t \in Submitter : pc[t] \in {"prepare", "release", "drop"}}
    IN {i \in Id : stage[i] = "held"}
          = pending \cup resolving \cup {mine[t] : t \in withCaller}

\* "A later publisher finds the linked token": a token waiting for the window
\* whose pipe has given a place back will be found by a command still queued.
NoLostWindowWake ==
    \A i \in Range(waitQ) : WindowReturned(i) => released /\ activations > 0

\* A token waiting for credit on a pipe that has credit is about to be rechecked.
NoLostCreditWake ==
    credit /\ turn = NoOne => \A i \in Range(waitQ) : snapshot[i] # NoEpoch

\* A window token becomes ready only once its pipe gave a place back, and a
\* token leaves the list only for the ready list or because of close().
TokensLeaveForCause ==
    [][\A i \in Id : stage[i] = "waiting" /\ stage'[i] # "waiting" =>
          IF closed' THEN stage'[i] = "dropped"
          ELSE stage'[i] = "ready" /\ (snapshot[i] = NoEpoch \/ snapshot[i] # epoch)]_vars

\* Every token handed to a refused caller is eventually ready, or the queue is
\* closed: while it waits for the window there is a request to come back from.
TokensBecomeReady == \A i \in Id : (stage[i] = "waiting") ~> (stage[i] # "waiting")

\* The queue's books agree at every step: the bound with the records still owed
\* an end, the lists with the stages, and a reusable record with nobody who can
\* still publish it (reserve, publish, recv, release, close).
AccountsAreExact == OutstandingIsExact /\ ListsAreExact /\ OwnedUntilResolved

\* No token is linked after the event that would have made it ready, be it a
\* place in the window or credit on the pipe (reserve_writable_wait).
NoLostWake == NoLostWindowWake /\ NoLostCreditWake
=============================================================================
