--------------------------- MODULE RequestTimeout ---------------------------
(***************************************************************************)
(* The process-wide request timeout scheduler                               *)
(* (core/src/api/socket/request_timeout_scheduler_internal.cpp): schedule() *)
(* and cancel() against a thread that sleeps until the next deadline, fires *)
(* one task at a time outside the lock, and exits when it has been idle.    *)
(*                                                                          *)
(* Time is a counter; a cv.wait_for() ends when the clock reaches nextWake, *)
(* on a notification, or spuriously.  Sections under state.mutex or under a *)
(* task's mutex are single steps.                                           *)
(***************************************************************************)
EXTENDS Naturals, FiniteSets, FiniteSetsExt

CONSTANTS Task,         \* one task_t, with the one caller that holds it
          Timeouts,     \* timeouts a caller may ask for, in clock units
          IdleWait,     \* idle_exit_wait_ns
          MaxTime       \* bound on the clock

ASSUME TimesAssumption ==
    /\ Timeouts \subseteq Nat \ {0} /\ IdleWait \in Nat \ {0}
    /\ MaxTime \in Nat \ {0}

VARIABLES
    now,         \* monotonic_now_ns()
    deadline,    \* the deadline of each task
    registered,  \* tasks in tasks_by_deadline
    canceled,    \* tasks with canceled set
    firing,      \* tasks with firing set
    fate,        \* who has a task's userdata: "held", "handler" or "cleanup"
    nextWake,    \* state.next_wake_ns, 0 when there is no sleeper
    tpc,         \* the scheduler thread: "none" when state.started is false
    current,     \* the task it took, or NoTask
    cpc,         \* each task's caller
    selfCanceled \* history: tasks canceled from inside their own handler

vars == <<now, deadline, registered, canceled, firing, fate, nextWake, tpc,
          current, cpc, selfCanceled>>
taskVars == <<deadline, canceled, firing, fate, selfCanceled>>

NoTask == "no task"
Earliest == Min({deadline[t] : t \in registered})
IsEarliest(t) == deadline[t] = Earliest

Init ==
    /\ now = 1
    /\ deadline = [t \in Task |-> 0]
    /\ registered = {} /\ canceled = {} /\ firing = {} /\ selfCanceled = {}
    /\ fate = [t \in Task |-> "held"]
    /\ nextWake = 0
    /\ tpc = "none" /\ current = NoTask
    /\ cpc = [t \in Task |-> "none"]

Tick ==
    /\ now < MaxTime
    /\ now' = now + 1
    /\ UNCHANGED <<taskVars, registered, nextWake, tpc, current, cpc>>
-----------------------------------------------------------------------------
(* Callers.                                                                 *)

\* cv.notify: a sleeping scheduler goes back to its loop.
Notified(p) == IF p = "idle" THEN "top" ELSE IF p = "wait" THEN "scan" ELSE p

\* Mutant of Schedule: no wake-up of a sleeper for an earlier deadline.
BugScheduleSilent(t, timeout) ==
    /\ cpc[t] = "none"
    /\ now + timeout <= MaxTime
    /\ deadline' = [deadline EXCEPT ![t] = now + timeout]
    /\ registered' = registered \cup {t}
    /\ tpc' = IF tpc = "none" THEN "top" ELSE tpc
    /\ cpc' = [cpc EXCEPT ![t] = "held"]
    /\ UNCHANGED <<now, canceled, firing, fate, nextWake, current, selfCanceled>>

\* schedule(): insert, start the thread if there is none, wake it only when the
\* new deadline is before the one it sleeps for.  The deadline was computed from
\* a clock read before the lock was taken.
Schedule(t, timeout) ==
    /\ cpc[t] = "none"
    /\ now + timeout <= MaxTime
    /\ \E before \in 1 .. now :
          LET d == before + timeout
              shouldNotify == nextWake = 0 \/ d < nextWake
          IN  /\ deadline' = [deadline EXCEPT ![t] = d]
              /\ tpc' = IF tpc = "none" THEN "top"
                        ELSE IF shouldNotify THEN Notified(tpc) ELSE tpc
    /\ registered' = registered \cup {t}
    /\ cpc' = [cpc EXCEPT ![t] = "held"]
    /\ UNCHANGED <<now, canceled, firing, fate, nextWake, current, selfCanceled>>

\* cancel(), the part under state.mutex.
CancelUnregister(t) ==
    /\ cpc[t] = "held"
    /\ registered' = registered \ {t}
    /\ cpc' = [cpc EXCEPT ![t] = IF t \in registered /\ IsEarliest(t) /\ registered' = {}
                                 THEN "notify" ELSE "mark"]
    /\ UNCHANGED <<now, taskVars, nextWake, tpc, current>>

\* cancel(): state.cv.notify_one(), after the unlock.
CancelNotify(t) ==
    /\ cpc[t] = "notify"
    /\ tpc' = Notified(tpc)
    /\ cpc' = [cpc EXCEPT ![t] = "mark"]
    /\ UNCHANGED <<now, taskVars, registered, nextWake, current>>

\* cancel(): canceled = true under the task's mutex.
CancelMark(t) ==
    /\ cpc[t] = "mark"
    /\ canceled' = canceled \cup {t}
    /\ cpc' = [cpc EXCEPT ![t] = "waiting"]
    /\ UNCHANGED <<now, deadline, firing, fate, selfCanceled, registered, nextWake,
                   tpc, current>>

\* Mutant of CancelReturn: does not wait for a running handler.
BugCancelDoesNotWait(t) ==
    /\ cpc[t] = "waiting"
    /\ cpc' = [cpc EXCEPT ![t] = "returned"]
    /\ UNCHANGED <<now, taskVars, registered, nextWake, tpc, current>>

\* cancel(): returns once the task is not firing.
CancelReturn(t) ==
    /\ cpc[t] = "waiting"
    /\ t \notin firing
    /\ cpc' = [cpc EXCEPT ![t] = "returned"]
    /\ UNCHANGED <<now, taskVars, registered, nextWake, tpc, current>>

\* Mutant of Destroyed: cleans up what the handler was given.
BugDestroyedTwice(t) == [fate EXCEPT ![t] = "cleanup"]

\* ~task_t() with the last reference: unfired userdata goes to the cleanup.
Destroyed(t) == [fate EXCEPT ![t] = IF @ = "held" THEN "cleanup" ELSE @]

\* The caller drops its reference, after cancel() or without calling it.
Release(t) ==
    /\ cpc[t] \in {"held", "returned"}
    /\ cpc' = [cpc EXCEPT ![t] = "released"]
    /\ fate' = IF t \in registered \/ current = t THEN fate ELSE Destroyed(t)
    /\ UNCHANGED <<now, deadline, canceled, firing, selfCanceled, registered,
                   nextWake, tpc, current>>
-----------------------------------------------------------------------------
(* run_timeout_loop()                                                       *)

\* The outer loop: nothing scheduled means a bounded idle wait.
LoopTop ==
    /\ tpc = "top"
    /\ IF registered = {} THEN nextWake' = now + IdleWait /\ tpc' = "idle"
                          ELSE nextWake' = nextWake /\ tpc' = "scan"
    /\ UNCHANGED <<now, taskVars, registered, current, cpc>>

\* Mutant of IdleTimeout: exits on the timeout without looking again.
BugIdleExit ==
    /\ tpc = "idle"
    /\ now >= nextWake
    /\ nextWake' = 0 /\ tpc' = "none"
    /\ UNCHANGED <<now, taskVars, registered, current, cpc>>

\* The idle wait times out: exit if there is still nothing, else go on.
IdleTimeout ==
    /\ tpc = "idle"
    /\ now >= nextWake
    /\ IF registered = {} THEN nextWake' = 0 /\ tpc' = "none"
                          ELSE nextWake' = nextWake /\ tpc' = "scan"
    /\ UNCHANGED <<now, taskVars, registered, current, cpc>>

\* The inner loop: nothing left, sleep until the earliest deadline, or take it.
Scan ==
    /\ tpc = "scan"
    /\ \/ /\ registered = {}
          /\ tpc' = "top"
          /\ UNCHANGED <<registered, nextWake, current>>
       \/ /\ registered # {} /\ Earliest > now
          /\ nextWake' = Earliest /\ tpc' = "wait"
          /\ UNCHANGED <<registered, current>>
       \/ /\ registered # {} /\ Earliest <= now
          /\ \E t \in registered :
                /\ IsEarliest(t)
                /\ current' = t
                /\ registered' = registered \ {t}
          /\ tpc' = "claimed"
          /\ UNCHANGED nextWake
    /\ UNCHANGED <<now, taskVars, cpc>>

WaitTimeout ==
    /\ tpc = "wait"
    /\ now >= nextWake
    /\ tpc' = "scan"
    /\ UNCHANGED <<now, taskVars, registered, nextWake, current, cpc>>

SpuriousWake ==
    /\ tpc \in {"idle", "wait"}
    /\ tpc' = Notified(tpc)
    /\ UNCHANGED <<now, taskVars, registered, nextWake, current, cpc>>

\* Under the task's mutex: fire unless canceled, taking the userdata.
Fire ==
    /\ tpc = "claimed"
    /\ IF current \in canceled
         THEN tpc' = "finish" /\ UNCHANGED <<firing, fate>>
         ELSE /\ tpc' = "run"
              /\ firing' = firing \cup {current}
              /\ fate' = [fate EXCEPT ![current] = "handler"]
    /\ UNCHANGED <<now, deadline, canceled, selfCanceled, registered, nextWake,
                   current, cpc>>

\* The handler cancels its own task: cancel() must not wait for itself.
SelfCancel ==
    /\ tpc = "run"
    /\ cpc[current] = "held"
    /\ canceled' = canceled \cup {current}
    /\ selfCanceled' = selfCanceled \cup {current}
    /\ cpc' = [cpc EXCEPT ![current] = "returned"]
    /\ UNCHANGED <<now, deadline, firing, fate, registered, nextWake, tpc, current>>

HandlerEnd ==
    /\ tpc = "run"
    /\ tpc' = "finish"
    /\ UNCHANGED <<now, taskVars, registered, nextWake, current, cpc>>

\* firing = false, notify_all() to cancel(), and the loop drops its reference.
Finish ==
    /\ tpc = "finish"
    /\ firing' = firing \ {current}
    /\ fate' = IF cpc[current] = "released" THEN Destroyed(current) ELSE fate
    /\ current' = NoTask
    /\ tpc' = "top"
    /\ UNCHANGED <<now, deadline, canceled, selfCanceled, registered, nextWake, cpc>>
-----------------------------------------------------------------------------
Caller(t) == CancelNotify(t) \/ CancelMark(t) \/ CancelReturn(t)
Scheduler == LoopTop \/ IdleTimeout \/ Scan \/ WaitTimeout \/ Fire \/ HandlerEnd \/ Finish

Next ==
    \/ Tick \/ Scheduler \/ SpuriousWake \/ SelfCancel
    \/ \E t \in Task :
          \/ \E d \in Timeouts : Schedule(t, d)
          \/ CancelUnregister(t) \/ Caller(t) \/ Release(t)

\* The clock advances, the thread runs (handlers return), and a cancel() that
\* has begun goes on; nobody has to schedule or cancel.
Spec == /\ Init /\ [][Next]_vars
        /\ WF_vars(Tick) /\ WF_vars(Scheduler) /\ \A t \in Task : WF_vars(Caller(t))
-----------------------------------------------------------------------------
TypeOK ==
    /\ now \in 1 .. MaxTime /\ nextWake \in Nat
    /\ deadline \in [Task -> 0 .. MaxTime]
    /\ registered \subseteq Task /\ canceled \subseteq Task /\ firing \subseteq Task
    /\ selfCanceled \subseteq Task
    /\ fate \in [Task -> {"held", "handler", "cleanup"}]
    /\ tpc \in {"none", "top", "idle", "scan", "wait", "claimed", "run", "finish"}
    /\ current \in Task \cup {NoTask}
    /\ cpc \in [Task -> {"none", "held", "notify", "mark", "waiting", "returned", "released"}]

\* A queued task has a thread that is never asleep past its deadline: skipping
\* the notification for a later task, and on cancel of the earliest, is safe, and
\* the idle exit strands nothing ("checking `started` in a separate lock hold can
\* strand the new task with no consumer").
NeverOversleeps ==
    /\ TypeOK
    /\ registered # {} => tpc # "none"
    /\ tpc \in {"idle", "wait"} => \A t \in registered : nextWake <= deadline[t]

\* Once cancel() has returned the handler is not running and will not run,
\* unless the handler itself is the caller.
CancelIsFinal ==
    \A t \in Task \ selfCanceled :
        cpc[t] = "returned" => ~(tpc = "run" /\ current = t)

\* A handler never runs before its deadline, and never after its userdata was
\* given to the cleanup.
FiresDueAndOwned ==
    tpc = "run" => deadline[current] <= now /\ fate[current] = "handler"

\* Userdata changes hands at most once: handler or cleanup, never both, never back.
UserdataGivenOnce ==
    [][\A t \in Task : fate[t] # "held" => fate'[t] = fate[t]]_vars

\* Every scheduled task leaves the queue (fired or canceled).
TasksAreServed == \A t \in Task : (t \in registered) ~> (t \notin registered)

\* cancel() returns, also when it meets the handler or is called by it.
CancelReturns == \A t \in Task : (cpc[t] \in {"notify", "mark", "waiting"}) ~> (cpc[t] = "returned")

\* The contract of cancel() and of the handler, whatever moment the two meet at:
\* after cancel() the handler is over, and a handler that runs is due and owns
\* its userdata.
HandlersAreSafe == CancelIsFinal /\ FiresDueAndOwned

\* Nobody is left waiting: neither a queued task for the scheduler thread nor a
\* cancel() for a handler.
EveryoneIsServed == TasksAreServed /\ CancelReturns
=============================================================================
