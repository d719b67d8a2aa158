------------------------ MODULE RequestTimeoutProofs ------------------------
(***************************************************************************)
(* Proofs about the request timeout scheduler for every set of tasks, every *)
(* timeout and every length of the idle wait.                               *)
(***************************************************************************)
EXTENDS RequestTimeout, WellFoundedInduction, TLAPS

\* Safety needs no fairness.
SafetySpec == Init /\ [][Next]_vars

\* The task the thread has taken out of the queue and not let go of.
Taken == tpc \in {"claimed", "run", "finish"}

\* The thread's task: out of the queue, due, scheduled by a caller.
TakenIsDue ==
    IF Taken
      THEN /\ current \in Task /\ current \notin registered
           /\ cpc[current] # "none" /\ deadline[current] <= now
      ELSE current = NoTask

\* firing is set for the running task only, between the check of canceled and
\* the end of the handler.
FiringIsTaken ==
    /\ \A t \in firing : tpc \in {"run", "finish"} /\ current = t
    /\ tpc = "run" => current \in firing

\* A caller that waits in cancel(), or is back from it, has set canceled.
CanceledBeforeReturn ==
    \A t \in Task : cpc[t] \in {"waiting", "returned"} => t \in canceled

\* Userdata stays with the task until the handler or the destructor takes it.
Userdata ==
    /\ \A t \in Task : t \in registered => cpc[t] # "none" /\ fate[t] = "held"
    /\ \A t \in Task : cpc[t] = "none" => fate[t] = "held"
    /\ tpc = "claimed" => fate[current] = "held"
    /\ tpc = "run" => fate[current] = "handler"

IInv == /\ NeverOversleeps /\ CancelIsFinal
        /\ TakenIsDue /\ FiringIsTaken /\ CanceledBeforeReturn /\ Userdata
-----------------------------------------------------------------------------
\* A set of deadlines that is not empty has an earliest one, which is what
\* tasks_by_deadline.begin() is.
LEMMA NatMin ==
  ASSUME NEW S, S \subseteq Nat, S # {}
  PROVE  Min(S) \in S /\ \A y \in S : Min(S) <= y
  <1> DEFINE Less == {ss \in Nat \X Nat : ss[1] < ss[2]}
  <1>1. IsWellFoundedOn(Less, Nat)
    BY NatLessThanWellFounded DEF OpToRel
  <1>2. \A x, y \in Nat : x < y => <<x, y>> \in Less
    <2> TAKE x, y \in Nat
    <2> HAVE x < y
    <2>1. <<x, y>>[1] = x /\ <<x, y>>[2] = y
      OBVIOUS
    <2>2. <<x, y>> \in Nat \X Nat
      OBVIOUS
    <2> QED BY <2>1, <2>2, Zenon
  <1> HIDE DEF Less
  <1>3. PICK x \in S : \A y \in S : ~(<<y, x>> \in Less)
    BY <1>1, WFMin
  <1>4. \A y \in S : x <= y
    <2> TAKE y \in S
    <2>1. x \in Nat /\ y \in Nat
      OBVIOUS
    <2>2. ~(y < x)
      BY <1>2, <1>3, <2>1, Zenon
    <2> QED BY <2>1, <2>2
  <1> QED BY <1>4 DEF Min

\* Earliest is the deadline of some queued task, and none is before it.
LEMMA EarliestIsLeast ==
  ASSUME TypeOK, registered # {}
  PROVE  /\ Earliest \in Nat
         /\ \E t \in registered : IsEarliest(t)
         /\ \A t \in registered : Earliest <= deadline[t]
  <1> DEFINE D == {deadline[t] : t \in registered}
  <1>1. D \subseteq Nat /\ D # {}
    BY TimesAssumption DEF TypeOK
  <1>2. Min(D) \in D /\ \A y \in D : Min(D) <= y
    BY <1>1, NatMin
  <1> QED BY <1>1, <1>2 DEF Earliest, IsEarliest

\* The scheduler before the first request.
LEMMA InitIInv == Init => IInv
  BY TimesAssumption DEF Init, IInv, NeverOversleeps, TypeOK, CancelIsFinal, TakenIsDue,
     Taken, FiringIsTaken, CanceledBeforeReturn, Userdata

\* The clock only makes tasks more due.
LEMMA TickIInv == ASSUME IInv, Tick PROVE IInv'
  BY TimesAssumption DEF Tick, taskVars, IInv, NeverOversleeps, TypeOK, CancelIsFinal,
     TakenIsDue, Taken, FiringIsTaken, CanceledBeforeReturn, Userdata

\* schedule(): a sleeper that is not notified sleeps for an earlier deadline.
LEMMA ScheduleIInv ==
  ASSUME IInv, NEW t \in Task, NEW d \in Timeouts, Schedule(t, d) PROVE IInv'
  <1> USE TimesAssumption DEF IInv, NeverOversleeps, TypeOK
  <1>0. PICK b \in 1 .. now :
          /\ deadline' = [deadline EXCEPT ![t] = b + d]
          /\ tpc' = IF tpc = "none" THEN "top"
                    ELSE IF nextWake = 0 \/ b + d < nextWake THEN Notified(tpc) ELSE tpc
    BY DEF Schedule
  <1>a. b + d \in Nat /\ b + d <= MaxTime
    BY DEF Schedule
  <1>1. NeverOversleeps'
    <2>1. TypeOK'
      BY <1>0, <1>a DEF Schedule, Notified
    <2>2. (registered # {} => tpc # "none")'
      BY <1>0 DEF Notified
    <2>3. ASSUME tpc' \in {"idle", "wait"}, NEW u \in registered'
          PROVE  nextWake' <= deadline'[u]
      BY <1>0, <1>a, <2>3 DEF Schedule, Notified
    <2> QED BY <2>1, <2>2, <2>3
  <1>2. Taken' = Taken /\ (tpc' = "run" <=> tpc = "run")
          /\ (tpc' = "claimed" <=> tpc = "claimed") /\ (tpc' = "finish" <=> tpc = "finish")
    BY <1>0 DEF Notified, Taken
  <1>3. CancelIsFinal' /\ CanceledBeforeReturn'
    BY <1>2 DEF Schedule, CancelIsFinal, CanceledBeforeReturn
  <1>4. TakenIsDue'
    BY <1>0, <1>2 DEF Schedule, TakenIsDue
  <1>5. FiringIsTaken'
    BY <1>2 DEF Schedule, FiringIsTaken
  <1>6. Userdata'
    BY <1>2 DEF Schedule, Userdata
  <1> QED BY <1>1, <1>3, <1>4, <1>5, <1>6

\* cancel() up to the return, which waits until the task is not firing.
LEMMA CancelIInv ==
  ASSUME IInv, NEW t \in Task, CancelUnregister(t) \/ Caller(t) PROVE IInv'
  <1> USE DEF IInv, NeverOversleeps, TypeOK, taskVars, CancelUnregister, Caller,
              CancelNotify, CancelMark, CancelReturn, Notified
  <1>1. NeverOversleeps'
    OBVIOUS
  <1>2. CancelIsFinal'
    BY DEF CancelIsFinal, FiringIsTaken
  <1>3. TakenIsDue'
    BY DEF TakenIsDue, Taken
  <1>4. FiringIsTaken' /\ CanceledBeforeReturn'
    BY DEF FiringIsTaken, CanceledBeforeReturn
  <1>5. Userdata'
    BY DEF Userdata
  <1> QED BY <1>1, <1>2, <1>3, <1>4, <1>5

\* A caller lets go of its task.
LEMMA ReleaseIInv == ASSUME IInv, NEW t \in Task, Release(t) PROVE IInv'
  <1> USE DEF IInv, NeverOversleeps, TypeOK, Release, Destroyed
  <1>1. NeverOversleeps'
    OBVIOUS
  <1>2. CancelIsFinal' /\ TakenIsDue' /\ FiringIsTaken' /\ CanceledBeforeReturn'
    BY DEF CancelIsFinal, TakenIsDue, Taken, FiringIsTaken, CanceledBeforeReturn
  <1>3. Userdata'
    BY DEF Userdata, TakenIsDue, Taken
  <1> QED BY <1>1, <1>2, <1>3

\* run_timeout_loop() between two tasks: it sleeps until the earliest deadline,
\* and exits only when it has seen an empty queue.
LEMMA SleepIInv ==
  ASSUME IInv, LoopTop \/ IdleTimeout \/ WaitTimeout \/ SpuriousWake PROVE IInv'
  <1> USE TimesAssumption DEF IInv, NeverOversleeps, TypeOK, taskVars, LoopTop,
              IdleTimeout, WaitTimeout, SpuriousWake, Notified
  <1>1. NeverOversleeps'
    OBVIOUS
  <1>2. CancelIsFinal' /\ FiringIsTaken' /\ CanceledBeforeReturn'
    BY DEF CancelIsFinal, FiringIsTaken, CanceledBeforeReturn
  <1>3. TakenIsDue' /\ Userdata'
    BY DEF TakenIsDue, Taken, Userdata
  <1> QED BY <1>1, <1>2, <1>3

\* The inner loop takes a task that is due.
LEMMA ScanIInv == ASSUME IInv, Scan PROVE IInv'
  <1> USE EarliestIsLeast DEF IInv, NeverOversleeps, TypeOK, taskVars
  <1>1. CASE registered = {}
    BY <1>1 DEF Scan, CancelIsFinal, TakenIsDue, Taken, FiringIsTaken,
                CanceledBeforeReturn, Userdata
  <1>2. CASE registered # {} /\ Earliest > now
    <2>1. NeverOversleeps'
      BY <1>2 DEF Scan
    <2>2. CancelIsFinal' /\ TakenIsDue' /\ FiringIsTaken' /\ CanceledBeforeReturn' /\ Userdata'
      BY <1>2 DEF Scan, CancelIsFinal, TakenIsDue, Taken, FiringIsTaken,
                  CanceledBeforeReturn, Userdata
    <2> QED BY <2>1, <2>2
  <1>3. CASE registered # {} /\ Earliest <= now
    <2>1. PICK t \in registered : /\ IsEarliest(t) /\ current' = t
                                  /\ registered' = registered \ {t}
      BY <1>3 DEF Scan
    <2>2. tpc = "scan" /\ tpc' = "claimed" /\ UNCHANGED <<now, taskVars, cpc, nextWake>>
      BY <1>3 DEF Scan
    <2>3. NeverOversleeps' /\ CancelIsFinal' /\ CanceledBeforeReturn' /\ FiringIsTaken'
      BY <2>1, <2>2 DEF CancelIsFinal, FiringIsTaken, CanceledBeforeReturn
    <2>4. deadline[t] <= now
      BY <1>3, <2>1 DEF IsEarliest
    <2>5. TakenIsDue' /\ Userdata'
      BY <2>1, <2>2, <2>4 DEF TakenIsDue, Taken, Userdata
    <2> QED BY <2>3, <2>5
  <1> QED BY <1>1, <1>2, <1>3 DEF Scan

\* Firing a task: canceled is tested and firing set in one hold of its mutex.
LEMMA FireIInv == ASSUME IInv, Fire PROVE IInv'
  <1> USE DEF IInv, NeverOversleeps, TypeOK, Fire, TakenIsDue, Taken
  <1>1. NeverOversleeps' /\ TakenIsDue'
    OBVIOUS
  <1>2. CancelIsFinal'
    BY DEF CancelIsFinal, CanceledBeforeReturn
  <1>3. FiringIsTaken' /\ CanceledBeforeReturn'
    BY DEF FiringIsTaken, CanceledBeforeReturn
  <1>4. Userdata'
    BY DEF Userdata
  <1> QED BY <1>1, <1>2, <1>3, <1>4

\* The handler, which may cancel its own task, and the end of it.
LEMMA HandlerIInv == ASSUME IInv, SelfCancel \/ HandlerEnd \/ Finish PROVE IInv'
  <1> USE DEF IInv, NeverOversleeps, TypeOK, taskVars, SelfCancel, HandlerEnd, Finish,
              Destroyed, TakenIsDue, Taken
  <1>1. NeverOversleeps' /\ TakenIsDue'
    OBVIOUS
  <1>2. CancelIsFinal'
    BY DEF CancelIsFinal, FiringIsTaken
  <1>3. FiringIsTaken' /\ CanceledBeforeReturn'
    BY DEF FiringIsTaken, CanceledBeforeReturn
  <1>4. Userdata'
    BY DEF Userdata
  <1> QED BY <1>1, <1>2, <1>3, <1>4

\* Every step of a caller, of the thread or of the clock keeps the invariant.
LEMMA NextIInv == IInv /\ [Next]_vars => IInv'
  <1> SUFFICES ASSUME IInv, [Next]_vars PROVE IInv'
    OBVIOUS
  <1>1. CASE Tick
    BY <1>1, TickIInv
  <1>2. ASSUME NEW t \in Task, NEW d \in Timeouts, Schedule(t, d) PROVE IInv'
    BY <1>2, ScheduleIInv
  <1>3. ASSUME NEW t \in Task, CancelUnregister(t) \/ Caller(t) PROVE IInv'
    BY <1>3, CancelIInv
  <1>4. ASSUME NEW t \in Task, Release(t) PROVE IInv'
    BY <1>4, ReleaseIInv
  <1>5. CASE Scheduler \/ SpuriousWake \/ SelfCancel
    BY <1>5, SleepIInv, ScanIInv, FireIInv, HandlerIInv DEF Scheduler
  <1>6. CASE UNCHANGED vars
    BY <1>6 DEF vars, IInv, NeverOversleeps, TypeOK, CancelIsFinal, TakenIsDue, Taken,
                FiringIsTaken, CanceledBeforeReturn, Userdata
  <1> QED BY <1>1, <1>2, <1>3, <1>4, <1>5, <1>6 DEF Next

\* The inductive invariant holds in every behaviour of the scheduler.
THEOREM Invariance == SafetySpec => []IInv
  BY InitIInv, NextIInv, PTL DEF SafetySpec

\* Whatever is scheduled or canceled while the thread sleeps, it never sleeps
\* past a deadline and never exits with a task queued (schedule(): should_notify;
\* run_timeout_loop(): the idle exit).
THEOREM DeadlinesAreKept == SafetySpec => []NeverOversleeps
  <1>1. IInv => NeverOversleeps
    BY DEF IInv
  <1> QED BY <1>1, Invariance, PTL

\* After cancel() the handler is over, and a handler that runs is due and owns
\* its userdata, whatever moment the two meet at (cancel(), run_timeout_loop()).
THEOREM HandlerContract == SafetySpec => []HandlersAreSafe
  <1>1. IInv => HandlersAreSafe
    BY DEF IInv, HandlersAreSafe, FiresDueAndOwned, TakenIsDue, Taken, Userdata
  <1> QED BY <1>1, Invariance, PTL

\* Userdata goes to the handler or to the cleanup, at most once (~task_t(), the take
\* under the task's mutex before the handler runs).
THEOREM UserdataChangesHandsOnce == SafetySpec => UserdataGivenOnce
  <1>1. ASSUME IInv, [Next]_vars, NEW t \in Task, fate[t] # "held"
        PROVE  fate'[t] = fate[t]
    <2> USE <1>1 DEF IInv, NeverOversleeps, TypeOK, Destroyed, taskVars
    <2>1. CASE Fire
      BY <2>1 DEF Fire, Userdata, TakenIsDue, Taken
    <2>2. CASE Finish
      BY <2>2 DEF Finish, TakenIsDue, Taken
    <2>3. ASSUME NEW u \in Task, Release(u) PROVE fate'[t] = fate[t]
      BY <2>3 DEF Release
    <2>4. ASSUME NEW u \in Task, NEW d \in Timeouts, Schedule(u, d)
          PROVE  fate'[t] = fate[t]
      BY <2>4 DEF Schedule
    <2>5. ASSUME NEW u \in Task, CancelUnregister(u) \/ Caller(u)
          PROVE  fate'[t] = fate[t]
      BY <2>5 DEF CancelUnregister, Caller, CancelNotify, CancelMark, CancelReturn
    <2>6. CASE Tick \/ SpuriousWake \/ SelfCancel
      BY <2>6 DEF Tick, SpuriousWake, SelfCancel
    <2>7. CASE Scheduler /\ ~Fire /\ ~Finish
      BY <2>7 DEF Scheduler, LoopTop, IdleTimeout, Scan, WaitTimeout, HandlerEnd
    <2>8. CASE UNCHANGED vars
      BY <2>8 DEF vars
    <2> QED BY <2>1, <2>2, <2>3, <2>4, <2>5, <2>6, <2>7, <2>8 DEF Next
  <1>2. IInv /\ [Next]_vars => [\A t \in Task : fate[t] # "held" => fate'[t] = fate[t]]_vars
    BY <1>1
  <1> QED BY <1>2, Invariance, PTL DEF SafetySpec, UserdataGivenOnce
=============================================================================
