----------------------------- MODULE Relocation -----------------------------
(***************************************************************************)
(* Moving one live object from a source node to a target node              *)
(* (framework/.../runtime/stateful): the source driver                     *)
(* maintenance_runtime.cpp, the source and target sides of                 *)
(* stateful_object_runtime.cpp, the target handlers of                     *)
(* public_host_runtime.cpp, and the authority row of the Location Store    *)
(* they settle through (public_store_adapters.hpp).                        *)
(*                                                                         *)
(* The source seals the object and captures its queue, sends the state,    *)
(* waits for the target's Ready, relays what it accepted meanwhile (the    *)
(* boundary batch), sends a one-way cutover, and from then on both sides   *)
(* learn the outcome only from the row: the target retargets it with a CAS *)
(* on the version the relocation started from, the source overwrites that  *)
(* same version (Preserve) once the Restore deadline has passed.           *)
(*                                                                         *)
(* Records are numbered in the order the source accepts them, from one     *)
(* ingress turn.  A checksum is modelled by the sequence it is taken over. *)
(* The source node loses its lease only while it settles or after a crash: *)
(* losing it while serving stops the whole node, outside this module.      *)
(***************************************************************************)
EXTENDS Naturals, Sequences, SequencesExt

CONSTANTS
    MaxRecords,      \* bound on the application records ever accepted
    MaxAttempts,     \* bound on the relocations started
    MaxFaults,       \* bound on the faults: connections lost, Store answers
                     \* lost, crashes, and leases lost by a running node
    RowNamesAttempt  \* the row carries the relocation reference: TRUE for a
                     \* Spot, FALSE for a standalone Actor

ASSUME BoundsAssumption ==
    /\ MaxRecords \in Nat /\ MaxAttempts \in Nat /\ MaxFaults \in Nat
    /\ RowNamesAttempt \in BOOLEAN

Attempt == 1..MaxAttempts

VARIABLES
    \* the source node
    sphase,     \* where the driver is; "serving" is the object dispatching
    attempt,    \* relocation in progress, or the last one
    queue,      \* the object's application queue
    frozen,     \* pending_application captured by the seal
    boundary,   \* boundary_application: accepted since the seal
    batch,      \* the copy of it that begin_relocation_boundary() took
    submitted,  \* submitted_route_generation
    late,       \* the Restore deadline has passed
    follows,    \* follow_generations names the target
    \* the connection, and the Location Store
    net,        \* ordered connection to the target
    up, route,  \* selected route: connected, and its generation
    reply,      \* answer to the pending prepare request
    row,        \* authority row [owner, gen, ver, by]
    fence,      \* fence[a]: expected_authority_store_version of a
    live,       \* nodes whose owner lease is live
    \* the target node
    tstate,     \* "open", "sealed" (shutdown_admission_seal) or "dead"
    att,        \* assembly or target attempt of each relocation
    tobj,       \* attempt whose restored record holds the object key, or 0
    tqueue,     \* its application queue
    theld,      \* its held_application
    \* history and bounds
    accepted, ran, cut, faults

source == <<sphase, attempt, queue, frozen, boundary, batch, submitted, late, follows>>
target == <<tstate, att, tobj, tqueue, theld>>
link == <<net, up, route>>
store == <<row, live>>
history == <<accepted, ran, cut, faults>>
vars == <<source, link, reply, store, fence, target, history>>

SourceGeneration == 1
NoAttempt == [phase |-> "none", saved |-> <<>>, batch |-> <<>>]

Init ==
    /\ sphase = "serving" /\ attempt = 0
    /\ queue = <<>> /\ frozen = <<>> /\ boundary = <<>> /\ batch = <<>>
    /\ submitted = 0 /\ late = FALSE /\ follows = FALSE
    /\ net = <<>> /\ up = TRUE /\ route = 1
    /\ reply = "none"
    /\ row = [owner |-> "source", gen |-> SourceGeneration, ver |-> 0, by |-> 0]
    /\ fence = [a \in Attempt |-> 0]
    /\ live = {"source", "target"}
    /\ tstate = "open" /\ att = [a \in Attempt |-> NoAttempt]
    /\ tobj = 0 /\ tqueue = <<>> /\ theld = <<>>
    /\ accepted = 0 /\ ran = <<>> /\ cut = 0 /\ faults = 0

Faulty == faults < MaxFaults /\ faults' = faults + 1

Send(ms) == net' = IF up THEN net \o ms ELSE net
Message(kind, recs) == [kind |-> kind, a |-> attempt, recs |-> recs]
BoundaryMessages(b) == [i \in 1..Len(b) |-> Message("data", <<b[i]>>)]

(***************************************************************************)
(* Application records at the source: place_application_on_lane().         *)
(***************************************************************************)
Holding == {"sealed", "awaiting", "ready"}            \* ingress phase holding
PostBoundary == {"boundary", "sent", "settling"}      \* ingress phase post_boundary

Accept ==
    /\ accepted < MaxRecords /\ accepted' = accepted + 1
    /\ \/ /\ sphase = "serving"
          /\ queue' = Append(queue, accepted')
          /\ UNCHANGED <<boundary, net>>
       \/ /\ sphase \in Holding
          /\ boundary' = Append(boundary, accepted')
          /\ UNCHANGED <<queue, net>>
       \/ /\ sphase \in PostBoundary
          /\ boundary' = Append(boundary, accepted')
          /\ Send(<<Message("forward", <<accepted'>>)>>)
          /\ UNCHANGED queue
       \/ /\ sphase = "followed"
          /\ IF follows THEN Send(<<Message("forward", <<accepted'>>)>>) ELSE UNCHANGED net
          /\ UNCHANGED <<queue, boundary>>
    /\ UNCHANGED <<sphase, attempt, frozen, batch, submitted, late, follows,
                   up, route, reply, store, fence, target, ran, cut, faults>>

\* try_claim() hands the next record of the serving object to its handler.
ServeAtSource ==
    /\ sphase = "serving" /\ queue # <<>>
    /\ ran' = Append(ran, Head(queue)) /\ queue' = Tail(queue)
    /\ UNCHANGED <<sphase, attempt, frozen, boundary, batch, submitted, late, follows, link, reply, store, fence, target, accepted, cut, faults>>

(***************************************************************************)
(* The source driver.                                                      *)
(***************************************************************************)

\* relocate_seal(): try_seal_relocation_aggregate() at a quiescent point.
Seal ==
    /\ sphase = "serving" /\ attempt < MaxAttempts
    /\ sphase' = "sealed" /\ attempt' = attempt + 1
    /\ fence' = [fence EXCEPT ![attempt'] = row.ver]
    /\ frozen' = queue /\ queue' = <<>> /\ boundary' = <<>> /\ batch' = <<>>
    /\ late' = FALSE
    /\ UNCHANGED <<submitted, follows, link, reply, store, target, history>>

\* Mutant: the records accepted since the seal are forgotten.
RestoredQueueMutant == queue \o frozen
RestoredQueue == queue \o frozen \o boundary

\* abort_relocation_before_cutover(): everything captured and everything held
\* returns to the queue and dispatch reopens.
Resume ==
    /\ sphase' = "serving" /\ queue' = RestoredQueue
    /\ frozen' = <<>> /\ boundary' = <<>> /\ batch' = <<>>
    /\ submitted' = 0 /\ late' = FALSE /\ reply' = "none"
    /\ UNCHANGED <<attempt, follows>>

\* relocate_encode() fails.
EncodeFails ==
    /\ sphase = "sealed" /\ Resume
    /\ UNCHANGED <<link, store, fence, target, history>>

\* The prepare request is enqueued first, the state chunks behind it.
Prepare ==
    /\ sphase = "sealed" /\ sphase' = "awaiting"
    /\ Send(<<Message("prepare", <<>>), Message("state", frozen)>>)
    /\ UNCHANGED <<attempt, queue, frozen, boundary, batch, submitted, late, follows,
                   up, route, reply, store, fence, target, history>>

PrepareReady ==
    /\ sphase = "awaiting" /\ reply = "ready"
    /\ sphase' = "ready" /\ reply' = "none"
    /\ UNCHANGED <<attempt, queue, frozen, boundary, batch, submitted, late, follows,
                   link, store, fence, target, history>>

\* An explicit failure, a request that cannot be sent and an answer that does
\* not come in time all end in restore_failed, and the source resumes.
PrepareFails ==
    /\ sphase = "awaiting" /\ Resume
    /\ UNCHANGED <<link, store, fence, target, history>>

\* relocate_boundary_and_send() up to the send: begin_relocation_boundary().
TakeBoundary ==
    /\ sphase = "ready" /\ sphase' = "boundary"
    /\ batch' = boundary /\ cut' = accepted
    /\ submitted' = IF up THEN route ELSE 0
    /\ UNCHANGED <<attempt, queue, frozen, boundary, late, follows,
                   link, reply, store, fence, target, accepted, ran, faults>>

SendBoundary ==
    /\ sphase = "boundary" /\ up
    /\ sphase' = "sent" /\ Send(BoundaryMessages(batch))
    /\ UNCHANGED <<attempt, queue, frozen, boundary, batch, submitted, late, follows,
                   up, route, reply, store, fence, target, history>>

\* The send fails after some of the records left.
SendBoundaryFails ==
    /\ sphase = "boundary" /\ Resume
    /\ \E n \in 0..Len(batch) : Send(SubSeq(BoundaryMessages(batch), 1, n))
    /\ UNCHANGED <<up, route, store, fence, target, history>>

\* submit_cutover(): sent or not, its terminal decides nothing.
SendCutover ==
    /\ sphase = "sent" /\ sphase' = "settling"
    /\ Send(<<Message("cutover", batch)>>)
    /\ UNCHANGED <<attempt, queue, frozen, boundary, batch, submitted, late, follows,
                   up, route, reply, store, fence, target, history>>

(***************************************************************************)
(* settle_relocation() and apply_relocation_settlement().                  *)
(***************************************************************************)

\* source_settlement_of()
SourceSettlement ==
    IF row.owner = "none" THEN "expired"
    ELSE IF row.gen > SourceGeneration /\ row.owner # "source" THEN "committed"
    ELSE IF row.gen # SourceGeneration \/ row.owner # "source" THEN "data_lost"
    ELSE IF row.ver = fence[attempt] THEN "unsettled"
    ELSE "preserved"

Release(phase) ==
    /\ sphase' = phase /\ frozen' = <<>> /\ boundary' = <<>> /\ batch' = <<>>
    /\ submitted' = 0 /\ late' = FALSE /\ reply' = "none"
    /\ UNCHANGED <<attempt, queue>>

\* The row shows a later owner generation of another owner: finalize and keep
\* only the Message Follow route, usable while the first target is the owner.
SettleCommitted ==
    /\ sphase = "settling" /\ SourceSettlement = "committed"
    /\ Release("followed") /\ follows' = (row.owner = "target")
    /\ UNCHANGED <<link, store, fence, target, history>>

\* The version moved while the source stayed the owner, under a live lease.
SettlePreserved ==
    /\ sphase = "settling" /\ SourceSettlement = "preserved"
    /\ "source" \in live
    /\ Resume
    /\ UNCHANGED <<link, store, fence, target, history>>

\* Past the Restore deadline: the Preserve CAS on the fenced version.  Its
\* answer may be lost; the next reading then finds the version moved.
PreserveWins == [row EXCEPT !.ver = @ + 1]
Preserve ==
    /\ sphase = "settling" /\ SourceSettlement = "unsettled"
    /\ late /\ "source" \in live
    /\ row' = PreserveWins
    /\ \/ Resume /\ UNCHANGED faults
       \/ /\ Faulty
          /\ UNCHANGED <<source, reply>>
    /\ UNCHANGED <<link, live, fence, target, accepted, ran, cut>>

\* A missing row, an unusable row, or a lost lease where the fence needs it: the
\* object stays closed.
\* Mutant: an unsettled row is read again although the lease is lost.
SettleExpiredMutant ==
    /\ sphase = "settling"
    /\ \/ SourceSettlement \in {"expired", "data_lost"}
       \/ SourceSettlement = "preserved" /\ "source" \notin live
    /\ Release("stopped") /\ UNCHANGED follows
    /\ UNCHANGED <<link, store, fence, target, history>>
SettleExpired ==
    /\ sphase = "settling"
    /\ \/ SourceSettlement \in {"expired", "data_lost"}
       \/ SourceSettlement = "preserved" /\ "source" \notin live
       \/ SourceSettlement = "unsettled" /\ late /\ "source" \notin live
    /\ Release("stopped") /\ UNCHANGED follows
    /\ UNCHANGED <<link, store, fence, target, history>>

\* The row could not be read before the host's stop deadline.
SettleStopped ==
    /\ sphase = "settling" /\ Release("stopped") /\ UNCHANGED follows
    /\ UNCHANGED <<link, store, fence, target, history>>

\* Another selected route before the deadline: the whole batch and the cutover
\* again.  An unreadable row counts as unsettled.
Resend ==
    /\ sphase = "settling" /\ ~late /\ up /\ route # submitted
    /\ submitted' = route
    /\ Send(BoundaryMessages(batch) \o <<Message("cutover", batch)>>)
    /\ UNCHANGED <<sphase, attempt, queue, frozen, boundary, batch, late, follows,
                   up, route, reply, store, fence, target, history>>

DeadlinePasses ==
    /\ sphase = "settling" /\ ~late /\ late' = TRUE
    /\ UNCHANGED <<sphase, attempt, queue, frozen, boundary, batch, submitted, follows, link, reply, store, fence, target, history>>

(***************************************************************************)
(* The target node: its handlers run one at a time (dispatch_ready_impl).  *)
(***************************************************************************)
Receive(kind) ==
    /\ net # <<>> /\ Head(net).kind = kind /\ tstate # "dead"
    /\ net' = Tail(net)
    /\ UNCHANGED <<up, route>>

Phase(a) == att[a].phase
SetPhase(a, p) == att' = [att EXCEPT ![a].phase = p]
\* An answer to a request nobody waits for any more is dropped.
Answer(a, r) == reply' = IF sphase = "awaiting" /\ attempt = a THEN r ELSE reply

\* discard_relocation_target_attempts(), abort_relocation_restore_async()
Discard(a) ==
    /\ att' = [att EXCEPT ![a] = NoAttempt]
    /\ IF tobj = a THEN tobj' = 0 /\ tqueue' = <<>> /\ theld' = <<>>
                   ELSE UNCHANGED <<tobj, tqueue, theld>>

ReceivePrepare ==
    /\ Receive("prepare")
    /\ LET a == Head(net).a
       IN \/ tstate = "open" /\ SetPhase(a, "assembling") /\ UNCHANGED reply
          \/ tstate = "sealed" /\ Answer(a, "failed") /\ UNCHANGED att
    /\ UNCHANGED <<source, store, fence, tstate, tobj, tqueue, theld, history>>

\* The last chunk completes the assembly, and the attempt is created.
ReceiveState ==
    /\ Receive("state")
    /\ LET m == Head(net)
       IN att' = IF Phase(m.a) = "assembling"
                 THEN [att EXCEPT ![m.a] = [phase |-> "restoring", saved |-> m.recs,
                                            batch |-> <<>>]]
                 ELSE att
    /\ UNCHANGED <<source, reply, store, fence, tstate, tobj, tqueue, theld, history>>

AssemblyExpires(a) ==
    /\ Phase(a) = "assembling"
    /\ SetPhase(a, "none") /\ Answer(a, "failed")
    /\ UNCHANGED <<source, link, store, fence, tstate, tobj, tqueue, theld, history>>

\* restore_relocation(): the key must not be held by another restore.
Restore(a) ==
    /\ Phase(a) = "restoring" /\ tobj = 0
    /\ att' = [att EXCEPT ![a].phase = "restored", ![a].saved = <<>>]
    /\ tobj' = a /\ tqueue' = att[a].saved /\ theld' = <<>>
    /\ UNCHANGED <<source, link, reply, store, fence, tstate, history>>

\* Conflict with another record, a failed materialization, the shutdown seal,
\* or a Ready that cannot be submitted: staging goes, and the source is told.
RestoreFails(a) ==
    /\ Phase(a) \in {"restoring", "restored"}
    /\ Discard(a) /\ Answer(a, "failed")
    /\ UNCHANGED <<source, link, store, fence, tstate, history>>

\* activate_relocation_assembly(), submit_relocation_ready_reply()
SubmitReady(a) ==
    /\ Phase(a) = "restored" /\ tstate = "open"
    /\ SetPhase(a, "ready") /\ Answer(a, "ready")
    /\ UNCHANGED <<source, link, store, fence, tstate, tobj, tqueue, theld, history>>

\* A relayed record waits in the attempt's boundary batch until the cutover.
ReceiveData ==
    /\ Receive("data")
    /\ LET m == Head(net)
       IN att' = IF Phase(m.a) = "ready" THEN [att EXCEPT ![m.a].batch = @ \o m.recs] ELSE att
    /\ UNCHANGED <<source, reply, store, fence, tstate, tobj, tqueue, theld, history>>

\* A record the source forwards after the boundary is ordinary ingress of the
\* target's record: held while it recovers, queued once it is open.
Recovering == {"ready", "verified", "committed"}
ReceiveForward ==
    /\ Receive("forward")
    /\ LET recs == Head(net).recs
           p == IF tobj = 0 THEN "none" ELSE Phase(tobj)
       IN /\ theld' = IF p \in Recovering THEN theld \o recs ELSE theld
          /\ tqueue' = IF p = "open" THEN tqueue \o recs ELSE tqueue
    /\ UNCHANGED <<source, reply, store, fence, tstate, att, tobj, history>>

\* The declared batch is the received suffix of its length.
Matches(received, declared) == IsSuffix(declared, received)

\* The verified suffix goes behind the saved queue, before any held ingress.
StagedQueue(received, n) ==
    tqueue \o SubSeq(received, Len(received) - n + 1, Len(received))

\* A late or repeated cutover changes nothing.  A batch that does not match, or
\* a record of it that cannot be staged, ends the staging.
ReceiveCutover ==
    /\ Receive("cutover")
    /\ LET m == Head(net)
           expected == Phase(m.a) = "ready" /\ tstate = "open"
       IN \/ ~expected /\ UNCHANGED <<att, tobj, tqueue, theld>>
          \/ /\ expected /\ Matches(att[m.a].batch, m.recs)
             /\ att' = [att EXCEPT ![m.a].phase = "verified", ![m.a].batch = <<>>]
             /\ tqueue' = StagedQueue(att[m.a].batch, Len(m.recs))
             /\ UNCHANGED <<tobj, theld>>
          \/ expected /\ Discard(m.a)
    /\ UNCHANGED <<source, reply, store, fence, tstate, history>>

\* publish(): the retarget CAS on the fenced version, under the target's lease.
\* Its answer may be lost although it applied.
\* Mutant: the version the relocation started from is not compared.
PublishableMutant(a) ==
    row.owner # "none" /\ row.gen = SourceGeneration /\ "target" \in live
Publishable(a) ==
    /\ row.owner # "none" /\ row.gen = SourceGeneration
    /\ row.ver = fence[a] /\ "target" \in live

Publish(a) ==
    /\ Phase(a) = "verified" /\ Publishable(a)
    /\ row' = [owner |-> "target", gen |-> row.gen + 1, ver |-> row.ver + 1, by |-> a]
    /\ \/ SetPhase(a, "committed") /\ UNCHANGED faults
       \/ /\ Faulty
          /\ UNCHANGED att
    /\ UNCHANGED <<source, link, reply, live, fence, tstate, tobj, tqueue, theld,
                   accepted, ran, cut>>

\* adopt_store_fences(): the row read back names this very relocation.
Adoptable(a) == row.owner = "target" /\ row.by = a /\ RowNamesAttempt

Adopt(a) ==
    /\ Phase(a) = "verified" /\ Adoptable(a)
    /\ SetPhase(a, "committed")
    /\ UNCHANGED <<source, link, reply, store, fence, tstate, tobj, tqueue, theld,
                   history>>

\* observe_relocation_target(): settled against this target, or its lease lost.
\* Mutant: only the lost lease ends the staging.
ExcludedMutant(a) == row.owner # "target" /\ "target" \notin live
Excluded(a) ==
    /\ row.owner # "target"
    /\ \/ row.owner # "none" /\ row.ver # fence[a]
       \/ "target" \notin live

\* poll_relocation_target_attempts(), commit_relocation_target_authority()
DiscardExcluded(a) ==
    /\ Phase(a) \in {"ready", "verified"} /\ Excluded(a)
    /\ Discard(a)
    /\ UNCHANGED <<source, link, reply, store, fence, tstate, history>>

\* commit_relocation_restore(): held ingress moves behind the staged queue.
\* Mutant: held ingress first.
OpenedQueueMutant == theld \o tqueue
OpenedQueue == tqueue \o theld
Open(a) ==
    /\ Phase(a) = "committed"
    /\ SetPhase(a, "open") /\ tqueue' = OpenedQueue /\ theld' = <<>>
    /\ UNCHANGED <<source, link, reply, store, fence, tstate, tobj, history>>

\* The application's commit hook refuses: staging is discarded.
OpenFails(a) ==
    /\ Phase(a) = "committed" /\ Discard(a)
    /\ UNCHANGED <<source, link, reply, store, fence, tstate, history>>

ServeAtTarget ==
    /\ tobj # 0 /\ Phase(tobj) = "open" /\ tqueue # <<>>
    /\ ran' = Append(ran, Head(tqueue)) /\ tqueue' = Tail(tqueue)
    /\ UNCHANGED <<source, link, reply, store, fence, tstate, att, tobj, theld,
                   accepted, cut, faults>>

\* seal_relocation_targets(): host shutdown ends assemblies and every attempt
\* without a verified cutover.
SealTarget ==
    /\ tstate = "open" /\ tstate' = "sealed"
    /\ LET ended == {a \in Attempt : Phase(a) \in {"assembling", "ready"}}
       IN /\ att' = [a \in Attempt |-> IF a \in ended THEN NoAttempt ELSE att[a]]
          /\ reply' = IF sphase = "awaiting" /\ Phase(attempt) = "assembling"
                      THEN "failed" ELSE reply
          /\ IF tobj \in ended THEN tobj' = 0 /\ tqueue' = <<>> /\ theld' = <<>>
                               ELSE UNCHANGED <<tobj, tqueue, theld>>
    /\ UNCHANGED <<source, link, store, fence, history>>

(***************************************************************************)
(* Faults, and what other nodes do to the row.                             *)
(***************************************************************************)
Break ==
    /\ up /\ Faulty
    /\ up' = FALSE /\ net' = <<>>
    /\ reply' = "none"
    /\ UNCHANGED <<source, route, store, fence, target, accepted, ran, cut>>

Reconnect ==
    /\ ~up /\ tstate # "dead" /\ up' = TRUE /\ route' = route + 1
    /\ UNCHANGED <<source, net, reply, store, fence, target, history>>

SourceCrashes ==
    /\ sphase \notin {"serving", "dead"} /\ Faulty
    /\ Release("dead") /\ UNCHANGED follows
    /\ UNCHANGED <<link, store, fence, target, accepted, ran, cut>>

TargetCrashes ==
    /\ tstate # "dead" /\ tstate' = "dead" /\ Faulty
    /\ att' = [a \in Attempt |-> NoAttempt]
    /\ tobj' = 0 /\ tqueue' = <<>> /\ theld' = <<>>
    /\ net' = <<>> /\ up' = FALSE
    /\ UNCHANGED <<source, route, reply, store, fence, accepted, ran, cut>>

LeaseExpires(n) ==
    /\ n \in live /\ (n = "source" => sphase \in {"settling", "dead"})
    /\ live' = live \ {n}
    /\ IF (n = "source" /\ sphase = "dead") \/ (n = "target" /\ tstate = "dead")
       THEN UNCHANGED faults ELSE Faulty
    /\ UNCHANGED <<source, link, reply, row, fence, target, accepted, ran, cut>>

\* The row of an owner whose lease expired is reclaimed.
Reclaim ==
    /\ row.owner \in {"source", "target"} \ live
    /\ row' = [row EXCEPT !.owner = "none"]
    /\ UNCHANGED <<source, link, reply, live, fence, target, history>>

\* The open target is relocated on to a third node.
MoveOn(a) ==
    /\ Phase(a) = "open" /\ row.owner = "target"
    /\ row' = [owner |-> "other", gen |-> row.gen + 1, ver |-> row.ver + 1, by |-> 0]
    /\ SetPhase(a, "left") /\ tobj' = 0 /\ tqueue' = <<>>
    /\ UNCHANGED <<source, link, reply, live, fence, tstate, theld, history>>

SourceStep ==
    \/ Seal \/ EncodeFails \/ Prepare \/ PrepareReady \/ PrepareFails
    \/ TakeBoundary \/ SendBoundary \/ SendBoundaryFails \/ SendCutover
    \/ SettleCommitted \/ SettlePreserved \/ Preserve \/ SettleExpired \/ SettleStopped \/ Resend
    \/ DeadlinePasses
TargetStep ==
    \/ ReceivePrepare \/ ReceiveState \/ ReceiveData \/ ReceiveForward \/ ReceiveCutover
    \/ SealTarget \/ ServeAtTarget
    \/ \E a \in Attempt :
          \/ AssemblyExpires(a) \/ Restore(a) \/ RestoreFails(a) \/ SubmitReady(a)
          \/ Publish(a) \/ Adopt(a) \/ DiscardExcluded(a) \/ Open(a) \/ OpenFails(a)
Fault ==
    \/ Break \/ Reconnect \/ SourceCrashes \/ TargetCrashes \/ Reclaim
    \/ \E n \in {"source", "target"} : LeaseExpires(n)
    \/ \E a \in Attempt : MoveOn(a)

Next == Accept \/ ServeAtSource \/ SourceStep \/ TargetStep \/ Fault

\* The driver runs, time passes, the management tick polls the attempts and a
\* readable Store answers; nothing is assumed of the connection.
Fairness ==
    /\ WF_vars(DeadlinePasses)
    /\ WF_vars(SettleCommitted \/ SettlePreserved \/ Preserve \/ SettleExpired)
    /\ \A a \in Attempt :
          WF_vars(Publish(a) \/ Adopt(a) \/ DiscardExcluded(a) \/ Open(a) \/ OpenFails(a))

Spec == Init /\ [][Next]_vars /\ Fairness

(***************************************************************************)
(* Properties.                                                             *)
(***************************************************************************)

\* The variables stay in their ranges.
TypeOK ==
    /\ sphase \in {"serving", "followed", "stopped", "dead"} \cup Holding \cup PostBoundary
    /\ attempt \in 0..MaxAttempts
    /\ \A s \in {queue, frozen, boundary, batch, tqueue, theld, ran} :
          s \in Seq(1..MaxRecords)
    /\ row.owner \in {"source", "target", "other", "none"}
    /\ live \subseteq {"source", "target"}
    /\ tobj \in 0..MaxAttempts

TargetOpen == \E a \in Attempt : Phase(a) = "open"

\* The object never dispatches on both nodes: whatever is lost, delayed or
\* crashes, the source serves only while no target attempt has been opened, and
\* no later CAS can open one (settle_relocation, submit_relocation_target_authority).
OneDispatcher ==
    sphase = "serving" => /\ ~TargetOpen
                          /\ \A a \in Attempt : Phase(a) # "committed"
                          /\ row.owner = "source"

\* Every record runs at most once and in acceptance order, across the captured
\* queue, the boundary batch, retransmissions and forwarded records
\* (place_application_on_lane, commit_relocation_restore).
RunsInOrder == \A i, j \in 1..Len(ran) : i < j => ran[i] < ran[j]

\* A source that resumes, for whatever reason, has lost and reordered nothing:
\* what ran and what is queued are exactly the accepted records
\* (abort_relocation_before_cutover).
ResumesWhole ==
    sphase = "serving" => ran \o queue = [i \in 1..accepted |-> i]

\* An opened target holds every record the source had accepted by the boundary:
\* a verified cutover cannot open a partial batch (relocationCutover handler).
OpensWhole ==
    TargetOpen => \A r \in 1..cut : \E i \in DOMAIN (ran \o tqueue) : (ran \o tqueue)[i] = r

\* The queue moves whole, to whichever side ends up serving it.
QueueMovesWhole == TypeOK /\ ResumesWhole /\ OpensWhole

\* After the cutover the source unit always ends, even when the target, the
\* connection or the answer of the Store is lost (settle_relocation).
UnitSettles == sphase = "settling" ~> sphase # "settling"

\* A verified attempt ends: its commit is confirmed or the staging is discarded
\* (01-location-runtime section 10).  A missing row settles nothing.
\* With RowNamesAttempt = FALSE it does not hold: README section 5.
VerifiedSettles ==
    \A a \in Attempt :
        Phase(a) = "verified" ~> (Phase(a) # "verified" \/ row.owner = "none")

\* Once the target may have answered Ready the source resumes only behind a
\* Preserve that moved the fenced version (04-relocation-flow section 4.4).
\* The code does not do so: README section 5.
ResumesBehindPreserve ==
    [][\A a \in Attempt :
          Phase(a) = "ready" /\ attempt = a /\ sphase # "serving" /\ sphase' = "serving"
          => row'.ver # fence[a]]_vars
=============================================================================
