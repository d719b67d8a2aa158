---------------------------- MODULE ActorTransfer ----------------------------
(***************************************************************************)
(* What one node does with the packets of one Actor while the Actor moves: *)
(* between two Spots of the node, out to another node, or in from one      *)
(* (framework/.../runtime/spots): the move state and the backlog of        *)
(* actor_transfer_coordinator.cpp, and the callers in spot_runtime.cpp and *)
(* mesh_node_runtime.cpp that drive them.                                  *)
(*                                                                         *)
(* Every operation of the coordinator is one turn of its lane and so one   *)
(* step here; what a caller does between two turns is a step of its own.   *)
(* A packet gets its number at the turn that places it (final admission),  *)
(* so numeric order is acceptance order.  Of a packet are kept whether it  *)
(* has an application record (one that was relayed by Message Follow has   *)
(* none) and its relay sequence in a Bound Session.  Left out: the         *)
(* duplicate-request test, the expiry of a Message Follow route, a second  *)
(* Bound Session, that a barrier also holds the application lane, and the  *)
(* reconcile deadline of a local Join, which is a follow duration while    *)
(* the handoff is opened in the next statement.                            *)
(***************************************************************************)
EXTENDS Naturals, Sequences, FiniteSets, SequencesExt

CONSTANTS
    MaxPackets,   \* bound on the packets placed
    MaxMoves      \* bound on the joins and admissions started

ASSUME BoundsAssumption == MaxPackets \in Nat /\ MaxMoves \in Nat

Moves == 1..MaxMoves
Packets == 1..MaxPackets

VARIABLES
    move,         \* _moves[key]: [phase, id, awaited]
    backlog,      \* _backlogs[key]
    admissions,   \* keys of _admissions
    overdue,      \* attempts whose admission deadline has passed
    sealer,       \* the maintenance inventory: _source_claims_sealed and
                  \* where its caller is
    follow,       \* places whose authority has a Message Follow route
    here, era,    \* the Actor is on this node, under the authority that
                  \* attempt era published (0: the first)
    place,        \* the attempt or the local Join that put it into its Spot
    queue,        \* the Actor's application queue in that Spot
    pc,           \* pc[m]: where the Join or the admission m is
    held,         \* held[m]: packets m took and has not passed on
    barriers,     \* Joins whose deferred barrier is not released
    drafts,       \* drafts[e]: packets between initial and final admission
                  \* that were prepared for the Actor's queue of place e
    next,         \* number of the next packet
    plain,        \* packets without an application record
    relay,        \* relay[p]: its relay sequence in the Bound Session, or 0
    \* history
    handled, failed,
    departed,     \* relayed, or in the queue of a Spot the Actor has left
    replayed      \* parked for a target attempt that completed

coordinator == <<move, backlog, admissions, overdue, sealer, follow>>
actor == <<here, era, place, queue>>
flows == <<pc, held, barriers>>
packets == <<drafts, next, plain, relay, handled, failed, departed, replayed>>
vars == <<coordinator, actor, flows, packets>>

\* No packet of a Bound Session, or all of one and accepted in the reverse of
\* the order in which the session relayed them.
Relays == {[p \in Packets |-> 0], [p \in Packets |-> MaxPackets + 1 - p]}

NoMove == [phase |-> "none", id |-> 0, awaited |-> FALSE]

Init ==
    /\ move = NoMove /\ backlog = <<>> /\ admissions = {} /\ overdue = {}
    /\ sealer = "idle" /\ follow = {}
    /\ here \in BOOLEAN /\ era = 0 /\ place = 0 /\ queue = <<>>
    /\ pc = [m \in Moves |-> "new"] /\ held = [m \in Moves |-> <<>>]
    /\ barriers = {}
    /\ drafts = [e \in 0..MaxMoves |-> 0] /\ next = 1
    /\ plain = {} /\ relay \in Relays
    /\ handled = <<>> /\ failed = {} /\ departed = {} /\ replayed = {}

\* blocks_dispatch_on_lane()
Blocks == move.phase \notin {"none", "source_reserved"}

\* erase_move_on_lane(): the close completion is completed with the move.
Erased(mv) == NoMove

Fresh(m) == pc[m] = "new" /\ \A k \in Moves : k < m => pc[k] # "new"
Goto(m, label) == pc' = [pc EXCEPT ![m] = label]

(***************************************************************************)
(* Packets.                                                                *)
(***************************************************************************)
Room == next + FoldFunction(+, 0, drafts) <= MaxPackets

\* The next packet is placed, with or without an application record.
Number == next' = next + 1 /\ plain' \in {plain, plain \cup {next}}

\* admit_dispatch_packet(), the first time, of a packet that arrives while the
\* Actor moves.  A packet for an authority that already moved out is relayed
\* at once and touches nothing here.
Arrive ==
    /\ Room /\ Blocks
    /\ backlog' = Append(backlog, next) /\ Number
    /\ UNCHANGED <<move, admissions, overdue, sealer, follow, actor, flows,
                   drafts, relay, handled, failed, departed, replayed>>

\* A packet that an earlier turn released is prepared for the queue of the Spot
\* in which the Actor is now; whether it moves by now is not asked.
Prepare ==
    /\ Room /\ here
    /\ drafts' = [drafts EXCEPT ![place] = @ + 1]
    /\ UNCHANGED <<coordinator, actor, flows, next, plain, relay,
                   handled, failed, departed, replayed>>

\* Mutant: the packet is posted on what the initial admission saw.
ParksMutant == FALSE
\* try_append_backlog_unlocked() of the final admission.
Parks == Blocks

\* admit_dispatch_packet() again, with the submit callback: it looks once more
\* and posts in the same turn.  A packet prepared under an authority that moved
\* out is relayed; one that was prepared for a Spot which the Actor has left is
\* posted to the queue there.
FinalAdmission(e) ==
    /\ drafts[e] > 0 /\ drafts' = [drafts EXCEPT ![e] = @ - 1]
    /\ Number
    /\ \/ /\ e \in follow \/ (~Parks /\ ~(here /\ e = place))
          /\ departed' = departed \cup {next}
          /\ UNCHANGED <<backlog, queue>>
       \/ /\ e \notin follow /\ Parks
          /\ backlog' = Append(backlog, next)
          /\ UNCHANGED <<queue, departed>>
       \/ /\ e \notin follow /\ ~Parks /\ here /\ e = place
          /\ queue' = Append(queue, next)
          /\ UNCHANGED <<backlog, departed>>
    /\ UNCHANGED <<move, admissions, overdue, sealer, follow, here, era, place, flows,
                   relay, handled, failed, replayed>>

\* The next turn of the Actor's queue.
Run ==
    /\ queue # <<>>
    /\ handled' = Append(handled, Head(queue)) /\ queue' = Tail(queue)
    /\ UNCHANGED <<coordinator, here, era, place, flows, drafts, next, plain, relay,
                   failed, departed, replayed>>

(***************************************************************************)
(* A Join started on this node.                                            *)
(***************************************************************************)

\* try_claim_source_on_lane()
Claimable == sealer = "idle" /\ move.phase = "none"

\* reserve_actor_join_barrier(): the reservation, and the barrier in the queue.
Reserve(m) ==
    /\ Fresh(m) /\ here /\ Claimable
    /\ move' = [phase |-> "source_reserved", id |-> m, awaited |-> FALSE]
    /\ barriers' = barriers \cup {m}
    /\ Goto(m, "reserved")
    /\ UNCHANGED <<backlog, admissions, overdue, sealer, follow, actor, held, packets>>

\* matches_source_reservation_on_lane()
ReservationMatches(m) == move.phase = "source_reserved" /\ move.id = m

\* order_bound_session_handoff(): the packets of the Bound Session exchange
\* their positions so that they are in relay order; the others stay.
Ordered(s) ==
    LET bound == {i \in DOMAIN s : relay[s[i]] # 0}
        Rank(i) == Cardinality({j \in bound : relay[s[j]] < relay[s[i]]})
    IN [i \in DOMAIN s |->
           IF i \notin bound THEN s[i]
           ELSE s[CHOOSE j \in bound : Rank(j) = Cardinality({k \in bound : k < i})]]

\* finish_move_replay() inside adopt_application_prefix(): the whole backlog is
\* put in front of the queue and the move is erased, in one turn.
AdoptBacklog ==
    /\ queue' = Ordered(backlog) \o queue /\ backlog' = <<>>
    /\ move' = Erased(move)

\* The barrier ends, canceled or settled, at any point of the Join or after it:
\* cancel_move() and open_local_actor_handoff() with the reservation id close
\* a reservation that was never used, and nothing else.
ReleaseBarrier(m) ==
    /\ m \in barriers /\ barriers' = barriers \ {m}
    /\ IF ReservationMatches(m)
       THEN AdoptBacklog
       ELSE UNCHANGED <<move, queue, backlog>>
    /\ IF pc[m] = "reserved" THEN Goto(m, "done") ELSE UNCHANGED pc
    /\ UNCHANGED <<admissions, overdue, sealer, follow, here, era, place, held, packets>>

HasRecord(p) == p \notin plain
IsPlain(p) == p \in plain

\* seal_actor_application_suffix(): try_begin_local() or
\* try_begin_source_remote() runs inside take_application_suffix(), which takes
\* every record that has not started and leaves the packets without one.
Begin(m) ==
    /\ pc[m] = "reserved" /\ here /\ ReservationMatches(m)
    /\ \E phase \in {"local", "source_remote"} : move' = [move EXCEPT !.phase = phase]
    /\ held' = [held EXCEPT ![m] = SelectSeq(queue, HasRecord)]
    /\ queue' = SelectSeq(queue, IsPlain)
    /\ Goto(m, "sealed")
    /\ UNCHANGED <<backlog, admissions, overdue, sealer, follow, here, era, place, barriers, packets>>

\* prepend_source_suffix()
Prepended(suffix) == suffix \o backlog

Prepend(m) ==
    /\ pc[m] = "sealed"
    /\ backlog' = Prepended(held[m]) /\ held' = [held EXCEPT ![m] = <<>>]
    /\ Goto(m, "moving")
    /\ UNCHANGED <<move, admissions, overdue, sealer, follow, actor, barriers, packets>>

\* Every end of a Join that leaves the Actor on this node: a local Join that
\* failed before its commit, or committed and delivered its completion; a
\* remote Join that did not complete (fail_remote_actor_transfer()).
Reopen(m) ==
    /\ pc[m] = "moving" \/ pc[m] = "committed"
    /\ Goto(m, "opening")
    /\ UNCHANGED <<coordinator, actor, held, barriers, packets>>

\* The Actor leaves its Spot.  What is in the queue there (a packet without a
\* record, a late replay) stays, and so does the aim of a running replay.
LeaveSpot ==
    /\ queue' = <<>> /\ departed' = departed \cup ToSet(queue)
    /\ UNCHANGED <<drafts, next, plain, relay, handled, failed, replayed>>
Strayed == [k \in Moves |-> IF pc[k] = "posting" THEN "straying" ELSE pc[k]]

\* commit_accepted_actor_join() of a local Join commits the authority, which
\* keeps its fence, to another Spot or to the one where the Actor is.
CommitLocal(m) ==
    /\ pc[m] = "moving" /\ move.phase = "local"
    /\ \/ /\ place' = m /\ LeaveSpot
          /\ pc' = [Strayed EXCEPT ![m] = "committed"]
       \/ Goto(m, "committed") /\ UNCHANGED <<place, queue, packets>>
    /\ UNCHANGED <<coordinator, here, era, held, barriers>>

\* fail_local_commit() after the authority commit: mark_reconcile() without a
\* context, and the handoff is opened all the same.
FailCommitted(m) ==
    /\ pc[m] = "committed"
    /\ move' = [move EXCEPT !.phase = "reconcile"]
    /\ Goto(m, "opening")
    /\ UNCHANGED <<backlog, admissions, overdue, sealer, follow, actor, held, barriers, packets>>

\* The completion callback of a committed local Join failed: the Join returns
\* before open_local_actor_handoff(), and the Actor stays sealed.
CompletionFails(m) ==
    /\ pc[m] = "committed"
    /\ Goto(m, "abandoned")
    /\ UNCHANGED <<coordinator, actor, held, barriers, packets>>

\* open_local_actor_handoff() without a reservation id, at the queue of the Spot
\* in which the Actor is now.
OpenHandoff(m) ==
    /\ pc[m] = "opening"
    /\ IF move.phase = "none"
       THEN UNCHANGED <<move, queue, backlog>>
       ELSE AdoptBacklog
    /\ Goto(m, "done")
    /\ UNCHANGED <<admissions, overdue, sealer, follow, here, era, place, held, barriers, packets>>

\* The same when the Spot or its queue is gone: cancel_move() fails the backlog.
OpenRefused(m) ==
    /\ pc[m] = "opening" /\ move.phase # "none"
    /\ move' = Erased(move)
    /\ backlog' = <<>> /\ failed' = failed \cup ToSet(backlog)
    /\ Goto(m, "done")
    /\ UNCHANGED <<admissions, overdue, sealer, follow, actor, held, barriers,
                   drafts, next, plain, relay, handled, departed, replayed>>

\* A remote Join settled and the Actor is gone: complete_remote_actor_transfer()
\* publishes the Message Follow route first, for the authority and so for every
\* Spot in which the Actor was under it; without a follow generation, and when
\* the authority was lost, only the route is erased.
LeaveNode(m) ==
    /\ pc[m] = "moving" /\ move.phase = "source_remote"
    /\ here' = FALSE /\ LeaveSpot
    /\ \/ follow' = follow \cup era..place /\ pc' = [Strayed EXCEPT ![m] = "relaying"]
       \/ follow' = follow /\ pc' = [Strayed EXCEPT ![m] = "failing"]
    /\ UNCHANGED <<move, backlog, admissions, overdue, sealer, era, place, held, barriers>>

\* finish_move_replay() without a prefix: the move ends on an empty backlog.
DrainBatch(m) ==
    /\ pc[m] \in {"relaying", "failing"} /\ held[m] = <<>>
    /\ \/ backlog # <<>> /\ UNCHANGED <<move, pc>>
       \/ backlog = <<>> /\ move' = Erased(move) /\ Goto(m, "done")
    /\ held' = [held EXCEPT ![m] = backlog] /\ backlog' = <<>>
    /\ UNCHANGED <<admissions, overdue, sealer, follow, actor, barriers, packets>>

\* The relay, or the failure, of the batch that was taken.
DisposeBatch(m) ==
    /\ pc[m] \in {"relaying", "failing"} /\ held[m] # <<>>
    /\ held' = [held EXCEPT ![m] = <<>>]
    /\ IF pc[m] = "relaying"
       THEN departed' = departed \cup ToSet(held[m]) /\ UNCHANGED failed
       ELSE failed' = failed \cup ToSet(held[m]) /\ UNCHANGED departed
    /\ UNCHANGED <<coordinator, actor, pc, barriers, drafts, next, plain, relay, handled, replayed>>

(***************************************************************************)
(* A Join from another node: this node is the target.                      *)
(***************************************************************************)

\* Mutant: the packets parked for a dead attempt are left behind.
DiscardBacklogMutant == UNCHANGED <<backlog, failed>>
\* _backlogs.extract() and fail_handoff_backlog()
DiscardBacklog == backlog' = <<>> /\ failed' = failed \cup ToSet(backlog)

\* admit_remote_actor_to_spot() up to the admission callback: the Actor's
\* authority is elsewhere, and an older attempt is displaced.
AdmitStart(m) ==
    /\ Fresh(m) /\ ~here
    /\ IF move.phase \in {"target_pending", "target_committing"}
       THEN /\ admissions' = admissions \ {move.id}
            /\ move' = Erased(move) /\ DiscardBacklog
       ELSE UNCHANGED <<admissions, failed, backlog, move>>
    /\ Goto(m, "admitting")
    /\ UNCHANGED <<overdue, sealer, follow, actor, held, barriers,
                   drafts, next, plain, relay, handled, departed, replayed>>

\* The callback accepts: try_add_admission().  It rejects, or a move appeared
\* meanwhile: nothing is installed.
AdmitEnd(m) ==
    /\ pc[m] = "admitting"
    /\ \/ /\ move.phase = "none"
          /\ move' = [phase |-> "target_pending", id |-> m, awaited |-> FALSE]
          /\ admissions' = admissions \cup {m}
          /\ Goto(m, "admitted")
       \/ Goto(m, "done") /\ UNCHANGED <<move, admissions>>
    /\ UNCHANGED <<backlog, overdue, sealer, follow, actor, held, barriers, packets>>

DeadlinePasses(m) ==
    /\ m \in admissions \ overdue /\ overdue' = overdue \cup {m}
    /\ UNCHANGED <<move, backlog, admissions, sealer, follow, actor, flows, packets>>

\* The end of attempt m's admission and move, its parked packets failed.
EndAttempt(m) ==
    /\ admissions' = admissions \ {m} /\ move' = Erased(move) /\ DiscardBacklog

\* Mutant: the sweep takes the wrong phase for one that may expire.
ExpirableMutant(m) == m \in admissions \cap overdue /\ move.phase = "target_committing"
Expirable(m) == m \in admissions \cap overdue /\ move.phase = "target_pending"

\* cleanup_expired_on_lane() from the management sweep.
Sweep(m) ==
    /\ Expirable(m) /\ EndAttempt(m)
    /\ UNCHANGED <<overdue, sealer, follow, actor, flows, drafts, next, plain, relay, handled, departed, replayed>>

\* begin_commit_on_lane() when the relocation restores the Actor here; a
\* displaced or swept attempt finds no admission and fails.
BeginCommit(m) ==
    /\ pc[m] = "admitted"
    /\ \/ /\ m \in admissions \ overdue
          /\ move' = [move EXCEPT !.phase = "target_committing"]
          /\ Goto(m, "restoring")
          /\ UNCHANGED <<admissions, failed, backlog>>
       \/ m \in admissions \cap overdue /\ EndAttempt(m) /\ Goto(m, "done")
       \/ m \notin admissions /\ Goto(m, "done") /\ UNCHANGED <<admissions, failed, backlog, move>>
    /\ UNCHANGED <<overdue, sealer, follow, actor, held, barriers,
                   drafts, next, plain, relay, handled, departed, replayed>>

\* The source gives up, or the restore fails: discard_actor_join_recovery()
\* and fail_commit() without reconcile.
Abort(m) ==
    /\ pc[m] \in {"admitted", "restoring"}
    /\ IF m \in admissions THEN EndAttempt(m) ELSE UNCHANGED <<admissions, failed, backlog, move>>
    /\ Goto(m, "done")
    /\ UNCHANGED <<overdue, sealer, follow, actor, held, barriers,
                   drafts, next, plain, relay, handled, departed, replayed>>

\* The relocation commits the authority to this node.  It cannot once the
\* source has started a later attempt (Relocation!OneDispatcher).
Publish(m) ==
    /\ pc[m] = "restoring" /\ m \in admissions /\ ~here
    /\ \A k \in Moves : k > m => pc[k] = "new"
    /\ here' = TRUE /\ era' = m /\ place' = m
    /\ Goto(m, "published")
    /\ UNCHANGED <<coordinator, queue, held, barriers, packets>>

\* complete_commit_and_take_backlog_on_lane(), after OnJoinedActor and the
\* completion callback: the move is erased first, the backlog is replayed by
\* a task of its own.  A node without services drops it.
CompleteCommit(m) ==
    /\ pc[m] = "published"
    /\ move' = Erased(move) /\ admissions' = admissions \ {m} /\ backlog' = <<>>
    /\ \/ /\ held' = [held EXCEPT ![m] = backlog]
          /\ replayed' = replayed \cup ToSet(backlog)
          /\ Goto(m, "replaying") /\ UNCHANGED failed
       \/ /\ failed' = failed \cup ToSet(backlog)
          /\ Goto(m, "done") /\ UNCHANGED <<held, replayed>>
    /\ UNCHANGED <<overdue, sealer, follow, actor, barriers, drafts, next, plain, relay,
                   handled, departed>>

\* A lifecycle or completion callback failed after the commit: fail_commit()
\* with reconcile keeps the backlog and sets no deadline.
JoinFails(m) ==
    /\ pc[m] = "published"
    /\ admissions' = admissions \ {m}
    /\ move' = [move EXCEPT !.phase = "reconcile", !.id = 0]
    /\ Goto(m, "done")
    /\ UNCHANGED <<backlog, overdue, sealer, follow, actor, held, barriers, packets>>

\* replay_actor_handoff_batch() sorts the batch and finds the Actor's queue, once
\* for the batch, which fails when the Actor is not here.
ReplayStart(m) ==
    /\ pc[m] = "replaying"
    /\ IF here
       THEN /\ held' = [held EXCEPT ![m] = Ordered(@)]
            /\ Goto(m, "posting") /\ UNCHANGED failed
       ELSE /\ held' = [held EXCEPT ![m] = <<>>]
            /\ failed' = failed \cup ToSet(held[m]) /\ Goto(m, "done")
    /\ UNCHANGED <<coordinator, actor, barriers, drafts, next, plain, relay, handled,
                   departed, replayed>>

\* The packets are posted one by one, each after the handler of the one before,
\* to the queue that was found, and without asking whether the Actor moves.
ReplayOne(m) ==
    /\ pc[m] \in {"posting", "straying"} /\ held[m] # <<>>
    /\ held' = [held EXCEPT ![m] = Tail(@)]
    /\ \/ /\ pc[m] = "posting" /\ ToSet(queue) \cap replayed = {}
          /\ queue' = Append(queue, Head(held[m])) /\ UNCHANGED departed
       \/ /\ pc[m] = "straying"
          /\ departed' = departed \cup {Head(held[m])} /\ UNCHANGED queue
    /\ UNCHANGED <<coordinator, here, era, place, pc, barriers, drafts, next, plain, relay,
                   handled, failed, replayed>>

(***************************************************************************)
(* The maintenance inventory of the host (drain and relocation).           *)
(***************************************************************************)
Seal ==
    /\ sealer = "idle" /\ sealer' = "sealed"
    /\ UNCHANGED <<move, backlog, admissions, overdue, follow, actor, flows, packets>>

\* wait_for_source_completions(): a local move, and is_source_move().
Awaited(mv) == mv.phase \in {"source_reserved", "source_remote", "local"}

Snapshot ==
    /\ sealer = "sealed" /\ sealer' = "waiting"
    /\ move' = [move EXCEPT !.awaited = Awaited(move)]
    /\ UNCHANGED <<backlog, admissions, overdue, follow, actor, flows, packets>>

SealEnds ==
    /\ sealer = "waiting" /\ ~move.awaited /\ sealer' = "inventory"
    /\ UNCHANGED <<move, backlog, admissions, overdue, follow, actor, flows, packets>>

EndInventory ==
    /\ sealer = "inventory" /\ sealer' = "idle"
    /\ UNCHANGED <<move, backlog, admissions, overdue, follow, actor, flows, packets>>

\* The steps that the code takes by itself once the Join or attempt m is there.
Continue(m) ==
    \/ ReleaseBarrier(m) \/ Prepend(m) \/ Reopen(m) \/ CommitLocal(m) \/ FailCommitted(m)
    \/ CompletionFails(m) \/ OpenHandoff(m) \/ OpenRefused(m) \/ LeaveNode(m)
    \/ DrainBatch(m) \/ DisposeBatch(m)
    \/ CompleteCommit(m) \/ JoinFails(m) \/ ReplayStart(m) \/ ReplayOne(m) \/ AdmitEnd(m)

Next ==
    \/ Arrive \/ Prepare \/ Run \/ Seal \/ Snapshot \/ SealEnds \/ EndInventory
    \/ \E e \in 0..MaxMoves : FinalAdmission(e)
    \/ \E m \in Moves :
          \/ Reserve(m) \/ Begin(m) \/ AdmitStart(m) \/ DeadlinePasses(m) \/ Sweep(m)
          \/ BeginCommit(m) \/ Abort(m) \/ Publish(m) \/ Continue(m)

Restoring(m) == pc[m] = "restoring" /\ (Abort(m) \/ Publish(m))

\* Tasks that were posted run, timers fire, callbacks and the relocation that
\* restores an Actor end; nobody has to start a Join or to send its restore.
Fairness ==
    /\ WF_vars(Run) /\ WF_vars(Snapshot) /\ WF_vars(SealEnds) /\ WF_vars(EndInventory)
    /\ \A e \in 0..MaxMoves : WF_vars(FinalAdmission(e))
    /\ \A m \in Moves : /\ WF_vars(Continue(m)) /\ WF_vars(Restoring(m))
                        /\ WF_vars(DeadlinePasses(m)) /\ WF_vars(Sweep(m))

Spec == Init /\ [][Next]_vars /\ Fairness

(***************************************************************************)
(* Properties.                                                             *)
(***************************************************************************)
Phases == {"none", "source_reserved", "local", "source_remote",
           "target_pending", "target_committing", "reconcile"}

\* The variables stay in their ranges.
TypeOK ==
    /\ move \in [phase : Phases, id : 0..MaxMoves, awaited : BOOLEAN]
    /\ backlog \in Seq(Packets) /\ queue \in Seq(Packets) /\ handled \in Seq(Packets)
    /\ admissions \subseteq Moves /\ overdue \subseteq Moves /\ barriers \subseteq Moves
    /\ sealer \in {"idle", "sealed", "waiting", "inventory"}
    /\ here \in BOOLEAN /\ {era, place} \subseteq 0..MaxMoves /\ follow \subseteq 0..MaxMoves
    /\ held \in [Moves -> Seq(Packets)] /\ drafts \in [0..MaxMoves -> 0..MaxPackets]
    /\ next \in 1..MaxPackets + 1
    /\ failed \cup departed \cup replayed \cup plain \subseteq Packets /\ relay \in Relays

Occurs(p, s) == Cardinality({i \in DOMAIN s : s[i] = p})
InSet(p, S) == IF p \in S THEN 1 ELSE 0

\* A packet the node accepted is in exactly one place: parked, taken by one
\* Join, queued, handled, failed or relayed.  And packets are parked only while
\* a move exists that will take them: no end of a Join or of an attempt
\* (displaced, expired, aborted, released, completed) loses one, runs one
\* twice, or leaves one under a dead key for the next move to inherit.
KeptOnce ==
    /\ TypeOK
    /\ \A p \in 1..(next - 1) :
          Occurs(p, handled \o queue \o backlog) + FoldFunction(+, 0, [m \in Moves |-> Occurs(p, held[m])])
          + InSet(p, failed) + InSet(p, departed) = 1
    /\ backlog # <<>> => Blocks

\* p may run before q although q was accepted first: one of them has no record
\* and was not moved with the others, or the Bound Session relayed p first.
MayOvertake(p, q) ==
    \/ p \in plain \/ q \in plain
    \/ relay[p] # 0 /\ relay[p] < relay[q]


Sealed == move.phase \in {"local", "source_remote"}

\* The seal of a Join leaves only packets without a record in the Actor's queue,
\* and while it lasts no packet enters the queue past the backlog (a late target
\* replay excepted), although packets were released by the initial admission
\* before the seal.  And while a host has its maintenance inventory, no Join
\* that this node started is still moving the Actor: neither one that began
\* before the seal nor one after.
SealIsTight ==
    [][/\ Sealed' => ToSet(queue') \subseteq replayed \cup (plain \cap ToSet(queue))
       /\ sealer' = "inventory" =>
             move'.phase \notin {"source_reserved", "local", "source_remote"}]_vars

\* The Actor was left sealed on purpose: its completion callback failed.
LeftSealed ==
    \/ move.phase = "reconcile" /\ move.id = 0
    \/ \E m \in Moves : pc[m] = "abandoned"

\* Every accepted packet is handled, failed or relayed in the end, and the
\* seal of the maintenance inventory returns, unless a completion callback
\* failed and left the Actor sealed.
EverythingSettles ==
    /\ \A p \in Packets :
          p < next ~> p \in ToSet(handled) \cup failed \cup departed \/ LeftSealed
    /\ sealer = "waiting" ~> sealer = "inventory" \/ LeftSealed

\* The Spot model's order at a target: "Restored work -> Temporary queue work
\* -> New direct work", every parked message being put into the real queue
\* before the temporary queue is removed.  So the order of HandoffKeepsOrder
\* without its exception for what was parked.
ParkedRunFirst ==
    LET order == handled \o queue
    IN \A i, j \in DOMAIN order :
          i < j /\ order[i] > order[j] => MayOvertake(order[i], order[j])
=============================================================================
