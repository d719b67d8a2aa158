------------------------------ MODULE PipeTerm ------------------------------
(***************************************************************************)
(* The termination of a pipe: the handshake of the two pipe_t ends          *)
(* (core/src/runtime/core/pipe_transport.cpp), the references that keep an  *)
(* end in memory (pipe.cpp) and who deletes the queues between them.        *)
(*                                                                          *)
(* Each end belongs to one thread, which runs its handlers (pc) and reads   *)
(* its mail in order; set_nodelay() and the references also come from other *)
(* threads.  A queue is <<e, n>>, the n-th inbound queue of end e: a session*)
(* that reconnects gives its end a new one (hiccup) and leaves the old one  *)
(* to the peer.  Wake-ups of a sleeping reader are the subject of YPipe.    *)
(***************************************************************************)
EXTENDS Integers, Sequences

CONSTANTS End,           \* the two ends
          IoEnd,         \* the end of the session, when the pipe has one
          MaxQueue,      \* bound on the items in a queue a message is written to
          MaxHiccups,    \* bound on the hiccup() calls on each end
          MaxActivates   \* bound on the activations ever sent

ASSUME EndsAssumption ==
    /\ IoEnd \in End /\ \E e \in End : e # IoEnd /\ End = {IoEnd, e}
    /\ {MaxQueue, MaxHiccups, MaxActivates} \subseteq Nat

VARIABLES
    sessionPipe,  \* _session_pipe: between a socket and a session, or inproc
    state,     \* _state
    delay,     \* _delay
    in,        \* _in_pipe, as the n of <<e, n>>
    out,       \* _out_pipe, as the n of the peer's queue, or NoQueue
    items,     \* what is in each queue
    live,      \* queues allocated and not deleted
    mail,      \* commands on their way to each end
    link,      \* _peer is set
    refs,      \* _lifetime: references
    terminal,  \* _lifetime: terminal_bit
    reader,    \* a completion reader that retained the inbound queue
    freed,     \* ends deleted
    pc,        \* where the owner's thread is inside a handler
    held,      \* detach_peer_link() returned the peer
    owes,      \* ack_peer of process_pipe_term_ack()
    activates  \* activations sent so far

lifeVars == <<refs, terminal, reader, freed>>
queueVars == <<in, items, live>>
ackVars == <<link, held, owes>>
fixedVars == <<sessionPipe, activates>>
vars == <<state, delay, out, mail, pc, lifeVars, queueVars, ackVars, fixedVars>>

NoQueue == -1
Queue == End \X (0 .. MaxHiccups)
Session == IF sessionPipe THEN {IoEnd} ELSE {}
Peer(e) == CHOOSE x \in End : x # e
InQ(e) == <<e, in[e]>>
OutQ(e) == <<Peer(e), out[e]>>

\* pipepair(), and set_peer() on both ends.
Init ==
    /\ sessionPipe \in BOOLEAN
    /\ state = [e \in End |-> "active"] /\ delay = [e \in End |-> TRUE]
    /\ in = [e \in End |-> 0] /\ out = [e \in End |-> 0]
    /\ items = [q \in Queue |-> <<>>] /\ live = {<<e, 0>> : e \in End}
    /\ mail = [e \in End |-> <<>>]
    /\ link = [e \in End |-> TRUE] /\ refs = [e \in End |-> 1]
    /\ terminal = {} /\ freed = {}
    /\ reader = [e \in End |-> "none"]
    /\ pc = [e \in End |-> "idle"]
    /\ held = {} /\ owes = {}
    /\ activates = 0
-----------------------------------------------------------------------------
(* Commands hold a reference to the end they are for.                       *)

Cmd(type) == [type |-> type]

Command == [type : {"pipe_term", "pipe_term_ack", "activate"}]
           \cup [type : {"hiccup"}, queue : 0 .. MaxHiccups]

\* send_pipe_command(): a terminal end takes no more commands.
Sent(to, cmd) ==
    IF to \in terminal THEN mail ELSE [mail EXCEPT ![to] = Append(@, cmd)]

\* References after n commands were sent to end to.
Retained(to, n) == IF to \in terminal THEN refs ELSE [refs EXCEPT ![to] = @ + n]

\* release_lifetime_ref() of one reference to e.
Release(e) ==
    /\ refs' = [refs EXCEPT ![e] = @ - 1]
    /\ freed' = IF e \in terminal /\ refs[e] = 1 THEN freed \cup {e} ELSE freed

Receives(e, type) ==
    /\ pc[e] = "idle" /\ e \notin freed
    /\ mail[e] # <<>> /\ Head(mail[e]).type = type

Alive(e) == pc[e] = "idle" /\ e \notin terminal
-----------------------------------------------------------------------------
(* The owner writes and reads.                                              *)

Write(e) ==
    /\ Alive(e) /\ state[e] = "active"
    /\ Len(items[OutQ(e)]) < MaxQueue
    /\ items' = [items EXCEPT ![OutQ(e)] = Append(@, "msg")]
    /\ UNCHANGED <<state, delay, in, out, live, mail, pc, lifeVars, ackVars, fixedVars>>

\* check_read() and read(): a delimiter is consumed and then processed.
Read(e) ==
    /\ Alive(e) /\ state[e] \in {"active", "waiting_for_delimiter"}
    /\ items[InQ(e)] # <<>>
    /\ items' = [items EXCEPT ![InQ(e)] = Tail(@)]
    /\ pc' = [pc EXCEPT ![e] = IF Head(items[InQ(e)]) = "delimiter" THEN "delimiter" ELSE @]
    /\ UNCHANGED <<state, delay, in, out, live, mail, lifeVars, ackVars, fixedVars>>

\* The acknowledgement of the peer's termination, which also gives up _out_pipe.
Acknowledge(e, as) ==
    /\ state' = [state EXCEPT ![e] = as]
    /\ out' = [out EXCEPT ![e] = NoQueue]
    /\ mail' = Sent(Peer(e), Cmd("pipe_term_ack"))
    /\ refs' = Retained(Peer(e), 1)

\* Mutant of ProcessDelimiter: acknowledges also after set_nodelay() has done so.
BugDelimiterAcksAgain(e) ==
    /\ pc[e] = "delimiter"
    /\ pc' = [pc EXCEPT ![e] = "idle"]
    /\ IF state[e] = "active" THEN /\ state' = [state EXCEPT ![e] = "delimiter_received"]
                                   /\ UNCHANGED <<out, mail, refs>>
                              ELSE Acknowledge(e, "term_ack_sent")
    /\ UNCHANGED <<delay, terminal, reader, freed, queueVars, ackVars, fixedVars>>

\* process_delimiter(), under _out_sync.
ProcessDelimiter(e) ==
    /\ pc[e] = "delimiter"
    /\ pc' = [pc EXCEPT ![e] = "idle"]
    /\ CASE state[e] = "active" ->
               /\ state' = [state EXCEPT ![e] = "delimiter_received"]
               /\ UNCHANGED <<out, mail, refs>>
         [] state[e] = "waiting_for_delimiter" -> Acknowledge(e, "term_ack_sent")
         [] OTHER -> UNCHANGED <<state, out, mail, refs>>
    /\ UNCHANGED <<delay, terminal, reader, freed, queueVars, ackVars, fixedVars>>

\* set_nodelay(), by the owner or by the thread that ends the peer.
SetNodelay(e) ==
    /\ e \notin terminal /\ e \notin Session
    /\ delay[e]
    /\ delay' = [delay EXCEPT ![e] = FALSE]
    /\ IF state[e] = "waiting_for_delimiter" THEN Acknowledge(e, "term_ack_sent")
                                             ELSE UNCHANGED <<state, out, mail, refs>>
    /\ UNCHANGED <<pc, terminal, reader, freed, queueVars, ackVars, fixedVars>>
-----------------------------------------------------------------------------
(* terminate()                                                              *)

\* A duplicate call only overloads the delay; waiting with no delay acts as if
\* everything had been read; else the delimiter goes out behind the messages.
Terminate(e, d) ==
    /\ Alive(e)
    /\ delay' = [delay EXCEPT ![e] = d]
    /\ CASE state[e] \in {"term_req_sent1", "term_req_sent2", "term_ack_sent"} ->
               UNCHANGED <<state, out, mail, refs, items>>
         [] state[e] = "waiting_for_delimiter" /\ ~d ->
               Acknowledge(e, "term_ack_sent") /\ UNCHANGED items
         [] state[e] = "waiting_for_delimiter" /\ d ->
               /\ Len(items[OutQ(e)]) <= MaxQueue
               /\ items' = [items EXCEPT ![OutQ(e)] = Append(@, "delimiter")]
               /\ UNCHANGED <<state, out, mail, refs>>
         [] state[e] \in {"active", "delimiter_received"} ->
               /\ state' = [state EXCEPT ![e] = "term_req_sent1"]
               /\ mail' = Sent(Peer(e), Cmd("pipe_term"))
               /\ refs' = Retained(Peer(e), 1)
               /\ items' = [items EXCEPT ![OutQ(e)] = Append(@, "delimiter")]
               /\ UNCHANGED out
    /\ UNCHANGED <<pc, in, live, terminal, reader, freed, ackVars, fixedVars>>

\* hiccup() of a session that reconnects.
Hiccup(e) ==
    /\ e \in Session /\ Alive(e) /\ state[e] = "active"
    /\ in[e] < MaxHiccups
    /\ in' = [in EXCEPT ![e] = @ + 1]
    /\ live' = live \cup {<<e, in[e] + 1>>}
    /\ mail' = Sent(Peer(e), [type |-> "hiccup", queue |-> in[e] + 1])
    /\ refs' = Retained(Peer(e), 1)
    /\ UNCHANGED <<state, delay, out, items, pc, terminal, reader, freed, ackVars, fixedVars>>
-----------------------------------------------------------------------------
(* Handlers of an end's commands.                                           *)

\* process_hiccup(): delete the old queue, plug in the new one.
ProcessHiccup(e) ==
    /\ Receives(e, "hiccup")
    /\ mail' = [mail EXCEPT ![e] = Tail(@)]
    /\ live' = live \ {OutQ(e)}
    /\ out' = [out EXCEPT ![e] = Head(mail[e]).queue]
    /\ Release(e)
    /\ UNCHANGED <<state, delay, in, items, pc, terminal, reader, ackVars, fixedVars>>

\* The rest of a command that acknowledges: it is taken out of the mail and its
\* reference released, and the acknowledgement is sent.
AcknowledgeCommand(e, as) ==
    /\ state' = [state EXCEPT ![e] = as]
    /\ mail' = [Sent(Peer(e), Cmd("pipe_term_ack")) EXCEPT ![e] = Tail(@)]
    /\ refs' = [Retained(Peer(e), 1) EXCEPT ![e] = @ - 1]

\* Mutant of ProcessPipeTerm: forgets whether messages are pending.
BugTermDropsPending(e) ==
    /\ Receives(e, "pipe_term")
    /\ AcknowledgeCommand(e, IF state[e] = "term_req_sent1" THEN "term_req_sent2" ELSE "term_ack_sent")
    /\ out' = [out EXCEPT ![e] = NoQueue]
    /\ UNCHANGED <<delay, items, in, live, pc, terminal, reader, freed, ackVars, fixedVars>>

\* process_pipe_term(): a delimiter at the head is consumed; messages before it
\* put the acknowledgement off.  A duplicate is ignored or acknowledged again.
ProcessPipeTerm(e) ==
    LET q == items[InQ(e)]
        pending == q # <<>> /\ Head(q) = "msg"
        wait == state[e] = "waiting_for_delimiter"
                    \/ (state[e] = "active" /\ delay[e] /\ pending)
    IN  /\ Receives(e, "pipe_term")
        /\ items' = IF state[e] = "active" /\ q # <<>> /\ ~pending
                      THEN [items EXCEPT ![InQ(e)] = Tail(@)] ELSE items
        /\ IF wait
             THEN /\ state' = [state EXCEPT ![e] = "waiting_for_delimiter"]
                  /\ mail' = [mail EXCEPT ![e] = Tail(@)]
                  /\ refs' = [refs EXCEPT ![e] = @ - 1]
                  /\ UNCHANGED out
             ELSE /\ AcknowledgeCommand(e, IF state[e] \in {"term_req_sent1", "term_req_sent2"}
                                             THEN "term_req_sent2" ELSE "term_ack_sent")
                  /\ out' = [out EXCEPT ![e] = NoQueue]
        /\ UNCHANGED <<delay, in, live, pc, terminal, reader, freed, ackVars, fixedVars>>

\* An activate_read or activate_write that finds nothing to do.
ProcessActivate(e) ==
    /\ Receives(e, "activate")
    /\ mail' = [mail EXCEPT ![e] = Tail(@)]
    /\ Release(e)
    /\ UNCHANGED <<state, delay, out, pc, terminal, reader, queueVars, ackVars, fixedVars>>

\* Any thread may send an end its own deferred activate_write, and the peer's flush
\* an activate_read.
Activate(e) ==
    /\ e \notin terminal
    /\ activates < MaxActivates
    /\ activates' = activates + 1
    /\ mail' = Sent(e, Cmd("activate"))
    /\ refs' = Retained(e, 1)
    /\ UNCHANGED <<state, delay, out, pc, terminal, reader, freed, queueVars, ackVars, sessionPipe>>
-----------------------------------------------------------------------------
(* process_pipe_term_ack(): other threads run between its sections.         *)

AckBegin(e) ==
    /\ Receives(e, "pipe_term_ack")
    /\ mail' = [mail EXCEPT ![e] = Tail(@)]
    /\ IF state[e] = "term_req_sent1"
         THEN out' = [out EXCEPT ![e] = NoQueue] /\ owes' = owes \cup {e}
         ELSE UNCHANGED <<out, owes>>
    /\ pc' = [pc EXCEPT ![e] = "detach"]
    /\ UNCHANGED <<state, delay, lifeVars, queueVars, link, held, fixedVars>>

\* detach_peer_link(): _peer.exchange(NULL)
DetachOwn(e) ==
    /\ pc[e] = "detach"
    /\ held' = IF link[e] THEN held \cup {e} ELSE held
    /\ link' = [link EXCEPT ![e] = FALSE]
    /\ pc' = [pc EXCEPT ![e] = IF link[e] THEN "back" ELSE "reply"]
    /\ UNCHANGED <<state, delay, out, mail, lifeVars, queueVars, owes, fixedVars>>

\* detach_peer_link(): the back-link is removed by one end only.
DetachBack(e) ==
    /\ pc[e] = "back"
    /\ link' = [link EXCEPT ![Peer(e)] = FALSE]
    /\ refs' = IF link[Peer(e)] THEN [refs EXCEPT ![e] = @ - 1] ELSE refs
    /\ pc' = [pc EXCEPT ![e] = "reply"]
    /\ UNCHANGED <<state, delay, out, mail, terminal, reader, freed, queueVars, held, owes,
                   fixedVars>>

\* Mutant of AckReply: the reciprocal acknowledgement is not sent.
BugNoReply(e) ==
    /\ pc[e] = "reply"
    /\ pc' = [pc EXCEPT ![e] = "unlink"]
    /\ UNCHANGED <<state, delay, out, mail, lifeVars, queueVars, ackVars, fixedVars>>

\* The reciprocal acknowledgement, before local completion is reported.
AckReply(e) ==
    /\ pc[e] = "reply"
    /\ mail' = IF e \in owes THEN Sent(Peer(e), Cmd("pipe_term_ack")) ELSE mail
    /\ refs' = IF e \in owes THEN Retained(Peer(e), 1) ELSE refs
    /\ pc' = [pc EXCEPT ![e] = "unlink"]
    /\ UNCHANGED <<state, delay, out, terminal, reader, freed, queueVars, ackVars, fixedVars>>

\* peer->release_lifetime_ref()
Unlink(e) ==
    /\ pc[e] = "unlink"
    /\ IF e \in held THEN Release(Peer(e)) ELSE UNCHANGED <<refs, freed>>
    /\ held' = held \ {e}
    /\ pc' = [pc EXCEPT ![e] = "finish"]
    /\ UNCHANGED <<state, delay, out, mail, terminal, reader, queueVars, link, owes, fixedVars>>

\* Mutant of Finish: deletes the inbound queue whoever is reading it.
BugFinishDeletesQueue(e) ==
    /\ pc[e] = "finish"
    /\ live' = live \ {InQ(e)}
    /\ terminal' = terminal \cup {e}
    /\ pc' = [pc EXCEPT ![e] = "release"]
    /\ UNCHANGED <<state, delay, out, mail, refs, reader, freed, in, items, ackVars, fixedVars>>

\* pipe_terminated(), then both lifetimes become terminal; the inbound queue goes
\* unless a reader retains it.
Finish(e) ==
    /\ pc[e] = "finish"
    /\ live' = IF reader[e] = "reading" THEN live ELSE live \ {InQ(e)}
    /\ terminal' = terminal \cup {e}
    /\ pc' = [pc EXCEPT ![e] = "release"]
    /\ UNCHANGED <<state, delay, out, mail, refs, reader, freed, in, items, ackVars, fixedVars>>

\* process_command(): the command's own reference.
ReleaseCommand(e) ==
    /\ pc[e] = "release"
    /\ pc' = [pc EXCEPT ![e] = "idle"]
    /\ Release(e)
    /\ UNCHANGED <<state, delay, out, mail, terminal, reader, queueVars, ackVars, fixedVars>>
-----------------------------------------------------------------------------
(* A completion reader outside the owner's turn.                            *)

ReaderEnter(e) ==
    /\ e \notin Session /\ e \notin terminal
    /\ reader[e] = "none"
    /\ reader' = [reader EXCEPT ![e] = "reading"]
    /\ refs' = Retained(e, 1)
    /\ UNCHANGED <<state, delay, out, mail, pc, terminal, freed, queueVars, ackVars, fixedVars>>

\* release_inbound_read_ref(): the last reader cleans up.
ReaderLeave(e) ==
    /\ reader[e] = "reading"
    /\ reader' = [reader EXCEPT ![e] = "leaving"]
    /\ live' = IF e \in terminal THEN live \ {InQ(e)} ELSE live
    /\ UNCHANGED <<state, delay, out, mail, pc, refs, terminal, freed, in, items, ackVars,
                   fixedVars>>

ReaderGone(e) ==
    /\ reader[e] = "leaving"
    /\ reader' = [reader EXCEPT ![e] = "none"]
    /\ Release(e)
    /\ UNCHANGED <<state, delay, out, mail, pc, terminal, queueVars, ackVars, fixedVars>>
-----------------------------------------------------------------------------
Handle(e) ==
    \/ ProcessDelimiter(e) \/ ProcessHiccup(e) \/ ProcessPipeTerm(e) \/ ProcessActivate(e)
    \/ AckBegin(e) \/ DetachOwn(e) \/ DetachBack(e) \/ AckReply(e) \/ Unlink(e)
    \/ Finish(e) \/ ReleaseCommand(e)

Next ==
    \E e \in End :
        \/ Write(e) \/ Read(e) \/ SetNodelay(e) \/ Hiccup(e) \/ Activate(e)
        \/ \E d \in BOOLEAN : Terminate(e, d)
        \/ Handle(e)
        \/ ReaderEnter(e) \/ ReaderLeave(e) \/ ReaderGone(e)

\* Threads process their commands, readers leave, and an end that waits for the
\* delimiter goes on being read.  Nobody has to terminate anything.
Spec ==
    /\ Init /\ [][Next]_vars
    /\ \A e \in End :
          /\ WF_vars(Handle(e)) /\ WF_vars(ReaderLeave(e) \/ ReaderGone(e))
          /\ WF_vars(state[e] = "waiting_for_delimiter" /\ Read(e))
-----------------------------------------------------------------------------
States == {"active", "delimiter_received", "waiting_for_delimiter", "term_ack_sent",
           "term_req_sent1", "term_req_sent2"}

TypeOK ==
    /\ state \in [End -> States] /\ delay \in [End -> BOOLEAN]
    /\ in \in [End -> 0 .. MaxHiccups] /\ out \in [End -> 0 .. MaxHiccups \cup {NoQueue}]
    /\ items \in [Queue -> Seq({"msg", "delimiter"})] /\ live \subseteq Queue
    /\ mail \in [End -> Seq(Command)]
    /\ link \in [End -> BOOLEAN] /\ refs \in [End -> Nat]
    /\ terminal \subseteq End /\ freed \subseteq terminal
    /\ reader \in [End -> {"none", "reading", "leaving"}]
    /\ pc \in [End -> {"idle", "delimiter", "detach", "back", "reply", "unlink", "finish",
                       "release"}]
    /\ held \subseteq End /\ owes \subseteq End

\* No zlink_assert of the handshake fails: an ack finds only an end that
\* terminates, a hiccup an outbound queue, the peer an ack is owed to can still be
\* reached, and the lifetime becomes terminal once (process_pipe_term_ack,
\* process_hiccup).  process_pipe_term() accepts every state.
HandshakeAssertions ==
    \A e \in End :
        /\ Receives(e, "pipe_term_ack") => state[e] \in {"term_ack_sent", "term_req_sent1", "term_req_sent2"}
        /\ Receives(e, "hiccup") => out[e] # NoQueue
        /\ pc[e] = "reply" /\ e \in owes => e \in held /\ Peer(e) \notin terminal
        /\ pc[e] = "finish" => e \notin terminal

\* The references to an end are exactly those of its commands, of the handler
\* that runs, of the peer's link and of a reader: nothing is deleted too early
\* (lifetime_state_t).
RefsAreExact ==
    /\ TypeOK
    /\ \A e \in End :
          refs[e] = Len(mail[e])
                    + (IF pc[e] \in {"idle", "delimiter"} THEN 0 ELSE 1)
                    + (IF link[Peer(e)] \/ Peer(e) \in held THEN 1 ELSE 0)
                    + (IF reader[e] = "none" THEN 0 ELSE 1)

\* Nobody has a deleted queue in its hands, not the writer, not the owner before
\* its end is terminal, not a reader that retained it; and nothing is left behind
\* once both ends are gone (process_hiccup, cleanup_inbound_pipe).
QueuesAreOwned ==
    /\ \A e \in End :
          /\ out[e] # NoQueue => OutQ(e) \in live
          /\ e \notin terminal \/ reader[e] = "reading" => InQ(e) \in live
    /\ freed = End => live = {}

\* An end that asked for delay acknowledges its peer's termination only when it
\* has read every message (process_pipe_term, process_delimiter).
AcknowledgedWhenDrained ==
    [][\A e \in End :
          state[e] \in {"active", "waiting_for_delimiter"} /\ state'[e] = "term_ack_sent" /\ delay'[e]
             => items'[InQ(e)] = <<>>]_vars

\* Whoever terminates, at the same time or not, both ends are deleted.
TerminationCompletes == \A e \in End : (state[e] = "term_req_sent1") ~> (freed = End)

\* Neither an end nor a queue is deleted while somebody can still use it, and
\* nothing leaks: references and queue ownership (lifetime_state_t,
\* process_hiccup, cleanup_inbound_pipe).
NothingDangles == RefsAreExact /\ QueuesAreOwned
=============================================================================
