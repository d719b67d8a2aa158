----------------------------- MODULE PipeCredit -----------------------------
(***************************************************************************)
(* Flow control of one direction of a pipe: byte credit against the high    *)
(* watermark, remote PAUSE and RESUME, the initial transport pair hold and  *)
(* hiccup (core/src/runtime/core/pipe_write.cpp, pipe_receive.cpp,          *)
(* pipe_transport.cpp, pipe.hpp).                                           *)
(*                                                                          *)
(* The writing end belongs to a socket: sends and commands run in its turn. *)
(* The reading end runs in another thread, shares nothing but atomics with  *)
(* it, and sends activate_write only to a writer that it saw waiting.       *)
(* A refused send makes the socket set the pipe aside; only write_activated *)
(* makes it use the pipe again.                                             *)
(*                                                                          *)
(* One step is one access to an atomic that the other side looks at, with   *)
(* the private work around it.  Messages are single frames; a message and   *)
(* a control frame (WEIGHT, FLOWSTATE, the routing id) are known by their   *)
(* accounted bytes.  Termination is in PipeTerm.                            *)
(***************************************************************************)
EXTENDS Integers, Sequences, FiniteSetsExt

CONSTANTS Size,         \* accounted bytes of a frame
          ControlSize,  \* those of a control frame
          Hwm,          \* _hwm
          MaxWrites,    \* bound on the messages written
          MaxControls,  \* bound on the control frames written
          MaxFlows,     \* bound on the FLOWSTATE frames of the peer
          MaxReleases,  \* bound on the correlation releases
          MaxHiccups    \* bound on the hiccups

ASSUME BoundsAssumption ==
    /\ Size \subseteq Nat \ {0} /\ ControlSize \subseteq Size /\ Hwm \in Nat \ {0}
    /\ {MaxWrites, MaxControls, MaxFlows, MaxReleases, MaxHiccups} \subseteq Nat

VARIABLES
    routed,        \* the socket is a DEALER or ROUTER; otherwise it is an XSUB
    outActive,     \* _out_active
    waiting,       \* _waiting_for_byte_credit
    bytesWritten,  \* _bytes_written
    peersRead,     \* _peers_bytes_read
    outGen,        \* _out_generation
    held,          \* _transport_pair_write_held
    paused,        \* _remote_flow_paused
    flowEpoch,     \* _remote_flow_epoch
    correlation,   \* _request_correlation_activation_pending
    wpc,           \* where the turn is in an admission
    msg,           \* the message being admitted
    resending,     \* xhiccuped() is writing the cached subscriptions
    npc,           \* where the turn is in the resync and in write_activated()
    setAside,      \* lb_t or dist_t counts the pipe as not writable
    queue,         \* frames written and not read
    prefetched,    \* frames up to _r of the queue
    published,     \* _published_bytes_read of the reading end
    lastCredit,    \* _last_credit_bytes_read
    inGen,         \* _in_generation of the reading end
    rpc,           \* where the reader is in account_inbound_frame()
    unread,        \* bytes of the frame being accounted
    seen,          \* writer_waiting, as loaded by the reader
    cmds,          \* commands to the writing end
    record,        \* the flow state accepted by the socket for this peer
    writes, controls, releases

writerVars == <<outActive, waiting, bytesWritten, peersRead, outGen>>
flowVars == <<held, paused, flowEpoch, correlation>>
turnVars == <<wpc, msg, resending, npc, setAside>>
readerVars == <<prefetched, published, lastCredit, inGen, rpc, unread, seen>>
boundVars == <<routed, record, writes, controls, releases>>
vars == <<writerVars, flowVars, turnVars, readerVars, boundVars, queue, cmds>>

ActivateWrite(g, n) == [type |-> "activate_write", gen |-> g, bytes |-> n]
FlowState(p, e) == [type |-> "flow_state", paused |-> p, epoch |-> e]
HiccupTo(g) == [type |-> "hiccup", gen |-> g]

Command == [type : {"activate_write"}, gen : Nat, bytes : Nat]
           \cup [type : {"flow_state"}, paused : BOOLEAN, epoch : Nat]
           \cup [type : {"hiccup"}, gen : Nat]

Frame == [bytes : Size, control : BOOLEAN]
Message(n) == [bytes |-> n, control |-> FALSE]
Control(n) == [bytes |-> n, control |-> TRUE]

\* The accounted bytes of a sequence of frames.
Bytes(s) ==
    LET upto[i \in 0 .. Len(s)] == IF i = 0 THEN 0 ELSE upto[i - 1] + s[i].bytes
    IN  upto[Len(s)]

AdmissionSteps == {"idle", "admit", "admitArmed", "commit", "commitArmed",
                   "resumed", "release", "releaseArmed"}

\* The pair became ready and its controls are being announced.
Resyncing == npc \in {"flow", "weight"}

\* The turn is between two operations on this pipe.
TurnIsFree == wpc = "idle" /\ npc = "idle" /\ ~resending

TypeOK ==
    /\ {routed, outActive, waiting, held, paused, correlation,
        resending, setAside, seen} \subseteq BOOLEAN
    /\ {bytesWritten, peersRead, outGen, flowEpoch, prefetched, published,
        lastCredit, inGen, unread, writes, controls, releases} \subseteq Nat
    /\ wpc \in AdmissionSteps /\ msg \in Size \cup {0}
    /\ npc \in {"idle", "flow", "weight", "notify", "take"}
    /\ queue \in Seq(Frame) /\ prefetched <= Len(queue)
    /\ rpc \in {"idle", "publish", "second", "decide"}
    /\ record \in [paused : BOOLEAN, epoch : 0 .. MaxFlows]
    /\ cmds \in Seq(Command)

Init ==
    /\ routed \in BOOLEAN
    /\ held \in (IF routed THEN BOOLEAN ELSE {FALSE})
    \* A held pipe may carry the routing id, written without regard to the HWM.
    /\ queue \in {<<>>} \cup (IF held THEN {<<Control(n)>> : n \in ControlSize} ELSE {})
    /\ bytesWritten = Bytes(queue)
    /\ outActive = ~held /\ waiting = FALSE
    /\ peersRead = 0 /\ outGen = 1 /\ inGen = 1
    /\ paused = FALSE /\ flowEpoch = 0 /\ correlation = FALSE
    /\ wpc = "idle" /\ msg = 0 /\ resending = FALSE
    /\ npc = "idle" /\ setAside = FALSE
    /\ prefetched = 0 /\ published = 0 /\ lastCredit = 0
    /\ rpc = "idle" /\ unread = 0 /\ seen = FALSE
    /\ cmds = <<>> /\ record = [paused |-> FALSE, epoch |-> 0]
    /\ writes = 0 /\ controls = Len(queue) /\ releases = 0

-----------------------------------------------------------------------------
(* Credit.                                                                  *)

InFlight(read) == IF bytesWritten > read THEN bytesWritten - read ELSE 0

CheckHwm(read) == InFlight(read) < Hwm

\* An empty pipe admits one message larger than the watermark.
CanCommit(n, read) == InFlight(read) = 0 \/ InFlight(read) + n <= Hwm

\* refresh_peer_credit_snapshot_unlocked(): never back.
Snapshot == Max({peersRead, published})

\* What the step of the admission at pc tests: room for anything, or for msg.
Admits(pc, read) ==
    IF pc \in {"commit", "commitArmed"} THEN CanCommit(msg, read) ELSE CheckHwm(read)

\* The cached counter first, the peer's counter only when that does not do.
Sampled(pc) == IF Admits(pc, peersRead) THEN peersRead ELSE Snapshot

compute_lwm == (Hwm \div 2) + (Hwm % 2)

-----------------------------------------------------------------------------
(* Sending.                                                                 *)

\* dist_t and lb_t set a pipe aside that refuses; xhiccuped() drops the message.
Refused == setAside' = (setAside \/ ~resending)

(***************************************************************************)
(* A send picks the pipe, or xhiccuped() resends a subscription.  The write *)
(* state is tested first: hold, pause, then _out_active.                    *)
(***************************************************************************)
Send(n) ==
    /\ wpc = "idle" /\ ~Resyncing /\ writes < MaxWrites
    /\ resending \/ ~setAside
    /\ IF held \/ paused \/ ~outActive
         THEN Refused /\ UNCHANGED <<wpc, msg>>
         ELSE wpc' = "admit" /\ msg' = n /\ UNCHANGED setAside
    /\ UNCHANGED <<writerVars, flowVars, resending, npc, readerVars, boundVars, queue, cmds>>

\* arm_hwm_credit_wait_unlocked() and clear_hwm_credit_wait_unlocked().
Arm == outActive' = FALSE /\ waiting' = TRUE
ClearWait == outActive' = TRUE /\ waiting' = FALSE

\* A frame is written, counted and flushed: the reader sees it when it is flushed.
Published(f) ==
    /\ queue' = Append(queue, f)
    /\ bytesWritten' = bytesWritten + f.bytes

Commit ==
    /\ Published(Message(msg))
    /\ writes' = writes + 1
    /\ wpc' = "idle" /\ msg' = 0
    /\ UNCHANGED setAside

\* An admission step succeeded: the watermark, then the size of the message.
Passed ==
    IF wpc \in {"admit", "admitArmed"}
      THEN wpc' = "commit" /\ UNCHANGED <<msg, queue, bytesWritten, writes, setAside>>
      ELSE Commit

\* First test of an admission; when it fails the writer declares that it waits.
TryAdmit ==
    /\ wpc \in {"admit", "commit"}
    /\ peersRead' = Sampled(wpc)
    /\ IF Admits(wpc, peersRead')
         THEN Passed /\ UNCHANGED <<outActive, waiting>>
         ELSE /\ Arm
              /\ wpc' = (IF wpc = "admit" THEN "admitArmed" ELSE "commitArmed")
              /\ UNCHANGED <<msg, queue, bytesWritten, writes, setAside>>
    /\ UNCHANGED <<outGen, flowVars, resending, npc, readerVars, routed, record, controls, releases, cmds>>

\* Second test, after the fence that follows the declaration.
RecheckAdmit ==
    /\ wpc \in {"admitArmed", "commitArmed"}
    /\ peersRead' = Sampled(wpc)
    /\ IF Admits(wpc, peersRead')
         THEN ClearWait /\ Passed
         ELSE /\ Refused /\ wpc' = "idle" /\ msg' = 0
              /\ UNCHANGED <<outActive, waiting, queue, bytesWritten, writes>>
    /\ UNCHANGED <<outGen, flowVars, resending, npc, readerVars, routed, record, controls, releases, cmds>>

-----------------------------------------------------------------------------
(* The reader.                                                              *)

\* read(): prefetch when nothing is prefetched, then pop.  The first load of
\* _waiting_for_byte_credit may be performed as early as here.
Read ==
    /\ rpc = "idle" /\ inGen = outGen /\ queue # <<>>
    /\ prefetched' = (IF prefetched = 0 THEN Len(queue) ELSE prefetched) - 1
    /\ queue' = Tail(queue)
    /\ unread' = Head(queue).bytes
    /\ seen' = waiting
    /\ rpc' = "publish"
    /\ UNCHANGED <<writerVars, flowVars, turnVars, published, lastCredit, inGen, boundVars, cmds>>

\* The frame's bytes since the last credit reach the low watermark.
Reaches(bytes) == bytes - lastCredit >= compute_lwm

\* Mutant of PublishAndLook: the load behind the fence left out.
BugNoSecondLook ==
    /\ rpc = "publish"
    /\ published' = published + unread /\ unread' = 0
    /\ seen' \in {seen, waiting}
    /\ rpc' = "decide"
    /\ UNCHANGED <<writerVars, flowVars, turnVars, prefetched, lastCredit, inGen,
                   boundVars, queue, cmds>>

\* The counter is published and the marker loaded: without a fence between the
\* two, the load yields the value of before or after the publication.  It is
\* repeated, behind a fence, at a credit boundary only.
PublishAndLook ==
    /\ rpc = "publish"
    /\ published' = published + unread /\ unread' = 0
    /\ seen' \in {seen, waiting}
    /\ rpc' = (IF ~seen' /\ (Reaches(published') \/ prefetched = 0) THEN "second" ELSE "decide")
    /\ UNCHANGED <<writerVars, flowVars, turnVars, prefetched, lastCredit, inGen,
                   boundVars, queue, cmds>>

SecondLook ==
    /\ rpc = "second"
    /\ seen' = waiting
    /\ rpc' = "decide"
    /\ UNCHANGED <<writerVars, flowVars, turnVars, prefetched, published, lastCredit, inGen,
                   unread, boundVars, queue, cmds>>

\* Below the LWM a waiting writer is woken only when nothing is published; the
\* probe that finds this out prefetches what it finds.
Probes == seen /\ ~Reaches(published) /\ prefetched = 0

Decide ==
    /\ rpc = "decide"
    /\ LET boundary == Reaches(published) \/ (Probes /\ queue = <<>>) IN
       /\ lastCredit' = (IF boundary THEN published ELSE lastCredit)
       /\ cmds' = (IF boundary /\ seen THEN Append(cmds, ActivateWrite(inGen, published)) ELSE cmds)
    /\ prefetched' = (IF Probes THEN Len(queue) ELSE prefetched)
    /\ rpc' = "idle" /\ seen' = FALSE
    /\ UNCHANGED <<writerVars, flowVars, turnVars, published, inGen, unread, boundVars, queue>>

\* hiccup(): the session of an XSUB lost its connection and starts a new queue.
Hiccup ==
    /\ ~routed /\ rpc = "idle" /\ inGen <= MaxHiccups
    /\ inGen' = inGen + 1
    /\ published' = 0 /\ lastCredit' = 0 /\ prefetched' = 0
    /\ cmds' = Append(cmds, HiccupTo(inGen + 1))
    /\ UNCHANGED <<writerVars, flowVars, turnVars, rpc, unread, seen, boundVars, queue>>

-----------------------------------------------------------------------------
(* Commands to the writing end.                                             *)

Received(type) == TurnIsFree /\ cmds # <<>> /\ Head(cmds).type = type

\* process_activate_write(): the counters of the command replace the cached
\* ones, also when they are older.
ProcessActivateWrite ==
    /\ Received("activate_write")
    /\ LET c == Head(cmds)
           current == c.gen = outGen
           granted == current /\ ~held /\ ~outActive /\ CheckHwm(c.bytes)
           released == correlation /\ outActive /\ ~held /\ ~paused /\ CheckHwm(peersRead) IN
       /\ peersRead' = (IF current THEN c.bytes ELSE peersRead)
       /\ outActive' = (outActive \/ granted)
       /\ npc' = (IF (granted /\ ~paused) \/ released THEN "notify" ELSE "idle")
    /\ correlation' = FALSE
    /\ cmds' = Tail(cmds)
    /\ UNCHANGED <<waiting, bytesWritten, outGen, held, paused, flowEpoch, wpc, msg, resending,
                   setAside, readerVars, boundVars, queue>>

\* write_activated(): the pipe is used again, then the marker is consumed.
Notify ==
    /\ npc = "notify"
    /\ setAside' = FALSE
    /\ npc' = "take"
    /\ UNCHANGED <<writerVars, flowVars, wpc, msg, resending, readerVars, boundVars, queue, cmds>>

\* Mutant of TakeRecovery: the marker of a newer wait consumed with the older activation.
BugTakeAlways ==
    /\ npc = "take"
    /\ waiting' = FALSE
    /\ npc' = "idle"
    /\ UNCHANGED <<outActive, bytesWritten, peersRead, outGen, flowVars, wpc, msg, resending,
                   setAside, readerVars, boundVars, queue, cmds>>

\* take_hwm_credit_recovery(): unless a send has filled the pipe meanwhile.
TakeRecovery ==
    /\ npc = "take"
    /\ waiting' = (waiting /\ ~outActive)
    /\ npc' = "idle"
    /\ UNCHANGED <<outActive, bytesWritten, peersRead, outGen, flowVars, wpc, msg, resending,
                   setAside, readerVars, boundVars, queue, cmds>>

\* Mutant of Newer: any other epoch is accepted.
BugNewerIgnored(s) == s.epoch # flowEpoch

\* apply_remote_flow_state() for an epoch: stale and repeated states are dropped.
Newer(s) == s.epoch > flowEpoch

\* process_flow_state(): a resume hands the wake-up to the byte credit.
ProcessFlowState ==
    /\ Received("flow_state")
    /\ LET c == Head(cmds)
           resumes == Newer(c) /\ paused /\ ~c.paused /\ ~held /\ outActive IN
       /\ flowEpoch' = (IF Newer(c) THEN c.epoch ELSE flowEpoch)
       /\ paused' = (IF Newer(c) THEN c.paused ELSE paused)
       /\ IF resumes THEN Arm /\ wpc' = "resumed" ELSE UNCHANGED <<outActive, waiting, wpc>>
    /\ cmds' = Tail(cmds)
    /\ UNCHANGED <<bytesWritten, peersRead, outGen, held, correlation, msg, resending, npc,
                   setAside, readerVars, boundVars, queue>>

\* Its second half, after the fence.  The marker is left to write_activated().
RecheckResume ==
    /\ wpc = "resumed"
    /\ peersRead' = Sampled(wpc)
    /\ outActive' = CheckHwm(peersRead')
    /\ npc' = (IF CheckHwm(peersRead') THEN "notify" ELSE "idle")
    /\ wpc' = "idle"
    /\ UNCHANGED <<waiting, bytesWritten, outGen, flowVars, msg, resending, setAside, readerVars,
                   boundVars, queue, cmds>>

\* The transport pair became ready: the accepted flow state is applied.
PairReady ==
    /\ held /\ TurnIsFree
    /\ flowEpoch' = (IF Newer(record) THEN record.epoch ELSE flowEpoch)
    /\ paused' = (IF Newer(record) THEN record.paused ELSE paused)
    /\ wpc' = "release"
    /\ UNCHANGED <<writerVars, held, correlation, msg, resending, npc, setAside, readerVars,
                   boundVars, queue, cmds>>

\* release_writes_for_transport_pair(): the hold is cleared, then the admission's
\* two tests.
ReleaseHold ==
    /\ wpc \in {"release", "releaseArmed"}
    /\ held' = FALSE
    /\ peersRead' = Sampled(wpc)
    /\ LET ready == CheckHwm(peersRead') IN
       /\ IF ready
            THEN IF wpc = "release" THEN outActive' = TRUE /\ UNCHANGED waiting ELSE ClearWait
            ELSE IF wpc = "release" THEN Arm ELSE UNCHANGED <<outActive, waiting>>
       /\ IF ready \/ wpc = "releaseArmed"
            THEN wpc' = "idle" /\ npc' = "flow"
            ELSE wpc' = "releaseArmed" /\ UNCHANGED npc
    /\ UNCHANGED <<bytesWritten, outGen, paused, flowEpoch, correlation, msg, resending, setAside,
                   readerVars, boundVars, queue, cmds>>

\* A control frame.
PutControl(n) ==
    /\ controls < MaxControls
    /\ controls' = controls + 1
    /\ Published(Control(n))

\* The local flow state is announced to the new peer, then, when the release made
\* the pipe writable, the local weight: a frame on the pipe of a session, whatever
\* the watermark and the pause, or a command to an inproc peer.  A flow state that
\* was never set is not announced.
Resync ==
    /\ Resyncing
    /\ (\E n \in ControlSize : PutControl(n)) \/ UNCHANGED <<queue, bytesWritten, controls>>
    /\ npc' = (IF npc = "weight" THEN "notify"
               ELSE IF outActive /\ ~paused THEN "weight" ELSE "idle")
    /\ UNCHANGED <<outActive, waiting, peersRead, outGen, flowVars, wpc, msg, resending, setAside,
                   readerVars, routed, record, writes, releases, cmds>>

\* write_peer_weight_control_and_flush(), write_flow_state_control_and_flush() and
\* the flush that appends what they left pending behind a message: controls pass
\* the watermark, a pause and the wait for credit, but not the hold.
WriteControl(n) ==
    /\ routed /\ ~held /\ wpc = "idle" /\ ~Resyncing
    /\ PutControl(n)
    /\ UNCHANGED <<outActive, waiting, peersRead, outGen, flowVars, turnVars, readerVars, routed,
                   record, writes, releases, cmds>>

\* process_hiccup(): a new queue and a new generation; XSUB then resends.
ProcessHiccup ==
    /\ Received("hiccup")
    /\ queue' = <<>> /\ outGen' = Head(cmds).gen
    /\ outActive' = TRUE /\ waiting' = FALSE
    /\ bytesWritten' = 0 /\ peersRead' = 0
    /\ resending' = TRUE
    /\ cmds' = Tail(cmds)
    /\ UNCHANGED <<flowVars, wpc, msg, npc, setAside, readerVars, boundVars>>

ResendDone ==
    /\ resending /\ wpc = "idle"
    /\ resending' = FALSE
    /\ UNCHANGED <<writerVars, flowVars, wpc, msg, npc, setAside, readerVars, boundVars, queue, cmds>>

-----------------------------------------------------------------------------
(* Other threads.                                                           *)

\* The pair is ready, its hold perhaps not yet cleared.
Ready == ~held \/ wpc = "release"

\* The I/O thread accepts a FLOWSTATE frame.  A state that changes is sent on to
\* the pipe; until the pair is ready it may only be recorded.
AcceptFlowState(p) ==
    /\ routed /\ record.epoch < MaxFlows
    /\ record' = [paused |-> p, epoch |-> record.epoch + 1]
    /\ \/ p # record.paused /\ cmds' = Append(cmds, FlowState(p, record.epoch + 1))
       \/ (p = record.paused \/ ~Ready) /\ UNCHANGED cmds
    /\ UNCHANGED <<writerVars, flowVars, turnVars, readerVars, routed, writes, controls,
                   releases, queue>>

\* release_request_correlation(), by any thread: an activate_write that carries
\* the counters the writer has cached.
ReleaseCorrelation ==
    /\ routed /\ releases < MaxReleases
    /\ releases' = releases + 1
    /\ correlation' = TRUE
    /\ cmds' = Append(cmds, ActivateWrite(outGen, peersRead))
    /\ UNCHANGED <<writerVars, held, paused, flowEpoch, turnVars, readerVars, routed, record,
                   writes, controls, queue>>

-----------------------------------------------------------------------------
Reader == Read \/ PublishAndLook \/ SecondLook \/ Decide

Turn ==
    \/ TryAdmit \/ RecheckAdmit \/ ResendDone
    \/ ProcessActivateWrite \/ Notify \/ TakeRecovery
    \/ ProcessFlowState \/ RecheckResume
    \/ PairReady \/ ReleaseHold \/ Resync
    \/ ProcessHiccup

Next ==
    \/ \E n \in Size : Send(n)
    \/ \E n \in ControlSize : WriteControl(n)
    \/ Turn
    \/ Reader
    \/ Hiccup
    \/ \E p \in BOOLEAN : AcceptFlowState(p)
    \/ ReleaseCorrelation

(***************************************************************************)
(* The turn finishes what it began and processes its commands; the peer     *)
(* goes on reading; the transport pair becomes ready.                       *)
(***************************************************************************)
Fairness == WF_vars(Turn) /\ WF_vars(Reader)

Spec == Init /\ [][Next]_vars /\ Fairness

-----------------------------------------------------------------------------
(* Properties.                                                              *)

(***************************************************************************)
(* Credit is never invented, whatever counters commands carry               *)
(* (process_activate_write, refresh_peer_credit_snapshot_unlocked): unless  *)
(* a hiccup is on its way the writer's view of what was read is at most     *)
(* what was read, and every message that does not head the queue fits in    *)
(* the watermark with all the frames in front of it, controls included      *)
(* (can_commit_bytes_unlocked).  Only controls may lie beyond it.           *)
(***************************************************************************)
FitsWatermark(s) ==
    \A i \in 1 .. Len(s) : ~s[i].control => i = 1 \/ Bytes(SubSeq(s, 1, i)) <= Hwm

CreditIsEarned ==
    /\ TypeOK
    /\ outGen = inGen => peersRead <= published
    /\ FitsWatermark(queue)

\* The reader is going to see the writer wait, or has something left to read.
ReaderWillLook == queue # <<>> \/ rpc \in {"publish", "second"} \/ (rpc = "decide" /\ seen)

\* An activation that will find room is in the mailbox.
GrantInMailbox ==
    \E i \in DOMAIN cmds :
       cmds[i].type = "activate_write" /\ cmds[i].gen = outGen /\ CheckHwm(cmds[i].bytes)

(***************************************************************************)
(* A pipe that was set aside, and that nothing but credit blocks, has its   *)
(* activation under way, or is declared waiting to a reader that will still *)
(* look (arm_hwm_credit_wait_unlocked and account_inbound_frame).           *)
(***************************************************************************)
NoLostCredit ==
    (setAside /\ ~resending /\ wpc = "idle" /\ npc \in {"idle", "take"} /\ ~held /\ ~paused /\ inGen = 1)
       => \/ GrantInMailbox
          \/ waiting /\ ~outActive /\ ReaderWillLook

(***************************************************************************)
(* When no FLOWSTATE command is left, the pipe of a released pair is paused *)
(* exactly when the latest accepted state says so, although admission       *)
(* applies the record ahead of commands that are older                      *)
(* (apply_remote_flow_state).                                               *)
(***************************************************************************)
FlowConverges ==
    (~held /\ \A i \in DOMAIN cmds : cmds[i].type # "flow_state") => paused = record.paused

(***************************************************************************)
(* A pipe set aside is used again as long as its peer reads, unless the     *)
(* peer keeps it paused or it was cut by a hiccup (write_activated).        *)
(***************************************************************************)
RefusedIsActivated == setAside ~> (~setAside \/ paused \/ inGen > 1)

(***************************************************************************)
(* The same of an XSUB across a reconnection: a subscription made later is  *)
(* forwarded upstream, which needs its distributor to use the pipe again.   *)
(* It does not hold: README section 5.                                      *)
(***************************************************************************)
ReconnectedIsActivated == setAside ~> (~setAside \/ paused)

(***************************************************************************)
(* Credit is neither invented nor lost, whichever of the reader's two looks *)
(* at the marker meets whichever of the writer's two tests.                 *)
(***************************************************************************)
CreditIsExact == CreditIsEarned /\ NoLostCredit
=============================================================================
