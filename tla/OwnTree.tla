------------------------------ MODULE OwnTree ------------------------------
(***************************************************************************)
(* The ownership tree of one socket (core/src/runtime/core/own.cpp and the  *)
(* commands of object.cpp): how objects living in different I/O threads are *)
(* launched, adopted, asked to terminate and destroyed.                     *)
(*                                                                          *)
(*   Root    the socket; it is terminated by the reaper (start_reaping)     *)
(*   Child   addresses of the other own_t objects: listeners and active     *)
(*           sessions under the socket, accepted sessions under a listener, *)
(*           connecters under a session                                     *)
(*                                                                          *)
(* A child's address is free again once it is destroyed, and the allocator  *)
(* may hand it to the next object; gen tells two objects at one address     *)
(* apart, which the code cannot.  Every object has a FIFO of commands: the  *)
(* mailbox of its thread, seen from the object.                             *)
(***************************************************************************)
EXTENDS Naturals, Sequences, FiniteSets

CONSTANTS Root, Child,
          MaxLaunches,   \* bound on the objects ever launched
          MaxAsks,       \* bound on the terminate() calls of one object
          MaxPipes       \* bound on the pipes ever bound to the socket

Object == Child \cup {Root}
NoOne == "no one"

ASSUME ObjectsAssumption ==
    /\ Root \notin Child /\ NoOne \notin Object /\ IsFiniteSet(Child)
    /\ MaxLaunches \in Nat /\ MaxAsks \in Nat /\ MaxPipes \in Nat

VARIABLES
    status,       \* "free" or "live"
    owner,        \* _owner
    owned,        \* _owned
    terminating,  \* _terminating
    deferring,    \* process_term() was called and own_t::process_term() is put off
    acks,         \* _term_acks
    sent,         \* _sent_seqnum
    processed,    \* _processed_seqnum
    mail,         \* commands on their way to the object
    gen,          \* history: how many objects have lived at the address
    asks,         \* how often the object has called terminate()
    endpoints,    \* children in the socket's endpoint table, with their gen
    pipes,        \* attached pipes of the socket
    launches, binds  \* totals against the bounds

treeVars == <<status, owner, owned, terminating, deferring, acks, sent, processed, mail>>
vars == <<treeVars, gen, asks, endpoints, pipes, launches, binds>>

Cmd(type) == [type |-> type]
CmdOf(type, o) == [type |-> type, obj |-> o, gen |-> gen[o]]

Init ==
    /\ status = [o \in Object |-> IF o = Root THEN "live" ELSE "free"]
    /\ owner = [o \in Object |-> NoOne]
    /\ owned = [o \in Object |-> {}]
    /\ terminating = [o \in Object |-> FALSE]
    /\ deferring = [o \in Object |-> FALSE]
    /\ acks = [o \in Object |-> 0]
    /\ sent = [o \in Object |-> 0]
    /\ processed = [o \in Object |-> 0]
    /\ mail = [o \in Object |-> <<>>]
    /\ gen = [o \in Object |-> 0]
    /\ asks = [o \in Object |-> 0]
    /\ endpoints = {} /\ pipes = 0 /\ launches = 0 /\ binds = 0

\* A child is running once it has processed its plug command.
Running(o) == status[o] = "live" /\ (o = Root \/ processed[o] > 0)
-----------------------------------------------------------------------------
(* What objects do of their own accord.                                     *)

\* launch_child(): the new object gets its owner and a plug command, the owner
\* an own command to itself.  A listener also sends the session it launches the
\* engine it accepted; the socket enters its children in the endpoint table.
\* The socket launches nothing once it is being reaped.
Launch(p, c) ==
    /\ Running(p) /\ status[c] = "free"
    /\ p # Root => owner[p] = Root
    /\ p = Root => ~terminating[Root]
    /\ launches < MaxLaunches
    /\ launches' = launches + 1
    /\ status' = [status EXCEPT ![c] = "live"]
    /\ owner' = [owner EXCEPT ![c] = p]
    /\ gen' = [gen EXCEPT ![c] = @ + 1]
    /\ asks' = [asks EXCEPT ![c] = 0]
    /\ \E first \in {<<Cmd("plug")>>}
                    \cup (IF p = Root THEN {} ELSE {<<Cmd("plug"), Cmd("attach")>>}) :
          /\ mail' = [mail EXCEPT ![c] = first,
                                  ![p] = Append(@, [type |-> "own", obj |-> c, gen |-> gen[c] + 1])]
          /\ sent' = [sent EXCEPT ![c] = Len(first), ![p] = @ + 1]
    /\ owned' = [owned EXCEPT ![c] = {}]
    /\ terminating' = [terminating EXCEPT ![c] = FALSE]
    /\ endpoints' = IF p = Root THEN endpoints \cup {<<c, gen[c] + 1>>} ELSE endpoints
    /\ UNCHANGED <<deferring, acks, processed, pipes, binds>>

\* terminate() of an owned object, after a connecter has handed its engine to
\* the session that owns it, or for any other reason.
Ask(c) ==
    /\ Running(c) /\ ~terminating[c]
    /\ asks[c] < MaxAsks
    /\ asks' = [asks EXCEPT ![c] = @ + 1]
    /\ \E before \in {<<>>} \cup (IF owner[c] = Root \/ asks[c] > 0 THEN {} ELSE {<<Cmd("attach")>>}) :
          /\ mail' = [mail EXCEPT ![owner[c]] = @ \o Append(before, CmdOf("term_req", c))]
          /\ sent' = [sent EXCEPT ![owner[c]] = @ + Len(before) + 1]
    /\ UNCHANGED <<status, owner, owned, terminating, deferring, acks, processed, gen,
                   endpoints, pipes, launches, binds>>

\* A session whose handshake ended binds its pipe to the socket.
SendBind(c) ==
    /\ Running(c) /\ ~terminating[c]
    /\ binds < MaxPipes
    /\ binds' = binds + 1
    /\ mail' = [mail EXCEPT ![Root] = Append(@, Cmd("bind"))]
    /\ sent' = [sent EXCEPT ![Root] = @ + 1]
    /\ UNCHANGED <<status, owner, owned, terminating, deferring, acks, processed, gen,
                   asks, endpoints, pipes, launches>>

\* term_child(), from term_endpoint() or process_term_endpoint(): the table
\* entry goes, and the socket queues a request to itself.
TermChild(c, g) ==
    /\ status[Root] = "live"
    /\ <<c, g>> \in endpoints
    /\ endpoints' = endpoints \ {<<c, g>>}
    /\ mail' = [mail EXCEPT ![Root] = Append(@, [type |-> "term_req", obj |-> c, gen |-> g])]
    /\ sent' = [sent EXCEPT ![Root] = @ + 1]
    /\ UNCHANGED <<status, owner, owned, terminating, deferring, acks, processed, gen,
                   asks, pipes, launches, binds>>
-----------------------------------------------------------------------------
(* own_t                                                                    *)

NoMail == [o \in Object |-> <<>>]

\* Mutant of CanDestroy: does not wait for the commands still on their way.
BugIgnoresSeqnum(terms, proc, sentTo, pend) == terms /\ pend = 0

\* check_term_acks()
CanDestroy(terms, proc, sentTo, pend) == terms /\ proc = sentTo /\ pend = 0

\* The end of every handler of o: its fields, the commands it sent (out), the
\* check, and the destruction with ~own_t()'s term_ack to the owner.
Handled(o, terms, mine, pend, proc, rest, out) ==
    LET done == CanDestroy(terms, proc, sent[o], pend)
        ack(x) == IF done /\ x = owner[o] THEN <<Cmd("term_ack")>> ELSE <<>>
    IN  /\ terminating' = [terminating EXCEPT ![o] = terms]
        /\ owned' = [owned EXCEPT ![o] = mine]
        /\ acks' = [acks EXCEPT ![o] = pend]
        /\ processed' = [processed EXCEPT ![o] = IF done THEN 0 ELSE proc]
        /\ sent' = [sent EXCEPT ![o] = IF done THEN 0 ELSE @]
        /\ status' = [status EXCEPT ![o] = IF done THEN "free" ELSE @]
        /\ owner' = [owner EXCEPT ![o] = IF done THEN NoOne ELSE @]
        /\ mail' = [x \in Object |-> (IF x = o THEN rest ELSE mail[x]) \o out[x] \o ack(x)]

\* own_t::process_term(): every owned object is asked to terminate.  pend
\* counts the acks that are to come from elsewhere.
OwnProcessTerm(o, rest, pend) ==
    Handled(o, TRUE, {}, pend + Cardinality(owned[o]), processed[o], rest,
            [x \in Object |-> IF x \in owned[o] THEN <<Cmd("term")>> ELSE <<>>])

Receives(o, type) ==
    /\ status[o] = "live"
    /\ mail[o] # <<>>
    /\ Head(mail[o]).type = type

\* plug and attach, then process_seqnum()
ProcessPlugOrAttach(o) ==
    /\ Receives(o, "plug") \/ Receives(o, "attach")
    /\ Handled(o, terminating[o], owned[o], acks[o], processed[o] + 1, Tail(mail[o]), NoMail)
    /\ UNCHANGED <<deferring, gen, asks, endpoints, pipes, launches, binds>>

\* Mutants of ProcessOwn: adopts a child while terminating; and drops it.
BugOwnWhileTerminating(o) ==
    /\ Receives(o, "own")
    /\ Handled(o, terminating[o], owned[o] \cup {Head(mail[o]).obj}, acks[o],
               processed[o] + 1, Tail(mail[o]), NoMail)
    /\ UNCHANGED <<deferring, gen, asks, endpoints, pipes, launches, binds>>

BugOwnDropsLate(o) ==
    /\ Receives(o, "own")
    /\ Handled(o, terminating[o],
               IF terminating[o] THEN owned[o] ELSE owned[o] \cup {Head(mail[o]).obj},
               acks[o], processed[o] + 1, Tail(mail[o]), NoMail)
    /\ UNCHANGED <<deferring, gen, asks, endpoints, pipes, launches, binds>>

\* process_own(): adopt, or terminate at once a child that came too late.
ProcessOwn(o) ==
    /\ Receives(o, "own")
    /\ LET c == Head(mail[o]).obj
       IN  IF terminating[o]
             THEN Handled(o, TRUE, owned[o], acks[o] + 1, processed[o] + 1, Tail(mail[o]),
                          [NoMail EXCEPT ![c] = <<Cmd("term")>>])
             ELSE Handled(o, FALSE, owned[o] \cup {c}, acks[o], processed[o] + 1,
                          Tail(mail[o]), NoMail)
    /\ UNCHANGED <<deferring, gen, asks, endpoints, pipes, launches, binds>>

\* process_term_req(): ignored while terminating, or when there is no such child.
ProcessTermReq(o) ==
    /\ Receives(o, "term_req")
    /\ LET c == Head(mail[o]).obj
       IN  IF terminating[o] \/ c \notin owned[o]
             THEN Handled(o, terminating[o], owned[o], acks[o], processed[o] + 1,
                          Tail(mail[o]), NoMail)
             ELSE Handled(o, FALSE, owned[o] \ {c}, acks[o] + 1, processed[o] + 1,
                          Tail(mail[o]), [NoMail EXCEPT ![c] = <<Cmd("term")>>])
    /\ UNCHANGED <<deferring, gen, asks, endpoints, pipes, launches, binds>>

\* process_term(): a session with a pipe, or a listener with an accept in
\* flight, puts own_t::process_term() off.
ProcessTerm(o) ==
    /\ Receives(o, "term")
    /\ \/ /\ OwnProcessTerm(o, Tail(mail[o]), acks[o])
          /\ UNCHANGED deferring
       \/ /\ deferring' = [deferring EXCEPT ![o] = TRUE]
          /\ mail' = [mail EXCEPT ![o] = Tail(@)]
          /\ UNCHANGED <<status, owner, owned, terminating, acks, sent, processed>>
    /\ UNCHANGED <<gen, asks, endpoints, pipes, launches, binds>>

\* pipe_terminated() of the last pipe, or the last accept completion.
DeferredTerm(o) ==
    /\ deferring[o]
    /\ deferring' = [deferring EXCEPT ![o] = FALSE]
    /\ OwnProcessTerm(o, mail[o], acks[o])
    /\ UNCHANGED <<gen, asks, endpoints, pipes, launches, binds>>

\* process_term_ack()
ProcessTermAck(o) ==
    /\ Receives(o, "term_ack")
    /\ Handled(o, terminating[o], owned[o], acks[o] - 1, processed[o], Tail(mail[o]), NoMail)
    /\ UNCHANGED <<deferring, gen, asks, endpoints, pipes, launches, binds>>
-----------------------------------------------------------------------------
(* The socket.                                                              *)

\* Mutant of ProcessBind: a pipe that arrives while terminating is not waited for.
BugLateBindUncounted ==
    /\ Receives(Root, "bind")
    /\ pipes' = pipes + 1
    /\ Handled(Root, terminating[Root], owned[Root], acks[Root], processed[Root] + 1,
               Tail(mail[Root]), NoMail)
    /\ UNCHANGED <<deferring, gen, asks, endpoints, launches, binds>>

\* process_bind(): a pipe that has already ended is skipped; one that comes too
\* late is terminated at once and waited for.
ProcessBind ==
    /\ Receives(Root, "bind")
    /\ \E n \in {0, 1} :
          /\ pipes' = pipes + n
          /\ Handled(Root, terminating[Root], owned[Root],
                     acks[Root] + (IF terminating[Root] THEN n ELSE 0),
                     processed[Root] + 1, Tail(mail[Root]), NoMail)
    /\ UNCHANGED <<deferring, gen, asks, endpoints, launches, binds>>

\* start_reaping(): terminate() of the root, and socket_base_t::process_term(),
\* which waits for every attached pipe as well.
Reap ==
    /\ status[Root] = "live" /\ ~terminating[Root]
    /\ OwnProcessTerm(Root, mail[Root], acks[Root] + pipes)
    /\ UNCHANGED <<deferring, gen, asks, endpoints, pipes, launches, binds>>

\* socket_base_t::pipe_terminated()
PipeTerminated ==
    /\ pipes > 0
    /\ pipes' = pipes - 1
    /\ IF terminating[Root]
         THEN Handled(Root, TRUE, owned[Root], acks[Root] - 1, processed[Root], mail[Root],
                      NoMail)
         ELSE UNCHANGED treeVars
    /\ UNCHANGED <<deferring, gen, asks, endpoints, launches, binds>>
-----------------------------------------------------------------------------
Process(o) ==
    \/ ProcessPlugOrAttach(o) \/ ProcessOwn(o) \/ ProcessTermReq(o)
    \/ ProcessTerm(o) \/ ProcessTermAck(o)

Next ==
    \/ \E o \in Object : Process(o)
    \/ \E c \in Child : Ask(c) \/ SendBind(c) \/ DeferredTerm(c)
    \/ \E p \in Object, c \in Child : Launch(p, c)
    \/ \E e \in endpoints : TermChild(e[1], e[2])
    \/ ProcessBind \/ Reap \/ PipeTerminated

\* Threads process their commands, a deferred termination ends (linger ends, an
\* accept completes), and a socket that terminates its pipes sees them go.
\* Nothing obliges anybody to launch, ask, bind or close.
Spec ==
    /\ Init /\ [][Next]_vars
    /\ \A o \in Object : WF_vars(Process(o))
    /\ \A c \in Child : WF_vars(DeferredTerm(c))
    /\ WF_vars(ProcessBind) /\ WF_vars(terminating[Root] /\ PipeTerminated)
-----------------------------------------------------------------------------
TypeOK ==
    /\ status \in [Object -> {"free", "live"}]
    /\ owner \in [Object -> Object \cup {NoOne}]
    /\ owned \in [Object -> SUBSET Child]
    /\ terminating \in [Object -> BOOLEAN] /\ deferring \in [Object -> BOOLEAN]
    /\ acks \in [Object -> Nat]
    /\ sent \in [Object -> Nat] /\ processed \in [Object -> Nat]
    /\ gen \in [Object -> Nat] /\ asks \in [Object -> 0 .. MaxAsks]
    /\ pipes \in 0 .. MaxPipes /\ endpoints \subseteq Child \X Nat

Count(o, type) == Cardinality({i \in 1 .. Len(mail[o]) : mail[o][i].type = type})
Asked(o) == Count(o, "term") > 0 \/ deferring[o] \/ terminating[o]
LiveChildren(o) == {c \in Child : status[c] = "live" /\ owner[c] = o}

\* No command is ever addressed to a destroyed object, and none is destroyed
\* with children: the sequence numbers and the acks hold it back (~own_t).
FreedIsQuiet ==
    \A o \in Object : status[o] = "free" => mail[o] = <<>> /\ owned[o] = {} /\ LiveChildren(o) = {}

\* "Double termination should never happen": whoever asks, the owner sends one
\* term command.
TermOnce ==
    \A o \in Object :
        Count(o, "term") + (IF deferring[o] \/ (terminating[o] /\ status[o] = "live") THEN 1 ELSE 0) <= 1

\* The acks an object waits for are exactly those that can still come: from
\* children asked and alive, on their way, and from the socket's pipes.
AcksAreExact ==
    /\ TypeOK
    /\ \A o \in Object : status[o] = "live" =>
        acks[o] = Cardinality({c \in LiveChildren(o) : Asked(c)}) + Count(o, "term_ack")
                    + (IF o = Root /\ terminating[Root] THEN pipes ELSE 0)

\* A child that nobody asked to terminate is not lost: its owner has adopted it
\* or has the own command queued.
NoLostChild ==
    \A c \in Child : status[c] = "live" /\ ~Asked(c) =>
        \/ c \in owned[owner[c]]
        \/ \E i \in 1 .. Len(mail[owner[c]]) :
              mail[owner[c]][i].type = "own" /\ mail[owner[c]][i].obj = c

\* Closing the socket destroys the whole tree.
ReapedIsDestroyed == terminating[Root] ~> \A o \in Object : status[o] = "free"

\* A termination request reaches the object it was made for, or nobody: "if not
\* found, we assume that termination request was already sent to the object so
\* we can safely ignore the request" (process_term_req).  It does not hold once an
\* address is reused: README section 5.
RequestHitsItsTarget ==
    [][\A o \in Object :
          ProcessTermReq(o) /\ Head(mail[o]).obj \in owned[o] \ owned'[o]
             => Head(mail[o]).gen = gen[Head(mail[o]).obj]]_vars

\* Termination is counted exactly: one term command per object and one ack owed
\* for it (process_term_req, unregister_term_ack).
TerminationIsExact == TermOnce /\ AcksAreExact
=============================================================================
