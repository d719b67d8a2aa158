--------------------------- MODULE PipeTermProofs ---------------------------
(***************************************************************************)
(* Proofs about the termination of a pipe for any length of the queues and  *)
(* any number of hiccups and late activations.                              *)
(***************************************************************************)
EXTENDS PipeTerm, SequenceTheorems, TLAPS

\* Safety needs no fairness.
SafetySpec == Init /\ [][Next]_vars

-----------------------------------------------------------------------------
(* The inductive invariant.                                                 *)

\* What an end has sent and received of the handshake.
SentTerm(e) == state[e] \in {"term_req_sent1", "term_req_sent2"}
GotTerm(e) == state[e] \in {"waiting_for_delimiter", "term_ack_sent", "term_req_sent2"}
AckTaken(e) == pc[e] \in {"detach", "back", "reply", "unlink", "finish", "release"} \/ e \in terminal
SentAck(e) ==
    \/ state[e] \in {"term_ack_sent", "term_req_sent2"}
    \/ e \in owes /\ (pc[e] \in {"unlink", "finish", "release"} \/ e \in terminal)

\* A command follows another one to the same end only in this order: hiccups,
\* each to a later queue, then pipe_term, then pipe_term_ack.
Follows(a, b) ==
    /\ b.type = "hiccup" => /\ a.type \notin {"pipe_term", "pipe_term_ack"}
                            /\ a.type = "hiccup" => a.queue < b.queue
    /\ b.type = "pipe_term" => a.type \notin {"pipe_term", "pipe_term_ack"}
    /\ b.type = "pipe_term_ack" => a.type # "pipe_term_ack"

\* A command finds its end before what it announces, and its sender after.
Expected(e, c) ==
    /\ c.type = "hiccup" => /\ ~GotTerm(e) /\ ~AckTaken(e)
                            /\ out[e] < c.queue /\ c.queue <= in[Peer(e)]
    /\ c.type = "pipe_term" => SentTerm(Peer(e)) /\ ~GotTerm(e) /\ ~AckTaken(e)
    /\ c.type = "pipe_term_ack" => SentAck(Peer(e)) /\ ~AckTaken(e)

\* What is in a sequence, and that its commands follow one another.
Content(s) == {s[i] : i \in 1 .. Len(s)}
Ordered(s) == \A i, j \in 1 .. Len(s) : i < j => Follows(s[i], s[j])

Mail ==
    \A e \in End :
        /\ \A c \in Content(mail[e]) : Expected(e, c)
        /\ Ordered(mail[e])

\* The two ends agree on the handshake.
Agreed ==
    \A e \in End :
        /\ GotTerm(e) => SentTerm(Peer(e))
        /\ AckTaken(e) => SentAck(Peer(e))
        /\ e \in owes => state[e] = "term_req_sent1" /\ AckTaken(e)
        /\ out[e] = NoQueue <=> (state[e] \in {"term_ack_sent", "term_req_sent2"} \/ e \in owes)
        /\ pc[e] \in {"detach", "back", "reply", "unlink", "finish"} => e \notin terminal
        /\ pc[e] = "release" => e \in terminal

\* An end that owes an acknowledgement still holds its peer.
Links ==
    \A e \in End :
        /\ ~link[e] => AckTaken(e) \/ AckTaken(Peer(e))
        /\ e \in held => ~link[e]
        /\ e \in owes /\ pc[e] = "detach" => link[e]
        /\ e \in owes /\ pc[e] \in {"back", "reply"} => e \in held
        /\ e \in freed => refs[e] = 0

\* The queues of end e that exist: from the one its peer writes to, to the one it
\* reads; when the peer has given its queue up, the one that is read.
Exists(e, n) ==
    IF out[Peer(e)] # NoQueue
      THEN out[Peer(e)] <= n /\ n <= in[e]
      ELSE n = in[e] /\ (e \notin terminal \/ reader[e] = "reading")

\* A hiccup for every queue that the peer of e does not know of yet.
Announced(e) ==
    out[Peer(e)] # NoQueue =>
       /\ out[Peer(e)] <= in[e]
       /\ \A n \in 0 .. MaxHiccups : out[Peer(e)] < n /\ n <= in[e]
             => [type |-> "hiccup", queue |-> n] \in Content(mail[Peer(e)])

Queues ==
    \A e \in End :
        /\ \A n \in 0 .. MaxHiccups : <<e, n>> \in live <=> Exists(e, n)
        /\ Announced(e)

\* Nothing comes behind the delimiter of an end that still has to be read.
Drained ==
    \A e \in End : state[e] \in {"active", "waiting_for_delimiter"} =>
        /\ \A n \in 0 .. MaxHiccups : \A i \in 1 .. Len(items[<<e, n>>]) :
              items[<<e, n>>][i] = "delimiter"
                 => i = Len(items[<<e, n>>]) /\ state[Peer(e)] = "term_req_sent1"
        /\ pc[e] = "delimiter" => items[InQ(e)] = <<>> /\ state[Peer(e)] = "term_req_sent1"

IInv == RefsAreExact /\ Mail /\ Agreed /\ Links /\ Queues /\ Drained
-----------------------------------------------------------------------------
(* The two ends, and the commands in a mailbox.                             *)

LEMMA Peers ==
  \A e \in End : /\ Peer(e) \in End /\ Peer(e) # e /\ Peer(Peer(e)) = e
                 /\ End = {e, Peer(e)}
  BY EndsAssumption DEF Peer

LEMMA ContentAppend ==
  ASSUME NEW S, NEW s \in Seq(S), NEW c \in S
  PROVE  Content(Append(s, c)) = Content(s) \cup {c}
  <1>1. /\ Len(Append(s, c)) = Len(s) + 1 /\ Append(s, c)[Len(s) + 1] = c
        /\ \A i \in 1 .. Len(s) : Append(s, c)[i] = s[i]
    BY AppendProperties
  <1>2. Len(s) \in Nat
    BY LenProperties
  <1> QED BY <1>1, <1>2 DEF Content

LEMMA ContentTail ==
  ASSUME NEW S, NEW s \in Seq(S), s # <<>>
  PROVE  Content(s) = {Head(s)} \cup Content(Tail(s))
  <1>1. /\ Head(s) = s[1] /\ Len(Tail(s)) = Len(s) - 1 /\ Len(s) \in Nat /\ Len(s) > 0
        /\ \A i \in 1 .. Len(Tail(s)) : Tail(s)[i] = s[i + 1]
    BY HeadTailProperties, LenProperties, EmptySeq
  <1>2. ASSUME NEW c \in Content(s) PROVE c \in {Head(s)} \cup Content(Tail(s))
    <2>1. PICK i \in 1 .. Len(s) : c = s[i]
      BY <1>2 DEF Content
    <2>2. CASE i # 1
      <3>1. i - 1 \in 1 .. Len(Tail(s)) /\ Tail(s)[i - 1] = c
        BY <1>1, <2>1, <2>2
      <3> QED BY <3>1 DEF Content
    <2> QED BY <1>1, <2>1, <2>2
  <1>3. ASSUME NEW c \in Content(Tail(s)) PROVE c \in Content(s)
    <2>1. PICK i \in 1 .. Len(Tail(s)) : c = Tail(s)[i]
      BY <1>3 DEF Content
    <2>2. i + 1 \in 1 .. Len(s) /\ s[i + 1] = c
      BY <1>1, <2>1
    <2> QED BY <2>2 DEF Content
  <1>4. Head(s) \in Content(s)
    BY <1>1 DEF Content
  <1> QED BY <1>2, <1>3, <1>4

LEMMA TailFacts ==
  ASSUME NEW S, NEW s \in Seq(S), s # <<>>
  PROVE  /\ Tail(s) \in Seq(S) /\ Head(s) = s[1]
         /\ Len(Tail(s)) = Len(s) - 1 /\ Len(s) \in Nat /\ Len(s) > 0
         /\ \A i \in 1 .. Len(Tail(s)) : Tail(s)[i] = s[i + 1]
         /\ Len(Tail(s)) = 0 => Tail(s) = <<>>
  <1>1. Tail(s) \in Seq(S) /\ Len(Tail(s)) = Len(s) - 1
        /\ \A i \in 1 .. Len(Tail(s)) : Tail(s)[i] = s[i + 1]
    BY HeadTailProperties
  <1>2. Len(s) \in Nat /\ Len(s) > 0
    BY LenProperties, EmptySeq
  <1>3. Len(Tail(s)) = 0 => Tail(s) = <<>>
    BY <1>1, EmptySeq
  <1>4. Head(s) = s[1]
    OBVIOUS
  <1> QED BY <1>1, <1>2, <1>3, <1>4

LEMMA OrderedAppend ==
  ASSUME NEW S, NEW s \in Seq(S), NEW c \in S, Ordered(s),
         \A d \in Content(s) : Follows(d, c)
  PROVE  Ordered(Append(s, c))
  <1>1. /\ Len(Append(s, c)) = Len(s) + 1 /\ Append(s, c)[Len(s) + 1] = c
        /\ \A i \in 1 .. Len(s) : Append(s, c)[i] = s[i]
    BY AppendProperties
  <1>2. Len(s) \in Nat
    BY LenProperties
  <1>3. \A i \in 1 .. Len(s) : Follows(s[i], c)
    BY DEF Content
  <1>4. \A i, j \in 1 .. Len(s) : i < j => Follows(s[i], s[j])
    BY DEF Ordered
  <1>5. ASSUME NEW i \in 1 .. Len(s) + 1, NEW j \in 1 .. Len(s) + 1, i < j
        PROVE  Follows(Append(s, c)[i], Append(s, c)[j])
    <2>1. i \in 1 .. Len(s) /\ Append(s, c)[i] = s[i]
      BY <1>1, <1>2, <1>5
    <2>2. CASE j = Len(s) + 1
      BY <1>1, <1>3, <2>1, <2>2
    <2>3. CASE j # Len(s) + 1
      <3>1. j \in 1 .. Len(s) /\ Append(s, c)[j] = s[j]
        BY <1>1, <1>2, <2>3
      <3> QED BY <1>4, <1>5, <2>1, <3>1
    <2> QED BY <2>2, <2>3
  <1> QED BY <1>1, <1>5 DEF Ordered

LEMMA OrderedTail ==
  ASSUME NEW S, NEW s \in Seq(S), s # <<>>, Ordered(s)
  PROVE  /\ Ordered(Tail(s))
         /\ \A d \in Content(Tail(s)) : Follows(Head(s), d)
  <1>1. /\ Head(s) = s[1] /\ Len(Tail(s)) = Len(s) - 1 /\ Len(s) \in Nat /\ Len(s) > 0
        /\ \A i \in 1 .. Len(Tail(s)) : Tail(s)[i] = s[i + 1]
    BY HeadTailProperties, LenProperties, EmptySeq
  <1>2. \A i, j \in 1 .. Len(s) : i < j => Follows(s[i], s[j])
    BY DEF Ordered
  <1>3. ASSUME NEW i \in 1 .. Len(Tail(s)), NEW j \in 1 .. Len(Tail(s)), i < j
        PROVE  Follows(Tail(s)[i], Tail(s)[j])
    <2>1. i + 1 \in 1 .. Len(s) /\ j + 1 \in 1 .. Len(s) /\ i + 1 < j + 1
      BY <1>1, <1>3
    <2>2. Follows(s[i + 1], s[j + 1])
      BY <1>2, <2>1
    <2> QED BY <1>1, <2>2
  <1>4. ASSUME NEW d \in Content(Tail(s)) PROVE Follows(Head(s), d)
    <2>1. PICK i \in 1 .. Len(Tail(s)) : d = Tail(s)[i]
      BY <1>4 DEF Content
    <2>2. 1 \in 1 .. Len(s) /\ i + 1 \in 1 .. Len(s) /\ 1 < i + 1 /\ d = s[i + 1]
      BY <1>1, <2>1
    <2> QED BY <1>1, <1>2, <2>2
  <1> QED BY <1>3, <1>4 DEF Ordered

LEMMA Commands ==
  /\ Cmd("pipe_term") \in Command /\ Cmd("pipe_term_ack") \in Command
  /\ Cmd("activate") \in Command
  /\ Cmd("pipe_term").type = "pipe_term" /\ Cmd("pipe_term_ack").type = "pipe_term_ack"
  /\ Cmd("activate").type = "activate"
  /\ \A n \in 0 .. MaxHiccups : /\ [type |-> "hiccup", queue |-> n] \in Command
                                /\ [type |-> "hiccup", queue |-> n].type = "hiccup"
                                /\ [type |-> "hiccup", queue |-> n].queue = n
  /\ \A c \in Command : c.type = "hiccup" =>
        c.queue \in 0 .. MaxHiccups /\ c = [type |-> "hiccup", queue |-> c.queue]
  BY DEF Command, Cmd

-----------------------------------------------------------------------------
(* The parts of the type invariant and of the count of references.          *)

Flags == delay \in [End -> BOOLEAN] /\ link \in [End -> BOOLEAN]

Shapes ==
    /\ state \in [End -> States]
    /\ in \in [End -> 0 .. MaxHiccups] /\ out \in [End -> 0 .. MaxHiccups \cup {NoQueue}]
    /\ live \subseteq Queue
    /\ terminal \subseteq End /\ freed \subseteq terminal
    /\ reader \in [End -> {"none", "reading", "leaving"}]
    /\ pc \in [End -> {"idle", "delimiter", "detach", "back", "reply", "unlink", "finish",
                       "release"}]
    /\ held \subseteq End /\ owes \subseteq End

Boxes == items \in [Queue -> Seq({"msg", "delimiter"})] /\ mail \in [End -> Seq(Command)]

Running(e) == IF pc[e] \in {"idle", "delimiter"} THEN 0 ELSE 1
Linked(e) == IF link[Peer(e)] \/ Peer(e) \in held THEN 1 ELSE 0
Reading(e) == IF reader[e] = "none" THEN 0 ELSE 1

References ==
    /\ refs \in [End -> Nat]
    /\ \A e \in End : refs[e] = Len(mail[e]) + Running(e) + Linked(e) + Reading(e)

LEMMA Parts == RefsAreExact <=> Flags /\ Shapes /\ Boxes /\ References
  BY DEF RefsAreExact, TypeOK, Flags, Shapes, Boxes, References, Running, Linked, Reading

LEMMA FromParts ==
  ASSUME Flags', Shapes', Boxes', References', Mail', Agreed', Links', Queues', Drained'
  PROVE  IInv'
  BY DEF IInv, RefsAreExact, TypeOK, Flags, Shapes, Boxes, References, Running, Linked, Reading

\* The count of references after a step, from the commands, the handler, the
\* link and the reader of each end.
LEMMA Recount ==
  ASSUME NEW r, r = refs', mail' \in [End -> Seq(Command)],
         r = [x \in End |-> r[x]],
         \A x \in End : r[x] = Len(mail'[x]) + Running(x)' + Linked(x)' + Reading(x)'
  PROVE  References'
  <1>1. \A x \in End : Len(mail'[x]) \in Nat
    BY LenProperties
  <1>2. \A x \in End : Running(x)' \in {0, 1} /\ Linked(x)' \in {0, 1} /\ Reading(x)' \in {0, 1}
    BY DEF Running, Linked, Reading
  <1>3. \A x \in End : r[x] \in Nat
    BY <1>1, <1>2
  <1>4. r \in [End -> Nat]
    BY <1>3
  <1> QED BY <1>4 DEF References
LEMMA Sizes ==
  ASSUME Boxes
  PROVE  \A x \in End : /\ Len(mail[x]) \in Nat /\ Running(x) \in {0, 1}
                        /\ Linked(x) \in {0, 1} /\ Reading(x) \in {0, 1}
  BY LenProperties DEF Boxes, Running, Linked, Reading
-----------------------------------------------------------------------------
(* What happens to the mail.                                                *)

LEMMA Posted ==
  ASSUME mail \in [End -> Seq(Command)], Mail, NEW p \in End, NEW c \in Command,
         mail' = [mail EXCEPT ![p] = Append(@, c)],
         \A d \in Content(mail[p]) : Follows(d, c)
  PROVE  /\ mail' \in [End -> Seq(Command)]
         /\ \A x \in End : x # p => mail'[x] = mail[x]
         /\ Len(mail'[p]) = Len(mail[p]) + 1
         /\ Content(mail'[p]) = Content(mail[p]) \cup {c}
         /\ \A x \in End : Ordered(mail'[x])
  <1>1. mail[p] \in Seq(Command)
    OBVIOUS
  <1>2. /\ Append(mail[p], c) \in Seq(Command)
        /\ Len(Append(mail[p], c)) = Len(mail[p]) + 1
    BY <1>1, AppendProperties
  <1>3. Ordered(mail[p])
    BY DEF Mail
  <1>4. Ordered(Append(mail[p], c)) /\ Content(Append(mail[p], c)) = Content(mail[p]) \cup {c}
    BY <1>1, <1>3, OrderedAppend, ContentAppend
  <1>5. mail'[p] = Append(mail[p], c) /\ \A x \in End : x # p => mail'[x] = mail[x]
    OBVIOUS
  <1>6. \A x \in End : x # p => Ordered(mail[x])
    BY DEF Mail
  <1>7. \A x \in End : Ordered(mail'[x])
    BY <1>4, <1>5, <1>6
  <1>8. mail' \in [End -> Seq(Command)]
    BY <1>2
  <1> QED BY <1>2, <1>4, <1>5, <1>7, <1>8

LEMMA Head1 ==
  ASSUME mail \in [End -> Seq(Command)], Mail, NEW e \in End, mail[e] # <<>>
  PROVE  /\ Head(mail[e]) \in Command /\ Expected(e, Head(mail[e]))
         /\ Tail(mail[e]) \in Seq(Command) /\ Len(Tail(mail[e])) = Len(mail[e]) - 1
         /\ Len(mail[e]) \in Nat
         /\ Content(mail[e]) = {Head(mail[e])} \cup Content(Tail(mail[e]))
         /\ \A c \in Content(Tail(mail[e])) : Expected(e, c) /\ Follows(Head(mail[e]), c)
         /\ Ordered(Tail(mail[e]))
  <1>1. mail[e] \in Seq(Command)
    OBVIOUS
  <1>2. Head(mail[e]) \in Command /\ Tail(mail[e]) \in Seq(Command)
        /\ Len(Tail(mail[e])) = Len(mail[e]) - 1 /\ Len(mail[e]) \in Nat
    BY <1>1, HeadTailProperties, LenProperties
  <1>3. Content(mail[e]) = {Head(mail[e])} \cup Content(Tail(mail[e]))
    BY <1>1, ContentTail
  <1>4. Ordered(mail[e]) /\ \A c \in Content(mail[e]) : Expected(e, c)
    BY DEF Mail
  <1>5. Ordered(Tail(mail[e])) /\ \A c \in Content(Tail(mail[e])) : Follows(Head(mail[e]), c)
    BY <1>1, <1>4, OrderedTail
  <1> QED BY <1>2, <1>3, <1>4, <1>5

LEMMA Took ==
  ASSUME mail \in [End -> Seq(Command)], Mail, NEW e \in End, mail[e] # <<>>,
         mail' = [mail EXCEPT ![e] = Tail(@)]
  PROVE  /\ mail' \in [End -> Seq(Command)]
         /\ \A x \in End : x # e => mail'[x] = mail[x]
         /\ mail'[e] = Tail(mail[e])
         /\ \A x \in End : Ordered(mail'[x])
  <1>1. Tail(mail[e]) \in Seq(Command) /\ Ordered(Tail(mail[e]))
    BY Head1
  <1>2. mail'[e] = Tail(mail[e]) /\ \A x \in End : x # e => mail'[x] = mail[x]
    OBVIOUS
  <1>3. \A x \in End : x # e => Ordered(mail[x])
    BY DEF Mail
  <1>4. \A x \in End : Ordered(mail'[x])
    BY <1>1, <1>2, <1>3
  <1>5. mail' \in [End -> Seq(Command)]
    BY <1>1
  <1> QED BY <1>2, <1>4, <1>5

LEMMA Answered ==
  ASSUME mail \in [End -> Seq(Command)], Mail, NEW e \in End, mail[e] # <<>>,
         NEW p \in End, p # e, NEW c \in Command,
         mail' = [[mail EXCEPT ![p] = Append(@, c)] EXCEPT ![e] = Tail(@)],
         \A d \in Content(mail[p]) : Follows(d, c), End = {e, p}
  PROVE  /\ mail' \in [End -> Seq(Command)]
         /\ mail'[e] = Tail(mail[e])
         /\ Len(mail'[p]) = Len(mail[p]) + 1
         /\ Content(mail'[p]) = Content(mail[p]) \cup {c}
         /\ \A x \in End : Ordered(mail'[x])
  <1>1. Tail(mail[e]) \in Seq(Command) /\ Ordered(Tail(mail[e]))
    BY Head1
  <1>2. mail[p] \in Seq(Command)
    OBVIOUS
  <1>3. /\ Append(mail[p], c) \in Seq(Command)
        /\ Len(Append(mail[p], c)) = Len(mail[p]) + 1
    BY <1>2, AppendProperties
  <1>4. Ordered(mail[p])
    BY DEF Mail
  <1>5. Ordered(Append(mail[p], c)) /\ Content(Append(mail[p], c)) = Content(mail[p]) \cup {c}
    BY <1>2, <1>4, OrderedAppend, ContentAppend
  <1>6. mail'[e] = Tail(mail[e]) /\ mail'[p] = Append(mail[p], c)
    OBVIOUS
  <1>7. \A x \in End : Ordered(mail'[x])
    BY <1>1, <1>5, <1>6
  <1>8. mail' \in [End -> Seq(Command)]
    BY <1>1, <1>3
  <1> QED BY <1>3, <1>5, <1>6, <1>7, <1>8

\* The mail is as expected after a step when it is for each of the two ends.
LEMMA MailFrom ==
  ASSUME NEW e \in End, \A x \in End : Ordered(mail'[x]),
         \A c \in Content(mail'[e]) : Expected(e, c)',
         \A c \in Content(mail'[Peer(e)]) : Expected(Peer(e), c)'
  PROVE  Mail'
  <1>1. \A x \in End : x = e \/ x = Peer(e)
    BY Peers
  <1> QED BY <1>1 DEF Mail
-----------------------------------------------------------------------------
(* What the state of an end tells of its peer.                              *)

LEMMA NotAcknowledged ==
  ASSUME IInv, NEW e \in End, ~SentAck(e)
  PROVE  /\ Peer(e) \notin terminal /\ ~AckTaken(Peer(e))
         /\ \A c \in Content(mail[Peer(e)]) : c.type # "pipe_term_ack"
  <1>1. Peer(e) \in End /\ Peer(Peer(e)) = e
    BY Peers
  <1>2. ~AckTaken(Peer(e))
    BY <1>1 DEF IInv, Agreed
  <1>3. \A c \in Content(mail[Peer(e)]) : Expected(Peer(e), c)
    BY <1>1 DEF IInv, Mail
  <1> QED BY <1>1, <1>2, <1>3 DEF AckTaken, Expected

LEMMA NotTerminating ==
  ASSUME IInv, NEW e \in End, ~SentTerm(e)
  PROVE  /\ ~GotTerm(Peer(e))
         /\ \A c \in Content(mail[Peer(e)]) : c.type # "pipe_term"
  <1>1. Peer(e) \in End /\ Peer(Peer(e)) = e
    BY Peers
  <1>2. ~GotTerm(Peer(e))
    BY <1>1 DEF IInv, Agreed
  <1>3. \A c \in Content(mail[Peer(e)]) : Expected(Peer(e), c)
    BY <1>1 DEF IInv, Mail
  <1> QED BY <1>1, <1>2, <1>3 DEF Expected

\* Before its own ack is taken, an end has acknowledged only what it was told.
LEMMA NotYet ==
  ASSUME IInv, NEW e \in End
  PROVE  /\ state[e] \in {"active", "delimiter_received", "waiting_for_delimiter"} => ~SentAck(e)
         /\ state[e] = "term_req_sent1" /\ ~AckTaken(e) => ~SentAck(e) /\ e \notin owes
         /\ ~AckTaken(e) => e \notin terminal /\ e \notin freed /\ e \notin owes
  <1>1. e \in owes => state[e] = "term_req_sent1" /\ AckTaken(e)
    BY DEF IInv, Agreed
  <1>2. e \notin terminal => e \notin freed
    BY Parts DEF IInv, Shapes
  <1> QED BY <1>1, <1>2 DEF SentAck, AckTaken

\* With no hiccup on its way, an end writes to the queue that its peer reads.
LEMMA InStep ==
  ASSUME IInv, NEW e \in End, out[e] # NoQueue,
         \A c \in Content(mail[e]) : c.type # "hiccup"
  PROVE  out[e] = in[Peer(e)] /\ out[e] \in 0 .. MaxHiccups
  <1>1. Peer(e) \in End /\ Peer(Peer(e)) = e
    BY Peers
  <1>2. Announced(Peer(e))
    BY <1>1 DEF IInv, Queues
  <1>3. out[e] \in 0 .. MaxHiccups /\ in[Peer(e)] \in 0 .. MaxHiccups
    BY <1>1, Parts DEF IInv, Shapes
  <1>4. out[e] <= in[Peer(e)]
    BY <1>1, <1>2 DEF Announced
  <1>5. ASSUME out[e] < in[Peer(e)] PROVE FALSE
    <2>1. PICK n \in 0 .. MaxHiccups : n = in[Peer(e)]
      BY <1>3
    <2>2. [type |-> "hiccup", queue |-> n] \in Content(mail[e])
      BY <1>1, <1>2, <1>3, <1>5, <2>1 DEF Announced
    <2> QED BY <2>2, Commands
  <1>6. MaxHiccups \in Nat
    BY EndsAssumption
  <1> QED BY <1>3, <1>4, <1>5, <1>6
-----------------------------------------------------------------------------
(* What a step leaves alone.                                                *)

LEMMA FlagsStep == ASSUME Flags, Next PROVE Flags'
  <1> USE DEF Flags, lifeVars, queueVars, ackVars, fixedVars
  <1>1. PICK e \in End :
           \/ Write(e) \/ Read(e) \/ SetNodelay(e) \/ Hiccup(e) \/ Activate(e)
           \/ \E d \in BOOLEAN : Terminate(e, d)
           \/ Handle(e)
           \/ ReaderEnter(e) \/ ReaderLeave(e) \/ ReaderGone(e)
    BY DEF Next
  <1>2. CASE Write(e) \/ Read(e) \/ Hiccup(e) \/ Activate(e)
    BY <1>2, Zenon DEF Write, Read, Hiccup, Activate
  <1>3. CASE SetNodelay(e)
    BY <1>3, Zenon DEF SetNodelay
  <1>4. CASE \E d \in BOOLEAN : Terminate(e, d)
    BY <1>4, Zenon DEF Terminate
  <1>5. CASE ReaderEnter(e) \/ ReaderLeave(e) \/ ReaderGone(e)
    BY <1>5, Zenon DEF ReaderEnter, ReaderLeave, ReaderGone
  <1>6. CASE ProcessDelimiter(e) \/ ProcessHiccup(e) \/ ProcessPipeTerm(e)
             \/ ProcessActivate(e) \/ AckBegin(e)
    BY <1>6, Zenon DEF ProcessDelimiter, ProcessHiccup, ProcessPipeTerm, ProcessActivate, AckBegin
  <1>7. CASE DetachOwn(e)
    BY <1>7, Zenon DEF DetachOwn
  <1>8. CASE DetachBack(e)
    BY <1>8, Zenon DEF DetachBack
  <1>9. CASE AckReply(e) \/ Unlink(e) \/ Finish(e) \/ ReleaseCommand(e)
    BY <1>9, Zenon DEF AckReply, Unlink, Finish, ReleaseCommand
  <1> QED BY <1>1, <1>2, <1>3, <1>4, <1>5, <1>6, <1>7, <1>8, <1>9 DEF Handle

\* Nothing of the handshake changes: a handler may go on, as long as it has taken
\* and sent the same acknowledgements as before.
LEMMA SameMail ==
  ASSUME Mail, UNCHANGED <<mail, out, in, state>>,
         \A x \in End : (AckTaken(x)' <=> AckTaken(x)) /\ (SentAck(x)' <=> SentAck(x))
  PROVE  Mail'
  <1>1. \A x \in End : (SentTerm(x)' <=> SentTerm(x)) /\ (GotTerm(x)' <=> GotTerm(x))
    BY DEF SentTerm, GotTerm
  <1>2. ASSUME NEW x \in End, NEW c, Expected(x, c) PROVE Expected(x, c)'
    <2>1. Peer(x) \in End
      BY Peers
    <2> QED BY <1>1, <1>2, <2>1 DEF Expected
  <1>3. ASSUME NEW x \in End
        PROVE  (\A c \in Content(mail'[x]) : Expected(x, c)') /\ Ordered(mail'[x])
    BY <1>2 DEF Mail
  <1> QED BY <1>3 DEF Mail

LEMMA SameAgreed ==
  ASSUME Agreed, UNCHANGED <<state, out, owes, terminal>>,
         \A x \in End : pc'[x] = pc[x] \/ {pc[x], pc'[x]} \subseteq {"idle", "delimiter"}
  PROVE  /\ Agreed'
         /\ \A x \in End : (AckTaken(x)' <=> AckTaken(x)) /\ (SentAck(x)' <=> SentAck(x))
  <1>1. \A x \in End : (AckTaken(x)' <=> AckTaken(x)) /\ (SentAck(x)' <=> SentAck(x))
    BY DEF AckTaken, SentAck
  <1>2. \A x \in End : (SentTerm(x)' <=> SentTerm(x)) /\ (GotTerm(x)' <=> GotTerm(x))
    BY DEF SentTerm, GotTerm
  <1>3. \A x \in End : Peer(x) \in End
    BY Peers
  <1> QED BY <1>1, <1>2, <1>3 DEF Agreed

LEMMA SameQueues ==
  ASSUME Queues, UNCHANGED <<live, out, in, terminal>>,
         \A x \in End : \A n \in 0 .. MaxHiccups :
            [type |-> "hiccup", queue |-> n] \in Content(mail[x]) =>
               [type |-> "hiccup", queue |-> n] \in Content(mail'[x]),
         \A x \in End : reader'[x] = "reading" <=> reader[x] = "reading"
  PROVE  Queues'
  <1>1. ASSUME NEW x \in End, NEW n \in 0 .. MaxHiccups
        PROVE  (<<x, n>> \in live)' <=> Exists(x, n)'
    BY DEF Queues, Exists
  <1>2. ASSUME NEW x \in End PROVE Announced(x)'
    <2>1. Announced(x) /\ Peer(x) \in End
      BY Peers DEF Queues
    <2> QED BY <2>1 DEF Announced
  <1> QED BY <1>1, <1>2 DEF Queues

LEMMA SameDrained ==
  ASSUME Drained, UNCHANGED <<state, items, in>>,
         \A x \in End : pc'[x] = "delimiter" => pc[x] = "delimiter"
  PROVE  Drained'
  BY DEF Drained, InQ

-----------------------------------------------------------------------------
(* The owner writes and reads.                                              *)

LEMMA WriteStep == ASSUME IInv, NEW e \in End, Write(e), Flags' PROVE IInv'
  <1> DEFINE p == Peer(e)
  <1>1. p \in End /\ p # e /\ Peer(p) = e /\ End = {e, p}
    BY Peers
  <1>2. /\ Flags /\ Shapes /\ Boxes /\ References
        /\ Mail /\ Agreed /\ Links /\ Queues /\ Drained
    BY Parts DEF IInv
  <1>3. /\ state[e] = "active" /\ UNCHANGED <<state, in, out, live, mail, pc, refs, terminal>>
        /\ UNCHANGED <<reader, freed, link, held, owes>>
        /\ items' = [items EXCEPT ![<<p, out[e]>>] = Append(@, "msg")]
    BY DEF Write, lifeVars, ackVars, OutQ
  <1>4. out[e] \in 0 .. MaxHiccups /\ <<p, out[e]>> \in Queue
    BY <1>1, <1>2, <1>3 DEF Agreed, Shapes, Queue
  <1>5. PICK s \in Seq({"msg", "delimiter"}) : s = items[<<p, out[e]>>]
    BY <1>2, <1>4 DEF Boxes
  <1>6. /\ Append(s, "msg") \in Seq({"msg", "delimiter"})
        /\ Len(Append(s, "msg")) = Len(s) + 1 /\ Append(s, "msg")[Len(s) + 1] = "msg"
        /\ \A i \in 1 .. Len(s) : Append(s, "msg")[i] = s[i]
        /\ Len(s) \in Nat
    BY AppendProperties, LenProperties
  <1>7. Shapes' /\ Boxes'
    <2>1. Boxes'
      BY <1>2, <1>3, <1>4, <1>5, <1>6 DEF Boxes
    <2> QED BY <1>2, <1>3, <2>1 DEF Shapes
  <1>8. References'
    BY <1>2, <1>3 DEF References, Running, Linked, Reading
  <1>9. Agreed' /\ Mail' /\ Links' /\ Queues'
    <2>1. /\ Agreed'
          /\ \A x \in End : (AckTaken(x)' <=> AckTaken(x)) /\ (SentAck(x)' <=> SentAck(x))
      BY <1>2, <1>3, SameAgreed
    <2>2. Mail'
      BY <1>2, <1>3, <2>1, SameMail
    <2>3. Links'
      BY <1>1, <1>2, <1>3, <2>1 DEF Links
    <2>4. Queues'
      BY <1>2, <1>3, SameQueues
    <2> QED BY <2>1, <2>2, <2>3, <2>4
  <1>10. Drained'
    <2>1. ASSUME NEW x \in End, state[x] \in {"active", "waiting_for_delimiter"},
                 NEW n \in 0 .. MaxHiccups, NEW i \in 1 .. Len(items'[<<x, n>>]),
                 items'[<<x, n>>][i] = "delimiter"
          PROVE  i = Len(items'[<<x, n>>]) /\ state[Peer(x)] = "term_req_sent1"
      <3>1. <<x, n>> \in Queue
        BY DEF Queue
      <3>2. CASE <<x, n>> # <<p, out[e]>>
        <4>1. items'[<<x, n>>] = items[<<x, n>>]
          BY <1>2, <1>3, <3>1, <3>2 DEF Boxes
        <4> QED BY <1>2, <2>1, <4>1 DEF Drained
      <3>3. CASE <<x, n>> = <<p, out[e]>>
        <4>1. items'[<<x, n>>] = Append(s, "msg") /\ x = p
          BY <1>2, <1>3, <1>4, <1>5, <3>3 DEF Boxes
        <4>2. i \in 1 .. Len(s) /\ s[i] = "delimiter"
          BY <1>6, <2>1, <4>1
        <4>3. state[e] = "term_req_sent1"
          BY <1>1, <1>2, <1>5, <2>1, <3>3, <4>1, <4>2 DEF Drained
        <4> QED BY <1>3, <4>3
      <3> QED BY <3>2, <3>3
    <2>2. ASSUME NEW x \in End, state[x] \in {"active", "waiting_for_delimiter"},
                 pc[x] = "delimiter"
          PROVE  items'[<<x, in[x]>>] = <<>> /\ state[Peer(x)] = "term_req_sent1"
      <3>1. items[<<x, in[x]>>] = <<>> /\ state[Peer(x)] = "term_req_sent1"
        BY <1>2, <2>2 DEF Drained, InQ
      <3>2. x # p
        BY <1>1, <1>3, <3>1
      <3>3. <<x, in[x]>> \in Queue
        BY <1>2 DEF Shapes, Queue
      <3> QED BY <1>2, <1>3, <3>1, <3>2, <3>3 DEF Boxes
    <2> QED BY <1>3, <2>1, <2>2 DEF Drained, InQ
  <1> QED BY <1>7, <1>8, <1>9, <1>10, FromParts

LEMMA ReadStep == ASSUME IInv, NEW e \in End, Read(e), Flags' PROVE IInv'
  <1>1. /\ Flags /\ Shapes /\ Boxes /\ References
        /\ Mail /\ Agreed /\ Links /\ Queues /\ Drained
    BY Parts DEF IInv
  <1>2. /\ pc[e] = "idle" /\ state[e] \in {"active", "waiting_for_delimiter"}
        /\ UNCHANGED <<state, in, out, live, mail, refs, terminal>>
        /\ UNCHANGED <<reader, freed, link, held, owes>>
        /\ items[<<e, in[e]>>] # <<>>
        /\ items' = [items EXCEPT ![<<e, in[e]>>] = Tail(@)]
        /\ pc' = [pc EXCEPT ![e] = IF Head(items[<<e, in[e]>>]) = "delimiter"
                                     THEN "delimiter" ELSE @]
    BY DEF Read, Alive, lifeVars, ackVars, InQ
  <1>3. in[e] \in 0 .. MaxHiccups /\ <<e, in[e]>> \in Queue
    BY <1>1 DEF Shapes, Queue
  <1>4. PICK s \in Seq({"msg", "delimiter"}) : s = items[<<e, in[e]>>]
    BY <1>1, <1>3 DEF Boxes
  <1>5. /\ Tail(s) \in Seq({"msg", "delimiter"}) /\ Head(s) = s[1]
        /\ Len(Tail(s)) = Len(s) - 1 /\ Len(s) \in Nat /\ Len(s) > 0
        /\ \A i \in 1 .. Len(Tail(s)) : Tail(s)[i] = s[i + 1]
        /\ Len(Tail(s)) = 0 => Tail(s) = <<>>
    BY <1>2, <1>4, TailFacts
  <1>6. /\ pc'[e] \in {"idle", "delimiter"} /\ \A x \in End : x # e => pc'[x] = pc[x]
        /\ pc'[e] = "delimiter" => s[1] = "delimiter"
        /\ pc' \in [End -> {"idle", "delimiter", "detach", "back", "reply", "unlink", "finish",
                            "release"}]
    BY <1>1, <1>2, <1>4, <1>5 DEF Shapes
  <1>7. Shapes' /\ Boxes'
    <2>1. Boxes'
      BY <1>1, <1>2, <1>3, <1>4, <1>5 DEF Boxes
    <2>2. Shapes'
      BY <1>1, <1>2, <1>6 DEF Shapes
    <2> QED BY <2>1, <2>2
  <1>8. References'
    BY <1>1, <1>2, <1>6 DEF References, Running, Linked, Reading
  <1>9. Agreed' /\ Mail' /\ Links' /\ Queues'
    <2>1. /\ Agreed'
          /\ \A x \in End : (AckTaken(x)' <=> AckTaken(x)) /\ (SentAck(x)' <=> SentAck(x))
      BY <1>1, <1>2, <1>6, SameAgreed
    <2>2. Mail'
      BY <1>1, <1>2, <2>1, SameMail
    <2>3. Links'
      BY <1>1, <1>2, <1>6, <2>1, Peers DEF Links
    <2>4. Queues'
      BY <1>1, <1>2, SameQueues
    <2> QED BY <2>1, <2>2, <2>3, <2>4
  <1>10. Drained'
    <2>1. ASSUME NEW x \in End, state[x] \in {"active", "waiting_for_delimiter"},
                 NEW n \in 0 .. MaxHiccups, NEW i \in 1 .. Len(items'[<<x, n>>]),
                 items'[<<x, n>>][i] = "delimiter"
          PROVE  i = Len(items'[<<x, n>>]) /\ state[Peer(x)] = "term_req_sent1"
      <3>1. <<x, n>> \in Queue
        BY DEF Queue
      <3>2. CASE <<x, n>> # <<e, in[e]>>
        <4>1. items'[<<x, n>>] = items[<<x, n>>]
          BY <1>1, <1>2, <3>1, <3>2 DEF Boxes
        <4> QED BY <1>1, <2>1, <4>1 DEF Drained
      <3>3. CASE <<x, n>> = <<e, in[e]>>
        <4>1. items'[<<x, n>>] = Tail(s) /\ items[<<x, n>>] = s
          BY <1>1, <1>2, <1>3, <1>4, <3>3 DEF Boxes
        <4>2. i + 1 \in 1 .. Len(s) /\ s[i + 1] = "delimiter"
          BY <1>5, <2>1, <4>1
        <4>3. i + 1 = Len(s) /\ state[Peer(x)] = "term_req_sent1"
          BY <1>1, <2>1, <4>1, <4>2 DEF Drained
        <4> QED BY <1>5, <4>1, <4>3
      <3> QED BY <3>2, <3>3
    <2>2. ASSUME NEW x \in End, state[x] \in {"active", "waiting_for_delimiter"},
                 pc'[x] = "delimiter"
          PROVE  items'[<<x, in[x]>>] = <<>> /\ state[Peer(x)] = "term_req_sent1"
      <3>1. CASE x # e
        <4>1. items[<<x, in[x]>>] = <<>> /\ state[Peer(x)] = "term_req_sent1"
          BY <1>1, <1>6, <2>2, <3>1 DEF Drained, InQ
        <4>2. <<x, in[x]>> \in Queue
          BY <1>1 DEF Shapes, Queue
        <4> QED BY <1>1, <1>2, <3>1, <4>1, <4>2 DEF Boxes
      <3>2. CASE x = e
        <4>1. s[1] = "delimiter" /\ 1 \in 1 .. Len(s)
          BY <1>5, <1>6, <2>2, <3>2
        <4>2. 1 = Len(s) /\ state[Peer(e)] = "term_req_sent1"
          BY <1>1, <1>2, <1>3, <1>4, <4>1 DEF Drained
        <4>3. items'[<<e, in[e]>>] = Tail(s)
          BY <1>1, <1>2, <1>3, <1>4 DEF Boxes
        <4> QED BY <1>5, <3>2, <4>2, <4>3
      <3> QED BY <3>1, <3>2
    <2> QED BY <1>2, <2>1, <2>2 DEF Drained, InQ
  <1> QED BY <1>7, <1>8, <1>9, <1>10, FromParts
-----------------------------------------------------------------------------
(* The acknowledgement that was put off until everything is read.           *)

\* An end that waits for the delimiter acknowledges: in process_delimiter(), in
\* set_nodelay() or in a second terminate().
LEMMA LateAcknowledgement ==
  ASSUME IInv, NEW e \in End, state[e] = "waiting_for_delimiter",
         Acknowledge(e, "term_ack_sent"), Flags', pc' \in [End -> {pc[x] : x \in End} \cup {"idle"}],
         \A x \in End : pc'[x] = pc[x] \/ (pc[x] = "delimiter" /\ pc'[x] = "idle"),
         UNCHANGED <<items, in, live, terminal, reader, freed, link, held, owes>>
  PROVE  IInv'
  <1> DEFINE p == Peer(e)
  <1>1. p \in End /\ p # e /\ Peer(p) = e /\ End = {e, p}
    BY Peers
  <1>2. /\ Flags /\ Shapes /\ Boxes /\ References
        /\ Mail /\ Agreed /\ Links /\ Queues /\ Drained
    BY Parts DEF IInv
  <1>3. ~SentAck(e) /\ e \notin owes /\ GotTerm(e) /\ SentTerm(p)
    <2>1. ~SentAck(e)
      BY NotYet
    <2> QED BY <1>2, <2>1 DEF Agreed, GotTerm
  <1>4. p \notin terminal /\ ~AckTaken(p) /\ \A c \in Content(mail[p]) : c.type # "pipe_term_ack"
    BY <1>3, NotAcknowledged
  <1>5. /\ state' = [state EXCEPT ![e] = "term_ack_sent"]
        /\ out' = [out EXCEPT ![e] = NoQueue]
        /\ mail' = [mail EXCEPT ![p] = Append(@, Cmd("pipe_term_ack"))]
        /\ refs' = [refs EXCEPT ![p] = @ + 1]
    BY <1>4 DEF Acknowledge, Sent, Retained
  <1>6. /\ mail' \in [End -> Seq(Command)] /\ mail'[e] = mail[e]
        /\ Len(mail'[p]) = Len(mail[p]) + 1
        /\ Content(mail'[p]) = Content(mail[p]) \cup {Cmd("pipe_term_ack")}
        /\ \A x \in End : Ordered(mail'[x])
    <2>1. \A d \in Content(mail[p]) : Follows(d, Cmd("pipe_term_ack"))
      BY <1>4, Commands DEF Follows
    <2> QED BY <1>1, <1>2, <1>5, <2>1, Posted, Commands DEF Boxes
  <1>7. Shapes' /\ Boxes'
    BY <1>2, <1>5, <1>6 DEF Shapes, Boxes, States
  <1>8. References'
    <2>1. \A x \in End : Running(x)' = Running(x)
      BY DEF Running
    <2>2. \A x \in End : Linked(x)' = Linked(x) /\ Reading(x)' = Reading(x)
      BY DEF Linked, Reading
    <2>3. \A x \in End : /\ Len(mail[x]) \in Nat /\ Running(x) \in {0, 1}
                         /\ Linked(x) \in {0, 1} /\ Reading(x) \in {0, 1}
      BY <1>2, Sizes
    <2>4. \A x \in End : refs'[x] = Len(mail'[x]) + Running(x)' + Linked(x)' + Reading(x)'
      BY <1>1, <1>2, <1>5, <1>6, <2>1, <2>2, <2>3 DEF References
    <2> QED BY <1>2, <1>5, <1>6, <2>4, Recount DEF References
  <1>9. /\ SentTerm(e)' <=> SentTerm(e)
        /\ GotTerm(e)' /\ SentAck(e)' /\ SentTerm(p)' /\ (GotTerm(p)' <=> GotTerm(p))
        /\ SentAck(p)' <=> SentAck(p)
        /\ \A x \in End : AckTaken(x)' <=> AckTaken(x)
    BY <1>1, <1>2, <1>3, <1>5 DEF SentTerm, GotTerm, SentAck, AckTaken, Shapes
  <1>10. Mail'
    <2>1. \A c \in Content(mail'[e]) : Expected(e, c)'
      <3>1. \A c \in Content(mail[e]) : Expected(e, c)
        BY <1>2 DEF Mail
      <3> QED BY <1>1, <1>3, <1>6, <1>9, <3>1 DEF Expected
    <2>2. \A c \in Content(mail'[p]) : Expected(p, c)'
      <3>1. \A c \in Content(mail[p]) : Expected(p, c)
        BY <1>1, <1>2 DEF Mail
      <3>2. ASSUME NEW c \in Content(mail[p]) PROVE Expected(p, c)'
        <4>1. out'[p] = out[p] /\ in' = in
          BY <1>1, <1>2, <1>5 DEF Shapes
        <4> QED BY <1>1, <1>9, <3>1, <4>1 DEF Expected
      <3>3. Expected(p, Cmd("pipe_term_ack"))'
        BY <1>1, <1>4, <1>9, Commands DEF Expected
      <3> QED BY <1>6, <3>2, <3>3
    <2> QED BY <1>6, <2>1, <2>2, MailFrom
  <1>11. Agreed'
    <2>1. /\ out'[e] = NoQueue /\ out'[p] = out[p] /\ state'[e] = "term_ack_sent"
          /\ state'[p] = state[p]
      BY <1>1, <1>2, <1>5 DEF Shapes
    <2> QED BY <1>1, <1>2, <1>3, <1>9, <2>1 DEF Agreed
  <1>12. Links'
    <2>1. refs'[e] = refs[e] /\ p \notin freed
      BY <1>1, <1>2, <1>4, <1>5 DEF References, Shapes
    <2> QED BY <1>1, <1>2, <1>3, <1>9, <2>1 DEF Links
  <1>13. Queues'
    <2>1. \A c \in Content(mail[e]) : c.type # "hiccup"
      BY <1>2, <1>3 DEF Mail, Expected
    <2>2. out[e] # NoQueue
      BY <1>2, <1>3 DEF Agreed
    <2>3. out[e] = in[p] /\ out[e] \in 0 .. MaxHiccups
      BY <2>1, <2>2, InStep
    <2>4. out'[e] = NoQueue /\ out'[p] = out[p] /\ NoQueue \notin 0 .. MaxHiccups
      BY <1>1, <1>2, <1>5 DEF Shapes, NoQueue
    <2>5. ASSUME NEW n \in 0 .. MaxHiccups
          PROVE  (<<p, n>> \in live)' <=> Exists(p, n)'
      <3>1. <<p, n>> \in live <=> Exists(p, n)
        BY <1>1, <1>2 DEF Queues
      <3>2. Exists(p, n) <=> n = in[p]
        BY <1>1, <2>2, <2>3 DEF Exists
      <3>3. Exists(p, n)' <=> n = in[p]
        BY <1>1, <1>4, <2>4 DEF Exists
      <3> QED BY <3>1, <3>2, <3>3
    <2>6. ASSUME NEW n \in 0 .. MaxHiccups
          PROVE  (<<e, n>> \in live)' <=> Exists(e, n)'
      BY <1>1, <1>2, <2>4 DEF Queues, Exists
    <2>7. Announced(e)' /\ Announced(p)'
      BY <1>1, <1>2, <1>6, <2>4 DEF Queues, Announced
    <2> QED BY <1>1, <2>5, <2>6, <2>7 DEF Queues
  <1>14. Drained'
    <2>1. state'[e] = "term_ack_sent" /\ state'[p] = state[p]
      BY <1>1, <1>2, <1>5 DEF Shapes
    <2> QED BY <1>1, <1>3, <2>1 DEF Drained, SentTerm
  <1> QED BY <1>7, <1>8, <1>10, <1>11, <1>12, <1>13, <1>14, FromParts

LEMMA ProcessDelimiterStep == ASSUME IInv, NEW e \in End, ProcessDelimiter(e), Flags' PROVE IInv'
  <1>1. /\ Flags /\ Shapes /\ Boxes /\ References
        /\ Mail /\ Agreed /\ Links /\ Queues /\ Drained
    BY Parts DEF IInv
  <1>2. /\ pc[e] = "delimiter" /\ pc' = [pc EXCEPT ![e] = "idle"]
        /\ UNCHANGED <<terminal, reader, freed, in, items, live, link, held, owes>>
    BY DEF ProcessDelimiter, queueVars, ackVars
  <1>3. /\ \A x \in End : pc'[x] = pc[x] \/ (pc[x] = "delimiter" /\ pc'[x] = "idle")
        /\ pc' \in [End -> {pc[x] : x \in End} \cup {"idle"}]
        /\ pc' \in [End -> {"idle", "delimiter", "detach", "back", "reply", "unlink", "finish",
                            "release"}]
        /\ pc'[e] = "idle"
    BY <1>1, <1>2 DEF Shapes
  <1>4. CASE state[e] = "waiting_for_delimiter"
    <2>1. Acknowledge(e, "term_ack_sent")
      BY <1>4 DEF ProcessDelimiter
    <2> QED BY <1>2, <1>3, <1>4, <2>1, LateAcknowledgement
  <1>5. CASE state[e] # "waiting_for_delimiter"
    <2>1. /\ UNCHANGED <<out, mail, refs>>
          /\ state' = IF state[e] = "active" THEN [state EXCEPT ![e] = "delimiter_received"]
                                             ELSE state
      BY <1>5 DEF ProcessDelimiter
    <2>2. /\ state' \in [End -> States] /\ \A x \in End : x # e => state'[x] = state[x]
          /\ state'[e] # "active" /\ state'[e] # "waiting_for_delimiter"
          /\ state'[e] = state[e] \/ (state[e] = "active" /\ state'[e] = "delimiter_received")
      BY <1>1, <1>5, <2>1 DEF Shapes, States
    <2>3. Shapes' /\ Boxes'
      BY <1>1, <1>2, <1>3, <2>1, <2>2 DEF Shapes, Boxes
    <2>4. References'
      BY <1>1, <1>2, <1>3, <2>1 DEF References, Running, Linked, Reading
    <2>5. \A x \in End : /\ (SentTerm(x)' <=> SentTerm(x)) /\ (GotTerm(x)' <=> GotTerm(x))
                         /\ (AckTaken(x)' <=> AckTaken(x)) /\ (SentAck(x)' <=> SentAck(x))
      BY <1>2, <1>3, <2>2 DEF SentTerm, GotTerm, AckTaken, SentAck
    <2>6. Mail'
      <3>1. ASSUME NEW x \in End, NEW c, Expected(x, c) PROVE Expected(x, c)'
        <4>1. Peer(x) \in End
          BY Peers
        <4> QED BY <1>2, <2>1, <2>5, <3>1, <4>1 DEF Expected
      <3> QED BY <1>1, <2>1, <3>1 DEF Mail
    <2>7. Agreed'
      <3>1. \A x \in End : x \in owes => state'[x] = "term_req_sent1" /\ AckTaken(x)'
        BY <1>1, <2>2, <2>5 DEF Agreed
      <3>2. \A x \in End : out[x] = NoQueue <=>
               (state'[x] \in {"term_ack_sent", "term_req_sent2"} \/ x \in owes)
        BY <1>1, <2>2 DEF Agreed
      <3> QED BY <1>1, <1>2, <1>3, <2>1, <2>5, <3>1, <3>2, Peers DEF Agreed
    <2>8. Links'
      BY <1>1, <1>2, <1>3, <2>1, <2>5, Peers DEF Links
    <2>9. Queues'
      BY <1>1, <1>2, <2>1, SameQueues
    <2>10. Drained'
      <3>1. ASSUME NEW x \in End, state'[x] \in {"active", "waiting_for_delimiter"}
            PROVE  x # e /\ state'[x] = state[x] /\ pc'[x] = pc[x] /\ Peer(x) = e
        BY <1>1, <1>2, <2>2, <3>1, Peers DEF Shapes
      <3>2. state[e] = "term_req_sent1" => state'[e] = "term_req_sent1"
        BY <2>2
      <3> QED BY <1>1, <1>2, <3>1, <3>2 DEF Drained, InQ
    <2> QED BY <2>3, <2>4, <2>6, <2>7, <2>8, <2>9, <2>10, FromParts
  <1> QED BY <1>4, <1>5

\* Only the delay of an end changes.
LEMMA DelayStep ==
  ASSUME IInv, Flags', UNCHANGED <<state, out, mail, pc, refs, terminal, reader, freed>>,
         UNCHANGED <<in, items, live, link, held, owes>>
  PROVE  IInv'
  <1>1. /\ Flags /\ Shapes /\ Boxes /\ References
        /\ Mail /\ Agreed /\ Links /\ Queues /\ Drained
    BY Parts DEF IInv
  <1>2. Shapes' /\ Boxes' /\ References'
    BY <1>1 DEF Shapes, Boxes, References, Running, Linked, Reading
  <1>3. /\ Agreed'
        /\ \A x \in End : (AckTaken(x)' <=> AckTaken(x)) /\ (SentAck(x)' <=> SentAck(x))
    BY <1>1, SameAgreed
  <1>4. Mail'
    BY <1>1, <1>3, SameMail
  <1>5. Links'
    BY <1>1, <1>3, Peers DEF Links
  <1>6. Queues' /\ Drained'
    BY <1>1, SameQueues, SameDrained
  <1> QED BY <1>2, <1>3, <1>4, <1>5, <1>6, FromParts

LEMMA SetNodelayStep == ASSUME IInv, NEW e \in End, SetNodelay(e), Flags' PROVE IInv'
  <1>1. UNCHANGED <<pc, terminal, reader, freed, in, items, live, link, held, owes>>
    BY DEF SetNodelay, queueVars, ackVars
  <1>2. pc' \in [End -> {pc[x] : x \in End} \cup {"idle"}]
    BY <1>1, Parts DEF IInv, Shapes
  <1>3. CASE state[e] = "waiting_for_delimiter"
    <2>1. Acknowledge(e, "term_ack_sent")
      BY <1>3 DEF SetNodelay
    <2> QED BY <1>1, <1>2, <1>3, <2>1, LateAcknowledgement
  <1>4. CASE state[e] # "waiting_for_delimiter"
    <2>1. UNCHANGED <<state, out, mail, refs>>
      BY <1>4 DEF SetNodelay
    <2> QED BY <1>1, <2>1, DelayStep
  <1> QED BY <1>3, <1>4
-----------------------------------------------------------------------------
(* terminate()                                                              *)

\* The delimiter goes behind the last message of the queue that e writes to.
LEMMA DelimiterWritten ==
  ASSUME Shapes, Boxes, NEW e \in End, out[e] \in 0 .. MaxHiccups,
         items' = [items EXCEPT ![<<Peer(e), out[e]>>] = Append(@, "delimiter")]
  PROVE  /\ items' \in [Queue -> Seq({"msg", "delimiter"})]
         /\ \A q \in Queue : q # <<Peer(e), out[e]>> => items'[q] = items[q]
         /\ LET s == items[<<Peer(e), out[e]>>]
                t == items'[<<Peer(e), out[e]>>]
            IN  /\ Len(t) = Len(s) + 1 /\ Len(s) \in Nat
                /\ \A i \in 1 .. Len(s) : t[i] = s[i]
  <1>1. <<Peer(e), out[e]>> \in Queue
    BY Peers DEF Queue
  <1>2. PICK s \in Seq({"msg", "delimiter"}) : s = items[<<Peer(e), out[e]>>]
    BY <1>1 DEF Boxes
  <1>3. /\ Append(s, "delimiter") \in Seq({"msg", "delimiter"})
        /\ Len(Append(s, "delimiter")) = Len(s) + 1
        /\ \A i \in 1 .. Len(s) : Append(s, "delimiter")[i] = s[i]
        /\ Len(s) \in Nat
    BY AppendProperties, LenProperties
  <1>4. items'[<<Peer(e), out[e]>>] = Append(s, "delimiter")
    BY <1>1, <1>2 DEF Boxes
  <1>5. items' \in [Queue -> Seq({"msg", "delimiter"})]
    BY <1>1, <1>2, <1>3 DEF Boxes
  <1>6. \A q \in Queue : q # <<Peer(e), out[e]>> => items'[q] = items[q]
    BY <1>1 DEF Boxes
  <1> QED BY <1>2, <1>3, <1>4, <1>5, <1>6

LEMMA TerminateStep ==
  ASSUME IInv, NEW e \in End, NEW d \in BOOLEAN, Terminate(e, d), Flags'
  PROVE  IInv'
  <1> DEFINE p == Peer(e)
  <1>1. p \in End /\ p # e /\ Peer(p) = e /\ End = {e, p}
    BY Peers
  <1>2. /\ Flags /\ Shapes /\ Boxes /\ References
        /\ Mail /\ Agreed /\ Links /\ Queues /\ Drained
    BY Parts DEF IInv
  <1>3. /\ pc[e] = "idle" /\ e \notin terminal
        /\ UNCHANGED <<pc, in, live, terminal, reader, freed, link, held, owes>>
    BY DEF Terminate, Alive, ackVars
  <1>4. CASE state[e] \in {"term_req_sent1", "term_req_sent2", "term_ack_sent"}
    <2>1. UNCHANGED <<state, out, mail, refs, items>>
      BY <1>4 DEF Terminate
    <2> QED BY <1>3, <2>1, DelayStep
  <1>5. CASE state[e] = "waiting_for_delimiter" /\ ~d
    <2>1. Acknowledge(e, "term_ack_sent") /\ UNCHANGED items
      BY <1>5 DEF Terminate
    <2>2. pc' \in [End -> {pc[x] : x \in End} \cup {"idle"}]
      BY <1>2, <1>3 DEF Shapes
    <2> QED BY <1>3, <1>5, <2>1, <2>2, LateAcknowledgement
  <1>6. CASE state[e] = "waiting_for_delimiter" /\ d
    <2>1. /\ items' = [items EXCEPT ![<<p, out[e]>>] = Append(@, "delimiter")]
          /\ UNCHANGED <<state, out, mail, refs>>
      BY <1>6 DEF Terminate, OutQ
    <2>2. out[e] \in 0 .. MaxHiccups /\ SentTerm(p)
      BY <1>1, <1>2, <1>6 DEF Agreed, Shapes, GotTerm
    <2>3. /\ items' \in [Queue -> Seq({"msg", "delimiter"})]
          /\ \A q \in Queue : q # <<p, out[e]>> => items'[q] = items[q]
      BY <1>2, <2>1, <2>2, DelimiterWritten
    <2>4. Shapes' /\ Boxes' /\ References'
      BY <1>2, <1>3, <2>1, <2>3 DEF Shapes, Boxes, References, Running, Linked, Reading
    <2>5. /\ Agreed'
          /\ \A x \in End : (AckTaken(x)' <=> AckTaken(x)) /\ (SentAck(x)' <=> SentAck(x))
      BY <1>2, <1>3, <2>1, SameAgreed
    <2>6. Mail'
      BY <1>2, <1>3, <2>1, <2>5, SameMail
    <2>7. Links'
      BY <1>2, <1>3, <2>1, <2>5, Peers DEF Links
    <2>8. Queues'
      BY <1>2, <1>3, <2>1, SameQueues
    <2>9. Drained'
      <3>1. ASSUME NEW n \in 0 .. MaxHiccups PROVE items'[<<e, n>>] = items[<<e, n>>]
        BY <1>1, <2>3 DEF Queue
      <3>2. in[e] \in 0 .. MaxHiccups
        BY <1>2 DEF Shapes
      <3> QED BY <1>1, <1>2, <1>3, <2>1, <2>2, <3>1, <3>2 DEF Drained, InQ, SentTerm
    <2> QED BY <2>4, <2>5, <2>6, <2>7, <2>8, <2>9, FromParts
  <1>7. CASE state[e] \in {"active", "delimiter_received"}
    <2>1. ~SentAck(e) /\ ~SentTerm(e) /\ ~GotTerm(e) /\ e \notin owes
      BY <1>2, <1>7, NotYet DEF SentTerm, GotTerm, Agreed
    <2>2. /\ p \notin terminal /\ ~AckTaken(p)
          /\ \A c \in Content(mail[p]) : c.type # "pipe_term_ack"
      BY <2>1, NotAcknowledged
    <2>3. ~GotTerm(p) /\ \A c \in Content(mail[p]) : c.type # "pipe_term"
      BY <2>1, NotTerminating
    <2>4. /\ state' = [state EXCEPT ![e] = "term_req_sent1"]
          /\ mail' = [mail EXCEPT ![p] = Append(@, Cmd("pipe_term"))]
          /\ refs' = [refs EXCEPT ![p] = @ + 1]
          /\ items' = [items EXCEPT ![<<p, out[e]>>] = Append(@, "delimiter")]
          /\ UNCHANGED out
      BY <1>7, <2>2 DEF Terminate, OutQ, Sent, Retained
    <2>5. /\ mail' \in [End -> Seq(Command)] /\ mail'[e] = mail[e]
          /\ Len(mail'[p]) = Len(mail[p]) + 1
          /\ Content(mail'[p]) = Content(mail[p]) \cup {Cmd("pipe_term")}
          /\ \A x \in End : Ordered(mail'[x])
      <3>1. \A c \in Content(mail[p]) : Follows(c, Cmd("pipe_term"))
        BY <2>2, <2>3, Commands DEF Follows
      <3> QED BY <1>1, <1>2, <2>4, <3>1, Posted, Commands DEF Boxes
    <2>6. out[e] \in 0 .. MaxHiccups
      BY <1>2, <1>7, <2>1 DEF Agreed, Shapes
    <2>7. /\ items' \in [Queue -> Seq({"msg", "delimiter"})]
          /\ \A q \in Queue : q # <<p, out[e]>> => items'[q] = items[q]
          /\ Len(items'[<<p, out[e]>>]) = Len(items[<<p, out[e]>>]) + 1
          /\ Len(items[<<p, out[e]>>]) \in Nat
          /\ \A i \in 1 .. Len(items[<<p, out[e]>>]) :
                items'[<<p, out[e]>>][i] = items[<<p, out[e]>>][i]
      BY <1>2, <2>4, <2>6, DelimiterWritten
    <2>8. state'[e] = "term_req_sent1" /\ state'[p] = state[p]
      BY <1>1, <1>2, <2>4 DEF Shapes
    <2>9. Shapes' /\ Boxes'
      BY <1>2, <1>3, <2>4, <2>5, <2>7 DEF Shapes, Boxes, States
    <2>10. References'
      <3>1. \A x \in End : /\ Running(x)' = Running(x) /\ Linked(x)' = Linked(x)
                           /\ Reading(x)' = Reading(x)
        BY <1>3 DEF Running, Linked, Reading
      <3>2. \A x \in End : /\ Len(mail[x]) \in Nat /\ Running(x) \in {0, 1}
                           /\ Linked(x) \in {0, 1} /\ Reading(x) \in {0, 1}
        BY <1>2, Sizes
      <3>3. \A x \in End : refs'[x] = Len(mail'[x]) + Running(x)' + Linked(x)' + Reading(x)'
        BY <1>1, <1>2, <2>4, <2>5, <3>1, <3>2 DEF References
      <3> QED BY <1>2, <2>4, <2>5, <3>3, Recount DEF References
    <2>11. /\ SentTerm(e)' /\ (SentTerm(p)' <=> SentTerm(p))
           /\ \A x \in End : /\ (GotTerm(x)' <=> GotTerm(x)) /\ (AckTaken(x)' <=> AckTaken(x))
                             /\ (SentAck(x)' <=> SentAck(x))
      BY <1>1, <1>3, <1>7, <2>1, <2>8 DEF SentTerm, GotTerm, AckTaken, SentAck
    <2>12. Mail'
      <3>1. \A c \in Content(mail[e]) : Expected(e, c)
        BY <1>2 DEF Mail
      <3>2. \A c \in Content(mail[p]) : Expected(p, c)
        BY <1>1, <1>2 DEF Mail
      <3>3. \A c \in Content(mail'[e]) : Expected(e, c)'
        BY <1>1, <1>3, <2>4, <2>5, <2>11, <3>1 DEF Expected
      <3>4. \A c \in Content(mail[p]) : Expected(p, c)'
        BY <1>1, <1>3, <2>4, <2>11, <3>2 DEF Expected
      <3>5. Expected(p, Cmd("pipe_term"))'
        BY <1>1, <2>2, <2>3, <2>11, Commands DEF Expected
      <3> QED BY <2>5, <3>3, <3>4, <3>5, MailFrom
    <2>13. Agreed'
      BY <1>1, <1>2, <1>3, <1>7, <2>1, <2>4, <2>8, <2>11 DEF Agreed
    <2>14. Links'
      <3>1. refs'[e] = refs[e] /\ p \notin freed
        BY <1>1, <1>2, <2>2, <2>4 DEF References, Shapes
      <3> QED BY <1>1, <1>2, <1>3, <2>11, <3>1 DEF Links
    <2>15. Queues'
      BY <1>1, <1>2, <1>3, <2>4, <2>5, SameQueues
    <2>16. Drained'
      <3>1. ASSUME state[p] \in {"active", "waiting_for_delimiter"},
                   NEW n \in 0 .. MaxHiccups, NEW i \in 1 .. Len(items'[<<p, n>>]),
                   items'[<<p, n>>][i] = "delimiter"
            PROVE  i = Len(items'[<<p, n>>])
        <4>1. <<p, n>> \in Queue
          BY <1>1 DEF Queue
        <4>2. \A j \in 1 .. Len(items[<<p, n>>]) : items[<<p, n>>][j] # "delimiter"
          BY <1>1, <1>2, <1>7, <3>1 DEF Drained
        <4>3. CASE n # out[e]
          <5>1. items'[<<p, n>>] = items[<<p, n>>]
            BY <2>7, <4>1, <4>3
          <5> QED BY <3>1, <4>2, <5>1
        <4>4. CASE n = out[e]
          <5>1. PICK m \in Nat : m = Len(items[<<p, n>>]) /\ Len(items'[<<p, n>>]) = m + 1
            BY <2>7, <4>4
          <5>2. \A j \in 1 .. m : items'[<<p, n>>][j] # "delimiter"
            BY <2>7, <4>2, <4>4, <5>1
          <5>3. i \notin 1 .. m
            BY <3>1, <5>2
          <5> QED BY <3>1, <5>1, <5>3
        <4> QED BY <4>3, <4>4
      <3>2. state[p] \in {"active", "waiting_for_delimiter"} => pc[p] # "delimiter"
        BY <1>1, <1>2, <1>7 DEF Drained
      <3> QED BY <1>1, <1>3, <2>8, <3>1, <3>2 DEF Drained
    <2> QED BY <2>9, <2>10, <2>12, <2>13, <2>14, <2>15, <2>16, FromParts
  <1>8. state[e] \in States
    BY <1>2 DEF Shapes
  <1> QED BY <1>4, <1>5, <1>6, <1>7, <1>8 DEF States
-----------------------------------------------------------------------------
(* hiccup()                                                                 *)

LEMMA HiccupStep == ASSUME IInv, NEW e \in End, Hiccup(e), Flags' PROVE IInv'
  <1> DEFINE p == Peer(e)
  <1>0. PICK n : n = in[e] + 1
    OBVIOUS
  <1> DEFINE h == [type |-> "hiccup", queue |-> n]
  <1>1. p \in End /\ p # e /\ Peer(p) = e /\ End = {e, p}
    BY Peers
  <1>2. /\ Flags /\ Shapes /\ Boxes /\ References
        /\ Mail /\ Agreed /\ Links /\ Queues /\ Drained
    BY Parts DEF IInv
  <1>3. /\ pc[e] = "idle" /\ e \notin terminal /\ state[e] = "active" /\ in[e] < MaxHiccups
        /\ in' = [in EXCEPT ![e] = @ + 1] /\ live' = live \cup {<<e, n>>}
        /\ UNCHANGED <<state, out, items, pc, terminal, reader, freed, link, held, owes>>
    BY <1>0 DEF Hiccup, Alive, ackVars
  <1>4. ~SentAck(e) /\ ~SentTerm(e)
    BY <1>3, NotYet DEF SentTerm
  <1>5. /\ p \notin terminal /\ ~AckTaken(p)
        /\ \A c \in Content(mail[p]) : c.type # "pipe_term_ack"
    BY <1>4, NotAcknowledged
  <1>6. ~GotTerm(p) /\ \A c \in Content(mail[p]) : c.type # "pipe_term"
    BY <1>4, NotTerminating
  <1>7. mail' = [mail EXCEPT ![p] = Append(@, h)] /\ refs' = [refs EXCEPT ![p] = @ + 1]
    BY <1>0, <1>5 DEF Hiccup, Sent, Retained
  <1>8. /\ MaxHiccups \in Nat /\ in[e] \in 0 .. MaxHiccups /\ n \in 0 .. MaxHiccups
        /\ in'[e] = n /\ in'[p] = in[p] /\ out[p] \in 0 .. MaxHiccups \cup {NoQueue}
    BY <1>0, <1>1, <1>2, <1>3, EndsAssumption DEF Shapes
  <1>9. h \in Command /\ h.type = "hiccup" /\ h.queue = n
    BY <1>8, Commands
  <1>10. \A c \in Content(mail[p]) : Expected(p, c)
    BY <1>1, <1>2 DEF Mail
  <1>11. out[p] # NoQueue /\ out[p] \in 0 .. MaxHiccups /\ out[p] <= in[e]
    <2>1. p \notin owes /\ state[p] \notin {"term_ack_sent", "term_req_sent2"}
      BY <1>1, <1>2, <1>5, <1>6 DEF Agreed, GotTerm
    <2>2. out[p] # NoQueue
      BY <1>1, <1>2, <2>1 DEF Agreed
    <2>3. out[p] <= in[e]
      BY <1>2, <2>2 DEF Queues, Announced
    <2> QED BY <1>8, <2>2, <2>3
  <1>12. /\ mail' \in [End -> Seq(Command)] /\ mail'[e] = mail[e]
         /\ Len(mail'[p]) = Len(mail[p]) + 1
         /\ Content(mail'[p]) = Content(mail[p]) \cup {h}
         /\ \A x \in End : Ordered(mail'[x])
    <2>1. ASSUME NEW c \in Content(mail[p]) PROVE Follows(c, h)
      <3>1. c \in Command
        BY <1>1, <1>2, LenProperties DEF Content, Boxes
      <3>2. c.type = "hiccup" => c.queue <= in[e] /\ c.queue \in 0 .. MaxHiccups
        BY <1>1, <1>10, <3>1, Commands DEF Expected
      <3> QED BY <1>0, <1>5, <1>6, <1>8, <1>9, <3>2 DEF Follows
    <2> HIDE DEF h
    <2> QED BY <1>1, <1>2, <1>7, <1>9, <2>1, Posted DEF Boxes
  <1>13. Shapes' /\ Boxes'
    <2>1. in' \in [End -> 0 .. MaxHiccups]
      BY <1>2, <1>3, <1>8 DEF Shapes
    <2>2. live' \subseteq Queue
      BY <1>2, <1>3, <1>8 DEF Shapes, Queue
    <2> QED BY <1>2, <1>3, <1>12, <2>1, <2>2 DEF Shapes, Boxes
  <1>14. References'
    <2>1. \A x \in End : /\ Running(x)' = Running(x) /\ Linked(x)' = Linked(x)
                         /\ Reading(x)' = Reading(x)
      BY <1>3 DEF Running, Linked, Reading
    <2>2. \A x \in End : /\ Len(mail[x]) \in Nat /\ Running(x) \in {0, 1}
                         /\ Linked(x) \in {0, 1} /\ Reading(x) \in {0, 1}
      BY <1>2, Sizes
    <2>3. \A x \in End : refs'[x] = Len(mail'[x]) + Running(x)' + Linked(x)' + Reading(x)'
      BY <1>1, <1>2, <1>7, <1>12, <2>1, <2>2 DEF References
    <2> QED BY <1>2, <1>7, <1>12, <2>3, Recount DEF References
  <1>15. /\ Agreed'
         /\ \A x \in End : (AckTaken(x)' <=> AckTaken(x)) /\ (SentAck(x)' <=> SentAck(x))
    BY <1>2, <1>3, SameAgreed
  <1>16. \A x \in End : (SentTerm(x)' <=> SentTerm(x)) /\ (GotTerm(x)' <=> GotTerm(x))
    BY <1>3 DEF SentTerm, GotTerm
  <1>17. Mail'
    <2>1. \A c \in Content(mail[e]) : Expected(e, c)
      BY <1>2 DEF Mail
    <2>2. \A c \in Content(mail'[e]) : Expected(e, c)'
      BY <1>1, <1>3, <1>8, <1>12, <1>15, <1>16, <2>1 DEF Expected
    <2>3. ASSUME NEW c \in Content(mail[p]) PROVE Expected(p, c)'
      <3>1. c \in Command
        BY <1>1, <1>2, LenProperties DEF Content, Boxes
      <3>2. c.type = "hiccup" => c.queue <= in'[e] /\ out[p] < c.queue
        <4>1. c.type = "hiccup" => c.queue \in 0 .. MaxHiccups
          BY <3>1, Commands
        <4> QED BY <1>0, <1>1, <1>8, <1>10, <4>1 DEF Expected
      <3> QED BY <1>1, <1>3, <1>10, <1>15, <1>16, <3>2 DEF Expected
    <2>4. Expected(p, h)'
      <3>1. out'[p] < n /\ n <= in'[e]
        BY <1>3, <1>0, <1>8, <1>11
      <3> HIDE DEF h
      <3> QED BY <1>1, <1>5, <1>6, <1>9, <1>15, <1>16, <3>1 DEF Expected
    <2> QED BY <1>12, <2>2, <2>3, <2>4, MailFrom
  <1>18. Links'
    <2>1. refs'[e] = refs[e] /\ p \notin freed
      BY <1>1, <1>2, <1>5, <1>7 DEF References, Shapes
    <2> QED BY <1>1, <1>2, <1>3, <1>15, <2>1 DEF Links
  <1>19. Queues'
    <2>1. ASSUME NEW m \in 0 .. MaxHiccups PROVE (<<e, m>> \in live)' <=> Exists(e, m)'
      <3>1. <<e, m>> \in live <=> Exists(e, m)
        BY <1>2 DEF Queues
      <3>2. Exists(e, m)' <=> out[p] <= m /\ m <= n
        BY <1>3, <1>0, <1>8, <1>11 DEF Exists
      <3>3. Exists(e, m) <=> out[p] <= m /\ m <= in[e]
        BY <1>11 DEF Exists
      <3> QED BY <1>3, <1>0, <1>8, <1>11, <3>1, <3>2, <3>3
    <2>2. ASSUME NEW m \in 0 .. MaxHiccups PROVE (<<p, m>> \in live)' <=> Exists(p, m)'
      BY <1>1, <1>2, <1>3, <1>8 DEF Queues, Exists
    <2>3. Announced(e)'
      <3>1. ASSUME NEW m \in 0 .. MaxHiccups, out[p] < m, m <= n
            PROVE  [type |-> "hiccup", queue |-> m] \in Content(mail'[p])
        <4>1. CASE m <= in[e]
          BY <1>2, <1>11, <1>12, <3>1, <4>1 DEF Queues, Announced
        <4>2. CASE m = n
          BY <1>12, <4>2
        <4> QED BY <1>0, <1>8, <3>1, <4>1, <4>2
      <3>2. out[p] <= n
        BY <1>0, <1>8, <1>11
      <3> QED BY <1>3, <1>8, <3>1, <3>2 DEF Announced
    <2>4. Announced(p)'
      BY <1>1, <1>2, <1>3, <1>8, <1>12 DEF Queues, Announced
    <2> QED BY <1>1, <2>1, <2>2, <2>3, <2>4 DEF Queues
  <1>20. Drained'
    <2>1. \A x \in End : pc[x] = "delimiter" => x # e /\ in'[x] = in[x]
      BY <1>1, <1>3, <1>8
    <2> QED BY <1>2, <1>3, <2>1 DEF Drained, InQ
  <1> QED BY <1>13, <1>14, <1>15, <1>17, <1>18, <1>19, <1>20, FromParts

LEMMA ProcessHiccupStep == ASSUME IInv, NEW e \in End, ProcessHiccup(e), Flags' PROVE IInv'
  <1> DEFINE p == Peer(e)
             k == Head(mail[e]).queue
  <1>1. p \in End /\ p # e /\ Peer(p) = e /\ End = {e, p}
    BY Peers
  <1>2. /\ Flags /\ Shapes /\ Boxes /\ References
        /\ Mail /\ Agreed /\ Links /\ Queues /\ Drained
    BY Parts DEF IInv
  <1>3. /\ mail[e] # <<>> /\ Head(mail[e]).type = "hiccup" /\ pc[e] = "idle"
        /\ mail' = [mail EXCEPT ![e] = Tail(@)]
        /\ live' = live \ {<<p, out[e]>>} /\ out' = [out EXCEPT ![e] = k]
        /\ UNCHANGED <<state, in, items, pc, terminal, reader, link, held, owes>>
    BY DEF ProcessHiccup, Receives, ackVars, OutQ
  <1>4. /\ Head(mail[e]) \in Command /\ Expected(e, Head(mail[e]))
        /\ Len(Tail(mail[e])) = Len(mail[e]) - 1 /\ Len(mail[e]) \in Nat
        /\ Content(mail[e]) = {Head(mail[e])} \cup Content(Tail(mail[e]))
        /\ \A c \in Content(Tail(mail[e])) : Expected(e, c) /\ Follows(Head(mail[e]), c)
    BY <1>2, <1>3, Head1 DEF Boxes
  <1>5. /\ mail' \in [End -> Seq(Command)] /\ mail'[e] = Tail(mail[e]) /\ mail'[p] = mail[p]
        /\ \A x \in End : Ordered(mail'[x])
    BY <1>1, <1>2, <1>3, Took DEF Boxes
  <1>6. /\ ~GotTerm(e) /\ ~AckTaken(e) /\ out[e] < k /\ k <= in[p]
        /\ k \in 0 .. MaxHiccups /\ Head(mail[e]) = [type |-> "hiccup", queue |-> k]
    BY <1>3, <1>4, Commands DEF Expected
  <1>7. e \notin terminal /\ e \notin freed /\ e \notin owes
    BY <1>6, NotYet
  <1>8. /\ refs' = [refs EXCEPT ![e] = @ - 1] /\ freed' = freed
    BY <1>7 DEF ProcessHiccup, Release
  <1>9. /\ out[e] # NoQueue /\ out[e] \in 0 .. MaxHiccups /\ in[p] \in 0 .. MaxHiccups
        /\ MaxHiccups \in Nat /\ NoQueue \notin 0 .. MaxHiccups
    <2>1. out[e] # NoQueue
      BY <1>2, <1>6, <1>7 DEF Agreed, GotTerm
    <2> QED BY <1>1, <1>2, <2>1, EndsAssumption DEF Shapes, NoQueue
  <1>10. out'[e] = k /\ out'[p] = out[p]
    BY <1>1, <1>2, <1>3 DEF Shapes
  <1>11. \A m \in 0 .. MaxHiccups : out[e] < m /\ m <= in[p]
            => [type |-> "hiccup", queue |-> m] \in Content(mail[e])
    BY <1>1, <1>2, <1>9 DEF Queues, Announced
  <1>12. k = out[e] + 1
    <2>1. PICK m \in 0 .. MaxHiccups : m = out[e] + 1
      BY <1>6, <1>9
    <2>2. [type |-> "hiccup", queue |-> m] \in Content(mail[e])
      BY <1>6, <1>9, <1>11, <2>1
    <2>3. CASE [type |-> "hiccup", queue |-> m] = Head(mail[e])
      BY <1>6, <2>1, <2>3, Commands
    <2>4. CASE [type |-> "hiccup", queue |-> m] \in Content(Tail(mail[e]))
      <3>1. k < m
        BY <1>3, <1>4, <2>4, Commands DEF Follows
      <3> QED BY <1>6, <1>9, <2>1, <3>1
    <2> QED BY <1>4, <2>2, <2>3, <2>4
  <1>13. Shapes' /\ Boxes'
    <2>1. out' \in [End -> 0 .. MaxHiccups \cup {NoQueue}]
      BY <1>2, <1>3, <1>6 DEF Shapes
    <2> QED BY <1>2, <1>3, <1>5, <1>8, <2>1 DEF Shapes, Boxes
  <1>14. References'
    <2>1. \A x \in End : /\ Running(x)' = Running(x) /\ Linked(x)' = Linked(x)
                         /\ Reading(x)' = Reading(x)
      BY <1>3 DEF Running, Linked, Reading
    <2>2. \A x \in End : /\ Len(mail[x]) \in Nat /\ Running(x) \in {0, 1}
                         /\ Linked(x) \in {0, 1} /\ Reading(x) \in {0, 1}
      BY <1>2, Sizes
    <2>3. \A x \in End : refs'[x] = Len(mail'[x]) + Running(x)' + Linked(x)' + Reading(x)'
      <3>1. refs'[e] = refs[e] - 1 /\ refs'[p] = refs[p]
        BY <1>1, <1>2, <1>8 DEF References
      <3>2. Len(mail'[e]) = Len(mail[e]) - 1 /\ Len(mail'[p]) = Len(mail[p])
        BY <1>4, <1>5
      <3>3. refs'[e] = Len(mail'[e]) + Running(e)' + Linked(e)' + Reading(e)'
        BY <1>2, <2>1, <2>2, <3>1, <3>2 DEF References
      <3>4. refs'[p] = Len(mail'[p]) + Running(p)' + Linked(p)' + Reading(p)'
        BY <1>1, <1>2, <2>1, <2>2, <3>1, <3>2 DEF References
      <3> QED BY <1>1, <3>3, <3>4
    <2> QED BY <1>2, <1>5, <1>8, <2>3, Recount DEF References
  <1>15. \A x \in End : /\ (SentTerm(x)' <=> SentTerm(x)) /\ (GotTerm(x)' <=> GotTerm(x))
                        /\ (AckTaken(x)' <=> AckTaken(x)) /\ (SentAck(x)' <=> SentAck(x))
    BY <1>3 DEF SentTerm, GotTerm, AckTaken, SentAck
  <1>16. Agreed'
    BY <1>1, <1>2, <1>3, <1>6, <1>7, <1>9, <1>10, <1>15 DEF Agreed, GotTerm
  <1>17. Mail'
    <2>1. \A c \in Content(mail'[e]) : Expected(e, c)'
      BY <1>1, <1>3, <1>4, <1>5, <1>6, <1>10, <1>15 DEF Expected, Follows
    <2>2. \A c \in Content(mail[p]) : Expected(p, c)
      BY <1>1, <1>2 DEF Mail
    <2>3. \A c \in Content(mail'[p]) : Expected(p, c)'
      BY <1>1, <1>3, <1>5, <1>10, <1>15, <2>2 DEF Expected
    <2> QED BY <1>5, <2>1, <2>3, MailFrom
  <1>18. Links'
    <2>1. refs'[p] = refs[p]
      BY <1>1, <1>2, <1>8 DEF References
    <2> QED BY <1>1, <1>2, <1>3, <1>7, <1>8, <1>15, <2>1 DEF Links
  <1>19. Queues'
    <2>1. ASSUME NEW m \in 0 .. MaxHiccups PROVE (<<p, m>> \in live)' <=> Exists(p, m)'
      <3>1. <<p, m>> \in live <=> out[e] <= m /\ m <= in[p]
        BY <1>1, <1>2, <1>9 DEF Queues, Exists
      <3>2. Exists(p, m)' <=> k <= m /\ m <= in[p]
        BY <1>1, <1>3, <1>6, <1>9, <1>10 DEF Exists
      <3> QED BY <1>3, <1>9, <1>12, <3>1, <3>2
    <2>2. ASSUME NEW m \in 0 .. MaxHiccups PROVE (<<e, m>> \in live)' <=> Exists(e, m)'
      BY <1>1, <1>2, <1>3, <1>10 DEF Queues, Exists
    <2>3. Announced(p)'
      <3>1. ASSUME NEW m \in 0 .. MaxHiccups, k < m, m <= in[p]
            PROVE  [type |-> "hiccup", queue |-> m] \in Content(mail'[e])
        <4>1. [type |-> "hiccup", queue |-> m] \in Content(mail[e])
          BY <1>6, <1>9, <1>11, <3>1
        <4>2. [type |-> "hiccup", queue |-> m] # Head(mail[e])
          BY <1>6, <3>1, Commands
        <4> QED BY <1>4, <1>5, <4>1, <4>2
      <3> QED BY <1>1, <1>3, <1>6, <1>10, <3>1 DEF Announced
    <2>4. Announced(e)'
      BY <1>1, <1>2, <1>3, <1>5, <1>10 DEF Queues, Announced
    <2> QED BY <1>1, <2>1, <2>2, <2>3, <2>4 DEF Queues
  <1>20. Drained'
    BY <1>2, <1>3, SameDrained
  <1> QED BY <1>13, <1>14, <1>16, <1>17, <1>18, <1>19, <1>20, FromParts
-----------------------------------------------------------------------------
(* Activations                                                              *)

LEMMA ActivateStep == ASSUME IInv, NEW e \in End, Activate(e), Flags' PROVE IInv'
  <1> DEFINE p == Peer(e)
  <1>1. p \in End /\ p # e /\ Peer(p) = e /\ End = {e, p}
    BY Peers
  <1>2. /\ Flags /\ Shapes /\ Boxes /\ References
        /\ Mail /\ Agreed /\ Links /\ Queues /\ Drained
    BY Parts DEF IInv
  <1>3. /\ e \notin terminal
        /\ mail' = [mail EXCEPT ![e] = Append(@, Cmd("activate"))]
        /\ refs' = [refs EXCEPT ![e] = @ + 1]
        /\ UNCHANGED <<state, out, pc, terminal, reader, freed>>
        /\ UNCHANGED <<in, items, live, link, held, owes>>
    BY DEF Activate, Sent, Retained, queueVars, ackVars
  <1>4. /\ mail' \in [End -> Seq(Command)] /\ mail'[p] = mail[p]
        /\ Len(mail'[e]) = Len(mail[e]) + 1
        /\ Content(mail'[e]) = Content(mail[e]) \cup {Cmd("activate")}
        /\ \A x \in End : Ordered(mail'[x])
    <2>1. \A c \in Content(mail[e]) : Follows(c, Cmd("activate"))
      BY Commands DEF Follows
    <2> QED BY <1>1, <1>2, <1>3, <2>1, Posted, Commands DEF Boxes
  <1>5. Shapes' /\ Boxes'
    BY <1>2, <1>3, <1>4 DEF Shapes, Boxes
  <1>6. References'
    <2>1. \A x \in End : /\ Running(x)' = Running(x) /\ Linked(x)' = Linked(x)
                         /\ Reading(x)' = Reading(x)
      BY <1>3 DEF Running, Linked, Reading
    <2>2. \A x \in End : /\ Len(mail[x]) \in Nat /\ Running(x) \in {0, 1}
                         /\ Linked(x) \in {0, 1} /\ Reading(x) \in {0, 1}
      BY <1>2, Sizes
    <2>3. \A x \in End : refs'[x] = Len(mail'[x]) + Running(x)' + Linked(x)' + Reading(x)'
      BY <1>1, <1>2, <1>3, <1>4, <2>1, <2>2 DEF References
    <2> QED BY <1>2, <1>3, <1>4, <2>3, Recount DEF References
  <1>7. /\ Agreed'
        /\ \A x \in End : (AckTaken(x)' <=> AckTaken(x)) /\ (SentAck(x)' <=> SentAck(x))
    BY <1>2, <1>3, SameAgreed
  <1>8. Mail'
    <2>1. \A x \in End : (SentTerm(x)' <=> SentTerm(x)) /\ (GotTerm(x)' <=> GotTerm(x))
      BY <1>3 DEF SentTerm, GotTerm
    <2>2. \A x \in End : \A c \in Content(mail[x]) : Expected(x, c)
      BY <1>2 DEF Mail
    <2>3. \A x \in End : \A c \in Content(mail[x]) : Expected(x, c)'
      BY <1>1, <1>3, <1>7, <2>1, <2>2 DEF Expected
    <2>4. Expected(e, Cmd("activate"))'
      BY Commands DEF Expected
    <2> QED BY <1>1, <1>4, <2>3, <2>4, MailFrom
  <1>9. Links'
    <2>1. refs'[p] = refs[p] /\ e \notin freed
      BY <1>1, <1>2, <1>3 DEF References, Shapes
    <2> QED BY <1>1, <1>2, <1>3, <1>7, <2>1 DEF Links
  <1>10. Queues'
    BY <1>1, <1>2, <1>3, <1>4, SameQueues
  <1>11. Drained'
    BY <1>2, <1>3, SameDrained
  <1> QED BY <1>5, <1>6, <1>7, <1>8, <1>9, <1>10, <1>11, FromParts

LEMMA ProcessActivateStep == ASSUME IInv, NEW e \in End, ProcessActivate(e), Flags' PROVE IInv'
  <1> DEFINE p == Peer(e)
  <1>1. p \in End /\ p # e /\ Peer(p) = e /\ End = {e, p}
    BY Peers
  <1>2. /\ Flags /\ Shapes /\ Boxes /\ References
        /\ Mail /\ Agreed /\ Links /\ Queues /\ Drained
    BY Parts DEF IInv
  <1>3. /\ mail[e] # <<>> /\ Head(mail[e]).type = "activate" /\ e \notin freed
        /\ mail' = [mail EXCEPT ![e] = Tail(@)]
        /\ refs' = [refs EXCEPT ![e] = @ - 1]
        /\ freed' = IF e \in terminal /\ refs[e] = 1 THEN freed \cup {e} ELSE freed
        /\ UNCHANGED <<state, out, pc, terminal, reader>>
        /\ UNCHANGED <<in, items, live, link, held, owes>>
    BY DEF ProcessActivate, Receives, Release, queueVars, ackVars
  <1>4. /\ Len(Tail(mail[e])) = Len(mail[e]) - 1 /\ Len(mail[e]) \in Nat
        /\ Content(mail[e]) = {Head(mail[e])} \cup Content(Tail(mail[e]))
    BY <1>2, <1>3, Head1 DEF Boxes
  <1>5. /\ mail' \in [End -> Seq(Command)] /\ mail'[e] = Tail(mail[e]) /\ mail'[p] = mail[p]
        /\ \A x \in End : Ordered(mail'[x])
    BY <1>1, <1>2, <1>3, Took DEF Boxes
  <1>6. Shapes' /\ Boxes'
    BY <1>2, <1>3, <1>5 DEF Shapes, Boxes
  <1>7. refs'[e] = refs[e] - 1 /\ refs'[p] = refs[p]
    BY <1>1, <1>2, <1>3 DEF References
  <1>8. References'
    <2>1. \A x \in End : /\ Running(x)' = Running(x) /\ Linked(x)' = Linked(x)
                         /\ Reading(x)' = Reading(x)
      BY <1>3 DEF Running, Linked, Reading
    <2>2. \A x \in End : /\ Len(mail[x]) \in Nat /\ Running(x) \in {0, 1}
                         /\ Linked(x) \in {0, 1} /\ Reading(x) \in {0, 1}
      BY <1>2, Sizes
    <2>3. Len(mail'[e]) = Len(mail[e]) - 1 /\ Len(mail'[p]) = Len(mail[p])
      BY <1>4, <1>5
    <2>4. refs'[e] = Len(mail'[e]) + Running(e)' + Linked(e)' + Reading(e)'
      BY <1>2, <1>7, <2>1, <2>2, <2>3 DEF References
    <2>5. refs'[p] = Len(mail'[p]) + Running(p)' + Linked(p)' + Reading(p)'
      BY <1>1, <1>2, <1>7, <2>1, <2>2, <2>3 DEF References
    <2>6. \A x \in End : refs'[x] = Len(mail'[x]) + Running(x)' + Linked(x)' + Reading(x)'
      BY <1>1, <2>4, <2>5
    <2> QED BY <1>2, <1>3, <1>5, <2>6, Recount DEF References
  <1>9. /\ Agreed'
        /\ \A x \in End : (AckTaken(x)' <=> AckTaken(x)) /\ (SentAck(x)' <=> SentAck(x))
    BY <1>2, <1>3, SameAgreed
  <1>10. Mail'
    <2>1. \A x \in End : (SentTerm(x)' <=> SentTerm(x)) /\ (GotTerm(x)' <=> GotTerm(x))
      BY <1>3 DEF SentTerm, GotTerm
    <2>2. \A x \in End : \A c \in Content(mail[x]) : Expected(x, c)
      BY <1>2 DEF Mail
    <2>3. \A x \in End : \A c \in Content(mail[x]) : Expected(x, c)'
      BY <1>1, <1>3, <1>9, <2>1, <2>2 DEF Expected
    <2> QED BY <1>1, <1>4, <1>5, <2>3, MailFrom
  <1>11. Links'
    <2>1. \A x \in freed' : refs'[x] = 0
      <3>1. \A x \in freed : x = p /\ refs[x] = 0
        BY <1>1, <1>2, <1>3 DEF Links, Shapes
      <3> QED BY <1>2, <1>3, <1>7, <3>1 DEF References
    <2> QED BY <1>1, <1>2, <1>3, <1>9, <2>1 DEF Links
  <1>12. Queues'
    <2>1. ASSUME NEW x \in End, NEW n \in 0 .. MaxHiccups,
                 [type |-> "hiccup", queue |-> n] \in Content(mail[x])
          PROVE  [type |-> "hiccup", queue |-> n] \in Content(mail'[x])
      <3>1. [type |-> "hiccup", queue |-> n] # Head(mail[e])
        BY <1>3, Commands
      <3> QED BY <1>1, <1>4, <1>5, <2>1, <3>1
    <2> QED BY <1>2, <1>3, <2>1, SameQueues
  <1>13. Drained'
    BY <1>2, <1>3, SameDrained
  <1> QED BY <1>6, <1>8, <1>9, <1>10, <1>11, <1>12, <1>13, FromParts
-----------------------------------------------------------------------------
(* process_pipe_term()                                                      *)

LEMMA ProcessPipeTermStep == ASSUME IInv, NEW e \in End, ProcessPipeTerm(e), Flags' PROVE IInv'
  <1> DEFINE p == Peer(e)
             q == items[InQ(e)]
             pending == q # <<>> /\ Head(q) = "msg"
             wait == state[e] = "waiting_for_delimiter"
                        \/ (state[e] = "active" /\ delay[e] /\ pending)
  <1>1. p \in End /\ p # e /\ Peer(p) = e /\ End = {e, p}
    BY Peers
  <1>2. /\ Flags /\ Shapes /\ Boxes /\ References
        /\ Mail /\ Agreed /\ Links /\ Queues /\ Drained
    BY Parts DEF IInv
  <1>3. /\ mail[e] # <<>> /\ Head(mail[e]).type = "pipe_term" /\ pc[e] = "idle"
        /\ items' = IF state[e] = "active" /\ q # <<>> /\ ~pending
                      THEN [items EXCEPT ![InQ(e)] = Tail(@)] ELSE items
        /\ UNCHANGED <<in, live, pc, terminal, reader, freed, link, held, owes>>
    BY DEF ProcessPipeTerm, Receives, ackVars
  <1>4. /\ Head(mail[e]) \in Command /\ Expected(e, Head(mail[e]))
        /\ Len(Tail(mail[e])) = Len(mail[e]) - 1 /\ Len(mail[e]) \in Nat
        /\ Content(mail[e]) = {Head(mail[e])} \cup Content(Tail(mail[e]))
        /\ \A c \in Content(Tail(mail[e])) : Expected(e, c) /\ Follows(Head(mail[e]), c)
    BY <1>2, <1>3, Head1 DEF Boxes
  <1>5. /\ SentTerm(p) /\ ~GotTerm(e) /\ ~AckTaken(e)
        /\ \A c \in Content(Tail(mail[e])) : c.type # "hiccup" /\ c.type # "pipe_term"
        /\ \A c \in Content(mail[e]) : c.type # "hiccup"
    BY <1>3, <1>4 DEF Expected, Follows
  <1>6. /\ state[e] \in {"active", "delimiter_received", "term_req_sent1"}
        /\ e \notin terminal /\ e \notin freed /\ e \notin owes /\ ~SentAck(e)
    BY <1>2, <1>5, NotYet DEF Shapes, States, GotTerm
  <1>7. /\ p \notin terminal /\ ~AckTaken(p)
        /\ \A c \in Content(mail[p]) : c.type # "pipe_term_ack"
    BY <1>6, NotAcknowledged
  <1>8. /\ out[e] # NoQueue /\ out[e] = in[p] /\ out[e] \in 0 .. MaxHiccups
        /\ NoQueue \notin 0 .. MaxHiccups
    <2>1. out[e] # NoQueue
      BY <1>2, <1>6 DEF Agreed
    <2> QED BY <1>5, <2>1, InStep DEF NoQueue
  <1>9. \A x \in End : /\ Running(x)' = Running(x) /\ Linked(x)' = Linked(x)
                       /\ Reading(x)' = Reading(x)
    BY <1>3 DEF Running, Linked, Reading
  <1>10. \A x \in End : /\ Len(mail[x]) \in Nat /\ Running(x) \in {0, 1}
                        /\ Linked(x) \in {0, 1} /\ Reading(x) \in {0, 1}
    BY <1>2, Sizes
  <1>11. \A x \in End : AckTaken(x)' <=> AckTaken(x)
    BY <1>3 DEF AckTaken
  <1>12. \A c \in Content(mail[p]) : Expected(p, c)
    BY <1>1, <1>2 DEF Mail
  <1>13. CASE wait
    <2>1. state[e] = "active" /\ delay[e] /\ pending
      BY <1>6, <1>13
    <2>2. /\ state' = [state EXCEPT ![e] = "waiting_for_delimiter"]
          /\ mail' = [mail EXCEPT ![e] = Tail(@)]
          /\ refs' = [refs EXCEPT ![e] = @ - 1]
          /\ UNCHANGED out
      BY <1>13, Zenon DEF ProcessPipeTerm
    <2>3. items' = items
      BY <1>3, <2>1
    <2>4. /\ mail' \in [End -> Seq(Command)] /\ mail'[e] = Tail(mail[e]) /\ mail'[p] = mail[p]
          /\ \A x \in End : Ordered(mail'[x])
      BY <1>1, <1>2, <1>3, <2>2, Took DEF Boxes
    <2>5. state'[e] = "waiting_for_delimiter" /\ state'[p] = state[p]
      BY <1>1, <1>2, <2>2 DEF Shapes
    <2>6. Shapes' /\ Boxes'
      BY <1>2, <1>3, <2>2, <2>3, <2>4 DEF Shapes, Boxes, States
    <2>7. refs'[e] = refs[e] - 1 /\ refs'[p] = refs[p]
      BY <1>1, <1>2, <2>2 DEF References
    <2>8. References'
      <3>1. Len(mail'[e]) = Len(mail[e]) - 1 /\ Len(mail'[p]) = Len(mail[p])
        BY <1>4, <2>4
      <3>2. refs'[e] = Len(mail'[e]) + Running(e)' + Linked(e)' + Reading(e)'
        BY <1>2, <1>9, <1>10, <2>7, <3>1 DEF References
      <3>3. refs'[p] = Len(mail'[p]) + Running(p)' + Linked(p)' + Reading(p)'
        BY <1>1, <1>2, <1>9, <1>10, <2>7, <3>1 DEF References
      <3>4. \A x \in End : refs'[x] = Len(mail'[x]) + Running(x)' + Linked(x)' + Reading(x)'
        BY <1>1, <3>2, <3>3
      <3> QED BY <1>2, <2>2, <2>4, <3>4, Recount DEF References
    <2>9. /\ \A x \in End : (SentTerm(x)' <=> SentTerm(x)) /\ (SentAck(x)' <=> SentAck(x))
          /\ GotTerm(p)' <=> GotTerm(p)
      BY <1>1, <1>3, <2>1, <2>5 DEF SentTerm, GotTerm, SentAck
    <2>10. Agreed'
      BY <1>1, <1>2, <1>3, <1>5, <1>6, <1>8, <1>11, <2>2, <2>5, <2>9 DEF Agreed
    <2>11. Mail'
      <3>1. \A c \in Content(mail'[e]) : Expected(e, c)'
        BY <1>1, <1>4, <1>5, <1>11, <2>4, <2>9 DEF Expected
      <3>2. \A c \in Content(mail'[p]) : Expected(p, c)'
        BY <1>1, <1>3, <1>11, <1>12, <2>2, <2>4, <2>9 DEF Expected
      <3> QED BY <2>4, <3>1, <3>2, MailFrom
    <2>12. Links'
      BY <1>1, <1>2, <1>3, <1>6, <1>11, <2>7 DEF Links
    <2>13. Queues'
      <3>1. ASSUME NEW x \in End, NEW n \in 0 .. MaxHiccups,
                   [type |-> "hiccup", queue |-> n] \in Content(mail[x])
            PROVE  [type |-> "hiccup", queue |-> n] \in Content(mail'[x])
        BY <1>1, <1>5, <2>4, <3>1, Commands
      <3> QED BY <1>2, <1>3, <2>2, <3>1, SameQueues
    <2>14. Drained'
      BY <1>1, <1>2, <1>3, <1>5, <2>1, <2>3, <2>5 DEF Drained, SentTerm
    <2> QED BY <2>6, <2>8, <2>10, <2>11, <2>12, <2>13, <2>14, FromParts
  <1>14. CASE ~wait
    <2>1. PICK as \in {"term_req_sent2", "term_ack_sent"} :
             /\ as = IF state[e] \in {"term_req_sent1", "term_req_sent2"}
                       THEN "term_req_sent2" ELSE "term_ack_sent"
             /\ AcknowledgeCommand(e, as)
             /\ out' = [out EXCEPT ![e] = NoQueue]
      BY <1>14, Zenon DEF ProcessPipeTerm
    <2>2. /\ state' = [state EXCEPT ![e] = as]
          /\ mail' = [[mail EXCEPT ![p] = Append(@, Cmd("pipe_term_ack"))] EXCEPT ![e] = Tail(@)]
          /\ refs' = [[refs EXCEPT ![p] = @ + 1] EXCEPT ![e] = @ - 1]
      BY <1>7, <2>1 DEF AcknowledgeCommand, Sent, Retained
    <2>3. /\ state'[e] = as /\ state'[p] = state[p] /\ out'[e] = NoQueue /\ out'[p] = out[p]
          /\ refs'[e] = refs[e] - 1 /\ refs'[p] = refs[p] + 1
      BY <1>1, <1>2, <2>1, <2>2 DEF Shapes, References
    <2>4. /\ mail' \in [End -> Seq(Command)] /\ mail'[e] = Tail(mail[e])
          /\ Len(mail'[p]) = Len(mail[p]) + 1
          /\ Content(mail'[p]) = Content(mail[p]) \cup {Cmd("pipe_term_ack")}
          /\ \A x \in End : Ordered(mail'[x])
      <3>1. \A d \in Content(mail[p]) : Follows(d, Cmd("pipe_term_ack"))
        BY <1>7, Commands DEF Follows
      <3> QED BY <1>1, <1>2, <1>3, <2>2, <3>1, Answered, Commands DEF Boxes
    <2>5. Shapes' /\ Boxes'
      <3>1. Shapes'
        BY <1>2, <1>3, <2>1, <2>2 DEF Shapes, States
      <3>2. items' \in [Queue -> Seq({"msg", "delimiter"})]
        <4>1. InQ(e) \in Queue
          BY <1>2 DEF Shapes, Queue, InQ
        <4>2. q \in Seq({"msg", "delimiter"})
          BY <1>2, <4>1 DEF Boxes
        <4>3. q # <<>> => Tail(q) \in Seq({"msg", "delimiter"})
          BY <4>2, HeadTailProperties
        <4> QED BY <1>2, <1>3, <4>1, <4>3 DEF Boxes
      <3> QED BY <2>4, <3>1, <3>2 DEF Boxes
    <2>6. References'
      <3>1. Len(mail'[e]) = Len(mail[e]) - 1
        BY <1>4, <2>4
      <3>2. refs'[e] = Len(mail'[e]) + Running(e)' + Linked(e)' + Reading(e)'
        <4>1. refs[e] = Len(mail[e]) + Running(e) + Linked(e) + Reading(e)
          BY <1>2 DEF References
        <4>2. refs[e] - 1 = (Len(mail[e]) - 1) + Running(e) + Linked(e) + Reading(e)
          BY <1>10, <4>1
        <4>3. /\ Running(e)' = Running(e) /\ Linked(e)' = Linked(e) /\ Reading(e)' = Reading(e)
          BY <1>9
        <4> QED BY <2>3, <3>1, <4>2, <4>3
      <3>3. refs'[p] = Len(mail'[p]) + Running(p)' + Linked(p)' + Reading(p)'
        BY <1>1, <1>2, <1>9, <1>10, <2>3, <2>4 DEF References
      <3>4. \A x \in End : refs'[x] = Len(mail'[x]) + Running(x)' + Linked(x)' + Reading(x)'
        BY <1>1, <3>2, <3>3
      <3>5. refs' = [x \in End |-> refs'[x]]
        BY <1>2, <2>2 DEF References
      <3> QED BY <2>4, <3>4, <3>5, Recount
    <2>7. /\ (SentTerm(e)' <=> SentTerm(e)) /\ (SentTerm(p)' <=> SentTerm(p))
          /\ SentAck(e)' /\ (SentAck(p)' <=> SentAck(p))
          /\ GotTerm(p)' <=> GotTerm(p)
      BY <1>1, <1>3, <1>6, <2>1, <2>3 DEF SentTerm, GotTerm, SentAck
    <2>8. Agreed'
      BY <1>1, <1>2, <1>3, <1>5, <1>6, <1>8, <1>11, <2>1, <2>3, <2>7 DEF Agreed
    <2>9. Mail'
      <3>1. \A c \in Content(mail'[e]) : Expected(e, c)'
        BY <1>1, <1>4, <1>5, <1>11, <2>4, <2>7 DEF Expected
      <3>2. \A c \in Content(mail[p]) : Expected(p, c)'
        BY <1>1, <1>3, <1>11, <1>12, <2>3, <2>7 DEF Expected
      <3>3. Expected(p, Cmd("pipe_term_ack"))'
        BY <1>1, <1>7, <1>11, <2>7, Commands DEF Expected
      <3> QED BY <2>4, <3>1, <3>2, <3>3, MailFrom
    <2>10. Links'
      <3>1. p \notin freed
        BY <1>2, <1>7 DEF Shapes
      <3> QED BY <1>1, <1>2, <1>3, <1>6, <1>11, <3>1 DEF Links
    <2>11. Queues'
      <3>1. ASSUME NEW n \in 0 .. MaxHiccups
            PROVE  (<<p, n>> \in live)' <=> Exists(p, n)'
        <4>1. <<p, n>> \in live <=> Exists(p, n)
          BY <1>1, <1>2 DEF Queues
        <4>2. Exists(p, n) <=> n = in[p]
          BY <1>1, <1>8 DEF Exists
        <4>3. Exists(p, n)' <=> n = in[p]
          BY <1>1, <1>3, <1>7, <2>3 DEF Exists
        <4> QED BY <1>3, <4>1, <4>2, <4>3
      <3>2. ASSUME NEW n \in 0 .. MaxHiccups
            PROVE  (<<e, n>> \in live)' <=> Exists(e, n)'
        BY <1>1, <1>2, <1>3, <2>3 DEF Queues, Exists
      <3>3. Announced(e)' /\ Announced(p)'
        BY <1>1, <1>2, <1>3, <2>3, <2>4 DEF Queues, Announced
      <3> QED BY <1>1, <3>1, <3>2, <3>3 DEF Queues
    <2>12. Drained'
      BY <1>1, <1>5, <2>1, <2>3 DEF Drained, SentTerm
    <2> QED BY <2>5, <2>6, <2>8, <2>9, <2>10, <2>11, <2>12, FromParts
  <1> QED BY <1>13, <1>14
-----------------------------------------------------------------------------
(* process_pipe_term_ack()                                                  *)

LEMMA AckBeginStep == ASSUME IInv, NEW e \in End, AckBegin(e), Flags' PROVE IInv'
  <1> DEFINE p == Peer(e)
  <1>1. p \in End /\ p # e /\ Peer(p) = e /\ End = {e, p}
    BY Peers
  <1>2. /\ Flags /\ Shapes /\ Boxes /\ References
        /\ Mail /\ Agreed /\ Links /\ Queues /\ Drained
    BY Parts DEF IInv
  <1>3. /\ mail[e] # <<>> /\ Head(mail[e]).type = "pipe_term_ack" /\ pc[e] = "idle"
        /\ mail' = [mail EXCEPT ![e] = Tail(@)]
        /\ pc' = [pc EXCEPT ![e] = "detach"]
        /\ UNCHANGED <<state, refs, terminal, reader, freed, in, items, live, link, held>>
        /\ IF state[e] = "term_req_sent1"
             THEN out' = [out EXCEPT ![e] = NoQueue] /\ owes' = owes \cup {e}
             ELSE UNCHANGED <<out, owes>>
    BY DEF AckBegin, Receives, lifeVars, queueVars
  <1>4. /\ Head(mail[e]) \in Command /\ Expected(e, Head(mail[e]))
        /\ Len(Tail(mail[e])) = Len(mail[e]) - 1 /\ Len(mail[e]) \in Nat
        /\ Content(mail[e]) = {Head(mail[e])} \cup Content(Tail(mail[e]))
        /\ \A c \in Content(Tail(mail[e])) : Expected(e, c) /\ Follows(Head(mail[e]), c)
    BY <1>2, <1>3, Head1 DEF Boxes
  <1>5. /\ mail' \in [End -> Seq(Command)] /\ mail'[e] = Tail(mail[e]) /\ mail'[p] = mail[p]
        /\ \A x \in End : Ordered(mail'[x])
    BY <1>1, <1>2, <1>3, Took DEF Boxes
  <1>6. /\ SentAck(p) /\ ~AckTaken(e)
        /\ \A c \in Content(mail[e]) : c.type # "hiccup"
        /\ \A c \in Content(Tail(mail[e])) :
              c.type \notin {"hiccup", "pipe_term", "pipe_term_ack"}
    BY <1>3, <1>4 DEF Expected, Follows
  <1>7. /\ e \notin terminal /\ e \notin freed /\ e \notin owes
        /\ state[e] = "term_req_sent1" => ~SentAck(e)
    BY <1>6, NotYet
  <1>8. pc'[e] = "detach" /\ pc'[p] = pc[p]
    BY <1>1, <1>2, <1>3 DEF Shapes
  <1>9. /\ out'[p] = out[p]
        /\ out'[e] = IF state[e] = "term_req_sent1" THEN NoQueue ELSE out[e]
        /\ \A x \in End : x \in owes' <=> x \in owes \/ (x = e /\ state[e] = "term_req_sent1")
    BY <1>1, <1>2, <1>3 DEF Shapes
  <1>10. Shapes' /\ Boxes'
    BY <1>2, <1>3, <1>5 DEF Shapes, Boxes
  <1>11. References'
    <2>1. /\ \A x \in End : Linked(x)' = Linked(x) /\ Reading(x)' = Reading(x)
          /\ Running(e) = 0 /\ Running(e)' = 1 /\ Running(p)' = Running(p)
      BY <1>3, <1>8 DEF Running, Linked, Reading
    <2>2. \A x \in End : /\ Len(mail[x]) \in Nat /\ Running(x) \in {0, 1}
                         /\ Linked(x) \in {0, 1} /\ Reading(x) \in {0, 1}
      BY <1>2, Sizes
    <2>3. Len(mail'[e]) = Len(mail[e]) - 1 /\ Len(mail'[p]) = Len(mail[p])
      BY <1>4, <1>5
    <2>4. refs'[e] = Len(mail'[e]) + Running(e)' + Linked(e)' + Reading(e)'
      BY <1>2, <1>3, <2>1, <2>2, <2>3 DEF References
    <2>5. refs'[p] = Len(mail'[p]) + Running(p)' + Linked(p)' + Reading(p)'
      BY <1>1, <1>2, <1>3, <2>1, <2>2, <2>3 DEF References
    <2>6. \A x \in End : refs'[x] = Len(mail'[x]) + Running(x)' + Linked(x)' + Reading(x)'
      BY <1>1, <2>4, <2>5
    <2> QED BY <1>2, <1>3, <1>5, <2>6, Recount DEF References
  <1>12. /\ \A x \in End : (SentTerm(x)' <=> SentTerm(x)) /\ (GotTerm(x)' <=> GotTerm(x))
         /\ \A x \in End : SentAck(x)' <=> SentAck(x)
         /\ AckTaken(e)' /\ (AckTaken(p)' <=> AckTaken(p))
    <2>1. \A x \in End : (SentTerm(x)' <=> SentTerm(x)) /\ (GotTerm(x)' <=> GotTerm(x))
      BY <1>3 DEF SentTerm, GotTerm
    <2>2. SentAck(e)' <=> SentAck(e)
      BY <1>3, <1>7, <1>8 DEF SentAck
    <2>3. SentAck(p)' <=> SentAck(p)
      BY <1>1, <1>3, <1>8, <1>9 DEF SentAck
    <2>4. AckTaken(e)' /\ (AckTaken(p)' <=> AckTaken(p))
      BY <1>3, <1>8 DEF AckTaken
    <2> QED BY <1>1, <2>1, <2>2, <2>3, <2>4
  <1>13. Mail'
    <2>1. \A c \in Content(mail'[e]) : Expected(e, c)'
      BY <1>5, <1>6 DEF Expected
    <2>2. \A c \in Content(mail[p]) : Expected(p, c)
      BY <1>1, <1>2 DEF Mail
    <2>3. \A c \in Content(mail'[p]) : Expected(p, c)'
      BY <1>1, <1>3, <1>5, <1>9, <1>12, <2>2 DEF Expected
    <2> QED BY <1>5, <2>1, <2>3, MailFrom
  <1>14. Agreed'
    <2>1. e \in owes' => state[e] = "term_req_sent1"
      BY <1>7, <1>9
    <2>2. out'[e] = NoQueue <=> (state[e] \in {"term_ack_sent", "term_req_sent2"} \/ e \in owes')
      BY <1>2, <1>7, <1>9 DEF Agreed
    <2> QED BY <1>1, <1>2, <1>3, <1>6, <1>7, <1>8, <1>9, <1>12, <2>1, <2>2 DEF Agreed
  <1>15. Links'
    <2>1. e \in owes' => link[e]
      <3>1. state[e] = "term_req_sent1" => ~AckTaken(p)
        BY <1>7, NotAcknowledged
      <3> QED BY <1>2, <1>6, <1>7, <1>9, <3>1 DEF Links
    <2> QED BY <1>1, <1>2, <1>3, <1>8, <1>9, <1>12, <2>1 DEF Links
  <1>16. Queues'
    <2>1. CASE state[e] # "term_req_sent1"
      <3>1. UNCHANGED out
        BY <1>3, <2>1
      <3>2. ASSUME NEW x \in End, NEW n \in 0 .. MaxHiccups,
                   [type |-> "hiccup", queue |-> n] \in Content(mail[x])
            PROVE  [type |-> "hiccup", queue |-> n] \in Content(mail'[x])
        BY <1>1, <1>5, <1>6, <3>2, Commands
      <3> QED BY <1>2, <1>3, <3>1, <3>2, SameQueues
    <2>2. CASE state[e] = "term_req_sent1"
      <3>1. out[e] # NoQueue
        BY <1>2, <1>7, <2>2 DEF Agreed
      <3>2. out[e] = in[p] /\ out[e] \in 0 .. MaxHiccups
        BY <1>6, <3>1, InStep
      <3>3. p \notin terminal
        BY <1>7, <2>2, NotAcknowledged
      <3>4. ASSUME NEW n \in 0 .. MaxHiccups
            PROVE  (<<p, n>> \in live)' <=> Exists(p, n)'
        <4>1. <<p, n>> \in live <=> Exists(p, n)
          BY <1>1, <1>2 DEF Queues
        <4>2. Exists(p, n) <=> n = in[p]
          BY <1>1, <3>1, <3>2 DEF Exists
        <4>3. Exists(p, n)' <=> n = in[p]
          BY <1>1, <1>3, <1>9, <2>2, <3>3 DEF Exists
        <4> QED BY <1>3, <4>1, <4>2, <4>3
      <3>5. ASSUME NEW n \in 0 .. MaxHiccups
            PROVE  (<<e, n>> \in live)' <=> Exists(e, n)'
        BY <1>1, <1>2, <1>3, <1>9 DEF Queues, Exists
      <3>6. Announced(e)' /\ Announced(p)'
        BY <1>1, <1>2, <1>3, <1>5, <1>9, <2>2 DEF Queues, Announced
      <3> QED BY <1>1, <3>4, <3>5, <3>6 DEF Queues
    <2> QED BY <2>1, <2>2
  <1>17. Drained'
    BY <1>1, <1>2, <1>3, <1>8, SameDrained
  <1> QED BY <1>10, <1>11, <1>13, <1>14, <1>15, <1>16, <1>17, FromParts

LEMMA DetachOwnStep == ASSUME IInv, NEW e \in End, DetachOwn(e), Flags' PROVE IInv'
  <1> DEFINE p == Peer(e)
  <1>1. p \in End /\ p # e /\ Peer(p) = e /\ End = {e, p}
    BY Peers
  <1>2. /\ Flags /\ Shapes /\ Boxes /\ References
        /\ Mail /\ Agreed /\ Links /\ Queues /\ Drained
    BY Parts DEF IInv
  <1>3. /\ pc[e] = "detach"
        /\ held' = IF link[e] THEN held \cup {e} ELSE held
        /\ link' = [link EXCEPT ![e] = FALSE]
        /\ pc' = [pc EXCEPT ![e] = IF link[e] THEN "back" ELSE "reply"]
        /\ UNCHANGED <<state, out, mail, refs, terminal, reader, freed, in, items, live, owes>>
    BY DEF DetachOwn, lifeVars, queueVars
  <1>4. /\ pc'[e] = (IF link[e] THEN "back" ELSE "reply") /\ pc'[p] = pc[p]
        /\ ~link'[e] /\ (link'[p] <=> link[p])
        /\ e \in held' <=> e \in held \/ link[e]
        /\ p \in held' <=> p \in held
    BY <1>1, <1>2, <1>3 DEF Shapes, Flags
  <1>5. Shapes' /\ Boxes'
    BY <1>1, <1>2, <1>3 DEF Shapes, Boxes
  <1>6. References'
    <2>1. \A x \in End : Running(x)' = Running(x)
      BY <1>1, <1>3, <1>4 DEF Running
    <2>2. \A x \in End : Reading(x)' = Reading(x)
      BY <1>3 DEF Reading
    <2>3. Linked(e)' = Linked(e) /\ Linked(p)' = Linked(p)
      BY <1>1, <1>4 DEF Linked
    <2>4. UNCHANGED <<mail, refs>>
      BY <1>3
    <2> QED BY <1>1, <1>2, <2>1, <2>2, <2>3, <2>4 DEF References
  <1>7. \A x \in End : /\ (SentTerm(x)' <=> SentTerm(x)) /\ (GotTerm(x)' <=> GotTerm(x))
                       /\ (AckTaken(x)' <=> AckTaken(x)) /\ (SentAck(x)' <=> SentAck(x))
    BY <1>1, <1>3, <1>4 DEF SentTerm, GotTerm, AckTaken, SentAck
  <1>8. Mail'
    BY <1>2, <1>3, <1>7, SameMail
  <1>9. Agreed'
    BY <1>1, <1>2, <1>3, <1>4, <1>7 DEF Agreed
  <1>10. Links'
    <2>1. AckTaken(e)
      BY <1>3 DEF AckTaken
    <2> QED BY <1>1, <1>2, <1>3, <1>4, <1>7, <2>1 DEF Links
  <1>11. Queues'
    BY <1>2, <1>3, SameQueues
  <1>12. Drained'
    BY <1>1, <1>2, <1>3, <1>4, SameDrained
  <1> QED BY <1>5, <1>6, <1>8, <1>9, <1>10, <1>11, <1>12, FromParts

LEMMA DetachBackStep == ASSUME IInv, NEW e \in End, DetachBack(e), Flags' PROVE IInv'
  <1> DEFINE p == Peer(e)
  <1>1. p \in End /\ p # e /\ Peer(p) = e /\ End = {e, p}
    BY Peers
  <1>2. /\ Flags /\ Shapes /\ Boxes /\ References
        /\ Mail /\ Agreed /\ Links /\ Queues /\ Drained
    BY Parts DEF IInv
  <1>3. /\ pc[e] = "back"
        /\ link' = [link EXCEPT ![p] = FALSE]
        /\ refs' = IF link[p] THEN [refs EXCEPT ![e] = @ - 1] ELSE refs
        /\ pc' = [pc EXCEPT ![e] = "reply"]
        /\ UNCHANGED <<state, out, mail, terminal, reader, freed, in, items, live, held, owes>>
    BY DEF DetachBack, queueVars
  <1>4. /\ pc'[e] = "reply" /\ pc'[p] = pc[p] /\ ~link'[p] /\ (link'[e] <=> link[e])
        /\ e \notin terminal /\ AckTaken(e) /\ e \notin freed
    BY <1>1, <1>2, <1>3 DEF Shapes, Flags, Agreed, AckTaken
  <1>5. Shapes' /\ Boxes'
    BY <1>1, <1>2, <1>3 DEF Shapes, Boxes
  <1>6. refs'[p] = refs[p] /\ refs'[e] = IF link[p] THEN refs[e] - 1 ELSE refs[e]
    BY <1>1, <1>2, <1>3 DEF References
  <1>7. References'
    <2>1. /\ \A x \in End : Running(x)' = Running(x)
          /\ \A x \in End : Reading(x)' = Reading(x)
      BY <1>1, <1>3, <1>4 DEF Running, Reading
    <2>2. \A x \in End : /\ Len(mail[x]) \in Nat /\ Running(x) \in {0, 1}
                         /\ Linked(x) \in {0, 1} /\ Reading(x) \in {0, 1}
      BY <1>2, Sizes
    <2>3. Linked(p)' = Linked(p)
      BY <1>1, <1>3, <1>4 DEF Linked
    <2>4. Linked(e)' = IF link[p] THEN Linked(e) - 1 ELSE Linked(e)
      BY <1>1, <1>2, <1>3, <1>4 DEF Linked, Links
    <2>5. refs'[e] = Len(mail'[e]) + Running(e)' + Linked(e)' + Reading(e)'
      BY <1>2, <1>3, <1>6, <2>1, <2>2, <2>4 DEF References
    <2>6. refs'[p] = Len(mail'[p]) + Running(p)' + Linked(p)' + Reading(p)'
      BY <1>1, <1>2, <1>3, <1>6, <2>1, <2>2, <2>3 DEF References
    <2>7. \A x \in End : refs'[x] = Len(mail'[x]) + Running(x)' + Linked(x)' + Reading(x)'
      BY <1>1, <2>5, <2>6
    <2>8. refs' = [x \in End |-> refs'[x]] /\ mail' \in [End -> Seq(Command)]
      BY <1>2, <1>3 DEF References, Boxes
    <2> QED BY <2>7, <2>8, Recount
  <1>8. \A x \in End : /\ (SentTerm(x)' <=> SentTerm(x)) /\ (GotTerm(x)' <=> GotTerm(x))
                       /\ (AckTaken(x)' <=> AckTaken(x)) /\ (SentAck(x)' <=> SentAck(x))
    BY <1>1, <1>3, <1>4 DEF SentTerm, GotTerm, AckTaken, SentAck
  <1>9. Mail'
    BY <1>2, <1>3, <1>8, SameMail
  <1>10. Agreed'
    BY <1>1, <1>2, <1>3, <1>4, <1>8 DEF Agreed
  <1>11. Links'
    <2>1. ~(p \in owes /\ pc[p] = "detach")
      <3>1. SentAck(p)
        BY <1>2, <1>4 DEF Agreed
      <3> QED BY <1>1, <1>2, <3>1 DEF SentAck, Agreed
    <2> QED BY <1>1, <1>2, <1>3, <1>4, <1>6, <1>8, <2>1 DEF Links
  <1>12. Queues'
    BY <1>2, <1>3, SameQueues
  <1>13. Drained'
    BY <1>1, <1>2, <1>3, <1>4, SameDrained
  <1> QED BY <1>5, <1>7, <1>9, <1>10, <1>11, <1>12, <1>13, FromParts

LEMMA AckReplyStep == ASSUME IInv, NEW e \in End, AckReply(e), Flags' PROVE IInv'
  <1> DEFINE p == Peer(e)
  <1>1. p \in End /\ p # e /\ Peer(p) = e /\ End = {e, p}
    BY Peers
  <1>2. /\ Flags /\ Shapes /\ Boxes /\ References
        /\ Mail /\ Agreed /\ Links /\ Queues /\ Drained
    BY Parts DEF IInv
  <1>3. /\ pc[e] = "reply" /\ pc' = [pc EXCEPT ![e] = "unlink"]
        /\ UNCHANGED <<state, out, terminal, reader, freed, in, items, live, link, held, owes>>
    BY DEF AckReply, queueVars, ackVars
  <1>4. pc'[e] = "unlink" /\ pc'[p] = pc[p] /\ e \notin terminal /\ AckTaken(e)
    BY <1>1, <1>2, <1>3 DEF Shapes, Agreed, AckTaken
  <1>5. /\ \A x \in End : /\ (SentTerm(x)' <=> SentTerm(x)) /\ (GotTerm(x)' <=> GotTerm(x))
                          /\ (AckTaken(x)' <=> AckTaken(x))
        /\ SentAck(p)' <=> SentAck(p)
        /\ e \notin owes => (SentAck(e)' <=> SentAck(e))
        /\ SentAck(e) => SentAck(e)'
    BY <1>1, <1>3, <1>4 DEF SentTerm, GotTerm, AckTaken, SentAck
  <1>6. Shapes'
    BY <1>1, <1>2, <1>3 DEF Shapes
  <1>7. Agreed'
    BY <1>1, <1>2, <1>3, <1>4, <1>5 DEF Agreed
  <1>8. Drained'
    BY <1>1, <1>2, <1>3, <1>4, SameDrained
  <1>9. \A x \in End : /\ Running(x)' = Running(x) /\ Linked(x)' = Linked(x)
                       /\ Reading(x)' = Reading(x)
    BY <1>1, <1>3, <1>4 DEF Running, Linked, Reading
  <1>10. CASE e \notin owes
    <2>1. UNCHANGED <<mail, refs>>
      BY <1>10 DEF AckReply
    <2>2. Boxes' /\ References'
      BY <1>2, <1>3, <1>9, <2>1 DEF Boxes, References
    <2>3. Mail'
      BY <1>1, <1>2, <1>3, <1>5, <1>10, <2>1, SameMail
    <2>4. Links'
      BY <1>1, <1>2, <1>3, <1>4, <1>5, <2>1 DEF Links
    <2>5. Queues'
      BY <1>2, <1>3, <2>1, SameQueues
    <2> QED BY <1>6, <1>7, <1>8, <2>2, <2>3, <2>4, <2>5, FromParts
  <1>11. CASE e \in owes
    <2>1. ~SentAck(e) /\ SentAck(e)'
      BY <1>2, <1>3, <1>4, <1>11 DEF SentAck, Agreed
    <2>2. /\ p \notin terminal /\ ~AckTaken(p)
          /\ \A c \in Content(mail[p]) : c.type # "pipe_term_ack"
      BY <2>1, NotAcknowledged
    <2>3. /\ mail' = [mail EXCEPT ![p] = Append(@, Cmd("pipe_term_ack"))]
          /\ refs' = [refs EXCEPT ![p] = @ + 1]
      BY <1>11, <2>2 DEF AckReply, Sent, Retained
    <2>4. /\ mail' \in [End -> Seq(Command)] /\ mail'[e] = mail[e]
          /\ Len(mail'[p]) = Len(mail[p]) + 1
          /\ Content(mail'[p]) = Content(mail[p]) \cup {Cmd("pipe_term_ack")}
          /\ \A x \in End : Ordered(mail'[x])
      <3>1. \A d \in Content(mail[p]) : Follows(d, Cmd("pipe_term_ack"))
        BY <2>2, Commands DEF Follows
      <3> QED BY <1>1, <1>2, <2>3, <3>1, Posted, Commands DEF Boxes
    <2>5. Boxes'
      BY <1>2, <1>3, <2>4 DEF Boxes
    <2>6. References'
      <3>1. \A x \in End : /\ Len(mail[x]) \in Nat /\ Running(x) \in {0, 1}
                           /\ Linked(x) \in {0, 1} /\ Reading(x) \in {0, 1}
        BY <1>2, Sizes
      <3>2. \A x \in End : refs'[x] = Len(mail'[x]) + Running(x)' + Linked(x)' + Reading(x)'
        BY <1>1, <1>2, <1>9, <2>3, <2>4, <3>1 DEF References
      <3> QED BY <1>2, <2>3, <2>4, <3>2, Recount DEF References
    <2>7. Mail'
      <3>1. \A c \in Content(mail[e]) : Expected(e, c)
        BY <1>2 DEF Mail
      <3>2. \A c \in Content(mail[p]) : Expected(p, c)
        BY <1>1, <1>2 DEF Mail
      <3>3. \A c \in Content(mail'[e]) : Expected(e, c)'
        BY <1>1, <1>3, <1>5, <2>4, <3>1 DEF Expected
      <3>4. \A c \in Content(mail[p]) : Expected(p, c)'
        BY <1>1, <1>3, <1>5, <3>2 DEF Expected
      <3>5. Expected(p, Cmd("pipe_term_ack"))'
        BY <1>1, <1>5, <2>1, <2>2, Commands DEF Expected
      <3> QED BY <2>4, <3>3, <3>4, <3>5, MailFrom
    <2>8. Links'
      <3>1. refs'[e] = refs[e] /\ p \notin freed
        BY <1>1, <1>2, <2>2, <2>3 DEF References, Shapes
      <3> QED BY <1>1, <1>2, <1>3, <1>4, <1>5, <3>1 DEF Links
    <2>9. Queues'
      BY <1>1, <1>2, <1>3, <2>4, SameQueues
    <2> QED BY <1>6, <1>7, <1>8, <2>5, <2>6, <2>7, <2>8, <2>9, FromParts
  <1> QED BY <1>10, <1>11

LEMMA UnlinkStep == ASSUME IInv, NEW e \in End, Unlink(e), Flags' PROVE IInv'
  <1> DEFINE p == Peer(e)
  <1>1. p \in End /\ p # e /\ Peer(p) = e /\ End = {e, p}
    BY Peers
  <1>2. /\ Flags /\ Shapes /\ Boxes /\ References
        /\ Mail /\ Agreed /\ Links /\ Queues /\ Drained
    BY Parts DEF IInv
  <1>3. /\ pc[e] = "unlink" /\ pc' = [pc EXCEPT ![e] = "finish"] /\ held' = held \ {e}
        /\ IF e \in held THEN Release(p) ELSE UNCHANGED <<refs, freed>>
        /\ UNCHANGED <<state, out, mail, terminal, reader, in, items, live, link, owes>>
    BY DEF Unlink, queueVars
  <1>4. /\ pc'[e] = "finish" /\ pc'[p] = pc[p] /\ e \notin terminal /\ AckTaken(e)
        /\ e \notin freed
    BY <1>1, <1>2, <1>3 DEF Shapes, Agreed, AckTaken
  <1>5. \A x \in End : /\ (SentTerm(x)' <=> SentTerm(x)) /\ (GotTerm(x)' <=> GotTerm(x))
                       /\ (AckTaken(x)' <=> AckTaken(x)) /\ (SentAck(x)' <=> SentAck(x))
    BY <1>1, <1>3, <1>4 DEF SentTerm, GotTerm, AckTaken, SentAck
  <1>6. \A x \in End : /\ Len(mail[x]) \in Nat /\ Running(x) \in {0, 1}
                       /\ Linked(x) \in {0, 1} /\ Reading(x) \in {0, 1}
    BY <1>2, Sizes
  <1>7. e \in held => Linked(p) = 1 /\ p \notin freed
    <2>1. e \in held => Linked(p) = 1
      BY <1>1 DEF Linked
    <2>2. e \in held => refs[p] # 0
      BY <1>1, <1>2, <1>6, <2>1 DEF References
    <2> QED BY <1>1, <1>2, <2>1, <2>2 DEF Links
  <1>8. /\ freed' = IF e \in held /\ p \in terminal /\ refs[p] = 1 THEN freed \cup {p} ELSE freed
        /\ refs' = IF e \in held THEN [refs EXCEPT ![p] = @ - 1] ELSE refs
    BY <1>3 DEF Release
  <1>9. refs'[e] = refs[e] /\ refs'[p] = IF e \in held THEN refs[p] - 1 ELSE refs[p]
    BY <1>1, <1>2, <1>8 DEF References
  <1>10. Shapes' /\ Boxes'
    BY <1>1, <1>2, <1>3, <1>8 DEF Shapes, Boxes
  <1>11. References'
    <2>1. /\ \A x \in End : Running(x)' = Running(x)
          /\ \A x \in End : Reading(x)' = Reading(x)
      BY <1>1, <1>3, <1>4 DEF Running, Reading
    <2>2. Linked(e)' = Linked(e)
      BY <1>1, <1>3 DEF Linked
    <2>3. Linked(p)' = IF e \in held THEN Linked(p) - 1 ELSE Linked(p)
      BY <1>1, <1>2, <1>3 DEF Linked, Links
    <2>4. refs'[e] = Len(mail'[e]) + Running(e)' + Linked(e)' + Reading(e)'
      BY <1>2, <1>3, <1>6, <1>9, <2>1, <2>2 DEF References
    <2>5. refs'[p] = Len(mail'[p]) + Running(p)' + Linked(p)' + Reading(p)'
      BY <1>1, <1>2, <1>3, <1>6, <1>9, <2>1, <2>3 DEF References
    <2>6. \A x \in End : refs'[x] = Len(mail'[x]) + Running(x)' + Linked(x)' + Reading(x)'
      BY <1>1, <2>4, <2>5
    <2>7. refs' = [x \in End |-> refs'[x]] /\ mail' \in [End -> Seq(Command)]
      BY <1>2, <1>3, <1>8 DEF References, Boxes
    <2> QED BY <2>6, <2>7, Recount
  <1>12. Mail'
    BY <1>2, <1>3, <1>5, SameMail
  <1>13. Agreed'
    BY <1>1, <1>2, <1>3, <1>4, <1>5 DEF Agreed
  <1>14. Links'
    <2>1. \A x \in freed' : refs'[x] = 0
      BY <1>1, <1>2, <1>4, <1>7, <1>8, <1>9 DEF Links, Shapes, References
    <2> QED BY <1>1, <1>2, <1>3, <1>4, <1>5, <2>1 DEF Links
  <1>15. Queues'
    BY <1>2, <1>3, SameQueues
  <1>16. Drained'
    BY <1>1, <1>2, <1>3, <1>4, SameDrained
  <1> QED BY <1>10, <1>11, <1>12, <1>13, <1>14, <1>15, <1>16, FromParts

LEMMA FinishStep == ASSUME IInv, NEW e \in End, Finish(e), Flags' PROVE IInv'
  <1> DEFINE p == Peer(e)
  <1>1. p \in End /\ p # e /\ Peer(p) = e /\ End = {e, p}
    BY Peers
  <1>2. /\ Flags /\ Shapes /\ Boxes /\ References
        /\ Mail /\ Agreed /\ Links /\ Queues /\ Drained
    BY Parts DEF IInv
  <1>3. /\ pc[e] = "finish" /\ pc' = [pc EXCEPT ![e] = "release"]
        /\ live' = IF reader[e] = "reading" THEN live ELSE live \ {<<e, in[e]>>}
        /\ terminal' = terminal \cup {e}
        /\ UNCHANGED <<state, out, mail, refs, reader, freed, in, items, link, held, owes>>
    BY DEF Finish, ackVars, InQ
  <1>4. pc'[e] = "release" /\ pc'[p] = pc[p] /\ e \notin terminal /\ AckTaken(e)
    BY <1>1, <1>2, <1>3 DEF Shapes, Agreed, AckTaken
  <1>5. \A x \in End : /\ (SentTerm(x)' <=> SentTerm(x)) /\ (GotTerm(x)' <=> GotTerm(x))
                       /\ (AckTaken(x)' <=> AckTaken(x)) /\ (SentAck(x)' <=> SentAck(x))
    BY <1>1, <1>3, <1>4 DEF SentTerm, GotTerm, AckTaken, SentAck
  <1>6. Shapes' /\ Boxes'
    BY <1>1, <1>2, <1>3 DEF Shapes, Boxes
  <1>7. References'
    <2>1. \A x \in End : /\ Running(x)' = Running(x) /\ Linked(x)' = Linked(x)
                         /\ Reading(x)' = Reading(x)
      BY <1>1, <1>3, <1>4 DEF Running, Linked, Reading
    <2> QED BY <1>2, <1>3, <2>1 DEF References
  <1>8. Mail'
    BY <1>2, <1>3, <1>5, SameMail
  <1>9. Agreed'
    BY <1>1, <1>2, <1>3, <1>4, <1>5 DEF Agreed
  <1>10. Links'
    BY <1>1, <1>2, <1>3, <1>4, <1>5 DEF Links
  <1>11. Queues'
    <2>1. out[p] = NoQueue
      <3>1. SentAck(p)
        BY <1>2, <1>4 DEF Agreed
      <3> QED BY <1>1, <1>2, <3>1 DEF Agreed, SentAck
    <2>2. ASSUME NEW n \in 0 .. MaxHiccups
          PROVE  (<<e, n>> \in live)' <=> Exists(e, n)'
      <3>1. <<e, n>> \in live <=> n = in[e]
        BY <1>2, <1>4, <2>1 DEF Queues, Exists
      <3>2. Exists(e, n)' <=> n = in[e] /\ reader[e] = "reading"
        BY <1>3, <2>1 DEF Exists
      <3> QED BY <1>3, <3>1, <3>2
    <2>3. ASSUME NEW n \in 0 .. MaxHiccups
          PROVE  (<<p, n>> \in live)' <=> Exists(p, n)'
      <3>1. <<p, n>> \in live <=> Exists(p, n)
        BY <1>1, <1>2 DEF Queues
      <3>2. (<<p, n>> \in live)' <=> <<p, n>> \in live
        BY <1>1, <1>3
      <3>3. Exists(p, n)' <=> Exists(p, n)
        BY <1>1, <1>3 DEF Exists
      <3> QED BY <3>1, <3>2, <3>3
    <2>4. Announced(e)' /\ Announced(p)'
      BY <1>1, <1>2, <1>3 DEF Queues, Announced
    <2> QED BY <1>1, <2>2, <2>3, <2>4 DEF Queues
  <1>12. Drained'
    BY <1>1, <1>2, <1>3, <1>4, SameDrained
  <1> QED BY <1>6, <1>7, <1>8, <1>9, <1>10, <1>11, <1>12, FromParts

LEMMA ReleaseCommandStep == ASSUME IInv, NEW e \in End, ReleaseCommand(e), Flags' PROVE IInv'
  <1> DEFINE p == Peer(e)
  <1>1. p \in End /\ p # e /\ Peer(p) = e /\ End = {e, p}
    BY Peers
  <1>2. /\ Flags /\ Shapes /\ Boxes /\ References
        /\ Mail /\ Agreed /\ Links /\ Queues /\ Drained
    BY Parts DEF IInv
  <1>3. /\ pc[e] = "release" /\ pc' = [pc EXCEPT ![e] = "idle"]
        /\ refs' = [refs EXCEPT ![e] = @ - 1]
        /\ freed' = IF e \in terminal /\ refs[e] = 1 THEN freed \cup {e} ELSE freed
        /\ UNCHANGED <<state, out, mail, terminal, reader, in, items, live, link, held, owes>>
    BY DEF ReleaseCommand, Release, queueVars, ackVars
  <1>4. pc'[e] = "idle" /\ pc'[p] = pc[p] /\ e \in terminal
    BY <1>1, <1>2, <1>3 DEF Shapes, Agreed
  <1>5. \A x \in End : /\ (SentTerm(x)' <=> SentTerm(x)) /\ (GotTerm(x)' <=> GotTerm(x))
                       /\ (AckTaken(x)' <=> AckTaken(x)) /\ (SentAck(x)' <=> SentAck(x))
    BY <1>1, <1>3, <1>4 DEF SentTerm, GotTerm, AckTaken, SentAck
  <1>6. Shapes' /\ Boxes'
    BY <1>1, <1>2, <1>3, <1>4 DEF Shapes, Boxes
  <1>7. refs'[e] = refs[e] - 1 /\ refs'[p] = refs[p]
    BY <1>1, <1>2, <1>3 DEF References
  <1>8. \A x \in End : /\ Len(mail[x]) \in Nat /\ Running(x) \in {0, 1}
                       /\ Linked(x) \in {0, 1} /\ Reading(x) \in {0, 1}
    BY <1>2, Sizes
  <1>9. Running(e) = 1 /\ Running(e)' = 0 /\ Running(p)' = Running(p)
    BY <1>3, <1>4 DEF Running
  <1>10. References'
    <2>1. \A x \in End : Linked(x)' = Linked(x) /\ Reading(x)' = Reading(x)
      BY <1>3 DEF Linked, Reading
    <2>2. refs'[e] = Len(mail'[e]) + Running(e)' + Linked(e)' + Reading(e)'
      BY <1>2, <1>3, <1>7, <1>8, <1>9, <2>1 DEF References
    <2>3. refs'[p] = Len(mail'[p]) + Running(p)' + Linked(p)' + Reading(p)'
      BY <1>1, <1>2, <1>3, <1>7, <1>8, <1>9, <2>1 DEF References
    <2>4. \A x \in End : refs'[x] = Len(mail'[x]) + Running(x)' + Linked(x)' + Reading(x)'
      BY <1>1, <2>2, <2>3
    <2>5. refs' = [x \in End |-> refs'[x]] /\ mail' \in [End -> Seq(Command)]
      BY <1>2, <1>3 DEF References, Boxes
    <2> QED BY <2>4, <2>5, Recount
  <1>11. Mail'
    BY <1>2, <1>3, <1>5, SameMail
  <1>12. Agreed'
    BY <1>1, <1>2, <1>3, <1>4, <1>5 DEF Agreed
  <1>13. Links'
    <2>1. e \notin freed
      <3>1. refs[e] # 0
        BY <1>2, <1>8, <1>9 DEF References
      <3> QED BY <1>2, <3>1 DEF Links
    <2>2. \A x \in freed' : refs'[x] = 0
      BY <1>1, <1>2, <1>3, <1>7, <2>1 DEF Links, Shapes, References
    <2> QED BY <1>1, <1>2, <1>3, <1>4, <1>5, <2>2 DEF Links
  <1>14. Queues'
    BY <1>2, <1>3, SameQueues
  <1>15. Drained'
    BY <1>1, <1>2, <1>3, <1>4, SameDrained
  <1> QED BY <1>6, <1>10, <1>11, <1>12, <1>13, <1>14, <1>15, FromParts
-----------------------------------------------------------------------------
(* The completion reader.                                                   *)

LEMMA ReaderEnterStep == ASSUME IInv, NEW e \in End, ReaderEnter(e), Flags' PROVE IInv'
  <1> DEFINE p == Peer(e)
  <1>1. p \in End /\ p # e /\ Peer(p) = e /\ End = {e, p}
    BY Peers
  <1>2. /\ Flags /\ Shapes /\ Boxes /\ References
        /\ Mail /\ Agreed /\ Links /\ Queues /\ Drained
    BY Parts DEF IInv
  <1>3. /\ e \notin terminal /\ reader[e] = "none"
        /\ reader' = [reader EXCEPT ![e] = "reading"]
        /\ refs' = [refs EXCEPT ![e] = @ + 1]
        /\ UNCHANGED <<state, out, mail, pc, terminal, freed, in, items, live, link, held, owes>>
    BY DEF ReaderEnter, Retained, queueVars, ackVars
  <1>4. reader'[e] = "reading" /\ reader'[p] = reader[p]
    BY <1>1, <1>2, <1>3 DEF Shapes
  <1>5. Shapes' /\ Boxes'
    BY <1>1, <1>2, <1>3 DEF Shapes, Boxes
  <1>6. refs'[e] = refs[e] + 1 /\ refs'[p] = refs[p]
    BY <1>1, <1>2, <1>3 DEF References
  <1>7. References'
    <2>1. \A x \in End : /\ Len(mail[x]) \in Nat /\ Running(x) \in {0, 1}
                         /\ Linked(x) \in {0, 1} /\ Reading(x) \in {0, 1}
      BY <1>2, Sizes
    <2>2. /\ \A x \in End : Running(x)' = Running(x) /\ Linked(x)' = Linked(x)
          /\ Reading(e) = 0 /\ Reading(e)' = 1 /\ Reading(p)' = Reading(p)
      BY <1>3, <1>4 DEF Running, Linked, Reading
    <2>3. refs'[e] = Len(mail'[e]) + Running(e)' + Linked(e)' + Reading(e)'
      BY <1>2, <1>3, <1>6, <2>1, <2>2 DEF References
    <2>4. refs'[p] = Len(mail'[p]) + Running(p)' + Linked(p)' + Reading(p)'
      BY <1>1, <1>2, <1>3, <1>6, <2>1, <2>2 DEF References
    <2>5. \A x \in End : refs'[x] = Len(mail'[x]) + Running(x)' + Linked(x)' + Reading(x)'
      BY <1>1, <2>3, <2>4
    <2>6. refs' = [x \in End |-> refs'[x]] /\ mail' \in [End -> Seq(Command)]
      BY <1>2, <1>3 DEF References, Boxes
    <2> QED BY <2>5, <2>6, Recount
  <1>8. /\ Agreed'
        /\ \A x \in End : (AckTaken(x)' <=> AckTaken(x)) /\ (SentAck(x)' <=> SentAck(x))
    BY <1>2, <1>3, SameAgreed
  <1>9. Mail'
    BY <1>2, <1>3, <1>8, SameMail
  <1>10. Links'
    <2>1. e \notin freed
      BY <1>2, <1>3 DEF Shapes
    <2> QED BY <1>1, <1>2, <1>3, <1>6, <1>8, <2>1 DEF Links
  <1>11. Queues'
    <2>1. ASSUME NEW x \in End, NEW n \in 0 .. MaxHiccups PROVE Exists(x, n)' <=> Exists(x, n)
      BY <1>1, <1>3, <1>4 DEF Exists
    <2>2. \A x \in End : Announced(x)'
      BY <1>2, <1>3 DEF Queues, Announced
    <2> QED BY <1>2, <1>3, <2>1, <2>2 DEF Queues
  <1>12. Drained'
    BY <1>2, <1>3, SameDrained
  <1> QED BY <1>5, <1>7, <1>8, <1>9, <1>10, <1>11, <1>12, FromParts

LEMMA ReaderLeaveStep == ASSUME IInv, NEW e \in End, ReaderLeave(e), Flags' PROVE IInv'
  <1> DEFINE p == Peer(e)
  <1>1. p \in End /\ p # e /\ Peer(p) = e /\ End = {e, p}
    BY Peers
  <1>2. /\ Flags /\ Shapes /\ Boxes /\ References
        /\ Mail /\ Agreed /\ Links /\ Queues /\ Drained
    BY Parts DEF IInv
  <1>3. /\ reader[e] = "reading" /\ reader' = [reader EXCEPT ![e] = "leaving"]
        /\ live' = IF e \in terminal THEN live \ {<<e, in[e]>>} ELSE live
        /\ UNCHANGED <<state, out, mail, pc, refs, terminal, freed, in, items, link, held, owes>>
    BY DEF ReaderLeave, ackVars, InQ
  <1>4. reader'[e] = "leaving" /\ reader'[p] = reader[p]
    BY <1>1, <1>2, <1>3 DEF Shapes
  <1>5. Shapes' /\ Boxes'
    BY <1>1, <1>2, <1>3 DEF Shapes, Boxes
  <1>6. References'
    <2>1. \A x \in End : /\ Running(x)' = Running(x) /\ Linked(x)' = Linked(x)
                         /\ Reading(x)' = Reading(x)
      BY <1>1, <1>3, <1>4 DEF Running, Linked, Reading
    <2> QED BY <1>2, <1>3, <2>1 DEF References
  <1>7. /\ Agreed'
        /\ \A x \in End : (AckTaken(x)' <=> AckTaken(x)) /\ (SentAck(x)' <=> SentAck(x))
    BY <1>2, <1>3, SameAgreed
  <1>8. Mail'
    BY <1>2, <1>3, <1>7, SameMail
  <1>9. Links'
    BY <1>1, <1>2, <1>3, <1>7 DEF Links
  <1>10. Queues'
    <2>1. e \in terminal => out[p] = NoQueue
      <3>1. e \in terminal => SentAck(p)
        BY <1>2 DEF Agreed, AckTaken
      <3> QED BY <1>1, <1>2, <3>1 DEF Agreed, SentAck
    <2>2. ASSUME NEW n \in 0 .. MaxHiccups
          PROVE  (<<e, n>> \in live)' <=> Exists(e, n)'
      <3>1. <<e, n>> \in live <=> Exists(e, n)
        BY <1>2 DEF Queues
      <3>2. CASE e \in terminal
        <4>1. <<e, n>> \in live <=> n = in[e]
          BY <1>3, <2>1, <3>1, <3>2 DEF Exists
        <4>2. ~Exists(e, n)'
          BY <1>3, <1>4, <2>1, <3>2 DEF Exists
        <4> QED BY <1>3, <3>2, <4>1, <4>2
      <3>3. CASE e \notin terminal
        BY <1>3, <3>1, <3>3 DEF Exists
      <3> QED BY <3>2, <3>3
    <2>3. ASSUME NEW n \in 0 .. MaxHiccups
          PROVE  (<<p, n>> \in live)' <=> Exists(p, n)'
      <3>1. <<p, n>> \in live <=> Exists(p, n)
        BY <1>1, <1>2 DEF Queues
      <3>2. (<<p, n>> \in live)' <=> <<p, n>> \in live
        BY <1>1, <1>3
      <3>3. Exists(p, n)' <=> Exists(p, n)
        BY <1>1, <1>3, <1>4 DEF Exists
      <3> QED BY <3>1, <3>2, <3>3
    <2>4. Announced(e)' /\ Announced(p)'
      BY <1>1, <1>2, <1>3 DEF Queues, Announced
    <2> QED BY <1>1, <2>2, <2>3, <2>4 DEF Queues
  <1>11. Drained'
    BY <1>2, <1>3, SameDrained
  <1> QED BY <1>5, <1>6, <1>7, <1>8, <1>9, <1>10, <1>11, FromParts

LEMMA ReaderGoneStep == ASSUME IInv, NEW e \in End, ReaderGone(e), Flags' PROVE IInv'
  <1> DEFINE p == Peer(e)
  <1>1. p \in End /\ p # e /\ Peer(p) = e /\ End = {e, p}
    BY Peers
  <1>2. /\ Flags /\ Shapes /\ Boxes /\ References
        /\ Mail /\ Agreed /\ Links /\ Queues /\ Drained
    BY Parts DEF IInv
  <1>3. /\ reader[e] = "leaving" /\ reader' = [reader EXCEPT ![e] = "none"]
        /\ refs' = [refs EXCEPT ![e] = @ - 1]
        /\ freed' = IF e \in terminal /\ refs[e] = 1 THEN freed \cup {e} ELSE freed
        /\ UNCHANGED <<state, out, mail, pc, terminal, in, items, live, link, held, owes>>
    BY DEF ReaderGone, Release, queueVars, ackVars
  <1>4. reader'[e] = "none" /\ reader'[p] = reader[p]
    BY <1>1, <1>2, <1>3 DEF Shapes
  <1>5. Shapes' /\ Boxes'
    BY <1>1, <1>2, <1>3 DEF Shapes, Boxes
  <1>6. refs'[e] = refs[e] - 1 /\ refs'[p] = refs[p]
    BY <1>1, <1>2, <1>3 DEF References
  <1>7. \A x \in End : /\ Len(mail[x]) \in Nat /\ Running(x) \in {0, 1}
                       /\ Linked(x) \in {0, 1} /\ Reading(x) \in {0, 1}
    BY <1>2, Sizes
  <1>8. Reading(e) = 1 /\ Reading(e)' = 0 /\ Reading(p)' = Reading(p)
    BY <1>3, <1>4 DEF Reading
  <1>9. References'
    <2>1. \A x \in End : Running(x)' = Running(x) /\ Linked(x)' = Linked(x)
      BY <1>3 DEF Running, Linked
    <2>2. refs'[e] = Len(mail'[e]) + Running(e)' + Linked(e)' + Reading(e)'
      BY <1>2, <1>3, <1>6, <1>7, <1>8, <2>1 DEF References
    <2>3. refs'[p] = Len(mail'[p]) + Running(p)' + Linked(p)' + Reading(p)'
      BY <1>1, <1>2, <1>3, <1>6, <1>7, <1>8, <2>1 DEF References
    <2>4. \A x \in End : refs'[x] = Len(mail'[x]) + Running(x)' + Linked(x)' + Reading(x)'
      BY <1>1, <2>2, <2>3
    <2>5. refs' = [x \in End |-> refs'[x]] /\ mail' \in [End -> Seq(Command)]
      BY <1>2, <1>3 DEF References, Boxes
    <2> QED BY <2>4, <2>5, Recount
  <1>10. /\ Agreed'
         /\ \A x \in End : (AckTaken(x)' <=> AckTaken(x)) /\ (SentAck(x)' <=> SentAck(x))
    BY <1>2, <1>3, SameAgreed
  <1>11. Mail'
    BY <1>2, <1>3, <1>10, SameMail
  <1>12. Links'
    <2>1. e \notin freed
      <3>1. refs[e] # 0
        BY <1>2, <1>7, <1>8 DEF References
      <3> QED BY <1>2, <3>1 DEF Links
    <2>2. \A x \in freed' : refs'[x] = 0
      BY <1>1, <1>2, <1>3, <1>6, <2>1 DEF Links, Shapes, References
    <2> QED BY <1>1, <1>2, <1>3, <1>10, <2>2 DEF Links
  <1>13. Queues'
    BY <1>1, <1>2, <1>3, <1>4, SameQueues
  <1>14. Drained'
    BY <1>2, <1>3, SameDrained
  <1> QED BY <1>5, <1>9, <1>10, <1>11, <1>12, <1>13, <1>14, FromParts
-----------------------------------------------------------------------------
(* The invariant, and what it says.                                         *)

LEMMA InitIInv == Init => IInv
  <1> SUFFICES ASSUME Init PROVE IInv
    OBVIOUS
  <1>1. MaxHiccups \in Nat
    BY EndsAssumption
  <1>2. \A e \in End : Peer(e) \in End /\ Peer(e) # e /\ Peer(Peer(e)) = e
    BY Peers
  <1>3. /\ \A e \in End : /\ mail[e] = <<>> /\ pc[e] = "idle" /\ refs[e] = 1
                          /\ reader[e] = "none" /\ state[e] = "active"
                          /\ in[e] = 0 /\ out[e] = 0
        /\ \A e \in End : link[e]
        /\ terminal = {} /\ freed = {} /\ held = {} /\ owes = {}
        /\ live = {<<e, 0>> : e \in End}
        /\ items = [q \in Queue |-> <<>>]
    BY DEF Init
  <1>4. \A S : <<>> \in Seq(S) /\ Len(<<>>) = 0
    BY EmptySeq
  <1>5. Flags
    BY Zenon DEF Init, Flags
  <1>6. Shapes
    BY <1>1 DEF Init, Shapes, States, Queue, NoQueue
  <1>7. Boxes
    BY <1>4 DEF Init, Boxes
  <1>8. References
    <2>1. \A e \in End : Len(mail[e]) = 0
      BY <1>3, <1>4
    <2>2. \A e \in End : Running(e) = 0 /\ Linked(e) = 1 /\ Reading(e) = 0
      BY <1>2, <1>3 DEF Running, Linked, Reading
    <2>3. refs \in [End -> Nat]
      BY DEF Init
    <2> QED BY <1>3, <2>1, <2>2, <2>3 DEF References
  <1>9. Content(<<>>) = {} /\ Ordered(<<>>)
    BY <1>4 DEF Content, Ordered
  <1>10. Mail
    BY <1>3, <1>9 DEF Mail
  <1>11. Agreed
    <2>1. 0 # NoQueue
      BY DEF NoQueue
    <2>2. \A e \in End : ~GotTerm(e) /\ ~AckTaken(e)
      BY <1>3 DEF GotTerm, AckTaken
    <2> QED BY <1>3, <2>1, <2>2 DEF Agreed
  <1>12. Links
    BY <1>3 DEF Links
  <1>13. Queues
    <2>1. ASSUME NEW e \in End, NEW n \in 0 .. MaxHiccups
          PROVE  <<e, n>> \in live <=> Exists(e, n)
      <3>1. <<e, n>> \in live <=> n = 0
        BY <1>3
      <3>2. Exists(e, n) <=> n = 0
        BY <1>2, <1>3 DEF Exists, NoQueue
      <3> QED BY <3>1, <3>2
    <2>2. ASSUME NEW e \in End PROVE Announced(e)
      BY <1>2, <1>3 DEF Announced
    <2> QED BY <2>1, <2>2 DEF Queues
  <1>14. Drained
    <2>1. \A e \in End, n \in 0 .. MaxHiccups : Len(items[<<e, n>>]) = 0
      BY <1>3, <1>4 DEF Queue
    <2> QED BY <1>3, <2>1 DEF Drained
  <1> QED BY <1>5, <1>6, <1>7, <1>8, <1>10, <1>11, <1>12, <1>13, <1>14, Parts DEF IInv

LEMMA NextIInv == IInv /\ [Next]_vars => IInv'
  <1>1. ASSUME IInv, Next PROVE IInv'
    <2>1. Flags'
      BY <1>1, FlagsStep, Parts DEF IInv
    <2>2. PICK e \in End :
             \/ Write(e) \/ Read(e) \/ SetNodelay(e) \/ Hiccup(e) \/ Activate(e)
             \/ \E d \in BOOLEAN : Terminate(e, d)
             \/ Handle(e)
             \/ ReaderEnter(e) \/ ReaderLeave(e) \/ ReaderGone(e)
      BY <1>1 DEF Next
    <2>3. CASE Write(e) \/ Read(e) \/ SetNodelay(e) \/ Hiccup(e) \/ Activate(e)
      BY <1>1, <2>1, <2>3, WriteStep, ReadStep, SetNodelayStep, HiccupStep, ActivateStep
    <2>4. CASE \E d \in BOOLEAN : Terminate(e, d)
      BY <1>1, <2>1, <2>4, TerminateStep
    <2>5. CASE ReaderEnter(e) \/ ReaderLeave(e) \/ ReaderGone(e)
      BY <1>1, <2>1, <2>5, ReaderEnterStep, ReaderLeaveStep, ReaderGoneStep
    <2>6. CASE ProcessDelimiter(e) \/ ProcessHiccup(e) \/ ProcessPipeTerm(e) \/ ProcessActivate(e)
      BY <1>1, <2>1, <2>6, ProcessDelimiterStep, ProcessHiccupStep, ProcessPipeTermStep,
         ProcessActivateStep
    <2>7. CASE AckBegin(e) \/ DetachOwn(e) \/ DetachBack(e) \/ AckReply(e)
      BY <1>1, <2>1, <2>7, AckBeginStep, DetachOwnStep, DetachBackStep, AckReplyStep
    <2>8. CASE Unlink(e) \/ Finish(e) \/ ReleaseCommand(e)
      BY <1>1, <2>1, <2>8, UnlinkStep, FinishStep, ReleaseCommandStep
    <2> QED BY <2>2, <2>3, <2>4, <2>5, <2>6, <2>7, <2>8 DEF Handle
  <1>2. ASSUME IInv, UNCHANGED vars PROVE IInv'
    <2>1. UNCHANGED <<state, delay, out, mail, pc, refs, terminal, reader, freed>>
      BY <1>2 DEF vars, lifeVars
    <2>2. UNCHANGED <<in, items, live, link, held, owes>>
      BY <1>2 DEF vars, queueVars, ackVars
    <2>3. Flags'
      BY <1>2, <2>1, <2>2, Parts DEF IInv, Flags
    <2> QED BY <1>2, <2>1, <2>2, <2>3, DelayStep
  <1> QED BY <1>1, <1>2

\* The strengthened invariant holds of every behaviour, for any bound on the
\* queues, the hiccups and the late activations.
THEOREM Invariance == SafetySpec => []IInv
  BY InitIInv, NextIInv, PTL DEF SafetySpec

\* A pipe_term finds no end that has already been told (process_pipe_term).
TermIsOneShot ==
    \A e \in End : Receives(e, "pipe_term") =>
        state[e] \in {"active", "delimiter_received", "term_req_sent1"}

\* The branch of process_pipe_term() for a duplicate command is never taken:
\* terminate() sends pipe_term once in the life of an end, whatever the order of
\* terminate(), set_nodelay(), hiccup() and the handlers of both ends.
THEOREM TermCommandIsOneShot == SafetySpec => []TermIsOneShot
  <1>1. ASSUME IInv PROVE TermIsOneShot
    <2> SUFFICES ASSUME NEW e \in End, Receives(e, "pipe_term")
                 PROVE  state[e] \in {"active", "delimiter_received", "term_req_sent1"}
      BY DEF TermIsOneShot
    <2>1. Shapes /\ Boxes /\ Mail
      BY <1>1, Parts DEF IInv
    <2>2. Expected(e, Head(mail[e]))
      BY <2>1, Head1 DEF Boxes, Receives
    <2>3. ~GotTerm(e)
      BY <2>2 DEF Receives, Expected
    <2> QED BY <2>1, <2>3 DEF Shapes, States, GotTerm
  <1> QED BY <1>1, Invariance, PTL

\* No assertion of process_pipe_term_ack(), process_hiccup() and
\* detach_peer_link() ever fails, whichever end terminates first, or both.
THEOREM AssertionsHold == SafetySpec => []HandshakeAssertions
  <1>1. ASSUME IInv PROVE HandshakeAssertions
    <2> SUFFICES ASSUME NEW e \in End
                 PROVE  /\ Receives(e, "pipe_term_ack") =>
                              state[e] \in {"term_ack_sent", "term_req_sent1", "term_req_sent2"}
                        /\ Receives(e, "hiccup") => out[e] # NoQueue
                        /\ pc[e] = "reply" /\ e \in owes => e \in held /\ Peer(e) \notin terminal
                        /\ pc[e] = "finish" => e \notin terminal
      BY DEF HandshakeAssertions
    <2> DEFINE p == Peer(e)
    <2>1. p \in End /\ p # e /\ Peer(p) = e /\ End = {e, p}
      BY Peers
    <2>2. Shapes /\ Boxes /\ Mail /\ Agreed /\ Links
      BY <1>1, Parts DEF IInv
    <2>3. mail[e] # <<>> => Expected(e, Head(mail[e]))
      BY <2>2, Head1 DEF Boxes
    <2>5. ASSUME Receives(e, "pipe_term_ack")
          PROVE  state[e] \in {"term_ack_sent", "term_req_sent1", "term_req_sent2"}
      <3>1. SentAck(p)
        BY <2>3, <2>5 DEF Receives, Expected
      <3>2. CASE p \in owes
        <4>1. SentAck(e)
          BY <2>1, <2>2, <3>2 DEF Agreed
        <4> QED BY <2>2, <4>1 DEF SentAck, Agreed
      <3>3. CASE p \notin owes
        <4>1. GotTerm(p)
          BY <3>1, <3>3 DEF SentAck, GotTerm
        <4>2. SentTerm(e)
          BY <2>1, <2>2, <4>1 DEF Agreed
        <4> QED BY <4>2 DEF SentTerm
      <3> QED BY <3>2, <3>3
    <2>6. ASSUME Receives(e, "hiccup") PROVE out[e] # NoQueue
      <3>1. ~GotTerm(e) /\ ~AckTaken(e)
        BY <2>3, <2>6 DEF Receives, Expected
      <3> QED BY <2>2, <3>1 DEF Agreed, GotTerm
    <2>7. ASSUME pc[e] = "reply", e \in owes PROVE e \in held /\ p \notin terminal
      <3>1. e \in held
        BY <2>2, <2>7 DEF Links
      <3>2. ~SentAck(e)
        BY <2>2, <2>7 DEF Agreed, SentAck
      <3> QED BY <1>1, <3>1, <3>2, NotAcknowledged
    <2>8. pc[e] = "finish" => e \notin terminal
      BY <2>2 DEF Agreed
    <2> QED BY <2>5, <2>6, <2>7, <2>8
  <1> QED BY <1>1, Invariance, PTL

\* Neither an end nor a queue is deleted while somebody can still use it, and
\* once both ends are gone no queue is left: lifetime_state_t, process_hiccup()
\* and cleanup_inbound_pipe().
THEOREM MemoryIsSafe == SafetySpec => []NothingDangles
  <1>1. ASSUME IInv PROVE NothingDangles
    <2>1. Shapes /\ Boxes /\ References /\ Agreed /\ Links /\ Queues
      BY <1>1, Parts DEF IInv
    <2>2. ASSUME NEW e \in End, out[e] # NoQueue PROVE OutQ(e) \in live
      <3>1. Peer(e) \in End /\ Peer(Peer(e)) = e
        BY Peers
      <3>2. out[e] \in 0 .. MaxHiccups /\ out[e] <= in[Peer(e)]
        BY <2>1, <2>2, <3>1 DEF Shapes, Queues, Announced
      <3>3. Exists(Peer(e), out[e])
        BY <2>2, <3>1, <3>2 DEF Exists
      <3> QED BY <2>1, <3>1, <3>2, <3>3 DEF Queues, OutQ
    <2>3. ASSUME NEW e \in End, e \notin terminal \/ reader[e] = "reading"
          PROVE  InQ(e) \in live
      <3>1. in[e] \in 0 .. MaxHiccups
        BY <2>1 DEF Shapes
      <3>2. out[Peer(e)] # NoQueue => out[Peer(e)] <= in[e]
        BY <2>1 DEF Queues, Announced
      <3>3. Exists(e, in[e])
        BY <2>3, <3>1, <3>2 DEF Exists
      <3> QED BY <2>1, <3>1, <3>3 DEF Queues, InQ
    <2>4. ASSUME freed = End PROVE live = {}
      <3>1. ASSUME NEW q \in live PROVE FALSE
        <4>1. PICK e \in End, n \in 0 .. MaxHiccups : q = <<e, n>>
          BY <2>1, <3>1 DEF Shapes, Queue
        <4>2. e \in terminal /\ refs[e] = 0
          BY <2>1, <2>4 DEF Shapes, Links
        <4>3. Peer(e) \in End /\ SentAck(Peer(e))
          BY <2>1, <4>2, Peers DEF Agreed, AckTaken
        <4>4. out[Peer(e)] = NoQueue
          BY <2>1, <4>3 DEF Agreed, SentAck
        <4>5. reader[e] = "reading"
          BY <2>1, <3>1, <4>1, <4>2, <4>4 DEF Queues, Exists
        <4>6. Reading(e) = 1
          BY <4>5 DEF Reading
        <4>7. /\ Len(mail[e]) \in Nat /\ Running(e) \in {0, 1} /\ Linked(e) \in {0, 1}
          BY <2>1, Sizes
        <4> QED BY <2>1, <4>2, <4>6, <4>7 DEF References
      <3> QED BY <3>1
    <2> QED BY <1>1, <2>2, <2>3, <2>4 DEF NothingDangles, QueuesAreOwned, IInv
  <1> QED BY <1>1, Invariance, PTL

\* An end with delay acknowledges its peer's termination, in process_pipe_term()
\* or in process_delimiter(), only when nothing is left to read.
THEOREM NothingIsCutOff == SafetySpec => AcknowledgedWhenDrained
  <1> DEFINE Acks == \A e \in End :
                state[e] \in {"active", "waiting_for_delimiter"} /\ state'[e] = "term_ack_sent"
                   /\ delay'[e] => items'[InQ(e)] = <<>>
  <1>1. ASSUME IInv, Next PROVE Acks
    <2> SUFFICES ASSUME NEW e \in End, state[e] \in {"active", "waiting_for_delimiter"},
                        state'[e] = "term_ack_sent", delay'[e]
                 PROVE  items'[InQ(e)] = <<>>
      OBVIOUS
    <2>1. Flags /\ Shapes /\ Boxes /\ Drained /\ Mail
      BY <1>1, Parts DEF IInv
    <2>2. state' # state
      OBVIOUS
    <2>3. PICK x \in End :
             \/ ProcessDelimiter(x) \/ SetNodelay(x) \/ ProcessPipeTerm(x)
             \/ \E d \in BOOLEAN : Terminate(x, d)
      <3>1. PICK x \in End :
               \/ Write(x) \/ Read(x) \/ SetNodelay(x) \/ Hiccup(x) \/ Activate(x)
               \/ \E d \in BOOLEAN : Terminate(x, d)
               \/ Handle(x)
               \/ ReaderEnter(x) \/ ReaderLeave(x) \/ ReaderGone(x)
        BY <1>1 DEF Next
      <3>2. ~(Write(x) \/ Read(x) \/ Hiccup(x) \/ Activate(x))
        BY <2>2 DEF Write, Read, Hiccup, Activate
      <3>3. ~(ReaderEnter(x) \/ ReaderLeave(x) \/ ReaderGone(x))
        BY <2>2 DEF ReaderEnter, ReaderLeave, ReaderGone
      <3>4. ~(ProcessHiccup(x) \/ ProcessActivate(x) \/ AckBegin(x) \/ DetachOwn(x))
        BY <2>2 DEF ProcessHiccup, ProcessActivate, AckBegin, DetachOwn
      <3>5. ~(DetachBack(x) \/ AckReply(x) \/ Unlink(x) \/ Finish(x) \/ ReleaseCommand(x))
        BY <2>2 DEF DetachBack, AckReply, Unlink, Finish, ReleaseCommand
      <3> QED BY <3>1, <3>2, <3>3, <3>4, <3>5 DEF Handle
    <2>4. CASE ProcessDelimiter(x)
      <3>1. UNCHANGED items /\ pc[x] = "delimiter"
        BY <2>4 DEF ProcessDelimiter, queueVars
      <3>2. x = e
        BY <2>1, <2>4 DEF ProcessDelimiter, Acknowledge, Shapes
      <3> QED BY <2>1, <3>1, <3>2 DEF Drained
    <2>5. CASE SetNodelay(x)
      <3>1. x = e
        BY <2>1, <2>5 DEF SetNodelay, Acknowledge, Shapes
      <3>2. ~delay'[e]
        BY <2>1, <2>5, <3>1, Zenon DEF SetNodelay, Flags
      <3> QED BY <3>2
    <2>6. CASE \E d \in BOOLEAN : Terminate(x, d)
      <3>1. PICK d \in BOOLEAN : Terminate(x, d)
        BY <2>6
      <3>2. x = e /\ ~d
        <4>1. CASE state[x] \in {"term_req_sent1", "term_req_sent2", "term_ack_sent"}
          <5>1. UNCHANGED state
            BY <3>1, <4>1 DEF Terminate
          <5> QED BY <2>2, <5>1
        <4>2. CASE state[x] = "waiting_for_delimiter" /\ ~d
          <5>1. state' = [state EXCEPT ![x] = "term_ack_sent"]
            BY <3>1, <4>2 DEF Terminate, Acknowledge
          <5> QED BY <2>1, <4>2, <5>1 DEF Shapes
        <4>3. CASE state[x] = "waiting_for_delimiter" /\ d
          <5>1. UNCHANGED state
            BY <3>1, <4>3 DEF Terminate
          <5> QED BY <2>2, <5>1
        <4>4. CASE state[x] \in {"active", "delimiter_received"}
          <5>1. state' = [state EXCEPT ![x] = "term_req_sent1"]
            BY <3>1, <4>4 DEF Terminate
          <5> QED BY <2>1, <5>1 DEF Shapes
        <4>5. state[x] \in States
          BY <2>1 DEF Shapes
        <4> QED BY <4>1, <4>2, <4>3, <4>4, <4>5 DEF States
      <3>3. delay' = [delay EXCEPT ![e] = FALSE]
        BY <3>1, <3>2 DEF Terminate
      <3>4. ~delay'[e]
        BY <2>1, <3>3, Zenon DEF Flags
      <3> QED BY <3>4
    <2>7. CASE ProcessPipeTerm(x)
      <3> DEFINE q == items[InQ(e)]
                 pending == q # <<>> /\ Head(q) = "msg"
      <3>1. x = e
        <4>1. \E as : state' = [state EXCEPT ![x] = as]
          BY <2>7, Zenon DEF ProcessPipeTerm, AcknowledgeCommand
        <4> QED BY <2>1, <4>1 DEF Shapes
      <3>2. mail[e] # <<>> /\ Head(mail[e]).type = "pipe_term" /\ UNCHANGED delay
        BY <2>7, <3>1 DEF ProcessPipeTerm, Receives
      <3>3. ~GotTerm(e)
        BY <2>1, <3>2, Head1 DEF Boxes, Expected
      <3>4. state[e] = "active" /\ delay[e]
        BY <3>2, <3>3 DEF GotTerm
      <3>5. ~pending
        <4>1. pending => state' = [state EXCEPT ![e] = "waiting_for_delimiter"]
          BY <2>7, <3>1, <3>4, Zenon DEF ProcessPipeTerm
        <4> QED BY <2>1, <4>1 DEF Shapes
      <3>6. items' = IF q # <<>> THEN [items EXCEPT ![InQ(e)] = Tail(@)] ELSE items
        BY <2>7, <3>1, <3>4, <3>5, Zenon DEF ProcessPipeTerm
      <3>7. CASE q # <<>>
        <4>1. InQ(e) \in Queue /\ in[e] \in 0 .. MaxHiccups
          BY <2>1 DEF Shapes, Queue, InQ
        <4>2. q \in Seq({"msg", "delimiter"})
          BY <2>1, <4>1 DEF Boxes
        <4>3. /\ Len(Tail(q)) = Len(q) - 1 /\ Len(q) \in Nat /\ Len(q) > 0 /\ Head(q) = q[1]
              /\ Len(Tail(q)) = 0 => Tail(q) = <<>>
          BY <3>7, <4>2, TailFacts
        <4>4. 1 \in 1 .. Len(q) /\ q[1] = "delimiter"
          BY <3>5, <3>7, <4>2, <4>3, HeadTailProperties
        <4>5. 1 = Len(q)
          BY <2>1, <4>1, <4>4 DEF Drained, InQ
        <4>6. items'[InQ(e)] = Tail(q)
          BY <2>1, <3>6, <3>7, <4>1 DEF Boxes
        <4> QED BY <4>3, <4>5, <4>6
      <3>8. CASE q = <<>>
        BY <3>6, <3>8
      <3> QED BY <3>7, <3>8
    <2> QED BY <2>3, <2>4, <2>5, <2>6, <2>7
  <1>2. IInv /\ [Next]_vars => [Acks]_vars
    BY <1>1
  <1>3. SafetySpec => [][Acks]_vars
    BY <1>2, Invariance, PTL DEF SafetySpec
  <1> QED BY <1>3 DEF AcknowledgedWhenDrained
=============================================================================
