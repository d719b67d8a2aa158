--------------------------- MODULE OwnTreeProofs ---------------------------
(***************************************************************************)
(* Proofs about the ownership tree for any finite set of addresses and any  *)
(* number of launches, requests and pipes.                                  *)
(***************************************************************************)
EXTENDS OwnTree, SequenceTheorems, FiniteSetTheorems, TLAPS

\* Safety needs no fairness.
SafetySpec == Init /\ [][Next]_vars

-----------------------------------------------------------------------------
(* Commands, and how many of a kind are in a mailbox.                       *)

Command ==
    [type : {"plug", "attach", "term", "term_ack", "bind"}]
      \cup [type : {"own", "term_req"}, obj : Child, gen : Nat]

OfType(t) == {c \in Command : c.type = t}
Owns(x) == {c \in Command : c.type = "own" /\ c.obj = x}

\* The commands that send_... counts with inc_seqnum() and process_seqnum().
Counted == {c \in Command : c.type \notin {"term", "term_ack"}}

HowMany(s, S) == Cardinality({i \in 1 .. Len(s) : s[i] \in S})
One(b) == IF b THEN 1 ELSE 0
-----------------------------------------------------------------------------
(* The inductive invariant.                                                 *)

Live(o) == status[o] = "live"
AskedChildren(o) == {c \in LiveChildren(o) : Asked(c)}

\* Boolean variables are kept apart from the rest.
Flags == terminating \in [Object -> BOOLEAN] /\ deferring \in [Object -> BOOLEAN]

Shapes ==
    /\ status \in [Object -> {"free", "live"}]
    /\ owner \in [Object -> Object \cup {NoOne}]
    /\ owned \in [Object -> SUBSET Child]
    /\ acks \in [Object -> Nat]
    /\ sent \in [Object -> Nat] /\ processed \in [Object -> Nat]
    /\ gen \in [Object -> Nat] /\ asks \in [Object -> 0 .. MaxAsks]
    /\ pipes \in Nat /\ binds \in Nat /\ endpoints \subseteq Child \X Nat
    /\ mail \in [Object -> Seq(Command)]

\* A live child has a live owner: the socket, or an object of the socket.
Tree ==
    /\ owner[Root] = NoOne
    /\ \A c \in Child : Live(c) =>
          /\ owner[c] \in Object /\ Live(owner[c])
          /\ owner[c] # Root => owner[owner[c]] = Root

\* A destroyed object has left nothing behind at its address.
Clean ==
    \A o \in Object : status[o] = "free" =>
        mail[o] = <<>> /\ owned[o] = {} /\ acks[o] = 0 /\ processed[o] = 0 /\ ~deferring[o]

\* The sequence numbers count the commands on their way.
Numbered ==
    \A o \in Object : Live(o) => sent[o] = processed[o] + HowMany(mail[o], Counted)

\* The acks count the children asked and alive, and those that have answered.
Owed ==
    \A o \in Object : Live(o) =>
        acks[o] = Cardinality(AskedChildren(o)) + HowMany(mail[o], OfType("term_ack"))
                    + (IF o = Root /\ terminating[Root] THEN pipes ELSE 0)

\* An object meets its term command once; then it owns nobody.
Met ==
    \A o \in Object : Live(o) =>
        /\ HowMany(mail[o], OfType("term")) <= 1
        /\ deferring[o] \/ terminating[o] => HowMany(mail[o], OfType("term")) = 0
        /\ ~(deferring[o] /\ terminating[o])
        /\ terminating[o] => owned[o] = {}

\* The socket is never sent a term command, and a pipe it holds was bound.
Top ==
    /\ HowMany(mail[Root], OfType("term")) = 0 /\ ~deferring[Root]
    /\ status[Root] = "free" => pipes = 0
    /\ pipes + HowMany(mail[Root], OfType("bind")) <= binds /\ binds <= MaxPipes

\* An object has, once, in its set or in its mailbox, each child that nobody has
\* asked to terminate, and no other.
Adopted ==
    \A o \in Object, c \in Child :
        One(c \in owned[o]) + HowMany(mail[o], Owns(c))
           = One(Live(c) /\ owner[c] = o /\ ~Asked(c))

IInv == Flags /\ Shapes /\ Tree /\ Clean /\ Numbered /\ Owed /\ Met /\ Top /\ Adopted
-----------------------------------------------------------------------------
(* Counting.                                                                *)

LEMMA HowManyType ==
  ASSUME NEW S, NEW s \in Seq(S), NEW P
  PROVE  /\ HowMany(s, P) \in Nat
         /\ IsFiniteSet({i \in 1 .. Len(s) : s[i] \in P})
         /\ HowMany(s, P) = 0 <=> \A i \in 1 .. Len(s) : s[i] \notin P
  <1>1. Len(s) \in Nat
    BY LenProperties
  <1>2. IsFiniteSet(1 .. Len(s))
    BY <1>1, FS_Interval
  <1>3. IsFiniteSet({i \in 1 .. Len(s) : s[i] \in P})
    BY <1>2, FS_Subset
  <1>4. HowMany(s, P) \in Nat
    BY <1>3, FS_CardinalityType DEF HowMany
  <1>5. HowMany(s, P) = 0 <=> {i \in 1 .. Len(s) : s[i] \in P} = {}
    BY <1>3, FS_EmptySet DEF HowMany
  <1> QED BY <1>3, <1>4, <1>5

LEMMA HowManyEmpty == \A P : HowMany(<<>>, P) = 0
  <1>1. \A P : {i \in 1 .. Len(<<>>) : <<>>[i] \in P} = {}
    <2>1. Len(<<>>) = 0
      BY EmptySeq
    <2> QED BY <2>1
  <1> QED BY <1>1, FS_EmptySet DEF HowMany

LEMMA HowManyAppend ==
  ASSUME NEW S, NEW s \in Seq(S), NEW c \in S, NEW P
  PROVE  HowMany(Append(s, c), P) = HowMany(s, P) + One(c \in P)
  <1> DEFINE A == {i \in 1 .. Len(s) : s[i] \in P}
             B == {i \in 1 .. Len(Append(s, c)) : Append(s, c)[i] \in P}
  <1>1. /\ Len(Append(s, c)) = Len(s) + 1 /\ Append(s, c)[Len(s) + 1] = c
        /\ \A i \in 1 .. Len(s) : Append(s, c)[i] = s[i]
    BY AppendProperties
  <1>2. Len(s) \in Nat /\ IsFiniteSet(A) /\ Cardinality(A) \in Nat
    BY LenProperties, HowManyType, FS_CardinalityType
  <1>3. B = IF c \in P THEN A \cup {Len(s) + 1} ELSE A
    BY <1>1, <1>2
  <1>4. Len(s) + 1 \notin A
    BY <1>2
  <1>5. Cardinality(A \cup {Len(s) + 1}) = Cardinality(A) + 1
    BY <1>2, <1>4, FS_AddElement
  <1>6. Cardinality(B) = Cardinality(A) + One(c \in P)
    <2> HIDE DEF A, B
    <2> QED BY <1>2, <1>3, <1>5 DEF One
  <1> QED BY <1>6 DEF HowMany

\* The first command is one of those counted, or not.
LEMMA HowManyTail ==
  ASSUME NEW S, NEW s \in Seq(S), s # <<>>, NEW P
  PROVE  HowMany(s, P) = HowMany(Tail(s), P) + One(Head(s) \in P)
  <1> DEFINE A == {i \in 1 .. Len(Tail(s)) : Tail(s)[i] \in P}
             B == {i \in 1 .. Len(s) : s[i] \in P}
             f == [i \in A |-> i + 1]
  <1>1. /\ Tail(s) \in Seq(S) /\ Len(Tail(s)) = Len(s) - 1
        /\ \A i \in 1 .. Len(Tail(s)) : Tail(s)[i] = s[i + 1]
    BY HeadTailProperties
  <1>2. Len(s) \in Nat /\ Len(s) > 0 /\ Head(s) = s[1]
    BY LenProperties, EmptySeq
  <1>3. IsFiniteSet(A) /\ IsFiniteSet(B) /\ Cardinality(A) \in Nat /\ Cardinality(B) \in Nat
    BY <1>1, HowManyType, FS_CardinalityType
  <1>4. f \in Bijection(A, B \ {1})
    <2>1. f \in [A -> B \ {1}]
      BY <1>1, <1>2
    <2>2. \A i, j \in A : f[i] = f[j] => i = j
      OBVIOUS
    <2>3. \A j \in B \ {1} : \E i \in A : f[i] = j
      <3>1. TAKE j \in B \ {1}
      <3>2. j - 1 \in A /\ f[j - 1] = j
        BY <1>1, <1>2
      <3> QED BY <3>2
    <2> HIDE DEF A, B, f
    <2> QED BY <2>1, <2>2, <2>3 DEF Bijection, Injection, Surjection, IsInjective
  <1>5. Cardinality(B \ {1}) = Cardinality(A)
    BY <1>3, <1>4, FS_Bijection DEF ExistsBijection
  <1>6. Cardinality(B \ {1}) = IF 1 \in B THEN Cardinality(B) - 1 ELSE Cardinality(B)
    BY <1>3, FS_RemoveElement
  <1>7. 1 \in B <=> Head(s) \in P
    BY <1>2
  <1>8. Cardinality(B) = Cardinality(A) + One(Head(s) \in P)
    <2> HIDE DEF A, B
    <2> QED BY <1>3, <1>5, <1>6, <1>7 DEF One
  <1> QED BY <1>8 DEF HowMany
-----------------------------------------------------------------------------
(* The commands.                                                            *)

LEMMA Ones == ASSUME NEW b \in BOOLEAN PROVE One(b) \in {0, 1} /\ (One(b) = 1 <=> b)
  BY DEF One

LEMMA Commands ==
  /\ \A t \in {"plug", "attach", "term", "term_ack", "bind"} :
        Cmd(t) \in Command /\ Cmd(t).type = t
  /\ \A t \in {"own", "term_req"}, c \in Child, g \in Nat :
        /\ [type |-> t, obj |-> c, gen |-> g] \in Command
        /\ [type |-> t, obj |-> c, gen |-> g].type = t
        /\ [type |-> t, obj |-> c, gen |-> g].obj = c
  /\ \A c \in Command : c.type \in {"own", "term_req"} => c.obj \in Child
  /\ \A c \in Command : c.type \in {"plug", "attach", "term", "term_ack", "bind", "own", "term_req"}
  BY DEF Command, Cmd

\* What each kind of command counts for.
LEMMA Kinds ==
  ASSUME NEW c \in Command, NEW x
  PROVE  /\ c.type = "term" => /\ c \in OfType("term") /\ c \notin OfType("term_ack")
                               /\ c \notin OfType("bind") /\ c \notin Counted /\ c \notin Owns(x)
         /\ c.type = "term_ack" => /\ c \notin OfType("term") /\ c \in OfType("term_ack")
                                   /\ c \notin OfType("bind") /\ c \notin Counted /\ c \notin Owns(x)
         /\ c.type = "bind" => /\ c \notin OfType("term") /\ c \notin OfType("term_ack")
                               /\ c \in OfType("bind") /\ c \in Counted /\ c \notin Owns(x)
         /\ c.type = "own" => /\ c \notin OfType("term") /\ c \notin OfType("term_ack")
                              /\ c \notin OfType("bind") /\ c \in Counted
                              /\ (c \in Owns(x) <=> c.obj = x)
         /\ c.type \in {"plug", "attach", "term_req"} =>
                 /\ c \notin OfType("term") /\ c \notin OfType("term_ack")
                 /\ c \notin OfType("bind") /\ c \in Counted /\ c \notin Owns(x)
  BY DEF OfType, Counted, Owns

\* A mailbox in which nothing is counted, asked or answered is empty.
LEMMA EmptyBox ==
  ASSUME NEW s \in Seq(Command), HowMany(s, Counted) = 0, HowMany(s, OfType("term")) = 0,
         HowMany(s, OfType("term_ack")) = 0
  PROVE  s = <<>>
  <1>1. SUFFICES ASSUME s # <<>> PROVE FALSE
    OBVIOUS
  <1>2. Len(s) \in Nat \ {0}
    BY <1>1, EmptySeq
  <1>3. 1 \in 1 .. Len(s) /\ s[1] \in Command
    BY <1>2, ElementOfSeq
  <1>4. s[1] \notin Counted /\ s[1] \notin OfType("term") /\ s[1] \notin OfType("term_ack")
    BY <1>3, HowManyType
  <1> QED BY <1>3, <1>4 DEF Counted, OfType

\* Asked() in terms of the counts.
LEMMA CountIs ==
  ASSUME mail \in [Object -> Seq(Command)], NEW o \in Object, NEW t
  PROVE  Count(o, t) = HowMany(mail[o], OfType(t))
  <1>1. mail[o] \in Seq(Command)
    OBVIOUS
  <1>2. \A i \in 1 .. Len(mail[o]) : mail[o][i] \in Command
    BY <1>1, ElementOfSeq
  <1>3. {i \in 1 .. Len(mail[o]) : mail[o][i].type = t}
          = {i \in 1 .. Len(mail[o]) : mail[o][i] \in OfType(t)}
    BY <1>2 DEF OfType
  <1> QED BY <1>3 DEF Count, HowMany

LEMMA AskedIs ==
  ASSUME mail \in [Object -> Seq(Command)], NEW o \in Object
  PROVE  Asked(o) <=> HowMany(mail[o], OfType("term")) > 0 \/ deferring[o] \/ terminating[o]
  BY CountIs DEF Asked

LEMMA AskedAfter ==
  ASSUME mail' \in [Object -> Seq(Command)], NEW o \in Object
  PROVE  Asked(o)' <=> HowMany(mail'[o], OfType("term")) > 0 \/ deferring'[o] \/ terminating'[o]
  <1>1. mail'[o] \in Seq(Command)
    OBVIOUS
  <1>2. \A i \in 1 .. Len(mail'[o]) : mail'[o][i] \in Command
    BY <1>1, ElementOfSeq
  <1>3. {i \in 1 .. Len(mail'[o]) : mail'[o][i].type = "term"}
          = {i \in 1 .. Len(mail'[o]) : mail'[o][i] \in OfType("term")}
    BY <1>2 DEF OfType
  <1> QED BY <1>3 DEF Asked, Count, HowMany

LEMMA ChildrenFinite ==
  ASSUME NEW o
  PROVE  /\ IsFiniteSet(AskedChildren(o)) /\ Cardinality(AskedChildren(o)) \in Nat
         /\ AskedChildren(o) \subseteq Child
  <1>1. AskedChildren(o) \in SUBSET Child
    BY DEF AskedChildren, LiveChildren
  <1> QED BY <1>1, ObjectsAssumption, FS_Subset, FS_CardinalityType

\* Nobody is its own owner, and the objects of an object are not its owner.
LEMMA Acyclic ==
  ASSUME Tree, NEW o \in Object, Live(o)
  PROVE  /\ owner[o] # o
         /\ \A c \in Child : Live(c) /\ owner[c] = o => c # o /\ c # owner[o]
         /\ owner[o] = NoOne <=> o = Root
         /\ o # Root => owner[o] \in Object /\ Live(owner[o])
  BY ObjectsAssumption DEF Tree, Object

\* Where every live object leads: the socket is alive as long as any object is.
LEMMA SocketAlive == ASSUME Tree, NEW o \in Object, Live(o) PROVE Live(Root)
  BY ObjectsAssumption DEF Tree, Object
-----------------------------------------------------------------------------
(* Every handler ends in Handled().  What it must be given for the invariant *)
(* to hold after it, T being the children it asks to terminate:             *)

Unasked(o, c) == Live(c) /\ owner[c] = o /\ ~Asked(c)

Sends(out, T) == out = [x \in Object |-> IF x \in T THEN <<Cmd("term")>> ELSE <<>>]

Given(o, terms, mine, pend, proc, rest, T) ==
    /\ o \in Object /\ Live(o)
    /\ terms \in BOOLEAN /\ mine \in SUBSET Child /\ pend \in Nat /\ proc \in Nat
    /\ rest \in Seq(Command)
    /\ T \in SUBSET Child /\ \A c \in T : Unasked(o, c)
    /\ deferring' \in [Object -> BOOLEAN]
    /\ \A x \in Object : x # o => (deferring'[x] <=> deferring[x])
    /\ UNCHANGED <<gen, asks, endpoints, binds>>
    /\ pipes' \in Nat /\ (o # Root => pipes' = pipes)
    /\ o = Root => /\ pipes' + HowMany(rest, OfType("bind")) <= binds
                   /\ HowMany(rest, OfType("term")) = 0 /\ ~deferring'[o]
    /\ o # Root => (Asked(o) <=> HowMany(rest, OfType("term")) > 0 \/ deferring'[o] \/ terms)
    /\ HowMany(rest, OfType("term")) <= 1
    /\ deferring'[o] \/ terms => HowMany(rest, OfType("term")) = 0
    /\ ~(deferring'[o] /\ terms)
    /\ terms => mine = {}
    /\ sent[o] = proc + HowMany(rest, Counted)
    /\ pend = Cardinality(AskedChildren(o)) + Cardinality(T) + HowMany(rest, OfType("term_ack"))
                + (IF o = Root /\ terms THEN pipes' ELSE 0)
    /\ \A c \in Child : One(c \in mine) + HowMany(rest, Owns(c))
                          = One(Unasked(o, c) /\ c \notin T)

\* Where the commands of a handler go.
LEMMA HandledMail ==
  ASSUME IInv, NEW o, NEW terms, NEW mine, NEW pend, NEW proc, NEW rest, NEW T, NEW out,
         Given(o, terms, mine, pend, proc, rest, T), Sends(out, T),
         Handled(o, terms, mine, pend, proc, rest, out)
  PROVE  /\ mail' \in [Object -> Seq(Command)]
         /\ mail'[o] = rest /\ o \notin T
         /\ \A x \in Object : x \in T => mail'[x] = Append(mail[x], Cmd("term"))
         /\ CanDestroy(terms, proc, sent[o], pend) =>
               \A x \in Object : x = owner[o] => mail'[x] = Append(mail[x], Cmd("term_ack"))
         /\ \A x \in Object :
               x # o /\ x \notin T /\ ~(CanDestroy(terms, proc, sent[o], pend) /\ x = owner[o])
                  => mail'[x] = mail[x]
  <1> DEFINE done == CanDestroy(terms, proc, sent[o], pend)
             ack(x) == IF done /\ x = owner[o] THEN <<Cmd("term_ack")>> ELSE <<>>
             base(x) == IF x = o THEN rest ELSE mail[x]
  <1>1. mail' = [x \in Object |-> base(x) \o out[x] \o ack(x)]
    BY DEF Handled
  <1>2. o \in Object /\ Live(o) /\ rest \in Seq(Command) /\ T \in SUBSET Child
        /\ \A c \in T : Live(c) /\ owner[c] = o
    BY DEF Given, Unasked
  <1>3. Tree /\ mail \in [Object -> Seq(Command)]
    BY DEF IInv, Shapes
  <1>4. owner[o] # o /\ \A c \in T : c # o /\ c # owner[o]
    BY <1>2, <1>3, Acyclic
  <1>5. \A x \in Object : base(x) \in Seq(Command)
    BY <1>2, <1>3
  <1>6. \A x \in Object : out[x] = IF x \in T THEN <<Cmd("term")>> ELSE <<>>
    BY DEF Sends
  <1>7. \A s \in Seq(Command) : s \o <<>> = s
    BY ConcatEmptySeq
  <1>8. \A s \in Seq(Command), t \in {"term", "term_ack"} :
           s \o <<Cmd(t)>> = Append(s, Cmd(t)) /\ Append(s, Cmd(t)) \in Seq(Command)
    BY AppendIsConcat, AppendProperties, Commands
  <1> HIDE DEF done, base
  <1>9. ASSUME NEW x \in Object
        PROVE  mail'[x] = IF x \in T THEN Append(base(x), Cmd("term"))
                          ELSE IF done /\ x = owner[o] THEN Append(base(x), Cmd("term_ack"))
                          ELSE base(x)
    <2>1. mail'[x] = base(x) \o out[x] \o ack(x)
      BY <1>1
    <2>2. CASE x \in T
      <3>1. out[x] = <<Cmd("term")>> /\ ack(x) = <<>>
        BY <1>4, <1>6, <2>2
      <3> QED BY <1>5, <1>7, <1>8, <2>1, <2>2, <3>1
    <2>3. CASE x \notin T /\ done /\ x = owner[o]
      <3>1. out[x] = <<>> /\ ack(x) = <<Cmd("term_ack")>>
        BY <1>6, <2>3
      <3> QED BY <1>5, <1>7, <1>8, <2>1, <2>3, <3>1
    <2>4. CASE x \notin T /\ ~(done /\ x = owner[o])
      <3>1. out[x] = <<>> /\ ack(x) = <<>>
        BY <1>6, <2>4
      <3> QED BY <1>5, <1>7, <2>1, <2>4, <3>1
    <2> QED BY <2>2, <2>3, <2>4
  <1>10. \A x \in Object : mail'[x] \in Seq(Command)
    BY <1>5, <1>8, <1>9
  <1>11. mail' \in [Object -> Seq(Command)]
    BY <1>1, <1>10
  <1>12. base(o) = rest /\ \A x \in Object : x # o => base(x) = mail[x]
    BY DEF base
  <1> QED BY <1>2, <1>4, <1>9, <1>11, <1>12 DEF done

\* How many commands of a kind there are after a handler.
LEMMA HandledCounts ==
  ASSUME IInv, NEW o, NEW terms, NEW mine, NEW pend, NEW proc, NEW rest, NEW T, NEW out,
         Given(o, terms, mine, pend, proc, rest, T), Sends(out, T),
         Handled(o, terms, mine, pend, proc, rest, out),
         NEW x \in Object, x # o
  PROVE  /\ HowMany(mail'[x], OfType("term")) = HowMany(mail[x], OfType("term")) + One(x \in T)
         /\ HowMany(mail'[x], OfType("term_ack"))
              = HowMany(mail[x], OfType("term_ack"))
                  + One(CanDestroy(terms, proc, sent[o], pend) /\ x = owner[o])
         /\ HowMany(mail'[x], OfType("bind")) = HowMany(mail[x], OfType("bind"))
         /\ HowMany(mail'[x], Counted) = HowMany(mail[x], Counted)
         /\ \A c : HowMany(mail'[x], Owns(c)) = HowMany(mail[x], Owns(c))
  <1> DEFINE done == CanDestroy(terms, proc, sent[o], pend)
  <1>1. mail[x] \in Seq(Command)
    BY DEF IInv, Shapes
  <1>2. /\ x \in T => mail'[x] = Append(mail[x], Cmd("term"))
        /\ done /\ x = owner[o] => mail'[x] = Append(mail[x], Cmd("term_ack"))
        /\ x \notin T /\ ~(done /\ x = owner[o]) => mail'[x] = mail[x]
    BY HandledMail
  <1>3. x \in T => x # owner[o]
    <2>1. o \in Object /\ Live(o) /\ T \in SUBSET Child /\ \A c \in T : Live(c) /\ owner[c] = o
      BY DEF Given, Unasked
    <2>2. Tree
      BY DEF IInv
    <2> QED BY <2>1, <2>2, Acyclic
  <1> HIDE DEF done
  <1>4. \A P : HowMany(mail[x], P) \in Nat
    BY <1>1, HowManyType
  <1>5. Cmd("term") \in Command /\ Cmd("term").type = "term"
        /\ Cmd("term_ack") \in Command /\ Cmd("term_ack").type = "term_ack"
    BY Commands
  <1>6. CASE x \in T
    <2>1. \A P : HowMany(mail'[x], P) = HowMany(mail[x], P) + One(Cmd("term") \in P)
      <3>1. mail'[x] = Append(mail[x], Cmd("term"))
        BY <1>2, <1>6
      <3>2. ASSUME NEW P
            PROVE  HowMany(Append(mail[x], Cmd("term")), P)
                     = HowMany(mail[x], P) + One(Cmd("term") \in P)
        BY <1>1, <1>5, HowManyAppend
      <3> QED BY <3>1, <3>2
    <2>2. /\ Cmd("term") \in OfType("term") /\ Cmd("term") \notin OfType("term_ack")
          /\ Cmd("term") \notin OfType("bind") /\ Cmd("term") \notin Counted
          /\ \A c : Cmd("term") \notin Owns(c)
      BY <1>5, Kinds
    <2> QED BY <1>3, <1>4, <1>6, <2>1, <2>2 DEF One, done
  <1>7. CASE done /\ x = owner[o]
    <2>1. \A P : HowMany(mail'[x], P) = HowMany(mail[x], P) + One(Cmd("term_ack") \in P)
      <3>1. mail'[x] = Append(mail[x], Cmd("term_ack"))
        BY <1>2, <1>7
      <3>2. ASSUME NEW P
            PROVE  HowMany(Append(mail[x], Cmd("term_ack")), P)
                     = HowMany(mail[x], P) + One(Cmd("term_ack") \in P)
        BY <1>1, <1>5, HowManyAppend
      <3> QED BY <3>1, <3>2
    <2>2. /\ Cmd("term_ack") \notin OfType("term") /\ Cmd("term_ack") \in OfType("term_ack")
          /\ Cmd("term_ack") \notin OfType("bind") /\ Cmd("term_ack") \notin Counted
          /\ \A c : Cmd("term_ack") \notin Owns(c)
      BY <1>5, Kinds
    <2>3. x \notin T
      BY <1>3, <1>7
    <2> QED BY <1>4, <1>7, <2>1, <2>2, <2>3 DEF One, done
  <1>8. CASE x \notin T /\ ~(done /\ x = owner[o])
    BY <1>2, <1>4, <1>8 DEF One, done
  <1> QED BY <1>6, <1>7, <1>8

\* An object is destroyed only when nothing is on its way to it and it has no
\* children left.
LEMMA DoneIsQuiet ==
  ASSUME IInv, NEW o, NEW terms, NEW mine, NEW pend, NEW proc, NEW rest, NEW T,
         Given(o, terms, mine, pend, proc, rest, T), CanDestroy(terms, proc, sent[o], pend)
  PROVE  /\ rest = <<>> /\ T = {} /\ mine = {} /\ pend = 0 /\ terms /\ ~deferring'[o]
         /\ o = Root => pipes' = 0
         /\ \A c \in Child : ~(Live(c) /\ owner[c] = o)
  <1>1. terms /\ proc = sent[o] /\ pend = 0
    BY DEF CanDestroy
  <1>2. /\ rest \in Seq(Command) /\ T \in SUBSET Child /\ proc \in Nat /\ pipes' \in Nat
        /\ sent[o] = proc + HowMany(rest, Counted)
        /\ pend = Cardinality(AskedChildren(o)) + Cardinality(T)
                    + HowMany(rest, OfType("term_ack"))
                    + (IF o = Root /\ terms THEN pipes' ELSE 0)
    BY DEF Given
  <1>3. /\ HowMany(rest, OfType("term")) = 0 /\ mine = {} /\ ~deferring'[o]
    BY <1>1 DEF Given
  <1>4. \A P : HowMany(rest, P) \in Nat
    BY <1>2, HowManyType
  <1>5. IsFiniteSet(T) /\ Cardinality(T) \in Nat
    BY <1>2, ObjectsAssumption, FS_Subset, FS_CardinalityType
  <1>6. IsFiniteSet(AskedChildren(o)) /\ Cardinality(AskedChildren(o)) \in Nat
    BY ChildrenFinite
  <1>7. /\ Cardinality(AskedChildren(o)) = 0 /\ Cardinality(T) = 0
        /\ HowMany(rest, OfType("term_ack")) = 0 /\ (o = Root => pipes' = 0)
    BY <1>1, <1>2, <1>4, <1>5, <1>6
  <1>8. HowMany(rest, Counted) = 0
    BY <1>1, <1>2, <1>4
  <1>9. rest = <<>>
    BY <1>2, <1>3, <1>7, <1>8, EmptyBox
  <1>10. T = {} /\ AskedChildren(o) = {}
    BY <1>5, <1>6, <1>7, FS_EmptySet
  <1>11. ASSUME NEW c \in Child PROVE ~(Live(c) /\ owner[c] = o)
    <2>1. HowMany(rest, Owns(c)) = 0
      BY <1>9, HowManyEmpty
    <2>2. One(c \in mine) + HowMany(rest, Owns(c)) = One(Unasked(o, c) /\ c \notin T)
      BY DEF Given
    <2>3. ~Unasked(o, c)
      BY <1>3, <1>10, <2>1, <2>2 DEF One
    <2>4. c \notin AskedChildren(o)
      BY <1>10
    <2> QED BY <2>3, <2>4 DEF Unasked, AskedChildren, LiveChildren, Live
  <1> QED BY <1>1, <1>3, <1>7, <1>9, <1>10, <1>11

\* The fields of the objects after a handler.
LEMMA HandledFields ==
  ASSUME IInv, NEW o, NEW terms, NEW mine, NEW pend, NEW proc, NEW rest, NEW T, NEW out,
         Given(o, terms, mine, pend, proc, rest, T), Sends(out, T),
         Handled(o, terms, mine, pend, proc, rest, out)
  PROVE  /\ Shapes'
         /\ \A x \in Object : x # o =>
               /\ status'[x] = status[x] /\ owner'[x] = owner[x] /\ owned'[x] = owned[x]
               /\ acks'[x] = acks[x] /\ processed'[x] = processed[x] /\ sent'[x] = sent[x]
         /\ owned'[o] = mine /\ acks'[o] = pend
         /\ ~CanDestroy(terms, proc, sent[o], pend) =>
               status'[o] = "live" /\ owner'[o] = owner[o] /\ processed'[o] = proc /\ sent'[o] = sent[o]
         /\ CanDestroy(terms, proc, sent[o], pend) =>
               status'[o] = "free" /\ owner'[o] = NoOne /\ processed'[o] = 0
  <1> DEFINE done == CanDestroy(terms, proc, sent[o], pend)
  <1>1. /\ status \in [Object -> {"free", "live"}]
        /\ owner \in [Object -> Object \cup {NoOne}]
        /\ owned \in [Object -> SUBSET Child] /\ acks \in [Object -> Nat]
        /\ sent \in [Object -> Nat] /\ processed \in [Object -> Nat]
        /\ gen \in [Object -> Nat] /\ asks \in [Object -> 0 .. MaxAsks]
        /\ binds \in Nat /\ endpoints \subseteq Child \X Nat
    BY DEF IInv, Shapes
  <1>2. /\ o \in Object /\ status[o] = "live" /\ mine \in SUBSET Child /\ pend \in Nat /\ proc \in Nat
        /\ pipes' \in Nat /\ UNCHANGED <<gen, asks, endpoints, binds>>
    BY DEF Given, Live
  <1>3. /\ owned' = [owned EXCEPT ![o] = mine] /\ acks' = [acks EXCEPT ![o] = pend]
        /\ processed' = [processed EXCEPT ![o] = IF done THEN 0 ELSE proc]
        /\ sent' = [sent EXCEPT ![o] = IF done THEN 0 ELSE @]
        /\ status' = [status EXCEPT ![o] = IF done THEN "free" ELSE @]
        /\ owner' = [owner EXCEPT ![o] = IF done THEN NoOne ELSE @]
    BY DEF Handled
  <1>4. mail' \in [Object -> Seq(Command)]
    BY HandledMail
  <1> HIDE DEF done
  <1>5. /\ owned' \in [Object -> SUBSET Child] /\ acks' \in [Object -> Nat]
        /\ processed' \in [Object -> Nat] /\ sent' \in [Object -> Nat]
    BY <1>1, <1>2, <1>3
  <1>6. status' \in [Object -> {"free", "live"}] /\ owner' \in [Object -> Object \cup {NoOne}]
    BY <1>1, <1>2, <1>3
  <1>7. Shapes'
    BY <1>1, <1>2, <1>4, <1>5, <1>6 DEF Shapes
  <1>8. \A x \in Object : x # o =>
               /\ status'[x] = status[x] /\ owner'[x] = owner[x] /\ owned'[x] = owned[x]
               /\ acks'[x] = acks[x] /\ processed'[x] = processed[x] /\ sent'[x] = sent[x]
    BY <1>1, <1>2, <1>3
  <1>9. /\ owned'[o] = mine /\ acks'[o] = pend
        /\ ~done => status'[o] = "live" /\ owner'[o] = owner[o] /\ processed'[o] = proc /\ sent'[o] = sent[o]
        /\ done => status'[o] = "free" /\ owner'[o] = NoOne /\ processed'[o] = 0
    BY <1>1, <1>2, <1>3
  <1> QED BY <1>7, <1>8, <1>9 DEF done

LEMMA HandledFlags ==
  ASSUME IInv, NEW o, NEW terms, NEW mine, NEW pend, NEW proc, NEW rest, NEW T, NEW out,
         Given(o, terms, mine, pend, proc, rest, T),
         Handled(o, terms, mine, pend, proc, rest, out)
  PROVE  /\ Flags'
         /\ \A x \in Object : x # o => (terminating'[x] <=> terminating[x])
         /\ terminating'[o] <=> terms
  <1>1. terminating \in [Object -> BOOLEAN] /\ o \in Object /\ terms \in BOOLEAN
        /\ deferring' \in [Object -> BOOLEAN]
    BY DEF IInv, Flags, Given
  <1>2. terminating' = [terminating EXCEPT ![o] = terms]
    BY DEF Handled
  <1>3. terminating' \in [Object -> BOOLEAN]
    BY <1>1, <1>2, Zenon
  <1>4. \A x \in Object : x # o => terminating'[x] = terminating[x]
    BY <1>1, <1>2, Zenon
  <1>5. terminating'[o] = terms
    BY <1>1, <1>2, Zenon
  <1> QED BY <1>1, <1>3, <1>4, <1>5, Zenon DEF Flags

\* Who has been asked after a handler.
LEMMA HandledAsked ==
  ASSUME IInv, NEW o, NEW terms, NEW mine, NEW pend, NEW proc, NEW rest, NEW T, NEW out,
         Given(o, terms, mine, pend, proc, rest, T), Sends(out, T),
         Handled(o, terms, mine, pend, proc, rest, out)
  PROVE  /\ \A x \in Object : x # o => (Asked(x)' <=> Asked(x) \/ x \in T)
         /\ o # Root => (Asked(o)' <=> Asked(o))
  <1>1. mail \in [Object -> Seq(Command)]
    BY DEF IInv, Shapes
  <1>2. mail' \in [Object -> Seq(Command)] /\ mail'[o] = rest
    BY HandledMail
  <1>3. o \in Object
    BY DEF Given
  <1>4. ASSUME NEW x \in Object, x # o PROVE Asked(x)' <=> Asked(x) \/ x \in T
    <2>1. HowMany(mail'[x], OfType("term")) = HowMany(mail[x], OfType("term")) + One(x \in T)
      BY <1>4, HandledCounts
    <2>2. (deferring'[x] <=> deferring[x]) /\ (terminating'[x] <=> terminating[x])
      <3>1. deferring'[x] <=> deferring[x]
        BY <1>4, Zenon DEF Given
      <3>2. terminating'[x] <=> terminating[x]
        BY <1>4, HandledFlags
      <3> QED BY <3>1, <3>2
    <2>3. HowMany(mail[x], OfType("term")) \in Nat
      BY <1>1, HowManyType
    <2>4. HowMany(mail'[x], OfType("term")) > 0 <=> HowMany(mail[x], OfType("term")) > 0 \/ x \in T
      BY <2>1, <2>3 DEF One
    <2> QED BY <1>1, <1>2, <2>2, <2>4, AskedIs, AskedAfter
  <1>5. ASSUME o # Root PROVE Asked(o)' <=> Asked(o)
    <2>1. Asked(o) <=> HowMany(rest, OfType("term")) > 0 \/ deferring'[o] \/ terms
      BY <1>5 DEF Given
    <2>2. Asked(o)' <=> HowMany(rest, OfType("term")) > 0 \/ deferring'[o] \/ terminating'[o]
      BY <1>2, <1>3, AskedAfter
    <2>3. terminating'[o] <=> terms
      BY HandledFlags
    <2> QED BY <2>1, <2>2, <2>3
  <1> QED BY <1>4, <1>5

\* The children an object waits for after a handler.
LEMMA HandledChildren ==
  ASSUME IInv, NEW o, NEW terms, NEW mine, NEW pend, NEW proc, NEW rest, NEW T, NEW out,
         Given(o, terms, mine, pend, proc, rest, T), Sends(out, T),
         Handled(o, terms, mine, pend, proc, rest, out),
         NEW x \in Object, Live(x)
  PROVE  /\ x # o /\ ~(CanDestroy(terms, proc, sent[o], pend) /\ x = owner[o])
              => AskedChildren(x)' = AskedChildren(x)
         /\ x # o /\ CanDestroy(terms, proc, sent[o], pend) /\ x = owner[o]
              => AskedChildren(x)' = AskedChildren(x) \ {o} /\ o \in AskedChildren(x)
         /\ x = o /\ ~CanDestroy(terms, proc, sent[o], pend)
              => AskedChildren(x)' = AskedChildren(x) \cup T /\ AskedChildren(x) \cap T = {}
  <1> DEFINE done == CanDestroy(terms, proc, sent[o], pend)
  <1>1. /\ o \in Object /\ Live(o) /\ T \in SUBSET Child
        /\ \A c \in T : Live(c) /\ owner[c] = o /\ ~Asked(c)
    BY DEF Given, Unasked
  <1>2. Tree
    BY DEF IInv
  <1>3. owner[o] # o /\ (o # Root => o \in Child) /\ (o = Root => owner[o] = NoOne)
    BY <1>1, <1>2, Acyclic DEF Object
  <1>4. /\ \A c \in Object : c # o => status'[c] = status[c] /\ owner'[c] = owner[c]
        /\ ~done => status'[o] = "live" /\ owner'[o] = owner[o]
        /\ done => status'[o] = "free"
    BY HandledFields
  <1>5. /\ \A c \in Object : c # o => (Asked(c)' <=> Asked(c) \/ c \in T)
        /\ o # Root => (Asked(o)' <=> Asked(o))
    BY HandledAsked
  <1>6. done => o = Root \/ Asked(o)
    <2>1. SUFFICES ASSUME done, o # Root PROVE Asked(o)
      OBVIOUS
    <2>2. terms
      BY <2>1 DEF CanDestroy
    <2> QED BY <2>1, <2>2 DEF Given
  <1>7. x # NoOne /\ Root \notin Child
    BY ObjectsAssumption
  <1>8. AskedChildren(x)' = {c \in Child : status'[c] = "live" /\ owner'[c] = x /\ Asked(c)'}
    BY DEF AskedChildren, LiveChildren
  <1>9. AskedChildren(x) = {c \in Child : status[c] = "live" /\ owner[c] = x /\ Asked(c)}
    BY DEF AskedChildren, LiveChildren
  <1>10. \A c \in Child : c \in Object
    BY DEF Object
  <1>11. \A c \in T : owner[c] = o /\ status[c] = "live" /\ ~Asked(c) /\ c # o
    BY <1>1, <1>3 DEF Live
  <1>12. o \notin T
    BY <1>11
  <1> HIDE DEF done
  <1>13. ASSUME x # o, ~(done /\ x = owner[o]) PROVE AskedChildren(x)' = AskedChildren(x)
    <2>1. ASSUME NEW c \in Child
          PROVE  status'[c] = "live" /\ owner'[c] = x /\ Asked(c)'
                   <=> status[c] = "live" /\ owner[c] = x /\ Asked(c)
      <3>1. CASE c = o
        <4>1. o # Root
          BY <1>7, <3>1
        <4>2. CASE done
          BY <1>4, <1>13, <3>1, <4>2
        <4>3. CASE ~done
          <5>1. status'[o] = "live" /\ status[o] = "live" /\ owner'[o] = owner[o]
            BY <1>1, <1>4, <4>3 DEF Live
          <5> QED BY <1>5, <3>1, <4>1, <5>1
        <4> QED BY <4>2, <4>3
      <3>2. CASE c # o
        <4>1. status'[c] = status[c] /\ owner'[c] = owner[c] /\ (Asked(c)' <=> Asked(c) \/ c \in T)
          BY <1>4, <1>5, <1>10, <3>2
        <4>2. c \in T => owner[c] # x
          BY <1>11, <1>13
        <4> QED BY <4>1, <4>2
      <3> QED BY <3>1, <3>2
    <2> QED BY <1>8, <1>9, <2>1
  <1>14. ASSUME x # o, done, x = owner[o]
         PROVE  AskedChildren(x)' = AskedChildren(x) \ {o} /\ o \in AskedChildren(x)
    <2>1. o \in Child /\ o # Root
      BY <1>3, <1>7, <1>14
    <2>2. o \in AskedChildren(x)
      BY <1>1, <1>6, <1>9, <1>14, <2>1 DEF Live
    <2>3. status'[o] # "live"
      BY <1>4, <1>14
    <2>4. ASSUME NEW c \in Child, c # o
          PROVE  status'[c] = "live" /\ owner'[c] = x /\ Asked(c)'
                   <=> status[c] = "live" /\ owner[c] = x /\ Asked(c)
      <3>1. status'[c] = status[c] /\ owner'[c] = owner[c] /\ (Asked(c)' <=> Asked(c) \/ c \in T)
        BY <1>4, <1>5, <1>10, <2>4
      <3>2. c \in T => owner[c] # x
        BY <1>11, <1>14
      <3> QED BY <3>1, <3>2
    <2> QED BY <1>8, <1>9, <2>2, <2>3, <2>4
  <1>15. ASSUME x = o, ~done
         PROVE  AskedChildren(x)' = AskedChildren(x) \cup T /\ AskedChildren(x) \cap T = {}
    <2>1. ASSUME NEW c \in Child
          PROVE  status'[c] = "live" /\ owner'[c] = x /\ Asked(c)'
                   <=> (status[c] = "live" /\ owner[c] = x /\ Asked(c)) \/ c \in T
      <3>1. CASE c = o
        <4>1. owner'[c] # x /\ owner[c] # x /\ c \notin T
          BY <1>3, <1>4, <1>12, <1>15, <3>1
        <4> QED BY <4>1
      <3>2. CASE c # o
        <4>1. status'[c] = status[c] /\ owner'[c] = owner[c] /\ (Asked(c)' <=> Asked(c) \/ c \in T)
          BY <1>4, <1>5, <1>10, <3>2
        <4> QED BY <1>11, <1>15, <4>1
      <3> QED BY <3>1, <3>2
    <2> QED BY <1>1, <1>8, <1>9, <1>11, <2>1
  <1> QED BY <1>13, <1>14, <1>15 DEF done

\* A handler that is given what it needs keeps the invariant.
LEMMA HandledStep ==
  ASSUME IInv, NEW o, NEW terms, NEW mine, NEW pend, NEW proc, NEW rest, NEW T, NEW out,
         Given(o, terms, mine, pend, proc, rest, T), Sends(out, T),
         Handled(o, terms, mine, pend, proc, rest, out)
  PROVE  IInv'
  <1> DEFINE done == CanDestroy(terms, proc, sent[o], pend)
  <1>1. /\ o \in Object /\ Live(o) /\ T \in SUBSET Child /\ rest \in Seq(Command)
        /\ \A c \in T : Live(c) /\ owner[c] = o /\ ~Asked(c)
    BY DEF Given, Unasked
  <1>2. /\ Tree /\ Clean /\ Numbered /\ Owed /\ Met /\ Top /\ Adopted
        /\ mail \in [Object -> Seq(Command)] /\ status \in [Object -> {"free", "live"}]
    BY DEF IInv, Shapes
  <1>3. done => /\ rest = <<>> /\ T = {} /\ mine = {} /\ pend = 0 /\ ~deferring'[o]
                /\ o = Root => pipes' = 0
                /\ \A c \in Child : ~(Live(c) /\ owner[c] = o)
    BY DoneIsQuiet
  <1>4. /\ mail' \in [Object -> Seq(Command)] /\ mail'[o] = rest /\ o \notin T
        /\ \A x \in Object : x # o /\ x \notin T /\ ~(done /\ x = owner[o]) => mail'[x] = mail[x]
    BY HandledMail
  <1>5. /\ Shapes'
        /\ \A x \in Object : x # o =>
              /\ status'[x] = status[x] /\ owner'[x] = owner[x] /\ owned'[x] = owned[x]
              /\ acks'[x] = acks[x] /\ processed'[x] = processed[x] /\ sent'[x] = sent[x]
        /\ owned'[o] = mine /\ acks'[o] = pend
        /\ ~done => status'[o] = "live" /\ owner'[o] = owner[o] /\ processed'[o] = proc /\ sent'[o] = sent[o]
        /\ done => status'[o] = "free" /\ owner'[o] = NoOne /\ processed'[o] = 0
    BY HandledFields
  <1>6. /\ Flags'
        /\ \A x \in Object : x # o => (terminating'[x] <=> terminating[x])
        /\ terminating'[o] <=> terms
    BY HandledFlags
  <1>7. \A x \in Object : x # o => (deferring'[x] <=> deferring[x])
    BY Zenon DEF Given
  <1>8. /\ \A x \in Object : x # o => (Asked(x)' <=> Asked(x) \/ x \in T)
        /\ o # Root => (Asked(o)' <=> Asked(o))
    BY HandledAsked
  <1>9. owner[o] # o /\ (owner[o] = NoOne <=> o = Root) /\ (o # Root => Live(owner[o]))
    BY <1>1, <1>2, Acyclic
  <1>10. Root \in Object /\ Root \notin Child /\ NoOne \notin Object
         /\ \A c \in Child : c \in Object
    BY ObjectsAssumption DEF Object
  <1>11. /\ \A x \in Object : \A P : HowMany(mail[x], P) \in Nat
         /\ \A P : HowMany(rest, P) \in Nat
    BY <1>1, <1>2, HowManyType
  <1> HIDE DEF done
  <1>12. Tree'
    <2>1. owner'[Root] = NoOne
      BY <1>2, <1>5, <1>9, <1>10 DEF Tree
    <2>2. ASSUME NEW c \in Child, status'[c] = "live"
          PROVE  /\ owner'[c] \in Object /\ status'[owner'[c]] = "live"
                 /\ owner'[c] # Root => owner'[owner'[c]] = Root
      <3>1. status[c] = "live" /\ owner'[c] = owner[c]
        BY <1>1, <1>5, <1>10, <2>2 DEF Live
      <3>2. owner[c] \in Object /\ status[owner[c]] = "live" /\ (owner[c] # Root => owner[owner[c]] = Root)
        BY <1>2, <3>1 DEF Tree, Live
      <3>3. done => owner[c] # o
        BY <1>3, <3>1 DEF Live
      <3>4. status'[owner[c]] = "live" /\ owner'[owner[c]] = owner[owner[c]]
        BY <1>5, <3>2, <3>3
      <3> QED BY <3>1, <3>2, <3>4
    <2> QED BY <2>1, <2>2 DEF Tree, Live
  <1>13. Clean'
    <2> SUFFICES ASSUME NEW x \in Object, status'[x] = "free"
                 PROVE  mail'[x] = <<>> /\ owned'[x] = {} /\ acks'[x] = 0 /\ processed'[x] = 0
                        /\ ~deferring'[x]
      BY DEF Clean
    <2>1. CASE x = o
      BY <1>3, <1>4, <1>5, <2>1
    <2>2. CASE x # o
      <3>1. status[x] = "free"
        BY <1>5, <2>2
      <3>2. x \notin T /\ ~(done /\ x = owner[o])
        BY <1>1, <1>9, <1>10, <3>1 DEF Live
      <3>3. /\ mail[x] = <<>> /\ owned[x] = {} /\ acks[x] = 0 /\ processed[x] = 0
        BY <1>2, <3>1 DEF Clean
      <3>4. ~deferring[x]
        BY <1>2, <3>1 DEF Clean
      <3> QED BY <1>4, <1>5, <1>7, <2>2, <3>2, <3>3, <3>4
    <2> QED BY <2>1, <2>2
  <1>14. Numbered'
    <2> SUFFICES ASSUME NEW x \in Object, status'[x] = "live"
                 PROVE  sent'[x] = processed'[x] + HowMany(mail'[x], Counted)
      BY DEF Numbered, Live
    <2>1. CASE x = o
      <3>1. ~done
        BY <1>5, <2>1
      <3>2. sent[o] = proc + HowMany(rest, Counted)
        BY DEF Given
      <3> QED BY <1>4, <1>5, <2>1, <3>1, <3>2
    <2>2. CASE x # o
      <3>1. HowMany(mail'[x], Counted) = HowMany(mail[x], Counted)
        BY <2>2, HandledCounts
      <3>2. sent[x] = processed[x] + HowMany(mail[x], Counted)
        BY <1>2, <1>5, <2>2 DEF Numbered, Live
      <3> QED BY <1>5, <2>2, <3>1, <3>2
    <2> QED BY <2>1, <2>2
  <1>15. Owed'
    <2> SUFFICES ASSUME NEW x \in Object, status'[x] = "live"
                 PROVE  acks'[x] = Cardinality(AskedChildren(x)') + HowMany(mail'[x], OfType("term_ack"))
                                     + (IF x = Root /\ terminating'[Root] THEN pipes' ELSE 0)
      BY DEF Owed, Live
    <2>1. Live(x)
      BY <1>1, <1>5 DEF Live
    <2>2. IsFiniteSet(AskedChildren(x)) /\ Cardinality(AskedChildren(x)) \in Nat
      BY ChildrenFinite
    <2>3. IsFiniteSet(T) /\ Cardinality(T) \in Nat
      BY <1>1, ObjectsAssumption, FS_Subset, FS_CardinalityType
    <2>4. CASE x = o
      <3>1. ~done
        BY <1>5, <2>4
      <3>2. AskedChildren(x)' = AskedChildren(x) \cup T /\ AskedChildren(x) \cap T = {}
        BY <2>1, <2>4, <3>1, HandledChildren DEF done
      <3>3. Cardinality(AskedChildren(x)') = Cardinality(AskedChildren(x)) + Cardinality(T)
        BY <2>2, <2>3, <3>2, FS_Union, FS_EmptySet
      <3>4. pend = Cardinality(AskedChildren(o)) + Cardinality(T) + HowMany(rest, OfType("term_ack"))
                     + (IF o = Root /\ terms THEN pipes' ELSE 0)
        BY DEF Given
      <3> QED BY <1>4, <1>5, <1>6, <2>4, <3>3, <3>4
    <2>5. CASE x # o
      <3>1. acks[x] = Cardinality(AskedChildren(x)) + HowMany(mail[x], OfType("term_ack"))
                        + (IF x = Root /\ terminating[Root] THEN pipes ELSE 0)
        BY <1>2, <2>1 DEF Owed
      <3>2. (IF x = Root /\ terminating'[Root] THEN pipes' ELSE 0)
              = (IF x = Root /\ terminating[Root] THEN pipes ELSE 0)
        <4>1. CASE x = Root
          <5>1. pipes' = pipes
            BY <2>5, <4>1 DEF Given
          <5>2. terminating'[Root] <=> terminating[Root]
            BY <1>6, <1>10, <2>5, <4>1
          <5> QED BY <5>1, <5>2
        <4> QED BY <4>1
      <3>3. HowMany(mail'[x], OfType("term_ack"))
              = HowMany(mail[x], OfType("term_ack")) + One(done /\ x = owner[o])
        BY <2>5, HandledCounts DEF done
      <3>4. Cardinality(AskedChildren(x)') + One(done /\ x = owner[o]) = Cardinality(AskedChildren(x))
        <4>1. CASE done /\ x = owner[o]
          <5>1. AskedChildren(x)' = AskedChildren(x) \ {o} /\ o \in AskedChildren(x)
            BY <2>1, <2>5, <4>1, HandledChildren DEF done
          <5>2. Cardinality(AskedChildren(x)') = Cardinality(AskedChildren(x)) - 1
            BY <2>2, <5>1, FS_RemoveElement
          <5> QED BY <2>2, <4>1, <5>2 DEF One
        <4>2. CASE ~(done /\ x = owner[o])
          <5>1. AskedChildren(x)' = AskedChildren(x)
            BY <2>1, <2>5, <4>2, HandledChildren DEF done
          <5> QED BY <2>2, <4>2, <5>1 DEF One
        <4> QED BY <4>1, <4>2
      <3>5. One(done /\ x = owner[o]) \in {0, 1}
        BY DEF One
      <3>6. Cardinality(AskedChildren(x)') = Cardinality(AskedChildren(x)) - One(done /\ x = owner[o])
        <4> DEFINE a == Cardinality(AskedChildren(x)')  b == One(done /\ x = owner[o])
        <4>1. IsFiniteSet(AskedChildren(x)')
          <5>1. AskedChildren(x)' \in SUBSET Child
            BY DEF AskedChildren, LiveChildren
          <5> QED BY <5>1, ObjectsAssumption, FS_Subset
        <4>2. a \in Nat
          BY <4>1, FS_CardinalityType
        <4> HIDE DEF a, b
        <4> QED BY <2>2, <3>4, <3>5, <4>2 DEF a, b
      <3>7. acks'[x] = acks[x] /\ HowMany(mail[x], OfType("term_ack")) \in Nat
        BY <1>5, <1>11, <2>5
      <3> DEFINE p == IF x = Root /\ terminating[Root] THEN pipes ELSE 0
      <3>8. p \in Nat
        BY DEF IInv, Shapes
      <3> HIDE DEF p
      <3> QED BY <2>2, <3>1, <3>2, <3>3, <3>5, <3>6, <3>7, <3>8 DEF p
    <2> QED BY <2>4, <2>5
  <1>16. Met'
    <2> SUFFICES ASSUME NEW x \in Object, status'[x] = "live"
                 PROVE  /\ HowMany(mail'[x], OfType("term")) <= 1
                        /\ deferring'[x] \/ terminating'[x] => HowMany(mail'[x], OfType("term")) = 0
                        /\ ~(deferring'[x] /\ terminating'[x])
                        /\ terminating'[x] => owned'[x] = {}
      BY DEF Met, Live
    <2>1. CASE x = o
      <3>1. /\ HowMany(rest, OfType("term")) <= 1
            /\ deferring'[o] \/ terms => HowMany(rest, OfType("term")) = 0
            /\ ~(deferring'[o] /\ terms) /\ (terms => mine = {})
        BY DEF Given
      <3> QED BY <1>4, <1>5, <1>6, <2>1, <3>1
    <2>2. CASE x # o
      <3>1. Live(x)
        BY <1>5, <2>2 DEF Live
      <3>2. /\ HowMany(mail[x], OfType("term")) <= 1
            /\ deferring[x] \/ terminating[x] => HowMany(mail[x], OfType("term")) = 0
            /\ ~(deferring[x] /\ terminating[x]) /\ (terminating[x] => owned[x] = {})
        BY <1>2, <3>1 DEF Met
      <3>3. HowMany(mail'[x], OfType("term")) = HowMany(mail[x], OfType("term")) + One(x \in T)
        BY <2>2, HandledCounts
      <3>4. Asked(x) <=> HowMany(mail[x], OfType("term")) > 0 \/ deferring[x] \/ terminating[x]
        BY <1>2, AskedIs
      <3>5. HowMany(mail[x], OfType("term")) \in Nat
        BY <1>11
      <3>6. x \in T => HowMany(mail[x], OfType("term")) = 0 /\ ~deferring[x] /\ ~terminating[x]
        BY <1>1, <3>4, <3>5
      <3>7. (deferring'[x] <=> deferring[x]) /\ (terminating'[x] <=> terminating[x])
        BY <1>6, <1>7, <2>2
      <3> QED BY <1>5, <2>2, <3>2, <3>3, <3>5, <3>6, <3>7 DEF One
    <2> QED BY <2>1, <2>2
  <1>17. Top'
    <2>1. CASE o = Root
      <3>1. /\ pipes' + HowMany(rest, OfType("bind")) <= binds
            /\ HowMany(rest, OfType("term")) = 0 /\ ~deferring'[o] /\ binds' = binds
        BY <2>1 DEF Given
      <3>2. status'[Root] = "free" => pipes' = 0
        BY <1>3, <1>5, <2>1
      <3> QED BY <1>2, <1>4, <2>1, <3>1, <3>2 DEF Top
    <2>2. CASE o # Root
      <3>1. pipes' = pipes /\ binds' = binds
        BY <2>2 DEF Given
      <3>2. /\ HowMany(mail'[Root], OfType("bind")) = HowMany(mail[Root], OfType("bind"))
            /\ HowMany(mail'[Root], OfType("term")) = HowMany(mail[Root], OfType("term")) + One(Root \in T)
        BY <1>10, <2>2, HandledCounts
      <3>3. Root \notin T
        BY <1>1, <1>10
      <3>4. status'[Root] = status[Root] /\ (deferring'[Root] <=> deferring[Root])
        BY <1>5, <1>7, <1>10, <2>2
      <3>5. HowMany(mail'[Root], OfType("term")) = 0
        BY <1>2, <3>2, <3>3 DEF Top, One
      <3> QED BY <1>2, <3>1, <3>2, <3>4, <3>5 DEF Top
    <2> QED BY <2>1, <2>2
  <1>18. Adopted'
    <2> SUFFICES ASSUME NEW x \in Object, NEW c \in Child
                 PROVE  One(c \in owned'[x]) + HowMany(mail'[x], Owns(c))
                          = One(status'[c] = "live" /\ owner'[c] = x /\ ~Asked(c)')
      BY DEF Adopted, Live
    <2>1. c \in Object /\ (c = o => o # Root)
      BY <1>10
    <2>2. CASE x = o
      <3>1. One(c \in mine) + HowMany(rest, Owns(c)) = One(Unasked(o, c) /\ c \notin T)
        BY DEF Given
      <3>2. Unasked(o, c) /\ c \notin T <=> status'[c] = "live" /\ owner'[c] = x /\ ~Asked(c)'
        <4>1. CASE c = o
          <5>1. owner[c] # o
            BY <1>9, <4>1
          <5>2. owner'[c] # x
            BY <1>5, <1>9, <1>10, <2>2, <4>1
          <5> QED BY <5>1, <5>2 DEF Unasked
        <4>2. CASE c # o
          <5>1. status'[c] = status[c] /\ owner'[c] = owner[c] /\ (Asked(c)' <=> Asked(c) \/ c \in T)
            BY <1>5, <1>8, <2>1, <4>2
          <5> QED BY <2>2, <5>1 DEF Unasked, Live
        <4> QED BY <4>1, <4>2
      <3> QED BY <1>4, <1>5, <2>2, <3>1, <3>2 DEF One
    <2>3. CASE x # o
      <3>1. One(c \in owned[x]) + HowMany(mail[x], Owns(c)) = One(Live(c) /\ owner[c] = x /\ ~Asked(c))
        BY <1>2 DEF Adopted
      <3>2. HowMany(mail'[x], Owns(c)) = HowMany(mail[x], Owns(c)) /\ owned'[x] = owned[x]
        BY <1>5, <2>3, HandledCounts
      <3>3. Live(c) /\ owner[c] = x /\ ~Asked(c) <=> status'[c] = "live" /\ owner'[c] = x /\ ~Asked(c)'
        <4>1. CASE c = o
          <5>1. Asked(c)' <=> Asked(c)
            BY <1>8, <2>1, <4>1
          <5>2. CASE done
            <6>1. status'[c] = "free" /\ terms
              BY <1>5, <4>1, <5>2 DEF done, CanDestroy
            <6>2. Asked(c)
              BY <2>1, <4>1, <6>1 DEF Given
            <6> QED BY <6>1, <6>2
          <5>3. CASE ~done
            BY <1>1, <1>5, <4>1, <5>1, <5>3 DEF Live
          <5> QED BY <5>2, <5>3
        <4>2. CASE c # o
          <5>1. status'[c] = status[c] /\ owner'[c] = owner[c] /\ (Asked(c)' <=> Asked(c) \/ c \in T)
            BY <1>5, <1>8, <2>1, <4>2
          <5>2. c \in T => owner[c] # x
            BY <1>1, <2>3
          <5> QED BY <5>1, <5>2 DEF Live
        <4> QED BY <4>1, <4>2
      <3> QED BY <3>1, <3>2, <3>3 DEF One
    <2> QED BY <2>2, <2>3
  <1> QED BY <1>5, <1>6, <1>12, <1>13, <1>14, <1>15, <1>16, <1>17, <1>18 DEF IInv
-----------------------------------------------------------------------------
(* The handlers.                                                            *)

\* What the invariant says of a live object.
LEMMA Standing ==
  ASSUME IInv, NEW o \in Object, Live(o)
  PROVE  /\ mail[o] \in Seq(Command) /\ terminating[o] \in BOOLEAN /\ owned[o] \in SUBSET Child
         /\ \A P : HowMany(mail[o], P) \in Nat
         /\ acks[o] \in Nat /\ processed[o] \in Nat /\ pipes \in Nat
         /\ sent[o] = processed[o] + HowMany(mail[o], Counted)
         /\ acks[o] = Cardinality(AskedChildren(o)) + HowMany(mail[o], OfType("term_ack"))
                        + (IF o = Root /\ terminating[o] THEN pipes ELSE 0)
         /\ Cardinality(AskedChildren(o)) \in Nat
         /\ HowMany(mail[o], OfType("term")) <= 1
         /\ deferring[o] \/ terminating[o] => HowMany(mail[o], OfType("term")) = 0
         /\ ~(deferring[o] /\ terminating[o])
         /\ terminating[o] => owned[o] = {}
         /\ \A c \in Child : One(c \in owned[o]) + HowMany(mail[o], Owns(c)) = One(Unasked(o, c))
         /\ o = Root => /\ HowMany(mail[o], OfType("term")) = 0 /\ ~deferring[o]
                        /\ pipes + HowMany(mail[o], OfType("bind")) <= binds
  <1>1. mail[o] \in Seq(Command)
    BY DEF IInv, Shapes
  <1>2. terminating[o] \in BOOLEAN
    BY Zenon DEF IInv, Flags
  <1>3. owned[o] \in SUBSET Child /\ acks[o] \in Nat /\ processed[o] \in Nat /\ pipes \in Nat
    BY DEF IInv, Shapes
  <1>4. \A P : HowMany(mail[o], P) \in Nat
    BY <1>1, HowManyType
  <1>5. Cardinality(AskedChildren(o)) \in Nat
    BY ChildrenFinite
  <1>6. sent[o] = processed[o] + HowMany(mail[o], Counted)
    BY DEF IInv, Numbered
  <1>7. acks[o] = Cardinality(AskedChildren(o)) + HowMany(mail[o], OfType("term_ack"))
                        + (IF o = Root /\ terminating[o] THEN pipes ELSE 0)
    BY DEF IInv, Owed
  <1>8. /\ HowMany(mail[o], OfType("term")) <= 1
        /\ deferring[o] \/ terminating[o] => HowMany(mail[o], OfType("term")) = 0
        /\ ~(deferring[o] /\ terminating[o])
        /\ terminating[o] => owned[o] = {}
    BY DEF IInv, Met
  <1>9. \A c \in Child : One(c \in owned[o]) + HowMany(mail[o], Owns(c)) = One(Unasked(o, c))
    BY DEF IInv, Adopted, Unasked
  <1>10. o = Root => /\ HowMany(mail[o], OfType("term")) = 0 /\ ~deferring[o]
                     /\ pipes + HowMany(mail[o], OfType("bind")) <= binds
    BY DEF IInv, Top
  <1> QED BY <1>1, <1>2, <1>3, <1>4, <1>5, <1>6, <1>7, <1>8, <1>9, <1>10

\* The command a handler takes.
LEMMA Taken ==
  ASSUME IInv, NEW o \in Object, NEW t, Receives(o, t)
  PROVE  /\ Live(o) /\ Head(mail[o]) \in Command /\ Head(mail[o]).type = t
         /\ Tail(mail[o]) \in Seq(Command)
         /\ \A P : /\ HowMany(Tail(mail[o]), P) \in Nat
                   /\ HowMany(mail[o], P) = HowMany(Tail(mail[o]), P) + One(Head(mail[o]) \in P)
  <1>1. mail[o] \in Seq(Command) /\ mail[o] # <<>>
    BY DEF IInv, Shapes, Receives
  <1>2. Head(mail[o]) \in Command /\ Tail(mail[o]) \in Seq(Command)
    BY <1>1, HeadTailProperties
  <1>3. ASSUME NEW P
        PROVE  /\ HowMany(Tail(mail[o]), P) \in Nat
               /\ HowMany(mail[o], P) = HowMany(Tail(mail[o]), P) + One(Head(mail[o]) \in P)
    BY <1>1, <1>2, HowManyTail, HowManyType
  <1> QED BY <1>2, <1>3 DEF Receives, Live

LEMMA NobodyAsked == Sends(NoMail, {}) /\ Cardinality({}) = 0
  BY FS_EmptySet DEF Sends, NoMail

LEMMA OneAsked ==
  ASSUME NEW c \in Child
  PROVE  Sends([NoMail EXCEPT ![c] = <<Cmd("term")>>], {c}) /\ Cardinality({c}) = 1
  BY FS_Singleton DEF Sends, NoMail, Object

\* A handler that leaves the state of the handshake alone.
LEMMA GivenSame ==
  ASSUME IInv, NEW o \in Object, Live(o), NEW terms \in BOOLEAN, terms <=> terminating[o],
         NEW mine \in SUBSET Child, NEW pend \in Nat, NEW proc \in Nat,
         NEW rest \in Seq(Command), NEW T \in SUBSET Child, \A c \in T : Unasked(o, c),
         UNCHANGED <<deferring, gen, asks, endpoints, binds>>,
         pipes' \in Nat, o # Root => pipes' = pipes,
         o = Root => pipes' + HowMany(rest, OfType("bind")) <= binds,
         HowMany(rest, OfType("term")) = HowMany(mail[o], OfType("term")),
         terms => mine = {},
         sent[o] = proc + HowMany(rest, Counted),
         pend = Cardinality(AskedChildren(o)) + Cardinality(T) + HowMany(rest, OfType("term_ack"))
                  + (IF o = Root /\ terms THEN pipes' ELSE 0),
         \A c \in Child : One(c \in mine) + HowMany(rest, Owns(c)) = One(Unasked(o, c) /\ c \notin T)
  PROVE  Given(o, terms, mine, pend, proc, rest, T)
  <1>1. deferring' \in [Object -> BOOLEAN]
    BY Zenon DEF IInv, Flags
  <1>2. /\ HowMany(mail[o], OfType("term")) <= 1
        /\ deferring[o] \/ terminating[o] => HowMany(mail[o], OfType("term")) = 0
        /\ ~(deferring[o] /\ terminating[o])
        /\ o = Root => HowMany(mail[o], OfType("term")) = 0 /\ ~deferring[o]
    BY Standing
  <1>3. Asked(o) <=> HowMany(mail[o], OfType("term")) > 0 \/ deferring[o] \/ terminating[o]
    BY AskedIs DEF IInv, Shapes
  <1>4. \A x \in Object : x # o => (deferring'[x] <=> deferring[x])
    BY Zenon
  <1>5. deferring'[o] <=> deferring[o]
    BY Zenon
  <1>6. o # Root => (Asked(o) <=> HowMany(rest, OfType("term")) > 0 \/ deferring'[o] \/ terms)
    BY <1>3, <1>5
  <1>7. /\ HowMany(rest, OfType("term")) <= 1
        /\ deferring'[o] \/ terms => HowMany(rest, OfType("term")) = 0
        /\ ~(deferring'[o] /\ terms)
        /\ o = Root => HowMany(rest, OfType("term")) = 0 /\ ~deferring'[o]
    BY <1>2, <1>5
  <1>8. UNCHANGED <<gen, asks, endpoints, binds>>
    OBVIOUS
  <1> QED BY <1>1, <1>4, <1>6, <1>7, <1>8, Zenon DEF Given

LEMMA PlugOrAttachStep == ASSUME IInv, NEW o \in Object, ProcessPlugOrAttach(o) PROVE IInv'
  <1> DEFINE rest == Tail(mail[o])
  <1>1. PICK t \in {"plug", "attach"} : Receives(o, t)
    BY DEF ProcessPlugOrAttach
  <1>2. /\ Handled(o, terminating[o], owned[o], acks[o], processed[o] + 1, rest, NoMail)
        /\ UNCHANGED <<deferring, gen, asks, endpoints, pipes, binds>>
    BY DEF ProcessPlugOrAttach
  <1>3. /\ Live(o) /\ Head(mail[o]) \in Command /\ Head(mail[o]).type = t /\ rest \in Seq(Command)
        /\ \A P : /\ HowMany(rest, P) \in Nat
                  /\ HowMany(mail[o], P) = HowMany(rest, P) + One(Head(mail[o]) \in P)
    BY <1>1, Taken
  <1>4. /\ Head(mail[o]) \notin OfType("term") /\ Head(mail[o]) \notin OfType("term_ack")
        /\ Head(mail[o]) \notin OfType("bind") /\ Head(mail[o]) \in Counted
        /\ \A c \in Child : Head(mail[o]) \notin Owns(c)
    BY <1>1, <1>3, Kinds
  <1> HIDE DEF rest
  <1>5. /\ HowMany(rest, OfType("term")) = HowMany(mail[o], OfType("term"))
        /\ HowMany(rest, OfType("term_ack")) = HowMany(mail[o], OfType("term_ack"))
        /\ HowMany(rest, OfType("bind")) = HowMany(mail[o], OfType("bind"))
        /\ HowMany(rest, Counted) + 1 = HowMany(mail[o], Counted)
        /\ \A c \in Child : HowMany(rest, Owns(c)) = HowMany(mail[o], Owns(c))
    BY <1>3, <1>4 DEF One
  <1>6. HowMany(rest, Counted) \in Nat
    BY <1>3
  <1>7. Given(o, terminating[o], owned[o], acks[o], processed[o] + 1, rest, {})
    <2>1. sent[o] = (processed[o] + 1) + HowMany(rest, Counted)
      <3>1. sent[o] = processed[o] + HowMany(mail[o], Counted) /\ processed[o] \in Nat
        BY <1>3, Standing
      <3> QED BY <1>5, <1>6, <3>1
    <2>2. acks[o] = Cardinality(AskedChildren(o)) + Cardinality({}) + HowMany(rest, OfType("term_ack"))
                      + (IF o = Root /\ terminating[o] THEN pipes' ELSE 0)
      BY <1>2, <1>3, <1>5, Standing, NobodyAsked
    <2>3. \A c \in Child : One(c \in owned[o]) + HowMany(rest, Owns(c))
                             = One(Unasked(o, c) /\ c \notin {})
      BY <1>3, <1>5, Standing DEF One
    <2>4. o = Root => pipes' + HowMany(rest, OfType("bind")) <= binds
      BY <1>2, <1>3, <1>5, Standing
    <2>5. /\ terminating[o] \in BOOLEAN /\ owned[o] \in SUBSET Child /\ acks[o] \in Nat
          /\ processed[o] + 1 \in Nat /\ pipes' \in Nat /\ (terminating[o] => owned[o] = {})
      BY <1>2, <1>3, Standing
    <2> QED BY <1>2, <1>3, <1>5, <2>1, <2>2, <2>3, <2>4, <2>5, GivenSame
  <1> QED BY <1>2, <1>7, NobodyAsked, HandledStep

LEMMA OwnStep == ASSUME IInv, NEW o \in Object, ProcessOwn(o) PROVE IInv'
  <1> DEFINE rest == Tail(mail[o])
             k == Head(mail[o]).obj
  <1>1. Receives(o, "own") /\ UNCHANGED <<deferring, gen, asks, endpoints, pipes, binds>>
    BY DEF ProcessOwn
  <1>2. /\ terminating[o] => Handled(o, TRUE, owned[o], acks[o] + 1, processed[o] + 1, rest,
                                     [NoMail EXCEPT ![k] = <<Cmd("term")>>])
        /\ ~terminating[o] => Handled(o, FALSE, owned[o] \cup {k}, acks[o], processed[o] + 1,
                                      rest, NoMail)
    BY DEF ProcessOwn
  <1>3. /\ Live(o) /\ Head(mail[o]) \in Command /\ Head(mail[o]).type = "own" /\ rest \in Seq(Command)
        /\ \A P : /\ HowMany(rest, P) \in Nat
                  /\ HowMany(mail[o], P) = HowMany(rest, P) + One(Head(mail[o]) \in P)
    BY <1>1, Taken
  <1>4. /\ Head(mail[o]) \notin OfType("term") /\ Head(mail[o]) \notin OfType("term_ack")
        /\ Head(mail[o]) \notin OfType("bind") /\ Head(mail[o]) \in Counted
        /\ \A c \in Child : Head(mail[o]) \in Owns(c) <=> k = c
    BY <1>3, Kinds
  <1>5. k \in Child
    BY <1>3, Commands
  <1> HIDE DEF rest, k
  <1>6. /\ HowMany(rest, OfType("term")) = HowMany(mail[o], OfType("term"))
        /\ HowMany(rest, OfType("term_ack")) = HowMany(mail[o], OfType("term_ack"))
        /\ HowMany(rest, OfType("bind")) = HowMany(mail[o], OfType("bind"))
        /\ HowMany(rest, Counted) + 1 = HowMany(mail[o], Counted)
        /\ \A c \in Child : c # k => HowMany(rest, Owns(c)) = HowMany(mail[o], Owns(c))
        /\ HowMany(rest, Owns(k)) + 1 = HowMany(mail[o], Owns(k))
        /\ HowMany(rest, Owns(k)) \in Nat /\ HowMany(rest, Counted) \in Nat
    BY <1>3, <1>4, <1>5 DEF One
  <1>7. \A c \in Child : One(c \in owned[o]) + HowMany(mail[o], Owns(c)) = One(Unasked(o, c))
    BY <1>3, Standing
  <1>8. Unasked(o, k) /\ k \notin owned[o] /\ HowMany(rest, Owns(k)) = 0
    <2>1. One(k \in owned[o]) + HowMany(mail[o], Owns(k)) = One(Unasked(o, k))
      BY <1>5, <1>7
    <2> QED BY <1>6, <2>1 DEF One
  <1>9. /\ sent[o] = (processed[o] + 1) + HowMany(rest, Counted)
        /\ o = Root => pipes' + HowMany(rest, OfType("bind")) <= binds
        /\ owned[o] \in SUBSET Child /\ acks[o] \in Nat /\ acks[o] + 1 \in Nat
        /\ processed[o] + 1 \in Nat /\ pipes' \in Nat /\ (terminating[o] => owned[o] = {})
        /\ owned[o] \cup {k} \in SUBSET Child /\ {k} \in SUBSET Child
    <2>1. /\ sent[o] = processed[o] + HowMany(mail[o], Counted) /\ processed[o] \in Nat
          /\ owned[o] \in SUBSET Child /\ acks[o] \in Nat /\ pipes \in Nat
          /\ (terminating[o] => owned[o] = {})
          /\ o = Root => pipes + HowMany(mail[o], OfType("bind")) <= binds
      BY <1>3, Standing
    <2>2. sent[o] = (processed[o] + 1) + HowMany(rest, Counted)
      BY <1>6, <2>1
    <2> QED BY <1>1, <1>5, <1>6, <2>1, <2>2
  <1>10. /\ acks[o] = Cardinality(AskedChildren(o)) + HowMany(rest, OfType("term_ack"))
                       + (IF o = Root /\ terminating[o] THEN pipes' ELSE 0)
         /\ Cardinality(AskedChildren(o)) \in Nat /\ HowMany(rest, OfType("term_ack")) \in Nat
    BY <1>1, <1>3, <1>6, Standing
  <1>11. CASE terminating[o]
    <2>1. acks[o] + 1 = Cardinality(AskedChildren(o)) + Cardinality({k}) + HowMany(rest, OfType("term_ack"))
                          + (IF o = Root /\ TRUE THEN pipes' ELSE 0)
      <3> DEFINE w == IF o = Root /\ terminating[o] THEN pipes' ELSE 0
      <3>1. Cardinality({k}) = 1
        BY <1>5, OneAsked
      <3>2. w \in Nat /\ w = (IF o = Root /\ TRUE THEN pipes' ELSE 0)
        BY <1>9, <1>11
      <3>3. acks[o] = Cardinality(AskedChildren(o)) + HowMany(rest, OfType("term_ack")) + w
        BY <1>10
      <3> HIDE DEF w
      <3> QED BY <1>10, <3>1, <3>2, <3>3
    <2>2. ASSUME NEW c \in Child
          PROVE  One(c \in owned[o]) + HowMany(rest, Owns(c)) = One(Unasked(o, c) /\ c \notin {k})
      <3>1. CASE c = k
        BY <1>8, <3>1 DEF One
      <3>2. CASE c # k
        BY <1>6, <1>7, <3>2 DEF One
      <3> QED BY <3>1, <3>2
    <2>3. Given(o, TRUE, owned[o], acks[o] + 1, processed[o] + 1, rest, {k})
      BY <1>1, <1>3, <1>6, <1>8, <1>9, <1>11, <2>1, <2>2, GivenSame
    <2> QED BY <1>2, <1>5, <1>11, <2>3, OneAsked, HandledStep
  <1>12. CASE ~terminating[o]
    <2>1. acks[o] = Cardinality(AskedChildren(o)) + Cardinality({}) + HowMany(rest, OfType("term_ack"))
                          + (IF o = Root /\ FALSE THEN pipes' ELSE 0)
      BY <1>9, <1>10, <1>12, NobodyAsked
    <2>2. ASSUME NEW c \in Child
          PROVE  One(c \in owned[o] \cup {k}) + HowMany(rest, Owns(c)) = One(Unasked(o, c) /\ c \notin {})
      <3>1. CASE c = k
        BY <1>8, <3>1 DEF One
      <3>2. CASE c # k
        BY <1>6, <1>7, <3>2 DEF One
      <3> QED BY <3>1, <3>2
    <2>3. Given(o, FALSE, owned[o] \cup {k}, acks[o], processed[o] + 1, rest, {})
      BY <1>1, <1>3, <1>6, <1>9, <1>12, <2>1, <2>2, GivenSame
    <2> QED BY <1>2, <1>12, <2>3, NobodyAsked, HandledStep
  <1> QED BY <1>11, <1>12

LEMMA TermReqStep == ASSUME IInv, NEW o \in Object, ProcessTermReq(o) PROVE IInv'
  <1> DEFINE rest == Tail(mail[o])
             k == Head(mail[o]).obj
  <1>1. Receives(o, "term_req") /\ UNCHANGED <<deferring, gen, asks, endpoints, pipes, binds>>
    BY DEF ProcessTermReq
  <1>2. /\ terminating[o] \/ k \notin owned[o] =>
              Handled(o, terminating[o], owned[o], acks[o], processed[o] + 1, rest, NoMail)
        /\ ~(terminating[o] \/ k \notin owned[o]) =>
              Handled(o, FALSE, owned[o] \ {k}, acks[o] + 1, processed[o] + 1, rest,
                      [NoMail EXCEPT ![k] = <<Cmd("term")>>])
    BY DEF ProcessTermReq
  <1>3. /\ Live(o) /\ Head(mail[o]) \in Command /\ Head(mail[o]).type = "term_req" /\ rest \in Seq(Command)
        /\ \A P : /\ HowMany(rest, P) \in Nat
                  /\ HowMany(mail[o], P) = HowMany(rest, P) + One(Head(mail[o]) \in P)
    BY <1>1, Taken
  <1>4. /\ Head(mail[o]) \notin OfType("term") /\ Head(mail[o]) \notin OfType("term_ack")
        /\ Head(mail[o]) \notin OfType("bind") /\ Head(mail[o]) \in Counted
        /\ \A c \in Child : Head(mail[o]) \notin Owns(c)
    BY <1>3, Kinds
  <1>5. k \in Child
    BY <1>3, Commands
  <1> HIDE DEF rest, k
  <1>6. /\ HowMany(rest, OfType("term")) = HowMany(mail[o], OfType("term"))
        /\ HowMany(rest, OfType("term_ack")) = HowMany(mail[o], OfType("term_ack"))
        /\ HowMany(rest, OfType("bind")) = HowMany(mail[o], OfType("bind"))
        /\ HowMany(rest, Counted) + 1 = HowMany(mail[o], Counted)
        /\ \A c \in Child : HowMany(rest, Owns(c)) = HowMany(mail[o], Owns(c)) /\ HowMany(rest, Owns(c)) \in Nat
        /\ HowMany(rest, Counted) \in Nat
    BY <1>3, <1>4 DEF One
  <1>7. \A c \in Child : One(c \in owned[o]) + HowMany(rest, Owns(c)) = One(Unasked(o, c))
    BY <1>3, <1>6, Standing
  <1>8. /\ sent[o] = (processed[o] + 1) + HowMany(rest, Counted)
        /\ o = Root => pipes' + HowMany(rest, OfType("bind")) <= binds
        /\ owned[o] \in SUBSET Child /\ acks[o] \in Nat /\ acks[o] + 1 \in Nat
        /\ processed[o] + 1 \in Nat /\ pipes' \in Nat /\ (terminating[o] => owned[o] = {})
        /\ owned[o] \ {k} \in SUBSET Child /\ {k} \in SUBSET Child
    <2>1. /\ sent[o] = processed[o] + HowMany(mail[o], Counted) /\ processed[o] \in Nat
          /\ owned[o] \in SUBSET Child /\ acks[o] \in Nat /\ pipes \in Nat
          /\ (terminating[o] => owned[o] = {})
          /\ o = Root => pipes + HowMany(mail[o], OfType("bind")) <= binds
      BY <1>3, Standing
    <2>2. sent[o] = (processed[o] + 1) + HowMany(rest, Counted)
      BY <1>6, <2>1
    <2> QED BY <1>1, <1>5, <1>6, <2>1, <2>2
  <1>9. /\ acks[o] = Cardinality(AskedChildren(o)) + HowMany(rest, OfType("term_ack"))
                       + (IF o = Root /\ terminating[o] THEN pipes' ELSE 0)
        /\ Cardinality(AskedChildren(o)) \in Nat /\ HowMany(rest, OfType("term_ack")) \in Nat
    BY <1>1, <1>3, <1>6, Standing
  <1>10. CASE terminating[o] \/ k \notin owned[o]
    <2>1. acks[o] = Cardinality(AskedChildren(o)) + Cardinality({}) + HowMany(rest, OfType("term_ack"))
                          + (IF o = Root /\ terminating[o] THEN pipes' ELSE 0)
      BY <1>8, <1>9, NobodyAsked
    <2>2. \A c \in Child : One(c \in owned[o]) + HowMany(rest, Owns(c)) = One(Unasked(o, c) /\ c \notin {})
      BY <1>7 DEF One
    <2>3. terminating[o] \in BOOLEAN
      BY <1>3, Standing
    <2>4. Given(o, terminating[o], owned[o], acks[o], processed[o] + 1, rest, {})
      BY <1>1, <1>3, <1>6, <1>8, <2>1, <2>2, <2>3, GivenSame
    <2> QED BY <1>2, <1>10, <2>4, NobodyAsked, HandledStep
  <1>11. CASE ~(terminating[o] \/ k \notin owned[o])
    <2>1. Unasked(o, k) /\ HowMany(rest, Owns(k)) = 0
      <3>1. One(k \in owned[o]) + HowMany(rest, Owns(k)) = One(Unasked(o, k)) /\ HowMany(rest, Owns(k)) \in Nat
        BY <1>5, <1>6, <1>7
      <3> QED BY <1>11, <3>1 DEF One
    <2>2. acks[o] + 1 = Cardinality(AskedChildren(o)) + Cardinality({k}) + HowMany(rest, OfType("term_ack"))
                          + (IF o = Root /\ FALSE THEN pipes' ELSE 0)
      <3> DEFINE w == IF o = Root /\ terminating[o] THEN pipes' ELSE 0
      <3>1. Cardinality({k}) = 1
        BY <1>5, OneAsked
      <3>2. w \in Nat /\ w = (IF o = Root /\ FALSE THEN pipes' ELSE 0)
        BY <1>8, <1>11
      <3>3. acks[o] = Cardinality(AskedChildren(o)) + HowMany(rest, OfType("term_ack")) + w
        BY <1>9
      <3> HIDE DEF w
      <3> QED BY <1>9, <3>1, <3>2, <3>3
    <2>3. ASSUME NEW c \in Child
          PROVE  One(c \in owned[o] \ {k}) + HowMany(rest, Owns(c)) = One(Unasked(o, c) /\ c \notin {k})
      <3>1. CASE c = k
        BY <2>1, <3>1 DEF One
      <3>2. CASE c # k
        BY <1>7, <3>2 DEF One
      <3> QED BY <3>1, <3>2
    <2>4. Given(o, FALSE, owned[o] \ {k}, acks[o] + 1, processed[o] + 1, rest, {k})
      BY <1>1, <1>3, <1>6, <1>8, <1>11, <2>1, <2>2, <2>3, GivenSame
    <2> QED BY <1>2, <1>5, <1>11, <2>4, OneAsked, HandledStep
  <1> QED BY <1>10, <1>11

LEMMA TermAckStep == ASSUME IInv, NEW o \in Object, ProcessTermAck(o) PROVE IInv'
  <1> DEFINE rest == Tail(mail[o])
  <1>1. /\ Receives(o, "term_ack") /\ UNCHANGED <<deferring, gen, asks, endpoints, pipes, binds>>
        /\ Handled(o, terminating[o], owned[o], acks[o] - 1, processed[o], rest, NoMail)
    BY DEF ProcessTermAck
  <1>2. /\ Live(o) /\ Head(mail[o]) \in Command /\ Head(mail[o]).type = "term_ack" /\ rest \in Seq(Command)
        /\ \A P : /\ HowMany(rest, P) \in Nat
                  /\ HowMany(mail[o], P) = HowMany(rest, P) + One(Head(mail[o]) \in P)
    BY <1>1, Taken
  <1>3. /\ Head(mail[o]) \notin OfType("term") /\ Head(mail[o]) \in OfType("term_ack")
        /\ Head(mail[o]) \notin OfType("bind") /\ Head(mail[o]) \notin Counted
        /\ \A c \in Child : Head(mail[o]) \notin Owns(c)
    BY <1>2, Kinds
  <1> HIDE DEF rest
  <1>4. /\ HowMany(rest, OfType("term")) = HowMany(mail[o], OfType("term"))
        /\ HowMany(rest, OfType("term_ack")) + 1 = HowMany(mail[o], OfType("term_ack"))
        /\ HowMany(rest, OfType("term_ack")) \in Nat
        /\ HowMany(rest, OfType("bind")) = HowMany(mail[o], OfType("bind"))
        /\ HowMany(rest, Counted) = HowMany(mail[o], Counted)
        /\ \A c \in Child : HowMany(rest, Owns(c)) = HowMany(mail[o], Owns(c))
    BY <1>2, <1>3 DEF One
  <1>5. /\ sent[o] = processed[o] + HowMany(mail[o], Counted) /\ processed[o] \in Nat
        /\ owned[o] \in SUBSET Child /\ acks[o] \in Nat /\ pipes \in Nat
        /\ (terminating[o] => owned[o] = {}) /\ terminating[o] \in BOOLEAN
        /\ o = Root => pipes + HowMany(mail[o], OfType("bind")) <= binds
        /\ \A c \in Child : One(c \in owned[o]) + HowMany(mail[o], Owns(c)) = One(Unasked(o, c))
        /\ Cardinality(AskedChildren(o)) \in Nat
    BY <1>2, Standing
  <1> DEFINE w == IF o = Root /\ terminating[o] THEN pipes ELSE 0
  <1>6. acks[o] = Cardinality(AskedChildren(o)) + HowMany(mail[o], OfType("term_ack")) + w
    BY <1>2, Standing
  <1>7. w \in Nat /\ w = (IF o = Root /\ terminating[o] THEN pipes' ELSE 0)
    BY <1>1, <1>5
  <1> HIDE DEF w
  <1>8. /\ acks[o] - 1 = Cardinality(AskedChildren(o)) + 0 + HowMany(rest, OfType("term_ack")) + w
        /\ acks[o] - 1 \in Nat
    BY <1>4, <1>5, <1>6, <1>7
  <1>9. acks[o] - 1 = Cardinality(AskedChildren(o)) + Cardinality({}) + HowMany(rest, OfType("term_ack"))
                        + (IF o = Root /\ terminating[o] THEN pipes' ELSE 0)
    BY <1>7, <1>8, NobodyAsked
  <1>10. \A c \in Child : One(c \in owned[o]) + HowMany(rest, Owns(c)) = One(Unasked(o, c) /\ c \notin {})
    BY <1>4, <1>5 DEF One
  <1>11. Given(o, terminating[o], owned[o], acks[o] - 1, processed[o], rest, {})
    BY <1>1, <1>2, <1>4, <1>5, <1>8, <1>9, <1>10, GivenSame
  <1> QED BY <1>1, <1>11, NobodyAsked, HandledStep

LEMMA BindStep == ASSUME IInv, ProcessBind PROVE IInv'
  <1> DEFINE rest == Tail(mail[Root])
  <1>1. Root \in Object
    BY DEF Object
  <1>2. /\ Receives(Root, "bind") /\ UNCHANGED <<deferring, gen, asks, endpoints, binds>>
    BY DEF ProcessBind
  <1>3. PICK n \in {0, 1} :
           /\ pipes' = pipes + n
           /\ Handled(Root, terminating[Root], owned[Root],
                      acks[Root] + (IF terminating[Root] THEN n ELSE 0),
                      processed[Root] + 1, rest, NoMail)
    BY DEF ProcessBind
  <1>4. /\ Live(Root) /\ Head(mail[Root]) \in Command /\ Head(mail[Root]).type = "bind" /\ rest \in Seq(Command)
        /\ \A P : /\ HowMany(rest, P) \in Nat
                  /\ HowMany(mail[Root], P) = HowMany(rest, P) + One(Head(mail[Root]) \in P)
    BY <1>1, <1>2, Taken
  <1>5. /\ Head(mail[Root]) \notin OfType("term") /\ Head(mail[Root]) \notin OfType("term_ack")
        /\ Head(mail[Root]) \in OfType("bind") /\ Head(mail[Root]) \in Counted
        /\ \A c \in Child : Head(mail[Root]) \notin Owns(c)
    BY <1>4, Kinds
  <1> DEFINE pend == acks[Root] + (IF terminating[Root] THEN n ELSE 0)
  <1> HIDE DEF rest
  <1>6. /\ HowMany(rest, OfType("term")) = HowMany(mail[Root], OfType("term"))
        /\ HowMany(rest, OfType("term_ack")) = HowMany(mail[Root], OfType("term_ack"))
        /\ HowMany(rest, OfType("term_ack")) \in Nat
        /\ HowMany(rest, OfType("bind")) + 1 = HowMany(mail[Root], OfType("bind"))
        /\ HowMany(rest, OfType("bind")) \in Nat
        /\ HowMany(rest, Counted) + 1 = HowMany(mail[Root], Counted) /\ HowMany(rest, Counted) \in Nat
        /\ \A c \in Child : HowMany(rest, Owns(c)) = HowMany(mail[Root], Owns(c))
    BY <1>4, <1>5 DEF One
  <1>7. /\ sent[Root] = processed[Root] + HowMany(mail[Root], Counted) /\ processed[Root] \in Nat
        /\ owned[Root] \in SUBSET Child /\ acks[Root] \in Nat /\ pipes \in Nat
        /\ (terminating[Root] => owned[Root] = {}) /\ terminating[Root] \in BOOLEAN
        /\ pipes + HowMany(mail[Root], OfType("bind")) <= binds
        /\ \A c \in Child : One(c \in owned[Root]) + HowMany(mail[Root], Owns(c)) = One(Unasked(Root, c))
        /\ Cardinality(AskedChildren(Root)) \in Nat
        /\ acks[Root] = Cardinality(AskedChildren(Root)) + HowMany(mail[Root], OfType("term_ack"))
                          + (IF Root = Root /\ terminating[Root] THEN pipes ELSE 0)
    BY <1>1, <1>4, Standing
  <1>8. sent[Root] = (processed[Root] + 1) + HowMany(rest, Counted) /\ processed[Root] + 1 \in Nat
    <2>1. sent[Root] = processed[Root] + HowMany(mail[Root], Counted) /\ processed[Root] \in Nat
      BY <1>7
    <2>2. HowMany(rest, Counted) + 1 = HowMany(mail[Root], Counted) /\ HowMany(rest, Counted) \in Nat
      BY <1>6
    <2> QED BY <2>1, <2>2
  <1>9. binds \in Nat
    BY DEF IInv, Shapes
  <1>10. pipes' + HowMany(rest, OfType("bind")) <= binds /\ pipes' \in Nat
    BY <1>3, <1>6, <1>7, <1>9
  <1>11. pend = Cardinality(AskedChildren(Root)) + Cardinality({}) + HowMany(rest, OfType("term_ack"))
                  + (IF Root = Root /\ terminating[Root] THEN pipes' ELSE 0)
    <2>1. Cardinality({}) = 0
      BY NobodyAsked
    <2>2. CASE terminating[Root]
      <3>1. pend = acks[Root] + n
        BY <2>2
      <3>2. acks[Root] = Cardinality(AskedChildren(Root)) + HowMany(mail[Root], OfType("term_ack")) + pipes
        BY <1>7, <2>2
      <3> HIDE DEF pend
      <3>3. pend = Cardinality(AskedChildren(Root)) + 0 + HowMany(rest, OfType("term_ack")) + pipes'
        BY <1>3, <1>6, <1>7, <3>1, <3>2
      <3> QED BY <2>1, <2>2, <3>3
    <2>3. CASE ~terminating[Root]
      <3>1. pend = acks[Root] + 0
        BY <2>3
      <3>2. acks[Root] = Cardinality(AskedChildren(Root)) + HowMany(mail[Root], OfType("term_ack")) + 0
        BY <1>7, <2>3
      <3> HIDE DEF pend
      <3>3. pend = Cardinality(AskedChildren(Root)) + 0 + HowMany(rest, OfType("term_ack")) + 0
        BY <1>6, <1>7, <3>1, <3>2
      <3> QED BY <2>1, <2>3, <3>3
    <2> QED BY <2>2, <2>3
  <1>12. pend \in Nat
    BY <1>3, <1>7
  <1>13. \A c \in Child : One(c \in owned[Root]) + HowMany(rest, Owns(c)) = One(Unasked(Root, c) /\ c \notin {})
    BY <1>6, <1>7 DEF One
  <1>14. Handled(Root, terminating[Root], owned[Root], pend, processed[Root] + 1, rest, NoMail)
    BY <1>3
  <1> HIDE DEF pend
  <1>15. Given(Root, terminating[Root], owned[Root], pend, processed[Root] + 1, rest, {})
    BY <1>1, <1>2, <1>4, <1>6, <1>7, <1>8, <1>10, <1>11, <1>12, <1>13, GivenSame
  <1> QED BY <1>14, <1>15, NobodyAsked, HandledStep

LEMMA PipeTerminatedStep == ASSUME IInv, PipeTerminated PROVE IInv'
  <1>1. Root \in Object
    BY DEF Object
  <1>2. /\ pipes > 0 /\ pipes' = pipes - 1 /\ UNCHANGED <<deferring, gen, asks, endpoints, binds>>
        /\ terminating[Root] => Handled(Root, TRUE, owned[Root], acks[Root] - 1, processed[Root],
                                        mail[Root], NoMail)
        /\ ~terminating[Root] => UNCHANGED treeVars
    BY DEF PipeTerminated
  <1>3. Live(Root)
    BY <1>1, <1>2 DEF IInv, Shapes, Top, Live
  <1>4. /\ mail[Root] \in Seq(Command)
        /\ sent[Root] = processed[Root] + HowMany(mail[Root], Counted) /\ processed[Root] \in Nat
        /\ owned[Root] \in SUBSET Child /\ acks[Root] \in Nat /\ pipes \in Nat
        /\ (terminating[Root] => owned[Root] = {}) /\ terminating[Root] \in BOOLEAN
        /\ pipes + HowMany(mail[Root], OfType("bind")) <= binds
        /\ \A P : HowMany(mail[Root], P) \in Nat
        /\ \A c \in Child : One(c \in owned[Root]) + HowMany(mail[Root], Owns(c)) = One(Unasked(Root, c))
        /\ Cardinality(AskedChildren(Root)) \in Nat
        /\ acks[Root] = Cardinality(AskedChildren(Root)) + HowMany(mail[Root], OfType("term_ack"))
                          + (IF Root = Root /\ terminating[Root] THEN pipes ELSE 0)
    BY <1>1, <1>3, Standing
  <1>5. /\ HowMany(mail[Root], OfType("term_ack")) \in Nat /\ HowMany(mail[Root], OfType("bind")) \in Nat
        /\ binds \in Nat
    BY <1>4 DEF IInv, Shapes
  <1>6. pipes' \in Nat /\ pipes' + HowMany(mail[Root], OfType("bind")) <= binds
    BY <1>2, <1>4, <1>5
  <1>7. CASE terminating[Root]
    <2>1. acks[Root] = Cardinality(AskedChildren(Root)) + HowMany(mail[Root], OfType("term_ack")) + pipes
      BY <1>4, <1>7
    <2>2. /\ acks[Root] - 1 = Cardinality(AskedChildren(Root)) + 0 + HowMany(mail[Root], OfType("term_ack")) + pipes'
          /\ acks[Root] - 1 \in Nat
      <3> DEFINE n == Cardinality(AskedChildren(Root))
                 m == HowMany(mail[Root], OfType("term_ack"))
      <3>1. /\ n \in Nat /\ m \in Nat /\ pipes \in Nat /\ pipes > 0 /\ pipes' = pipes - 1
            /\ acks[Root] = n + m + pipes
        BY <1>2, <1>4, <1>5, <2>1, Zenon
      <3> HIDE DEF n, m
      <3>2. acks[Root] - 1 = n + 0 + m + pipes' /\ acks[Root] - 1 \in Nat
        BY <3>1
      <3> QED BY <3>2 DEF n, m
    <2>3. acks[Root] - 1 = Cardinality(AskedChildren(Root)) + Cardinality({})
                             + HowMany(mail[Root], OfType("term_ack"))
                             + (IF Root = Root /\ TRUE THEN pipes' ELSE 0)
      BY <2>2, NobodyAsked
    <2>4. \A c \in Child : One(c \in owned[Root]) + HowMany(mail[Root], Owns(c))
                             = One(Unasked(Root, c) /\ c \notin {})
      BY <1>4 DEF One
    <2>5. Given(Root, TRUE, owned[Root], acks[Root] - 1, processed[Root], mail[Root], {})
      BY <1>1, <1>2, <1>3, <1>4, <1>6, <1>7, <2>2, <2>3, <2>4, GivenSame
    <2> QED BY <1>2, <1>7, <2>5, NobodyAsked, HandledStep
  <1>8. CASE ~terminating[Root]
    <2>1. UNCHANGED <<status, owner, owned, terminating, deferring, acks, sent, processed, mail, gen,
                      asks, endpoints, binds>>
      BY <1>2, <1>8 DEF treeVars
    <2>2. Flags' /\ Shapes' /\ Tree' /\ Clean'
      BY <1>6, <2>1 DEF IInv, Flags, Shapes, Tree, Clean, Live
    <2>3. Numbered' /\ Met' /\ Adopted'
      <3>1. Numbered' /\ Met'
        BY <2>1 DEF IInv, Numbered, Met, Live
      <3>2. \A c \in Child : Asked(c)' <=> Asked(c)
        BY <2>1 DEF Asked, Count
      <3>3. Adopted'
        BY <2>1, <3>2 DEF IInv, Adopted, Live, One
      <3> QED BY <3>1, <3>3
    <2>4. Owed'
      BY <1>8, <2>1 DEF IInv, Owed, Live, AskedChildren, LiveChildren, Asked, Count
    <2>5. Top'
      BY <1>3, <1>6, <2>1 DEF IInv, Top, Live
    <2> QED BY <2>2, <2>3, <2>4, <2>5 DEF IInv
  <1> QED BY <1>7, <1>8

\* own_t::process_term() of an object that was not terminating.
LEMMA OwnProcessTermStep ==
  ASSUME IInv, NEW o \in Object, Live(o), NEW rest \in Seq(Command), NEW pend,
         OwnProcessTerm(o, rest, pend),
         deferring' \in [Object -> BOOLEAN], ~deferring'[o],
         \A x \in Object : x # o => (deferring'[x] <=> deferring[x]),
         UNCHANGED <<gen, asks, endpoints, binds, pipes>>,
         o # Root => Asked(o), ~terminating[o],
         pend = acks[o] + (IF o = Root THEN pipes ELSE 0),
         HowMany(rest, OfType("term")) = 0,
         HowMany(rest, OfType("term_ack")) = HowMany(mail[o], OfType("term_ack")),
         HowMany(rest, OfType("bind")) = HowMany(mail[o], OfType("bind")),
         HowMany(rest, Counted) = HowMany(mail[o], Counted),
         \A c \in Child : HowMany(rest, Owns(c)) = HowMany(mail[o], Owns(c))
  PROVE  IInv'
  <1> DEFINE T == owned[o]
             out == [x \in Object |-> IF x \in T THEN <<Cmd("term")>> ELSE <<>>]
             w == IF o = Root THEN pipes ELSE 0
  <1>1. Handled(o, TRUE, {}, pend + Cardinality(T), processed[o], rest, out)
    BY DEF OwnProcessTerm
  <1>2. Sends(out, T)
    BY DEF Sends
  <1>3. /\ sent[o] = processed[o] + HowMany(mail[o], Counted) /\ processed[o] \in Nat
        /\ T \in SUBSET Child /\ acks[o] \in Nat /\ pipes \in Nat
        /\ o = Root => pipes + HowMany(mail[o], OfType("bind")) <= binds
        /\ \A P : HowMany(mail[o], P) \in Nat
        /\ \A c \in Child : One(c \in T) + HowMany(mail[o], Owns(c)) = One(Unasked(o, c))
        /\ Cardinality(AskedChildren(o)) \in Nat
    BY Standing
  <1>4. acks[o] = Cardinality(AskedChildren(o)) + HowMany(mail[o], OfType("term_ack")) + 0
    <2>1. acks[o] = Cardinality(AskedChildren(o)) + HowMany(mail[o], OfType("term_ack"))
                      + (IF o = Root /\ terminating[o] THEN pipes ELSE 0)
      BY Standing
    <2> QED BY <2>1
  <1>5. IsFiniteSet(T) /\ Cardinality(T) \in Nat
    BY <1>3, ObjectsAssumption, FS_Subset, FS_CardinalityType
  <1>6. w \in Nat /\ w = (IF o = Root /\ TRUE THEN pipes' ELSE 0) /\ pend = acks[o] + w
    BY <1>3
  <1>7. HowMany(mail[o], OfType("term_ack")) \in Nat
    BY <1>3
  <1> HIDE DEF T, out, w
  <1>8. /\ pend + Cardinality(T) = Cardinality(AskedChildren(o)) + Cardinality(T)
             + HowMany(rest, OfType("term_ack")) + w
        /\ pend + Cardinality(T) \in Nat
    <2>1. Cardinality(AskedChildren(o)) \in Nat /\ acks[o] \in Nat
      BY <1>3
    <2> QED BY <1>4, <1>5, <1>6, <1>7, <2>1
  <1>9. pend + Cardinality(T) = Cardinality(AskedChildren(o)) + Cardinality(T)
             + HowMany(rest, OfType("term_ack")) + (IF o = Root /\ TRUE THEN pipes' ELSE 0)
    BY <1>6, <1>8
  <1>10. ASSUME NEW c \in Child
         PROVE  /\ One(c \in {}) + HowMany(rest, Owns(c)) = One(Unasked(o, c) /\ c \notin T)
                /\ c \in T => Unasked(o, c)
    <2>1. One(c \in T) + HowMany(rest, Owns(c)) = One(Unasked(o, c)) /\ HowMany(rest, Owns(c)) \in Nat
      BY <1>3
    <2> QED BY <2>1 DEF One
  <1>11. \A c \in T : Unasked(o, c)
    BY <1>3, <1>10
  <1>12. /\ HowMany(rest, OfType("term")) <= 1
         /\ o # Root => (Asked(o) <=> HowMany(rest, OfType("term")) > 0 \/ deferring'[o] \/ TRUE)
         /\ pipes' \in Nat /\ pipes' = pipes /\ UNCHANGED <<gen, asks, endpoints, binds>>
         /\ o = Root => pipes' + HowMany(rest, OfType("bind")) <= binds
         /\ sent[o] = processed[o] + HowMany(rest, Counted)
         /\ TRUE \in BOOLEAN /\ {} \in SUBSET Child
    BY <1>3
  <1>13. Given(o, TRUE, {}, pend + Cardinality(T), processed[o], rest, T)
    BY <1>3, <1>8, <1>9, <1>10, <1>11, <1>12, Zenon DEF Given
  <1> QED BY <1>1, <1>2, <1>13, HandledStep

\* process_term(), put off: nothing is destroyed.
LEMMA PutOff ==
  ASSUME IInv, NEW o \in Object, ~terminating[o], mail[o] # <<>>,
         mail' = [mail EXCEPT ![o] = Tail(@)],
         UNCHANGED <<status, owner, owned, terminating, acks, sent, processed>>
  PROVE  Handled(o, FALSE, owned[o], acks[o], processed[o], Tail(mail[o]), NoMail)
  <1>1. ~CanDestroy(FALSE, processed[o], sent[o], acks[o])
    BY DEF CanDestroy
  <1>2. /\ owned' = [owned EXCEPT ![o] = owned[o]] /\ acks' = [acks EXCEPT ![o] = acks[o]]
        /\ processed' = [processed EXCEPT ![o] = processed[o]]
        /\ sent' = [sent EXCEPT ![o] = sent[o]] /\ status' = [status EXCEPT ![o] = status[o]]
        /\ owner' = [owner EXCEPT ![o] = owner[o]]
    BY DEF IInv, Shapes
  <1>3. terminating' = [terminating EXCEPT ![o] = FALSE]
    <2>1. terminating \in [Object -> BOOLEAN] /\ terminating[o] = FALSE
      BY Zenon DEF IInv, Flags
    <2>2. terminating = [terminating EXCEPT ![o] = FALSE]
      BY <2>1
    <2> QED BY <2>2
  <1>4. mail \in [Object -> Seq(Command)] /\ Tail(mail[o]) \in Seq(Command)
    BY HeadTailProperties DEF IInv, Shapes
  <1>5. \A s \in Seq(Command) : s \o <<>> \o <<>> = s
    BY ConcatEmptySeq
  <1>6. mail' = [x \in Object |-> (IF x = o THEN Tail(mail[o]) ELSE mail[x]) \o <<>> \o <<>>]
    BY <1>4, <1>5
  <1>7. mail' = [x \in Object |-> (IF x = o THEN Tail(mail[o]) ELSE mail[x]) \o NoMail[x] \o <<>>]
    BY <1>6 DEF NoMail
  <1> QED BY <1>1, <1>2, <1>3, <1>7 DEF Handled

LEMMA TermStep == ASSUME IInv, NEW o \in Object, ProcessTerm(o) PROVE IInv'
  <1> DEFINE rest == Tail(mail[o])
  <1>1. /\ Receives(o, "term") /\ UNCHANGED <<gen, asks, endpoints, pipes, binds>>
    BY DEF ProcessTerm
  <1>2. \/ OwnProcessTerm(o, rest, acks[o]) /\ UNCHANGED deferring
        \/ /\ deferring' = [deferring EXCEPT ![o] = TRUE]
           /\ mail' = [mail EXCEPT ![o] = Tail(@)]
           /\ UNCHANGED <<status, owner, owned, terminating, acks, sent, processed>>
    BY DEF ProcessTerm
  <1>3. /\ Live(o) /\ Head(mail[o]) \in Command /\ Head(mail[o]).type = "term" /\ rest \in Seq(Command)
        /\ \A P : /\ HowMany(rest, P) \in Nat
                  /\ HowMany(mail[o], P) = HowMany(rest, P) + One(Head(mail[o]) \in P)
    BY <1>1, Taken
  <1>4. /\ Head(mail[o]) \in OfType("term") /\ Head(mail[o]) \notin OfType("term_ack")
        /\ Head(mail[o]) \notin OfType("bind") /\ Head(mail[o]) \notin Counted
        /\ \A c \in Child : Head(mail[o]) \notin Owns(c)
    BY <1>3, Kinds
  <1>5. mail[o] # <<>>
    BY <1>1 DEF Receives
  <1>6. HowMany(mail[o], OfType("term")) = HowMany(rest, OfType("term")) + 1
        /\ HowMany(rest, OfType("term")) \in Nat
    BY <1>3, <1>4 DEF One
  <1>7. /\ HowMany(mail[o], OfType("term")) <= 1 /\ o # Root
        /\ ~deferring[o] /\ ~terminating[o]
    <2>1. /\ HowMany(mail[o], OfType("term")) <= 1
          /\ deferring[o] \/ terminating[o] => HowMany(mail[o], OfType("term")) = 0
          /\ o = Root => HowMany(mail[o], OfType("term")) = 0
      BY <1>3, Standing
    <2>2. HowMany(mail[o], OfType("term")) # 0
      BY <1>6
    <2> QED BY <2>1, <2>2
  <1>8. /\ HowMany(rest, OfType("term")) = 0
        /\ HowMany(rest, OfType("term_ack")) = HowMany(mail[o], OfType("term_ack"))
        /\ HowMany(rest, OfType("bind")) = HowMany(mail[o], OfType("bind"))
        /\ HowMany(rest, Counted) = HowMany(mail[o], Counted)
        /\ \A c \in Child : HowMany(rest, Owns(c)) = HowMany(mail[o], Owns(c))
    <2>1. HowMany(rest, OfType("term")) = 0
      BY <1>6, <1>7
    <2> QED BY <1>3, <1>4, <2>1 DEF One
  <1>9. Asked(o)
    <2>1. Asked(o) <=> HowMany(mail[o], OfType("term")) > 0 \/ deferring[o] \/ terminating[o]
      BY AskedIs DEF IInv, Shapes
    <2> QED BY <1>6, <2>1
  <1> HIDE DEF rest
  <1>10. CASE OwnProcessTerm(o, rest, acks[o]) /\ UNCHANGED deferring
    <2>1. deferring' \in [Object -> BOOLEAN] /\ \A x \in Object : deferring'[x] <=> deferring[x]
      BY <1>10, Zenon DEF IInv, Flags
    <2>2. ~deferring'[o]
      BY <1>7, <2>1
    <2>3. acks[o] = acks[o] + (IF o = Root THEN pipes ELSE 0)
      <3>1. acks[o] \in Nat
        BY <1>3, Standing
      <3> QED BY <1>7, <3>1
    <2> QED BY <1>1, <1>3, <1>7, <1>8, <1>9, <1>10, <2>1, <2>2, <2>3, OwnProcessTermStep
  <1>11. CASE /\ deferring' = [deferring EXCEPT ![o] = TRUE]
              /\ mail' = [mail EXCEPT ![o] = Tail(@)]
              /\ UNCHANGED <<status, owner, owned, terminating, acks, sent, processed>>
    <2>1. Handled(o, FALSE, owned[o], acks[o], processed[o], rest, NoMail)
      BY <1>5, <1>7, <1>11, PutOff DEF rest
    <2>2. deferring \in [Object -> BOOLEAN]
      BY DEF IInv, Flags
    <2>3. deferring' \in [Object -> BOOLEAN]
      BY <1>11, <2>2, Zenon
    <2>4. \A x \in Object : x # o => (deferring'[x] <=> deferring[x])
      BY <1>11, <2>2, Zenon
    <2>5. deferring'[o]
      BY <1>11, <2>2, Zenon
    <2>6. /\ sent[o] = processed[o] + HowMany(mail[o], Counted) /\ processed[o] \in Nat
          /\ owned[o] \in SUBSET Child /\ acks[o] \in Nat /\ pipes \in Nat
          /\ \A c \in Child : One(c \in owned[o]) + HowMany(mail[o], Owns(c)) = One(Unasked(o, c))
          /\ Cardinality(AskedChildren(o)) \in Nat
          /\ acks[o] = Cardinality(AskedChildren(o)) + HowMany(mail[o], OfType("term_ack"))
                         + (IF o = Root /\ terminating[o] THEN pipes ELSE 0)
      BY <1>3, Standing
    <2>7. acks[o] = Cardinality(AskedChildren(o)) + Cardinality({}) + HowMany(rest, OfType("term_ack"))
                         + (IF o = Root /\ FALSE THEN pipes' ELSE 0)
      BY <1>7, <1>8, <2>6, NobodyAsked
    <2>8. \A c \in Child : One(c \in owned[o]) + HowMany(rest, Owns(c)) = One(Unasked(o, c) /\ c \notin {})
      BY <1>8, <2>6 DEF One
    <2>9. /\ HowMany(rest, OfType("term")) <= 1 /\ FALSE \in BOOLEAN /\ {} \in SUBSET Child
          /\ sent[o] = processed[o] + HowMany(rest, Counted)
          /\ UNCHANGED <<gen, asks, endpoints, binds>> /\ pipes' \in Nat /\ pipes' = pipes
      BY <1>1, <1>8, <2>6
    <2>10. Given(o, FALSE, owned[o], acks[o], processed[o], rest, {})
      BY <1>3, <1>7, <1>8, <1>9, <2>3, <2>4, <2>5, <2>6, <2>7, <2>8, <2>9, Zenon DEF Given
    <2> QED BY <2>1, <2>10, NobodyAsked, HandledStep
  <1> QED BY <1>2, <1>10, <1>11

LEMMA DeferredTermStep == ASSUME IInv, NEW o \in Child, DeferredTerm(o) PROVE IInv'
  <1>1. o \in Object /\ o # Root
    BY ObjectsAssumption DEF Object
  <1>2. /\ deferring[o] /\ deferring' = [deferring EXCEPT ![o] = FALSE]
        /\ OwnProcessTerm(o, mail[o], acks[o])
        /\ UNCHANGED <<gen, asks, endpoints, pipes, binds>>
    BY DEF DeferredTerm
  <1>3. Live(o)
    BY <1>1, <1>2 DEF IInv, Shapes, Clean, Live
  <1>4. /\ HowMany(mail[o], OfType("term")) = 0 /\ ~terminating[o] /\ mail[o] \in Seq(Command)
        /\ acks[o] \in Nat
    BY <1>1, <1>2, <1>3, Standing
  <1>5. deferring \in [Object -> BOOLEAN]
    BY DEF IInv, Flags
  <1>6. deferring' \in [Object -> BOOLEAN]
    BY <1>2, <1>5, Zenon
  <1>7. \A x \in Object : x # o => (deferring'[x] <=> deferring[x])
    BY <1>2, <1>5, Zenon
  <1>8. ~deferring'[o]
    BY <1>1, <1>2, <1>5, Zenon
  <1>9. Asked(o)
    BY <1>2 DEF Asked
  <1>10. acks[o] = acks[o] + (IF o = Root THEN pipes ELSE 0)
    BY <1>1, <1>4
  <1> QED BY <1>1, <1>2, <1>3, <1>4, <1>6, <1>7, <1>8, <1>9, <1>10, OwnProcessTermStep

LEMMA ReapStep == ASSUME IInv, Reap PROVE IInv'
  <1>1. Root \in Object
    BY DEF Object
  <1>2. /\ Live(Root) /\ ~terminating[Root] /\ OwnProcessTerm(Root, mail[Root], acks[Root] + pipes)
        /\ UNCHANGED <<deferring, gen, asks, endpoints, pipes, binds>>
    BY DEF Reap, Live
  <1>3. /\ HowMany(mail[Root], OfType("term")) = 0 /\ mail[Root] \in Seq(Command) /\ ~deferring[Root]
    BY <1>1, <1>2, Standing
  <1>4. deferring' \in [Object -> BOOLEAN] /\ \A x \in Object : deferring'[x] <=> deferring[x]
    BY <1>2, Zenon DEF IInv, Flags
  <1>5. ~deferring'[Root]
    BY <1>1, <1>3, <1>4
  <1> DEFINE pend == acks[Root] + pipes
  <1>6. pend = acks[Root] + (IF Root = Root THEN pipes ELSE 0)
    OBVIOUS
  <1>7. OwnProcessTerm(Root, mail[Root], pend)
    BY <1>2
  <1> HIDE DEF pend
  <1> QED BY <1>1, <1>2, <1>3, <1>4, <1>5, <1>6, <1>7, OwnProcessTermStep
-----------------------------------------------------------------------------
(* What objects do of their own accord.                                     *)

\* Commands that neither adopt nor terminate anybody reach a live object.
LEMMA PostedStep ==
  ASSUME IInv, NEW p \in Object, Live(p), NEW s \in Seq(Command), NEW n \in Nat,
         mail' = [mail EXCEPT ![p] = s], sent' = [sent EXCEPT ![p] = @ + n],
         UNCHANGED <<status, owner, owned, terminating, deferring, acks, processed, gen, pipes>>,
         asks' \in [Object -> 0 .. MaxAsks], endpoints' \subseteq Child \X Nat,
         binds' \in Nat, binds <= binds', binds' <= MaxPipes,
         p = Root => pipes + HowMany(s, OfType("bind")) <= binds',
         HowMany(s, Counted) = HowMany(mail[p], Counted) + n,
         HowMany(s, OfType("term")) = HowMany(mail[p], OfType("term")),
         HowMany(s, OfType("term_ack")) = HowMany(mail[p], OfType("term_ack")),
         \A c \in Child : HowMany(s, Owns(c)) = HowMany(mail[p], Owns(c))
  PROVE  IInv'
  <1>1. mail \in [Object -> Seq(Command)] /\ sent \in [Object -> Nat] /\ processed \in [Object -> Nat]
    BY DEF IInv, Shapes
  <1>2. mail'[p] = s /\ \A x \in Object : x # p => mail'[x] = mail[x]
    BY <1>1
  <1>3. mail' \in [Object -> Seq(Command)] /\ sent' \in [Object -> Nat]
    BY <1>1
  <1>4. \A x \in Object :
           /\ HowMany(mail'[x], OfType("term")) = HowMany(mail[x], OfType("term"))
           /\ HowMany(mail'[x], OfType("term_ack")) = HowMany(mail[x], OfType("term_ack"))
           /\ \A c \in Child : HowMany(mail'[x], Owns(c)) = HowMany(mail[x], Owns(c))
    BY <1>2
  <1>5. ASSUME NEW x \in Object PROVE Asked(x)' <=> Asked(x)
    BY <1>1, <1>3, <1>4, AskedIs, AskedAfter
  <1>6. ASSUME NEW x \in Object PROVE AskedChildren(x)' = AskedChildren(x)
    <2>1. \A c \in Child : c \in Object
      BY DEF Object
    <2> QED BY <1>5, <2>1 DEF AskedChildren, LiveChildren
  <1>7. Flags'
    BY Zenon DEF IInv, Flags
  <1>8. Shapes'
    BY <1>3 DEF IInv, Shapes
  <1>9. Tree'
    BY DEF IInv, Tree, Live
  <1>10. Clean'
    <2> SUFFICES ASSUME NEW x \in Object, status[x] = "free"
                 PROVE  mail'[x] = <<>> /\ owned[x] = {} /\ acks[x] = 0 /\ processed[x] = 0
                        /\ ~deferring[x]
      BY DEF Clean
    <2>1. x # p
      BY DEF Live
    <2> QED BY <1>2, <2>1 DEF IInv, Clean
  <1>11. Numbered'
    <2> SUFFICES ASSUME NEW x \in Object, Live(x)
                 PROVE  sent'[x] = processed[x] + HowMany(mail'[x], Counted)
      BY DEF Numbered, Live
    <2>1. sent[x] = processed[x] + HowMany(mail[x], Counted)
      BY DEF IInv, Numbered
    <2>2. HowMany(mail[x], Counted) \in Nat /\ processed[x] \in Nat
      BY <1>1, HowManyType
    <2>3. CASE x = p
      <3>1. sent'[x] = sent[x] + n /\ HowMany(mail'[x], Counted) = HowMany(mail[x], Counted) + n
        BY <1>1, <1>2, <2>3
      <3> QED BY <2>1, <2>2, <3>1
    <2>4. CASE x # p
      BY <1>1, <1>2, <2>1, <2>4
    <2> QED BY <2>3, <2>4
  <1>12. Owed'
    <2> SUFFICES ASSUME NEW x \in Object, Live(x)
                 PROVE  acks[x] = Cardinality(AskedChildren(x)') + HowMany(mail'[x], OfType("term_ack"))
                                     + (IF x = Root /\ terminating[Root] THEN pipes ELSE 0)
      BY DEF Owed, Live
    <2> QED BY <1>4, <1>6 DEF IInv, Owed
  <1>13. Met'
    BY <1>4 DEF IInv, Met, Live
  <1>14. Top'
    <2>1. Root \in Object /\ binds \in Nat
      BY DEF Object, IInv, Shapes
    <2>2. HowMany(mail[Root], OfType("bind")) \in Nat /\ pipes \in Nat
      BY <1>1, <2>1, HowManyType DEF IInv, Shapes
    <2>3. pipes + HowMany(mail'[Root], OfType("bind")) <= binds'
      <3>1. CASE p = Root
        BY <1>2, <3>1
      <3>2. CASE p # Root
        <4>1. pipes + HowMany(mail[Root], OfType("bind")) <= binds
          BY DEF IInv, Top
        <4>2. mail'[Root] = mail[Root]
          BY <1>2, <2>1, <3>2
        <4> QED BY <2>1, <2>2, <4>1, <4>2
      <3> QED BY <3>1, <3>2
    <2> QED BY <1>4, <2>1, <2>3 DEF IInv, Top
  <1>15. Adopted'
    <2> SUFFICES ASSUME NEW x \in Object, NEW c \in Child
                 PROVE  One(c \in owned[x]) + HowMany(mail'[x], Owns(c))
                          = One(Live(c) /\ owner[c] = x /\ ~Asked(c)')
      BY DEF Adopted, Live
    <2>1. One(c \in owned[x]) + HowMany(mail[x], Owns(c)) = One(Live(c) /\ owner[c] = x /\ ~Asked(c))
      BY DEF IInv, Adopted
    <2>2. Asked(c)' <=> Asked(c)
      BY <1>5 DEF Object
    <2> QED BY <1>4, <2>1, <2>2 DEF One
  <1> QED BY <1>7, <1>8, <1>9, <1>10, <1>11, <1>12, <1>13, <1>14, <1>15 DEF IInv

\* One such command.
LEMMA PostOne ==
  ASSUME NEW s \in Seq(Command), NEW c \in Command, c.type \in {"attach", "term_req", "bind"}
  PROVE  /\ Append(s, c) \in Seq(Command)
         /\ HowMany(Append(s, c), Counted) = HowMany(s, Counted) + 1
         /\ HowMany(Append(s, c), OfType("term")) = HowMany(s, OfType("term"))
         /\ HowMany(Append(s, c), OfType("term_ack")) = HowMany(s, OfType("term_ack"))
         /\ \A x \in Child : HowMany(Append(s, c), Owns(x)) = HowMany(s, Owns(x))
         /\ HowMany(Append(s, c), OfType("bind")) = HowMany(s, OfType("bind")) + One(c.type = "bind")
  <1>1. Append(s, c) \in Seq(Command)
    BY AppendProperties
  <1>2. ASSUME NEW P PROVE HowMany(Append(s, c), P) = HowMany(s, P) + One(c \in P) /\ HowMany(s, P) \in Nat
    <2>1. HowMany(Append(s, c), P) = HowMany(s, P) + One(c \in P)
      BY HowManyAppend
    <2>2. HowMany(s, P) \in Nat
      BY HowManyType
    <2> QED BY <2>1, <2>2
  <1>3. /\ c \in Counted /\ c \notin OfType("term") /\ c \notin OfType("term_ack")
        /\ \A x \in Child : c \notin Owns(x)
        /\ c \in OfType("bind") <=> c.type = "bind"
    BY DEF Counted, OfType, Owns
  <1> QED BY <1>1, <1>2, <1>3 DEF One

\* n commands more, none of which brings a pipe.
Adds(b, s, n) ==
    /\ s \in Seq(Command) /\ n \in Nat
    /\ HowMany(s, Counted) = HowMany(b, Counted) + n
    /\ HowMany(s, OfType("term")) = HowMany(b, OfType("term"))
    /\ HowMany(s, OfType("term_ack")) = HowMany(b, OfType("term_ack"))
    /\ \A x \in Child : HowMany(s, Owns(x)) = HowMany(b, Owns(x))
    /\ HowMany(s, OfType("bind")) = HowMany(b, OfType("bind"))

LEMMA AddsOne ==
  ASSUME NEW b \in Seq(Command), NEW c \in Command, c.type \in {"attach", "term_req"}
  PROVE  Adds(b, Append(b, c), 1)
  <1>1. HowMany(b, OfType("bind")) \in Nat
    BY HowManyType
  <1> QED BY <1>1, PostOne DEF Adds, One

LEMMA AddsTwo ==
  ASSUME NEW b \in Seq(Command), NEW s, Adds(b, s, 1), NEW t, Adds(s, t, 1)
  PROVE  Adds(b, t, 2)
  <1>1. HowMany(b, Counted) \in Nat
    BY HowManyType
  <1> QED BY <1>1 DEF Adds

LEMMA AddsStep ==
  ASSUME IInv, NEW p \in Object, Live(p), NEW s, NEW n, Adds(mail[p], s, n),
         mail' = [mail EXCEPT ![p] = s], sent' = [sent EXCEPT ![p] = @ + n],
         UNCHANGED <<status, owner, owned, terminating, deferring, acks, processed, gen, pipes,
                     binds>>,
         asks' \in [Object -> 0 .. MaxAsks], endpoints' \subseteq Child \X Nat
  PROVE  IInv'
  <1>1. binds' \in Nat /\ binds <= binds' /\ binds' <= MaxPipes
    BY DEF IInv, Shapes, Top
  <1>2. p = Root => pipes + HowMany(s, OfType("bind")) <= binds'
    BY DEF IInv, Top, Adds
  <1> QED BY <1>1, <1>2, PostedStep DEF Adds

LEMMA AskStep == ASSUME IInv, NEW c \in Child, Ask(c) PROVE IInv'
  <1> DEFINE p == owner[c]
             req == CmdOf("term_req", c)
             att == Cmd("attach")
  <1>1. c \in Object /\ Live(c)
    BY DEF Object, Ask, Running, Live
  <1>2. p \in Object /\ Live(p)
    BY <1>1 DEF IInv, Tree
  <1>3. PICK before \in {<<>>, <<att>>} :
           /\ mail' = [mail EXCEPT ![p] = @ \o Append(before, req)]
           /\ sent' = [sent EXCEPT ![p] = @ + Len(before) + 1]
    BY DEF Ask
  <1>4. mail[p] \in Seq(Command) /\ sent[p] \in Nat /\ sent \in [Object -> Nat]
        /\ mail \in [Object -> Seq(Command)]
    BY <1>2 DEF IInv, Shapes
  <1>5. req \in Command /\ req.type = "term_req"
    <2>1. gen[c] \in Nat
      BY <1>1 DEF IInv, Shapes
    <2> QED BY <2>1, Commands DEF CmdOf
  <1>6. att \in Command /\ att.type = "attach"
    BY Commands
  <1>7. /\ UNCHANGED <<status, owner, owned, terminating, deferring, acks, processed, gen, pipes, binds>>
        /\ endpoints' \subseteq Child \X Nat
    BY DEF Ask, IInv, Shapes
  <1>8. asks' \in [Object -> 0 .. MaxAsks]
    <2>1. asks \in [Object -> 0 .. MaxAsks] /\ asks[c] < MaxAsks /\ asks' = [asks EXCEPT ![c] = @ + 1]
      BY DEF Ask, IInv, Shapes
    <2>2. asks[c] + 1 \in 0 .. MaxAsks
      BY <1>1, <2>1, ObjectsAssumption
    <2> QED BY <2>1, <2>2
  <1> HIDE DEF p, req, att
  <1>9. CASE before = <<>>
    <2>1. mail[p] \o Append(before, req) = Append(mail[p], req)
      <3>1. Append(before, req) = <<req>>
        BY <1>9
      <3> QED BY <1>4, <1>5, <3>1, AppendIsConcat
    <2>2. sent[p] + Len(before) + 1 = sent[p] + 1
      BY <1>4, <1>9
    <2>3. mail' = [mail EXCEPT ![p] = Append(mail[p], req)] /\ sent' = [sent EXCEPT ![p] = @ + 1]
      BY <1>2, <1>3, <1>4, <2>1, <2>2
    <2>4. Adds(mail[p], Append(mail[p], req), 1)
      BY <1>4, <1>5, AddsOne
    <2> QED BY <1>2, <1>7, <1>8, <2>3, <2>4, AddsStep
  <1>10. CASE before = <<att>>
    <2> DEFINE t == Append(mail[p], att)
    <2>1. t \in Seq(Command)
      BY <1>4, <1>6, AppendProperties
    <2>2. mail[p] \o Append(before, req) = Append(t, req)
      <3>1. Append(<<att>>, req) = <<att>> \o <<req>> /\ <<att>> \in Seq(Command) /\ <<req>> \in Seq(Command)
        <4>1. <<att>> \in Seq(Command) /\ <<req>> \in Seq(Command)
          BY <1>5, <1>6
        <4> QED BY <1>5, <4>1, AppendIsConcat
      <3>2. mail[p] \o (<<att>> \o <<req>>) = (mail[p] \o <<att>>) \o <<req>>
        BY <1>4, <3>1, ConcatAssociative
      <3>3. t = mail[p] \o <<att>> /\ Append(t, req) = t \o <<req>>
        BY <1>4, <1>5, <1>6, <2>1, AppendIsConcat
      <3> QED BY <1>10, <3>1, <3>2, <3>3
    <2>3. Len(before) = 1
      BY <1>10
    <2>4. sent[p] + Len(before) + 1 = sent[p] + 2
      BY <1>4, <2>3
    <2>5. mail' = [mail EXCEPT ![p] = Append(t, req)] /\ sent' = [sent EXCEPT ![p] = @ + 2]
      BY <1>2, <1>3, <1>4, <2>2, <2>4
    <2>6. Adds(mail[p], t, 1) /\ Adds(t, Append(t, req), 1)
      BY <1>4, <1>5, <1>6, <2>1, AddsOne
    <2> HIDE DEF t
    <2>7. Adds(mail[p], Append(t, req), 2)
      BY <1>4, <2>6, AddsTwo
    <2> QED BY <1>2, <1>7, <1>8, <2>5, <2>7, AddsStep
  <1> QED BY <1>3, <1>9, <1>10

LEMMA SendBindStep == ASSUME IInv, NEW c \in Child, SendBind(c) PROVE IInv'
  <1>1. c \in Object /\ Live(c) /\ Root \in Object
    BY DEF Object, SendBind, Running, Live
  <1>2. Live(Root)
    BY <1>1, SocketAlive DEF IInv
  <1> DEFINE b == Cmd("bind")
  <1>3. /\ mail' = [mail EXCEPT ![Root] = Append(@, b)] /\ sent' = [sent EXCEPT ![Root] = @ + 1]
        /\ binds < MaxPipes /\ binds' = binds + 1
        /\ UNCHANGED <<status, owner, owned, terminating, deferring, acks, processed, gen, pipes,
                       asks, endpoints>>
    BY DEF SendBind
  <1>4. b \in Command /\ b.type = "bind"
    BY Commands
  <1>5. mail[Root] \in Seq(Command) /\ mail \in [Object -> Seq(Command)] /\ binds \in Nat /\ pipes \in Nat
        /\ asks \in [Object -> 0 .. MaxAsks] /\ endpoints \subseteq Child \X Nat
    BY <1>1 DEF IInv, Shapes
  <1> DEFINE s == Append(mail[Root], b)
  <1> HIDE DEF b
  <1>6. /\ s \in Seq(Command)
        /\ HowMany(s, Counted) = HowMany(mail[Root], Counted) + 1
        /\ HowMany(s, OfType("term")) = HowMany(mail[Root], OfType("term"))
        /\ HowMany(s, OfType("term_ack")) = HowMany(mail[Root], OfType("term_ack"))
        /\ \A x \in Child : HowMany(s, Owns(x)) = HowMany(mail[Root], Owns(x))
        /\ HowMany(s, OfType("bind")) = HowMany(mail[Root], OfType("bind")) + One(b.type = "bind")
    BY <1>4, <1>5, PostOne
  <1>7. HowMany(s, OfType("bind")) = HowMany(mail[Root], OfType("bind")) + 1
    BY <1>4, <1>6 DEF One
  <1>8. HowMany(mail[Root], OfType("bind")) \in Nat
    BY <1>5, HowManyType
  <1>9. pipes + HowMany(mail[Root], OfType("bind")) <= binds
    BY DEF IInv, Top
  <1>10. mail' = [mail EXCEPT ![Root] = s]
    BY <1>3
  <1> HIDE DEF s
  <1>11. /\ pipes + HowMany(s, OfType("bind")) <= binds' /\ binds' \in Nat /\ binds <= binds'
         /\ binds' <= MaxPipes
    BY <1>3, <1>5, <1>7, <1>8, <1>9, ObjectsAssumption
  <1>12. asks' \in [Object -> 0 .. MaxAsks] /\ endpoints' \subseteq Child \X Nat
    BY <1>3, <1>5
  <1>13. UNCHANGED <<status, owner, owned, terminating, deferring, acks, processed, gen, pipes>>
    BY <1>3
  <1> QED BY <1>1, <1>2, <1>3, <1>6, <1>10, <1>11, <1>12, <1>13, PostedStep

LEMMA TermChildStep ==
  ASSUME IInv, NEW e \in endpoints, TermChild(e[1], e[2]) PROVE IInv'
  <1> DEFINE req == [type |-> "term_req", obj |-> e[1], gen |-> e[2]]
  <1>1. e[1] \in Child /\ e[2] \in Nat /\ Root \in Object
    BY DEF IInv, Shapes, Object
  <1>2. req \in Command /\ req.type = "term_req"
    BY <1>1, Commands
  <1>3. /\ Live(Root) /\ endpoints' = endpoints \ {<<e[1], e[2]>>}
        /\ mail' = [mail EXCEPT ![Root] = Append(@, req)] /\ sent' = [sent EXCEPT ![Root] = @ + 1]
        /\ UNCHANGED <<status, owner, owned, terminating, deferring, acks, processed, gen, asks,
                       pipes, binds>>
    BY DEF TermChild, Live
  <1> HIDE DEF req
  <1>4. mail[Root] \in Seq(Command) /\ asks' \in [Object -> 0 .. MaxAsks] /\ endpoints' \subseteq Child \X Nat
    BY <1>1, <1>3 DEF IInv, Shapes
  <1>5. Adds(mail[Root], Append(mail[Root], req), 1)
    BY <1>2, <1>4, AddsOne
  <1>6. mail' = [mail EXCEPT ![Root] = Append(mail[Root], req)]
    BY <1>3
  <1> QED BY <1>1, <1>3, <1>4, <1>5, <1>6, AddsStep

\* What a new object finds in its mailbox.
LEMMA FirstCommands ==
  ASSUME NEW first \in {<<Cmd("plug")>>, <<Cmd("plug"), Cmd("attach")>>}
  PROVE  /\ first \in Seq(Command) /\ Len(first) \in Nat /\ HowMany(first, Counted) = Len(first)
         /\ HowMany(first, OfType("term")) = 0 /\ HowMany(first, OfType("term_ack")) = 0
         /\ \A x \in Child : HowMany(first, Owns(x)) = 0
  <1> DEFINE a == Cmd("plug")  b == Cmd("attach")
  <1>1. a \in Command /\ a.type = "plug" /\ b \in Command /\ b.type = "attach"
    BY Commands
  <1> HIDE DEF a, b
  <1>2. ASSUME NEW c \in Command, c.type \in {"plug", "attach"}
        PROVE  /\ c \in Counted /\ c \notin OfType("term") /\ c \notin OfType("term_ack")
               /\ \A x \in Child : c \notin Owns(x)
    BY <1>2, Kinds
  <1>3. <<>> \in Seq(Command) /\ <<a>> \in Seq(Command) /\ <<a, b>> \in Seq(Command)
    BY <1>1
  <1>4. ASSUME NEW P PROVE HowMany(<<a>>, P) = One(a \in P)
    <2>1. HowMany(Append(<<>>, a), P) = HowMany(<<>>, P) + One(a \in P)
      BY <1>1, <1>3, HowManyAppend
    <2>2. HowMany(<<>>, P) = 0
      BY HowManyEmpty
    <2>3. One(a \in P) \in Nat
      BY DEF One
    <2>4. Append(<<>>, a) = <<a>>
      OBVIOUS
    <2> QED BY <2>1, <2>2, <2>3, <2>4
  <1>5. ASSUME NEW P PROVE HowMany(<<a, b>>, P) = One(a \in P) + One(b \in P)
    <2>1. HowMany(Append(<<a>>, b), P) = HowMany(<<a>>, P) + One(b \in P)
      BY <1>1, <1>3, HowManyAppend
    <2>2. HowMany(<<a>>, P) = One(a \in P)
      BY <1>4
    <2>3. Append(<<a>>, b) = <<a, b>>
      <3>1. /\ Len(<<a>>) = 1 /\ Len(<<a, b>>) = 2
            /\ <<a>>[1] = a /\ <<a, b>>[1] = a /\ <<a, b>>[2] = b
        OBVIOUS
      <3> DEFINE s == <<a>>  t == <<a, b>>
      <3>2. s \in Seq(Command) /\ t \in Seq(Command) /\ Len(s) = 1 /\ Len(t) = 2
            /\ s[1] = a /\ t[1] = a /\ t[2] = b
        BY <1>3, <3>1
      <3> HIDE DEF s, t
      <3>3. /\ Append(s, b) \in Seq(Command) /\ Len(Append(s, b)) = 2
            /\ Append(s, b)[1] = s[1] /\ Append(s, b)[2] = b
        <4>1. 1 \in 1 .. 1 /\ 1 + 1 = 2
          OBVIOUS
        <4>2. /\ Append(s, b) \in Seq(Command) /\ Len(Append(s, b)) = Len(s) + 1
              /\ \A i \in 1 .. Len(s) : Append(s, b)[i] = s[i]
              /\ Append(s, b)[Len(s) + 1] = b
          <5>1. s \in Seq(Command) /\ b \in Command
            BY <1>1, <3>2
          <5> QED BY <5>1, AppendProperties
        <4>3. Len(s) = 1
          BY <3>2
        <4> QED BY <4>1, <4>2, <4>3
      <3>4. \A i \in 1 .. Len(t) : Append(s, b)[i] = t[i]
        BY <3>2, <3>3
      <3>5. Append(s, b) = t
        BY <3>2, <3>3, <3>4, SeqEqual
      <3> QED BY <3>5 DEF s, t
    <2> QED BY <2>1, <2>2, <2>3
  <1>6. Len(<<a>>) = 1 /\ Len(<<a, b>>) = 2
    OBVIOUS
  <1>7. /\ a \in Counted /\ a \notin OfType("term") /\ a \notin OfType("term_ack")
        /\ \A x \in Child : a \notin Owns(x)
    BY <1>1, <1>2
  <1>8. /\ b \in Counted /\ b \notin OfType("term") /\ b \notin OfType("term_ack")
        /\ \A x \in Child : b \notin Owns(x)
    BY <1>1, <1>2
  <1>9. CASE first = <<a>>
    BY <1>3, <1>4, <1>6, <1>7, <1>9 DEF One
  <1>10. CASE first = <<a, b>>
    BY <1>3, <1>5, <1>6, <1>7, <1>8, <1>10 DEF One
  <1> QED BY <1>9, <1>10 DEF a, b

LEMMA LaunchStep == ASSUME IInv, NEW p \in Object, NEW c \in Child, Launch(p, c) PROVE IInv'
  <1> DEFINE own == [type |-> "own", obj |-> c, gen |-> gen[c] + 1]
  <1>1. /\ c \in Object /\ Live(p) /\ status[c] = "free" /\ c # p /\ c # Root /\ Root \in Object
        /\ p # Root => owner[p] = Root
    BY ObjectsAssumption DEF Object, Launch, Running, Live
  <1>2. PICK first \in {<<Cmd("plug")>>, <<Cmd("plug"), Cmd("attach")>>} :
           /\ mail' = [mail EXCEPT ![c] = first, ![p] = Append(@, own)]
           /\ sent' = [sent EXCEPT ![c] = Len(first), ![p] = @ + 1]
    BY DEF Launch
  <1>3. /\ status' = [status EXCEPT ![c] = "live"] /\ owner' = [owner EXCEPT ![c] = p]
        /\ gen' = [gen EXCEPT ![c] = @ + 1] /\ asks' = [asks EXCEPT ![c] = 0]
        /\ owned' = [owned EXCEPT ![c] = {}] /\ terminating' = [terminating EXCEPT ![c] = FALSE]
        /\ endpoints' = (IF p = Root THEN endpoints \cup {<<c, gen[c] + 1>>} ELSE endpoints)
        /\ UNCHANGED <<deferring, acks, processed, pipes, binds>>
    BY DEF Launch
  <1>4. /\ status \in [Object -> {"free", "live"}] /\ owner \in [Object -> Object \cup {NoOne}]
        /\ owned \in [Object -> SUBSET Child] /\ acks \in [Object -> Nat]
        /\ sent \in [Object -> Nat] /\ processed \in [Object -> Nat]
        /\ gen \in [Object -> Nat] /\ asks \in [Object -> 0 .. MaxAsks]
        /\ pipes \in Nat /\ binds \in Nat /\ endpoints \subseteq Child \X Nat
        /\ mail \in [Object -> Seq(Command)]
        /\ Tree /\ Clean /\ Numbered /\ Owed /\ Met /\ Top /\ Adopted
    BY DEF IInv, Shapes
  <1>g. gen[c] + 1 \in Nat
    <2>1. gen \in [Object -> Nat] /\ c \in Object
      BY <1>1, <1>4, Zenon
    <2> QED BY <2>1
  <1>5. own \in Command /\ own.type = "own" /\ own.obj = c
    BY <1>g, Commands
  <1>6. /\ first \in Seq(Command) /\ Len(first) \in Nat /\ HowMany(first, Counted) = Len(first)
        /\ HowMany(first, OfType("term")) = 0 /\ HowMany(first, OfType("term_ack")) = 0
        /\ \A x \in Child : HowMany(first, Owns(x)) = 0
    BY FirstCommands
  <1>7. mail[p] \in Seq(Command) /\ Append(mail[p], own) \in Seq(Command)
    BY <1>4, <1>5, AppendProperties
  <1>8. endpoints' \subseteq Child \X Nat
    <2>2. <<c, gen[c] + 1>> \in Child \X Nat
      BY <1>g
    <2>3. endpoints' \subseteq endpoints \cup {<<c, gen[c] + 1>>}
      BY <1>3
    <2>4. endpoints \subseteq Child \X Nat
      BY <1>4
    <2> QED BY <2>2, <2>3, <2>4
  <1> HIDE DEF own
  <1>9. /\ mail'[c] = first /\ mail'[p] = Append(mail[p], own)
        /\ \A x \in Object : x # c /\ x # p => mail'[x] = mail[x]
        /\ mail' \in [Object -> Seq(Command)]
    BY <1>1, <1>2, <1>4, <1>6, <1>7
  <1>10. /\ sent'[c] = Len(first) /\ sent'[p] = sent[p] + 1
         /\ \A x \in Object : x # c /\ x # p => sent'[x] = sent[x]
         /\ sent' \in [Object -> Nat]
    <2> DEFINE n == Len(first)  m == sent[p] + 1
    <2>1. n \in Nat /\ m \in Nat /\ sent \in [Object -> Nat]
      BY <1>4, <1>6
    <2>2. sent' = [sent EXCEPT ![c] = n, ![p] = m]
      BY <1>1, <1>2, <1>4
    <2> HIDE DEF n, m
    <2>3. /\ sent'[c] = n /\ sent'[p] = m /\ sent' \in [Object -> Nat]
          /\ \A x \in Object : x # c /\ x # p => sent'[x] = sent[x]
      BY <1>1, <2>1, <2>2
    <2> QED BY <2>3 DEF n, m
  <1>11. /\ status'[c] = "live" /\ owner'[c] = p /\ owned'[c] = {}
         /\ \A x \in Object : x # c =>
               status'[x] = status[x] /\ owner'[x] = owner[x] /\ owned'[x] = owned[x]
    BY <1>1, <1>3, <1>4
  <1>12. Shapes'
    <2>1. 0 \in 0 .. MaxAsks
      BY ObjectsAssumption
    <2>2. /\ status' \in [Object -> {"free", "live"}] /\ owner' \in [Object -> Object \cup {NoOne}]
          /\ owned' \in [Object -> SUBSET Child]
      BY <1>1, <1>3, <1>4
    <2>3. gen' \in [Object -> Nat]
      <3> DEFINE g == gen[c] + 1
      <3>1. gen \in [Object -> Nat] /\ c \in Object
        BY <1>1, <1>4
      <3>2. g \in Nat
        BY <3>1
      <3>3. gen' = [gen EXCEPT ![c] = g]
        BY <1>3
      <3> HIDE DEF g
      <3> QED BY <3>1, <3>2, <3>3
    <2>4. asks' \in [Object -> 0 .. MaxAsks]
      <3> DEFINE A == 0 .. MaxAsks
      <3>1. asks \in [Object -> A] /\ 0 \in A /\ asks' = [asks EXCEPT ![c] = 0]
        BY <1>3, <1>4, <2>1
      <3> HIDE DEF A
      <3>2. asks' \in [Object -> A]
        BY <3>1
      <3> QED BY <3>2 DEF A
    <2> QED BY <2>4, <1>3, <1>4, <1>8, <1>9, <1>10, <2>2, <2>3 DEF Shapes
  <1>13. terminating \in [Object -> BOOLEAN] /\ deferring \in [Object -> BOOLEAN]
    BY DEF IInv, Flags
  <1>14. Flags'
    BY <1>3, <1>13, Zenon DEF Flags
  <1>15. ~terminating'[c]
    BY <1>1, <1>3, <1>13, Zenon
  <1>16. \A x \in Object : x # c => (terminating'[x] <=> terminating[x])
    BY <1>3, <1>13, Zenon
  <1>17. \A x \in Object : deferring'[x] <=> deferring[x]
    BY <1>3, Zenon
  <1>18. mail[c] = <<>> /\ owned[c] = {} /\ acks[c] = 0 /\ processed[c] = 0 /\ ~deferring[c]
    BY <1>1, <1>4 DEF Clean
  <1>19. /\ HowMany(mail'[p], Counted) = HowMany(mail[p], Counted) + 1
         /\ HowMany(mail'[p], OfType("term")) = HowMany(mail[p], OfType("term"))
         /\ HowMany(mail'[p], OfType("term_ack")) = HowMany(mail[p], OfType("term_ack"))
         /\ HowMany(mail'[p], OfType("bind")) = HowMany(mail[p], OfType("bind"))
         /\ \A x \in Child : HowMany(mail'[p], Owns(x)) = HowMany(mail[p], Owns(x)) + One(x = c)
    <2>1. ASSUME NEW P
          PROVE  HowMany(mail'[p], P) = HowMany(mail[p], P) + One(own \in P) /\ HowMany(mail[p], P) \in Nat
      <3>1. HowMany(mail'[p], P) = HowMany(mail[p], P) + One(own \in P)
        BY <1>5, <1>7, <1>9, HowManyAppend
      <3>2. HowMany(mail[p], P) \in Nat
        BY <1>7, HowManyType
      <3> QED BY <3>1, <3>2
    <2>2. /\ own \in Counted /\ own \notin OfType("term") /\ own \notin OfType("term_ack")
          /\ own \notin OfType("bind") /\ \A x \in Child : own \in Owns(x) <=> x = c
      BY <1>5 DEF Counted, OfType, Owns
    <2> QED BY <2>1, <2>2 DEF One
  <1>20. ~Asked(c)'
    <2>1. Asked(c)' <=> HowMany(mail'[c], OfType("term")) > 0 \/ deferring'[c] \/ terminating'[c]
      BY <1>1, <1>9, AskedAfter
    <2> QED BY <1>1, <1>6, <1>9, <1>15, <1>17, <1>18, <2>1
  <1>21. ASSUME NEW x \in Object, x # c PROVE Asked(x)' <=> Asked(x)
    <2>1. HowMany(mail'[x], OfType("term")) = HowMany(mail[x], OfType("term"))
      BY <1>9, <1>19, <1>21
    <2> QED BY <1>4, <1>9, <1>16, <1>17, <1>21, <2>1, AskedIs, AskedAfter
  <1>22. ASSUME NEW d \in Child, Live(d) PROVE d # c /\ owner[d] # c /\ d \in Object
    <2>1. Live(owner[d])
      BY <1>4, <1>22 DEF Tree
    <2> QED BY <1>1, <1>22, <2>1 DEF Live, Object
  <1>23. ASSUME NEW x \in Object PROVE AskedChildren(x)' = AskedChildren(x)
    <2>1. ASSUME NEW d \in Child
          PROVE  status'[d] = "live" /\ owner'[d] = x /\ Asked(d)'
                   <=> status[d] = "live" /\ owner[d] = x /\ Asked(d)
      <3>1. CASE d = c
        BY <1>1, <1>20, <3>1
      <3>2. CASE d # c
        BY <1>11, <1>21, <3>2 DEF Object
      <3> QED BY <3>1, <3>2
    <2> QED BY <2>1 DEF AskedChildren, LiveChildren
  <1>24. AskedChildren(c) = {}
    BY <1>22 DEF AskedChildren, LiveChildren, Live
  <1>25. Tree'
    <2>1. owner'[Root] = NoOne
      BY <1>1, <1>4, <1>11 DEF Tree
    <2>2. ASSUME NEW d \in Child, status'[d] = "live"
          PROVE  /\ owner'[d] \in Object /\ status'[owner'[d]] = "live"
                 /\ owner'[d] # Root => owner'[owner'[d]] = Root
      <3>1. CASE d = c
        BY <1>1, <1>11, <3>1 DEF Live
      <3>2. CASE d # c
        <4>1. Live(d) /\ owner'[d] = owner[d]
          BY <1>11, <2>2, <3>2 DEF Live, Object
        <4>2. owner[d] \in Object /\ Live(owner[d]) /\ (owner[d] # Root => owner[owner[d]] = Root)
          BY <1>4, <4>1 DEF Tree
        <4>3. owner[d] # c
          BY <1>22, <4>1
        <4> QED BY <1>11, <4>1, <4>2, <4>3 DEF Live
      <3> QED BY <3>1, <3>2
    <2> QED BY <2>1, <2>2 DEF Tree, Live
  <1>26. Clean'
    <2> SUFFICES ASSUME NEW x \in Object, status'[x] = "free"
                 PROVE  mail'[x] = <<>> /\ owned'[x] = {} /\ acks'[x] = 0 /\ processed'[x] = 0
                        /\ ~deferring'[x]
      BY DEF Clean
    <2>1. x # c /\ status[x] = "free"
      BY <1>11
    <2>2. x # p
      BY <1>1, <2>1 DEF Live
    <2>3. mail[x] = <<>> /\ owned[x] = {} /\ acks[x] = 0 /\ processed[x] = 0 /\ ~deferring[x]
      BY <1>4, <2>1 DEF Clean
    <2> QED BY <1>3, <1>9, <1>11, <1>17, <2>1, <2>2, <2>3
  <1>27. Numbered'
    <2> SUFFICES ASSUME NEW x \in Object, status'[x] = "live"
                 PROVE  sent'[x] = processed'[x] + HowMany(mail'[x], Counted)
      BY DEF Numbered, Live
    <2>1. CASE x = c
      BY <1>3, <1>6, <1>9, <1>10, <1>18, <2>1
    <2>2. CASE x # c
      <3>1. sent[x] = processed[x] + HowMany(mail[x], Counted)
        BY <1>4, <1>11, <2>2 DEF Numbered, Live
      <3>2. HowMany(mail[x], Counted) \in Nat /\ processed[x] \in Nat /\ processed'[x] = processed[x]
        BY <1>3, <1>4, HowManyType
      <3>3. CASE x = p
        <4>1. sent'[x] = sent[x] + 1
          BY <1>10, <3>3
        <4>2. HowMany(mail'[x], Counted) = HowMany(mail[x], Counted) + 1
          BY <1>19, <3>3
        <4> QED BY <3>1, <3>2, <4>1, <4>2
      <3>4. CASE x # p
        BY <1>9, <1>10, <2>2, <3>1, <3>2, <3>4
      <3> QED BY <3>3, <3>4
    <2> QED BY <2>1, <2>2
  <1>28. Owed'
    <2> SUFFICES ASSUME NEW x \in Object, status'[x] = "live"
                 PROVE  acks'[x] = Cardinality(AskedChildren(x)') + HowMany(mail'[x], OfType("term_ack"))
                                     + (IF x = Root /\ terminating'[Root] THEN pipes' ELSE 0)
      BY DEF Owed, Live
    <2>1. CASE x = c
      <3>1. Cardinality(AskedChildren(x)') = 0
        BY <1>1, <1>23, <1>24, <2>1, FS_EmptySet
      <3> QED BY <1>1, <1>3, <1>6, <1>9, <1>18, <2>1, <3>1
    <2>2. CASE x # c
      <3>1. acks[x] = Cardinality(AskedChildren(x)) + HowMany(mail[x], OfType("term_ack"))
                        + (IF x = Root /\ terminating[Root] THEN pipes ELSE 0)
        BY <1>4, <1>11, <2>2 DEF Owed, Live
      <3>2. HowMany(mail'[x], OfType("term_ack")) = HowMany(mail[x], OfType("term_ack"))
        BY <1>9, <1>19, <2>2
      <3>3. terminating'[Root] <=> terminating[Root]
        BY <1>1, <1>16
      <3> QED BY <1>3, <1>23, <3>1, <3>2, <3>3
    <2> QED BY <2>1, <2>2
  <1>29. Met'
    <2> SUFFICES ASSUME NEW x \in Object, status'[x] = "live"
                 PROVE  /\ HowMany(mail'[x], OfType("term")) <= 1
                        /\ deferring'[x] \/ terminating'[x] => HowMany(mail'[x], OfType("term")) = 0
                        /\ ~(deferring'[x] /\ terminating'[x])
                        /\ terminating'[x] => owned'[x] = {}
      BY DEF Met, Live
    <2>1. CASE x = c
      BY <1>6, <1>9, <1>15, <2>1
    <2>2. CASE x # c
      <3>1. /\ HowMany(mail[x], OfType("term")) <= 1
            /\ deferring[x] \/ terminating[x] => HowMany(mail[x], OfType("term")) = 0
            /\ ~(deferring[x] /\ terminating[x])
            /\ terminating[x] => owned[x] = {}
        BY <1>4, <1>11, <2>2 DEF Met, Live
      <3>2. HowMany(mail'[x], OfType("term")) = HowMany(mail[x], OfType("term"))
        BY <1>9, <1>19, <2>2
      <3> QED BY <1>11, <1>16, <1>17, <2>2, <3>1, <3>2
    <2> QED BY <2>1, <2>2
  <1>30. Top'
    <2>1. /\ HowMany(mail'[Root], OfType("term")) = HowMany(mail[Root], OfType("term"))
          /\ HowMany(mail'[Root], OfType("bind")) = HowMany(mail[Root], OfType("bind"))
      BY <1>1, <1>9, <1>19
    <2>2. status'[Root] = status[Root] /\ (deferring'[Root] <=> deferring[Root])
      BY <1>1, <1>11, <1>17
    <2> QED BY <1>3, <1>4, <2>1, <2>2 DEF Top
  <1>31. Adopted'
    <2> SUFFICES ASSUME NEW x \in Object, NEW d \in Child
                 PROVE  One(d \in owned'[x]) + HowMany(mail'[x], Owns(d))
                          = One(status'[d] = "live" /\ owner'[d] = x /\ ~Asked(d)')
      BY DEF Adopted, Live
    <2>1. One(d \in owned[x]) + HowMany(mail[x], Owns(d)) = One(Live(d) /\ owner[d] = x /\ ~Asked(d))
          /\ HowMany(mail[x], Owns(d)) \in Nat
      BY <1>4, HowManyType DEF Adopted
    <2>2. d # c => /\ status'[d] = status[d] /\ owner'[d] = owner[d] /\ (Asked(d)' <=> Asked(d))
      BY <1>11, <1>21 DEF Object
    <2>3. CASE x = c
      <3>1. One(d \in owned'[x]) + HowMany(mail'[x], Owns(d)) = 0
        BY <1>6, <1>9, <1>11, <2>3 DEF One
      <3>2. ~(status'[d] = "live" /\ owner'[d] = x)
        <4>1. CASE d = c
          BY <1>1, <1>11, <2>3, <4>1
        <4>2. CASE d # c
          BY <1>22, <2>2, <2>3, <4>2 DEF Live
        <4> QED BY <4>1, <4>2
      <3> QED BY <3>1, <3>2 DEF One
    <2>4. CASE x = p
      <3>1. HowMany(mail'[x], Owns(d)) = HowMany(mail[x], Owns(d)) + One(d = c) /\ owned'[x] = owned[x]
        BY <1>1, <1>11, <1>19, <2>4
      <3>2. CASE d = c
        <4>1. ~Live(d)
          BY <1>1, <3>2 DEF Live
        <4>2. d \notin owned[x] /\ HowMany(mail[x], Owns(d)) = 0
          BY <2>1, <4>1 DEF One
        <4>3. status'[d] = "live" /\ owner'[d] = x /\ ~Asked(d)'
          BY <1>11, <1>20, <2>4, <3>2
        <4> QED BY <3>1, <3>2, <4>2, <4>3 DEF One
      <3>3. CASE d # c
        BY <2>1, <2>2, <3>1, <3>3 DEF One, Live
      <3> QED BY <3>2, <3>3
    <2>5. CASE x # c /\ x # p
      <3>1. mail'[x] = mail[x] /\ owned'[x] = owned[x]
        BY <1>9, <1>11, <2>5
      <3>2. Live(d) /\ owner[d] = x /\ ~Asked(d) <=> status'[d] = "live" /\ owner'[d] = x /\ ~Asked(d)'
        <4>1. CASE d = c
          BY <1>1, <1>11, <2>5, <4>1 DEF Live
        <4>2. CASE d # c
          BY <2>2, <4>2 DEF Live
        <4> QED BY <4>1, <4>2
      <3> QED BY <2>1, <3>1, <3>2 DEF One
    <2> QED BY <2>3, <2>4, <2>5
  <1> QED BY <1>12, <1>14, <1>25, <1>26, <1>27, <1>28, <1>29, <1>30, <1>31 DEF IInv
-----------------------------------------------------------------------------
(* The invariant, and what it says.                                         *)

LEMMA InitIInv == Init => IInv
  <1> SUFFICES ASSUME Init PROVE IInv
    OBVIOUS
  <1>1. Root \in Object /\ Root \notin Child /\ \A c \in Child : c \in Object /\ c # Root
    BY ObjectsAssumption DEF Object
  <1>2. /\ \A o \in Object : /\ status[o] = (IF o = Root THEN "live" ELSE "free")
                             /\ owner[o] = NoOne /\ owned[o] = {} /\ acks[o] = 0 /\ sent[o] = 0
                             /\ processed[o] = 0 /\ mail[o] = <<>>
        /\ pipes = 0 /\ binds = 0
    BY DEF Init
  <1>3. \A o \in Object : ~terminating[o] /\ ~deferring[o]
    BY Zenon DEF Init
  <1>4. \A c \in Child : ~Live(c)
    BY <1>1, <1>2 DEF Live
  <1>5. \A o \in Object : \A P : HowMany(mail[o], P) = 0
    BY <1>2, HowManyEmpty
  <1>6. Flags
    BY Zenon DEF Init, Flags
  <1>7. Shapes
    <2>1. 0 \in 0 .. MaxAsks /\ <<>> \in Seq(Command)
      BY ObjectsAssumption
    <2> QED BY <2>1 DEF Init, Shapes
  <1>8. Tree
    BY <1>1, <1>2, <1>4 DEF Tree
  <1>9. Clean
    BY <1>2, <1>3 DEF Clean
  <1>10. Numbered
    BY <1>2, <1>5 DEF Numbered
  <1>11. Owed
    <2> SUFFICES ASSUME NEW o \in Object
                 PROVE  acks[o] = Cardinality(AskedChildren(o)) + HowMany(mail[o], OfType("term_ack"))
                                    + (IF o = Root /\ terminating[Root] THEN pipes ELSE 0)
      BY DEF Owed
    <2>1. AskedChildren(o) = {}
      BY <1>4 DEF AskedChildren, LiveChildren, Live
    <2>2. Cardinality(AskedChildren(o)) = 0
      BY <2>1, FS_EmptySet
    <2> QED BY <1>2, <1>5, <2>2
  <1>12. Met
    BY <1>2, <1>3, <1>5 DEF Met
  <1>13. Top
    <2>1. MaxPipes \in Nat
      BY ObjectsAssumption
    <2> QED BY <1>1, <1>2, <1>3, <1>5, <2>1 DEF Top
  <1>14. Adopted
    BY <1>2, <1>4, <1>5 DEF Adopted, One
  <1> QED BY <1>6, <1>7, <1>8, <1>9, <1>10, <1>11, <1>12, <1>13, <1>14 DEF IInv

LEMMA NextIInv == IInv /\ [Next]_vars => IInv'
  <1> SUFFICES ASSUME IInv, [Next]_vars PROVE IInv'
    OBVIOUS
  <1>1. ASSUME NEW o \in Object, Process(o) PROVE IInv'
    BY <1>1, PlugOrAttachStep, OwnStep, TermReqStep, TermStep, TermAckStep DEF Process
  <1>2. ASSUME NEW c \in Child, Ask(c) \/ SendBind(c) \/ DeferredTerm(c) PROVE IInv'
    BY <1>2, AskStep, SendBindStep, DeferredTermStep
  <1>3. ASSUME NEW p \in Object, NEW c \in Child, Launch(p, c) PROVE IInv'
    BY <1>3, LaunchStep
  <1>4. ASSUME NEW e \in endpoints, TermChild(e[1], e[2]) PROVE IInv'
    BY <1>4, TermChildStep
  <1>5. CASE ProcessBind
    BY <1>5, BindStep
  <1>6. CASE Reap
    BY <1>6, ReapStep
  <1>7. CASE PipeTerminated
    BY <1>7, PipeTerminatedStep
  <1>8. CASE UNCHANGED vars
    <2>1. UNCHANGED <<status, owner, owned, terminating, deferring, acks, sent, processed, mail,
                      gen, asks, endpoints, pipes, binds>>
      BY <1>8 DEF vars, treeVars
    <2>2. (\A o : Asked(o)' <=> Asked(o)) /\ (\A o : Live(o)' <=> Live(o))
      BY <2>1 DEF Asked, Count, Live
    <2>3. \A o : AskedChildren(o)' = AskedChildren(o)
      BY <2>1, <2>2 DEF AskedChildren, LiveChildren
    <2>4. Flags' /\ Shapes' /\ Clean' /\ Top'
      BY <2>1 DEF IInv, Flags, Shapes, Clean, Top
    <2>5. Tree' /\ Numbered' /\ Met'
      BY <2>1 DEF IInv, Tree, Numbered, Met, Live
    <2>6. Owed'
      BY <2>1, <2>2, <2>3 DEF IInv, Owed
    <2>7. Adopted'
      BY <2>1, <2>2 DEF IInv, Adopted
    <2> QED BY <2>4, <2>5, <2>6, <2>7 DEF IInv
  <1> QED BY <1>1, <1>2, <1>3, <1>4, <1>5, <1>6, <1>7, <1>8 DEF Next

\* The strengthened invariant holds of every behaviour of the tree.
THEOREM Invariance == SafetySpec => []IInv
  BY InitIInv, NextIInv, PTL DEF SafetySpec

\* check_term_acks() destroys an object only when no command can reach it any
\* more and it has no children: the sequence numbers and the acks are enough.
THEOREM DestroyedIsQuiet == SafetySpec => []FreedIsQuiet
  <1>1. ASSUME IInv PROVE FreedIsQuiet
    <2> SUFFICES ASSUME NEW o \in Object, status[o] = "free"
                 PROVE  mail[o] = <<>> /\ owned[o] = {} /\ LiveChildren(o) = {}
      BY DEF FreedIsQuiet
    <2>1. mail[o] = <<>> /\ owned[o] = {}
      BY <1>1 DEF IInv, Clean
    <2>2. ASSUME NEW c \in Child, status[c] = "live" PROVE owner[c] # o
      BY <1>1, <2>2 DEF IInv, Tree, Live
    <2> QED BY <2>1, <2>2 DEF LiveChildren
  <1> QED BY <1>1, Invariance, PTL

\* Whoever asks, and in whatever order the requests, adoptions and deferrals
\* happen, an object is sent one term command, and its owner waits for exactly
\* the acks that can still come.
THEOREM TerminationIsCounted == SafetySpec => []TerminationIsExact
  <1>1. ASSUME IInv PROVE TerminationIsExact
    <2>1. Flags /\ Shapes /\ Clean /\ Owed /\ Met /\ Top
      BY <1>1 DEF IInv
    <2>2. mail \in [Object -> Seq(Command)] /\ pipes \in Nat /\ binds \in Nat /\ Root \in Object
          /\ status \in [Object -> {"free", "live"}]
      BY <2>1 DEF Shapes, Object
    <2>3. \A o \in Object : \A t : Count(o, t) = HowMany(mail[o], OfType(t))
      BY <2>2, CountIs
    <2>4. TermOnce
      <3> SUFFICES ASSUME NEW o \in Object
                   PROVE  Count(o, "term")
                            + (IF deferring[o] \/ (terminating[o] /\ status[o] = "live") THEN 1 ELSE 0)
                              <= 1
        BY DEF TermOnce
      <3>1. mail[o] \in Seq(Command) /\ HowMany(mail[o], OfType("term")) \in Nat
        BY <2>2, HowManyType
      <3>2. CASE status[o] = "free"
        <4>1. mail[o] = <<>> /\ ~deferring[o]
          BY <2>1, <3>2 DEF Clean
        <4>2. HowMany(mail[o], OfType("term")) = 0
          BY <4>1, HowManyEmpty
        <4> QED BY <2>3, <3>2, <4>1, <4>2
      <3>3. CASE status[o] = "live"
        <4>1. /\ HowMany(mail[o], OfType("term")) <= 1
              /\ deferring[o] \/ terminating[o] => HowMany(mail[o], OfType("term")) = 0
          BY <2>1, <3>3 DEF Met, Live
        <4> QED BY <2>3, <3>1, <4>1
      <3> QED BY <2>2, <3>2, <3>3
    <2>5. pipes \in 0 .. MaxPipes
      <3>1. HowMany(mail[Root], OfType("bind")) \in Nat
        BY <2>2, HowManyType
      <3>2. pipes + HowMany(mail[Root], OfType("bind")) <= binds /\ binds <= MaxPipes
        BY <2>1 DEF Top
      <3>3. MaxPipes \in Nat
        BY ObjectsAssumption
      <3> QED BY <2>2, <3>1, <3>2, <3>3
    <2>6. TypeOK
      BY <2>1, <2>5 DEF TypeOK, Flags, Shapes
    <2>7. ASSUME NEW o \in Object, status[o] = "live"
          PROVE  acks[o] = Cardinality({c \in LiveChildren(o) : Asked(c)}) + Count(o, "term_ack")
                             + (IF o = Root /\ terminating[Root] THEN pipes ELSE 0)
      BY <2>1, <2>3, <2>7 DEF Owed, Live, AskedChildren
    <2> QED BY <2>4, <2>6, <2>7 DEF TerminationIsExact, AcksAreExact
  <1> QED BY <1>1, Invariance, PTL

\* A child that nobody has asked to terminate is never lost: launch_child() and
\* process_own() leave it in its owner's set or on the way there, also when the
\* owner is told to terminate in between.
THEOREM ChildrenAreNotLost == SafetySpec => []NoLostChild
  <1>1. ASSUME IInv PROVE NoLostChild
    <2> SUFFICES ASSUME NEW c \in Child, status[c] = "live", ~Asked(c), c \notin owned[owner[c]]
                 PROVE  \E i \in 1 .. Len(mail[owner[c]]) :
                           mail[owner[c]][i].type = "own" /\ mail[owner[c]][i].obj = c
      BY DEF NoLostChild
    <2>1. owner[c] \in Object /\ mail \in [Object -> Seq(Command)]
      BY <1>1 DEF IInv, Tree, Live, Shapes
    <2>2. mail[owner[c]] \in Seq(Command)
      BY <2>1
    <2>3. One(c \in owned[owner[c]]) + HowMany(mail[owner[c]], Owns(c))
             = One(Live(c) /\ owner[c] = owner[c] /\ ~Asked(c))
      BY <1>1, <2>1 DEF IInv, Adopted
    <2>4. HowMany(mail[owner[c]], Owns(c)) \in Nat
      BY <2>2, HowManyType
    <2>5. HowMany(mail[owner[c]], Owns(c)) # 0
      BY <2>3, <2>4 DEF One, Live
    <2>6. PICK i \in 1 .. Len(mail[owner[c]]) : mail[owner[c]][i] \in Owns(c)
      BY <2>2, <2>5, HowManyType
    <2> QED BY <2>6 DEF Owns
  <1> QED BY <1>1, Invariance, PTL
=============================================================================
