-------------------------- MODULE PipeCreditProofs --------------------------
(***************************************************************************)
(* Proofs about the flow control of a pipe for every set of message sizes,  *)
(* every high watermark and any number of messages, FLOWSTATE frames,       *)
(* correlation releases and hiccups.                                        *)
(***************************************************************************)
EXTENDS PipeCredit, SequenceTheorems, WellFoundedInduction, TLAPS

\* Safety needs no fairness.
SafetySpec == Init /\ [][Next]_vars

-----------------------------------------------------------------------------
(* The inductive invariant: remote flow state.                              *)

IsFlow(i) == cmds[i].type = "flow_state"

\* Commands to the pipe are in the order of acceptance.
FlowCommands ==
    /\ \A i \in 1 .. Len(cmds) : IsFlow(i) =>
          /\ cmds[i].epoch <= record.epoch
          /\ cmds[i].epoch = record.epoch => cmds[i].paused = record.paused
    /\ \A i, j \in 1 .. Len(cmds) : IsFlow(i) /\ IsFlow(j) /\ i < j
          => cmds[i].epoch < cmds[j].epoch

\* The last command that is not stale carries the latest state; without one the
\* pipe has it already.
FlowUnderWay ==
    /\ flowEpoch <= record.epoch
    /\ flowEpoch = record.epoch => paused = record.paused
    /\ Ready /\ (\A i \in 1 .. Len(cmds) : IsFlow(i) => cmds[i].epoch <= flowEpoch)
          => paused = record.paused
    /\ Ready => \A i \in 1 .. Len(cmds) :
          (/\ IsFlow(i) /\ cmds[i].epoch > flowEpoch
           /\ \A j \in i + 1 .. Len(cmds) : ~IsFlow(j))
          => cmds[i].paused = record.paused

Flow == FlowCommands /\ FlowUnderWay

-----------------------------------------------------------------------------
(* The inductive invariant: generations and byte counters.                  *)

\* A hiccup the writer has not processed is in its mailbox, and only an XSUB
\* pipe has one.
Generations ==
    /\ 1 <= outGen /\ outGen <= inGen
    /\ routed => inGen = 1
    /\ held => routed
    /\ resending => inGen > 1
    /\ \A i \in 1 .. Len(cmds) : cmds[i].type = "activate_write" => cmds[i].gen <= outGen
    /\ \A i \in 1 .. Len(cmds) : cmds[i].type = "hiccup" =>
          outGen < cmds[i].gen /\ cmds[i].gen <= inGen
    /\ \A i, j \in 1 .. Len(cmds) :
          cmds[i].type = "hiccup" /\ cmds[j].type = "hiccup" /\ i < j => cmds[i].gen < cmds[j].gen

\* The reader has nothing of the new queue before the writer knows of it.
ReaderBooks ==
    /\ (rpc = "publish") <=> (unread > 0)
    /\ outGen # inGen => rpc = "idle" /\ published = 0 /\ prefetched = 0
    /\ outGen = inGen => bytesWritten = published + unread + Bytes(queue)

\* A count of bytes read that grants no room which is not there.
Earned(n) == n + Bytes(queue) <= bytesWritten /\ (outGen = inGen => n <= published)

WriterBooks ==
    /\ Earned(peersRead)
    /\ \A i \in 1 .. Len(cmds) :
          cmds[i].type = "activate_write" /\ cmds[i].gen = outGen => Earned(cmds[i].bytes)
    /\ FitsWatermark(queue)
    /\ wpc \in {"admit", "admitArmed", "commit", "commitArmed"} => msg \in Size

-----------------------------------------------------------------------------
(* The inductive invariant: waiting for credit.                             *)

\* What the turn has done to the pipe at each step of an admission.
TurnSteps ==
    /\ held => ~outActive
    /\ ~held /\ ~outActive => waiting
    /\ wpc \in {"admit", "commit"} => outActive /\ ~held
    /\ wpc \in {"admitArmed", "commitArmed", "resumed", "releaseArmed"}
          => waiting /\ ~outActive /\ ~held
    /\ wpc = "release" => held
    /\ Resyncing => wpc = "idle" /\ ~held
    /\ wpc \in {"resumed", "release", "releaseArmed"} => npc = "idle"
    /\ wpc \in {"admit", "admitArmed", "commit", "commitArmed"} /\ ~resending => ~setAside

\* A writable pipe is set aside only while it is paused or about to be notified.
SetAsideForReason ==
    setAside /\ outActive /\ inGen = 1 => paused \/ npc \in {"flow", "weight", "notify"}

\* A pipe without credit is told of it, or will be seen waiting.
CreditUnderWay ==
    inGen = 1 /\ wpc = "idle" /\ ~held /\ ~outActive
       => GrantInMailbox \/ ReaderWillLook

Books == Generations /\ ReaderBooks /\ WriterBooks
Waiting == TurnSteps /\ SetAsideForReason /\ CreditUnderWay

IInv == TypeOK /\ Flow /\ Books /\ Waiting
-----------------------------------------------------------------------------
(* The bytes of a sequence of frames.                                       *)

\* f counts the bytes of the first i frames of s.
IsSum(f, s, n) ==
    /\ f \in [0 .. n -> Nat] /\ f[0] = 0
    /\ \A i \in 1 .. n : f[i] = f[i - 1] + s[i].bytes

\* Every frame is accounted.
LEMMA FrameBytes ==
  \A f \in Frame : f.bytes \in Size /\ f.bytes \in Nat /\ f.bytes > 0
  <1>1. \A n \in Size : n \in Nat /\ n > 0
    BY BoundsAssumption
  <1> TAKE f \in Frame
  <1>2. f.bytes \in Size
    BY DEF Frame
  <1> QED BY <1>1, <1>2

\* A set of numbers that is not empty has a least one.
LEMMA NatLeast ==
  ASSUME NEW S, S \subseteq Nat, S # {}
  PROVE  \E x \in S : \A y \in S : x <= y
  <1> DEFINE Less == {ss \in Nat \X Nat : ss[1] < ss[2]}
  <1>1. IsWellFoundedOn(Less, Nat)
    BY NatLessThanWellFounded DEF OpToRel
  <1>2. ASSUME NEW x \in Nat, NEW y \in Nat, x < y PROVE <<x, y>> \in Less
    <2>1. <<x, y>>[1] = x /\ <<x, y>>[2] = y /\ <<x, y>> \in Nat \X Nat
      OBVIOUS
    <2> QED BY <1>2, <2>1, Zenon
  <1> HIDE DEF Less
  <1>3. PICK x \in S : \A y \in S : ~(<<y, x>> \in Less)
    BY <1>1, WFMin
  <1>4. \A y \in S : ~(y < x)
    BY <1>2, <1>3
  <1> QED BY <1>4

\* The prefixes of a sequence have their bytes.
LEMMA SumExists ==
  ASSUME NEW s \in Seq(Frame)
  PROVE  \E f : IsSum(f, s, Len(s))
  <1> DEFINE S == {n \in 0 .. Len(s) : ~ \E f : IsSum(f, s, n)}
  <1>0. Len(s) \in Nat
    BY LenProperties
  <1> SUFFICES ASSUME Len(s) \in S PROVE FALSE
    BY <1>0
  <1>1. PICK m \in S : \A y \in S : m <= y
    <2>1. S \subseteq Nat /\ S # {}
      BY <1>0
    <2> HIDE DEF S
    <2> QED BY <2>1, NatLeast
  <1>2. m # 0
    <2>1. IsSum([i \in 0 .. 0 |-> 0], s, 0)
      BY DEF IsSum
    <2> QED BY <1>1, <2>1
  <1>3. m - 1 \in 0 .. Len(s) /\ m \in 1 .. Len(s) /\ m - 1 \notin S
    BY <1>0, <1>1, <1>2
  <1>4. PICK f : IsSum(f, s, m - 1)
    BY <1>3
  <1> DEFINE g == [i \in 0 .. m |-> IF i = m THEN f[m - 1] + s[m].bytes ELSE f[i]]
  <1>5. s[m].bytes \in Nat
    BY <1>3, ElementOfSeq, FrameBytes
  <1>6. g \in [0 .. m -> Nat]
    BY <1>3, <1>4, <1>5 DEF IsSum
  <1>7. g[0] = 0
    BY <1>3, <1>4 DEF IsSum
  <1>8. ASSUME NEW i \in 1 .. m PROVE g[i] = g[i - 1] + s[i].bytes
    BY <1>3, <1>4 DEF IsSum
  <1>9. IsSum(g, s, m)
    BY <1>6, <1>7, <1>8 DEF IsSum
  <1> QED BY <1>1, <1>9

\* Two ways of counting agree when they do so step by step.
LEMMA SumUnique ==
  ASSUME NEW n \in Nat, NEW f, NEW g, f[0] = g[0],
         \A i \in 1 .. n : f[i - 1] = g[i - 1] => f[i] = g[i]
  PROVE  f[n] = g[n]
  <1> DEFINE S == {i \in 0 .. n : f[i] # g[i]}
  <1> SUFFICES ASSUME n \in S PROVE FALSE
    OBVIOUS
  <1>1. PICK m \in S : \A y \in S : m <= y
    <2>1. S \subseteq Nat /\ S # {}
      OBVIOUS
    <2> HIDE DEF S
    <2> QED BY <2>1, NatLeast
  <1>2. m # 0 /\ m \in 0 .. n
    BY <1>1
  <1>3. m \in 1 .. n /\ m - 1 \in 0 .. n /\ ~(m <= m - 1)
    BY <1>2
  <1>4. f[m - 1] = g[m - 1]
    BY <1>1, <1>3
  <1> QED BY <1>1, <1>3, <1>4

\* Bytes is what any such count comes to.
LEMMA BytesIsSum ==
  ASSUME NEW s \in Seq(Frame), NEW f, IsSum(f, s, Len(s))
  PROVE  Bytes(s) = f[Len(s)]
  <1> DEFINE U(u) == u = [i \in 0 .. Len(s) |-> IF i = 0 THEN 0 ELSE u[i - 1] + s[i].bytes]
             up == CHOOSE u : U(u)
  <1>0. Len(s) \in Nat
    BY LenProperties
  <1>1. f = [i \in 0 .. Len(s) |-> IF i = 0 THEN 0 ELSE f[i - 1] + s[i].bytes]
    BY <1>0 DEF IsSum
  <1>2. up = [i \in 0 .. Len(s) |-> IF i = 0 THEN 0 ELSE up[i - 1] + s[i].bytes]
    <2>1. U(f)
      BY <1>1
    <2> QED BY <2>1, Zenon
  <1>3. Bytes(s) = up[Len(s)]
    BY Zenon DEF Bytes
  <1> HIDE DEF up
  <1>4. up[0] = 0 /\ \A i \in 1 .. Len(s) : up[i] = up[i - 1] + s[i].bytes
    BY <1>0, <1>2
  <1>5. /\ up[0] = f[0]
        /\ \A i \in 1 .. Len(s) : up[i - 1] = f[i - 1] => up[i] = f[i]
    BY <1>4 DEF IsSum
  <1>6. up[Len(s)] = f[Len(s)]
    BY <1>0, <1>5, SumUnique
  <1> QED BY <1>3, <1>6

\* Bytes are counted in natural numbers, from zero.
LEMMA BytesType ==
  ASSUME NEW s \in Seq(Frame)
  PROVE  Bytes(s) \in Nat /\ Bytes(<<>>) = 0
  <1>1. PICK f : IsSum(f, s, Len(s))
    BY SumExists
  <1>2. Bytes(s) \in Nat
    <2>1. Len(s) \in Nat
      BY LenProperties
    <2>2. f[Len(s)] \in Nat
      BY <1>1, <2>1 DEF IsSum
    <2> QED BY <1>1, <2>2, BytesIsSum
  <1>3. <<>> \in Seq(Frame) /\ Len(<<>>) = 0
    BY EmptySeq
  <1>4. PICK g : IsSum(g, <<>>, Len(<<>>))
    BY <1>3, SumExists
  <1>5. Bytes(<<>>) = 0
    BY <1>3, <1>4, BytesIsSum DEF IsSum
  <1> QED BY <1>2, <1>5

\* A frame written adds its bytes.
LEMMA BytesAppend ==
  ASSUME NEW s \in Seq(Frame), NEW n \in Frame
  PROVE  Bytes(Append(s, n)) = Bytes(s) + n.bytes
  <1> DEFINE t == Append(s, n)
  <1>0. /\ Len(s) \in Nat /\ t \in Seq(Frame) /\ Len(t) = Len(s) + 1
        /\ \A i \in 1 .. Len(s) : t[i] = s[i]
        /\ t[Len(s) + 1] = n
    BY LenProperties, AppendProperties
  <1>1. PICK f : IsSum(f, t, Len(t))
    BY <1>0, SumExists
  <1>2. PICK g : IsSum(g, s, Len(s))
    BY SumExists
  <1>3. f[Len(s)] = g[Len(s)]
    <2>1. \A i \in 1 .. Len(s) : i \in 1 .. Len(t) /\ t[i] = s[i]
      BY <1>0
    <2>2. \A i \in 1 .. Len(s) : f[i - 1] = g[i - 1] => f[i] = g[i]
      BY <1>1, <1>2, <2>1 DEF IsSum
    <2>3. f[0] = g[0]
      BY <1>1, <1>2 DEF IsSum
    <2> QED BY <1>0, <2>2, <2>3, SumUnique
  <1>4. f[Len(s) + 1] = f[Len(s)] + n.bytes
    <2>1. Len(s) + 1 \in 1 .. Len(t) /\ (Len(s) + 1) - 1 = Len(s)
      BY <1>0
    <2> QED BY <1>0, <1>1, <2>1 DEF IsSum
  <1>5. Bytes(t) = f[Len(t)] /\ Bytes(s) = g[Len(s)]
    BY <1>0, <1>1, <1>2, BytesIsSum
  <1> QED BY <1>0, <1>3, <1>4, <1>5

\* A frame read takes its bytes away.
LEMMA BytesTail ==
  ASSUME NEW s \in Seq(Frame), s # <<>>
  PROVE  /\ Head(s) \in Frame /\ Tail(s) \in Seq(Frame)
         /\ Bytes(s) = Head(s).bytes + Bytes(Tail(s))
  <1> DEFINE t == Tail(s)
  <1>0. /\ Len(s) \in Nat \ {0} /\ Head(s) \in Frame /\ t \in Seq(Frame) /\ Len(t) = Len(s) - 1
        /\ \A i \in 1 .. Len(t) : t[i] = s[i + 1]
        /\ Head(s) = s[1]
    BY LenProperties, HeadTailProperties, EmptySeq
  <1>1. PICK f : IsSum(f, s, Len(s))
    BY SumExists
  <1>2. PICK g : IsSum(g, t, Len(t))
    BY <1>0, SumExists
  <1> DEFINE a == [i \in 0 .. Len(t) |-> f[i + 1]]
             b == [i \in 0 .. Len(t) |-> Head(s).bytes + g[i]]
  <1>3. a[0] = b[0]
    <2>1. 1 \in 1 .. Len(s) /\ 0 \in 0 .. Len(t)
      BY <1>0
    <2>2. f[1] = f[0] + s[1].bytes
      BY <1>1, <2>1 DEF IsSum
    <2> QED BY <1>0, <1>1, <1>2, <2>1, <2>2, FrameBytes DEF IsSum
  <1>4. ASSUME NEW i \in 1 .. Len(t)
        PROVE  a[i] = a[i - 1] + t[i].bytes /\ b[i] = b[i - 1] + t[i].bytes
    <2>1. /\ i \in 0 .. Len(t) /\ i - 1 \in 0 .. Len(t) /\ i + 1 \in 1 .. Len(s)
          /\ (i + 1) - 1 = i /\ (i - 1) + 1 = i
      BY <1>0
    <2>2. f[i + 1] = f[i] + s[i + 1].bytes
      BY <1>1, <2>1 DEF IsSum
    <2>3. a[i] = a[i - 1] + t[i].bytes
      BY <1>0, <2>1, <2>2
    <2>4. g[i] = g[i - 1] + t[i].bytes /\ g[i - 1] \in Nat /\ t[i].bytes \in Nat
      BY <1>0, <1>2, <2>1, ElementOfSeq, FrameBytes DEF IsSum
    <2>5. b[i] = Head(s).bytes + g[i] /\ b[i - 1] = Head(s).bytes + g[i - 1]
      BY <2>1
    <2>6. Head(s).bytes \in Nat
      BY <1>0, FrameBytes
    <2>7. b[i] = b[i - 1] + t[i].bytes
      <3>1. \A x, y, z \in Nat : x + (y + z) = (x + y) + z
        OBVIOUS
      <3> HIDE DEF b, t
      <3> QED BY <2>4, <2>5, <2>6, <3>1
    <2> QED BY <2>3, <2>7
  <1>5. a[Len(t)] = b[Len(t)]
    <2> HIDE DEF a, b, t
    <2>1. Len(t) \in Nat
      BY <1>0
    <2>2. \A i \in 1 .. Len(t) : a[i - 1] = b[i - 1] => a[i] = b[i]
      BY <1>4
    <2> QED BY <1>3, <2>1, <2>2, SumUnique
  <1>6. Bytes(s) = f[Len(s)] /\ Bytes(t) = g[Len(t)]
    BY <1>0, <1>1, <1>2, BytesIsSum
  <1> QED BY <1>0, <1>5, <1>6

\* Only an empty queue has no bytes: every frame is accounted.
LEMMA BytesPositive ==
  ASSUME NEW s \in Seq(Frame), s # <<>>
  PROVE  Bytes(s) > 0
  <1>1. Head(s) \in Frame /\ Tail(s) \in Seq(Frame) /\ Bytes(s) = Head(s).bytes + Bytes(Tail(s))
    BY BytesTail
  <1>2. Bytes(Tail(s)) \in Nat
    BY <1>1, BytesType
  <1> QED BY <1>1, <1>2, FrameBytes

\* What was written first fits whatever is written behind it; a message written
\* last fits when there is room for it.
LEMMA FitsAppend ==
  ASSUME NEW s \in Seq(Frame), NEW f \in Frame, FitsWatermark(s),
         f.control \/ s = <<>> \/ Bytes(s) + f.bytes <= Hwm
  PROVE  FitsWatermark(Append(s, f))
  <1> DEFINE t == Append(s, f)
  <1>0. /\ Len(s) \in Nat /\ t \in Seq(Frame) /\ Len(t) = Len(s) + 1
        /\ \A i \in 1 .. Len(s) : t[i] = s[i]
        /\ t[Len(s) + 1] = f
    BY LenProperties, AppendProperties
  <1> SUFFICES ASSUME NEW i \in 1 .. Len(t), ~t[i].control, i # 1
               PROVE  Bytes(SubSeq(t, 1, i)) <= Hwm
    BY DEF FitsWatermark
  <1>1. CASE i \in 1 .. Len(s)
    <2>1. SubSeq(t, 1, i) = SubSeq(s, 1, i)
      BY <1>0, <1>1
    <2> QED BY <1>0, <1>1, <2>1 DEF FitsWatermark
  <1>2. CASE i = Len(s) + 1
    <2>1. SubSeq(t, 1, i) = t
      BY <1>0, <1>2
    <2>2. s # <<>>
      BY <1>2, EmptySeq
    <2>3. Bytes(t) = Bytes(s) + f.bytes
      BY BytesAppend
    <2> QED BY <1>0, <1>2, <2>1, <2>2, <2>3
  <1> QED BY <1>0, <1>1, <1>2

\* What is read makes room for the rest.
LEMMA FitsTail ==
  ASSUME NEW s \in Seq(Frame), s # <<>>, FitsWatermark(s)
  PROVE  FitsWatermark(Tail(s))
  <1> DEFINE t == Tail(s)
  <1>0. /\ Len(s) \in Nat \ {0} /\ t \in Seq(Frame) /\ Len(t) = Len(s) - 1
        /\ \A i \in 1 .. Len(t) : t[i] = s[i + 1]
    BY LenProperties, HeadTailProperties, EmptySeq
  <1> SUFFICES ASSUME NEW i \in 1 .. Len(t), ~t[i].control
               PROVE  Bytes(SubSeq(t, 1, i)) <= Hwm
    BY DEF FitsWatermark
  <1> DEFINE u == SubSeq(s, 1, i + 1)
  <1>1. i + 1 \in 1 .. Len(s) /\ i + 1 # 1 /\ ~s[i + 1].control
    BY <1>0
  <1>2. Bytes(u) <= Hwm
    BY <1>1 DEF FitsWatermark
  <1>3. u \in Seq(Frame) /\ u # <<>> /\ Tail(u) = SubSeq(t, 1, i)
    BY <1>0, <1>1
  <1>4. Head(u) \in Frame /\ Tail(u) \in Seq(Frame) /\ Bytes(u) = Head(u).bytes + Bytes(Tail(u))
    BY <1>3, BytesTail
  <1>5. Bytes(Tail(u)) \in Nat /\ Head(u).bytes \in Nat
    BY <1>4, BytesType, FrameBytes
  <1>6. Hwm \in Nat
    BY BoundsAssumption
  <1>7. \A x, y, z \in Nat : x + y <= z => y <= z
    OBVIOUS
  <1>8. Bytes(Tail(u)) <= Hwm
    BY <1>2, <1>4, <1>5, <1>6, <1>7, Zenon
  <1> HIDE DEF u
  <1> QED BY <1>3, <1>8
-----------------------------------------------------------------------------
(* Types.                                                                   *)

Flags ==
    /\ routed \in BOOLEAN /\ outActive \in BOOLEAN /\ waiting \in BOOLEAN /\ held \in BOOLEAN
    /\ paused \in BOOLEAN /\ correlation \in BOOLEAN /\ resending \in BOOLEAN
    /\ setAside \in BOOLEAN /\ seen \in BOOLEAN

Counters ==
    /\ bytesWritten \in Nat /\ peersRead \in Nat /\ outGen \in Nat /\ flowEpoch \in Nat
    /\ prefetched \in Nat /\ published \in Nat /\ lastCredit \in Nat /\ inGen \in Nat
    /\ unread \in Nat /\ writes \in Nat /\ controls \in Nat /\ releases \in Nat

Steps ==
    /\ wpc \in AdmissionSteps /\ msg \in Size \cup {0}
    /\ npc \in {"idle", "flow", "weight", "notify", "take"}
    /\ rpc \in {"idle", "publish", "second", "decide"}

Queues ==
    /\ queue \in Seq(Frame) /\ cmds \in Seq(Command)
    /\ record \in [paused : BOOLEAN, epoch : 0 .. MaxFlows]

\* The type invariant in parts.
LEMMA TypeParts ==
  TypeOK <=> Flags /\ Counters /\ Steps /\ Queues /\ prefetched <= Len(queue)
  BY DEF TypeOK, Flags, Counters, Steps, Queues

\* What a command carries.
LEMMA CommandFields ==
  ASSUME NEW c \in Command
  PROVE  /\ c.type \in {"activate_write", "flow_state", "hiccup"}
         /\ c.type = "activate_write" => c.gen \in Nat /\ c.bytes \in Nat
         /\ c.type = "flow_state" => c.paused \in BOOLEAN /\ c.epoch \in Nat
         /\ c.type = "hiccup" => c.gen \in Nat
  BY DEF Command

\* The commands left when the first one is taken.
LEMMA CmdsTail ==
  ASSUME cmds \in Seq(Command), cmds # <<>>, cmds' = Tail(cmds)
  PROVE  /\ Head(cmds) \in Command /\ Head(cmds) = cmds[1] /\ 1 \in 1 .. Len(cmds)
         /\ cmds' \in Seq(Command) /\ Len(cmds') = Len(cmds) - 1 /\ Len(cmds) \in Nat \ {0}
         /\ \A i \in 1 .. Len(cmds') : cmds'[i] = cmds[i + 1] /\ i + 1 \in 1 .. Len(cmds)
  <1>1. /\ Head(cmds) \in Command /\ cmds' \in Seq(Command) /\ Len(cmds') = Len(cmds) - 1
        /\ \A i \in 1 .. Len(cmds') : cmds'[i] = cmds[i + 1]
    BY HeadTailProperties
  <1>2. Len(cmds) \in Nat \ {0} /\ Head(cmds) = cmds[1]
    BY EmptySeq, LenProperties
  <1> QED BY <1>1, <1>2

\* The commands when one is added.
LEMMA CmdsAppend ==
  ASSUME cmds \in Seq(Command), NEW c \in Command, cmds' = Append(cmds, c)
  PROVE  /\ cmds' \in Seq(Command) /\ Len(cmds') = Len(cmds) + 1 /\ Len(cmds) \in Nat
         /\ \A i \in 1 .. Len(cmds) : cmds'[i] = cmds[i] /\ i \in 1 .. Len(cmds')
         /\ Len(cmds') \in 1 .. Len(cmds') /\ cmds'[Len(cmds')] = c
  <1>1. Len(cmds) \in Nat
    BY LenProperties
  <1>2. /\ cmds' \in Seq(Command) /\ Len(cmds') = Len(cmds) + 1
        /\ \A i \in 1 .. Len(cmds) : cmds'[i] = cmds[i]
        /\ cmds'[Len(cmds) + 1] = c
    BY AppendProperties
  <1> QED BY <1>1, <1>2

\* The commands that are sent.
LEMMA CommandsSent ==
  /\ \A g, n \in Nat : ActivateWrite(g, n) \in Command
  /\ \A p \in BOOLEAN, e \in Nat : FlowState(p, e) \in Command
  /\ \A g \in Nat : HiccupTo(g) \in Command
  BY DEF ActivateWrite, FlowState, HiccupTo, Command

\* The frames that are written.
LEMMA FramesWritten ==
  \A n \in Size : /\ Message(n) \in Frame /\ Message(n).bytes = n /\ ~Message(n).control
                  /\ Control(n) \in Frame /\ Control(n).bytes = n /\ Control(n).control
  BY DEF Message, Control, Frame

\* The queue when one is written.
LEMMA Appended ==
  ASSUME Queues, NEW f \in Frame, Published(f)
  PROVE  /\ queue' \in Seq(Frame) /\ Len(queue') = Len(queue) + 1
         /\ bytesWritten' = bytesWritten + f.bytes
  BY AppendProperties DEF Queues, Published

\* The newer of the two counts.
LEMMA SnapshotIs ==
  ASSUME Counters
  PROVE  /\ Snapshot \in {peersRead, published}
         /\ Snapshot >= peersRead /\ Snapshot >= published
  <1>1. \E x \in {peersRead, published} : \A y \in {peersRead, published} : x >= y
    BY DEF Counters
  <1> QED BY <1>1 DEF Snapshot, Max, Counters

\* What an admission step takes as read is one of the two counts.
LEMMA SampledIs ==
  ASSUME Counters, NEW pc
  PROVE  Sampled(pc) \in {peersRead, published} /\ Sampled(pc) \in Nat
  BY SnapshotIs DEF Sampled, Counters

\* Every step keeps the flags Boolean.
LEMMA FlagsNext ==
  ASSUME TypeOK, [Next]_vars
  PROVE  Flags'
  <1> USE DEF writerVars, flowVars, turnVars, readerVars, boundVars
  <1>0. Flags /\ Queues
    BY TypeParts
  <1>1. ASSUME NEW n \in Size, Send(n) PROVE Flags'
    BY <1>0, <1>1, Zenon DEF Send, Refused, Flags
  <1>2. ASSUME TryAdmit PROVE Flags'
    BY <1>0, <1>2, Zenon DEF TryAdmit, Passed, Commit, Published, Arm, Flags
  <1>3. ASSUME RecheckAdmit PROVE Flags'
    BY <1>0, <1>3, Zenon DEF RecheckAdmit, Passed, Commit, Published, ClearWait, Refused, Flags
  <1>4. ASSUME ResendDone PROVE Flags'
    BY <1>0, <1>4, Zenon DEF ResendDone, Flags
  <1>5. ASSUME ProcessActivateWrite PROVE Flags'
    BY <1>0, <1>5, Zenon DEF ProcessActivateWrite, Flags
  <1>6. ASSUME Notify PROVE Flags'
    BY <1>0, <1>6, Zenon DEF Notify, Flags
  <1>7. ASSUME TakeRecovery PROVE Flags'
    BY <1>0, <1>7, Zenon DEF TakeRecovery, Flags
  <1>8. ASSUME ProcessFlowState PROVE Flags'
    <2>1. Head(cmds).paused \in BOOLEAN
      BY <1>0, <1>8, HeadTailProperties, CommandFields DEF ProcessFlowState, Received, Queues
    <2> QED BY <1>0, <1>8, <2>1, Zenon DEF ProcessFlowState, Arm, Flags
  <1>9. ASSUME RecheckResume PROVE Flags'
    <2>1. CheckHwm(peersRead') \in BOOLEAN
      BY DEF CheckHwm
    <2> QED BY <1>0, <1>9, <2>1, Zenon DEF RecheckResume, Flags
  <1>10. ASSUME PairReady PROVE Flags'
    <2>1. record.paused \in BOOLEAN
      BY <1>0 DEF Queues
    <2> QED BY <1>0, <1>10, <2>1, Zenon DEF PairReady, Flags
  <1>11. ASSUME ReleaseHold PROVE Flags'
    BY <1>0, <1>11, Zenon DEF ReleaseHold, Arm, ClearWait, Flags
  <1>12. ASSUME ProcessHiccup PROVE Flags'
    BY <1>0, <1>12, Zenon DEF ProcessHiccup, Flags
  <1>13. ASSUME Read PROVE Flags'
    BY <1>0, <1>13, Zenon DEF Read, Flags
  <1>14. ASSUME PublishAndLook PROVE Flags'
    BY <1>0, <1>14, Zenon DEF PublishAndLook, Flags
  <1>15. ASSUME SecondLook PROVE Flags'
    BY <1>0, <1>15, Zenon DEF SecondLook, Flags
  <1>16. ASSUME Decide PROVE Flags'
    BY <1>0, <1>16, Zenon DEF Decide, Flags
  <1>17. ASSUME Hiccup PROVE Flags'
    BY <1>0, <1>17, Zenon DEF Hiccup, Flags
  <1>18. ASSUME NEW p \in BOOLEAN, AcceptFlowState(p) PROVE Flags'
    BY <1>0, <1>18, Zenon DEF AcceptFlowState, Flags
  <1>19. ASSUME ReleaseCorrelation PROVE Flags'
    BY <1>0, <1>19, Zenon DEF ReleaseCorrelation, Flags
  <1>20. ASSUME UNCHANGED vars PROVE Flags'
    BY <1>0, <1>20, Zenon DEF vars, Flags
  <1>21. ASSUME Resync PROVE Flags'
    BY <1>0, <1>21, Zenon DEF Resync, Flags
  <1>22. ASSUME NEW n \in ControlSize, WriteControl(n) PROVE Flags'
    BY <1>0, <1>22, Zenon DEF WriteControl, Flags
  <1> QED BY <1>1, <1>2, <1>3, <1>4, <1>5, <1>6, <1>7, <1>8, <1>9, <1>10, <1>11, <1>12,
             <1>13, <1>14, <1>15, <1>16, <1>17, <1>18, <1>19, <1>20, <1>21, <1>22
          DEF Next, Turn, Reader

\* Every step keeps the other types; what the reader has prefetched is there.
LEMMA CountersNext ==
  ASSUME IInv, [Next]_vars
  PROVE  Counters' /\ Steps' /\ Queues' /\ prefetched' <= Len(queue')
  <1> DEFINE Rest == Counters /\ Steps /\ Queues /\ prefetched <= Len(queue)
  <1> USE BoundsAssumption DEF writerVars, flowVars, turnVars, readerVars, boundVars
  <1>0. Counters /\ Steps /\ Queues /\ prefetched <= Len(queue) /\ Flags
    BY TypeParts DEF IInv
  <1>a. Len(queue) \in Nat
    BY <1>0, LenProperties DEF Queues
  <1>b. \A pc : Sampled(pc) \in Nat
    BY <1>0, SampledIs
  <1>c. \A c \in Command : cmds' = Append(cmds, c) => cmds' \in Seq(Command)
    BY <1>0, CmdsAppend DEF Queues
  <1>d. cmds # <<>> /\ cmds' = Tail(cmds) => cmds' \in Seq(Command) /\ Head(cmds) \in Command
    BY <1>0, CmdsTail DEF Queues
  <1>1. ASSUME NEW n \in Size, Send(n) PROVE Rest'
    BY <1>0, <1>1 DEF Send, Counters, Steps, Queues, AdmissionSteps
  <1>2. ASSUME Passed, wpc \in {"admit", "admitArmed", "commit", "commitArmed"},
               prefetched' = prefetched
        PROVE  /\ queue' \in Seq(Frame) /\ bytesWritten' \in Nat /\ writes' \in Nat
               /\ prefetched' <= Len(queue') /\ wpc' \in AdmissionSteps /\ msg' \in Size \cup {0}
    <2>1. msg \in Size
      BY <1>2 DEF IInv, Books, WriterBooks
    <2>2. CASE wpc \in {"admit", "admitArmed"}
      BY <1>0, <1>2, <2>2 DEF Passed, Counters, Steps, Queues, AdmissionSteps
    <2>3. CASE wpc \in {"commit", "commitArmed"}
      <3>1. Commit
        BY <1>2, <2>3 DEF Passed
      <3>2. /\ queue' \in Seq(Frame) /\ Len(queue') = Len(queue) + 1
            /\ bytesWritten' = bytesWritten + msg
        BY <1>0, <2>1, <3>1, Appended, FramesWritten DEF Commit
      <3>3. msg \in Nat
        BY <2>1
      <3> QED BY <1>0, <1>a, <1>2, <2>1, <3>1, <3>2, <3>3 DEF Commit, Counters, AdmissionSteps
    <2> QED BY <1>2, <2>2, <2>3
  <1>3. ASSUME TryAdmit PROVE Rest'
    <2>1. peersRead' \in Nat
      BY <1>b, <1>3 DEF TryAdmit
    <2>2. CASE Passed
      BY <1>0, <1>2, <1>3, <2>1, <2>2 DEF TryAdmit, Counters, Steps, Queues
    <2>3. CASE Arm /\ wpc' \in {"admitArmed", "commitArmed"}
               /\ UNCHANGED <<msg, queue, bytesWritten, writes, setAside>>
      BY <1>0, <1>3, <2>1, <2>3 DEF TryAdmit, Counters, Steps, Queues, AdmissionSteps
    <2> QED BY <1>3, <2>2, <2>3 DEF TryAdmit
  <1>4. ASSUME RecheckAdmit PROVE Rest'
    <2>1. peersRead' \in Nat
      BY <1>b, <1>4 DEF RecheckAdmit
    <2>2. CASE Passed
      BY <1>0, <1>2, <1>4, <2>1, <2>2 DEF RecheckAdmit, Counters, Steps, Queues
    <2>3. CASE ~Passed
      BY <1>0, <1>4, <2>1, <2>3 DEF RecheckAdmit, Counters, Steps, Queues, AdmissionSteps
    <2> QED BY <2>2, <2>3
  <1>5. ASSUME ResendDone PROVE Rest'
    BY <1>0, <1>5 DEF ResendDone, Counters, Steps, Queues
  <1>6. ASSUME ProcessActivateWrite PROVE Rest'
    <2>1. cmds' \in Seq(Command) /\ Head(cmds).bytes \in Nat
      BY <1>d, <1>6, CommandFields DEF ProcessActivateWrite, Received
    <2> QED BY <1>0, <1>6, <2>1 DEF ProcessActivateWrite, Counters, Steps, Queues
  <1>7. ASSUME Notify PROVE Rest'
    BY <1>0, <1>7 DEF Notify, Counters, Steps, Queues
  <1>8. ASSUME TakeRecovery PROVE Rest'
    BY <1>0, <1>8 DEF TakeRecovery, Counters, Steps, Queues
  <1>9. ASSUME ProcessFlowState PROVE Rest'
    <2>1. cmds' \in Seq(Command) /\ Head(cmds).epoch \in Nat
      BY <1>d, <1>9, CommandFields DEF ProcessFlowState, Received
    <2> QED BY <1>0, <1>9, <2>1 DEF ProcessFlowState, Counters, Steps, Queues, AdmissionSteps
  <1>10. ASSUME RecheckResume PROVE Rest'
    BY <1>0, <1>b, <1>10 DEF RecheckResume, Counters, Steps, Queues, AdmissionSteps
  <1>11. ASSUME PairReady PROVE Rest'
    <2>1. record.epoch \in Nat
      BY <1>0 DEF Queues
    <2> QED BY <1>0, <1>11, <2>1 DEF PairReady, Counters, Steps, Queues, AdmissionSteps
  <1>12. ASSUME ReleaseHold PROVE Rest'
    BY <1>0, <1>b, <1>12 DEF ReleaseHold, Counters, Steps, Queues, AdmissionSteps
  <1>13. ASSUME ProcessHiccup PROVE Rest'
    <2>1. cmds' \in Seq(Command) /\ Head(cmds).gen \in Nat /\ Head(cmds) = cmds[1]
          /\ 1 \in 1 .. Len(cmds)
      BY <1>0, <1>13, CommandFields, CmdsTail DEF ProcessHiccup, Received, Queues
    <2>2. outGen # inGen
      BY <1>0, <1>13, <2>1
         DEF ProcessHiccup, Received, IInv, Books, Generations, Counters
    <2>3. prefetched = 0
      BY <2>2 DEF IInv, Books, ReaderBooks
    <2>4. queue' \in Seq(Frame) /\ Len(queue') = 0
      BY <1>13, EmptySeq DEF ProcessHiccup
    <2> QED BY <1>0, <1>13, <2>1, <2>3, <2>4 DEF ProcessHiccup, Counters, Steps, Queues
  <1>14. ASSUME Read PROVE Rest'
    <2>1. /\ Head(queue) \in Frame /\ queue' \in Seq(Frame) /\ Len(queue') = Len(queue) - 1
          /\ Len(queue) # 0
      BY <1>0, <1>14, HeadTailProperties, EmptySeq DEF Read, Queues
    <2>2. Head(queue).bytes \in Nat
      BY <2>1, FrameBytes
    <2> QED BY <1>0, <1>a, <1>14, <2>1, <2>2 DEF Read, Counters, Steps, Queues
  <1>15. ASSUME PublishAndLook PROVE Rest'
    BY <1>0, <1>15 DEF PublishAndLook, Counters, Steps, Queues
  <1>16. ASSUME SecondLook PROVE Rest'
    BY <1>0, <1>16 DEF SecondLook, Counters, Steps, Queues
  <1>17. ASSUME Decide PROVE Rest'
    <2>1. cmds' \in Seq(Command)
      BY <1>0, <1>c, <1>17, CommandsSent DEF Decide, Counters, Queues
    <2>2. lastCredit' \in Nat
      BY <1>0, <1>17 DEF Decide, Counters
    <2> QED BY <1>0, <1>a, <1>17, <2>1, <2>2 DEF Decide, Counters, Steps, Queues
  <1>18. ASSUME Hiccup PROVE Rest'
    <2>1. cmds' \in Seq(Command)
      BY <1>0, <1>c, <1>18, CommandsSent DEF Hiccup, Counters, Queues
    <2> QED BY <1>0, <1>a, <1>18, <2>1 DEF Hiccup, Counters, Steps, Queues
  <1>19. ASSUME NEW p \in BOOLEAN, AcceptFlowState(p) PROVE Rest'
    <2>1. record.epoch + 1 \in 0 .. MaxFlows
      BY <1>0, <1>19 DEF AcceptFlowState, Queues
    <2>2. cmds' \in Seq(Command)
      BY <1>0, <1>c, <1>19, <2>1, CommandsSent DEF AcceptFlowState, Counters, Queues
    <2> QED BY <1>0, <1>19, <2>1, <2>2 DEF AcceptFlowState, Counters, Steps, Queues
  <1>20. ASSUME ReleaseCorrelation PROVE Rest'
    <2>1. cmds' \in Seq(Command)
      BY <1>0, <1>c, <1>20, CommandsSent DEF ReleaseCorrelation, Counters, Queues
    <2> QED BY <1>0, <1>20, <2>1 DEF ReleaseCorrelation, Counters, Steps, Queues
  <1>21. ASSUME UNCHANGED vars PROVE Rest'
    BY <1>0, <1>21 DEF vars, Counters, Steps, Queues
  <1>e. ASSUME NEW n \in ControlSize, PutControl(n)
        PROVE  /\ queue' \in Seq(Frame) /\ Len(queue') = Len(queue) + 1
               /\ bytesWritten' \in Nat /\ controls' \in Nat
    <2>1. n \in Size /\ n \in Nat
      OBVIOUS
    <2>2. /\ queue' \in Seq(Frame) /\ Len(queue') = Len(queue) + 1
          /\ bytesWritten' = bytesWritten + n
      BY <1>0, <1>e, <2>1, Appended, FramesWritten DEF PutControl
    <2> QED BY <1>0, <1>e, <2>1, <2>2 DEF PutControl, Counters
  <1>22. ASSUME Resync PROVE Rest'
    <2>1. /\ queue' \in Seq(Frame) /\ Len(queue) <= Len(queue')
          /\ bytesWritten' \in Nat /\ controls' \in Nat
      <3>1. CASE UNCHANGED <<queue, bytesWritten, controls>>
        BY <1>0, <1>a, <3>1 DEF Counters, Queues
      <3>2. CASE \E n \in ControlSize : PutControl(n)
        BY <1>a, <1>e, <3>2
      <3> QED BY <1>22, <3>1, <3>2 DEF Resync
    <2>2. prefetched' <= Len(queue')
      <3>1. Len(queue') \in Nat /\ prefetched' = prefetched /\ prefetched \in Nat
        BY <1>0, <1>22, <2>1, LenProperties DEF Resync, Counters
      <3> QED BY <1>0, <1>a, <2>1, <3>1
    <2>3. Counters'
      BY <1>0, <1>22, <2>1 DEF Resync, Counters
    <2>4. Steps' /\ Queues'
      BY <1>0, <1>22, <2>1 DEF Resync, Steps, Queues
    <2> QED BY <2>2, <2>3, <2>4
  <1>23. ASSUME NEW n \in ControlSize, WriteControl(n) PROVE Rest'
    BY <1>0, <1>a, <1>e, <1>23 DEF WriteControl, Counters, Steps, Queues
  <1> QED BY <1>1, <1>3, <1>4, <1>5, <1>6, <1>7, <1>8, <1>9, <1>10, <1>11, <1>12, <1>13,
             <1>14, <1>15, <1>16, <1>17, <1>18, <1>19, <1>20, <1>21, <1>22, <1>23
          DEF Next, Turn, Reader

\* Every step keeps the types.
LEMMA TypesNext == ASSUME IInv, [Next]_vars PROVE TypeOK'
  <1>1. Flags'
    BY FlagsNext DEF IInv
  <1>2. Counters' /\ Steps' /\ Queues' /\ prefetched' <= Len(queue')
    BY CountersNext
  <1> QED BY <1>1, <1>2 DEF TypeOK, Flags, Counters, Steps, Queues
-----------------------------------------------------------------------------
(* Remote flow state.                                                       *)

flowState == <<flowEpoch, paused, record>>

\* Epochs are numbers.
LEMMA Epochs ==
  ASSUME TypeOK
  PROVE  /\ flowEpoch \in Nat /\ record.epoch \in Nat
         /\ \A i \in 1 .. Len(cmds) : IsFlow(i) => cmds[i].epoch \in Nat
  <1>1. Counters /\ Queues
    BY TypeParts
  <1>2. \A i \in 1 .. Len(cmds) : IsFlow(i) => cmds[i].epoch \in Nat
    BY <1>1, CommandFields, ElementOfSeq DEF Queues, IsFlow
  <1> QED BY <1>1, <1>2, BoundsAssumption DEF Counters, Queues

\* A command of another kind changes nothing when it is sent.
LEMMA FlowAppendOther ==
  ASSUME TypeOK, Flow, UNCHANGED flowState, Ready' <=> Ready,
         NEW c \in Command, c.type # "flow_state", cmds' = Append(cmds, c)
  PROVE  Flow'
  <1>1. /\ Len(cmds') = Len(cmds) + 1 /\ Len(cmds) \in Nat
        /\ \A i \in 1 .. Len(cmds) : cmds'[i] = cmds[i] /\ i \in 1 .. Len(cmds')
        /\ cmds'[Len(cmds')] = c
    BY CmdsAppend DEF TypeOK
  <1>2. \A i \in 1 .. Len(cmds') : IsFlow(i)' => i \in 1 .. Len(cmds) /\ IsFlow(i)
    BY <1>1 DEF IsFlow
  <1>3. FlowCommands'
    BY <1>1, <1>2 DEF Flow, FlowCommands, flowState
  <1>4. FlowUnderWay'
    <2>1. ASSUME NEW i \in 1 .. Len(cmds'), IsFlow(i)', \A j \in i + 1 .. Len(cmds') : ~IsFlow(j)'
          PROVE  i \in 1 .. Len(cmds) /\ IsFlow(i) /\ \A j \in i + 1 .. Len(cmds) : ~IsFlow(j)
      BY <1>1, <1>2, <2>1 DEF IsFlow
    <2>2. (\A i \in 1 .. Len(cmds') : IsFlow(i)' => cmds'[i].epoch <= flowEpoch')
             => \A i \in 1 .. Len(cmds) : IsFlow(i) => cmds[i].epoch <= flowEpoch
      BY <1>1 DEF IsFlow, flowState
    <2> QED BY <1>1, <2>1, <2>2 DEF Flow, FlowUnderWay, flowState
  <1> QED BY <1>3, <1>4 DEF Flow

\* Nor when it is received.
LEMMA FlowTailOther ==
  ASSUME TypeOK, Flow, UNCHANGED flowState, Ready' <=> Ready,
         cmds # <<>>, Head(cmds).type # "flow_state", cmds' = Tail(cmds)
  PROVE  Flow'
  <1>1. /\ Head(cmds) = cmds[1] /\ Len(cmds') = Len(cmds) - 1 /\ Len(cmds) \in Nat \ {0}
        /\ \A i \in 1 .. Len(cmds') : cmds'[i] = cmds[i + 1] /\ i + 1 \in 1 .. Len(cmds)
    BY CmdsTail DEF TypeOK
  <1>2. \A i \in 1 .. Len(cmds') : IsFlow(i)' <=> IsFlow(i + 1)
    BY <1>1 DEF IsFlow
  <1>3. \A k \in 1 .. Len(cmds) : IsFlow(k) => k - 1 \in 1 .. Len(cmds') /\ (k - 1) + 1 = k
    BY <1>1 DEF IsFlow
  <1>4. FlowCommands'
    BY <1>1, <1>2 DEF Flow, FlowCommands, flowState
  <1>5. FlowUnderWay'
    <2>1. ASSUME NEW i \in 1 .. Len(cmds'), IsFlow(i)', \A j \in i + 1 .. Len(cmds') : ~IsFlow(j)'
          PROVE  IsFlow(i + 1) /\ \A j \in (i + 1) + 1 .. Len(cmds) : ~IsFlow(j)
      <3>1. ASSUME NEW j \in (i + 1) + 1 .. Len(cmds) PROVE ~IsFlow(j)
        <4>1. j - 1 \in i + 1 .. Len(cmds') /\ j - 1 \in 1 .. Len(cmds') /\ (j - 1) + 1 = j
          BY <1>1
        <4> QED BY <1>2, <2>1, <4>1
      <3> QED BY <1>2, <2>1, <3>1
    <2>2. (\A i \in 1 .. Len(cmds') : IsFlow(i)' => cmds'[i].epoch <= flowEpoch')
             => \A i \in 1 .. Len(cmds) : IsFlow(i) => cmds[i].epoch <= flowEpoch
      <3> SUFFICES ASSUME \A i \in 1 .. Len(cmds') : IsFlow(i)' => cmds'[i].epoch <= flowEpoch',
                          NEW k \in 1 .. Len(cmds), IsFlow(k)
                   PROVE  cmds[k].epoch <= flowEpoch
        OBVIOUS
      <3>1. IsFlow(k - 1)' /\ cmds'[k - 1] = cmds[k]
        BY <1>1, <1>2, <1>3
      <3> QED BY <1>3, <3>1 DEF flowState
    <2> QED BY <1>1, <2>1, <2>2 DEF Flow, FlowUnderWay, flowState
  <1> QED BY <1>4, <1>5 DEF Flow

\* process_flow_state(): the first command is the oldest.
LEMMA FlowReceived ==
  ASSUME TypeOK, Flow, ProcessFlowState
  PROVE  Flow'
  <1> DEFINE c == Head(cmds)
  <1>1. /\ c = cmds[1] /\ Len(cmds') = Len(cmds) - 1 /\ Len(cmds) \in Nat \ {0}
        /\ 1 \in 1 .. Len(cmds)
        /\ \A i \in 1 .. Len(cmds') : cmds'[i] = cmds[i + 1] /\ i + 1 \in 1 .. Len(cmds)
    BY CmdsTail DEF TypeOK, ProcessFlowState, Received
  <1>2. \A i \in 1 .. Len(cmds') : IsFlow(i)' <=> IsFlow(i + 1)
    BY <1>1 DEF IsFlow
  <1>3. IsFlow(1)
    BY <1>1 DEF IsFlow, ProcessFlowState, Received
  <1>4. /\ record' = record /\ (Ready' <=> Ready)
        /\ flowEpoch' = IF Newer(c) THEN c.epoch ELSE flowEpoch
        /\ paused' = IF Newer(c) THEN c.paused ELSE paused
    BY DEF ProcessFlowState, Received, TurnIsFree, Ready, boundVars
  <1>5. \A i \in 1 .. Len(cmds) : IsFlow(i) => cmds[i].epoch \in Nat
    BY Epochs
  <1>6. c.epoch \in Nat /\ flowEpoch \in Nat /\ record.epoch \in Nat
    BY <1>1, <1>3, Epochs
  <1>7. FlowCommands'
    <2>1. FlowCommands
      BY DEF Flow
    <2>2. \A i \in 1 .. Len(cmds') : IsFlow(i)' =>
             /\ cmds'[i].epoch <= record'.epoch
             /\ cmds'[i].epoch = record'.epoch => cmds'[i].paused = record'.paused
      BY <1>1, <1>2, <1>4, <2>1 DEF FlowCommands
    <2>3. ASSUME NEW i \in 1 .. Len(cmds'), NEW j \in 1 .. Len(cmds'), IsFlow(i)', IsFlow(j)', i < j
          PROVE  cmds'[i].epoch < cmds'[j].epoch
      <3>1. /\ i + 1 \in 1 .. Len(cmds) /\ j + 1 \in 1 .. Len(cmds) /\ i + 1 < j + 1
            /\ cmds'[i] = cmds[i + 1] /\ cmds'[j] = cmds[j + 1] /\ IsFlow(i + 1) /\ IsFlow(j + 1)
        BY <1>1, <1>2, <2>3
      <3> QED BY <2>1, <3>1 DEF FlowCommands
    <2> QED BY <2>2, <2>3 DEF FlowCommands
  <1>8. ASSUME NEW i \in 1 .. Len(cmds'), IsFlow(i)'
        PROVE  IsFlow(i + 1) /\ cmds'[i] = cmds[i + 1] /\ cmds'[i].epoch > c.epoch
               /\ cmds'[i].epoch \in Nat
    <2>1. IsFlow(i + 1) /\ cmds'[i] = cmds[i + 1] /\ i + 1 \in 1 .. Len(cmds) /\ 1 < i + 1
      BY <1>1, <1>2, <1>8
    <2> QED BY <1>1, <1>3, <1>5, <1>6, <2>1 DEF Flow, FlowCommands
  <1>9. ASSUME NEW i \in 1 .. Len(cmds'), IsFlow(i)', \A j \in i + 1 .. Len(cmds') : ~IsFlow(j)'
        PROVE  IsFlow(i + 1) /\ \A j \in (i + 1) + 1 .. Len(cmds) : ~IsFlow(j)
    <2>1. ASSUME NEW j \in (i + 1) + 1 .. Len(cmds) PROVE ~IsFlow(j)
      <3>1. j - 1 \in i + 1 .. Len(cmds') /\ j - 1 \in 1 .. Len(cmds') /\ (j - 1) + 1 = j
        BY <1>1
      <3> QED BY <1>2, <1>9, <3>1
    <2> QED BY <1>2, <1>9, <2>1
  <1>10. ASSUME \A i \in 1 .. Len(cmds') : ~IsFlow(i)'
         PROVE  \A j \in 2 .. Len(cmds) : ~IsFlow(j)
    <2> TAKE j \in 2 .. Len(cmds)
    <2>1. j - 1 \in 1 .. Len(cmds') /\ (j - 1) + 1 = j
      BY <1>1
    <2> QED BY <1>2, <1>10, <2>1
  <1>11. CASE Newer(c)
    <2>1. flowEpoch' = c.epoch /\ paused' = c.paused /\ c.epoch > flowEpoch
      BY <1>4, <1>11 DEF Newer
    <2>2. flowEpoch' <= record'.epoch /\ (flowEpoch' = record'.epoch => paused' = record'.paused)
      BY <1>1, <1>3, <1>4, <2>1 DEF Flow, FlowCommands
    <2>3. ASSUME Ready', \A i \in 1 .. Len(cmds') : IsFlow(i)' => cmds'[i].epoch <= flowEpoch'
          PROVE  paused' = record'.paused
      <3>1. \A i \in 1 .. Len(cmds') : ~IsFlow(i)'
        BY <1>6, <1>8, <2>1, <2>3
      <3>2. \A j \in 1 + 1 .. Len(cmds) : ~IsFlow(j)
        BY <1>10, <3>1
      <3> QED BY <1>1, <1>3, <1>4, <2>1, <2>3, <3>2 DEF Flow, FlowUnderWay
    <2>4. ASSUME Ready', NEW i \in 1 .. Len(cmds'), IsFlow(i)',
                 \A j \in i + 1 .. Len(cmds') : ~IsFlow(j)'
          PROVE  cmds'[i].paused = record'.paused
      <3>1. cmds[i + 1].epoch > flowEpoch
        BY <1>6, <1>8, <2>1, <2>4
      <3> QED BY <1>1, <1>4, <1>9, <2>4, <3>1 DEF Flow, FlowUnderWay
    <2>5. FlowUnderWay'
      BY <2>2, <2>3, <2>4 DEF FlowUnderWay
    <2> QED BY <1>7, <2>5 DEF Flow
  <1>12. CASE ~Newer(c)
    <2>1. flowEpoch' = flowEpoch /\ paused' = paused /\ c.epoch <= flowEpoch
      BY <1>4, <1>6, <1>12 DEF Newer
    <2>2. flowEpoch' <= record'.epoch /\ (flowEpoch' = record'.epoch => paused' = record'.paused)
      BY <1>4, <2>1 DEF Flow, FlowUnderWay
    <2>3. ASSUME Ready', \A i \in 1 .. Len(cmds') : IsFlow(i)' => cmds'[i].epoch <= flowEpoch'
          PROVE  paused' = record'.paused
      <3>1. ASSUME NEW k \in 1 .. Len(cmds), IsFlow(k) PROVE cmds[k].epoch <= flowEpoch
        <4>1. CASE k = 1
          BY <1>1, <2>1, <4>1
        <4>2. CASE k # 1
          <5>1. k - 1 \in 1 .. Len(cmds') /\ (k - 1) + 1 = k
            BY <1>1, <4>2
          <5> QED BY <1>1, <1>2, <2>1, <2>3, <3>1, <5>1
        <4> QED BY <4>1, <4>2
      <3> QED BY <1>4, <2>1, <2>3, <3>1 DEF Flow, FlowUnderWay
    <2>4. ASSUME Ready', NEW i \in 1 .. Len(cmds'), IsFlow(i)', cmds'[i].epoch > flowEpoch',
                 \A j \in i + 1 .. Len(cmds') : ~IsFlow(j)'
          PROVE  cmds'[i].paused = record'.paused
      BY <1>1, <1>4, <1>9, <2>1, <2>4 DEF Flow, FlowUnderWay
    <2>5. FlowUnderWay'
      BY <2>2, <2>3, <2>4 DEF FlowUnderWay
    <2> QED BY <1>7, <2>5 DEF Flow
  <1> QED BY <1>11, <1>12

\* The record may be ahead of the commands when the hold is released.
LEMMA FlowReleased ==
  ASSUME TypeOK, Flow, PairReady
  PROVE  Flow'
  <1>1. /\ cmds' = cmds /\ record' = record
        /\ flowEpoch' = IF Newer(record) THEN record.epoch ELSE flowEpoch
        /\ paused' = IF Newer(record) THEN record.paused ELSE paused
    BY DEF PairReady, boundVars
  <1>2. flowEpoch' = record.epoch /\ paused' = record.paused
    BY <1>1, Epochs DEF Newer, Flow, FlowUnderWay
  <1>3. FlowCommands'
    BY <1>1 DEF Flow, FlowCommands, IsFlow
  <1>4. \A i \in 1 .. Len(cmds) : IsFlow(i) => cmds[i].epoch \in Nat /\ cmds[i].epoch <= record.epoch
    BY Epochs DEF Flow, FlowCommands
  <1>5. \A i \in 1 .. Len(cmds') : IsFlow(i)' => ~(cmds'[i].epoch > flowEpoch')
    BY <1>1, <1>2, <1>4, Epochs DEF IsFlow
  <1>6. record.epoch <= record.epoch
    BY Epochs
  <1>7. FlowUnderWay'
    BY <1>1, <1>2, <1>5, <1>6 DEF FlowUnderWay
  <1> QED BY <1>3, <1>7 DEF Flow

\* A frame is accepted: a state that does not change is not sent on.
LEMMA FlowAccepted ==
  ASSUME TypeOK, Flow, NEW p \in BOOLEAN, AcceptFlowState(p)
  PROVE  Flow'
  <1> DEFINE e == record.epoch + 1
  <1>1. /\ record.epoch \in Nat /\ record'.epoch = e /\ record'.paused = p
        /\ flowEpoch' = flowEpoch /\ paused' = paused /\ (Ready' <=> Ready)
    BY Epochs DEF AcceptFlowState, flowVars, turnVars, Ready
  <1>2. /\ flowEpoch \in Nat /\ flowEpoch <= record.epoch
        /\ \A i \in 1 .. Len(cmds) : IsFlow(i) => cmds[i].epoch \in Nat /\ cmds[i].epoch <= record.epoch
    BY Epochs DEF Flow, FlowCommands, FlowUnderWay
  <1>3. CASE p # record.paused /\ cmds' = Append(cmds, FlowState(p, e))
    <2>0. FlowState(p, e) \in Command
      BY <1>1, CommandsSent
    <2>a. /\ Len(cmds') = Len(cmds) + 1 /\ Len(cmds) \in Nat
          /\ \A i \in 1 .. Len(cmds) : cmds'[i] = cmds[i]
          /\ cmds'[Len(cmds')] = FlowState(p, e)
      BY <1>3, <2>0, CmdsAppend DEF TypeOK
    <2>b. PICK k \in Nat : k = Len(cmds')
      BY <2>a
    <2>1. /\ Len(cmds') = Len(cmds) + 1 /\ Len(cmds) \in Nat /\ k = Len(cmds')
          /\ \A i \in 1 .. Len(cmds) : cmds'[i] = cmds[i]
      BY <2>a, <2>b
    <2>2. cmds'[k].epoch = e /\ cmds'[k].paused = p /\ cmds'[k].type = "flow_state"
      BY <2>a, <2>b DEF FlowState
    <2>3. \A i \in 1 .. Len(cmds') : i = k \/ i \in 1 .. Len(cmds)
      BY <2>1
    <2>4. \A i \in 1 .. Len(cmds) : IsFlow(i)' <=> IsFlow(i)
      BY <2>1 DEF IsFlow
    <2>5. FlowCommands'
      <3>1. ASSUME NEW i \in 1 .. Len(cmds'), IsFlow(i)'
            PROVE  cmds'[i].epoch <= e /\ (cmds'[i].epoch = e => cmds'[i].paused = p)
        BY <1>1, <1>2, <2>1, <2>2, <2>3, <2>4, <3>1
      <3>2. ASSUME NEW i \in 1 .. Len(cmds'), NEW j \in 1 .. Len(cmds'),
                   IsFlow(i)', IsFlow(j)', i < j
            PROVE  cmds'[i].epoch < cmds'[j].epoch
        <4>1. i \in 1 .. Len(cmds)
          BY <2>1, <3>2
        <4>2. CASE j \in 1 .. Len(cmds)
          BY <2>1, <2>4, <3>2, <4>1, <4>2 DEF Flow, FlowCommands
        <4>3. CASE j = k
          BY <1>1, <1>2, <2>1, <2>2, <2>4, <3>2, <4>1, <4>3
        <4> QED BY <2>3, <4>2, <4>3
      <3> QED BY <1>1, <3>1, <3>2 DEF FlowCommands
    <2>6. FlowUnderWay'
      <3>1. k \in 1 .. Len(cmds') /\ IsFlow(k)' /\ e > flowEpoch
        BY <1>1, <1>2, <2>1, <2>2, <2>b DEF IsFlow
      <3>2. ~(\A i \in 1 .. Len(cmds') : IsFlow(i)' => cmds'[i].epoch <= flowEpoch')
        BY <1>1, <1>2, <2>2, <3>1
      <3>3. \A i \in 1 .. Len(cmds') : (\A j \in i + 1 .. Len(cmds') : ~IsFlow(j)') => i = k
        BY <2>1, <3>1
      <3>4. flowEpoch' <= record'.epoch /\ flowEpoch' # record'.epoch
        BY <1>1, <1>2
      <3> QED BY <1>1, <2>2, <3>2, <3>3, <3>4 DEF FlowUnderWay
    <2> QED BY <2>5, <2>6 DEF Flow
  <1>4. CASE (p = record.paused \/ ~Ready) /\ UNCHANGED cmds
    <2>1. \A i : IsFlow(i)' <=> IsFlow(i)
      BY <1>4 DEF IsFlow
    <2>2. FlowCommands'
      BY <1>1, <1>2, <1>4, <2>1 DEF Flow, FlowCommands
    <2>3. flowEpoch' <= record'.epoch /\ flowEpoch' # record'.epoch
      BY <1>1, <1>2
    <2>4. FlowUnderWay'
      BY <1>1, <1>4, <2>1, <2>3 DEF Flow, FlowUnderWay
    <2> QED BY <2>2, <2>4 DEF Flow
  <1> QED BY <1>3, <1>4 DEF AcceptFlowState

\* Steps that neither send nor receive commands of the pipe keep the flow state.
LEMMA FlowSame ==
  ASSUME Flow, UNCHANGED <<flowState, cmds>>, Ready' <=> Ready
  PROVE  Flow'
  BY DEF Flow, FlowCommands, FlowUnderWay, IsFlow, flowState

\* Every step keeps the flow state on its way.
LEMMA FlowNext ==
  ASSUME TypeOK, Flow, TurnSteps, [Next]_vars
  PROVE  Flow'
  <1> USE DEF writerVars, flowVars, turnVars, readerVars, boundVars
  <1>0. Counters /\ Queues
    BY TypeParts
  <1>1. ASSUME \/ \E n \in Size : Send(n)
               \/ TryAdmit \/ RecheckAdmit \/ ResendDone \/ Notify \/ TakeRecovery
               \/ RecheckResume \/ ReleaseHold \/ Resync
               \/ \E n \in ControlSize : WriteControl(n)
               \/ Read \/ PublishAndLook \/ SecondLook
               \/ UNCHANGED vars
        PROVE  Flow'
    <2>1. UNCHANGED <<flowState, cmds>>
      BY <1>1 DEF Send, TryAdmit, RecheckAdmit, ResendDone, Notify, TakeRecovery, RecheckResume,
                  ReleaseHold, Resync, WriteControl, Read, PublishAndLook, SecondLook, vars,
                  flowState
    <2>2. Ready' <=> Ready
      <3>1. CASE ReleaseHold
        <4>1. ~held' /\ (wpc = "release" \/ ~held)
          BY <3>1 DEF ReleaseHold, TurnSteps
        <4> QED BY <4>1 DEF Ready
      <3>2. CASE ~ReleaseHold
        <4>1. held' = held
          BY <1>1, <3>2 DEF Send, TryAdmit, RecheckAdmit, ResendDone, Notify, TakeRecovery,
                  RecheckResume, Resync, WriteControl, Read, PublishAndLook, SecondLook, vars
        <4>2. CASE TryAdmit \/ RecheckAdmit \/ RecheckResume
          <5>1. wpc # "release" /\ wpc' # "release"
            BY <4>2 DEF TryAdmit, RecheckAdmit, Passed, Commit, RecheckResume
          <5> QED BY <4>1, <5>1 DEF Ready
        <4>3. CASE \E n \in Size : Send(n)
          <5>1. wpc # "release" /\ wpc' # "release"
            BY <4>3 DEF Send
          <5> QED BY <4>1, <5>1 DEF Ready
        <4>4. CASE ~(TryAdmit \/ RecheckAdmit \/ RecheckResume \/ \E n \in Size : Send(n))
          <5>1. wpc' = wpc
            BY <1>1, <3>2, <4>4 DEF ResendDone, Notify, TakeRecovery, Resync, WriteControl, Read,
                  PublishAndLook, SecondLook, vars
          <5> QED BY <4>1, <5>1 DEF Ready
        <4> QED BY <4>2, <4>3, <4>4
      <3> QED BY <3>1, <3>2
    <2> QED BY <2>1, <2>2, FlowSame
  <1>2. ASSUME ProcessActivateWrite \/ ProcessHiccup PROVE Flow'
    <2>1. UNCHANGED flowState /\ cmds # <<>> /\ Head(cmds).type # "flow_state" /\ cmds' = Tail(cmds)
      BY <1>2 DEF ProcessActivateWrite, ProcessHiccup, Received, flowState
    <2>2. Ready' <=> Ready
      BY <1>2 DEF ProcessActivateWrite, ProcessHiccup, Ready
    <2> QED BY <2>1, <2>2, FlowTailOther
  <1>3. ASSUME Hiccup \/ ReleaseCorrelation PROVE Flow'
    <2>1. UNCHANGED flowState /\ (Ready' <=> Ready)
      BY <1>3 DEF Hiccup, ReleaseCorrelation, flowState, Ready
    <2>2. PICK c \in Command : c.type # "flow_state" /\ cmds' = Append(cmds, c)
      <3>1. CASE Hiccup
        <4>1. HiccupTo(inGen + 1) \in Command /\ HiccupTo(inGen + 1).type # "flow_state"
          BY <1>0, CommandsSent DEF HiccupTo, Counters
        <4> QED BY <3>1, <4>1 DEF Hiccup
      <3>2. CASE ReleaseCorrelation
        <4>1. /\ ActivateWrite(outGen, peersRead) \in Command
              /\ ActivateWrite(outGen, peersRead).type # "flow_state"
          BY <1>0, CommandsSent DEF ActivateWrite, Counters
        <4> QED BY <3>2, <4>1 DEF ReleaseCorrelation
      <3> QED BY <1>3, <3>1, <3>2
    <2> QED BY <2>1, <2>2, FlowAppendOther
  <1>4. ASSUME Decide PROVE Flow'
    <2>1. UNCHANGED flowState /\ (Ready' <=> Ready)
      BY <1>4 DEF Decide, flowState, Ready
    <2>2. ActivateWrite(inGen, published) \in Command
          /\ ActivateWrite(inGen, published).type # "flow_state"
      BY <1>0, CommandsSent DEF ActivateWrite, Counters
    <2>3. cmds' = cmds \/ cmds' = Append(cmds, ActivateWrite(inGen, published))
      BY <1>4 DEF Decide
    <2> QED BY <2>1, <2>2, <2>3, FlowAppendOther, FlowSame
  <1> QED BY <1>1, <1>2, <1>3, <1>4, FlowReceived, FlowReleased, FlowAccepted
          DEF Next, Turn, Reader

-----------------------------------------------------------------------------
(* Generations and byte counters.                                           *)

\* What the generations and counters of commands must satisfy, one by one.
InOrder(c) ==
    /\ c.type = "activate_write" => c.gen <= outGen /\ (c.gen = outGen => Earned(c.bytes))
    /\ c.type = "hiccup" => outGen < c.gen /\ c.gen <= inGen

\* The commands of Generations and WriterBooks.
Commands ==
    /\ \A i \in 1 .. Len(cmds) : InOrder(cmds[i])
    /\ \A i, j \in 1 .. Len(cmds) :
          cmds[i].type = "hiccup" /\ cmds[j].type = "hiccup" /\ i < j => cmds[i].gen < cmds[j].gen

\* The rest of them.
Ends ==
    /\ 1 <= outGen /\ outGen <= inGen
    /\ routed => inGen = 1
    /\ held => routed
    /\ resending => inGen > 1
    /\ Earned(peersRead)
    /\ FitsWatermark(queue)
    /\ wpc \in {"admit", "admitArmed", "commit", "commitArmed"} => msg \in Size

\* The same invariant, by commands and by ends.
LEMMA BooksParts ==
  Books <=> Ends /\ Commands /\ ReaderBooks
  BY DEF Books, Generations, WriterBooks, Ends, Commands, InOrder

\* A command that is in order may be sent behind the others, unless it is a
\* hiccup to an old generation.
LEMMA CommandsAppend ==
  ASSUME TypeOK, Commands, NEW c \in Command, cmds' = Append(cmds, c),
         \A d \in Command : InOrder(d) => InOrder(d)',
         InOrder(c)',
         c.type = "hiccup" => c.gen > inGen
  PROVE  Commands'
  <1>1. /\ Len(cmds') = Len(cmds) + 1 /\ Len(cmds) \in Nat
        /\ \A i \in 1 .. Len(cmds) : cmds'[i] = cmds[i]
        /\ cmds'[Len(cmds')] = c
        /\ \A i \in 1 .. Len(cmds) : cmds[i] \in Command
        /\ inGen \in Nat
    BY CmdsAppend, ElementOfSeq DEF TypeOK
  <1>2. \A i \in 1 .. Len(cmds') : i = Len(cmds') \/ i \in 1 .. Len(cmds)
    BY <1>1
  <1>3. ASSUME NEW i \in 1 .. Len(cmds') PROVE InOrder(cmds[i])'
    <2>1. PICK d \in Command : d = cmds'[i] /\ InOrder(d)'
      <3>1. CASE i = Len(cmds')
        BY <1>1, <3>1
      <3>2. CASE i \in 1 .. Len(cmds)
        BY <1>1, <3>2 DEF Commands
      <3> QED BY <1>2, <3>1, <3>2
    <2> QED BY <2>1 DEF InOrder, Earned
  <1>4. ASSUME NEW i \in 1 .. Len(cmds'), NEW j \in 1 .. Len(cmds'), i < j,
               cmds'[i].type = "hiccup", cmds'[j].type = "hiccup"
        PROVE  cmds'[i].gen < cmds'[j].gen
    <2>1. i \in 1 .. Len(cmds)
      BY <1>1, <1>4
    <2>2. CASE j \in 1 .. Len(cmds)
      BY <1>1, <1>4, <2>1, <2>2 DEF Commands
    <2>3. CASE j = Len(cmds')
      <3>1. cmds[i].gen <= inGen /\ cmds[i].gen \in Nat /\ c.gen \in Nat /\ c.gen > inGen
        BY <1>1, <1>4, <2>1, <2>3, CommandFields DEF Commands, InOrder
      <3> QED BY <1>1, <2>1, <2>3, <3>1
    <2> QED BY <1>2, <2>2, <2>3
  <1> QED BY <1>3, <1>4 DEF Commands

\* The commands behind one that was taken stay in order.
LEMMA CommandsTail ==
  ASSUME TypeOK, Commands, cmds # <<>>, cmds' = Tail(cmds),
         \A d \in Command : InOrder(d) => InOrder(d)'
  PROVE  Commands'
  <1>1. /\ Len(cmds') = Len(cmds) - 1 /\ Len(cmds) \in Nat
        /\ \A i \in 1 .. Len(cmds') : cmds'[i] = cmds[i + 1] /\ i + 1 \in 1 .. Len(cmds)
        /\ \A i \in 1 .. Len(cmds) : cmds[i] \in Command
    BY CmdsTail, ElementOfSeq DEF TypeOK
  <1>2. ASSUME NEW i \in 1 .. Len(cmds') PROVE InOrder(cmds[i])'
    <2>1. PICK d \in Command : d = cmds'[i] /\ InOrder(d)'
      BY <1>1 DEF Commands
    <2> QED BY <2>1 DEF InOrder, Earned
  <1>3. ASSUME NEW i \in 1 .. Len(cmds'), NEW j \in 1 .. Len(cmds'), i < j,
               cmds'[i].type = "hiccup", cmds'[j].type = "hiccup"
        PROVE  cmds'[i].gen < cmds'[j].gen
    BY <1>1, <1>3 DEF Commands
  <1> QED BY <1>2, <1>3 DEF Commands

\* The commands stay in order when none is sent or taken.
LEMMA CommandsSame ==
  ASSUME TypeOK, Commands, cmds' = cmds, \A d \in Command : InOrder(d) => InOrder(d)'
  PROVE  Commands'
  <1>1. \A i \in 1 .. Len(cmds) : cmds[i] \in Command
    BY ElementOfSeq DEF TypeOK
  <1>2. ASSUME NEW i \in 1 .. Len(cmds') PROVE InOrder(cmds[i])'
    <2>1. PICK d \in Command : d = cmds'[i] /\ InOrder(d)'
      BY <1>1 DEF Commands
    <2> QED BY <2>1 DEF InOrder, Earned
  <1> QED BY <1>2 DEF Commands

\* Nothing is granted or taken back while the counters stay.
LEMMA InOrderSame ==
  ASSUME UNCHANGED <<outGen, inGen, queue, bytesWritten, published>>
  PROVE  /\ \A d \in Command : InOrder(d) => InOrder(d)'
         /\ \A n : Earned(n)' <=> Earned(n)
  BY DEF InOrder, Earned

\* The queue has its bytes.
LEMMA QueueBytes ==
  ASSUME TypeOK
  PROVE  queue \in Seq(Frame) /\ Bytes(queue) \in Nat /\ Len(queue) \in Nat
  <1>1. queue \in Seq(Frame)
    BY DEF TypeOK
  <1> QED BY <1>1, BytesType, LenProperties

\* What an admission step takes as read was read.
LEMMA SampledEarned ==
  ASSUME TypeOK, Books, NEW pc
  PROVE  Earned(Sampled(pc))
  <1>1. Counters /\ Bytes(queue) \in Nat /\ Earned(peersRead) /\ ReaderBooks
    BY TypeParts, QueueBytes, BooksParts DEF Ends
  <1>2. Earned(published)
    BY <1>1 DEF Earned, ReaderBooks, Counters
  <1> QED BY <1>1, <1>2, SampledIs

\* A frame written is counted; it fits when it is a control, or alone, or there
\* is room for it.
LEMMA PublishedBooks ==
  ASSUME TypeOK, Books, NEW f \in Frame, Published(f),
         f.control \/ queue = <<>> \/ Bytes(queue) + f.bytes <= Hwm,
         UNCHANGED <<outGen, inGen, published, unread, rpc, prefetched>>
  PROVE  /\ \A n \in Nat : Earned(n) => Earned(n)'
         /\ \A d \in Command : InOrder(d) => InOrder(d)'
         /\ FitsWatermark(queue)' /\ queue' # <<>>
         /\ ReaderBooks'
  <1> DEFINE m == f.bytes
  <1>1. /\ bytesWritten \in Nat /\ Bytes(queue) \in Nat /\ Len(queue) \in Nat
        /\ queue \in Seq(Frame) /\ published \in Nat /\ unread \in Nat
    BY QueueBytes, TypeParts DEF Counters
  <1>2. m \in Nat /\ m > 0
    BY FrameBytes
  <1>3. /\ Bytes(queue') = Bytes(queue) + m /\ bytesWritten' = bytesWritten + m
        /\ Len(queue') = Len(queue) + 1 /\ queue' = Append(queue, f)
    BY <1>1, BytesAppend, AppendProperties DEF Published
  <1>4. \A n \in Nat : Earned(n) => Earned(n)'
    <2> HIDE DEF m
    <2> QED BY <1>1, <1>2, <1>3 DEF Earned
  <1>5. ASSUME NEW d \in Command, InOrder(d) PROVE InOrder(d)'
    BY <1>4, <1>5, CommandFields DEF InOrder
  <1>6. FitsWatermark(queue)'
    <2>1. FitsWatermark(queue)
      BY BooksParts DEF Ends
    <2>2. FitsWatermark(Append(queue, f))
      BY <1>1, <2>1, FitsAppend
    <2> QED BY <1>3, <2>2 DEF FitsWatermark
  <1>7. ReaderBooks'
    <2> HIDE DEF m
    <2>1. ReaderBooks
      BY BooksParts
    <2>2. outGen = inGen => bytesWritten = published + unread + Bytes(queue)
      BY <2>1 DEF ReaderBooks
    <2>3. outGen = inGen => bytesWritten + m = published + unread + (Bytes(queue) + m)
      BY <1>1, <1>2, <2>2
    <2>4. outGen' = inGen' => bytesWritten' = published' + unread' + Bytes(queue')
      BY <1>3, <2>3
    <2>5. /\ (rpc' = "publish") <=> (unread' > 0)
          /\ outGen' # inGen' => rpc' = "idle" /\ published' = 0 /\ prefetched' = 0
      BY <2>1 DEF ReaderBooks
    <2> QED BY <2>4, <2>5 DEF ReaderBooks
  <1>8. queue' # <<>>
    BY <1>1, <1>3, EmptySeq
  <1> QED BY <1>4, <1>5, <1>6, <1>7, <1>8

\* A message is written only where there is room for it, or alone.
LEMMA CommitBooks ==
  ASSUME TypeOK, Books, Commit, msg \in Size, NEW r \in Nat, Earned(r), CanCommit(msg, r),
         UNCHANGED <<outGen, inGen, published, unread, rpc, prefetched>>
  PROVE  /\ \A n \in Nat : Earned(n) => Earned(n)'
         /\ \A d \in Command : InOrder(d) => InOrder(d)'
         /\ FitsWatermark(queue)'
         /\ ReaderBooks'
  <1>1. /\ bytesWritten \in Nat /\ Bytes(queue) \in Nat /\ queue \in Seq(Frame)
    BY QueueBytes, TypeParts DEF Counters
  <1>2. msg \in Nat /\ msg > 0 /\ Hwm \in Nat
    BY BoundsAssumption
  <1>3. PICK f \in Frame : f = Message(msg) /\ f.bytes = msg
    BY FramesWritten
  <1>4. queue = <<>> \/ Bytes(queue) + f.bytes <= Hwm
    <2> SUFFICES ASSUME queue # <<>> PROVE Bytes(queue) + msg <= Hwm
      BY <1>3
    <2>1. Bytes(queue) > 0
      BY <1>1, BytesPositive
    <2>2. r + Bytes(queue) <= bytesWritten
      BY DEF Earned
    <2>3. InFlight(r) = bytesWritten - r /\ InFlight(r) # 0
      BY <1>1, <2>1, <2>2 DEF InFlight
    <2>4. bytesWritten - r + msg <= Hwm
      BY <2>3 DEF CanCommit
    <2> QED BY <1>1, <1>2, <2>2, <2>4
  <1>5. Published(f)
    BY <1>3 DEF Commit
  <1> QED BY <1>4, <1>5, PublishedBooks

\* An admission step that succeeds, at the count of bytes it sampled.
LEMMA PassedBooks ==
  ASSUME TypeOK, Books, Passed, wpc \in {"admit", "admitArmed", "commit", "commitArmed"},
         peersRead' = Sampled(wpc), Admits(wpc, peersRead'),
         UNCHANGED <<outGen, inGen, published, unread, rpc, prefetched, routed, held, resending,
                     cmds>>
  PROVE  Books'
  <1>1. Ends /\ Commands /\ ReaderBooks /\ Counters
    BY BooksParts, TypeParts
  <1>2. PICK r \in Nat : r = peersRead' /\ Earned(r) /\ Admits(wpc, r)
    BY <1>1, SampledEarned, SampledIs
  <1>3. msg \in Size
    BY <1>1 DEF Ends
  <1>4. CASE wpc \in {"admit", "admitArmed"}
    <2>1. UNCHANGED <<outGen, inGen, queue, bytesWritten, published>>
          /\ wpc' = "commit" /\ msg' = msg
      BY <1>4 DEF Passed
    <2>2. Commands'
      BY <1>1, <2>1, InOrderSame, CommandsSame
    <2>3. Ends'
      BY <1>1, <1>2, <1>3, <2>1, BoundsAssumption DEF Ends, Earned, FitsWatermark
    <2>4. ReaderBooks'
      BY <1>1, <2>1 DEF ReaderBooks
    <2> QED BY <2>2, <2>3, <2>4 DEF Books, Generations, WriterBooks, Ends, Commands, InOrder
  <1>5. CASE wpc \in {"commit", "commitArmed"}
    <2>1. Commit /\ CanCommit(msg, r)
      BY <1>2, <1>5 DEF Passed, Admits
    <2>2. /\ \A n \in Nat : Earned(n) => Earned(n)'
          /\ \A d \in Command : InOrder(d) => InOrder(d)'
          /\ FitsWatermark(queue)'
          /\ ReaderBooks'
      BY <1>2, <1>3, <2>1, CommitBooks
    <2>3. Commands'
      BY <1>1, <2>2, CommandsSame
    <2>4. Earned(peersRead)'
      <3>1. Earned(r)'
        BY <1>2, <2>2
      <3> QED BY <1>2, <3>1 DEF Earned
    <2>5. Ends'
      BY <1>1, <2>1, <2>2, <2>4 DEF Ends, Commit
    <2> QED BY <2>2, <2>3, <2>5 DEF Books, Generations, WriterBooks, Ends, Commands, InOrder
  <1> QED BY <1>4, <1>5

\* The invariant from its parts, after a step.
LEMMA BooksFromParts == ASSUME Ends', Commands', ReaderBooks' PROVE Books'
  BY DEF Books, Generations, WriterBooks, Ends, Commands, InOrder

\* Steps of the turn between two writes: the counters stay, and what is taken
\* as read was read.
LEMMA TurnBooks ==
  ASSUME TypeOK, Books, NEW r, Earned(r), peersRead' = r, Commands',
         UNCHANGED <<outGen, inGen, queue, bytesWritten, readerVars, routed>>,
         held' => held, resending' => resending,
         wpc' \in {"admit", "admitArmed", "commit", "commitArmed"} => msg' \in Size
  PROVE  Books'
  <1>1. Ends /\ ReaderBooks
    BY BooksParts
  <1>2. ReaderBooks'
    BY <1>1 DEF ReaderBooks, readerVars
  <1>3. Earned(peersRead)'
    BY DEF Earned, readerVars
  <1>4. Ends'
    BY <1>1, <1>3 DEF Ends, readerVars, FitsWatermark
  <1> QED BY <1>2, <1>4, BooksFromParts

\* The turn keeps the books.
LEMMA TurnKeepsBooks ==
  ASSUME TypeOK, Books,
         \/ \E n \in Size : Send(n)
         \/ TryAdmit \/ RecheckAdmit \/ ResendDone \/ Notify \/ TakeRecovery
         \/ ProcessActivateWrite \/ ProcessFlowState \/ RecheckResume \/ PairReady \/ ReleaseHold
         \/ Resync \/ \E n \in ControlSize : WriteControl(n)
  PROVE  Books'
  <1> USE DEF writerVars, flowVars, turnVars, readerVars, boundVars
  <1>0. Ends /\ Commands /\ ReaderBooks /\ Counters /\ Queues
    BY BooksParts, TypeParts
  <1>a. Earned(peersRead) /\ \A pc : Earned(Sampled(pc))
    BY <1>0, SampledEarned DEF Ends
  <1>b. ASSUME UNCHANGED <<outGen, inGen, queue, bytesWritten, published, cmds>> PROVE Commands'
    BY <1>0, <1>b, InOrderSame, CommandsSame
  <1>c. ASSUME UNCHANGED <<outGen, inGen, queue, bytesWritten, published>>, cmds # <<>>,
               cmds' = Tail(cmds)
        PROVE  Commands'
    BY <1>0, <1>c, InOrderSame, CommandsTail
  <1>1. ASSUME NEW n \in Size, Send(n) PROVE Books'
    <2>1. Commands'
      BY <1>b, <1>1 DEF Send
    <2>2. UNCHANGED <<outGen, inGen, queue, bytesWritten, readerVars, routed>>
          /\ peersRead' = peersRead /\ held' = held /\ resending' = resending
          /\ (wpc' \in {"admit", "admitArmed", "commit", "commitArmed"} => msg' \in Size)
      BY <1>0, <1>1 DEF Send, Ends
    <2> QED BY <1>a, <2>1, <2>2, TurnBooks
  <1>2. ASSUME TryAdmit PROVE Books'
    <2>1. CASE Admits(wpc, peersRead')
      BY <1>2, <2>1, PassedBooks DEF TryAdmit
    <2>2. CASE ~Admits(wpc, peersRead')
      <3>1. Commands'
        BY <1>b, <1>2, <2>2 DEF TryAdmit
      <3>2. /\ UNCHANGED <<outGen, inGen, queue, bytesWritten, readerVars, routed>>
            /\ peersRead' = Sampled(wpc) /\ held' = held /\ resending' = resending
            /\ msg' \in Size
        BY <1>0, <1>2, <2>2 DEF TryAdmit, Ends
      <3> QED BY <1>a, <3>1, <3>2, TurnBooks
    <2> QED BY <2>1, <2>2
  <1>3. ASSUME RecheckAdmit PROVE Books'
    <2>1. CASE Admits(wpc, peersRead')
      BY <1>3, <2>1, PassedBooks DEF RecheckAdmit
    <2>2. CASE ~Admits(wpc, peersRead')
      <3>1. Commands'
        BY <1>b, <1>3, <2>2 DEF RecheckAdmit
      <3>2. /\ UNCHANGED <<outGen, inGen, queue, bytesWritten, readerVars, routed>>
            /\ peersRead' = Sampled(wpc) /\ held' = held /\ resending' = resending
            /\ wpc' = "idle"
        BY <1>3, <2>2 DEF RecheckAdmit
      <3> QED BY <1>a, <3>1, <3>2, TurnBooks
    <2> QED BY <2>1, <2>2
  <1>4. ASSUME ResendDone \/ Notify \/ TakeRecovery PROVE Books'
    <2>1. Commands'
      BY <1>b, <1>4 DEF ResendDone, Notify, TakeRecovery
    <2>2. UNCHANGED <<outGen, inGen, queue, bytesWritten, readerVars, routed>>
          /\ peersRead' = peersRead /\ held' = held /\ (resending' => resending)
          /\ wpc' = wpc /\ msg' = msg
      BY <1>4 DEF ResendDone, Notify, TakeRecovery
    <2>3. wpc' \in {"admit", "admitArmed", "commit", "commitArmed"} => msg' \in Size
      BY <1>0, <2>2 DEF Ends
    <2> QED BY <1>a, <2>1, <2>2, <2>3, TurnBooks
  <1>5. ASSUME ProcessActivateWrite PROVE Books'
    <2>1. Commands'
      BY <1>c, <1>5 DEF ProcessActivateWrite, Received
    <2>2. UNCHANGED <<outGen, inGen, queue, bytesWritten, readerVars, routed>>
          /\ held' = held /\ resending' = resending /\ wpc' = "idle"
      BY <1>5 DEF ProcessActivateWrite, Received, TurnIsFree
    <2>3. InOrder(Head(cmds)) /\ Head(cmds).type = "activate_write"
      BY <1>0, <1>5, CmdsTail DEF ProcessActivateWrite, Received, Commands, Queues
    <2>4. peersRead' = IF Head(cmds).gen = outGen THEN Head(cmds).bytes ELSE peersRead
      BY <1>5 DEF ProcessActivateWrite
    <2>5. PICK r : peersRead' = r /\ Earned(r)
      BY <1>a, <2>3, <2>4 DEF InOrder
    <2> QED BY <2>1, <2>2, <2>5, TurnBooks
  <1>6. ASSUME ProcessFlowState PROVE Books'
    <2>1. Commands'
      BY <1>c, <1>6 DEF ProcessFlowState, Received
    <2>2. UNCHANGED <<outGen, inGen, queue, bytesWritten, readerVars, routed>>
          /\ peersRead' = peersRead /\ held' = held /\ resending' = resending
          /\ wpc' \in {"idle", "resumed"}
      BY <1>6 DEF ProcessFlowState, Received, TurnIsFree
    <2> QED BY <1>a, <2>1, <2>2, TurnBooks
  <1>7. ASSUME RecheckResume \/ ReleaseHold PROVE Books'
    <2>1. Commands'
      BY <1>b, <1>7 DEF RecheckResume, ReleaseHold
    <2>2. UNCHANGED <<outGen, inGen, queue, bytesWritten, readerVars, routed>>
          /\ peersRead' = Sampled(wpc) /\ (held' => held) /\ resending' = resending
          /\ wpc' \in {"idle", "releaseArmed"}
      BY <1>7 DEF RecheckResume, ReleaseHold
    <2> QED BY <1>a, <2>1, <2>2, TurnBooks
  <1>8. ASSUME PairReady PROVE Books'
    <2>1. Commands'
      BY <1>b, <1>8 DEF PairReady
    <2>2. UNCHANGED <<outGen, inGen, queue, bytesWritten, readerVars, routed>>
          /\ peersRead' = peersRead /\ held' = held /\ resending' = resending
          /\ wpc' = "release"
      BY <1>8 DEF PairReady
    <2> QED BY <1>a, <2>1, <2>2, TurnBooks
  <1>9. ASSUME NEW n \in ControlSize, PutControl(n),
               UNCHANGED <<peersRead, outGen, readerVars, routed, held, resending, wpc, msg, cmds>>
        PROVE  Books'
    <2>1. n \in Size
      BY BoundsAssumption
    <2>2. PICK f \in Frame : f = Control(n) /\ f.control
      BY <2>1, FramesWritten
    <2>3. Published(f)
      BY <1>9, <2>2 DEF PutControl
    <2>4. /\ \A k \in Nat : Earned(k) => Earned(k)'
          /\ \A d \in Command : InOrder(d) => InOrder(d)'
          /\ FitsWatermark(queue)' /\ ReaderBooks'
      BY <1>9, <2>2, <2>3, PublishedBooks
    <2>5. Commands'
      BY <1>0, <1>9, <2>4, CommandsSame
    <2>6. Earned(peersRead)'
      <3>1. PICK r \in Nat : r = peersRead
        BY <1>0 DEF Counters
      <3>2. Earned(r)'
        BY <1>a, <2>4, <3>1
      <3> QED BY <1>9, <3>1, <3>2 DEF Earned
    <2>7. Ends'
      BY <1>0, <1>9, <2>4, <2>6 DEF Ends
    <2> QED BY <2>4, <2>5, <2>7, BooksFromParts
  <1>10. ASSUME NEW n \in ControlSize, WriteControl(n) PROVE Books'
    BY <1>9, <1>10 DEF WriteControl
  <1>11. ASSUME Resync PROVE Books'
    <2>1. CASE \E n \in ControlSize : PutControl(n)
      BY <1>9, <1>11, <2>1 DEF Resync
    <2>2. CASE UNCHANGED <<queue, bytesWritten, controls>>
      <3>1. Commands'
        BY <1>b, <1>11, <2>2 DEF Resync
      <3>2. UNCHANGED <<outGen, inGen, queue, bytesWritten, readerVars, routed>>
            /\ peersRead' = peersRead /\ held' = held /\ resending' = resending
            /\ wpc' = wpc /\ msg' = msg
        BY <1>11, <2>2 DEF Resync
      <3>3. wpc' \in {"admit", "admitArmed", "commit", "commitArmed"} => msg' \in Size
        BY <1>0, <3>2 DEF Ends
      <3> QED BY <1>a, <3>1, <3>2, <3>3, TurnBooks
    <2> QED BY <1>11, <2>1, <2>2 DEF Resync
  <1> QED BY <1>1, <1>2, <1>3, <1>4, <1>5, <1>6, <1>7, <1>8, <1>10, <1>11

\* The peer keeps the books.
LEMMA ReaderKeepsBooks ==
  ASSUME TypeOK, Books, Reader
  PROVE  Books'
  <1> USE DEF writerVars, flowVars, turnVars, readerVars, boundVars
  <1>0. Ends /\ Commands /\ ReaderBooks /\ Counters /\ Queues /\ Steps
    BY BooksParts, TypeParts
  <1>a. Bytes(queue) \in Nat /\ Len(queue) \in Nat /\ queue \in Seq(Frame) /\ Hwm \in Nat
    BY QueueBytes, BoundsAssumption
  <1>1. ASSUME Read PROVE Books'
    <2>1. /\ Bytes(queue) = Head(queue).bytes + Bytes(queue') /\ Bytes(queue') \in Nat
          /\ Head(queue) \in Frame
      BY <1>a, <1>1, BytesTail, BytesType DEF Read
    <2>2. Head(queue).bytes \in Nat /\ Head(queue).bytes > 0
      BY <2>1, FrameBytes
    <2>3. \A n \in Nat : Earned(n) => Earned(n)'
      BY <1>0, <1>a, <1>1, <2>1, <2>2 DEF Earned, Read, Counters
    <2>4. \A d \in Command : InOrder(d) => InOrder(d)'
      <3> TAKE d \in Command
      <3> QED BY <1>1, <2>3, CommandFields DEF InOrder, Read
    <2>5. Commands'
      BY <1>0, <1>1, <2>4, CommandsSame DEF Read
    <2>6. Earned(peersRead)'
      <3>1. PICK r \in Nat : r = peersRead
        BY <1>0 DEF Counters
      <3>2. Earned(r)'
        BY <1>0, <2>3, <3>1 DEF Ends
      <3> QED BY <1>1, <3>1, <3>2 DEF Earned, Read
    <2>7. FitsWatermark(queue)'
      <3>1. FitsWatermark(Tail(queue))
        BY <1>0, <1>a, <1>1, FitsTail DEF Ends, Read
      <3> QED BY <1>1, <3>1 DEF FitsWatermark, Read
    <2>8. Ends'
      BY <1>0, <1>1, <2>6, <2>7 DEF Ends, Read
    <2>9. ReaderBooks'
      BY <1>0, <1>1, <2>1, <2>2 DEF ReaderBooks, Read, Counters
    <2> QED BY <2>5, <2>8, <2>9, BooksFromParts
  <1>2. ASSUME PublishAndLook PROVE Books'
    <2>0. outGen = inGen /\ published' = published + unread /\ unread' = 0
      BY <1>0, <1>2 DEF ReaderBooks, PublishAndLook
    <2>1. \A n \in Nat : Earned(n) => Earned(n)'
      BY <1>0, <1>2, <2>0 DEF Earned, PublishAndLook, Counters
    <2>2. \A d \in Command : InOrder(d) => InOrder(d)'
      <3> TAKE d \in Command
      <3> QED BY <1>2, <2>1, CommandFields DEF InOrder, PublishAndLook
    <2>3. Commands'
      BY <1>0, <1>2, <2>2, CommandsSame DEF PublishAndLook
    <2>4. Earned(peersRead)'
      <3>1. PICK r \in Nat : r = peersRead
        BY <1>0 DEF Counters
      <3>2. Earned(r)'
        BY <1>0, <2>1, <3>1 DEF Ends
      <3> QED BY <1>2, <3>1, <3>2 DEF Earned, PublishAndLook
    <2>5. Ends'
      BY <1>0, <1>2, <2>4 DEF Ends, PublishAndLook
    <2>6. ReaderBooks'
      <3>1. rpc' \in {"second", "decide"} /\ outGen' = inGen'
        BY <1>2, <2>0 DEF PublishAndLook
      <3>2. bytesWritten' = published' + unread' + Bytes(queue')
        BY <1>0, <1>a, <1>2, <2>0 DEF ReaderBooks, PublishAndLook, Counters
      <3> QED BY <2>0, <3>1, <3>2 DEF ReaderBooks
    <2> QED BY <2>3, <2>5, <2>6, BooksFromParts
  <1>3. ASSUME SecondLook PROVE Books'
    <2>1. Commands'
      BY <1>0, <1>3, InOrderSame, CommandsSame DEF SecondLook
    <2>2. ReaderBooks'
      BY <1>0, <1>3 DEF SecondLook, ReaderBooks
    <2>3. Earned(peersRead)'
      BY <1>0, <1>3 DEF SecondLook, Ends, Earned
    <2>4. Ends'
      BY <1>0, <1>3, <2>3 DEF SecondLook, Ends
    <2> QED BY <2>1, <2>2, <2>4, BooksFromParts
  <1>4. ASSUME Decide PROVE Books'
    <2>0. outGen = inGen /\ unread = 0
      BY <1>0, <1>4 DEF ReaderBooks, Decide, Counters
    <2>1. Earned(published)
      BY <1>0, <1>a, <2>0 DEF Earned, ReaderBooks, Counters
    <2>2. UNCHANGED <<outGen, inGen, queue, bytesWritten, published>>
      BY <1>4 DEF Decide
    <2>3. PICK c \in Command : c = ActivateWrite(inGen, published)
      BY <1>0, CommandsSent DEF Counters
    <2>4. InOrder(c)' /\ c.type # "hiccup"
      BY <1>0, <2>0, <2>1, <2>2, <2>3 DEF InOrder, Earned, ActivateWrite, Counters
    <2>5. cmds' = cmds \/ cmds' = Append(cmds, c)
      BY <1>4, <2>3 DEF Decide
    <2>6. Commands'
      BY <1>0, <2>2, <2>4, <2>5, InOrderSame, CommandsSame, CommandsAppend
    <2>7. ReaderBooks'
      BY <1>0, <1>4, <2>0 DEF ReaderBooks, Decide, Counters
    <2>8. Earned(peersRead)'
      BY <1>0, <1>4 DEF Decide, Ends, Earned
    <2>9. Ends'
      BY <1>0, <1>4, <2>8 DEF Decide, Ends
    <2> QED BY <2>6, <2>7, <2>9, BooksFromParts
  <1> QED BY <1>1, <1>2, <1>3, <1>4 DEF Reader

\* hiccup() and process_hiccup() begin new books.
LEMMA HiccupKeepsBooks ==
  ASSUME TypeOK, Books, Hiccup \/ ProcessHiccup
  PROVE  Books'
  <1> USE DEF writerVars, flowVars, turnVars, readerVars, boundVars
  <1>0. Ends /\ Commands /\ ReaderBooks /\ Counters /\ Queues /\ Steps
    BY BooksParts, TypeParts
  <1>a. Bytes(queue) \in Nat /\ Len(queue) \in Nat /\ queue \in Seq(Frame) /\ Hwm \in Nat
    BY QueueBytes, BoundsAssumption
  <1>1. ASSUME Hiccup PROVE Books'
    <2>0. /\ outGen' = outGen /\ inGen' = inGen + 1 /\ outGen <= inGen /\ outGen' # inGen'
          /\ UNCHANGED <<queue, bytesWritten, peersRead>>
          /\ ~routed /\ routed' = routed /\ rpc' = "idle" /\ unread' = unread
          /\ UNCHANGED <<held, resending, wpc, msg>>
      BY <1>0, <1>1 DEF Hiccup, Ends, Counters
    <2>1. \A n : Earned(n) => Earned(n)'
      BY <2>0 DEF Earned
    <2>2. \A d \in Command : InOrder(d) => InOrder(d)'
      <3> TAKE d \in Command
      <3>1. d.type = "hiccup" => d.gen \in Nat
        BY CommandFields
      <3> QED BY <1>0, <2>0, <2>1, <3>1 DEF InOrder, Counters
    <2>3. PICK c \in Command : c = HiccupTo(inGen + 1)
      BY <1>0, CommandsSent DEF Counters
    <2>4. cmds' = Append(cmds, c) /\ c.gen = inGen + 1 /\ c.type = "hiccup"
      BY <1>1, <2>3 DEF Hiccup, HiccupTo
    <2>5. InOrder(c)' /\ c.gen > inGen
      BY <1>0, <2>0, <2>4 DEF InOrder, Counters
    <2>6. Commands'
      BY <1>0, <2>2, <2>4, <2>5, CommandsAppend
    <2>7. Earned(peersRead)'
      BY <1>0, <2>0 DEF Ends, Earned
    <2>8. Ends'
      BY <1>0, <2>0, <2>7 DEF Ends, Counters
    <2>9. ReaderBooks'
      BY <1>0, <1>1, <2>0 DEF Hiccup, ReaderBooks, Counters
    <2> QED BY <2>6, <2>8, <2>9, BooksFromParts
  <1>2. ASSUME ProcessHiccup PROVE Books'
    <2>0. /\ cmds # <<>> /\ Head(cmds).type = "hiccup" /\ cmds' = Tail(cmds)
          /\ queue' = <<>> /\ bytesWritten' = 0 /\ peersRead' = 0 /\ outGen' = Head(cmds).gen
          /\ UNCHANGED <<inGen, rpc, unread, published, prefetched, routed, held, msg, wpc>>
          /\ wpc = "idle"
      BY <1>2 DEF ProcessHiccup, Received, TurnIsFree
    <2>1. /\ Head(cmds) = cmds[1] /\ 1 \in 1 .. Len(cmds) /\ Head(cmds) \in Command
          /\ Len(cmds') = Len(cmds) - 1 /\ Len(cmds) \in Nat
          /\ \A i \in 1 .. Len(cmds') : cmds'[i] = cmds[i + 1] /\ i + 1 \in 1 .. Len(cmds)
      BY <1>0, <2>0, CmdsTail DEF Queues
    <2>2. outGen < outGen' /\ outGen' <= inGen /\ outGen' \in Nat
      BY <1>0, <2>0, <2>1, CommandFields DEF Commands, InOrder
    <2>3. rpc = "idle" /\ published = 0 /\ prefetched = 0 /\ unread = 0
      BY <1>0, <2>2 DEF ReaderBooks, Counters
    <2>4. Bytes(queue') = 0 /\ Len(queue') = 0
      BY <1>a, <2>0, BytesType, EmptySeq
    <2>5. ASSUME NEW i \in 1 .. Len(cmds') PROVE InOrder(cmds[i])'
      <3>1. /\ InOrder(cmds[i + 1]) /\ cmds[i + 1] \in Command /\ cmds'[i] = cmds[i + 1]
            /\ 1 < i + 1 /\ i + 1 \in 1 .. Len(cmds)
        BY <1>0, <2>1, ElementOfSeq DEF Commands, Queues
      <3>2. PICK d \in Command : d = cmds'[i]
        BY <3>1
      <3>3. d.type = "hiccup" => outGen' < d.gen /\ d.gen <= inGen'
        BY <1>0, <2>0, <2>1, <3>1, <3>2 DEF Commands, InOrder
      <3>4. d.type = "activate_write" => d.gen <= outGen' /\ d.gen # outGen'
        <4>1. d.type = "activate_write" => d.gen <= outGen /\ d.gen \in Nat
          BY <3>1, <3>2, CommandFields DEF InOrder
        <4> QED BY <1>0, <2>2, <4>1 DEF Counters
      <3> QED BY <3>2, <3>3, <3>4 DEF InOrder, Earned
    <2>6. Commands'
      BY <1>0, <2>1, <2>5 DEF Commands
    <2>7. Earned(peersRead)'
      BY <2>0, <2>3, <2>4 DEF Earned
    <2>8. inGen > 1
      BY <1>0, <2>2 DEF Ends, Counters
    <2>9. FitsWatermark(queue)'
      BY <2>4 DEF FitsWatermark
    <2>10. Ends'
      BY <1>0, <1>a, <2>0, <2>2, <2>7, <2>8, <2>9 DEF Ends, Counters
    <2>11. ReaderBooks'
      BY <2>0, <2>3, <2>4 DEF ReaderBooks
    <2> QED BY <2>6, <2>10, <2>11, BooksFromParts
  <1> QED BY <1>1, <1>2

\* Every step keeps the books.
LEMMA BooksNext ==
  ASSUME TypeOK, Books, [Next]_vars
  PROVE  Books'
  <1> USE DEF writerVars, flowVars, turnVars, readerVars, boundVars
  <1>0. Ends /\ Commands /\ ReaderBooks /\ Counters /\ Queues
    BY BooksParts, TypeParts
  <1>1. ASSUME UNCHANGED <<writerVars, readerVars, routed, held, resending, wpc, msg, queue>>,
               Commands'
        PROVE  Books'
    <2>1. ReaderBooks' /\ Earned(peersRead)'
      BY <1>0, <1>1 DEF ReaderBooks, Earned, Ends
    <2>2. Ends'
      BY <1>0, <1>1, <2>1 DEF Ends
    <2> QED BY <1>1, <2>1, <2>2, BooksFromParts
  <1>2. ASSUME NEW p \in BOOLEAN, AcceptFlowState(p) PROVE Books'
    <2>1. UNCHANGED <<writerVars, readerVars, routed, held, resending, wpc, msg, queue>>
      BY <1>2 DEF AcceptFlowState
    <2>2. record.epoch + 1 \in Nat
      BY Epochs
    <2>3. PICK c \in Command : c = FlowState(p, record.epoch + 1)
      BY <2>2, CommandsSent
    <2>4. c.type = "flow_state" /\ InOrder(c)'
      BY <2>3 DEF FlowState, InOrder
    <2>5. cmds' = cmds \/ cmds' = Append(cmds, c)
      BY <1>2, <2>3 DEF AcceptFlowState
    <2>6. Commands'
      BY <1>0, <2>1, <2>4, <2>5, InOrderSame, CommandsSame, CommandsAppend
    <2> QED BY <1>1, <2>1, <2>6
  <1>3. ASSUME ReleaseCorrelation PROVE Books'
    <2>1. UNCHANGED <<writerVars, readerVars, routed, held, resending, wpc, msg, queue>>
      BY <1>3 DEF ReleaseCorrelation
    <2>2. PICK c \in Command : c = ActivateWrite(outGen, peersRead)
      BY <1>0, CommandsSent DEF Counters
    <2>3. c.type = "activate_write" /\ c.gen = outGen /\ c.bytes = peersRead
      BY <2>2 DEF ActivateWrite
    <2>4. InOrder(c)'
      BY <1>0, <2>1, <2>3 DEF InOrder, Earned, Ends, Counters
    <2>5. cmds' = Append(cmds, c)
      BY <1>3, <2>2 DEF ReleaseCorrelation
    <2>6. Commands'
      BY <1>0, <2>1, <2>3, <2>4, <2>5, InOrderSame, CommandsAppend
    <2> QED BY <1>1, <2>1, <2>6
  <1>4. ASSUME UNCHANGED vars PROVE Books'
    <2>1. UNCHANGED <<writerVars, readerVars, routed, held, resending, wpc, msg, queue, cmds>>
      BY <1>4 DEF vars
    <2>2. Commands'
      BY <1>0, <2>1, InOrderSame, CommandsSame
    <2> QED BY <1>1, <2>1, <2>2
  <1> QED BY <1>2, <1>3, <1>4, TurnKeepsBooks, ReaderKeepsBooks, HiccupKeepsBooks
          DEF Next, Turn
-----------------------------------------------------------------------------
(* Waiting for credit.                                                      *)

\* Every step leaves the turn where its step says, and a writable pipe set aside
\* only for a reason.
LEMMA TurnStepsNext ==
  ASSUME TypeOK, Books, TurnSteps, SetAsideForReason, [Next]_vars
  PROVE  TurnSteps' /\ SetAsideForReason'
  <1> DEFINE Goal == TurnSteps /\ SetAsideForReason
  <1> USE DEF writerVars, flowVars, turnVars, readerVars, boundVars, TurnSteps, SetAsideForReason,
              Resyncing
  <1>0. /\ Flags /\ Steps /\ (held => routed) /\ (routed => inGen = 1)
        /\ (resending => inGen # 1)
    BY TypeParts, BooksParts DEF Ends, Counters
  <1>a. Ends /\ Commands /\ Counters
    BY TypeParts, BooksParts
  <1>1. ASSUME NEW n \in Size, Send(n) PROVE Goal'
    BY <1>0, <1>1 DEF Send, Refused, Flags
  <1>2. ASSUME TryAdmit PROVE Goal'
    BY <1>0, <1>2 DEF TryAdmit, Passed, Commit, Arm, Flags
  <1>3. ASSUME RecheckAdmit PROVE Goal'
    BY <1>0, <1>3 DEF RecheckAdmit, Passed, Commit, ClearWait, Refused, Flags
  <1>4. ASSUME ResendDone PROVE Goal'
    BY <1>0, <1>4 DEF ResendDone, Flags
  <1>5. ASSUME ProcessActivateWrite PROVE Goal'
    BY <1>0, <1>5 DEF ProcessActivateWrite, Received, TurnIsFree, Flags
  <1>6. ASSUME Notify PROVE Goal'
    BY <1>0, <1>6 DEF Notify, Flags
  <1>7. ASSUME TakeRecovery PROVE Goal'
    BY <1>0, <1>7 DEF TakeRecovery, Flags
  <1>8. ASSUME ProcessFlowState PROVE Goal'
    BY <1>0, <1>8 DEF ProcessFlowState, Received, TurnIsFree, Arm, Flags
  <1>9. ASSUME RecheckResume PROVE Goal'
    BY <1>0, <1>9 DEF RecheckResume, Flags
  <1>10. ASSUME PairReady PROVE Goal'
    BY <1>0, <1>10 DEF PairReady, TurnIsFree, Flags
  <1>11. ASSUME ReleaseHold PROVE Goal'
    BY <1>0, <1>11 DEF ReleaseHold, Arm, ClearWait, Flags
  <1>12. ASSUME ProcessHiccup PROVE Goal'
    <2>1. /\ Head(cmds) = cmds[1] /\ 1 \in 1 .. Len(cmds) /\ Head(cmds).gen \in Nat
          /\ Head(cmds).type = "hiccup"
      BY <1>12, CmdsTail, CommandFields DEF ProcessHiccup, Received, TypeOK
    <2>2. inGen # 1
      BY <1>a, <2>1 DEF Ends, Commands, InOrder, Counters
    <2> QED BY <1>0, <1>12, <2>2 DEF ProcessHiccup, Received, TurnIsFree, Flags
  <1>13. ASSUME Read \/ PublishAndLook \/ SecondLook \/ Decide PROVE Goal'
    BY <1>0, <1>13 DEF Read, PublishAndLook, SecondLook, Decide, Flags
  <1>14. ASSUME Hiccup PROVE Goal'
    <2>1. inGen' # 1
      BY <1>a, <1>14 DEF Ends, Counters, Hiccup
    <2> QED BY <1>0, <1>14, <2>1 DEF Hiccup, Flags
  <1>15. ASSUME NEW p \in BOOLEAN, AcceptFlowState(p) PROVE Goal'
    BY <1>0, <1>15 DEF AcceptFlowState, Flags
  <1>16. ASSUME ReleaseCorrelation PROVE Goal'
    BY <1>0, <1>16 DEF ReleaseCorrelation, Flags
  <1>17. ASSUME UNCHANGED vars PROVE Goal'
    BY <1>0, <1>17 DEF vars, Flags
  <1>18. ASSUME Resync PROVE Goal'
    BY <1>0, <1>18 DEF Resync, Flags
  <1>19. ASSUME NEW n \in ControlSize, WriteControl(n) PROVE Goal'
    BY <1>0, <1>19 DEF WriteControl, Flags
  <1> QED BY <1>1, <1>2, <1>3, <1>4, <1>5, <1>6, <1>7, <1>8, <1>9, <1>10, <1>11, <1>12,
             <1>13, <1>14, <1>15, <1>16, <1>17, <1>18, <1>19
          DEF Next, Turn, Reader

\* Without room at what is published, there is something left to read.
LEMMA NoRoomIsUnread ==
  ASSUME TypeOK, Books, inGen = 1, ~CheckHwm(published) \/ InFlight(published) # 0
  PROVE  queue # <<>> \/ rpc = "publish"
  <1>1. Ends /\ ReaderBooks /\ Counters /\ Bytes(queue) \in Nat /\ Hwm \in Nat \ {0}
    BY BooksParts, TypeParts, QueueBytes, BoundsAssumption
  <1>2. outGen = inGen /\ bytesWritten = published + unread + Bytes(queue)
    BY <1>1 DEF Ends, ReaderBooks, Counters
  <1>3. CASE unread = 0 /\ queue = <<>>
    <2>1. Bytes(queue) = 0
      BY <1>3, QueueBytes, BytesType
    <2> QED BY <1>1, <1>2, <1>3, <2>1 DEF CheckHwm, InFlight, Counters
  <1>4. CASE unread # 0
    BY <1>1, <1>4 DEF ReaderBooks, Counters
  <1> QED BY <1>3, <1>4

\* A test that fails at the newest count leaves the reader something to do.
LEMMA RefusalIsSeen ==
  ASSUME TypeOK, Books, inGen = 1, NEW pc, ~Admits(pc, Sampled(pc))
  PROVE  queue # <<>> \/ rpc = "publish"
  <1>1. Ends /\ Counters
    BY BooksParts, TypeParts
  <1>2. Sampled(pc) = published
    <2>1. Sampled(pc) = Snapshot
      BY DEF Sampled
    <2>2. peersRead <= published
      BY <1>1 DEF Ends, Earned, Counters
    <2> QED BY <1>1, <2>1, <2>2, SnapshotIs DEF Counters
  <1>3. ~CheckHwm(published) \/ InFlight(published) # 0
    BY <1>2 DEF Admits, CanCommit
  <1> QED BY <1>3, NoRoomIsUnread

\* Grants stay in the mailbox while others are sent.
LEMMA GrantAppend ==
  ASSUME TypeOK, GrantInMailbox, UNCHANGED <<outGen, bytesWritten>>, NEW c \in Command,
         cmds' = Append(cmds, c) \/ cmds' = cmds
  PROVE  GrantInMailbox'
  <1>1. DOMAIN cmds = 1 .. Len(cmds)
    BY LenProperties DEF TypeOK
  <1>2. CASE cmds' = Append(cmds, c)
    <2>1. /\ cmds' \in Seq(Command)
          /\ \A i \in 1 .. Len(cmds) : cmds'[i] = cmds[i] /\ i \in 1 .. Len(cmds')
      BY <1>2, CmdsAppend DEF TypeOK
    <2>2. DOMAIN cmds' = 1 .. Len(cmds')
      BY <2>1, LenProperties
    <2> QED BY <1>1, <2>1, <2>2 DEF GrantInMailbox, CheckHwm, InFlight
  <1>3. CASE cmds' = cmds
    BY <1>3 DEF GrantInMailbox, CheckHwm, InFlight
  <1> QED BY <1>2, <1>3

\* And while others are taken.
LEMMA GrantTail ==
  ASSUME TypeOK, GrantInMailbox, UNCHANGED <<outGen, bytesWritten>>, cmds # <<>>,
         cmds' = Tail(cmds)
  PROVE  \/ GrantInMailbox'
         \/ /\ Head(cmds).type = "activate_write" /\ Head(cmds).gen = outGen
            /\ CheckHwm(Head(cmds).bytes)
  <1>1. /\ Head(cmds) = cmds[1] /\ Len(cmds') = Len(cmds) - 1 /\ Len(cmds) \in Nat \ {0}
        /\ cmds' \in Seq(Command)
        /\ \A i \in 1 .. Len(cmds') : cmds'[i] = cmds[i + 1] /\ i + 1 \in 1 .. Len(cmds)
    BY CmdsTail DEF TypeOK
  <1>2. DOMAIN cmds = 1 .. Len(cmds) /\ DOMAIN cmds' = 1 .. Len(cmds')
    BY <1>1, LenProperties DEF TypeOK
  <1>3. PICK i \in 1 .. Len(cmds) :
          cmds[i].type = "activate_write" /\ cmds[i].gen = outGen /\ CheckHwm(cmds[i].bytes)
    BY <1>2 DEF GrantInMailbox
  <1>4. CASE i = 1
    BY <1>1, <1>3, <1>4
  <1>5. CASE i # 1
    <2>1. i - 1 \in 1 .. Len(cmds') /\ (i - 1) + 1 = i
      BY <1>1, <1>5
    <2>2. cmds'[i - 1] = cmds[i]
      BY <1>1, <2>1
    <2> QED BY <1>2, <1>3, <2>1, <2>2 DEF GrantInMailbox, CheckHwm, InFlight
  <1> QED BY <1>4, <1>5

\* Every step keeps the credit on its way.
LEMMA CreditNext ==
  ASSUME IInv, [Next]_vars
  PROVE  CreditUnderWay'
  <1> DEFINE Blocked == inGen = 1 /\ wpc = "idle" /\ ~held /\ ~outActive
             Way == GrantInMailbox \/ ReaderWillLook
  <1> SUFFICES ASSUME Blocked' PROVE Way'
    BY DEF CreditUnderWay
  <1> USE DEF writerVars, flowVars, turnVars, readerVars, boundVars
  <1>0. /\ TypeOK /\ Books /\ TurnSteps /\ Flags /\ Counters /\ Queues /\ Steps /\ ReaderBooks
        /\ Ends
    BY TypeParts, BooksParts DEF IInv, Waiting
  <1>a. Blocked => Way
    BY DEF IInv, Waiting, CreditUnderWay
  <1>b. ASSUME Blocked, UNCHANGED <<outGen, bytesWritten>>,
               cmds' = cmds \/ \E c \in Command : cmds' = Append(cmds, c),
               ReaderWillLook => Way'
        PROVE  Way'
    <2>1. CASE GrantInMailbox
      <3>1. PICK c \in Command : c = ActivateWrite(0, 0)
        BY CommandsSent
      <3> QED BY <1>0, <1>b, <2>1, <3>1, GrantAppend
    <2> QED BY <1>a, <1>b, <2>1
  <1>c. ASSUME queue' # <<>> \/ rpc' = "publish" PROVE ReaderWillLook'
    BY <1>c DEF ReaderWillLook
  <1>1. ASSUME \/ \E n \in Size : Send(n)
               \/ ResendDone \/ Notify
               \/ \E p \in BOOLEAN : AcceptFlowState(p)
               \/ ReleaseCorrelation \/ UNCHANGED vars
        PROVE  Way'
    <2>1. Blocked /\ UNCHANGED <<outGen, bytesWritten, queue, rpc, seen, waiting>>
      BY <1>0, <1>1 DEF Send, ResendDone, Notify, AcceptFlowState, ReleaseCorrelation, vars
    <2>2. cmds' = cmds \/ \E c \in Command : cmds' = Append(cmds, c)
      <3>1. /\ ActivateWrite(outGen, peersRead) \in Command
            /\ \A p \in BOOLEAN : FlowState(p, record.epoch + 1) \in Command
        BY <1>0, CommandsSent, Epochs DEF Counters
      <3> QED BY <1>1, <3>1
             DEF Send, ResendDone, Notify, AcceptFlowState, ReleaseCorrelation, vars
    <2> QED BY <1>b, <2>1, <2>2 DEF ReaderWillLook
  <1>2. ASSUME TryAdmit PROVE Way'
    <2>1. wpc' # "idle" \/ outActive'
      BY <1>0, <1>2 DEF TryAdmit, Passed, Commit, Arm, TurnSteps
    <2> QED BY <2>1
  <1>3. ASSUME RecheckAdmit PROVE Way'
    <2>1. CASE Admits(wpc, peersRead')
      <3>1. outActive'
        BY <1>3, <2>1 DEF RecheckAdmit, ClearWait
      <3> QED BY <3>1
    <2>2. CASE ~Admits(wpc, peersRead')
      <3>1. ~Admits(wpc, Sampled(wpc)) /\ inGen = 1
        BY <1>3, <2>2 DEF RecheckAdmit
      <3>2. queue # <<>> \/ rpc = "publish"
        BY <1>0, <3>1, RefusalIsSeen
      <3>3. queue' = queue /\ rpc' = rpc
        BY <1>3, <2>2 DEF RecheckAdmit
      <3> QED BY <1>c, <3>2, <3>3
    <2> QED BY <2>1, <2>2
  <1>4. ASSUME ProcessActivateWrite PROVE Way'
    <2>1. /\ Blocked /\ UNCHANGED <<outGen, bytesWritten, queue, rpc, seen, waiting>>
          /\ cmds # <<>> /\ cmds' = Tail(cmds)
      BY <1>0, <1>4 DEF ProcessActivateWrite, Received, TurnIsFree, Flags
    <2>2. ~(Head(cmds).gen = outGen /\ CheckHwm(Head(cmds).bytes))
      BY <1>0, <1>4, <2>1 DEF ProcessActivateWrite, Flags
    <2>3. CASE GrantInMailbox
      BY <1>0, <2>1, <2>2, <2>3, GrantTail
    <2>4. CASE ReaderWillLook
      BY <2>1, <2>4 DEF ReaderWillLook
    <2> QED BY <1>a, <2>1, <2>3, <2>4
  <1>5. ASSUME TakeRecovery PROVE Way'
    <2>1. Blocked /\ UNCHANGED <<outGen, bytesWritten, queue, rpc, seen, cmds>>
      BY <1>0, <1>5 DEF TakeRecovery, Flags
    <2> QED BY <1>b, <2>1 DEF ReaderWillLook
  <1>6. ASSUME ProcessFlowState PROVE Way'
    <2>1. /\ Blocked /\ UNCHANGED <<outGen, bytesWritten, queue, rpc, seen, waiting>>
          /\ cmds # <<>> /\ cmds' = Tail(cmds) /\ Head(cmds).type = "flow_state"
      BY <1>0, <1>6 DEF ProcessFlowState, Received, TurnIsFree, Flags
    <2>2. CASE GrantInMailbox
      BY <1>0, <2>1, <2>2, GrantTail
    <2>3. CASE ReaderWillLook
      BY <2>1, <2>3 DEF ReaderWillLook
    <2> QED BY <1>a, <2>1, <2>2, <2>3
  <1>7. ASSUME RecheckResume \/ ReleaseHold PROVE Way'
    <2>1. /\ ~CheckHwm(Sampled(wpc)) /\ wpc \in {"resumed", "releaseArmed"} /\ inGen = 1
          /\ queue' = queue /\ rpc' = rpc
      BY <1>0, <1>7 DEF RecheckResume, ReleaseHold, ClearWait, Arm
    <2>2. ~Admits(wpc, Sampled(wpc))
      BY <2>1 DEF Admits
    <2>3. queue # <<>> \/ rpc = "publish"
      BY <1>0, <2>1, <2>2, RefusalIsSeen
    <2> QED BY <1>c, <2>1, <2>3
  <1>8. ASSUME PairReady \/ ProcessHiccup PROVE Way'
    <2>1. wpc' = "release" \/ outActive'
      BY <1>8 DEF PairReady, ProcessHiccup
    <2> QED BY <2>1
  <1>9. ASSUME Read PROVE Way'
    <2>1. /\ Blocked /\ UNCHANGED <<outGen, bytesWritten, cmds, waiting>>
          /\ rpc' = "publish"
      BY <1>9 DEF Read
    <2> QED BY <1>b, <1>c, <2>1
  <1>10. ASSUME PublishAndLook PROVE Way'
    <2>1. Blocked /\ UNCHANGED <<outGen, bytesWritten, cmds, waiting, queue, prefetched>>
      BY <1>10 DEF PublishAndLook
    <2>2. ReaderWillLook'
      <3>1. CASE rpc' = "second" \/ seen'
        BY <1>10, <3>1 DEF PublishAndLook, ReaderWillLook
      <3>2. CASE rpc' # "second" /\ ~seen'
        <4>1. prefetched # 0
          BY <1>10, <3>2 DEF PublishAndLook
        <4>2. Len(queue) # 0
          BY <1>0, <4>1, QueueBytes DEF TypeOK, Counters
        <4>3. queue # <<>>
          BY <4>2, EmptySeq
        <4> QED BY <1>c, <2>1, <4>3
      <3> QED BY <3>1, <3>2
    <2> QED BY <1>b, <2>1, <2>2
  <1>11. ASSUME SecondLook PROVE Way'
    <2>1. /\ Blocked /\ UNCHANGED <<outGen, bytesWritten, cmds, waiting, queue>>
          /\ rpc' = "decide" /\ seen' = waiting
      BY <1>11 DEF SecondLook
    <2>2. waiting
      BY <1>0, <2>1 DEF TurnSteps
    <2> QED BY <2>1, <2>2 DEF ReaderWillLook
  <1>12. ASSUME Decide PROVE Way'
    <2>0. /\ Blocked /\ UNCHANGED <<outGen, bytesWritten, waiting, queue>> /\ rpc = "decide"
          /\ inGen = 1 /\ outGen = inGen
      BY <1>0, <1>12 DEF Decide, ReaderBooks
    <2>1. PICK c \in Command : c = ActivateWrite(inGen, published)
      BY <1>0, CommandsSent DEF Counters
    <2>2. cmds' = cmds \/ cmds' = Append(cmds, c)
      BY <1>12, <2>1 DEF Decide
    <2>3. ASSUME ReaderWillLook PROVE Way'
      <3>1. CASE queue # <<>>
        BY <1>c, <2>0, <2>3, <3>1
      <3>2. CASE queue = <<>>
        <4>1. seen
          BY <2>0, <2>3, <3>2 DEF ReaderWillLook
        <4>2. prefetched = 0
          <5>1. Len(queue) = 0
            BY <3>2, EmptySeq
          <5> QED BY <1>0, <5>1 DEF TypeOK, Counters
        <4>3. cmds' = Append(cmds, c)
          BY <1>12, <2>1, <3>2, <4>1, <4>2 DEF Decide, Probes
        <4>4. CheckHwm(published)
          BY <1>0, <2>0, <3>2, NoRoomIsUnread
        <4>5. /\ Len(cmds') \in 1 .. Len(cmds') /\ cmds'[Len(cmds')] = c
              /\ cmds' \in Seq(Command)
          BY <1>0, <4>3, CmdsAppend DEF Queues
        <4>6. DOMAIN cmds' = 1 .. Len(cmds')
          BY <4>5, LenProperties
        <4>7. c.type = "activate_write" /\ c.gen = inGen /\ c.bytes = published
          BY <2>1 DEF ActivateWrite
        <4>8. GrantInMailbox'
          BY <2>0, <4>4, <4>5, <4>6, <4>7 DEF GrantInMailbox, CheckHwm, InFlight
        <4> QED BY <4>8
      <3> QED BY <3>1, <3>2
    <2> QED BY <1>b, <2>0, <2>2, <2>3
  <1>13. ASSUME Hiccup PROVE Way'
    <2>1. inGen' # 1
      BY <1>0, <1>13 DEF Hiccup, Ends, Counters
    <2> QED BY <2>1
  <1>14. ASSUME NEW n \in ControlSize, PutControl(n) PROVE Way'
    <2>1. n \in Size
      BY BoundsAssumption
    <2>2. queue' \in Seq(Frame) /\ Len(queue') = Len(queue) + 1 /\ Len(queue) \in Nat
      BY <1>0, <1>14, <2>1, Appended, FramesWritten, QueueBytes DEF PutControl
    <2>3. queue' # <<>>
      BY <2>2, EmptySeq
    <2> QED BY <1>c, <2>3
  <1>15. ASSUME Resync \/ \E n \in ControlSize : WriteControl(n) PROVE Way'
    <2>1. CASE \E n \in ControlSize : PutControl(n)
      BY <1>14, <2>1
    <2>2. CASE Resync /\ UNCHANGED <<queue, bytesWritten, controls>>
      <3>1. Blocked /\ UNCHANGED <<outGen, bytesWritten, queue, rpc, seen, cmds>>
        BY <2>2 DEF Resync
      <3> QED BY <1>b, <3>1 DEF ReaderWillLook
    <2> QED BY <1>15, <2>1, <2>2 DEF Resync, WriteControl
  <1> QED BY <1>1, <1>2, <1>3, <1>4, <1>5, <1>6, <1>7, <1>8, <1>9, <1>10, <1>11, <1>12, <1>13,
             <1>15
          DEF Next, Turn, Reader

-----------------------------------------------------------------------------
(* Theorems.                                                                *)

\* A new pipe.
LEMMA InitIInv == Init => IInv
  <1> SUFFICES ASSUME Init PROVE IInv
    OBVIOUS
  <1>1. queue \in Seq(Frame) /\ Len(queue) \in {0, 1}
    <2>1. CASE queue = <<>>
      BY <2>1, EmptySeq
    <2>2. CASE queue # <<>>
      <3>1. PICK n \in Size : queue = <<Control(n)>>
        BY <2>2, BoundsAssumption DEF Init
      <3> QED BY <3>1, FramesWritten
    <2> QED BY <2>1, <2>2
  <1>2. Bytes(queue) \in Nat
    BY <1>1, BytesType
  <1>3. cmds = <<>> /\ cmds \in Seq(Command) /\ Len(cmds) = 0
    BY EmptySeq DEF Init
  <1>4. Flags
    <2>1. held \in BOOLEAN
      BY DEF Init
    <2> QED BY <2>1, Zenon DEF Init, Flags
  <1>5. Counters /\ Steps /\ Queues /\ prefetched <= Len(queue)
    BY <1>1, <1>2, <1>3, BoundsAssumption DEF Init, Counters, Steps, Queues, AdmissionSteps
  <1>6. TypeOK
    BY <1>4, <1>5, TypeParts
  <1>7. Flow
    <2>1. \A i : i \notin 1 .. Len(cmds)
      BY <1>3
    <2>2. flowEpoch = 0 /\ record.epoch = 0 /\ paused = record.paused
      BY DEF Init
    <2> QED BY <2>1, <2>2 DEF Flow, FlowCommands, FlowUnderWay
  <1>8. Commands
    BY <1>3 DEF Commands
  <1>9. FitsWatermark(queue)
    BY <1>1 DEF FitsWatermark
  <1>10. Ends /\ ReaderBooks
    <2>1. /\ bytesWritten = Bytes(queue) /\ peersRead = 0 /\ outGen = 1 /\ inGen = 1
          /\ wpc = "idle" /\ ~resending /\ published = 0 /\ rpc = "idle" /\ unread = 0
      BY DEF Init
    <2>2. held => routed
      BY DEF Init
    <2>3. Ends
      BY <1>2, <1>9, <2>1, <2>2 DEF Ends, Earned
    <2> QED BY <1>2, <2>1, <2>3 DEF ReaderBooks
  <1>11. Books
    BY <1>8, <1>10, BooksParts
  <1>12. Waiting
    BY <1>4 DEF Init, Waiting, TurnSteps, SetAsideForReason, CreditUnderWay, Flags, Resyncing
  <1> QED BY <1>6, <1>7, <1>11, <1>12 DEF IInv

\* Every step of the writing end, of its peer and of the I/O threads keeps the
\* invariant.
LEMMA NextIInv == ASSUME IInv, [Next]_vars PROVE IInv'
  <1>1. TypeOK /\ Flow /\ Books /\ TurnSteps /\ SetAsideForReason
    BY DEF IInv, Waiting
  <1>2. TypeOK' /\ Flow' /\ Books'
    BY <1>1, TypesNext, FlowNext, BooksNext
  <1>3. TurnSteps' /\ SetAsideForReason' /\ CreditUnderWay'
    BY <1>1, TurnStepsNext, CreditNext
  <1> QED BY <1>2, <1>3 DEF IInv, Waiting

(***************************************************************************)
(* The inductive invariant always holds: flow state, byte counters and wait *)
(* markers of a pipe.                                                       *)
(***************************************************************************)
THEOREM Invariance == SafetySpec => []IInv
  <1>1. IInv /\ UNCHANGED vars => IInv'
    BY NextIInv
  <1> QED BY InitIInv, NextIInv, PTL DEF SafetySpec

(***************************************************************************)
(* Credit is neither invented nor lost: the writer never counts more as     *)
(* read than was read, every message behind another frame fits in the       *)
(* watermark with all the frames in front of it, however many WEIGHT and    *)
(* FLOWSTATE frames passed the watermark, and a pipe set aside for want of  *)
(* credit has its activation under way or is seen waiting (check_hwm,       *)
(* can_commit_bytes_unlocked, append_pending_peer_controls_unlocked,        *)
(* account_inbound_frame, process_activate_write).                          *)
(***************************************************************************)
THEOREM CreditIsKept == SafetySpec => []CreditIsExact
  <1>1. ASSUME IInv PROVE CreditIsExact
    <2>1. CreditIsEarned
      BY <1>1 DEF IInv, Books, WriterBooks, Earned, CreditIsEarned
    <2>2. NoLostCredit
      BY <1>1 DEF IInv, Waiting, TurnSteps, SetAsideForReason, CreditUnderWay, NoLostCredit
    <2> QED BY <2>1, <2>2 DEF CreditIsExact
  <1> QED BY <1>1, Invariance, PTL

(***************************************************************************)
(* A pipe with no FLOWSTATE command left is paused exactly when the latest  *)
(* accepted state says so (apply_remote_flow_state).                        *)
(***************************************************************************)
THEOREM PausesConverge == SafetySpec => []FlowConverges
  <1>1. ASSUME IInv PROVE FlowConverges
    <2>1. DOMAIN cmds = 1 .. Len(cmds)
      BY <1>1, LenProperties DEF IInv, TypeOK
    <2> QED BY <1>1, <2>1 DEF IInv, Flow, FlowUnderWay, IsFlow, Ready, FlowConverges
  <1> QED BY <1>1, Invariance, PTL
=============================================================================
