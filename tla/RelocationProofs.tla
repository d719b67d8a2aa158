-------------------------- MODULE RelocationProofs --------------------------
(***************************************************************************)
(* Proofs about the relocation of an object, for every number of records,   *)
(* relocations and faults, and for Spots and standalone Actors alike.       *)
(***************************************************************************)
EXTENDS Relocation, SequenceTheorems, TLAPS

\* Safety needs no fairness.
SafetySpec == Init /\ [][Next]_vars

Rec == 1..MaxRecords
Msg == [kind : {"prepare", "state", "data", "forward", "cutover"},
        a : Attempt, recs : Seq(Rec)]
Staging == [phase : {"none", "assembling", "restoring", "restored", "ready", "verified",
                     "committed", "open", "left"},
            saved : Seq(Rec), batch : Seq(Rec)]

\* The ranges of all variables.
SourceTypes ==
    /\ sphase \in {"serving", "followed", "stopped", "dead"} \cup Holding \cup PostBoundary
    /\ attempt \in 0..MaxAttempts /\ (sphase # "serving" => attempt # 0)
    /\ queue \in Seq(Rec) /\ frozen \in Seq(Rec) /\ boundary \in Seq(Rec) /\ batch \in Seq(Rec)
    /\ accepted \in 0..MaxRecords /\ ran \in Seq(Rec) /\ cut \in 0..MaxRecords
TargetTypes ==
    /\ att \in [Attempt -> Staging] /\ tobj \in 0..MaxAttempts
    /\ tqueue \in Seq(Rec) /\ theld \in Seq(Rec)
StoreTypes ==
    /\ row \in [owner : {"source", "target", "other", "none"}, gen : Nat, ver : Nat, by : Nat]
    /\ fence \in [Attempt -> Nat]
    /\ live \subseteq {"source", "target"}
Types == SourceTypes /\ TargetTypes /\ StoreTypes /\ net \in Seq(Msg)

\* The source is past the cutover, or gone: the row decides from here on.
Ended == {"settling", "followed", "stopped", "dead"}

\* The row leaves its first generation only by the target's CAS, and while the
\* source has its lease nobody reclaims it.
RowIsSource ==
    /\ row.gen >= SourceGeneration
    /\ row.gen = SourceGeneration =>
          /\ row.owner \in {"source", "none"}
          /\ "source" \in live => row.owner = "source"
    /\ sphase \notin Ended => row.gen = SourceGeneration /\ "source" \in live

\* A cutover of attempt a is on its way to the target.
CutoverSent(a) == \E i \in 1..Len(net) : net[i].kind = "cutover" /\ net[i].a = a

\* A cutover that is out, or was accepted by the target, belongs to a relocation
\* the source has not resumed from, or the row has moved past its fence.
CutoversAreFenced ==
    \A a \in Attempt :
        /\ fence[a] <= row.ver
        /\ CutoverSent(a) \/ Phase(a) = "verified" =>
              /\ a <= attempt
              /\ fence[a] < row.ver \/ (a = attempt /\ sphase \in Ended)

\* An opened target has, or had, the row: it is the one of the last relocation.
OpenedOwnsRow ==
    /\ \A a \in Attempt : Phase(a) \in {"committed", "open", "left"} =>
          row.gen > SourceGeneration /\ a = attempt
    /\ row.owner = "target" => row.by = attempt

Upto(n) == [i \in 1..n |-> i]

\* Until the row moves on, the accepted records are what ran, what is queued,
\* what the seal captured and what was held since, in this order.
SourceKeepsAll ==
    row.gen = SourceGeneration /\ sphase \notin {"followed", "stopped", "dead"} =>
        /\ ran \o queue \o frozen \o boundary = Upto(accepted)
        /\ sphase = "serving" => frozen = <<>> /\ boundary = <<>>
        /\ sphase # "serving" => queue = <<>>

Fencing == RowIsSource /\ CutoversAreFenced /\ OpenedOwnsRow

IInv == Types /\ Fencing /\ SourceKeepsAll
-----------------------------------------------------------------------------
(* The connection.                                                          *)

\* What a send leaves on the connection: the messages before, then the new ones.
LEMMA SendProperties ==
  ASSUME NEW ms \in Seq(Msg), net \in Seq(Msg), Send(ms)
  PROVE  /\ net' \in Seq(Msg) /\ Len(net') \in {Len(net), Len(net) + Len(ms)}
         /\ \A i \in 1..Len(net) : net'[i] = net[i]
         /\ \A i \in 1..Len(net') : i > Len(net) => net'[i] = ms[i - Len(net)]
  <1>1. CASE up
    BY <1>1, ConcatProperties DEF Send
  <1>2. CASE ~up
    BY <1>2 DEF Send
  <1> QED BY <1>1, <1>2

\* One message is one of the protocol's messages.
LEMMA MessageType ==
  ASSUME NEW k \in {"prepare", "state", "data", "forward", "cutover"},
         NEW recs \in Seq(Rec), attempt \in Attempt
  PROVE  Message(k, recs) \in Msg
  BY DEF Message, Msg

\* The relayed batch is one message for each record.
LEMMA BoundaryMessagesType ==
  ASSUME NEW b \in Seq(Rec), attempt \in Attempt
  PROVE  /\ BoundaryMessages(b) \in Seq(Msg) /\ Len(BoundaryMessages(b)) = Len(b)
         /\ \A i \in 1..Len(b) : /\ BoundaryMessages(b)[i] = Message("data", <<b[i]>>)
                                 /\ BoundaryMessages(b)[i].kind = "data"
                                 /\ BoundaryMessages(b)[i].a = attempt
  <1>1. \A i \in 1..Len(b) : Message("data", <<b[i]>>) \in Msg
    <2> TAKE i \in 1..Len(b)
    <2>1. <<b[i]>> \in Seq(Rec)
      BY ElementOfSeq
    <2> QED BY <2>1, MessageType
  <1>2. BoundaryMessages(b) \in [1..Len(b) -> Msg] /\ Len(b) \in Nat
    BY <1>1 DEF BoundaryMessages
  <1>3. BoundaryMessages(b) \in Seq(Msg)
    BY <1>2, SeqDef
  <1>4. Len(BoundaryMessages(b)) = Len(b)
    BY <1>2, <1>3, LenProperties
  <1>5. \A i \in 1..Len(b) : BoundaryMessages(b)[i] = Message("data", <<b[i]>>)
    BY DEF BoundaryMessages
  <1>6. \A x : Message("data", x).kind = "data" /\ Message("data", x).a = attempt
    BY DEF Message
  <1> QED BY <1>3, <1>4, <1>5, <1>6

\* What a handler takes from the connection.
LEMMA ReceiveProperties ==
  ASSUME NEW k, net \in Seq(Msg), Receive(k)
  PROVE  /\ net' \in Seq(Msg) /\ Len(net') = Len(net) - 1 /\ Len(net) > 0
         /\ Head(net) \in Msg /\ Head(net) = net[1] /\ Head(net).kind = k
         /\ \A i \in 1..Len(net') : net'[i] = net[i + 1]
  <1>1. net # <<>> /\ Head(net).kind = k /\ net' = Tail(net)
    BY DEF Receive
  <1> QED BY <1>1, HeadTailProperties, EmptySeq

\* A bounded sequence of the records 1, 2, ..., n.
LEMMA UptoProperties ==
  ASSUME NEW n \in 0..MaxRecords
  PROVE  /\ Upto(n) \in Seq(Rec) /\ Len(Upto(n)) = n
         /\ \A i \in 1..n : Upto(n)[i] = i
         /\ n < MaxRecords => Append(Upto(n), n + 1) = Upto(n + 1)
  <1> USE BoundsAssumption
  <1>1. \A m \in 0..MaxRecords : Upto(m) \in Seq(Rec) /\ Len(Upto(m)) = m
    <2> TAKE m \in 0..MaxRecords
    <2>1. Upto(m) \in [1..m -> Rec] /\ m \in Nat
      BY DEF Upto, Rec
    <2>2. Upto(m) \in Seq(Rec)
      BY <2>1, SeqDef
    <2> QED BY <2>1, <2>2, LenProperties
  <1>2. \A m \in 0..MaxRecords : \A i \in 1..m : Upto(m)[i] = i
    BY DEF Upto
  <1>3. ASSUME n < MaxRecords PROVE Append(Upto(n), n + 1) = Upto(n + 1)
    <2>1. n + 1 \in Rec /\ n + 1 \in 0..MaxRecords
      BY <1>3 DEF Rec
    <2>2. /\ Append(Upto(n), n + 1) \in Seq(Rec) /\ Len(Append(Upto(n), n + 1)) = n + 1
          /\ \A i \in 1..n : Append(Upto(n), n + 1)[i] = i
          /\ Append(Upto(n), n + 1)[n + 1] = n + 1
      BY <1>1, <1>2, <2>1, AppendProperties
    <2>3. \A i \in 1..n + 1 : Append(Upto(n), n + 1)[i] = Upto(n + 1)[i]
      BY <1>2, <2>1, <2>2
    <2> QED BY <1>1, <2>1, <2>2, <2>3, SeqEqual
  <1> QED BY <1>1, <1>2, <1>3
-----------------------------------------------------------------------------
(* The declared batch.                                                      *)

\* Reversing a sequence twice over: its elements, from the end.
LEMMA ReverseProperties ==
  ASSUME NEW S, NEW s \in Seq(S)
  PROVE  /\ Reverse(s) \in Seq(S) /\ Len(Reverse(s)) = Len(s)
         /\ \A i \in 1..Len(s) : Reverse(s)[i] = s[Len(s) - i + 1]
  <1>1. \A i \in 1..Len(s) : s[Len(s) - i + 1] \in S
    <2> TAKE i \in 1..Len(s)
    <2>1. Len(s) - i + 1 \in 1..Len(s)
      OBVIOUS
    <2> QED BY <2>1, ElementOfSeq
  <1>2. Reverse(s) \in [1..Len(s) -> S] /\ Len(s) \in Nat
    BY <1>1 DEF Reverse
  <1>3. Reverse(s) \in Seq(S)
    BY <1>2, SeqDef
  <1> QED BY <1>2, <1>3, LenProperties DEF Reverse

\* verify_relocation_cutover() accepts only a batch that ends the received one:
\* what it stages is then exactly the declared batch.
LEMMA MatchedSuffix ==
  ASSUME NEW r \in Seq(Rec), NEW d \in Seq(Rec), Matches(r, d)
  PROVE  /\ Len(d) <= Len(r)
         /\ SubSeq(r, Len(r) - Len(d) + 1, Len(r)) = d
  <1>1. /\ Len(d) <= Len(r)
        /\ SubSeq(Reverse(d), 1, Len(d)) = SubSeq(Reverse(r), 1, Len(d))
    <2>1. Len(Reverse(r)) = Len(r) /\ Len(Reverse(d)) = Len(d)
      BY ReverseProperties
    <2> QED BY <2>1 DEF Matches, IsSuffix, IsPrefix
  <1>2. \A j \in 1..Len(d) : d[Len(d) - j + 1] = r[Len(r) - j + 1]
    <2> TAKE j \in 1..Len(d)
    <2>1. /\ Reverse(d) \in Seq(Rec) /\ Reverse(r) \in Seq(Rec)
          /\ Len(Reverse(d)) = Len(d) /\ Len(Reverse(r)) = Len(r)
      BY ReverseProperties
    <2>2. \A i \in 1..Len(d) : Reverse(d)[i] \in Rec /\ Reverse(r)[i] \in Rec
      BY <1>1, <2>1, ElementOfSeq
    <2>3. 1 \in Int /\ Len(d) \in Int /\ j \in 1..Len(d) - 1 + 1
      OBVIOUS
    <2>4. SubSeq(Reverse(d), 1, Len(d))[j] = Reverse(d)[1 + j - 1]
      BY <2>2, <2>3, SubSeqProperties
    <2>5. SubSeq(Reverse(r), 1, Len(d))[j] = Reverse(r)[1 + j - 1]
      BY <2>2, <2>3, SubSeqProperties
    <2>6. Reverse(d)[j] = Reverse(r)[j]
      BY <1>1, <2>4, <2>5
    <2> QED BY <1>1, <2>6, ReverseProperties
  <1> DEFINE lo == Len(r) - Len(d) + 1
             t == SubSeq(r, lo, Len(r))
  <1>3. t \in Seq(Rec) /\ Len(t) = Len(d) /\ \A i \in 1..Len(d) : t[i] = r[lo + i - 1]
    <2>1. lo \in Int /\ Len(r) \in Int /\ Len(r) - lo + 1 = Len(d) /\ lo >= 1
      BY <1>1
    <2>2. \A i \in lo..Len(r) : r[i] \in Rec
      BY <2>1, ElementOfSeq
    <2>3. /\ t \in Seq(Rec) /\ Len(t) = IF lo <= Len(r) THEN Len(r) - lo + 1 ELSE 0
          /\ \A i \in 1..Len(r) - lo + 1 : t[i] = r[lo + i - 1]
      BY <2>1, <2>2, SubSeqProperties
    <2> QED BY <2>1, <2>3
  <1>4. \A i \in 1..Len(d) : t[i] = d[i]
    <2> TAKE i \in 1..Len(d)
    <2>1. Len(d) - i + 1 \in 1..Len(d)
      OBVIOUS
    <2>2. d[Len(d) - (Len(d) - i + 1) + 1] = r[Len(r) - (Len(d) - i + 1) + 1]
      BY <1>2, <2>1
    <2>3. Len(d) - (Len(d) - i + 1) + 1 = i /\ Len(r) - (Len(d) - i + 1) + 1 = lo + i - 1
      OBVIOUS
    <2> QED BY <1>3, <2>2, <2>3
  <1> HIDE DEF t
  <1>5. t = d
    BY <1>3, <1>4, SeqEqual
  <1> QED BY <1>1, <1>5 DEF t
-----------------------------------------------------------------------------
(* The ranges of the variables.                                             *)

\* Resuming and releasing leave the source's data in its range.
LEMMA ResumeTypes ==
  ASSUME SourceTypes, Resume \/ (\E p \in {"followed", "stopped", "dead"} : Release(p)),
         sphase # "serving", UNCHANGED <<accepted, ran, cut>>
  PROVE  SourceTypes'
  <1> USE DEF SourceTypes, Holding, PostBoundary
  <1>1. CASE Resume
    BY <1>1 DEF Resume, RestoredQueue
  <1>2. ASSUME NEW p \in {"followed", "stopped", "dead"}, Release(p) PROVE SourceTypes'
    BY <1>2 DEF Release
  <1> QED BY <1>1, <1>2

\* The steps of the source driver.
LEMMA SourceTypesStep == ASSUME Types, SourceStep PROVE Types'
  <1> USE BoundsAssumption DEF Types, source, link, store, target, history, Holding, PostBoundary
  <1>0. sphase # "serving" => attempt \in Attempt
    BY DEF SourceTypes, Attempt
  <1>1. CASE Seal
    <2>1. attempt \in Nat /\ attempt < MaxAttempts /\ attempt' = attempt + 1
      BY <1>1 DEF Seal, SourceTypes
    <2>2. attempt' \in 0..MaxAttempts /\ attempt' # 0
      BY <2>1
    <2>3. SourceTypes'
      BY <1>1, <2>2, EmptySeq DEF Seal, SourceTypes
    <2>4. row.ver \in Nat /\ fence \in [Attempt -> Nat] /\ fence' = [fence EXCEPT ![attempt'] = row.ver]
      BY <1>1 DEF Seal, StoreTypes
    <2>5. StoreTypes'
      BY <1>1, <2>4 DEF Seal, StoreTypes
    <2> QED BY <1>1, <2>3, <2>5 DEF Seal, TargetTypes
  <1>2. CASE EncodeFails \/ PrepareFails \/ SettlePreserved
    BY <1>2, ResumeTypes DEF EncodeFails, PrepareFails, SettlePreserved, TargetTypes, StoreTypes
  <1>3. CASE Prepare
    <2>1. <<Message("prepare", <<>>), Message("state", frozen)>> \in Seq(Msg)
      <3>1. Message("prepare", <<>>) \in Msg /\ Message("state", frozen) \in Msg
        BY <1>0, <1>3, MessageType, EmptySeq DEF Prepare, SourceTypes
      <3> QED BY <3>1
    <2> QED BY <1>3, <2>1, SendProperties DEF Prepare, SourceTypes, TargetTypes, StoreTypes
  <1>4. CASE PrepareReady \/ TakeBoundary \/ DeadlinePasses
    BY <1>4 DEF PrepareReady, TakeBoundary, DeadlinePasses, SourceTypes, TargetTypes, StoreTypes
  <1>5. CASE SendBoundary
    BY <1>0, <1>5, BoundaryMessagesType, SendProperties
       DEF SendBoundary, SourceTypes, TargetTypes, StoreTypes
  <1>6. CASE SendBoundaryFails
    <2>1. PICK n \in 0..Len(batch) : Send(SubSeq(BoundaryMessages(batch), 1, n))
      BY <1>6 DEF SendBoundaryFails
    <2>2. SubSeq(BoundaryMessages(batch), 1, n) \in Seq(Msg)
      <3>1. BoundaryMessages(batch) \in Seq(Msg) /\ Len(BoundaryMessages(batch)) = Len(batch)
        BY <1>0, <1>6, BoundaryMessagesType DEF SendBoundaryFails, SourceTypes
      <3>2. \A i \in 1..n : BoundaryMessages(batch)[i] \in Msg
        BY <3>1, ElementOfSeq
      <3>3. 1 \in Int /\ n \in Int
        OBVIOUS
      <3> QED BY <3>2, <3>3, SubSeqProperties
    <2> QED BY <1>6, <2>1, <2>2, SendProperties, ResumeTypes
            DEF SendBoundaryFails, TargetTypes, StoreTypes
  <1>7. CASE SendCutover
    <2>1. <<Message("cutover", batch)>> \in Seq(Msg)
      BY <1>0, <1>7, MessageType DEF SendCutover, SourceTypes
    <2> QED BY <1>7, <2>1, SendProperties DEF SendCutover, SourceTypes, TargetTypes, StoreTypes
  <1>8. CASE SettleCommitted \/ SettleExpired \/ SettleStopped
    BY <1>8, ResumeTypes DEF SettleCommitted, SettleExpired, SettleStopped, TargetTypes, StoreTypes
  <1>9. CASE Preserve
    <2>1. SourceTypes'
      BY <1>9, ResumeTypes DEF Preserve, Faulty, SourceTypes
    <2>2. StoreTypes'
      BY <1>9 DEF Preserve, PreserveWins, StoreTypes
    <2> QED BY <1>9, <2>1, <2>2 DEF Preserve, TargetTypes
  <1>10. CASE Resend
    <2>1. <<Message("cutover", batch)>> \in Seq(Msg)
      BY <1>0, <1>10, MessageType DEF Resend, SourceTypes
    <2>2. BoundaryMessages(batch) \o <<Message("cutover", batch)>> \in Seq(Msg)
      BY <1>0, <1>10, <2>1, BoundaryMessagesType, ConcatProperties DEF Resend, SourceTypes
    <2> QED BY <1>10, <2>2, SendProperties DEF Resend, SourceTypes, TargetTypes, StoreTypes
  <1> QED BY <1>1, <1>2, <1>3, <1>4, <1>5, <1>6, <1>7, <1>8, <1>9, <1>10 DEF SourceStep

\* The values a cleared variable takes.
LEMMA EmptyRecs == <<>> \in Seq(Rec) /\ 0 \in 0..MaxAttempts
  BY BoundsAssumption

\* A change of phase touches one staging, and its phase only.
LEMMA PhaseTypes ==
  ASSUME att \in [Attempt -> Staging], NEW a \in Attempt,
         NEW p \in {"none", "assembling", "restoring", "restored", "ready", "verified",
                    "committed", "open", "left"},
         SetPhase(a, p)
  PROVE  /\ att' \in [Attempt -> Staging] /\ att'[a].phase = p
         /\ att'[a].saved = att[a].saved /\ att'[a].batch = att[a].batch
         /\ \A b \in Attempt \ {a} : att'[b] = att[b]
  <1>1. att' = [att EXCEPT ![a] = [att[a] EXCEPT !.phase = p]]
    BY DEF SetPhase
  <1> QED BY <1>1 DEF Staging

\* A record that joins the batch of a staging leaves its phase alone.
LEMMA BatchUpdate ==
  ASSUME att \in [Attempt -> Staging], NEW a \in Attempt, NEW e,
         att' = [att EXCEPT ![a].batch = e]
  PROVE  \A b \in Attempt : att'[b].phase = att[b].phase /\ att'[b].saved = att[b].saved
  <1>1. att' = [att EXCEPT ![a] = [att[a] EXCEPT !.batch = e]]
    OBVIOUS
  <1> QED BY <1>1 DEF Staging

\* Two fields of a staging change at once when it is restored or verified.
LEMMA StagingUpdate ==
  ASSUME NEW r \in Staging
  PROVE  /\ [r EXCEPT !.phase = "verified", !.batch = <<>>] \in Staging
         /\ [r EXCEPT !.phase = "restored", !.saved = <<>>] \in Staging
  <1> DEFINE v == [r EXCEPT !.phase = "verified"]
             w == [r EXCEPT !.phase = "restored"]
  <1>1. v \in Staging /\ w \in Staging
    BY DEF Staging
  <1> HIDE DEF v, w
  <1>2. ASSUME NEW e \in Seq(Rec)
        PROVE  [v EXCEPT !.batch = e] \in Staging /\ [w EXCEPT !.saved = e] \in Staging
    BY <1>1 DEF Staging
  <1>3. [v EXCEPT !.batch = <<>>] \in Staging /\ [w EXCEPT !.saved = <<>>] \in Staging
    BY <1>2, EmptyRecs
  <1> QED BY <1>3 DEF v, w

\* An empty staging.
LEMMA NoAttemptType == NoAttempt \in Staging /\ NoAttempt.phase = "none"
  BY DEF NoAttempt, Staging

\* Dropping a staging.
LEMMA DiscardTypes ==
  ASSUME TargetTypes, NEW a \in Attempt, Discard(a)
  PROVE  /\ TargetTypes' /\ att'[a].phase = "none" /\ \A b \in Attempt \ {a} : att'[b] = att[b]
  <1>1. /\ att' \in [Attempt -> Staging] /\ att'[a].phase = "none"
        /\ \A b \in Attempt \ {a} : att'[b] = att[b]
    BY NoAttemptType DEF TargetTypes, Discard
  <1>2. tobj' \in {0, tobj} /\ tqueue' \in {<<>>, tqueue} /\ theld' \in {<<>>, theld}
    BY DEF Discard
  <1>3. tobj' \in 0..MaxAttempts /\ tqueue' \in Seq(Rec) /\ theld' \in Seq(Rec)
    BY <1>2, EmptyRecs DEF TargetTypes
  <1> QED BY <1>1, <1>3 DEF TargetTypes

\* The handlers and the polls of the target.
LEMMA TargetTypesStep == ASSUME Types, TargetStep PROVE Types'
  <1> USE BoundsAssumption DEF Types, source, link, store, target, history
  <1>0. ASSUME NEW k, Receive(k)
        PROVE  net' \in Seq(Msg) /\ Head(net).a \in Attempt /\ Head(net).recs \in Seq(Rec)
    BY <1>0, ReceiveProperties DEF Msg
  <1>1. CASE ReceivePrepare
    <2>1. att' \in [Attempt -> Staging]
      BY <1>0, <1>1, PhaseTypes DEF ReceivePrepare, TargetTypes
    <2> QED BY <1>0, <1>1, <2>1 DEF ReceivePrepare, SourceTypes, TargetTypes, StoreTypes
  <1>2. CASE ReceiveState
    <2>1. [phase |-> "restoring", saved |-> Head(net).recs, batch |-> <<>>] \in Staging
      BY <1>0, <1>2 DEF ReceiveState, Staging
    <2>2. att' \in [Attempt -> Staging]
      BY <1>0, <1>2, <2>1 DEF ReceiveState, TargetTypes
    <2> QED BY <1>0, <1>2, <2>2 DEF ReceiveState, SourceTypes, TargetTypes, StoreTypes
  <1>3. CASE ReceiveData
    <2> DEFINE m == Head(net)
    <2>1. m.a \in Attempt /\ m.recs \in Seq(Rec) /\ net' \in Seq(Msg)
      BY <1>0, <1>3 DEF ReceiveData
    <2>2. att' = att \/ att' = [att EXCEPT ![m.a].batch = @ \o m.recs]
      BY <1>3 DEF ReceiveData
    <2> HIDE DEF m
    <2>3. att' \in [Attempt -> Staging]
      <3>1. att[m.a] \in Staging /\ att[m.a].batch \o m.recs \in Seq(Rec)
        BY <2>1, ConcatProperties DEF TargetTypes, Staging
      <3>2. [att[m.a] EXCEPT !.batch = @ \o m.recs] \in Staging
        BY <3>1 DEF Staging
      <3> QED BY <2>1, <2>2, <3>2 DEF TargetTypes
    <2> QED BY <1>3, <2>1, <2>3 DEF ReceiveData, SourceTypes, TargetTypes, StoreTypes
  <1>4. CASE ReceiveForward
    <2> DEFINE recs == Head(net).recs
    <2>1. recs \in Seq(Rec) /\ net' \in Seq(Msg)
      BY <1>0, <1>4 DEF ReceiveForward
    <2>2. theld' \in {theld, theld \o recs} /\ tqueue' \in {tqueue, tqueue \o recs}
      BY <1>4 DEF ReceiveForward
    <2> HIDE DEF recs
    <2>3. theld' \in Seq(Rec) /\ tqueue' \in Seq(Rec)
      BY <2>1, <2>2, ConcatProperties DEF TargetTypes
    <2> QED BY <1>4, <2>1, <2>3 DEF ReceiveForward, SourceTypes, TargetTypes, StoreTypes
  <1>5. CASE ReceiveCutover
    <2> DEFINE m == Head(net)
    <2>0. m \in Msg /\ net' \in Seq(Msg)
      BY <1>5, ReceiveProperties DEF ReceiveCutover
    <2>1. CASE UNCHANGED <<att, tobj, tqueue, theld>>
      BY <1>5, <2>0, <2>1 DEF ReceiveCutover, SourceTypes, TargetTypes, StoreTypes
    <2>2. CASE /\ Matches(att[m.a].batch, m.recs)
               /\ att' = [att EXCEPT ![m.a].phase = "verified", ![m.a].batch = <<>>]
               /\ tqueue' = StagedQueue(att[m.a].batch, Len(m.recs))
               /\ UNCHANGED <<tobj, theld>>
      <3> DEFINE r == att[m.a].batch
      <3>1. r \in Seq(Rec) /\ m.recs \in Seq(Rec)
        BY <2>0 DEF Msg, TargetTypes, Staging
      <3>4. SubSeq(r, Len(r) - Len(m.recs) + 1, Len(r)) = m.recs
        BY <2>2, <3>1, MatchedSuffix
      <3>5. tqueue' \in Seq(Rec)
        BY <2>2, <3>1, <3>4, ConcatProperties DEF StagedQueue, TargetTypes
      <3>6. att' \in [Attempt -> Staging]
        <4>1. att' = [att EXCEPT ![m.a] = [att[m.a] EXCEPT !.phase = "verified", !.batch = <<>>]]
          BY <2>2
        <4>2. att[m.a] \in Staging
          BY <2>0 DEF Msg, TargetTypes
        <4>3. [att[m.a] EXCEPT !.phase = "verified", !.batch = <<>>] \in Staging
          BY <4>2, StagingUpdate
        <4> QED BY <4>1, <4>3 DEF TargetTypes
      <3> QED BY <1>5, <2>0, <2>2, <3>5, <3>6 DEF ReceiveCutover, SourceTypes, TargetTypes, StoreTypes
    <2>3. CASE Discard(m.a)
      <3>1. TargetTypes'
        BY <2>0, <2>3, DiscardTypes DEF Msg
      <3> QED BY <1>5, <2>0, <3>1 DEF ReceiveCutover, SourceTypes, StoreTypes
    <2> QED BY <1>5, <2>1, <2>2, <2>3 DEF ReceiveCutover
  <1>6. CASE SealTarget
    <2>1. att' \in [Attempt -> Staging]
      BY <1>6, NoAttemptType DEF SealTarget, TargetTypes
    <2>2. tobj' \in {0, tobj} /\ tqueue' \in {<<>>, tqueue} /\ theld' \in {<<>>, theld}
      BY <1>6 DEF SealTarget
    <2>3. TargetTypes'
      BY <2>1, <2>2, EmptyRecs, Zenon DEF TargetTypes
    <2> QED BY <1>6, <2>3 DEF SealTarget, SourceTypes, StoreTypes
  <1>7. CASE ServeAtTarget
    <2>1. Head(tqueue) \in Rec /\ Tail(tqueue) \in Seq(Rec)
      BY <1>7, HeadTailProperties DEF ServeAtTarget, TargetTypes
    <2> QED BY <1>7, <2>1 DEF ServeAtTarget, SourceTypes, TargetTypes, StoreTypes
  <1>8. ASSUME NEW a \in Attempt,
               AssemblyExpires(a) \/ SubmitReady(a) \/ Adopt(a) \/ Open(a)
        PROVE  Types'
    <2>1. att' \in [Attempt -> Staging]
      BY <1>8, PhaseTypes DEF AssemblyExpires, SubmitReady, Adopt, Open, TargetTypes
    <2>2. /\ tobj' = tobj /\ tqueue' \in {tqueue, tqueue \o theld} /\ theld' \in {<<>>, theld}
          /\ UNCHANGED <<source, link, store, fence, accepted, ran, cut>>
      BY <1>8 DEF AssemblyExpires, SubmitReady, Adopt, Open, OpenedQueue
    <2>3. TargetTypes'
      <3>1. tqueue \o theld \in Seq(Rec)
        BY ConcatProperties DEF TargetTypes
      <3> QED BY <2>1, <2>2, <3>1, EmptyRecs, Zenon DEF TargetTypes
    <2> QED BY <2>2, <2>3 DEF SourceTypes, StoreTypes
  <1>9. ASSUME NEW a \in Attempt, Restore(a) PROVE Types'
    <2>1. att' = [att EXCEPT ![a] = [att[a] EXCEPT !.phase = "restored", !.saved = <<>>]]
      BY <1>9 DEF Restore
    <2>2. att[a] \in Staging /\ att[a].saved \in Seq(Rec)
      BY DEF TargetTypes, Staging
    <2>3. att' \in [Attempt -> Staging]
      BY <2>1, <2>2, StagingUpdate DEF TargetTypes
    <2>4. TargetTypes'
      BY <1>9, <2>2, <2>3, EmptySeq DEF Restore, TargetTypes, Attempt
    <2> QED BY <1>9, <2>4 DEF Restore, SourceTypes, StoreTypes
  <1>10. ASSUME NEW a \in Attempt, RestoreFails(a) \/ DiscardExcluded(a) \/ OpenFails(a)
         PROVE  Types'
    BY <1>10, DiscardTypes DEF RestoreFails, DiscardExcluded, OpenFails, SourceTypes, StoreTypes
  <1>11. ASSUME NEW a \in Attempt, Publish(a) PROVE Types'
    <2>1. att' \in [Attempt -> Staging]
      BY <1>11, PhaseTypes DEF Publish, TargetTypes
    <2>2. StoreTypes'
      BY <1>11 DEF Publish, StoreTypes, Attempt
    <2> QED BY <1>11, <2>1, <2>2 DEF Publish, SourceTypes, TargetTypes
  <1> QED BY <1>1, <1>2, <1>3, <1>4, <1>5, <1>6, <1>7, <1>8, <1>9, <1>10, <1>11 DEF TargetStep

\* Faults, and what other nodes do to the row.
LEMMA FaultTypesStep == ASSUME Types, Fault PROVE Types'
  <1> USE BoundsAssumption DEF Types, source, link, store, target, history
  <1>1. CASE Break \/ Reconnect
    <2>1. net' \in {net, <<>>} /\ UNCHANGED <<source, store, fence, target, accepted, ran, cut>>
      BY <1>1 DEF Break, Reconnect
    <2>2. net' \in Seq(Msg)
      BY <2>1, EmptySeq
    <2> QED BY <2>1, <2>2 DEF SourceTypes, TargetTypes, StoreTypes
  <1>2. CASE SourceCrashes
    BY <1>2, ResumeTypes DEF SourceCrashes, TargetTypes, StoreTypes
  <1>3. CASE TargetCrashes
    <2>1. net' \in Seq(Msg)
      BY <1>3, EmptySeq DEF TargetCrashes
    <2>2. att' \in [Attempt -> Staging]
      BY <1>3, NoAttemptType DEF TargetCrashes
    <2>3. TargetTypes'
      BY <1>3, <2>2, EmptyRecs DEF TargetCrashes, TargetTypes
    <2> QED BY <1>3, <2>1, <2>3 DEF TargetCrashes, SourceTypes, StoreTypes
  <1>4. CASE Reclaim
    <2>1. StoreTypes'
      BY <1>4 DEF Reclaim, StoreTypes
    <2> QED BY <1>4, <2>1 DEF Reclaim, SourceTypes, TargetTypes
  <1>5. ASSUME NEW n \in {"source", "target"}, LeaseExpires(n) PROVE Types'
    BY <1>5 DEF LeaseExpires, SourceTypes, TargetTypes, StoreTypes
  <1>6. ASSUME NEW a \in Attempt, MoveOn(a) PROVE Types'
    <2>1. att' \in [Attempt -> Staging]
      BY <1>6, PhaseTypes DEF MoveOn, TargetTypes
    <2>2. TargetTypes'
      BY <1>6, <2>1, EmptyRecs DEF MoveOn, TargetTypes
    <2>3. StoreTypes'
      BY <1>6 DEF MoveOn, StoreTypes
    <2> QED BY <1>6, <2>2, <2>3 DEF MoveOn, SourceTypes
  <1> QED BY <1>1, <1>2, <1>3, <1>4, <1>5, <1>6 DEF Fault

\* Every step keeps every variable in its range.
LEMMA TypesStep == ASSUME Types, Next PROVE Types'
  <1> USE BoundsAssumption DEF Types, source, link, store, target, history
  <1>1. CASE Accept
    <2>1. accepted + 1 \in Rec /\ accepted' = accepted + 1 /\ accepted' \in 0..MaxRecords
      BY <1>1 DEF Accept, SourceTypes, Rec
    <2>2. queue' \in Seq(Rec) /\ boundary' \in Seq(Rec)
      <3>1. Append(queue, accepted') \in Seq(Rec) /\ Append(boundary, accepted') \in Seq(Rec)
        BY <2>1, AppendProperties DEF SourceTypes
      <3> QED BY <1>1, <3>1 DEF Accept, SourceTypes
    <2>3. net' \in Seq(Msg)
      <3>1. CASE net' = net
        BY <3>1
      <3>2. CASE sphase # "serving" /\ Send(<<Message("forward", <<accepted'>>)>>)
        <4>1. attempt \in Attempt
          BY <3>2 DEF SourceTypes, Attempt
        <4>2. <<accepted'>> \in Seq(Rec)
          BY <2>1
        <4>3. Message("forward", <<accepted'>>) \in Msg
          BY <4>1, <4>2, MessageType
        <4>4. <<Message("forward", <<accepted'>>)>> \in Seq(Msg)
          BY <4>3
        <4> QED BY <3>2, <4>4, SendProperties
      <3> QED BY <1>1, <3>1, <3>2 DEF Accept, Holding, PostBoundary
    <2> QED BY <1>1, <2>1, <2>2, <2>3 DEF Accept, SourceTypes, TargetTypes, StoreTypes
  <1>2. CASE ServeAtSource
    <2>1. Head(queue) \in Rec /\ Tail(queue) \in Seq(Rec)
      BY <1>2, HeadTailProperties DEF ServeAtSource, SourceTypes
    <2> QED BY <1>2, <2>1, AppendProperties DEF ServeAtSource, SourceTypes, TargetTypes, StoreTypes
  <1> QED BY <1>1, <1>2, SourceTypesStep, TargetTypesStep, FaultTypesStep DEF Next
-----------------------------------------------------------------------------
(* The fence.                                                               *)

\* A send without a cutover puts none on the connection; a receive leaves no
\* cutover there that was not there before.
LEMMA NoNewCutover ==
  ASSUME net \in Seq(Msg), NEW a,
         \/ \E k : Receive(k)
         \/ net' \in {net, <<>>}
         \/ \E ms \in Seq(Msg) : Send(ms) /\ \A i \in 1..Len(ms) : ms[i].kind # "cutover"
  PROVE  CutoverSent(a)' => CutoverSent(a)
  <1> SUFFICES ASSUME NEW i \in 1..Len(net'), net'[i].kind = "cutover", net'[i].a = a
               PROVE  CutoverSent(a)
    BY DEF CutoverSent
  <1>1. ASSUME NEW k, Receive(k) PROVE CutoverSent(a)
    <2>1. net'[i] = net[i + 1] /\ i + 1 \in 1..Len(net)
      BY <1>1, ReceiveProperties
    <2> QED BY <2>1 DEF CutoverSent
  <1>2. CASE net' \in {net, <<>>}
    BY <1>2 DEF CutoverSent
  <1>3. ASSUME NEW ms \in Seq(Msg), Send(ms), \A j \in 1..Len(ms) : ms[j].kind # "cutover"
        PROVE  CutoverSent(a)
    <2>1. CASE i \in 1..Len(net)
      BY <1>3, <2>1, SendProperties DEF CutoverSent
    <2>2. CASE i > Len(net)
      <3>1. net'[i] = ms[i - Len(net)] /\ i - Len(net) \in 1..Len(ms)
        BY <1>3, <2>2, SendProperties
      <3> QED BY <1>3, <3>1
    <2> QED BY <2>1, <2>2
  <1> QED BY <1>1, <1>2, <1>3

\* The cutover a handler receives was on the connection.
LEMMA ReceivedCutover ==
  ASSUME net \in Seq(Msg), Receive("cutover")
  PROVE  CutoverSent(Head(net).a)
  <1>1. 1 \in 1..Len(net) /\ Head(net) = net[1] /\ Head(net).kind = "cutover"
    BY ReceiveProperties
  <1> QED BY <1>1 DEF CutoverSent

\* A step that leaves the row, the fences and the leases alone, reopens no source
\* past its cutover, sends no cutover and verifies and opens no staging.
LEMMA QuietStep ==
  ASSUME Types, Fencing, UNCHANGED <<attempt, row, fence, live>>,
         sphase \in Ended => sphase' \in Ended,
         \A a : CutoverSent(a)' => CutoverSent(a),
         \A a \in Attempt : Phase(a)' \in {"verified", "committed", "open", "left"}
                              => Phase(a)' = Phase(a)
  PROVE  Fencing'
  <1>1. RowIsSource'
    BY DEF Fencing, RowIsSource
  <1>2. CutoversAreFenced'
    BY DEF Fencing, CutoversAreFenced
  <1>3. OpenedOwnsRow'
    BY DEF Fencing, OpenedOwnsRow
  <1> QED BY <1>1, <1>2, <1>3 DEF Fencing

\* The driver: it resumes before the cutover, or behind a row that has moved.
LEMMA SourceFencing == ASSUME Types, Fencing, SourceStep PROVE Fencing'
  <1> USE BoundsAssumption DEF source, link, store, target, history, Ended, SourceGeneration
  <1>0. sphase # "serving" => attempt \in Attempt
    BY DEF Types, SourceTypes, Attempt
  <1>t. net \in Seq(Msg) /\ Types'
    BY SourceTypesStep DEF Types
  <1>1. CASE Seal
    <2>1. attempt' = attempt + 1 /\ attempt' \in Attempt /\ UNCHANGED <<row, live, net, att>>
            /\ fence' = [fence EXCEPT ![attempt'] = row.ver]
      BY <1>1 DEF Seal, Types, SourceTypes, Attempt
    <2>2. sphase = "serving" /\ sphase' = "sealed"
      BY <1>1 DEF Seal
    <2>3. RowIsSource' /\ OpenedOwnsRow'
      BY <2>1, <2>2 DEF Fencing, RowIsSource, OpenedOwnsRow, Phase
    <2>4. ASSUME NEW a \in Attempt
          PROVE  /\ (fence[a] <= row.ver)'
                 /\ (CutoverSent(a) \/ Phase(a) = "verified")' =>
                      (a <= attempt /\ fence[a] < row.ver)'
      <3>1. /\ fence[a] <= row.ver
            /\ CutoverSent(a) \/ Phase(a) = "verified" => a <= attempt /\ fence[a] < row.ver
        BY <2>2 DEF Fencing, CutoversAreFenced
      <3>2. CutoverSent(a)' = CutoverSent(a) /\ Phase(a)' = Phase(a)
        BY <2>1 DEF CutoverSent, Phase
      <3>3. CASE a = attempt'
        <4>1. ~(CutoverSent(a) \/ Phase(a) = "verified")
          BY <2>1, <3>1, <3>3 DEF Types, SourceTypes, Attempt
        <4> QED BY <2>1, <3>2, <3>3, <4>1 DEF Types, StoreTypes
      <3>4. CASE a # attempt'
        BY <2>1, <3>1, <3>2, <3>4 DEF Types, StoreTypes, SourceTypes, Attempt
      <3> QED BY <3>3, <3>4
    <2> QED BY <2>3, <2>4 DEF Fencing, CutoversAreFenced
  <1>2. CASE EncodeFails \/ PrepareFails \/ PrepareReady \/ TakeBoundary \/ DeadlinePasses
               \/ SettleCommitted \/ SettleExpired \/ SettleStopped
    <2>1. UNCHANGED <<attempt, row, fence, live, net, att>> /\ (sphase \in Ended => sphase' \in Ended)
      BY <1>2 DEF EncodeFails, PrepareFails, PrepareReady, TakeBoundary, DeadlinePasses,
           SettleCommitted, SettleExpired, SettleStopped, Resume, Release
    <2> QED BY <1>t, <2>1, QuietStep, NoNewCutover DEF Phase
  <1>3. CASE Prepare \/ SendBoundary \/ SendBoundaryFails
    <2>1. UNCHANGED <<attempt, row, fence, live, att>> /\ sphase \notin Ended
      BY <1>3 DEF Prepare, SendBoundary, SendBoundaryFails, Resume
    <2>2. attempt \in Attempt /\ frozen \in Seq(Rec) /\ batch \in Seq(Rec)
      BY <1>0, <1>3 DEF Prepare, SendBoundary, SendBoundaryFails, Types, SourceTypes
    <2>3. \E ms \in Seq(Msg) : Send(ms) /\ \A i \in 1..Len(ms) : ms[i].kind # "cutover"
      <3>1. CASE Prepare
        <4> DEFINE ms == <<Message("prepare", <<>>), Message("state", frozen)>>
        <4>1. Message("prepare", <<>>) \in Msg /\ Message("state", frozen) \in Msg
          BY <2>2, MessageType, EmptyRecs
        <4>2. ms \in Seq(Msg) /\ \A i \in 1..Len(ms) : ms[i].kind # "cutover"
          BY <4>1 DEF Message
        <4> QED BY <3>1, <4>2 DEF Prepare
      <3>2. /\ BoundaryMessages(batch) \in Seq(Msg) /\ Len(BoundaryMessages(batch)) = Len(batch)
            /\ \A i \in 1..Len(batch) : BoundaryMessages(batch)[i].kind # "cutover"
        BY <2>2, BoundaryMessagesType
      <3>3. CASE SendBoundary
        BY <3>2, <3>3 DEF SendBoundary
      <3>4. CASE SendBoundaryFails
        <4>1. PICK n \in 0..Len(batch) : Send(SubSeq(BoundaryMessages(batch), 1, n))
          BY <3>4 DEF SendBoundaryFails
        <4>2. /\ \A i \in 1..n : BoundaryMessages(batch)[i] \in Msg
              /\ 1 \in Int /\ n \in Int /\ n - 1 + 1 = n
          BY <3>2, ElementOfSeq
        <4> DEFINE ms == SubSeq(BoundaryMessages(batch), 1, n)
        <4>3. /\ ms \in Seq(Msg) /\ Len(ms) = IF 1 <= n THEN n - 1 + 1 ELSE 0
              /\ \A i \in 1..n - 1 + 1 : ms[i] = BoundaryMessages(batch)[1 + i - 1]
          BY <4>2, SubSeqProperties
        <4>4. \A i \in 1..Len(ms) : ms[i].kind # "cutover"
          BY <3>2, <4>2, <4>3
        <4> QED BY <4>1, <4>3, <4>4
      <3> QED BY <1>3, <3>1, <3>3, <3>4
    <2> QED BY <1>t, <2>1, <2>3, QuietStep, NoNewCutover DEF Phase
  <1>4. CASE SendCutover \/ Resend
    <2>1. /\ UNCHANGED <<attempt, row, fence, live, att>> /\ sphase' = "settling"
          /\ attempt \in Attempt /\ batch \in Seq(Rec)
      BY <1>0, <1>4 DEF SendCutover, Resend, Types, SourceTypes
    <2>2. ASSUME NEW a, CutoverSent(a)' PROVE CutoverSent(a) \/ a = attempt
      <3>1. PICK ms \in Seq(Msg) : Send(ms) /\ \A j \in 1..Len(ms) : ms[j].a = attempt
        <4>1. Message("cutover", batch) \in Msg /\ Message("cutover", batch).a = attempt
          <5>1. Message("cutover", batch) \in Msg
            BY <2>1, MessageType
          <5>2. Message("cutover", batch).a = attempt
            BY DEF Message
          <5> QED BY <5>1, <5>2
        <4> DEFINE c == <<Message("cutover", batch)>>
        <4>c. c \in Seq(Msg) /\ Len(c) = 1 /\ c[1].a = attempt
          BY <4>1
        <4>2. CASE SendCutover
          <5>1. Send(c)
            BY <4>2 DEF SendCutover
          <5> HIDE DEF c
          <5> QED BY <4>c, <5>1
        <4>3. CASE Resend
          <5>1. c \in Seq(Msg) /\ Len(c) = 1 /\ c[1].a = attempt
            BY <4>c
          <5>2. /\ BoundaryMessages(batch) \in Seq(Msg) /\ Len(BoundaryMessages(batch)) = Len(batch)
                /\ \A i \in 1..Len(batch) : BoundaryMessages(batch)[i].a = attempt
            BY <2>1, BoundaryMessagesType
          <5>3. Send(BoundaryMessages(batch) \o c)
            BY <4>3 DEF Resend
          <5> HIDE DEF c
          <5> DEFINE b == BoundaryMessages(batch)
          <5>b. b \in Seq(Msg)
            BY <5>2
          <5> HIDE DEF b
          <5>4. /\ b \o c \in Seq(Msg) /\ Len(b \o c) = Len(b) + Len(c)
                /\ \A j \in 1..Len(b) + Len(c) :
                      (b \o c)[j] = IF j <= Len(b) THEN b[j] ELSE c[j - Len(b)]
            BY <5>1, <5>b, ConcatProperties
          <5>5. \A j \in 1..Len(b \o c) : (b \o c)[j].a = attempt
            BY <5>1, <5>2, <5>4 DEF b
          <5> QED BY <5>3, <5>4, <5>5 DEF b
        <4> QED BY <1>4, <4>2, <4>3
      <3>2. PICK i \in 1..Len(net') : net'[i].kind = "cutover" /\ net'[i].a = a
        BY <2>2 DEF CutoverSent
      <3>3. CASE i \in 1..Len(net)
        BY <1>t, <3>1, <3>2, <3>3, SendProperties DEF CutoverSent
      <3>4. CASE i > Len(net)
        <4>1. net'[i] = ms[i - Len(net)] /\ i - Len(net) \in 1..Len(ms)
          BY <1>t, <3>1, <3>4, SendProperties
        <4> QED BY <3>1, <3>2, <4>1
      <3> QED BY <1>t, <3>3, <3>4
    <2>3. RowIsSource' /\ OpenedOwnsRow'
      BY <2>1 DEF Fencing, RowIsSource, OpenedOwnsRow, Phase
    <2>4. CutoversAreFenced'
      BY <2>1, <2>2 DEF Fencing, CutoversAreFenced, Phase, Types, SourceTypes, Attempt
    <2> QED BY <2>3, <2>4 DEF Fencing
  <1>5. CASE SettlePreserved
    <2>1. /\ UNCHANGED <<attempt, row, fence, live, net, att>>
          /\ row.gen = SourceGeneration /\ "source" \in live
          /\ row.ver # fence[attempt] /\ attempt \in Attempt
      BY <1>0, <1>5 DEF SettlePreserved, SourceSettlement, Resume
    <2>2. RowIsSource' /\ OpenedOwnsRow'
      BY <2>1 DEF Fencing, RowIsSource, OpenedOwnsRow, Phase
    <2>3. fence[attempt] < row.ver
      BY <2>1 DEF Fencing, CutoversAreFenced, Types, StoreTypes
    <2>4. CutoversAreFenced'
      BY <2>1, <2>3 DEF Fencing, CutoversAreFenced, CutoverSent, Phase
    <2> QED BY <2>2, <2>4 DEF Fencing
  <1>6. CASE Preserve
    <2>1. /\ UNCHANGED <<attempt, fence, live, net, att>>
          /\ row.gen = SourceGeneration /\ "source" \in live /\ row.owner = "source"
          /\ row' = [row EXCEPT !.ver = @ + 1]
      BY <1>6 DEF Preserve, PreserveWins, SourceSettlement, Resume
    <2>2. row'.ver = row.ver + 1 /\ row'.gen = row.gen /\ row'.owner = row.owner
      BY <2>1 DEF Types, StoreTypes
    <2>3. RowIsSource' /\ OpenedOwnsRow'
      BY <2>1, <2>2 DEF Fencing, RowIsSource, OpenedOwnsRow, Phase
    <2>4. CutoversAreFenced'
      BY <2>1, <2>2 DEF Fencing, CutoversAreFenced, CutoverSent, Phase, Types, StoreTypes
    <2> QED BY <2>3, <2>4 DEF Fencing
  <1> QED BY <1>1, <1>2, <1>3, <1>4, <1>5, <1>6 DEF SourceStep

\* The target: it stages a cutover only of the relocation in progress, and its
\* CAS succeeds only on the version that relocation started from.
LEMMA TargetFencing == ASSUME Types, Fencing, TargetStep PROVE Fencing'
  <1> USE BoundsAssumption DEF source, link, store, target, history, Ended, SourceGeneration
  <1>t. net \in Seq(Msg) /\ att \in [Attempt -> Staging] /\ TargetTypes
    BY DEF Types, TargetTypes
  <1>1. CASE ReceivePrepare \/ ReceiveState \/ ReceiveData \/ ReceiveForward
    <2>1. UNCHANGED <<attempt, row, fence, live, sphase>> /\ \E k : Receive(k)
      BY <1>1 DEF ReceivePrepare, ReceiveState, ReceiveData, ReceiveForward
    <2>2. Head(net).a \in Attempt /\ Head(net).recs \in Seq(Rec)
      BY <1>t, <2>1, ReceiveProperties DEF Msg
    <2>3. \A a \in Attempt : Phase(a)' \in {Phase(a), "assembling", "restoring"}
      <3>1. CASE ReceivePrepare
        BY <1>t, <2>2, <3>1, PhaseTypes DEF ReceivePrepare, Phase
      <3>2. CASE ReceiveState
        BY <1>t, <2>2, <3>2 DEF ReceiveState, Phase
      <3>3. CASE ReceiveData
        <4> DEFINE m == Head(net)
        <4>1. att' = att \/ att' = [att EXCEPT ![m.a].batch = att[m.a].batch \o m.recs]
          BY <3>3 DEF ReceiveData
        <4>2. m.a \in Attempt
          BY <2>2
        <4> HIDE DEF m
        <4> QED BY <1>t, <4>1, <4>2, BatchUpdate DEF Phase
      <3>4. CASE ReceiveForward
        BY <3>4 DEF ReceiveForward, Phase
      <3> QED BY <1>1, <3>1, <3>2, <3>3, <3>4
    <2> QED BY <1>t, <2>1, <2>3, QuietStep, NoNewCutover
  <1>2. CASE ReceiveCutover
    <2> DEFINE m == Head(net)
    <2>1. /\ UNCHANGED <<attempt, row, fence, live, sphase>> /\ Receive("cutover")
          /\ m.a \in Attempt /\ CutoverSent(m.a)
      BY <1>2, <1>t, ReceiveProperties, ReceivedCutover DEF ReceiveCutover, Msg
    <2>2. \A a : CutoverSent(a)' => CutoverSent(a)
      BY <1>t, <2>1, NoNewCutover
    <2>3. \A a \in Attempt : \/ Phase(a)' = Phase(a) \/ Phase(a)' = "none"
                             \/ a = m.a /\ Phase(a)' = "verified"
      <3>1. CASE att' = att
        BY <3>1 DEF Phase
      <3>2. CASE att' = [att EXCEPT ![m.a].phase = "verified", ![m.a].batch = <<>>]
        <4>1. att' = [att EXCEPT ![m.a] = [att[m.a] EXCEPT !.phase = "verified", !.batch = <<>>]]
          BY <3>2
        <4> HIDE DEF m
        <4> QED BY <1>t, <2>1, <4>1 DEF Phase, Staging
      <3>3. CASE Discard(m.a)
        BY <1>t, <2>1, <3>3, DiscardTypes DEF Phase
      <3> QED BY <1>2, <3>1, <3>2, <3>3 DEF ReceiveCutover
    <2>4. RowIsSource' /\ OpenedOwnsRow'
      BY <2>1, <2>3 DEF Fencing, RowIsSource, OpenedOwnsRow
    <2>5. CutoversAreFenced'
      <3> HIDE DEF m
      <3> QED BY <2>1, <2>2, <2>3 DEF Fencing, CutoversAreFenced
    <2> QED BY <2>4, <2>5 DEF Fencing
  <1>3. CASE SealTarget \/ ServeAtTarget
    <2>1. UNCHANGED <<attempt, row, fence, live, sphase, net>>
      BY <1>3 DEF SealTarget, ServeAtTarget
    <2>2. \A a \in Attempt : Phase(a)' \in {Phase(a), "none"}
      BY <1>3, <1>t, NoAttemptType DEF SealTarget, ServeAtTarget, Phase
    <2> QED BY <1>t, <2>1, <2>2, QuietStep, NoNewCutover
  <1>4. ASSUME NEW a \in Attempt, AssemblyExpires(a) \/ Restore(a) \/ RestoreFails(a)
                 \/ SubmitReady(a) \/ DiscardExcluded(a) \/ OpenFails(a)
        PROVE  Fencing'
    <2>1. UNCHANGED <<attempt, row, fence, live, sphase, net>>
      BY <1>4 DEF AssemblyExpires, Restore, RestoreFails, SubmitReady, DiscardExcluded, OpenFails
    <2>2. \A b \in Attempt : Phase(b)' \in {Phase(b), "none", "restored", "ready"}
      <3>1. CASE Restore(a)
        <4>1. att' = [att EXCEPT ![a] = [att[a] EXCEPT !.phase = "restored", !.saved = <<>>]]
          BY <3>1 DEF Restore
        <4> QED BY <1>t, <4>1 DEF Phase, Staging
      <3>2. CASE AssemblyExpires(a) \/ SubmitReady(a)
        BY <1>t, <3>2, PhaseTypes DEF AssemblyExpires, SubmitReady, Phase
      <3>3. CASE RestoreFails(a) \/ DiscardExcluded(a) \/ OpenFails(a)
        BY <1>t, <3>3, DiscardTypes DEF RestoreFails, DiscardExcluded, OpenFails, Phase
      <3> QED BY <1>4, <3>1, <3>2, <3>3
    <2> QED BY <1>t, <2>1, <2>2, QuietStep, NoNewCutover
  <1>5. ASSUME NEW a \in Attempt, Publish(a) PROVE Fencing'
    <2>1. /\ UNCHANGED <<attempt, fence, live, sphase, net>>
          /\ Phase(a) = "verified" /\ row.ver = fence[a]
          /\ row'.owner = "target" /\ row'.gen = row.gen + 1 /\ row'.ver = row.ver + 1
          /\ row'.by = a
      BY <1>5 DEF Publish, Publishable
    <2>2. a = attempt /\ sphase \in Ended
      BY <2>1 DEF Fencing, CutoversAreFenced, Types, StoreTypes
    <2>3. \A b \in Attempt : Phase(b)' = Phase(b) \/ (b = a /\ Phase(b)' = "committed")
      BY <1>5, <1>t, PhaseTypes DEF Publish, Phase
    <2>4. RowIsSource' /\ OpenedOwnsRow'
      BY <2>1, <2>2, <2>3 DEF Fencing, RowIsSource, OpenedOwnsRow, Types, StoreTypes
    <2>5. CutoversAreFenced'
      BY <2>1, <2>2, <2>3 DEF Fencing, CutoversAreFenced, CutoverSent, Types, StoreTypes
    <2> QED BY <2>4, <2>5 DEF Fencing
  <1>6. ASSUME NEW a \in Attempt, Adopt(a) \/ Open(a) PROVE Fencing'
    <2>1. UNCHANGED <<attempt, row, fence, live, sphase, net>>
      BY <1>6 DEF Adopt, Open
    <2>2. \A b \in Attempt : Phase(b)' = Phase(b) \/ (b = a /\ Phase(b)' \in {"committed", "open"})
      BY <1>6, <1>t, PhaseTypes DEF Adopt, Open, Phase
    <2>3. row.gen > SourceGeneration /\ a = attempt
      BY <1>6 DEF Adopt, Adoptable, Open, Fencing, RowIsSource, OpenedOwnsRow, Types, StoreTypes
    <2>4. RowIsSource' /\ OpenedOwnsRow'
      BY <2>1, <2>2, <2>3 DEF Fencing, RowIsSource, OpenedOwnsRow
    <2>5. CutoversAreFenced'
      BY <2>1, <2>2 DEF Fencing, CutoversAreFenced, CutoverSent
    <2> QED BY <2>4, <2>5 DEF Fencing
  <1> QED BY <1>1, <1>2, <1>3, <1>4, <1>5, <1>6 DEF TargetStep

\* Faults, and the other nodes: the source keeps its row while it has its lease.
LEMMA FaultFencing == ASSUME Types, Fencing, Fault PROVE Fencing'
  <1> USE BoundsAssumption DEF source, link, store, target, history, Ended, SourceGeneration
  <1>t. net \in Seq(Msg) /\ att \in [Attempt -> Staging]
    BY DEF Types, TargetTypes
  <1>1. CASE Break \/ Reconnect \/ SourceCrashes \/ TargetCrashes
    <2>1. UNCHANGED <<attempt, row, fence, live>> /\ net' \in {net, <<>>}
            /\ (sphase \in Ended => sphase' \in Ended)
      BY <1>1 DEF Break, Reconnect, SourceCrashes, TargetCrashes, Release
    <2>2. \A a \in Attempt : Phase(a)' \in {Phase(a), "none"}
      BY <1>1, NoAttemptType DEF Break, Reconnect, SourceCrashes, TargetCrashes, Phase
    <2> QED BY <1>t, <2>1, <2>2, QuietStep, NoNewCutover
  <1>2. CASE Reclaim
    <2>1. /\ UNCHANGED <<attempt, fence, live, sphase, net, att>>
          /\ row'.owner = "none" /\ row'.gen = row.gen /\ row'.ver = row.ver
          /\ row.owner \notin live
      BY <1>2 DEF Reclaim, Types, StoreTypes
    <2>2. RowIsSource' /\ OpenedOwnsRow'
      BY <2>1 DEF Fencing, RowIsSource, OpenedOwnsRow, Phase
    <2>3. CutoversAreFenced'
      BY <2>1 DEF Fencing, CutoversAreFenced, CutoverSent, Phase
    <2> QED BY <2>2, <2>3 DEF Fencing
  <1>3. ASSUME NEW n \in {"source", "target"}, LeaseExpires(n) PROVE Fencing'
    <2>1. UNCHANGED <<attempt, fence, row, sphase, net, att>> /\ live' = live \ {n}
            /\ (n = "source" => sphase \in Ended)
      BY <1>3 DEF LeaseExpires
    <2>2. RowIsSource' /\ OpenedOwnsRow'
      BY <2>1 DEF Fencing, RowIsSource, OpenedOwnsRow, Phase
    <2>3. CutoversAreFenced'
      BY <2>1 DEF Fencing, CutoversAreFenced, CutoverSent, Phase
    <2> QED BY <2>2, <2>3 DEF Fencing
  <1>4. ASSUME NEW a \in Attempt, MoveOn(a) PROVE Fencing'
    <2>1. /\ UNCHANGED <<attempt, fence, live, sphase, net>>
          /\ Phase(a) = "open"
          /\ row'.owner = "other" /\ row'.gen = row.gen + 1 /\ row'.ver = row.ver + 1
      BY <1>4 DEF MoveOn
    <2>2. a = attempt /\ row.gen > SourceGeneration
      BY <2>1 DEF Fencing, OpenedOwnsRow
    <2>3. \A b \in Attempt : Phase(b)' = Phase(b) \/ (b = a /\ Phase(b)' = "left")
      BY <1>4, <1>t, PhaseTypes DEF MoveOn, Phase
    <2>4. RowIsSource' /\ OpenedOwnsRow'
      BY <2>1, <2>2, <2>3 DEF Fencing, RowIsSource, OpenedOwnsRow, Types, StoreTypes
    <2>5. CutoversAreFenced'
      BY <2>1, <2>2, <2>3 DEF Fencing, CutoversAreFenced, CutoverSent, Types, StoreTypes
    <2> QED BY <2>4, <2>5 DEF Fencing
  <1> QED BY <1>1, <1>2, <1>3, <1>4 DEF Fault
-----------------------------------------------------------------------------
(* The source keeps every record.                                           *)

\* Three queues one after the other.
LEMMA Regroup ==
  \A s, t, u \in Seq(Rec) : (s \o t) \o u = s \o (t \o u)
  BY ConcatAssociative

\* Four queues one after the other.
LEMMA RegroupMore ==
  \A s, t, u, v \in Seq(Rec) : s \o (t \o u \o v) = s \o t \o u \o v
  <1> TAKE s, t, u, v \in Seq(Rec)
  <1> DEFINE w == t \o u
  <1>1. w \in Seq(Rec)
    BY ConcatProperties
  <1>2. (s \o w) \o v = s \o (w \o v)
    <2> HIDE DEF w
    <2> QED BY <1>1, ConcatAssociative
  <1>3. (s \o t) \o u = s \o (t \o u)
    BY ConcatAssociative
  <1> QED BY <1>2, <1>3, Zenon

\* Appending to the last of two queues appends to both.
LEMMA ConcatAppend ==
  ASSUME NEW s \in Seq(Rec), NEW t \in Seq(Rec), NEW e \in Rec
  PROVE  s \o Append(t, e) = Append(s \o t, e)
  <1>1. <<e>> \in Seq(Rec) /\ s \o t \in Seq(Rec)
    BY ConcatProperties
  <1>2. Append(t, e) = t \o <<e>> /\ Append(s \o t, e) = (s \o t) \o <<e>>
    BY <1>1, AppendIsConcat
  <1> QED BY <1>1, <1>2, ConcatAssociative

\* try_claim() moves the head of the queue to what ran: together they stay the same.
LEMMA MoveHead ==
  ASSUME NEW s \in Seq(Rec), NEW t \in Seq(Rec), t # <<>>
  PROVE  Append(s, Head(t)) \o Tail(t) = s \o t
  <1>n. Len(s) \in Nat /\ Len(t) \in Nat
    BY LenProperties
  <1>1. /\ Head(t) \in Rec /\ Tail(t) \in Seq(Rec) /\ Len(Tail(t)) = Len(t) - 1 /\ Len(t) > 0
        /\ \A i \in 1..Len(Tail(t)) : Tail(t)[i] = t[i + 1]
        /\ Head(t) = t[1]
    BY HeadTailProperties, EmptySeq
  <1> DEFINE u == Append(s, Head(t))
  <1>2. /\ u \in Seq(Rec) /\ Len(u) = Len(s) + 1 /\ \A i \in 1..Len(s) : u[i] = s[i]
        /\ u[Len(s) + 1] = t[1]
    BY <1>1, AppendProperties
  <1> HIDE DEF u
  <1>3. /\ u \o Tail(t) \in Seq(Rec) /\ Len(u \o Tail(t)) = Len(u) + Len(Tail(t))
        /\ \A i \in 1..Len(u) + Len(Tail(t)) :
              (u \o Tail(t))[i] = IF i <= Len(u) THEN u[i] ELSE Tail(t)[i - Len(u)]
    BY <1>1, <1>2, ConcatProperties
  <1>4. /\ s \o t \in Seq(Rec) /\ Len(s \o t) = Len(s) + Len(t)
        /\ \A i \in 1..Len(s) + Len(t) : (s \o t)[i] = IF i <= Len(s) THEN s[i] ELSE t[i - Len(s)]
    BY ConcatProperties
  <1>5. \A i \in 1..Len(s) + Len(t) : (u \o Tail(t))[i] = (s \o t)[i]
    <2> TAKE i \in 1..Len(s) + Len(t)
    <2>1. CASE i <= Len(s)
      BY <1>1, <1>2, <1>3, <1>4, <2>1
    <2>2. CASE i = Len(s) + 1
      BY <1>1, <1>2, <1>3, <1>4, <2>2
    <2>3. CASE i > Len(s) + 1
      <3>1. i - Len(u) \in 1..Len(Tail(t)) /\ i - Len(u) + 1 = i - Len(s) /\ i > Len(u)
        BY <1>1, <1>2, <2>3
      <3> QED BY <1>1, <1>2, <1>3, <1>4, <2>3, <3>1
    <2>4. i <= Len(s) \/ i = Len(s) + 1 \/ i > Len(s) + 1
      BY <1>n
    <2> QED BY <2>1, <2>2, <2>3, <2>4, Zenon
  <1>6. Len(u \o Tail(t)) = Len(s \o t)
    BY <1>1, <1>2, <1>3, <1>4
  <1>7. u \o Tail(t) = s \o t
    BY <1>3, <1>4, <1>5, <1>6, SeqEqual
  <1> QED BY <1>7 DEF u

\* abort_relocation_before_cutover() puts the captured and the held records back.
LEMMA ResumeKeepsAll ==
  ASSUME Types, SourceKeepsAll, Resume, sphase \in {"sealed", "awaiting", "boundary", "settling"},
         row.gen = SourceGeneration, UNCHANGED <<ran, accepted>>
  PROVE  SourceKeepsAll'
  <1>1. ran \in Seq(Rec) /\ queue \in Seq(Rec) /\ frozen \in Seq(Rec) /\ boundary \in Seq(Rec)
    BY DEF Types, SourceTypes
  <1>2. ran \o queue \o frozen \o boundary = Upto(accepted)
    BY DEF SourceKeepsAll
  <1>3. ran \o (queue \o frozen \o boundary) = ran \o queue \o frozen \o boundary
    <2>1. \A u, v \in Seq(Rec) : ran \o (queue \o u \o v) = ran \o queue \o u \o v
      BY <1>1, RegroupMore, Zenon
    <2> QED BY <1>1, <2>1, Zenon
  <1>4. queue' = queue \o frozen \o boundary /\ frozen' = <<>> /\ boundary' = <<>>
          /\ sphase' = "serving" /\ ran' = ran /\ accepted' = accepted
    BY DEF Resume, RestoredQueue
  <1>5. ran \o queue' \in Seq(Rec)
    BY <1>1, <1>4, ConcatProperties
  <1>6. ran' \o queue' \o frozen' \o boundary' = Upto(accepted)
    BY <1>2, <1>3, <1>4, <1>5, ConcatEmptySeq
  <1> QED BY <1>4, <1>6 DEF SourceKeepsAll, Upto

\* Every step keeps the records, until the row has moved on.
LEMMA KeepsAllStep == ASSUME Types, Fencing, SourceKeepsAll, Next PROVE SourceKeepsAll'
  <1> USE DEF source, link, store, target, history, SourceGeneration
  <1>t. /\ ran \in Seq(Rec) /\ queue \in Seq(Rec) /\ frozen \in Seq(Rec) /\ boundary \in Seq(Rec)
        /\ accepted \in 0..MaxRecords /\ row.gen \in Nat /\ row.gen >= 1
    BY DEF Types, SourceTypes, StoreTypes, Fencing, RowIsSource
  <1>q. ASSUME UNCHANGED <<ran, queue, frozen, boundary, accepted>>,
               row'.gen = 1 => row.gen = 1,
               \/ sphase' \in {"followed", "stopped", "dead"}
               \/ sphase' = sphase
               \/ {sphase, sphase'} \subseteq Holding \cup PostBoundary
        PROVE  SourceKeepsAll'
    BY <1>q DEF SourceKeepsAll, Upto, Holding, PostBoundary
  <1>1. CASE Accept
    <2>1. SUFFICES ASSUME row.gen = 1, sphase \notin {"followed", "stopped", "dead"}
                   PROVE  SourceKeepsAll'
      BY <1>1 DEF Accept, SourceKeepsAll
    <2>2. /\ accepted' = accepted + 1 /\ accepted' \in Rec /\ accepted < MaxRecords
          /\ UNCHANGED <<ran, frozen, sphase, row>>
      BY <1>1, <1>t, BoundsAssumption DEF Accept, Rec
    <2>3. Append(Upto(accepted), accepted') = Upto(accepted')
      BY <1>t, <2>2, UptoProperties
    <2>4. ran \o queue \o frozen \o boundary = Upto(accepted)
      BY <2>1 DEF SourceKeepsAll
    <2>5. ran \o queue \in Seq(Rec) /\ ran \o queue \o frozen \in Seq(Rec)
      BY <1>t, ConcatProperties
    <2>6. CASE sphase = "serving"
      <3>1. frozen = <<>> /\ boundary = <<>> /\ boundary' = boundary
              /\ queue' = Append(queue, accepted')
        BY <1>1, <2>1, <2>6 DEF Accept, SourceKeepsAll, Holding, PostBoundary
      <3>2. ran \o queue = Upto(accepted)
        BY <2>4, <2>5, <3>1, ConcatEmptySeq
      <3>3. ran \o queue' = Upto(accepted')
        <4>1. ran \o Append(queue, accepted') = Append(ran \o queue, accepted')
          BY <1>t, <2>2, ConcatAppend
        <4> QED BY <2>3, <3>1, <3>2, <4>1
      <3>4. ran \o queue' \in Seq(Rec)
        BY <1>t, <2>2, <3>1, AppendProperties, ConcatProperties
      <3>5. ran \o queue' \o <<>> \o <<>> = Upto(accepted')
        BY <3>3, <3>4, ConcatEmptySeq
      <3> QED BY <2>2, <2>6, <3>1, <3>5 DEF SourceKeepsAll, Upto
    <2>7. CASE sphase # "serving"
      <3>1. queue' = queue /\ boundary' = Append(boundary, accepted')
        BY <1>1, <2>1, <2>7 DEF Accept
      <3>2. ran \o queue \o frozen \o boundary' = Upto(accepted')
        <4>1. (ran \o queue \o frozen) \o Append(boundary, accepted')
                = Append(ran \o queue \o frozen \o boundary, accepted')
          BY <1>t, <2>2, <2>5, ConcatAppend
        <4> QED BY <2>3, <2>4, <3>1, <4>1
      <3> QED BY <2>1, <2>2, <2>7, <3>1, <3>2 DEF SourceKeepsAll, Upto
    <2> QED BY <2>6, <2>7
  <1>2. CASE ServeAtSource
    <2>1. /\ ran' \o queue' = ran \o queue /\ UNCHANGED <<frozen, boundary, accepted, sphase, row>>
          /\ sphase = "serving"
      BY <1>2, <1>t, MoveHead DEF ServeAtSource
    <2> QED BY <2>1 DEF SourceKeepsAll, Upto
  <1>3. CASE SourceStep
    <2>1. CASE Seal
      <3>1. /\ sphase = "serving" /\ sphase' = "sealed" /\ queue' = <<>> /\ frozen' = queue
            /\ boundary' = <<>> /\ UNCHANGED <<ran, accepted, row>>
        BY <2>1 DEF Seal
      <3>2. ASSUME row.gen = 1 PROVE ran \o <<>> \o queue \o <<>> = Upto(accepted)
        <4>1. ran \o queue \o <<>> \o <<>> = Upto(accepted)
          BY <3>1, <3>2 DEF SourceKeepsAll
        <4>2. ran \o queue \in Seq(Rec)
          BY <1>t, ConcatProperties
        <4> QED BY <1>t, <4>1, <4>2, ConcatEmptySeq
      <3> QED BY <3>1, <3>2 DEF SourceKeepsAll, Upto
    <2>2. CASE EncodeFails \/ PrepareFails \/ SendBoundaryFails \/ SettlePreserved
                 \/ (Preserve /\ Resume)
      <3>1. /\ Resume /\ UNCHANGED <<ran, accepted>>
            /\ sphase \in {"sealed", "awaiting", "boundary", "settling"}
        BY <2>2 DEF EncodeFails, PrepareFails, SendBoundaryFails, SettlePreserved, Preserve
      <3>2. row.gen = 1
        BY <2>2 DEF EncodeFails, PrepareFails, SendBoundaryFails, SettlePreserved, Preserve,
             SourceSettlement, Fencing, RowIsSource, Ended
      <3> QED BY <3>1, <3>2, ResumeKeepsAll
    <2>3. CASE Preserve /\ ~Resume
      <3>1. UNCHANGED <<ran, queue, frozen, boundary, accepted, sphase>>
        BY <2>3 DEF Preserve
      <3>2. row'.gen = row.gen
        BY <2>3 DEF Preserve, PreserveWins, Types, StoreTypes
      <3> QED BY <1>q, <3>1, <3>2
    <2>4. CASE Prepare \/ PrepareReady \/ TakeBoundary \/ SendBoundary \/ SendCutover \/ Resend
                 \/ DeadlinePasses
      <3>1. /\ UNCHANGED <<ran, queue, frozen, boundary, accepted, row>>
            /\ {sphase, sphase'} \subseteq Holding \cup PostBoundary
        BY <2>4 DEF Prepare, PrepareReady, TakeBoundary, SendBoundary, SendCutover, Resend,
             DeadlinePasses, Holding, PostBoundary
      <3> QED BY <1>q, <3>1
    <2>5. CASE SettleCommitted \/ SettleExpired \/ SettleStopped
      BY <2>5 DEF SettleCommitted, SettleExpired, SettleStopped, Release, SourceKeepsAll
    <2> QED BY <1>3, <2>1, <2>2, <2>3, <2>4, <2>5 DEF SourceStep
  <1>4. CASE TargetStep
    <2>1. CASE ServeAtTarget
      <3>1. row.gen > 1 /\ row' = row
        BY <2>1 DEF ServeAtTarget, Types, TargetTypes, Attempt, Fencing, OpenedOwnsRow
      <3> QED BY <1>t, <3>1 DEF SourceKeepsAll
    <2>2. ASSUME NEW a \in Attempt, Publish(a) PROVE SourceKeepsAll'
      <3>1. UNCHANGED <<ran, queue, frozen, boundary, accepted, sphase>> /\ row'.gen = row.gen + 1
        BY <2>2 DEF Publish
      <3> QED BY <1>t, <1>q, <3>1
    <2>3. CASE UNCHANGED <<ran, queue, frozen, boundary, accepted, sphase, row>>
      BY <1>q, <2>3
    <2> QED BY <1>4, <2>1, <2>2, <2>3 DEF TargetStep, ReceivePrepare, ReceiveState, ReceiveData,
               ReceiveForward, ReceiveCutover, SealTarget, AssemblyExpires, Restore, RestoreFails,
               SubmitReady, Adopt, DiscardExcluded, Open, OpenFails
  <1>5. CASE Fault
    <2>1. CASE SourceCrashes
      BY <2>1 DEF SourceCrashes, Release, SourceKeepsAll
    <2>2. CASE Break \/ Reconnect \/ TargetCrashes \/ (\E n \in {"source", "target"} : LeaseExpires(n))
      <3>1. UNCHANGED <<ran, queue, frozen, boundary, accepted, sphase, row>>
        BY <2>2 DEF Break, Reconnect, TargetCrashes, LeaseExpires
      <3> QED BY <1>q, <3>1
    <2>3. CASE Reclaim \/ (\E a \in Attempt : MoveOn(a))
      <3>1. UNCHANGED <<ran, queue, frozen, boundary, accepted, sphase>>
        BY <2>3 DEF Reclaim, MoveOn
      <3>2. row'.gen \in {row.gen, row.gen + 1}
        BY <2>3 DEF Reclaim, MoveOn, Types, StoreTypes
      <3> QED BY <1>t, <1>q, <3>1, <3>2
    <2> QED BY <1>5, <2>1, <2>2, <2>3 DEF Fault
  <1> QED BY <1>1, <1>2, <1>3, <1>4, <1>5 DEF Next
-----------------------------------------------------------------------------
(* The inductive invariant, and what follows from it.                       *)

\* A freshly started pair of nodes.
LEMMA InitIInv == ASSUME Init PROVE IInv
  <1> USE BoundsAssumption DEF Init
  <1>1. SourceTypes
    BY EmptyRecs DEF SourceTypes, Holding, PostBoundary
  <1>2. TargetTypes
    BY EmptyRecs, NoAttemptType DEF TargetTypes
  <1>3. StoreTypes
    BY DEF StoreTypes, SourceGeneration
  <1>4. net \in Seq(Msg)
    OBVIOUS
  <1>5. Len(net) = 0
    BY EmptySeq
  <1>6. \A a \in Attempt : Phase(a) = "none" /\ ~CutoverSent(a) /\ fence[a] = 0
    BY <1>5, NoAttemptType DEF Phase, CutoverSent
  <1>7. Fencing
    BY <1>6 DEF Fencing, RowIsSource, CutoversAreFenced, OpenedOwnsRow, SourceGeneration
  <1>8. SourceKeepsAll
    <2>1. Upto(0) \in Seq(Rec) /\ Len(Upto(0)) = 0
      BY UptoProperties
    <2>2. Upto(0) = <<>>
      BY <2>1, EmptySeq
    <2>3. ran \o queue \o frozen \o boundary = <<>>
      BY EmptyRecs, ConcatEmptySeq
    <2> QED BY <2>2, <2>3 DEF SourceKeepsAll
  <1> QED BY <1>1, <1>2, <1>3, <1>4, <1>7, <1>8 DEF IInv, Types

\* Every step keeps the invariant.
LEMMA NextIInv == ASSUME IInv, [Next]_vars PROVE IInv'
  <1> USE DEF IInv
  <1>1. CASE Next
    <2>1. Types' /\ SourceKeepsAll'
      BY <1>1, TypesStep, KeepsAllStep
    <2>2. CASE SourceStep \/ TargetStep \/ Fault
      BY <2>1, <2>2, SourceFencing, TargetFencing, FaultFencing
    <2>3. CASE Accept
      <3>1. /\ UNCHANGED <<attempt, row, fence, live, sphase, att>>
            /\ \/ net' = net
               \/ sphase # "serving" /\ Send(<<Message("forward", <<accepted'>>)>>)
        BY <2>3 DEF Accept, store, target, PostBoundary
      <3>2. \A a : CutoverSent(a)' => CutoverSent(a)
        <4>1. CASE net' = net
          BY <4>1 DEF CutoverSent
        <4>2. CASE sphase # "serving" /\ Send(<<Message("forward", <<accepted'>>)>>)
          <5>1. attempt \in Attempt /\ net \in Seq(Msg) /\ accepted' \in Rec
            BY <2>3, <4>2, BoundsAssumption DEF Types, SourceTypes, Attempt, Accept, Rec
          <5>2. Message("forward", <<accepted'>>) \in Msg
            <6>1. <<accepted'>> \in Seq(Rec)
              BY <5>1
            <6> QED BY <5>1, <6>1, MessageType
          <5>3. Message("forward", <<accepted'>>).kind # "cutover"
            BY DEF Message
          <5> DEFINE ms == <<Message("forward", <<accepted'>>)>>
          <5>4. ms \in Seq(Msg) /\ \A i \in 1..Len(ms) : ms[i].kind # "cutover"
            BY <5>2, <5>3
          <5>5. Send(ms)
            BY <4>2
          <5> HIDE DEF ms
          <5>6. \E x \in Seq(Msg) : Send(x) /\ \A i \in 1..Len(x) : x[i].kind # "cutover"
            BY <5>4, <5>5
          <5> QED BY <5>1, <5>6, NoNewCutover
        <4> QED BY <3>1, <4>1, <4>2
      <3> QED BY <3>1, <3>2, <2>1, QuietStep DEF Phase
    <2>4. CASE ServeAtSource
      <3>1. UNCHANGED <<attempt, row, fence, live, sphase, att, net>>
        BY <2>4 DEF ServeAtSource, store, target, link
      <3> QED BY <3>1, <2>1, QuietStep DEF Phase, CutoverSent
    <2> QED BY <1>1, <2>1, <2>2, <2>3, <2>4 DEF Next
  <1>2. CASE UNCHANGED vars
    <2> USE <1>2 DEF vars, source, link, store, target, history
    <2>1. Types'
      BY DEF Types, SourceTypes, TargetTypes, StoreTypes
    <2>2. Fencing'
      BY DEF Fencing, RowIsSource, CutoversAreFenced, CutoverSent, OpenedOwnsRow, Phase
    <2>3. SourceKeepsAll'
      BY DEF SourceKeepsAll, Upto
    <2> QED BY <2>1, <2>2, <2>3
  <1> QED BY <1>1, <1>2

\* What holds in every reachable state.
THEOREM Invariance == SafetySpec => []IInv
  <1>1. Init => IInv
    BY InitIInv
  <1>2. IInv /\ [Next]_vars => IInv'
    BY NextIInv
  <1> QED BY <1>1, <1>2, PTL DEF SafetySpec

\* The object never dispatches on both nodes (OneDispatcher).  The source serves
\* only in the row's first generation, and a target commits only beyond it.
THEOREM ObjectHasOneDispatcher == SafetySpec => []OneDispatcher
  <1>1. IInv => OneDispatcher
    <2> SUFFICES ASSUME IInv, sphase = "serving"
                 PROVE  /\ ~TargetOpen /\ (\A a \in Attempt : Phase(a) # "committed")
                        /\ row.owner = "source"
      BY DEF OneDispatcher
    <2>1. row.gen = SourceGeneration /\ "source" \in live /\ row.owner = "source"
      BY DEF IInv, Fencing, RowIsSource, Ended
    <2>2. \A a \in Attempt : Phase(a) \notin {"committed", "open"}
      BY <2>1 DEF IInv, Fencing, OpenedOwnsRow, SourceGeneration
    <2> QED BY <2>1, <2>2 DEF TargetOpen
  <1> QED BY <1>1, Invariance, PTL

\* A source that resumes has lost and reordered nothing (ResumesWhole), and the
\* variables stay in their ranges: abort_relocation_before_cutover() returns
\* everything captured and held to the queue.
THEOREM ResumedSourceIsWhole == SafetySpec => [](TypeOK /\ ResumesWhole)
  <1>1. IInv => TypeOK
    <2> SUFFICES ASSUME IInv PROVE TypeOK
      OBVIOUS
    <2>1. /\ queue \in Seq(Rec) /\ frozen \in Seq(Rec) /\ boundary \in Seq(Rec)
          /\ batch \in Seq(Rec) /\ tqueue \in Seq(Rec) /\ theld \in Seq(Rec) /\ ran \in Seq(Rec)
      BY DEF IInv, Types, SourceTypes, TargetTypes
    <2>2. \A s \in {queue, frozen, boundary, batch, tqueue, theld, ran} : s \in Seq(1..MaxRecords)
      BY <2>1 DEF Rec
    <2> QED BY <2>2 DEF IInv, Types, SourceTypes, TargetTypes, StoreTypes, TypeOK
  <1>2. IInv => ResumesWhole
    <2> SUFFICES ASSUME IInv, sphase = "serving" PROVE ran \o queue = Upto(accepted)
      BY DEF ResumesWhole, Upto
    <2>1. row.gen = SourceGeneration
      BY DEF IInv, Fencing, RowIsSource, Ended
    <2>2. ran \o queue \o <<>> \o <<>> = Upto(accepted)
      BY <2>1 DEF IInv, SourceKeepsAll
    <2>3. ran \o queue \in Seq(Rec)
      BY ConcatProperties DEF IInv, Types, SourceTypes
    <2> QED BY <2>2, <2>3, ConcatEmptySeq
  <1> QED BY <1>1, <1>2, Invariance, PTL
-----------------------------------------------------------------------------
(* Where every record is while the object moves.                            *)

Increasing(s) == \A i, j \in 1..Len(s) : i < j => s[i] < s[j]

\* What the connection carries.
Carried == {net[i] : i \in 1..Len(net)}

\* The connection carries the relocations in their order, each one beginning
\* with its prepare and its state; forwarded records are in acceptance order.
Precedes(m, n) ==
    /\ m.a <= n.a
    /\ m.a = n.a => n.kind # "prepare" /\ (n.kind = "state" => m.kind = "prepare")
    /\ m.kind = "forward" /\ n.kind = "forward" => m.recs[1] < n.recs[1]
NetInOrder ==
    /\ \A m \in Carried : /\ m.a <= attempt
                          /\ m.kind = "forward" => Len(m.recs) = 1 /\ m.recs[1] <= accepted
    /\ \A i, j \in 1..Len(net) : i < j => Precedes(net[i], net[j])

\* A staging exists for a relocation whose state has arrived: nothing older and
\* no second state is still on the way.  One staging holds the object's key.
KeyHolder == {"restored", "ready", "verified", "committed", "open"}
StagedOnce ==
    \A a \in Attempt :
        /\ Phase(a) \in KeyHolder <=> tobj = a
        /\ Phase(a) # "none" => a <= attempt
        /\ Phase(a) \notin {"none", "assembling"} =>
              \A m \in Carried : m.a >= a /\ (m.a = a => m.kind \notin {"prepare", "state"})

\* Before its boundary a relocation has sent its state at most, and before its
\* cutover the target has verified nothing of it.
Early == {"sealed", "awaiting", "ready", "boundary", "sent"}
BeforeTheCutover ==
    /\ sphase = "sealed" => Phase(attempt) = "none" /\ \A m \in Carried : m.a < attempt
    /\ sphase \in Holding =>
          /\ \A m \in Carried : m.a = attempt => m.kind \in {"prepare", "state"}
          /\ Phase(attempt) \in KeyHolder => theld = <<>>
    /\ sphase \in Early => /\ Phase(attempt) # "verified"
                           /\ \A m \in Carried : m.a = attempt => m.kind # "cutover"

\* k is the number of records accepted when the object was sealed: the state
\* carries what had not run of them, the boundary batch the ones up to cut.
ContentsAt(k) ==
    /\ sphase \in Holding \cup PostBoundary /\ row.gen = SourceGeneration => ran \o frozen = Upto(k)
    /\ sphase \in PostBoundary => Upto(k) \o batch = Upto(cut)
    /\ \A m \in Carried : m.a = attempt =>
          /\ m.kind = "state" => ran \o m.recs = Upto(k)
          /\ m.kind = "cutover" => Upto(k) \o m.recs = Upto(cut)
    /\ Phase(attempt) = "restoring" => ran \o att[attempt].saved = Upto(k)
    /\ Phase(attempt) \in {"restored", "ready"} => ran \o tqueue = Upto(k)
    /\ Phase(attempt) \in {"verified", "committed"} => ran \o tqueue = Upto(cut)
Contents == sphase # "serving" => \E k \in 0..MaxRecords : ContentsAt(k)

\* Forwarded records come after the boundary and stay in order, on the
\* connection, in held_application and in the opened queue.
After(s) == \A i \in 1..Len(s) :
               /\ s[i] <= accepted
               /\ \A m \in Carried : m.kind = "forward" => s[i] < m.recs[1]
Opened(s) == /\ Increasing(s) /\ After(s)
             /\ Len(s) >= cut /\ \A i \in 1..cut : s[i] = i
Held(s) == Increasing(s) /\ After(s) /\ \A i \in 1..Len(s) : s[i] > cut
ForwardsAfterCut ==
    /\ cut <= accepted
    /\ sphase # "serving" =>
         /\ \A m \in Carried : m.kind = "forward" /\ m.a = attempt => m.recs[1] > cut
         /\ Phase(attempt) \in KeyHolder \ {"open"} => Held(theld)
         /\ Phase(attempt) = "open" => Opened(ran \o tqueue)

Records == /\ NetInOrder /\ StagedOnce /\ BeforeTheCutover /\ Contents /\ ForwardsAfterCut
           /\ RunsInOrder
-----------------------------------------------------------------------------
(* Steps that move no record.                                               *)

\* What is on the connection was there before, in the same order.
Shrinks ==
    \E k \in Nat : Len(net') + k <= Len(net) /\ \A i \in 1..Len(net') : net'[i] = net[i + k]

LEMMA ShrinksProperties ==
  ASSUME net \in Seq(Msg), net' \in Seq(Msg), Shrinks
  PROVE  /\ Carried' \subseteq Carried
         /\ (\A i, j \in 1..Len(net) : i < j => Precedes(net[i], net[j]))
              => \A i, j \in 1..Len(net') : i < j => Precedes(net'[i], net'[j])
  <1>1. PICK k \in Nat : Len(net') + k <= Len(net) /\ \A i \in 1..Len(net') : net'[i] = net[i + k]
    BY DEF Shrinks
  <1>2. Len(net) \in Nat /\ Len(net') \in Nat
    BY LenProperties
  <1>3. \A i \in 1..Len(net') : i + k \in 1..Len(net)
    BY <1>1, <1>2
  <1>4. Carried' \subseteq Carried
    BY <1>1, <1>3 DEF Carried
  <1>5. ASSUME \A i, j \in 1..Len(net) : i < j => Precedes(net[i], net[j]),
               NEW i \in 1..Len(net'), NEW j \in 1..Len(net'), i < j
        PROVE  Precedes(net'[i], net'[j])
    <2>1. i + k < j + k /\ i + k \in 1..Len(net) /\ j + k \in 1..Len(net)
      BY <1>2, <1>3, <1>5
    <2> QED BY <1>1, <1>5, <2>1
  <1> QED BY <1>4, <1>5

\* Receiving, losing the connection and leaving it alone.
LEMMA ReceiveShrinks ==
  ASSUME net \in Seq(Msg), \/ \E k : Receive(k)
                           \/ net' \in {net, <<>>}
  PROVE  net' \in Seq(Msg) /\ Shrinks
  <1>1. ASSUME NEW k, Receive(k) PROVE net' \in Seq(Msg) /\ Shrinks
    <2>1. /\ net' \in Seq(Msg) /\ Len(net') = Len(net) - 1 /\ Len(net) > 0
          /\ \A i \in 1..Len(net') : net'[i] = net[i + 1]
      BY <1>1, ReceiveProperties
    <2>2. Len(net) \in Nat
      BY LenProperties
    <2>3. Len(net') + 1 <= Len(net) /\ 1 \in Nat
      BY <2>1, <2>2
    <2> QED BY <2>1, <2>3 DEF Shrinks
  <1>2. CASE net' = net
    <2>1. Len(net) \in Nat
      BY LenProperties
    <2>2. 0 \in Nat /\ Len(net) + 0 <= Len(net) /\ \A i \in 1..Len(net) : net[i] = net[i + 0]
      BY <2>1
    <2> QED BY <1>2, <2>2 DEF Shrinks
  <1>3. CASE net' = <<>>
    <2>1. Len(net') = 0 /\ net' \in Seq(Msg) /\ Len(net) \in Nat
      BY <1>3, LenProperties, EmptySeq
    <2> QED BY <2>1 DEF Shrinks
  <1> QED BY <1>1, <1>2, <1>3

\* A staging stays, goes, or advances without touching the queue.
Fades(p, q) ==
    \/ q = p \/ q = "none"
    \/ p = "restored" /\ q = "ready"
    \/ p = "verified" /\ q = "committed"
    \/ p = "open" /\ q = "left"

\* A prepare opens an assembly for a relocation that has been sent.
Begins(a) ==
    /\ Phase(a) = "none" /\ Phase(a)' = "assembling"
    /\ a <= attempt /\ (sphase' = "sealed" => a # attempt)

\* The source stays where it is, waits for less, or is done with the relocation.
Eases ==
    /\ \/ sphase' = sphase \/ sphase' \in {"serving", "followed", "stopped", "dead"}
       \/ sphase = "awaiting" /\ sphase' = "ready"
    /\ sphase = "serving" => sphase' = "serving"
    /\ sphase' \in Holding \cup PostBoundary => UNCHANGED <<frozen, batch>>

KeyIsHeld == \A a \in Attempt : Phase(a) \in KeyHolder <=> tobj = a

Calm ==
    /\ UNCHANGED <<attempt, accepted, ran, cut>>
    /\ Eases
    /\ row'.gen = SourceGeneration => row.gen = SourceGeneration
    /\ Shrinks
    /\ \A a \in Attempt : /\ Fades(Phase(a), Phase(a)') \/ Begins(a)
                          /\ Phase(a)' = "restoring" => att'[a].saved = att[a].saved
    /\ KeyIsHeld'
    /\ tobj' # 0 => UNCHANGED <<tqueue, theld>>

LEMMA CalmStep == ASSUME IInv, IInv', Records, Calm PROVE Records'
  <1>1. /\ UNCHANGED <<attempt, accepted, ran, cut>> /\ Eases /\ Shrinks
        /\ row'.gen = SourceGeneration => row.gen = SourceGeneration
        /\ \A a \in Attempt : /\ Fades(Phase(a), Phase(a)') \/ Begins(a)
                              /\ Phase(a)' = "restoring" => att'[a].saved = att[a].saved
        /\ KeyIsHeld' /\ (tobj' # 0 => UNCHANGED <<tqueue, theld>>)
    BY DEF Calm
  <1>2. NetInOrder /\ StagedOnce /\ BeforeTheCutover /\ Contents /\ ForwardsAfterCut /\ RunsInOrder
    BY DEF Records
  <1>3. /\ Carried' \subseteq Carried
        /\ (\A i, j \in 1..Len(net) : i < j => Precedes(net[i], net[j]))
              => \A i, j \in 1..Len(net') : i < j => Precedes(net'[i], net'[j])
    BY <1>1, ShrinksProperties DEF IInv, Types
  <1>4. sphase' # "serving" => sphase # "serving" /\ attempt \in Attempt
    BY <1>1 DEF Eases, IInv, Types, SourceTypes, Attempt
  <1>5. \A a \in Attempt : Phase(a)' \in KeyHolder => tobj' = a /\ a # 0
    BY <1>1 DEF KeyIsHeld, Attempt
  <1>6. \A a \in Attempt : Phase(a)' \in KeyHolder => Phase(a) \in KeyHolder /\ UNCHANGED <<tqueue, theld>>
    BY <1>1, <1>5 DEF Fades, Begins, KeyHolder
  <1>7. NetInOrder'
    BY <1>1, <1>2, <1>3 DEF NetInOrder
  <1>8. StagedOnce'
    <2> SUFFICES ASSUME NEW a \in Attempt
                 PROVE  /\ Phase(a)' \in KeyHolder <=> tobj' = a
                        /\ Phase(a)' # "none" => a <= attempt
                        /\ Phase(a)' \notin {"none", "assembling"} =>
                              \A m \in Carried' : m.a >= a /\ (m.a = a => m.kind \notin {"prepare", "state"})
      BY <1>1 DEF StagedOnce
    <2>1. /\ Phase(a)' # "none" => Phase(a) # "none" \/ a <= attempt
          /\ Phase(a)' \notin {"none", "assembling"} => Phase(a) \notin {"none", "assembling"}
      BY <1>1 DEF Fades, Begins
    <2> QED BY <1>1, <1>2, <1>3, <2>1 DEF StagedOnce, KeyIsHeld
  <1>9. BeforeTheCutover'
    <2>1. /\ sphase' = "sealed" => sphase = "sealed"
          /\ sphase' \in Holding => sphase \in Holding
          /\ sphase' \in Early => sphase \in Early
          /\ sphase' \in Holding \cup Early => sphase' # "serving"
      BY <1>1 DEF Eases, Holding, Early
    <2>2. attempt \in Attempt /\ sphase' = "sealed" =>
            (Phase(attempt) = "none" => Phase(attempt)' = "none")
      BY <1>1 DEF Fades, Begins
    <2>3. attempt \in Attempt => (Phase(attempt)' = "verified" => Phase(attempt) = "verified")
      BY <1>1 DEF Fades, Begins
    <2>4. sphase' = "sealed" => Phase(attempt)' = "none" /\ \A m \in Carried' : m.a < attempt
      BY <1>2, <1>3, <1>4, <2>1, <2>2 DEF BeforeTheCutover
    <2>5. sphase' \in Holding =>
            /\ \A m \in Carried' : m.a = attempt => m.kind \in {"prepare", "state"}
            /\ Phase(attempt)' \in KeyHolder => theld' = <<>>
      <3> SUFFICES ASSUME sphase' \in Holding
                   PROVE  /\ \A m \in Carried' : m.a = attempt => m.kind \in {"prepare", "state"}
                          /\ Phase(attempt)' \in KeyHolder => theld' = <<>>
        OBVIOUS
      <3>1. sphase \in Holding /\ attempt \in Attempt /\ attempt' = attempt
        BY <1>1, <1>4, <2>1
      <3>2. Phase(attempt)' \in KeyHolder => Phase(attempt) \in KeyHolder /\ theld' = theld
        BY <1>6, <3>1
      <3> QED BY <1>2, <1>3, <3>1, <3>2 DEF BeforeTheCutover
    <2>6. sphase' \in Early => /\ Phase(attempt)' # "verified"
                               /\ \A m \in Carried' : m.a = attempt => m.kind # "cutover"
      BY <1>2, <1>3, <1>4, <2>1, <2>3 DEF BeforeTheCutover
    <2> QED BY <1>1, <2>4, <2>5, <2>6 DEF BeforeTheCutover, Phase
  <1>10. Contents'
    <2>1. SUFFICES ASSUME sphase' # "serving" PROVE \E k \in 0..MaxRecords : ContentsAt(k)'
      BY DEF Contents
    <2>2. PICK k \in 0..MaxRecords : ContentsAt(k)
      BY <1>2, <1>4, <2>1 DEF Contents
    <2>3. attempt \in Attempt
      BY <1>4, <2>1
    <2>4. /\ sphase' \in Holding \cup PostBoundary => sphase \in Holding \cup PostBoundary
          /\ sphase' \in PostBoundary => sphase \in PostBoundary
      BY <1>1, <2>1 DEF Eases, Holding, PostBoundary
    <2>5. /\ sphase' \in Holding \cup PostBoundary /\ row'.gen = SourceGeneration
               => ran' \o frozen' = Upto(k)
          /\ sphase' \in PostBoundary => Upto(k) \o batch' = Upto(cut)
      BY <1>1, <2>2, <2>4 DEF ContentsAt, Eases
    <2>6. \A m \in Carried' : m.a = attempt =>
             /\ m.kind = "state" => ran \o m.recs = Upto(k)
             /\ m.kind = "cutover" => Upto(k) \o m.recs = Upto(cut)
      BY <1>3, <2>2 DEF ContentsAt
    <2>7. Phase(attempt)' = "restoring" => ran \o att'[attempt].saved = Upto(k)
      BY <1>1, <2>2, <2>3 DEF ContentsAt, Fades, Begins
    <2>8. Phase(attempt)' \in {"restored", "ready"} => ran \o tqueue' = Upto(k)
      BY <1>1, <1>6, <2>2, <2>3 DEF ContentsAt, Fades, Begins, KeyHolder
    <2>9. Phase(attempt)' \in {"verified", "committed"} => ran \o tqueue' = Upto(cut)
      BY <1>1, <1>6, <2>2, <2>3 DEF ContentsAt, Fades, Begins, KeyHolder
    <2>10. ContentsAt(k)'
      BY <1>1, <2>5, <2>6, <2>7, <2>8, <2>9 DEF ContentsAt, Phase, Upto
    <2> QED BY <2>2, <2>10
  <1>11. ForwardsAfterCut'
    <2>1. cut' <= accepted'
      BY <1>1, <1>2 DEF ForwardsAfterCut
    <2>2. ASSUME sphase' # "serving"
          PROVE  /\ \A m \in Carried' : m.kind = "forward" /\ m.a = attempt => m.recs[1] > cut
                 /\ Phase(attempt)' \in KeyHolder \ {"open"} => Held(theld)'
                 /\ Phase(attempt)' = "open" => Opened(ran \o tqueue)'
      <3>1. attempt \in Attempt /\ sphase # "serving"
        BY <1>4, <2>2
      <3>2. \A m \in Carried' : m.kind = "forward" /\ m.a = attempt => m.recs[1] > cut
        BY <1>2, <1>3, <3>1 DEF ForwardsAfterCut
      <3>3. ASSUME Phase(attempt)' \in KeyHolder \ {"open"} PROVE Held(theld)'
        <4>1. Phase(attempt) \in KeyHolder \ {"open"} /\ theld' = theld
          BY <1>1, <1>6, <3>1, <3>3 DEF Fades, Begins, KeyHolder
        <4>2. Held(theld)
          BY <1>2, <3>1, <4>1 DEF ForwardsAfterCut
        <4> QED BY <1>1, <1>3, <4>1, <4>2 DEF Held, After, Increasing
      <3>4. ASSUME Phase(attempt)' = "open" PROVE Opened(ran \o tqueue)'
        <4>1. Phase(attempt) = "open" /\ tqueue' = tqueue
          BY <1>1, <1>6, <3>1, <3>4 DEF Fades, Begins, KeyHolder
        <4>2. Opened(ran \o tqueue)
          BY <1>2, <3>1, <4>1 DEF ForwardsAfterCut
        <4> QED BY <1>1, <1>3, <4>1, <4>2 DEF Opened, After, Increasing
      <3> QED BY <3>2, <3>3, <3>4
    <2> QED BY <1>1, <2>1, <2>2 DEF ForwardsAfterCut, Phase
  <1>12. RunsInOrder'
    BY <1>1, <1>2 DEF RunsInOrder
  <1> QED BY <1>7, <1>8, <1>9, <1>10, <1>11, <1>12 DEF Records

\* The part of a calm step that concerns the target.
TargetCalm ==
    /\ \A a \in Attempt : /\ Fades(Phase(a), Phase(a)') \/ Begins(a)
                          /\ Phase(a)' = "restoring" => att'[a].saved = att[a].saved
    /\ KeyIsHeld'
    /\ tobj' # 0 => UNCHANGED <<tqueue, theld>>

LEMMA StayingTarget ==
  ASSUME Records, UNCHANGED <<att, tobj, tqueue, theld>> PROVE TargetCalm
  BY DEF Records, StagedOnce, TargetCalm, KeyIsHeld, Phase, Fades

\* discard_relocation_target_attempts() and abort_relocation_restore_async()
LEMMA DiscardingTarget ==
  ASSUME Types, Records, NEW a \in Attempt, Discard(a) PROVE TargetCalm
  <1>1. att'[a].phase = "none" /\ \A b \in Attempt \ {a} : att'[b] = att[b]
    BY DiscardTypes DEF Types
  <1>2. \A b \in Attempt : Phase(b) \in KeyHolder <=> tobj = b
    BY DEF Records, StagedOnce
  <1>3. IF tobj = a THEN tobj' = 0 ELSE UNCHANGED <<tobj, tqueue, theld>>
    BY DEF Discard
  <1>4. \A b \in Attempt : Phase(b)' = IF b = a THEN "none" ELSE Phase(b)
    BY <1>1 DEF Phase
  <1>5. 0 \notin Attempt /\ "none" \notin KeyHolder
    BY DEF Attempt, KeyHolder
  <1>6. KeyIsHeld'
    <2> SUFFICES ASSUME NEW b \in Attempt PROVE Phase(b)' \in KeyHolder <=> tobj' = b
      BY DEF KeyIsHeld
    <2>1. CASE b = a
      BY <1>3, <1>4, <1>5, <2>1
    <2>2. CASE b # a
      BY <1>2, <1>3, <1>4, <1>5, <2>2
    <2> QED BY <2>1, <2>2
  <1>7. ASSUME NEW b \in Attempt
        PROVE  Fades(Phase(b), Phase(b)') /\ (Phase(b)' = "restoring" => att'[b].saved = att[b].saved)
    BY <1>1, <1>4 DEF Fades
  <1> QED BY <1>3, <1>6, <1>7 DEF TargetCalm

\* A staging that advances keeps or leaves the key as a whole.
LEMMA AdvancingTarget ==
  ASSUME Types, Records, NEW a \in Attempt, NEW p, SetPhase(a, p),
         \/ Phase(a) = "assembling" /\ p = "none" /\ UNCHANGED <<tobj, tqueue, theld>>
         \/ Phase(a) = "restored" /\ p = "ready" /\ UNCHANGED <<tobj, tqueue, theld>>
         \/ Phase(a) = "verified" /\ p = "committed" /\ UNCHANGED <<tobj, tqueue, theld>>
         \/ Phase(a) = "open" /\ p = "left" /\ tobj' = 0
  PROVE  TargetCalm
  <1>1. /\ att'[a].phase = p /\ att'[a].saved = att[a].saved
        /\ \A b \in Attempt \ {a} : att'[b] = att[b]
    BY PhaseTypes DEF Types, TargetTypes
  <1>2. \A b \in Attempt : Phase(b) \in KeyHolder <=> tobj = b
    BY DEF Records, StagedOnce
  <1>3. \A b \in Attempt : Phase(b)' = IF b = a THEN p ELSE Phase(b)
    BY <1>1 DEF Phase
  <1>4. 0 \notin Attempt
    BY DEF Attempt
  <1>5. KeyIsHeld'
    <2> SUFFICES ASSUME NEW b \in Attempt PROVE Phase(b)' \in KeyHolder <=> tobj' = b
      BY DEF KeyIsHeld
    <2>1. CASE tobj' = tobj
      <3>1. Phase(a) \in KeyHolder <=> p \in KeyHolder
        <4>1. ~(Phase(a) = "open" /\ tobj' = 0)
          BY <1>2, <1>4, <2>1 DEF KeyHolder
        <4> QED BY <4>1 DEF KeyHolder
      <3> QED BY <1>2, <1>3, <2>1, <3>1
    <2>2. CASE tobj' # tobj
      <3>1. Phase(a) = "open" /\ p = "left" /\ tobj' = 0 /\ tobj = a
        BY <1>2, <2>2 DEF KeyHolder
      <3> QED BY <1>2, <1>3, <1>4, <3>1 DEF KeyHolder
    <2> QED BY <2>1, <2>2
  <1>6. ASSUME NEW b \in Attempt
        PROVE  Fades(Phase(b), Phase(b)') /\ (Phase(b)' = "restoring" => att'[b].saved = att[b].saved)
    <2>1. CASE b = a
      BY <1>1, <1>3, <2>1 DEF Fades
    <2>2. CASE b # a
      BY <1>1, <1>3, <2>2 DEF Fades
    <2> QED BY <2>1, <2>2
  <1> QED BY <1>5, <1>6 DEF TargetCalm

\* The source resumes, releases, waits or settles.
LEMMA CalmSource ==
  ASSUME IInv, Records,
         \/ EncodeFails \/ PrepareReady \/ PrepareFails \/ SettleCommitted \/ SettlePreserved
         \/ Preserve \/ SettleExpired \/ SettleStopped \/ DeadlinePasses
  PROVE  Calm
  <1> USE DEF source, link, store, target, history
  <1>1. UNCHANGED <<attempt, accepted, ran, cut, net, att, tobj, tqueue, theld>>
    BY DEF EncodeFails, PrepareReady, PrepareFails, SettleCommitted, SettlePreserved, Preserve,
           SettleExpired, SettleStopped, DeadlinePasses, Resume, Release
  <1>2. row'.gen = row.gen
    BY DEF EncodeFails, PrepareReady, PrepareFails, SettleCommitted, SettlePreserved, Preserve,
           SettleExpired, SettleStopped, DeadlinePasses, PreserveWins, IInv, Types, StoreTypes
  <1>3. Eases
    BY DEF EncodeFails, PrepareReady, PrepareFails, SettleCommitted, SettlePreserved, Preserve,
           SettleExpired, SettleStopped, DeadlinePasses, Resume, Release, Eases, Holding, PostBoundary
  <1>4. TargetCalm
    BY <1>1, StayingTarget
  <1>5. Shrinks
    BY <1>1, ReceiveShrinks DEF IInv, Types
  <1> QED BY <1>1, <1>2, <1>3, <1>4, <1>5 DEF Calm, TargetCalm

\* The target receives what it has no use for, advances a staging, or drops it.
LEMMA CalmTarget ==
  ASSUME IInv, Records,
         \/ ReceiveData \/ SealTarget
         \/ ReceiveCutover /\ UNCHANGED <<att, tobj, tqueue, theld>>
         \/ ReceiveCutover /\ Discard(Head(net).a)
         \/ \E a \in Attempt : \/ AssemblyExpires(a) \/ RestoreFails(a) \/ SubmitReady(a)
                               \/ Publish(a) \/ Adopt(a) \/ DiscardExcluded(a) \/ OpenFails(a)
  PROVE  Calm
  <1> USE DEF source, link, store, target, history
  <1>1. UNCHANGED <<attempt, accepted, ran, cut, sphase, frozen, batch>>
    BY DEF ReceiveData, SealTarget, ReceiveCutover, AssemblyExpires, RestoreFails, SubmitReady,
           Publish, Adopt, DiscardExcluded, OpenFails
  <1>2. row'.gen = SourceGeneration => row.gen = SourceGeneration
    <2>1. ASSUME NEW a \in Attempt, Publish(a) PROVE row'.gen = row.gen + 1 /\ row.gen \in Nat /\ row.gen >= 1
      BY <2>1 DEF Publish, IInv, Types, StoreTypes, Fencing, RowIsSource, SourceGeneration
    <2>2. row' = row \/ \E a \in Attempt : Publish(a)
      BY DEF ReceiveData, SealTarget, ReceiveCutover, AssemblyExpires, RestoreFails, SubmitReady,
             Adopt, DiscardExcluded, OpenFails
    <2> QED BY <2>1, <2>2 DEF SourceGeneration
  <1>3. Eases
    BY <1>1 DEF Eases
  <1>4. net \in Seq(Msg) /\ Types /\ att \in [Attempt -> Staging] /\ 0 \notin Attempt
    BY DEF IInv, Types, TargetTypes, Attempt
  <1>5. Shrinks
    <2>1. (\E k : Receive(k)) \/ net' = net
      BY DEF ReceiveData, SealTarget, ReceiveCutover, AssemblyExpires, RestoreFails, SubmitReady,
             Publish, Adopt, DiscardExcluded, OpenFails
    <2> QED BY <1>4, <2>1, ReceiveShrinks
  <1>6. TargetCalm
    <2>1. CASE ReceiveData
      <3>1. UNCHANGED <<tobj, tqueue, theld>>
        BY <2>1 DEF ReceiveData
      <3>2. Head(net).a \in Attempt
        BY <1>4, <2>1, ReceiveProperties DEF ReceiveData, Msg
      <3>3. \A b \in Attempt : att'[b].phase = att[b].phase /\ att'[b].saved = att[b].saved
        BY <1>4, <2>1, <3>2, BatchUpdate DEF ReceiveData
      <3> QED BY <3>1, <3>3 DEF Records, StagedOnce, TargetCalm, KeyIsHeld, Phase, Fades
    <2>2. CASE SealTarget
      <3> DEFINE ended == {a \in Attempt : Phase(a) \in {"assembling", "ready"}}
      <3>1. /\ att' = [a \in Attempt |-> IF a \in ended THEN NoAttempt ELSE att[a]]
            /\ IF tobj \in ended THEN tobj' = 0 ELSE UNCHANGED <<tobj, tqueue, theld>>
        BY <2>2 DEF SealTarget
      <3>2. \A b \in Attempt : /\ b \in ended => Phase(b)' = "none"
                               /\ b \notin ended => att'[b] = att[b] /\ Phase(b)' = Phase(b)
        BY <3>1, NoAttemptType DEF Phase
      <3>3. \A b \in Attempt : Phase(b) \in KeyHolder <=> tobj = b
        BY DEF Records, StagedOnce
      <3>4. KeyIsHeld'
        <4> SUFFICES ASSUME NEW b \in Attempt PROVE Phase(b)' \in KeyHolder <=> tobj' = b
          BY DEF KeyIsHeld
        <4>1. CASE b \in ended
          <5>1. Phase(b)' \notin KeyHolder
            BY <3>2, <4>1 DEF KeyHolder
          <5>2. tobj' # b
            BY <1>4, <3>1, <4>1
          <5> QED BY <5>1, <5>2
        <4>2. CASE b \notin ended
          BY <1>4, <3>1, <3>2, <3>3, <4>2
        <4> QED BY <4>1, <4>2
      <3>5. ASSUME NEW b \in Attempt
            PROVE  Fades(Phase(b), Phase(b)') /\ (Phase(b)' = "restoring" => att'[b].saved = att[b].saved)
        BY <3>2 DEF Fades
      <3> QED BY <3>1, <3>4, <3>5 DEF TargetCalm
    <2>3. CASE UNCHANGED <<att, tobj, tqueue, theld>>
      BY <2>3, StayingTarget
    <2>4. ASSUME NEW a \in Attempt, Discard(a) PROVE TargetCalm
      BY <1>4, <2>4, DiscardingTarget
    <2>5. CASE ReceiveCutover /\ Discard(Head(net).a)
      <3>1. Head(net).a \in Attempt
        BY <1>4, <2>5, ReceiveProperties DEF ReceiveCutover, Msg
      <3> QED BY <2>4, <2>5, <3>1
    <2>6. ASSUME NEW a \in Attempt, AssemblyExpires(a) PROVE TargetCalm
      BY <1>4, <2>6, AdvancingTarget DEF AssemblyExpires
    <2>7. ASSUME NEW a \in Attempt, SubmitReady(a) PROVE TargetCalm
      BY <1>4, <2>7, AdvancingTarget DEF SubmitReady
    <2>8. ASSUME NEW a \in Attempt, Adopt(a) \/ Publish(a) PROVE TargetCalm
      <3>1. Phase(a) = "verified" /\ UNCHANGED <<tobj, tqueue, theld>>
            /\ (SetPhase(a, "committed") \/ att' = att)
        BY <2>8 DEF Adopt, Publish
      <3> QED BY <1>4, <2>3, <3>1, AdvancingTarget
    <2>9. ASSUME NEW a \in Attempt, RestoreFails(a) \/ DiscardExcluded(a) \/ OpenFails(a)
          PROVE  TargetCalm
      BY <2>4, <2>9 DEF RestoreFails, DiscardExcluded, OpenFails
    <2> QED BY <2>1, <2>2, <2>3, <2>5, <2>6, <2>7, <2>8, <2>9
  <1> QED BY <1>1, <1>2, <1>3, <1>5, <1>6 DEF Calm, TargetCalm

\* Faults only lose.
LEMMA CalmFault == ASSUME IInv, Records, Fault PROVE Calm
  <1> USE DEF source, link, store, target, history
  <1>1. UNCHANGED <<attempt, accepted, ran, cut>> /\ Eases
    BY DEF Fault, Break, Reconnect, SourceCrashes, TargetCrashes, Reclaim, LeaseExpires, MoveOn,
           Release, Eases, Holding, PostBoundary
  <1>2. row'.gen = SourceGeneration => row.gen = SourceGeneration
    <2>1. row.gen \in Nat /\ row.gen >= 1
      BY DEF IInv, Types, StoreTypes, Fencing, RowIsSource, SourceGeneration
    <2>2. row'.gen \in {row.gen, row.gen + 1}
      BY DEF Fault, Break, Reconnect, SourceCrashes, TargetCrashes, Reclaim, LeaseExpires, MoveOn,
             IInv, Types, StoreTypes
    <2> QED BY <2>1, <2>2 DEF SourceGeneration
  <1>3. net \in Seq(Msg) /\ Types /\ 0 \notin Attempt
    BY DEF IInv, Types, Attempt
  <1>4. Shrinks
    <2>1. net' \in {net, <<>>}
      BY DEF Fault, Break, Reconnect, SourceCrashes, TargetCrashes, Reclaim, LeaseExpires, MoveOn
    <2> QED BY <1>3, <2>1, ReceiveShrinks
  <1>5. TargetCalm
    <2>1. CASE UNCHANGED <<att, tobj, tqueue, theld>>
      BY <2>1, StayingTarget
    <2>2. CASE TargetCrashes
      <3>1. tobj' = 0 /\ \A b \in Attempt : Phase(b)' = "none"
        BY <2>2, NoAttemptType DEF TargetCrashes, Phase
      <3> QED BY <1>3, <3>1 DEF TargetCalm, KeyIsHeld, KeyHolder, Fades
    <2>3. ASSUME NEW a \in Attempt, MoveOn(a) PROVE TargetCalm
      BY <1>3, <2>3, AdvancingTarget DEF MoveOn
    <2> QED BY <2>1, <2>2, <2>3 DEF Fault, Break, Reconnect, SourceCrashes, Reclaim, LeaseExpires
  <1> QED BY <1>1, <1>2, <1>4, <1>5 DEF Calm, TargetCalm
-----------------------------------------------------------------------------
(* Steps that send.                                                         *)

\* A send puts its messages behind those on their way.
LEMMA SendCarries ==
  ASSUME net \in Seq(Msg), NEW ms \in Seq(Msg), Send(ms)
  PROVE  /\ net' \in Seq(Msg) /\ Carried' \subseteq Carried \cup {ms[i] : i \in 1..Len(ms)}
         /\ /\ \A i, j \in 1..Len(net) : i < j => Precedes(net[i], net[j])
            /\ \A m \in Carried : \A i \in 1..Len(ms) : Precedes(m, ms[i])
            /\ \A i, j \in 1..Len(ms) : i < j => Precedes(ms[i], ms[j])
            => \A i, j \in 1..Len(net') : i < j => Precedes(net'[i], net'[j])
  <1>1. Len(net) \in Nat /\ Len(ms) \in Nat
    BY LenProperties
  <1>2. /\ net' \in Seq(Msg) /\ Len(net') \in {Len(net), Len(net) + Len(ms)}
        /\ \A i \in 1..Len(net) : net'[i] = net[i]
        /\ \A i \in 1..Len(net') : i > Len(net) => net'[i] = ms[i - Len(net)]
    BY SendProperties
  <1>3. ASSUME NEW i \in 1..Len(net')
        PROVE  \/ i \in 1..Len(net) /\ net'[i] = net[i]
               \/ i > Len(net) /\ i - Len(net) \in 1..Len(ms) /\ net'[i] = ms[i - Len(net)]
    <2>1. CASE i <= Len(net)
      BY <1>1, <1>2, <2>1
    <2>2. CASE i > Len(net)
      <3>1. i - Len(net) \in 1..Len(ms)
        BY <1>1, <1>2, <2>2
      <3> QED BY <1>2, <2>2, <3>1
    <2> QED BY <1>1, <1>2, <2>1, <2>2
  <1>4. Carried' \subseteq Carried \cup {ms[i] : i \in 1..Len(ms)}
    BY <1>3 DEF Carried
  <1>5. ASSUME \A i, j \in 1..Len(net) : i < j => Precedes(net[i], net[j]),
               \A m \in Carried : \A i \in 1..Len(ms) : Precedes(m, ms[i]),
               \A i, j \in 1..Len(ms) : i < j => Precedes(ms[i], ms[j]),
               NEW i \in 1..Len(net'), NEW j \in 1..Len(net'), i < j
        PROVE  Precedes(net'[i], net'[j])
    <2>1. i \in Nat /\ j \in Nat
      BY <1>1, <1>2
    <2>2. CASE j \in 1..Len(net) /\ net'[j] = net[j]
      <3>1. i \in 1..Len(net)
        BY <1>1, <1>5, <2>1, <2>2
      <3>2. net'[i] = net[i]
        BY <1>2, <3>1
      <3> QED BY <1>5, <2>2, <3>1, <3>2
    <2>3. CASE j > Len(net) /\ j - Len(net) \in 1..Len(ms) /\ net'[j] = ms[j - Len(net)]
      <3>1. CASE i \in 1..Len(net) /\ net'[i] = net[i]
        <4>1. net[i] \in Carried
          BY <3>1 DEF Carried
        <4> QED BY <1>5, <2>3, <3>1, <4>1
      <3>2. CASE i > Len(net) /\ i - Len(net) \in 1..Len(ms) /\ net'[i] = ms[i - Len(net)]
        <4>1. i - Len(net) < j - Len(net)
          BY <1>1, <1>5, <2>1
        <4> QED BY <1>5, <2>3, <3>2, <4>1
      <3> QED BY <1>3, <3>1, <3>2
    <2> QED BY <1>3, <2>2, <2>3
  <1> QED BY <1>2, <1>4, <1>5

\* The boundary batch and the cutover go behind everything else, and the
\* cutover declares what the boundary took.
LEMMA LateStep ==
  ASSUME IInv, Records, UNCHANGED <<attempt, accepted, ran, cut, row, att, tobj, tqueue, theld>>,
         NEW ms \in Seq(Msg), Send(ms),
         \A i \in 1..Len(ms) : /\ ms[i].a = attempt /\ ms[i].kind \in {"data", "cutover"}
                               /\ ms[i].kind = "cutover" => ms[i].recs = batch /\ sphase' \notin Early,
         sphase \in PostBoundary, sphase' \in Early => sphase \in Early,
         \/ sphase' = "serving"
         \/ sphase' \in PostBoundary /\ UNCHANGED <<frozen, batch>>
  PROVE  Records'
  <1>1. NetInOrder /\ StagedOnce /\ BeforeTheCutover /\ Contents /\ ForwardsAfterCut /\ RunsInOrder
    BY DEF Records
  <1>2. net \in Seq(Msg) /\ attempt \in Attempt /\ attempt \in Nat
    BY DEF IInv, Types, SourceTypes, Attempt, PostBoundary
  <1>3. /\ Carried' \subseteq Carried \cup {ms[i] : i \in 1..Len(ms)}
        /\ /\ \A i, j \in 1..Len(net) : i < j => Precedes(net[i], net[j])
           /\ \A m \in Carried : \A i \in 1..Len(ms) : Precedes(m, ms[i])
           /\ \A i, j \in 1..Len(ms) : i < j => Precedes(ms[i], ms[j])
           => \A i, j \in 1..Len(net') : i < j => Precedes(net'[i], net'[j])
    BY <1>2, SendCarries
  <1>4. \A m \in Carried' :
           \/ m \in Carried
           \/ /\ m.a = attempt /\ m.kind \in {"data", "cutover"}
              /\ m.kind = "cutover" => m.recs = batch /\ sphase' \notin Early
    BY <1>3
  <1>5. NetInOrder'
    <2>1. \A m \in Carried : \A i \in 1..Len(ms) : Precedes(m, ms[i])
      BY <1>1 DEF NetInOrder, Precedes
    <2>2. \A i, j \in 1..Len(ms) : i < j => Precedes(ms[i], ms[j])
      BY <1>2 DEF Precedes
    <2>3. \A i, j \in 1..Len(net') : i < j => Precedes(net'[i], net'[j])
      BY <1>1, <1>3, <2>1, <2>2 DEF NetInOrder
    <2>4. \A m \in Carried' : /\ m.a <= attempt
                              /\ m.kind = "forward" => Len(m.recs) = 1 /\ m.recs[1] <= accepted
      BY <1>1, <1>2, <1>4 DEF NetInOrder
    <2> QED BY <2>3, <2>4 DEF NetInOrder
  <1>6. StagedOnce'
    <2> SUFFICES ASSUME NEW a \in Attempt, Phase(a) \notin {"none", "assembling"}, NEW m \in Carried'
                 PROVE  m.a >= a /\ (m.a = a => m.kind \notin {"prepare", "state"})
      BY <1>1 DEF StagedOnce, Phase
    <2>1. a <= attempt
      BY <1>1 DEF StagedOnce
    <2> QED BY <1>1, <1>4, <2>1 DEF StagedOnce
  <1>7. BeforeTheCutover'
    <2>1. sphase' \notin Holding /\ sphase' # "sealed"
      BY DEF Holding, PostBoundary
    <2>2. sphase' \in Early => /\ Phase(attempt) # "verified"
                               /\ \A m \in Carried' : m.a = attempt => m.kind # "cutover"
      BY <1>1, <1>4 DEF BeforeTheCutover
    <2> QED BY <2>1, <2>2 DEF BeforeTheCutover, Phase
  <1>8. Contents'
    <2>1. SUFFICES ASSUME sphase' # "serving" PROVE \E k \in 0..MaxRecords : ContentsAt(k)'
      BY DEF Contents
    <2>2. PICK k \in 0..MaxRecords : ContentsAt(k)
      BY <1>1 DEF Contents, PostBoundary
    <2>3. sphase' \in PostBoundary /\ UNCHANGED <<frozen, batch>>
      BY <2>1
    <2>4. \A m \in Carried' : m.a = attempt =>
             /\ m.kind = "state" => ran \o m.recs = Upto(k)
             /\ m.kind = "cutover" => Upto(k) \o m.recs = Upto(cut)
      BY <1>4, <2>2 DEF ContentsAt
    <2>5. ContentsAt(k)'
      BY <2>2, <2>3, <2>4 DEF ContentsAt, Phase, Upto
    <2> QED BY <2>2, <2>5
  <1>9. ForwardsAfterCut'
    <2>1. \A m \in Carried' : m.kind = "forward" => m \in Carried
      BY <1>4
    <2>2. sphase # "serving"
      BY DEF PostBoundary
    <2>3. Phase(attempt) \in KeyHolder \ {"open"} => Held(theld)'
      BY <1>1, <2>1, <2>2 DEF ForwardsAfterCut, Held, After, Increasing
    <2>4. Phase(attempt) = "open" => Opened(ran \o tqueue)'
      BY <1>1, <2>1, <2>2 DEF ForwardsAfterCut, Opened, After, Increasing
    <2> QED BY <1>1, <2>1, <2>2, <2>3, <2>4 DEF ForwardsAfterCut, Phase
  <1>10. RunsInOrder'
    BY <1>1 DEF RunsInOrder
  <1> QED BY <1>5, <1>6, <1>7, <1>8, <1>9, <1>10 DEF Records

\* relocate_boundary_and_send() and the retransmission.
LEMMA SendStep ==
  ASSUME IInv, Records, SendBoundary \/ SendBoundaryFails \/ SendCutover \/ Resend
  PROVE  Records'
  <1> USE DEF source, link, store, target, history
  <1>1. /\ UNCHANGED <<attempt, accepted, ran, cut, row, att, tobj, tqueue, theld>>
        /\ sphase \in PostBoundary
        /\ \/ sphase' = "serving"
           \/ sphase' \in PostBoundary /\ UNCHANGED <<frozen, batch>>
    BY DEF SendBoundary, SendBoundaryFails, SendCutover, Resend, Resume, PostBoundary
  <1>2. attempt \in Attempt /\ batch \in Seq(Rec)
    BY <1>1 DEF IInv, Types, SourceTypes, Attempt, PostBoundary
  <1> DEFINE bs == BoundaryMessages(batch)
             co == Message("cutover", batch)
  <1>3. /\ bs \in Seq(Msg) /\ Len(bs) = Len(batch)
        /\ \A i \in 1..Len(batch) : bs[i].kind = "data" /\ bs[i].a = attempt
    BY <1>2, BoundaryMessagesType
  <1>4. co \in Msg /\ co.kind = "cutover" /\ co.a = attempt /\ co.recs = batch
    BY <1>2, MessageType DEF Message
  <1>5. <<co>> \in Seq(Msg) /\ Len(<<co>>) = 1 /\ <<co>>[1] = co
    BY <1>4
  <1>6. CASE SendBoundary
    <2>1. Send(bs) /\ sphase' \in Early /\ sphase \in Early
      BY <1>6 DEF SendBoundary, Early
    <2> HIDE DEF bs, co
    <2> QED BY <1>1, <1>3, <2>1, LateStep
  <1>7. CASE SendBoundaryFails
    <2>1. PICK n \in 0..Len(batch) : Send(SubSeq(bs, 1, n))
      BY <1>7 DEF SendBoundaryFails
    <2>2. sphase' = "serving" /\ sphase' \notin Early
      BY <1>7 DEF SendBoundaryFails, Resume, Early
    <2> DEFINE ms == SubSeq(bs, 1, n)
    <2>3. Len(batch) \in Nat /\ n \in Nat /\ n <= Len(batch) /\ 1 \in Int /\ n \in Int
      BY <1>2, LenProperties
    <2> HIDE DEF bs, co
    <2>4. \A i \in 1..n : bs[i] \in Msg
      BY <1>3, <2>3, ElementOfSeq
    <2>5. ms \in Seq(Msg) /\ Len(ms) = (IF 1 <= n THEN n - 1 + 1 ELSE 0)
            /\ \A i \in 1..n - 1 + 1 : ms[i] = bs[1 + i - 1]
      BY <2>3, <2>4, SubSeqProperties
    <2>6. Len(ms) = n /\ \A i \in 1..n : ms[i] = bs[i] /\ i \in 1..Len(batch)
      BY <2>3, <2>5
    <2>7. \A i \in 1..Len(ms) : ms[i].kind = "data" /\ ms[i].a = attempt
      BY <1>3, <2>6
    <2>8. Send(ms)
      BY <2>1
    <2> HIDE DEF ms
    <2> QED BY <1>1, <2>2, <2>5, <2>7, <2>8, LateStep
  <1>8. CASE SendCutover
    <2>1. Send(<<co>>) /\ sphase' \notin Early
      BY <1>8 DEF SendCutover, Early
    <2>2. \A i \in 1..Len(<<co>>) : <<co>>[i] = co
      BY <1>5
    <2> HIDE DEF bs, co
    <2> QED BY <1>1, <1>4, <1>5, <2>1, <2>2, LateStep
  <1>9. CASE Resend
    <2> DEFINE ms == bs \o <<co>>
    <2>1. Send(ms) /\ sphase' \notin Early
      BY <1>9 DEF Resend, Early
    <2> HIDE DEF bs, co
    <2>2. /\ ms \in Seq(Msg) /\ Len(ms) = Len(bs) + 1
          /\ \A i \in 1..Len(bs) + 1 : ms[i] = IF i <= Len(bs) THEN bs[i] ELSE <<co>>[i - Len(bs)]
      BY <1>3, <1>5, ConcatProperties
    <2>3. Len(bs) \in Nat
      BY <1>3, LenProperties
    <2>4. ASSUME NEW i \in 1..Len(ms)
          PROVE  (i \in 1..Len(batch) /\ ms[i] = bs[i]) \/ ms[i] = co
      <3>1. CASE i <= Len(bs)
        BY <1>3, <2>2, <2>3, <3>1
      <3>2. CASE i = Len(bs) + 1
        <4>1. i - Len(bs) = 1 /\ ~(i <= Len(bs))
          BY <2>3, <3>2
        <4> QED BY <1>5, <2>2, <3>2, <4>1
      <3>3. i <= Len(bs) \/ i = Len(bs) + 1
        BY <2>2, <2>3
      <3> QED BY <3>1, <3>2, <3>3
    <2>5. \A i \in 1..Len(ms) : /\ ms[i].a = attempt /\ ms[i].kind \in {"data", "cutover"}
                                /\ ms[i].kind = "cutover" => ms[i].recs = batch
      BY <1>3, <1>4, <2>4
    <2> HIDE DEF ms
    <2> QED BY <1>1, <2>1, <2>2, <2>5, LateStep
  <1> QED BY <1>6, <1>7, <1>8, <1>9

\* What the connection carries are messages.
LEMMA CarriedTypes ==
  ASSUME net \in Seq(Msg)
  PROVE  \A m \in Carried : /\ m \in Msg /\ m.a \in Nat /\ m.a \in Attempt /\ m.a # 0
                            /\ m.recs \in Seq(Rec)
  <1>1. \A m \in Carried : m \in Msg
    BY ElementOfSeq DEF Carried
  <1>2. \A a \in Attempt : a \in Nat /\ a # 0
    BY DEF Attempt
  <1> QED BY <1>1, <1>2 DEF Msg

\* relocate_seal(): what had not run of the accepted records is captured.
LEMMA SealStep == ASSUME IInv, IInv', Records, Seal PROVE Records'
  <1>1. /\ sphase = "serving" /\ sphase' = "sealed" /\ attempt' = attempt + 1 /\ frozen' = queue
        /\ UNCHANGED <<net, row, att, tobj, tqueue, theld, accepted, ran, cut>>
    BY DEF Seal, link, store, target, history
  <1>2. NetInOrder /\ StagedOnce /\ ForwardsAfterCut /\ RunsInOrder
    BY DEF Records
  <1>3. net \in Seq(Msg) /\ attempt \in Nat /\ attempt' \in Attempt /\ attempt' > attempt
    BY <1>1 DEF IInv, Types, SourceTypes, Attempt
  <1>4. \A m \in Carried : m.a \in Nat
    BY <1>3, CarriedTypes
  <1>5. Carried' = Carried
    BY <1>1 DEF Carried
  <1>6. \A m \in Carried : m.a < attempt' /\ m.a # attempt'
    BY <1>1, <1>2, <1>3, <1>4 DEF NetInOrder
  <1>7. Phase(attempt)' = "none"
    <2>1. ~(attempt' <= attempt)
      BY <1>3, <1>1
    <2> QED BY <1>1, <1>2, <1>3, <2>1 DEF StagedOnce, Phase
  <1>8. NetInOrder'
    <2>1. \A m \in Carried : m.a <= attempt'
      BY <1>1, <1>3, <1>4, <1>6
    <2> QED BY <1>1, <1>2, <1>5, <2>1 DEF NetInOrder
  <1>9. StagedOnce'
    <2> SUFFICES ASSUME NEW a \in Attempt
                 PROVE  /\ Phase(a) \in KeyHolder <=> tobj = a
                        /\ Phase(a) # "none" => a <= attempt'
                        /\ Phase(a) \notin {"none", "assembling"} =>
                              \A m \in Carried : m.a >= a /\ (m.a = a => m.kind \notin {"prepare", "state"})
      BY <1>1, <1>5 DEF StagedOnce, Phase
    <2>1. a \in Nat
      BY DEF Attempt
    <2>2. a <= attempt => a <= attempt'
      BY <1>1, <1>3, <2>1
    <2> QED BY <1>2, <2>2 DEF StagedOnce
  <1>10. BeforeTheCutover'
    BY <1>1, <1>5, <1>6, <1>7 DEF BeforeTheCutover, KeyHolder
  <1>11. Contents'
    <2>1. accepted \in 0..MaxRecords /\ ran \o queue = Upto(accepted)
      <3>1. row.gen = SourceGeneration
        BY <1>1 DEF IInv, Fencing, RowIsSource, Ended
      <3>2. ran \o queue \o <<>> \o <<>> = Upto(accepted)
        BY <1>1, <3>1 DEF IInv, SourceKeepsAll
      <3>3. ran \o queue \in Seq(Rec)
        BY ConcatProperties DEF IInv, Types, SourceTypes
      <3>4. accepted \in 0..MaxRecords
        BY DEF IInv, Types, SourceTypes
      <3> QED BY <3>2, <3>3, <3>4, ConcatEmptySeq
    <2>2. sphase' \notin PostBoundary
      BY <1>1 DEF PostBoundary
    <2>3. PICK k \in 0..MaxRecords : k = accepted
      BY <2>1
    <2>4. ran' \o frozen' = Upto(k)
      BY <1>1, <2>1, <2>3
    <2>5. \A m \in Carried' : m.a # attempt'
      BY <1>5, <1>6
    <2>6. ContentsAt(k)'
      BY <1>1, <1>7, <2>2, <2>4, <2>5 DEF ContentsAt, Upto
    <2> QED BY <2>3, <2>6 DEF Contents
  <1>12. ForwardsAfterCut'
    <2>1. Phase(attempt)' \notin KeyHolder /\ Phase(attempt)' # "open"
      BY <1>7 DEF KeyHolder
    <2> QED BY <1>1, <1>2, <1>5, <1>6, <2>1 DEF ForwardsAfterCut
  <1>13. RunsInOrder'
    BY <1>1, <1>2 DEF RunsInOrder
  <1> QED BY <1>8, <1>9, <1>10, <1>11, <1>12, <1>13 DEF Records

\* The prepare request, and the state behind it.
LEMMA PrepareStep == ASSUME IInv, Records, Prepare PROVE Records'
  <1> DEFINE p == Message("prepare", <<>>)
             s == Message("state", frozen)
             ms == <<p, s>>
  <1>1. /\ sphase = "sealed" /\ sphase' = "awaiting" /\ Send(ms)
        /\ UNCHANGED <<attempt, frozen, row, att, tobj, tqueue, theld, accepted, ran, cut>>
    BY DEF Prepare, store, target, history
  <1>2. NetInOrder /\ StagedOnce /\ BeforeTheCutover /\ Contents /\ ForwardsAfterCut /\ RunsInOrder
    BY DEF Records
  <1>3. net \in Seq(Msg) /\ attempt \in Attempt /\ attempt \in Nat /\ frozen \in Seq(Rec)
    BY <1>1 DEF IInv, Types, SourceTypes, Attempt
  <1>4. /\ p \in Msg /\ s \in Msg /\ p.kind = "prepare" /\ s.kind = "state"
        /\ p.a = attempt /\ s.a = attempt /\ s.recs = frozen
    BY <1>3, MessageType, EmptyRecs DEF Message
  <1> HIDE DEF p, s
  <1>5. ms \in Seq(Msg) /\ Len(ms) = 2 /\ ms[1] = p /\ ms[2] = s
    BY <1>4
  <1>6. /\ Phase(attempt) = "none"
        /\ \A m \in Carried : m.a < attempt /\ m.a \in Nat /\ m.a # attempt
    BY <1>1, <1>2, <1>3, CarriedTypes DEF BeforeTheCutover
  <1> HIDE DEF ms
  <1>7. \A i \in 1..Len(ms) : ms[i] \in {p, s}
    BY <1>5
  <1>8. /\ Carried' \subseteq Carried \cup {ms[i] : i \in 1..Len(ms)}
        /\ /\ \A i, j \in 1..Len(net) : i < j => Precedes(net[i], net[j])
           /\ \A m \in Carried : \A i \in 1..Len(ms) : Precedes(m, ms[i])
           /\ \A i, j \in 1..Len(ms) : i < j => Precedes(ms[i], ms[j])
           => \A i, j \in 1..Len(net') : i < j => Precedes(net'[i], net'[j])
    BY <1>1, <1>3, <1>5, SendCarries
  <1>9. \A m \in Carried' : m \in Carried \/ m = p \/ m = s
    BY <1>7, <1>8
  <1>10. NetInOrder'
    <2>1. \A m \in Carried : Precedes(m, p) /\ Precedes(m, s)
      BY <1>3, <1>4, <1>6 DEF Precedes
    <2>2. \A m \in Carried : \A i \in 1..Len(ms) : Precedes(m, ms[i])
      BY <1>7, <2>1
    <2>3. Precedes(p, s)
      BY <1>3, <1>4 DEF Precedes
    <2>4. \A i, j \in 1..Len(ms) : i < j => Precedes(ms[i], ms[j])
      BY <1>5, <2>3
    <2>5. \A i, j \in 1..Len(net') : i < j => Precedes(net'[i], net'[j])
      BY <1>2, <1>8, <2>2, <2>4 DEF NetInOrder
    <2>6. \A m \in Carried' : /\ m.a <= attempt
                              /\ m.kind = "forward" => Len(m.recs) = 1 /\ m.recs[1] <= accepted
      BY <1>2, <1>3, <1>4, <1>9 DEF NetInOrder
    <2> QED BY <1>1, <2>5, <2>6 DEF NetInOrder
  <1>11. StagedOnce'
    <2> SUFFICES ASSUME NEW a \in Attempt, Phase(a) \notin {"none", "assembling"}, NEW m \in Carried'
                 PROVE  m.a >= a /\ (m.a = a => m.kind \notin {"prepare", "state"})
      BY <1>1, <1>2 DEF StagedOnce, Phase
    <2>1. a <= attempt /\ a # attempt /\ a \in Nat
      BY <1>2, <1>6 DEF StagedOnce, Attempt
    <2>2. CASE m \in Carried
      BY <1>2, <2>2 DEF StagedOnce
    <2>3. CASE m = p \/ m = s
      BY <1>3, <1>4, <2>1, <2>3
    <2> QED BY <1>9, <2>2, <2>3
  <1>12. BeforeTheCutover'
    <2>1. \A m \in Carried' : m.a = attempt => m.kind \in {"prepare", "state"}
      BY <1>4, <1>6, <1>9
    <2> QED BY <1>1, <1>6, <2>1 DEF BeforeTheCutover, Phase, KeyHolder
  <1>13. Contents'
    <2>1. PICK k \in 0..MaxRecords : ContentsAt(k)
      BY <1>1, <1>2 DEF Contents
    <2>2. row.gen = SourceGeneration
      BY <1>1 DEF IInv, Fencing, RowIsSource, Ended
    <2>3. ran \o frozen = Upto(k)
      BY <1>1, <2>1, <2>2 DEF ContentsAt, Holding
    <2>4. \A m \in Carried' : m.a = attempt =>
             /\ m.kind = "state" => ran \o m.recs = Upto(k)
             /\ m.kind = "cutover" => Upto(k) \o m.recs = Upto(cut)
      BY <1>4, <1>6, <1>9, <2>3
    <2>5. sphase' \notin PostBoundary
      BY <1>1 DEF PostBoundary
    <2>6. ContentsAt(k)'
      BY <1>1, <1>6, <2>3, <2>4, <2>5 DEF ContentsAt, Phase, Upto
    <2> QED BY <2>1, <2>6 DEF Contents
  <1>14. ForwardsAfterCut'
    <2>1. \A m \in Carried' : m.kind = "forward" => m \in Carried
      BY <1>4, <1>9
    <2>2. Phase(attempt)' \notin KeyHolder /\ Phase(attempt)' # "open"
      BY <1>1, <1>6 DEF KeyHolder, Phase
    <2> QED BY <1>1, <1>2, <2>1, <2>2 DEF ForwardsAfterCut
  <1>15. RunsInOrder'
    BY <1>1, <1>2 DEF RunsInOrder
  <1> QED BY <1>10, <1>11, <1>12, <1>13, <1>14, <1>15 DEF Records

\* begin_relocation_boundary(): the batch is what was accepted since the seal.
LEMMA TakeBoundaryStep == ASSUME IInv, Records, TakeBoundary PROVE Records'
  <1>1. /\ sphase = "ready" /\ sphase' = "boundary" /\ batch' = boundary /\ cut' = accepted
        /\ UNCHANGED <<attempt, frozen, net, row, att, tobj, tqueue, theld, accepted, ran>>
    BY DEF TakeBoundary, link, store, target, history
  <1>2. NetInOrder /\ StagedOnce /\ BeforeTheCutover /\ Contents /\ ForwardsAfterCut /\ RunsInOrder
    BY DEF Records
  <1>3. attempt \in Attempt /\ accepted \in Nat
    BY <1>1 DEF IInv, Types, SourceTypes, Attempt
  <1>4. Carried' = Carried
    BY <1>1 DEF Carried
  <1>5. /\ \A m \in Carried : m.a = attempt => m.kind \in {"prepare", "state"}
        /\ Phase(attempt) \in KeyHolder => theld = <<>>
        /\ Phase(attempt) # "verified"
    BY <1>1, <1>2 DEF BeforeTheCutover, Holding, Early
  <1>6. row.gen = SourceGeneration
    BY <1>1 DEF IInv, Fencing, RowIsSource, Ended
  <1>7. Phase(attempt) \notin {"committed", "open"}
    BY <1>3, <1>6 DEF IInv, Fencing, OpenedOwnsRow, SourceGeneration
  <1>8. NetInOrder'
    BY <1>1, <1>2, <1>4 DEF NetInOrder
  <1>9. StagedOnce'
    BY <1>1, <1>2, <1>4 DEF StagedOnce, Phase
  <1>10. BeforeTheCutover'
    BY <1>1, <1>4, <1>5 DEF BeforeTheCutover, Holding, Phase
  <1>11. Contents'
    <2>1. PICK k \in 0..MaxRecords : ContentsAt(k)
      BY <1>1, <1>2 DEF Contents
    <2>2. ran \o frozen = Upto(k)
      BY <1>1, <1>6, <2>1 DEF ContentsAt, Holding
    <2>3. ran \o queue \o frozen \o boundary = Upto(accepted) /\ queue = <<>>
      BY <1>1, <1>6 DEF IInv, SourceKeepsAll
    <2>4. ran \o queue = ran
      BY <2>3, ConcatEmptySeq DEF IInv, Types, SourceTypes
    <2>5. Upto(k) \o batch' = Upto(accepted)
      BY <1>1, <2>2, <2>3, <2>4
    <2>6. \A m \in Carried' : m.a = attempt =>
             /\ m.kind = "state" => ran \o m.recs = Upto(k)
             /\ m.kind # "cutover"
      BY <1>4, <1>5, <2>1 DEF ContentsAt
    <2>7. ContentsAt(k)'
      BY <1>1, <1>5, <1>7, <2>1, <2>2, <2>5, <2>6 DEF ContentsAt, Phase, Upto
    <2> QED BY <2>1, <2>7 DEF Contents
  <1>12. ForwardsAfterCut'
    <2>1. ASSUME Phase(attempt) \in KeyHolder PROVE Held(theld)'
      <3>1. theld' = <<>> /\ Len(<<>>) = 0
        BY <1>1, <1>5, <2>1, EmptySeq
      <3> QED BY <3>1 DEF Held, After, Increasing
    <2>2. \A m \in Carried' : ~(m.kind = "forward" /\ m.a = attempt)
      BY <1>4, <1>5
    <2>3. cut' <= accepted'
      BY <1>1, <1>3
    <2> QED BY <1>1, <1>7, <2>1, <2>2, <2>3 DEF ForwardsAfterCut, Phase
  <1>13. RunsInOrder'
    BY <1>1, <1>2 DEF RunsInOrder
  <1> QED BY <1>8, <1>9, <1>10, <1>11, <1>12, <1>13 DEF Records

\* A forwarded record is a number.
LEMMA ForwardedRecord ==
  ASSUME IInv, Records
  PROVE  \A m \in Carried : m.kind = "forward" => Len(m.recs) = 1 /\ m.recs[1] \in Nat
  <1> SUFFICES ASSUME NEW m \in Carried, m.kind = "forward"
               PROVE  Len(m.recs) = 1 /\ m.recs[1] \in Nat
    OBVIOUS
  <1>1. Len(m.recs) = 1
    BY DEF Records, NetInOrder
  <1>2. m.recs \in Seq(Rec)
    BY CarriedTypes DEF IInv, Types
  <1>3. m.recs[1] \in Rec
    BY <1>1, <1>2, ElementOfSeq
  <1> QED BY <1>1, <1>3 DEF Rec

\* place_application_on_lane()
LEMMA AcceptStep == ASSUME IInv, Records, Accept PROVE Records'
  <1> DEFINE f == Message("forward", <<accepted'>>)
  <1>1. /\ accepted' = accepted + 1
        /\ UNCHANGED <<sphase, attempt, frozen, batch, row, att, tobj, tqueue, theld, ran, cut>>
        /\ \/ net' = net
           \/ sphase \in PostBoundary \cup {"followed"} /\ Send(<<f>>)
    BY DEF Accept, store, target
  <1>2. NetInOrder /\ StagedOnce /\ BeforeTheCutover /\ Contents /\ ForwardsAfterCut /\ RunsInOrder
    BY DEF Records
  <1>3. /\ net \in Seq(Msg) /\ attempt \in Nat /\ accepted \in Nat /\ cut \in Nat
        /\ accepted' \in Rec /\ accepted' \in Nat /\ accepted < accepted'
    <2>1. accepted < MaxRecords /\ accepted \in 0..MaxRecords
      BY DEF Accept, IInv, Types, SourceTypes
    <2> QED BY <1>1, <2>1, BoundsAssumption DEF IInv, Types, SourceTypes, Rec
  <1>4. \A m \in Carried : m.kind = "forward" => m.recs[1] \in Nat
    BY ForwardedRecord
  <1>5. f.kind = "forward" /\ f.a = attempt /\ f.recs[1] = accepted' /\ Len(f.recs) = 1
    BY DEF Message
  <1>6. sphase \in PostBoundary \cup {"followed"} => attempt \in Attempt /\ <<f>> \in Seq(Msg)
    <2> SUFFICES ASSUME sphase \in PostBoundary \cup {"followed"}
                 PROVE  attempt \in Attempt /\ <<f>> \in Seq(Msg)
      OBVIOUS
    <2>1. attempt \in Attempt
      BY DEF IInv, Types, SourceTypes, Attempt, PostBoundary
    <2>2. <<accepted'>> \in Seq(Rec)
      BY <1>3
    <2>3. f \in Msg
      BY <2>1, <2>2, MessageType
    <2> HIDE DEF f
    <2> QED BY <2>1, <2>3
  <1> HIDE DEF f
  <1>7. \A m \in Carried : Precedes(m, f)
    <2>1. \A m \in Carried : m.a <= attempt /\ (m.kind = "forward" => m.recs[1] < accepted')
      BY <1>2, <1>3, <1>4 DEF NetInOrder
    <2> QED BY <1>5, <2>1 DEF Precedes
  <1>8. /\ \A m \in Carried' : m \in Carried \/ (m = f /\ sphase \in PostBoundary \cup {"followed"})
        /\ \A i, j \in 1..Len(net') : i < j => Precedes(net'[i], net'[j])
    <2>1. CASE net' = net
      BY <1>2, <2>1 DEF Carried, NetInOrder
    <2>2. CASE sphase \in PostBoundary \cup {"followed"} /\ Send(<<f>>)
      <3> DEFINE ms == <<f>>
      <3>1. ms \in Seq(Msg) /\ Len(ms) = 1 /\ ms[1] = f
        BY <1>6, <2>2
      <3>2. Send(ms)
        BY <2>2
      <3> HIDE DEF ms
      <3>3. \A i \in 1..Len(ms) : ms[i] = f
        BY <3>1
      <3>4. /\ \A m \in Carried : \A i \in 1..Len(ms) : Precedes(m, ms[i])
            /\ \A i, j \in 1..Len(ms) : i < j => Precedes(ms[i], ms[j])
        BY <1>7, <3>1, <3>3
      <3>5. Carried' \subseteq Carried \cup {ms[i] : i \in 1..Len(ms)}
        BY <1>3, <3>1, <3>2, SendCarries
      <3>6. \A i, j \in 1..Len(net) : i < j => Precedes(net[i], net[j])
        BY <1>2 DEF NetInOrder
      <3>7. \A i, j \in 1..Len(net') : i < j => Precedes(net'[i], net'[j])
        BY <1>3, <3>1, <3>2, <3>4, <3>6, SendCarries
      <3> QED BY <2>2, <3>3, <3>5, <3>7
    <2> QED BY <1>1, <2>1, <2>2
  <1>9. NetInOrder'
    <2> SUFFICES ASSUME NEW m \in Carried'
                 PROVE  /\ m.a <= attempt
                        /\ m.kind = "forward" => Len(m.recs) = 1 /\ m.recs[1] <= accepted'
      BY <1>1, <1>8 DEF NetInOrder
    <2>1. CASE m \in Carried
      <3>1. /\ m.a <= attempt
            /\ m.kind = "forward" => Len(m.recs) = 1 /\ m.recs[1] <= accepted /\ m.recs[1] \in Nat
        BY <1>2, <1>4, <2>1 DEF NetInOrder
      <3> QED BY <1>3, <3>1
    <2>2. CASE m = f
      BY <1>3, <1>5, <2>2
    <2> QED BY <1>8, <2>1, <2>2
  <1>10. StagedOnce'
    <2> SUFFICES ASSUME NEW a \in Attempt, Phase(a) \notin {"none", "assembling"}, NEW m \in Carried'
                 PROVE  m.a >= a /\ (m.a = a => m.kind \notin {"prepare", "state"})
      BY <1>1, <1>2 DEF StagedOnce, Phase
    <2>1. a <= attempt
      BY <1>2 DEF StagedOnce
    <2> QED BY <1>2, <1>5, <1>8, <2>1 DEF StagedOnce
  <1>11. BeforeTheCutover'
    <2>1. sphase \in Holding => \A m \in Carried' : m \in Carried
      BY <1>8 DEF Holding, PostBoundary
    <2>2. sphase = "sealed" => sphase \in Holding
      BY DEF Holding
    <2>3. \A m \in Carried' : m \in Carried \/ m.kind # "cutover"
      BY <1>5, <1>8
    <2> QED BY <1>1, <1>2, <2>1, <2>2, <2>3 DEF BeforeTheCutover, Phase
  <1>12. Contents'
    <2>1. SUFFICES ASSUME sphase # "serving" PROVE \E k \in 0..MaxRecords : ContentsAt(k)'
      BY <1>1 DEF Contents
    <2>2. PICK k \in 0..MaxRecords : ContentsAt(k)
      BY <1>2, <2>1 DEF Contents
    <2>3. \A m \in Carried' : m.a = attempt =>
             /\ m.kind = "state" => ran \o m.recs = Upto(k)
             /\ m.kind = "cutover" => Upto(k) \o m.recs = Upto(cut)
      BY <1>5, <1>8, <2>2 DEF ContentsAt
    <2>4. ContentsAt(k)'
      BY <1>1, <2>2, <2>3 DEF ContentsAt, Phase, Upto
    <2> QED BY <2>2, <2>4
  <1>13. ForwardsAfterCut'
    <2>1. ASSUME NEW s \in Seq(Rec), After(s)
          PROVE  \A i \in 1..Len(s) : /\ s[i] <= accepted'
                                      /\ \A m \in Carried' : m.kind = "forward" => s[i] < m.recs[1]
      <3> SUFFICES ASSUME NEW i \in 1..Len(s)
                   PROVE  /\ s[i] <= accepted'
                          /\ \A m \in Carried' : m.kind = "forward" => s[i] < m.recs[1]
        OBVIOUS
      <3>1. s[i] \in Nat
        <4>1. s[i] \in Rec
          BY ElementOfSeq
        <4> QED BY <4>1 DEF Rec
      <3>2. s[i] <= accepted /\ \A m \in Carried : m.kind = "forward" => s[i] < m.recs[1]
        BY <2>1 DEF After
      <3>3. s[i] < accepted'
        BY <1>3, <3>1, <3>2
      <3> QED BY <1>3, <1>5, <1>8, <3>1, <3>2, <3>3
    <2>2. cut <= accepted'
      <3>1. cut <= accepted
        BY <1>2 DEF ForwardsAfterCut
      <3> QED BY <1>3, <3>1
    <2>3. ASSUME sphase # "serving"
          PROVE  /\ \A m \in Carried' : m.kind = "forward" /\ m.a = attempt => m.recs[1] > cut
                 /\ Phase(attempt) \in KeyHolder \ {"open"} => Held(theld)'
                 /\ Phase(attempt) = "open" => Opened(ran \o tqueue)'
      <3>1. cut < accepted'
        <4>1. cut <= accepted
          BY <1>2 DEF ForwardsAfterCut
        <4> QED BY <1>3, <4>1
      <3>2. \A m \in Carried' : m.kind = "forward" /\ m.a = attempt => m.recs[1] > cut
        BY <1>2, <1>3, <1>5, <1>8, <2>3, <3>1 DEF ForwardsAfterCut
      <3>3. theld \in Seq(Rec) /\ ran \o tqueue \in Seq(Rec)
        BY ConcatProperties DEF IInv, Types, SourceTypes, TargetTypes
      <3>4. ASSUME Phase(attempt) \in KeyHolder \ {"open"} PROVE Held(theld)'
        <4>1. Held(theld)
          BY <1>2, <2>3, <3>4 DEF ForwardsAfterCut
        <4>2. \A i \in 1..Len(theld) :
                 /\ theld[i] <= accepted'
                 /\ \A m \in Carried' : m.kind = "forward" => theld[i] < m.recs[1]
          BY <2>1, <3>3, <4>1 DEF Held
        <4> QED BY <1>1, <4>1, <4>2 DEF Held, After, Increasing
      <3>5. ASSUME Phase(attempt) = "open" PROVE Opened(ran \o tqueue)'
        <4>1. Opened(ran \o tqueue)
          BY <1>2, <2>3, <3>5 DEF ForwardsAfterCut
        <4> DEFINE s == ran \o tqueue
        <4>2. \A i \in 1..Len(s) :
                 /\ s[i] <= accepted'
                 /\ \A m \in Carried' : m.kind = "forward" => s[i] < m.recs[1]
          BY <2>1, <3>3, <4>1 DEF Opened
        <4> QED BY <1>1, <4>1, <4>2 DEF Opened, After, Increasing
      <3> QED BY <3>2, <3>4, <3>5
    <2> QED BY <1>1, <2>2, <2>3 DEF ForwardsAfterCut, Phase
  <1>14. RunsInOrder'
    BY <1>1, <1>2 DEF RunsInOrder
  <1> QED BY <1>9, <1>10, <1>11, <1>12, <1>13, <1>14 DEF Records

\* What runs first of the records 1, 2, ..., n are the first of them.
LEMMA FirstOfUpto ==
  ASSUME NEW s \in Seq(Rec), NEW t \in Seq(Rec), NEW n \in 0..MaxRecords, s \o t = Upto(n)
  PROVE  Len(s) <= n /\ \A i \in 1..Len(s) : s[i] = i
  <1>1. Len(Upto(n)) = n /\ \A i \in 1..n : Upto(n)[i] = i
    BY UptoProperties
  <1>2. /\ Len(s \o t) = Len(s) + Len(t)
        /\ \A i \in 1..Len(s) + Len(t) : (s \o t)[i] = IF i <= Len(s) THEN s[i] ELSE t[i - Len(s)]
    BY ConcatProperties
  <1>3. Len(s) \in Nat /\ Len(t) \in Nat
    BY LenProperties
  <1>4. Len(s) + Len(t) = n
    BY <1>1, <1>2
  <1>5. \A i \in 1..Len(s) : i \in 1..n /\ i <= Len(s)
    BY <1>3, <1>4
  <1> QED BY <1>1, <1>2, <1>3, <1>4, <1>5

\* try_claim() at the source.
LEMMA ServeAtSourceStep == ASSUME IInv, IInv', Records, ServeAtSource PROVE Records'
  <1>1. /\ sphase = "serving" /\ sphase' = "serving"
        /\ UNCHANGED <<attempt, frozen, batch, row, net, att, tobj, tqueue, theld, accepted, cut>>
    BY DEF ServeAtSource, link, store, target
  <1>2. NetInOrder /\ StagedOnce /\ ForwardsAfterCut
    BY DEF Records
  <1>3. Carried' = Carried
    BY <1>1 DEF Carried
  <1>4. NetInOrder' /\ StagedOnce'
    BY <1>1, <1>2, <1>3 DEF NetInOrder, StagedOnce, Phase
  <1>5. BeforeTheCutover'
    BY <1>1 DEF BeforeTheCutover, Holding, Early
  <1>6. Contents' /\ ForwardsAfterCut'
    BY <1>1, <1>2 DEF Contents, ForwardsAfterCut
  <1>7. RunsInOrder'
    <2>1. row'.gen = SourceGeneration
      BY <1>1 DEF IInv, Fencing, RowIsSource, Ended
    <2>2. ran' \in Seq(Rec) /\ queue' \in Seq(Rec) /\ accepted' \in 0..MaxRecords
      BY DEF IInv, Types, SourceTypes
    <2>3. (ran' \o queue') \o <<>> \o <<>> = Upto(accepted')
      BY <1>1, <2>1 DEF IInv, SourceKeepsAll, Upto
    <2>4. ran' \o queue' \in Seq(Rec)
      BY <2>2, ConcatProperties
    <2>5. ran' \o queue' = Upto(accepted')
      BY <2>3, <2>4, ConcatEmptySeq
    <2>6. \A i \in 1..Len(ran') : ran'[i] = i
      BY <2>2, <2>5, FirstOfUpto
    <2> QED BY <2>6 DEF RunsInOrder
  <1> QED BY <1>4, <1>5, <1>6, <1>7 DEF Records
-----------------------------------------------------------------------------
(* Steps of the target that move records.                                   *)

\* The first message precedes all others.
LEMMA ReceivedFirst ==
  ASSUME IInv, Records, NEW k, Receive(k)
  PROVE  /\ Head(net) \in Carried /\ Head(net).kind = k /\ Head(net).a \in Attempt
         /\ Head(net).a \in Nat /\ attempt \in Nat
         /\ Head(net).recs \in Seq(Rec) /\ Head(net).a <= attempt
         /\ Carried' \subseteq Carried /\ \A m \in Carried' : Precedes(Head(net), m)
         /\ NetInOrder' \/ ~UNCHANGED <<attempt, accepted>>
  <1>1. net \in Seq(Msg) /\ NetInOrder
    BY DEF IInv, Types, Records
  <1>2. /\ net' \in Seq(Msg) /\ Len(net') = Len(net) - 1 /\ Len(net) > 0 /\ Len(net) \in Nat
        /\ Head(net) \in Msg /\ Head(net) = net[1] /\ Head(net).kind = k
        /\ \A i \in 1..Len(net') : net'[i] = net[i + 1]
    BY <1>1, ReceiveProperties, LenProperties
  <1>3. Head(net) \in Carried
    <2>1. 1 \in 1..Len(net)
      BY <1>2
    <2> QED BY <1>2, <2>1 DEF Carried
  <1>4. net' \in Seq(Msg) /\ Shrinks
    BY <1>1, ReceiveShrinks
  <1>5. /\ Carried' \subseteq Carried
        /\ \A i, j \in 1..Len(net') : i < j => Precedes(net'[i], net'[j])
    BY <1>1, <1>4, ShrinksProperties DEF NetInOrder
  <1>6. ASSUME NEW i \in 1..Len(net') PROVE Precedes(net[1], net'[i])
    <2>1. 1 \in 1..Len(net) /\ i + 1 \in 1..Len(net) /\ 1 < i + 1
      BY <1>2
    <2>2. Precedes(net[1], net[i + 1])
      BY <1>1, <2>1 DEF NetInOrder
    <2> QED BY <1>2, <2>2
  <1>7. \A m \in Carried' : Precedes(Head(net), m)
    BY <1>2, <1>6 DEF Carried
  <1>8. UNCHANGED <<attempt, accepted>> => NetInOrder'
    BY <1>1, <1>5 DEF NetInOrder
  <1>9. Head(net).a \in Nat
    BY <1>1, <1>3, CarriedTypes
  <1>10. attempt \in Nat
    BY DEF IInv, Types, SourceTypes
  <1> QED BY <1>1, <1>2, <1>3, <1>5, <1>7, <1>8, <1>9, <1>10 DEF NetInOrder, Msg

\* A prepare opens an assembly, or is refused.
LEMMA ReceivePrepareStep == ASSUME IInv, IInv', Records, ReceivePrepare PROVE Records'
  <1> DEFINE a == Head(net).a
  <1>1. /\ Receive("prepare") /\ (SetPhase(a, "assembling") \/ att' = att)
        /\ UNCHANGED <<sphase, attempt, frozen, batch, row, tobj, tqueue, theld, accepted, ran, cut>>
    BY DEF ReceivePrepare, source, store, history
  <1>2. a \in Attempt /\ a <= attempt /\ Head(net) \in Carried /\ Head(net).kind = "prepare"
    BY <1>1, ReceivedFirst
  <1>3. Phase(a) \in {"none", "assembling"} /\ (sphase = "sealed" => a # attempt)
    <2>1. StagedOnce /\ BeforeTheCutover
      BY DEF Records
    <2>2. Phase(a) \in {"none", "assembling"}
      BY <1>2, <2>1 DEF StagedOnce
    <2>3. sphase = "sealed" => a < attempt
      BY <1>2, <2>1 DEF BeforeTheCutover
    <2>4. a \in Nat /\ attempt \in Nat
      BY <1>1, ReceivedFirst
    <2> HIDE DEF a
    <2> QED BY <2>2, <2>3, <2>4
  <1>4. net \in Seq(Msg) /\ att \in [Attempt -> Staging]
    BY DEF IInv, Types, TargetTypes
  <1> HIDE DEF a
  <1>5. Shrinks
    BY <1>1, <1>4, ReceiveShrinks
  <1>6. TargetCalm
    <2>1. CASE att' = att
      BY <1>1, <2>1, StayingTarget
    <2>2. CASE SetPhase(a, "assembling")
      <3>1. /\ att'[a].phase = "assembling" /\ att'[a].saved = att[a].saved
            /\ \A b \in Attempt \ {a} : att'[b] = att[b]
        BY <1>2, <1>4, <2>2, PhaseTypes
      <3>2. \A b \in Attempt : Phase(b)' = IF b = a THEN "assembling" ELSE Phase(b)
        BY <3>1 DEF Phase
      <3>3. \A b \in Attempt : Phase(b) \in KeyHolder <=> tobj = b
        BY DEF Records, StagedOnce
      <3>4. KeyIsHeld'
        BY <1>1, <1>2, <1>3, <3>2, <3>3 DEF KeyIsHeld, KeyHolder
      <3>5. ASSUME NEW b \in Attempt
            PROVE  /\ Fades(Phase(b), Phase(b)') \/ Begins(b)
                   /\ Phase(b)' = "restoring" => att'[b].saved = att[b].saved
        BY <1>1, <1>2, <1>3, <3>1, <3>2 DEF Fades, Begins
      <3> QED BY <1>1, <3>4, <3>5 DEF TargetCalm
    <2> QED BY <1>1, <2>1, <2>2
  <1>7. Calm
    BY <1>1, <1>5, <1>6 DEF Calm, TargetCalm, Eases
  <1> QED BY <1>7, CalmStep

\* The assembled state becomes a staging.
LEMMA ReceiveStateStep == ASSUME IInv, IInv', Records, ReceiveState PROVE Records'
  <1> DEFINE h == Head(net)
             a == h.a
  <1>1. /\ Receive("state")
        /\ UNCHANGED <<sphase, attempt, frozen, batch, row, tobj, tqueue, theld, accepted, ran, cut>>
        /\ att' = IF Phase(a) = "assembling"
                  THEN [att EXCEPT ![a] = [phase |-> "restoring", saved |-> h.recs, batch |-> <<>>]]
                  ELSE att
    BY DEF ReceiveState, source, store, history
  <1>2. NetInOrder /\ StagedOnce /\ BeforeTheCutover /\ Contents /\ ForwardsAfterCut /\ RunsInOrder
    BY DEF Records
  <1>3. /\ a \in Attempt /\ a <= attempt /\ h \in Carried /\ h.kind = "state"
        /\ Carried' \subseteq Carried /\ (\A m \in Carried' : Precedes(h, m)) /\ NetInOrder'
    BY <1>1, ReceivedFirst
  <1>4. net \in Seq(Msg) /\ att \in [Attempt -> Staging] /\ attempt \in Nat /\ a \in Nat
    <2>1. attempt \in Nat /\ a \in Nat
      BY <1>1, ReceivedFirst
    <2> QED BY <2>1 DEF IInv, Types, TargetTypes
  <1> HIDE DEF a, h
  <1>5. CASE Phase(a) # "assembling"
    <2>1. att' = att
      BY <1>1, <1>5
    <2>2. TargetCalm
      BY <1>1, <2>1, StayingTarget
    <2>3. Shrinks
      BY <1>1, <1>4, ReceiveShrinks
    <2>4. Calm
      BY <1>1, <2>2, <2>3 DEF Calm, TargetCalm, Eases
    <2> QED BY <2>4, CalmStep
  <1>6. CASE Phase(a) = "assembling"
    <2>1. att' = [att EXCEPT ![a] = [phase |-> "restoring", saved |-> h.recs, batch |-> <<>>]]
      BY <1>1, <1>6
    <2>2. /\ att'[a].phase = "restoring" /\ att'[a].saved = h.recs
          /\ \A b \in Attempt \ {a} : att'[b] = att[b]
      BY <1>3, <1>4, <2>1
    <2>3. \A b \in Attempt : Phase(b)' = IF b = a THEN "restoring" ELSE Phase(b)
      BY <2>2 DEF Phase
    <2>4. StagedOnce'
      <3> SUFFICES ASSUME NEW b \in Attempt
                   PROVE  /\ Phase(b)' \in KeyHolder <=> tobj = b
                          /\ Phase(b)' # "none" => b <= attempt
                          /\ Phase(b)' \notin {"none", "assembling"} =>
                                \A m \in Carried' : m.a >= b /\ (m.a = b => m.kind \notin {"prepare", "state"})
        BY <1>1 DEF StagedOnce
      <3>1. CASE b = a
        <4>1. ASSUME NEW m \in Carried'
              PROVE  m.a >= a /\ (m.a = a => m.kind \notin {"prepare", "state"})
          <5>1. Precedes(h, m) /\ h.a = a /\ m.a \in Nat
            BY <1>3, <1>4, <4>1, CarriedTypes DEF a
          <5>2. a <= m.a
            BY <5>1 DEF Precedes
          <5> QED BY <1>3, <1>4, <5>1, <5>2 DEF Precedes
        <4>2. tobj # a
          BY <1>2, <1>3, <1>6 DEF StagedOnce, KeyHolder
        <4> QED BY <1>3, <2>3, <3>1, <4>1, <4>2 DEF KeyHolder
      <3>2. CASE b # a
        BY <1>2, <1>3, <2>3, <3>2 DEF StagedOnce
      <3> QED BY <3>1, <3>2
    <2>5. BeforeTheCutover'
      <3>1. sphase = "sealed" => a # attempt
        <4>1. sphase = "sealed" => h.a < attempt
          BY <1>2, <1>3 DEF BeforeTheCutover
        <4>2. h.a = a
          BY DEF a
        <4>3. attempt \in Nat
          BY <1>4
        <4> QED BY <4>1, <4>2, <4>3
      <3>2. sphase \in Holding \cup Early => attempt \in Attempt
        <4>1. sphase # "serving" => attempt \in Attempt
          BY DEF IInv, Types, SourceTypes, Attempt
        <4> QED BY <4>1 DEF Holding, Early
      <3>3. /\ sphase \in Holding => (Phase(attempt)' \in KeyHolder => theld' = <<>>)
            /\ sphase \in Early => Phase(attempt)' # "verified"
        BY <1>1, <1>2, <2>3, <3>2 DEF BeforeTheCutover, KeyHolder
      <3>4. sphase = "sealed" => Phase(attempt)' = "none"
        BY <1>1, <1>2, <2>3, <3>1, <3>2 DEF BeforeTheCutover, Holding
      <3> QED BY <1>1, <1>2, <1>3, <3>3, <3>4 DEF BeforeTheCutover
    <2>6. Contents'
      <3>1. SUFFICES ASSUME sphase # "serving" PROVE \E k \in 0..MaxRecords : ContentsAt(k)'
        BY <1>1 DEF Contents
      <3>2. PICK k \in 0..MaxRecords : ContentsAt(k)
        BY <1>2, <3>1 DEF Contents
      <3>3. attempt \in Attempt
        BY <3>1 DEF IInv, Types, SourceTypes, Attempt
      <3>4. Phase(attempt)' = "restoring" => ran \o att'[attempt].saved = Upto(k)
        <4>1. CASE attempt = a
          BY <1>3, <2>2, <3>2, <4>1 DEF ContentsAt, a
        <4>2. CASE attempt # a
          <5>1. att'[attempt] = att[attempt] /\ Phase(attempt)' = Phase(attempt)
            BY <1>1, <2>2, <2>3, <3>3, <4>2
          <5> QED BY <3>2, <5>1 DEF ContentsAt
        <4> QED BY <4>1, <4>2
      <3>5. /\ Phase(attempt)' \in {"restored", "ready"} => ran \o tqueue = Upto(k)
            /\ Phase(attempt)' \in {"verified", "committed"} => ran \o tqueue = Upto(cut)
        BY <1>1, <2>3, <3>2, <3>3 DEF ContentsAt
      <3>6. \A m \in Carried' : m.a = attempt =>
               /\ m.kind = "state" => ran \o m.recs = Upto(k)
               /\ m.kind = "cutover" => Upto(k) \o m.recs = Upto(cut)
        BY <1>3, <3>2 DEF ContentsAt
      <3>7. ContentsAt(k)'
        BY <1>1, <3>2, <3>4, <3>5, <3>6 DEF ContentsAt, Upto
      <3> QED BY <3>2, <3>7
    <2>7. ForwardsAfterCut'
      <3>1. cut' <= accepted'
        BY <1>1, <1>2 DEF ForwardsAfterCut
      <3>2. ASSUME sphase # "serving"
            PROVE  /\ \A m \in Carried' : m.kind = "forward" /\ m.a = attempt => m.recs[1] > cut
                   /\ Phase(attempt)' \in KeyHolder \ {"open"} => Held(theld)'
                   /\ Phase(attempt)' = "open" => Opened(ran \o tqueue)'
        <4>1. attempt \in Attempt
          BY <3>2 DEF IInv, Types, SourceTypes, Attempt
        <4>2. /\ Phase(attempt)' \in KeyHolder \ {"open"} => Phase(attempt) \in KeyHolder \ {"open"}
              /\ Phase(attempt)' = "open" => Phase(attempt) = "open"
          BY <1>1, <2>3, <4>1 DEF KeyHolder
        <4>3. /\ Phase(attempt) \in KeyHolder \ {"open"} => Held(theld)'
              /\ Phase(attempt) = "open" => Opened(ran \o tqueue)'
          BY <1>1, <1>2, <1>3, <3>2 DEF ForwardsAfterCut, Held, Opened, After, Increasing
        <4> QED BY <1>2, <1>3, <3>2, <4>2, <4>3 DEF ForwardsAfterCut
      <3> QED BY <1>1, <3>1, <3>2 DEF ForwardsAfterCut
    <2>8. RunsInOrder'
      BY <1>1, <1>2 DEF RunsInOrder
    <2> QED BY <1>3, <2>4, <2>5, <2>6, <2>7, <2>8 DEF Records
  <1> QED BY <1>5, <1>6

\* restore_relocation(): the captured queue is the record's queue.
LEMMA RestoreStep == ASSUME IInv, IInv', Records, NEW a \in Attempt, Restore(a) PROVE Records'
  <1>1. /\ Phase(a) = "restoring" /\ tobj = 0 /\ tobj' = a /\ tqueue' = att[a].saved /\ theld' = <<>>
        /\ att' = [att EXCEPT ![a].phase = "restored", ![a].saved = <<>>]
        /\ UNCHANGED <<sphase, attempt, frozen, batch, row, net, accepted, ran, cut>>
    BY DEF Restore, source, store, link, history
  <1>2. NetInOrder /\ StagedOnce /\ BeforeTheCutover /\ Contents /\ ForwardsAfterCut /\ RunsInOrder
    BY DEF Records
  <1>3. Carried' = Carried
    BY <1>1 DEF Carried
  <1>4. \A b \in Attempt : Phase(b)' = IF b = a THEN "restored" ELSE Phase(b)
    <2>1. att \in [Attempt -> Staging]
      BY DEF IInv, Types, TargetTypes
    <2>2. att' = [att EXCEPT ![a] = [att[a] EXCEPT !.phase = "restored", !.saved = <<>>]]
      BY <1>1
    <2>3. att[a] \in Staging
      BY <2>1
    <2>4. [att[a] EXCEPT !.phase = "restored", !.saved = <<>>].phase = "restored"
      BY <2>3 DEF Staging
    <2>5. att'[a].phase = "restored" /\ \A b \in Attempt \ {a} : att'[b] = att[b]
      BY <2>1, <2>2, <2>4
    <2> QED BY <2>5 DEF Phase
  <1>5. \A b \in Attempt : b # 0 /\ Phase(b) \notin KeyHolder
    BY <1>1, <1>2 DEF StagedOnce, Attempt
  <1>6. sphase # "serving" => attempt \in Attempt
    BY DEF IInv, Types, SourceTypes, Attempt
  <1>7. att'[attempt].saved = att[attempt].saved \/ attempt = a \/ attempt \notin Attempt
    <2>1. att \in [Attempt -> Staging]
      BY DEF IInv, Types, TargetTypes
    <2>2. att' = [att EXCEPT ![a] = [att[a] EXCEPT !.phase = "restored", !.saved = <<>>]]
      BY <1>1
    <2> QED BY <2>1, <2>2
  <1>8. NetInOrder'
    BY <1>1, <1>2, <1>3 DEF NetInOrder
  <1>9. StagedOnce'
    <2> SUFFICES ASSUME NEW b \in Attempt
                 PROVE  /\ Phase(b)' \in KeyHolder <=> a = b
                        /\ Phase(b)' # "none" => b <= attempt
                        /\ Phase(b)' \notin {"none", "assembling"} =>
                              \A m \in Carried : m.a >= b /\ (m.a = b => m.kind \notin {"prepare", "state"})
      BY <1>1, <1>3 DEF StagedOnce
    <2>1. CASE b = a
      BY <1>1, <1>2, <1>4, <2>1 DEF StagedOnce, KeyHolder
    <2>2. CASE b # a
      BY <1>2, <1>4, <1>5, <2>2 DEF StagedOnce
    <2> QED BY <2>1, <2>2
  <1>10. BeforeTheCutover'
    <2>1. sphase \in Holding \cup Early => attempt \in Attempt
      BY <1>6 DEF Holding, Early
    <2>2. sphase = "sealed" => Phase(attempt)' = "none"
      BY <1>1, <1>2, <1>4, <2>1 DEF BeforeTheCutover, Early
    <2>3. sphase \in Early => Phase(attempt)' # "verified"
      BY <1>1, <1>2, <1>4, <2>1 DEF BeforeTheCutover
    <2> QED BY <1>1, <1>2, <1>3, <2>2, <2>3 DEF BeforeTheCutover
  <1>11. Contents'
    <2>1. SUFFICES ASSUME sphase # "serving" PROVE \E k \in 0..MaxRecords : ContentsAt(k)'
      BY <1>1 DEF Contents
    <2>2. PICK k \in 0..MaxRecords : ContentsAt(k)
      BY <1>2, <2>1 DEF Contents
    <2>3. attempt \in Attempt
      BY <1>6, <2>1
    <2>4. /\ Phase(attempt)' = "restoring" => ran \o att'[attempt].saved = Upto(k)
          /\ Phase(attempt)' \in {"restored", "ready"} => ran \o tqueue' = Upto(k)
          /\ Phase(attempt)' \notin {"verified", "committed"}
      <3>1. CASE attempt = a
        BY <1>1, <1>4, <2>2, <2>3, <3>1 DEF ContentsAt
      <3>2. CASE attempt # a
        <4>1. Phase(attempt)' = Phase(attempt) /\ att'[attempt].saved = att[attempt].saved
          BY <1>1, <1>4, <1>7, <2>3, <3>2
        <4> QED BY <1>5, <2>2, <2>3, <4>1 DEF ContentsAt, KeyHolder
      <3> QED BY <3>1, <3>2
    <2>5. ContentsAt(k)'
      BY <1>1, <1>3, <2>2, <2>4 DEF ContentsAt, Upto
    <2> QED BY <2>2, <2>5
  <1>12. ForwardsAfterCut'
    <2>1. Held(theld)'
      <3>1. theld' = <<>> /\ Len(<<>>) = 0
        BY <1>1, EmptySeq
      <3> QED BY <3>1 DEF Held, After, Increasing
    <2>2. sphase # "serving" => Phase(attempt)' # "open"
      BY <1>1, <1>4, <1>5, <1>6 DEF KeyHolder
    <2> QED BY <1>1, <1>2, <1>3, <2>1, <2>2 DEF ForwardsAfterCut
  <1>13. RunsInOrder'
    BY <1>1, <1>2 DEF RunsInOrder
  <1> QED BY <1>8, <1>9, <1>10, <1>11, <1>12, <1>13 DEF Records

\* Two increasing sequences, one after the other.
LEMMA Joined ==
  ASSUME NEW s \in Seq(Rec), NEW t \in Seq(Rec), Increasing(s), Increasing(t),
         \A i \in 1..Len(s) : \A j \in 1..Len(t) : s[i] < t[j]
  PROVE  /\ s \o t \in Seq(Rec) /\ Increasing(s \o t)
         /\ Len(s \o t) >= Len(s) /\ \A i \in 1..Len(s) : (s \o t)[i] = s[i]
         /\ \A i \in 1..Len(s \o t) : \/ \E j \in 1..Len(s) : (s \o t)[i] = s[j]
                                      \/ \E j \in 1..Len(t) : (s \o t)[i] = t[j]
  <1> DEFINE u == s \o t
  <1>1. /\ u \in Seq(Rec) /\ Len(u) = Len(s) + Len(t)
        /\ \A i \in 1..Len(s) + Len(t) : u[i] = IF i <= Len(s) THEN s[i] ELSE t[i - Len(s)]
    BY ConcatProperties
  <1>2. Len(s) \in Nat /\ Len(t) \in Nat
    BY LenProperties
  <1> HIDE DEF u
  <1>3. ASSUME NEW i \in 1..Len(u)
        PROVE  \/ i \in 1..Len(s) /\ u[i] = s[i]
               \/ i > Len(s) /\ i - Len(s) \in 1..Len(t) /\ u[i] = t[i - Len(s)]
    <2>1. CASE i <= Len(s)
      BY <1>1, <1>2, <2>1
    <2>2. CASE i > Len(s)
      <3>1. i - Len(s) \in 1..Len(t) /\ ~(i <= Len(s)) /\ i \in 1..Len(s) + Len(t)
        BY <1>1, <1>2, <2>2
      <3> QED BY <1>1, <2>2, <3>1
    <2>3. i <= Len(s) \/ i > Len(s)
      BY <1>1, <1>2
    <2> QED BY <2>1, <2>2, <2>3
  <1>4. ASSUME NEW i \in 1..Len(u), NEW j \in 1..Len(u), i < j PROVE u[i] < u[j]
    <2>1. i \in Nat /\ j \in Nat
      BY <1>1, <1>2
    <2>2. CASE j \in 1..Len(s) /\ u[j] = s[j]
      <3>1. i \in 1..Len(s)
        BY <1>2, <1>4, <2>1, <2>2
      <3>2. u[i] = s[i]
        BY <1>2, <1>3, <2>1, <3>1
      <3> QED BY <1>4, <2>2, <3>1, <3>2 DEF Increasing
    <2>3. CASE j > Len(s) /\ j - Len(s) \in 1..Len(t) /\ u[j] = t[j - Len(s)]
      <3>1. CASE i \in 1..Len(s) /\ u[i] = s[i]
        BY <2>3, <3>1
      <3>2. CASE i > Len(s) /\ i - Len(s) \in 1..Len(t) /\ u[i] = t[i - Len(s)]
        <4>1. i - Len(s) < j - Len(s)
          BY <1>2, <1>4, <2>1
        <4> QED BY <2>3, <3>2, <4>1 DEF Increasing
      <3> QED BY <1>3, <3>1, <3>2
    <2> QED BY <1>3, <2>2, <2>3
  <1>5. Increasing(u)
    BY <1>4 DEF Increasing
  <1>6. Len(u) >= Len(s) /\ \A i \in 1..Len(s) : u[i] = s[i]
    BY <1>1, <1>2
  <1>7. ASSUME NEW i \in 1..Len(u)
        PROVE  (\E j \in 1..Len(s) : u[i] = s[j]) \/ (\E j \in 1..Len(t) : u[i] = t[j])
    BY <1>3
  <1> QED BY <1>1, <1>5, <1>6, <1>7 DEF u

\* The records of a staging or of the opened queue are followed by the next
\* forwarded one.
LEMMA OneMore ==
  ASSUME IInv, Records, NEW s \in Seq(Rec), Increasing(s), After(s),
         Receive("forward"), UNCHANGED accepted
  PROVE  LET t == s \o Head(net).recs
         IN  /\ t \in Seq(Rec) /\ Increasing(t) /\ Len(t) >= Len(s)
             /\ \A i \in 1..Len(s) : t[i] = s[i]
             /\ \A i \in 1..Len(t) : (\E j \in 1..Len(s) : t[i] = s[j]) \/ t[i] = Head(net).recs[1]
             /\ \A i \in 1..Len(t) : /\ t[i] <= accepted
                                     /\ \A m \in Carried' : m.kind = "forward" => t[i] < m.recs[1]
  <1> DEFINE h == Head(net)
             r == h.recs
             t == s \o r
  <1>1. /\ h \in Carried /\ h.kind = "forward" /\ r \in Seq(Rec)
        /\ Carried' \subseteq Carried /\ \A m \in Carried' : Precedes(h, m)
    BY ReceivedFirst
  <1>2. Len(r) = 1 /\ r[1] <= accepted
    BY <1>1 DEF Records, NetInOrder
  <1>3. \A i \in 1..Len(s) : /\ s[i] <= accepted
                             /\ \A m \in Carried : m.kind = "forward" => s[i] < m.recs[1]
    BY DEF After
  <1> HIDE DEF h
  <1>4. Increasing(r) /\ \A j \in 1..Len(r) : r[j] = r[1]
    BY <1>2 DEF Increasing
  <1>5. \A i \in 1..Len(s) : \A j \in 1..Len(r) : s[i] < r[j]
    BY <1>1, <1>3, <1>4
  <1> HIDE DEF r
  <1>6. /\ t \in Seq(Rec) /\ Increasing(t) /\ Len(t) >= Len(s) /\ \A i \in 1..Len(s) : t[i] = s[i]
        /\ \A i \in 1..Len(t) : (\E j \in 1..Len(s) : t[i] = s[j]) \/ (\E j \in 1..Len(r) : t[i] = r[j])
    BY <1>1, <1>4, <1>5, Joined
  <1>7. \A m \in Carried' : m.kind = "forward" => r[1] < m.recs[1]
    BY <1>1 DEF Precedes, r
  <1> HIDE DEF t
  <1>8. \A i \in 1..Len(t) : (\E j \in 1..Len(s) : t[i] = s[j]) \/ t[i] = r[1]
    BY <1>4, <1>6
  <1>9. ASSUME NEW i \in 1..Len(t)
        PROVE  t[i] <= accepted /\ \A m \in Carried' : m.kind = "forward" => t[i] < m.recs[1]
    <2>1. CASE t[i] = r[1]
      BY <1>2, <1>7, <2>1
    <2>2. CASE \E j \in 1..Len(s) : t[i] = s[j]
      BY <1>1, <1>3, <2>2
    <2> QED BY <1>8, <2>1, <2>2
  <1> QED BY <1>6, <1>8, <1>9 DEF t, r, h

\* A forwarded record is held behind the ones before it, or queued behind them.
LEMMA ReceiveForwardStep == ASSUME IInv, IInv', Records, ReceiveForward PROVE Records'
  <1> DEFINE h == Head(net)
             p == IF tobj = 0 THEN "none" ELSE Phase(tobj)
  <1>1. /\ Receive("forward")
        /\ theld' = IF p \in Recovering THEN theld \o h.recs ELSE theld
        /\ tqueue' = IF p = "open" THEN tqueue \o h.recs ELSE tqueue
        /\ UNCHANGED <<sphase, attempt, frozen, batch, row, att, tobj, accepted, ran, cut>>
    BY DEF ReceiveForward, source, store, history
  <1>2. NetInOrder /\ StagedOnce /\ BeforeTheCutover /\ Contents /\ ForwardsAfterCut /\ RunsInOrder
    BY DEF Records
  <1>3. /\ h.a \in Attempt /\ h.a \in Nat /\ attempt \in Nat /\ h.a <= attempt /\ h \in Carried
        /\ h.kind = "forward" /\ h.recs \in Seq(Rec) /\ Carried' \subseteq Carried /\ NetInOrder'
    BY <1>1, ReceivedFirst
  <1>4. net \in Seq(Msg) /\ tqueue \in Seq(Rec) /\ theld \in Seq(Rec) /\ ran \in Seq(Rec)
    BY DEF IInv, Types, SourceTypes, TargetTypes
  <1>5. \A b : Phase(b)' = Phase(b)
    BY <1>1 DEF Phase
  <1> HIDE DEF h, p
  <1>6. CASE p \notin Recovering \cup {"open"}
    <2>1. UNCHANGED <<tqueue, theld>>
      BY <1>1, <1>6
    <2>2. TargetCalm
      BY <1>1, <2>1, StayingTarget
    <2>3. Shrinks
      BY <1>1, <1>4, ReceiveShrinks
    <2>4. Calm
      BY <1>1, <2>2, <2>3 DEF Calm, TargetCalm, Eases
    <2> QED BY <2>4, CalmStep
  <1>7. CASE p \in Recovering \cup {"open"}
    <2>1. tobj # 0 /\ p = Phase(tobj)
      BY <1>7 DEF p, Recovering
    <2>2. \A b \in Attempt : Phase(b) \in KeyHolder <=> tobj = b
      BY <1>2 DEF StagedOnce
    <2>3. ASSUME tobj = attempt, sphase # "serving"
          PROVE  h.a = attempt /\ h.recs[1] > cut /\ sphase \notin Holding
      <3>1. attempt \in Attempt
        BY <2>3 DEF IInv, Types, SourceTypes, Attempt
      <3>2. Phase(attempt) \notin {"none", "assembling"}
        BY <2>2, <2>3, <3>1 DEF KeyHolder
      <3>3. h.a >= attempt
        BY <1>2, <1>3, <3>1, <3>2 DEF StagedOnce
      <3>4. h.a = attempt
        BY <1>3, <3>3
      <3>5. sphase \notin Holding
        BY <1>2, <1>3, <3>4 DEF BeforeTheCutover
      <3> QED BY <1>2, <1>3, <2>3, <3>4, <3>5 DEF ForwardsAfterCut
    <2>4. StagedOnce'
      BY <1>1, <1>2, <1>3, <1>5 DEF StagedOnce
    <2>5. sphase # "serving" => attempt \in Attempt
      BY DEF IInv, Types, SourceTypes, Attempt
    <2>6. Phase(attempt)' = Phase(attempt)
      BY <1>1, <1>5
    <2>7. BeforeTheCutover'
      <3>1. sphase \in Holding => sphase # "serving"
        BY DEF Holding
      <3>2. sphase \in Holding => Phase(attempt) \notin KeyHolder
        BY <2>2, <2>3, <2>5, <3>1
      <3> QED BY <1>1, <1>2, <1>3, <2>6, <3>2 DEF BeforeTheCutover
    <2>8. Contents'
      <3>1. SUFFICES ASSUME sphase # "serving" PROVE \E k \in 0..MaxRecords : ContentsAt(k)'
        BY <1>1 DEF Contents
      <3>2. PICK k \in 0..MaxRecords : ContentsAt(k)
        BY <1>2, <3>1 DEF Contents
      <3>3. Phase(attempt) \in {"restored", "ready", "verified", "committed"} => tqueue' = tqueue
        <4>1. Phase(attempt) \in {"restored", "ready", "verified", "committed"} => tobj = attempt
          BY <2>2, <2>5, <3>1 DEF KeyHolder
        <4> QED BY <1>1, <2>1, <4>1
      <3>4. ContentsAt(k)'
        BY <1>1, <1>3, <2>6, <3>2, <3>3 DEF ContentsAt, Upto
      <3> QED BY <3>2, <3>4
    <2>9. ForwardsAfterCut'
      <3>1. cut' <= accepted'
        BY <1>1, <1>2 DEF ForwardsAfterCut
      <3>2. ASSUME sphase # "serving"
            PROVE  /\ \A m \in Carried' : m.kind = "forward" /\ m.a = attempt => m.recs[1] > cut
                   /\ Phase(attempt) \in KeyHolder \ {"open"} => Held(theld)'
                   /\ Phase(attempt) = "open" => Opened(ran \o tqueue)'
        <4>1. attempt \in Attempt
          BY <2>5, <3>2
        <4>2. ASSUME Phase(attempt) \in KeyHolder \ {"open"} PROVE Held(theld)'
          <5>1. tobj = attempt /\ p \in Recovering /\ theld' = theld \o h.recs /\ h.recs[1] > cut
            BY <1>1, <1>7, <2>1, <2>2, <2>3, <3>2, <4>1, <4>2
          <5>2. Increasing(theld) /\ After(theld) /\ \A i \in 1..Len(theld) : theld[i] > cut
            BY <1>2, <3>2, <4>2 DEF ForwardsAfterCut, Held
          <5> DEFINE t == theld \o h.recs
          <5>3. /\ Increasing(t)
                /\ \A i \in 1..Len(t) : (\E j \in 1..Len(theld) : t[i] = theld[j]) \/ t[i] = h.recs[1]
                /\ \A i \in 1..Len(t) : /\ t[i] <= accepted
                                        /\ \A m \in Carried' : m.kind = "forward" => t[i] < m.recs[1]
            BY <1>1, <1>4, <5>2, OneMore DEF h
          <5>t. theld' = t
            BY <5>1
          <5> HIDE DEF t
          <5>4. \A i \in 1..Len(t) : t[i] > cut
            BY <5>1, <5>2, <5>3
          <5> QED BY <1>1, <5>3, <5>4, <5>t DEF Held, After, Increasing
        <4>3. ASSUME Phase(attempt) = "open" PROVE Opened(ran \o tqueue)'
          <5> DEFINE s == ran \o tqueue
                     t == s \o h.recs
          <5>1. tobj = attempt /\ p = "open" /\ tqueue' = tqueue \o h.recs
            BY <1>1, <2>1, <2>2, <4>1, <4>3 DEF KeyHolder
          <5>2. s \in Seq(Rec)
            BY <1>4, ConcatProperties
          <5>8. ran \o (tqueue \o h.recs) = t
            <6>1. (ran \o tqueue) \o h.recs = ran \o (tqueue \o h.recs)
              BY <1>3, <1>4, Regroup, Zenon
            <6> QED BY <6>1, Zenon
          <5>3. Opened(s)
            BY <1>2, <3>2, <4>3 DEF ForwardsAfterCut
          <5> HIDE DEF s
          <5>4. /\ Increasing(s) /\ After(s) /\ Len(s) >= cut /\ \A i \in 1..cut : s[i] = i
            BY <5>3 DEF Opened
          <5>5. /\ t \in Seq(Rec) /\ Increasing(t) /\ Len(t) >= Len(s) /\ \A i \in 1..Len(s) : t[i] = s[i]
                /\ \A i \in 1..Len(t) : /\ t[i] <= accepted
                                        /\ \A m \in Carried' : m.kind = "forward" => t[i] < m.recs[1]
            BY <1>1, <5>2, <5>4, OneMore DEF h
          <5> HIDE DEF t
          <5>6. Len(t) >= cut /\ \A i \in 1..cut : t[i] = i
            <6>1. cut \in Nat /\ Len(s) \in Nat /\ Len(t) \in Nat
              BY <5>2, <5>5, LenProperties DEF IInv, Types, SourceTypes
            <6>2. \A i \in 1..cut : i \in 1..Len(s)
              BY <5>4, <6>1
            <6> QED BY <5>4, <5>5, <6>1, <6>2
          <5>7. (ran \o tqueue)' = t
            BY <1>1, <5>1, <5>8
          <5>9. Increasing(ran \o tqueue)'
            BY <5>5, <5>7 DEF Increasing
          <5>10. After(ran \o tqueue)'
            BY <1>1, <5>5, <5>7 DEF After
          <5>11. Len((ran \o tqueue)') >= cut' /\ \A i \in 1..cut' : (ran \o tqueue)'[i] = i
            BY <1>1, <5>6, <5>7
          <5> QED BY <5>9, <5>10, <5>11 DEF Opened
        <4> QED BY <1>2, <1>3, <3>2, <4>2, <4>3 DEF ForwardsAfterCut
      <3> QED BY <1>1, <2>6, <3>1, <3>2 DEF ForwardsAfterCut
    <2>10. RunsInOrder'
      BY <1>1, <1>2 DEF RunsInOrder
    <2> QED BY <1>3, <2>4, <2>7, <2>8, <2>9, <2>10 DEF Records
  <1> QED BY <1>6, <1>7

\* A verified cutover puts the boundary batch behind the captured queue.
Verifies(m) ==
    /\ Phase(m.a) = "ready" /\ Matches(att[m.a].batch, m.recs)
    /\ att' = [att EXCEPT ![m.a].phase = "verified", ![m.a].batch = <<>>]
    /\ tqueue' = StagedQueue(att[m.a].batch, Len(m.recs))
    /\ UNCHANGED <<tobj, theld>>

LEMMA VerifiedCutover ==
  ASSUME IInv, IInv', Records, ReceiveCutover, Verifies(Head(net)) PROVE Records'
  <1> DEFINE h == Head(net)
             a == h.a
  <1>1. /\ Receive("cutover") /\ Phase(a) = "ready" /\ Matches(att[a].batch, h.recs)
        /\ att' = [att EXCEPT ![a].phase = "verified", ![a].batch = <<>>]
        /\ tqueue' = StagedQueue(att[a].batch, Len(h.recs))
        /\ UNCHANGED <<sphase, attempt, frozen, batch, row, tobj, theld, accepted, ran, cut>>
    BY DEF ReceiveCutover, Verifies, source, store, history
  <1>2. NetInOrder /\ StagedOnce /\ BeforeTheCutover /\ Contents /\ ForwardsAfterCut /\ RunsInOrder
    BY DEF Records
  <1>3. /\ a \in Attempt /\ a <= attempt /\ h \in Carried /\ h.kind = "cutover"
        /\ h.recs \in Seq(Rec) /\ Carried' \subseteq Carried /\ NetInOrder'
    BY <1>1, ReceivedFirst
  <1>4. att \in [Attempt -> Staging] /\ tqueue \in Seq(Rec) /\ ran \in Seq(Rec)
    BY DEF IInv, Types, SourceTypes, TargetTypes
  <1>h. h.a = a
    OBVIOUS
  <1> HIDE DEF a, h
  <1>5. tqueue' = tqueue \o h.recs
    <2>1. att[a].batch \in Seq(Rec)
      BY <1>3, <1>4 DEF Staging
    <2>2. SubSeq(att[a].batch, Len(att[a].batch) - Len(h.recs) + 1, Len(att[a].batch)) = h.recs
      BY <1>1, <1>3, <2>1, MatchedSuffix
    <2> QED BY <1>1, <2>2 DEF StagedQueue
  <1>6. /\ \A b \in Attempt : Phase(b)' = IF b = a THEN "verified" ELSE Phase(b)
        /\ \A b \in Attempt \ {a} : att'[b] = att[b]
    <2>2. att' = [att EXCEPT ![a] = [att[a] EXCEPT !.phase = "verified", !.batch = <<>>]]
      BY <1>1
    <2>3. att[a] \in Staging
      BY <1>3, <1>4
    <2>4. [att[a] EXCEPT !.phase = "verified", !.batch = <<>>].phase = "verified"
      BY <2>3 DEF Staging
    <2>5. att'[a].phase = "verified" /\ \A b \in Attempt \ {a} : att'[b] = att[b]
      BY <1>3, <1>4, <2>2, <2>4
    <2> QED BY <2>5 DEF Phase
  <1>7. \A b \in Attempt : Phase(b) \in KeyHolder <=> b = a
    <2>1. \A b \in Attempt : Phase(b) \in KeyHolder <=> tobj = b
      BY <1>2 DEF StagedOnce
    <2>2. tobj = a
      BY <1>1, <1>3, <2>1 DEF KeyHolder
    <2> QED BY <2>1, <2>2
  <1>8. sphase # "serving" => attempt \in Attempt
    BY DEF IInv, Types, SourceTypes, Attempt
  <1>9. StagedOnce'
    <2> SUFFICES ASSUME NEW b \in Attempt
                 PROVE  /\ Phase(b)' \in KeyHolder <=> tobj = b
                        /\ Phase(b)' # "none" => b <= attempt
                        /\ Phase(b)' \notin {"none", "assembling"} =>
                              \A m \in Carried' : m.a >= b /\ (m.a = b => m.kind \notin {"prepare", "state"})
      BY <1>1 DEF StagedOnce
    <2>1. CASE b = a
      BY <1>1, <1>2, <1>3, <1>6, <2>1 DEF StagedOnce, KeyHolder
    <2>2. CASE b # a
      BY <1>2, <1>3, <1>6, <2>2 DEF StagedOnce
    <2> QED BY <2>1, <2>2
  <1>10. BeforeTheCutover'
    <2>1. sphase \in Early => a # attempt /\ attempt \in Attempt
      BY <1>2, <1>3, <1>8, <1>h DEF BeforeTheCutover, Early
    <2>2. sphase \in Early => Phase(attempt)' = Phase(attempt)
      BY <1>1, <1>6, <2>1
    <2>3. Holding \subseteq Early /\ "sealed" \in Early
      BY DEF Holding, Early
    <2> QED BY <1>1, <1>2, <1>3, <2>2, <2>3 DEF BeforeTheCutover
  <1>11. Contents'
    <2>1. SUFFICES ASSUME sphase # "serving" PROVE \E k \in 0..MaxRecords : ContentsAt(k)'
      BY <1>1 DEF Contents
    <2>2. PICK k \in 0..MaxRecords : ContentsAt(k)
      BY <1>2, <2>1 DEF Contents
    <2>3. attempt \in Attempt
      BY <1>8, <2>1
    <2>4. /\ Phase(attempt)' = "restoring" => ran \o att'[attempt].saved = Upto(k)
          /\ Phase(attempt)' \notin {"restored", "ready"}
          /\ Phase(attempt)' \in {"verified", "committed"} => ran \o tqueue' = Upto(cut)
      <3>1. CASE attempt = a
        <4>1. ran \o tqueue = Upto(k) /\ Upto(k) \o h.recs = Upto(cut)
          BY <1>1, <1>3, <1>h, <2>2, <3>1 DEF ContentsAt
        <4>2. (ran \o tqueue) \o h.recs = ran \o (tqueue \o h.recs)
          BY <1>3, <1>4, Regroup, Zenon
        <4>3. ran \o tqueue' = Upto(cut)
          BY <1>5, <4>1, <4>2
        <4>4. Phase(attempt)' = "verified"
          BY <1>1, <1>6, <2>3, <3>1
        <4> QED BY <4>3, <4>4
      <3>2. CASE attempt # a
        <4>1. Phase(attempt)' = Phase(attempt) /\ att'[attempt] = att[attempt]
          BY <1>1, <1>6, <2>3, <3>2
        <4> QED BY <1>7, <2>2, <2>3, <3>2, <4>1 DEF ContentsAt, KeyHolder
      <3> QED BY <3>1, <3>2
    <2>5. \A m \in Carried' : m.a = attempt =>
             /\ m.kind = "state" => ran \o m.recs = Upto(k)
             /\ m.kind = "cutover" => Upto(k) \o m.recs = Upto(cut)
      BY <1>3, <2>2 DEF ContentsAt
    <2>6. ContentsAt(k)'
      BY <1>1, <2>2, <2>4, <2>5 DEF ContentsAt, Upto
    <2> QED BY <2>2, <2>6
  <1>12. ForwardsAfterCut'
    <2>1. cut' <= accepted'
      BY <1>1, <1>2 DEF ForwardsAfterCut
    <2>2. ASSUME sphase # "serving"
          PROVE  /\ \A m \in Carried' : m.kind = "forward" /\ m.a = attempt => m.recs[1] > cut
                 /\ Phase(attempt)' \in KeyHolder \ {"open"} => Held(theld)'
                 /\ Phase(attempt)' # "open"
      <3>1. attempt \in Attempt
        BY <1>8, <2>2
      <3>2. /\ Phase(attempt)' \in KeyHolder \ {"open"} => Phase(attempt) \in KeyHolder \ {"open"}
            /\ Phase(attempt)' # "open"
        BY <1>1, <1>6, <1>7, <3>1 DEF KeyHolder
      <3>3. Phase(attempt) \in KeyHolder \ {"open"} => Held(theld)'
        BY <1>1, <1>2, <1>3, <2>2 DEF ForwardsAfterCut, Held, After, Increasing
      <3> QED BY <1>2, <1>3, <2>2, <3>2, <3>3 DEF ForwardsAfterCut
    <2> QED BY <1>1, <2>1, <2>2 DEF ForwardsAfterCut
  <1>13. RunsInOrder'
    BY <1>1, <1>2 DEF RunsInOrder
  <1> QED BY <1>3, <1>9, <1>10, <1>11, <1>12, <1>13 DEF Records

\* A cutover is verified, ends the staging, or comes late.
LEMMA ReceiveCutoverStep == ASSUME IInv, IInv', Records, ReceiveCutover PROVE Records'
  <1>1. CASE UNCHANGED <<att, tobj, tqueue, theld>> \/ Discard(Head(net).a)
    <2>1. Calm
      BY <1>1, CalmTarget
    <2> QED BY <2>1, CalmStep
  <1>2. CASE Verifies(Head(net))
    BY <1>2, VerifiedCutover
  <1> QED BY <1>1, <1>2 DEF ReceiveCutover, Verifies

\* A staging that is committed, or open, is the last relocation's, and the
\* source is past its cutover.
LEMMA CommittedIsLast ==
  ASSUME IInv, Records, NEW a \in Attempt, Phase(a) \in {"committed", "open"}
  PROVE  /\ a = attempt /\ tobj = a /\ row.gen # SourceGeneration
         /\ sphase # "serving" /\ sphase \notin Holding \cup Early
         /\ \A m \in Carried : m.a = attempt /\ m.kind # "state"
  <1>1. a = attempt /\ row.gen > SourceGeneration
    BY DEF IInv, Fencing, OpenedOwnsRow
  <1>2. row.gen \in Nat
    BY DEF IInv, Types, StoreTypes
  <1>3. row.gen # SourceGeneration
    BY <1>1, <1>2 DEF SourceGeneration
  <1>4. sphase \in Ended
    BY <1>3 DEF IInv, Fencing, RowIsSource
  <1>5. sphase # "serving" /\ sphase \notin Holding \cup Early
    BY <1>4 DEF Ended, Holding, Early
  <1>6. StagedOnce /\ NetInOrder
    BY DEF Records
  <1>7. tobj = a
    BY <1>6 DEF StagedOnce, KeyHolder
  <1>8. ASSUME NEW m \in Carried PROVE m.a = attempt /\ m.kind # "state"
    <2>1. m.a >= attempt /\ (m.a = attempt => m.kind # "state")
      BY <1>1, <1>6 DEF StagedOnce
    <2>2. m.a <= attempt
      BY <1>6 DEF NetInOrder
    <2>3. m.a \in Nat /\ attempt \in Nat
      BY CarriedTypes DEF IInv, Types, SourceTypes
    <2> QED BY <2>1, <2>2, <2>3
  <1> QED BY <1>1, <1>3, <1>5, <1>7, <1>8

\* commit_relocation_restore(): the held records go behind the staged queue.
LEMMA OpenStep == ASSUME IInv, IInv', Records, NEW a \in Attempt, Open(a) PROVE Records'
  <1>1. /\ Phase(a) = "committed" /\ SetPhase(a, "open") /\ tqueue' = tqueue \o theld /\ theld' = <<>>
        /\ UNCHANGED <<sphase, attempt, frozen, batch, row, net, tobj, accepted, ran, cut>>
    BY DEF Open, OpenedQueue, source, store, link, history
  <1>2. NetInOrder /\ StagedOnce /\ BeforeTheCutover /\ Contents /\ ForwardsAfterCut /\ RunsInOrder
    BY DEF Records
  <1>3. Carried' = Carried
    BY <1>1 DEF Carried
  <1>4. /\ a = attempt /\ tobj = a /\ row.gen # SourceGeneration
        /\ sphase # "serving" /\ sphase \notin Holding \cup Early
        /\ \A m \in Carried : m.a = attempt /\ m.kind # "state"
    BY <1>1, CommittedIsLast
  <1>5. \A b \in Attempt : Phase(b)' = IF b = a THEN "open" ELSE Phase(b)
    <2>1. att'[a].phase = "open" /\ \A b \in Attempt \ {a} : att'[b] = att[b]
      BY <1>1, PhaseTypes DEF IInv, Types, TargetTypes
    <2> QED BY <2>1 DEF Phase
  <1>6. Phase(attempt)' = "open"
    BY <1>1, <1>4, <1>5
  <1>7. NetInOrder'
    BY <1>1, <1>2, <1>3 DEF NetInOrder
  <1>8. StagedOnce'
    <2> SUFFICES ASSUME NEW b \in Attempt
                 PROVE  /\ Phase(b)' \in KeyHolder <=> tobj = b
                        /\ Phase(b)' # "none" => b <= attempt
                        /\ Phase(b)' \notin {"none", "assembling"} =>
                              \A m \in Carried : m.a >= b /\ (m.a = b => m.kind \notin {"prepare", "state"})
      BY <1>1, <1>3 DEF StagedOnce
    <2>1. CASE b = a
      BY <1>1, <1>2, <1>5, <2>1 DEF StagedOnce, KeyHolder
    <2>2. CASE b # a
      BY <1>2, <1>5, <2>2 DEF StagedOnce
    <2> QED BY <2>1, <2>2
  <1>9. BeforeTheCutover'
    BY <1>1, <1>4 DEF BeforeTheCutover, Holding, Early
  <1>10. Contents'
    <2>1. PICK k \in 0..MaxRecords : ContentsAt(k)
      BY <1>2, <1>4 DEF Contents
    <2>2. ContentsAt(k)'
      BY <1>1, <1>3, <1>6, <2>1 DEF ContentsAt, Upto
    <2> QED BY <2>1, <2>2 DEF Contents
  <1>11. Opened(ran \o tqueue)'
    <2>1. /\ cut \in 0..MaxRecords /\ cut \in Nat /\ accepted \in Nat
          /\ ran \in Seq(Rec) /\ tqueue \in Seq(Rec) /\ theld \in Seq(Rec)
      BY DEF IInv, Types, SourceTypes, TargetTypes
    <2> DEFINE u == Upto(cut)
               t == u \o theld
    <2>2. u \in Seq(Rec) /\ Len(u) = cut /\ \A i \in 1..cut : u[i] = i
      BY <2>1, UptoProperties
    <2>3. ran \o tqueue = u
      BY <1>1, <1>2, <1>4 DEF Contents, ContentsAt
    <2>4. (ran \o tqueue) \o theld = ran \o (tqueue \o theld)
      BY <2>1, ConcatAssociative
    <2>5. (ran \o tqueue)' = t
      BY <1>1, <2>3, <2>4
    <2>6. Held(theld)
      BY <1>1, <1>2, <1>4 DEF ForwardsAfterCut, KeyHolder
    <2>7. /\ Increasing(theld) /\ \A i \in 1..Len(theld) : theld[i] > cut
          /\ \A i \in 1..Len(theld) : /\ theld[i] <= accepted
                                      /\ \A m \in Carried : m.kind = "forward" => theld[i] < m.recs[1]
      BY <2>6 DEF Held, After
    <2> HIDE DEF u
    <2>8. Increasing(u)
      BY <2>1, <2>2 DEF Increasing
    <2>9. \A i \in 1..Len(u) : \A j \in 1..Len(theld) : u[i] < theld[j]
      <3> TAKE i \in 1..Len(u)
      <3> TAKE j \in 1..Len(theld)
      <3>1. u[i] = i /\ i <= cut /\ i \in Nat /\ theld[j] > cut
        BY <2>1, <2>2, <2>7
      <3>2. theld[j] \in Rec
        BY <2>1, ElementOfSeq
      <3>3. theld[j] \in Nat
        BY <3>2 DEF Rec
      <3> QED BY <2>1, <3>1, <3>3
    <2>10. /\ t \in Seq(Rec) /\ Increasing(t) /\ Len(t) >= Len(u) /\ \A i \in 1..Len(u) : t[i] = u[i]
           /\ \A i \in 1..Len(t) : (\E j \in 1..Len(u) : t[i] = u[j]) \/ (\E j \in 1..Len(theld) : t[i] = theld[j])
      BY <2>1, <2>2, <2>7, <2>8, <2>9, Joined
    <2> HIDE DEF t
    <2>11. ASSUME NEW j \in 1..cut
           PROVE  j <= accepted /\ \A m \in Carried : m.kind = "forward" => j < m.recs[1]
      <3>1. cut <= accepted /\ \A m \in Carried : m.kind = "forward" /\ m.a = attempt => m.recs[1] > cut
        BY <1>2, <1>4 DEF ForwardsAfterCut
      <3>2. \A m \in Carried : m.kind = "forward" => m.recs[1] > cut /\ m.recs[1] \in Nat
        <4> TAKE m \in Carried
        <4> HAVE m.kind = "forward"
        <4>1. m.recs[1] > cut /\ Len(m.recs) = 1
          BY <1>2, <1>4, <3>1 DEF NetInOrder
        <4>2. m.recs \in Seq(Rec)
          BY CarriedTypes DEF IInv, Types
        <4>3. m.recs[1] \in Rec
          <5>1. 1 \in 1..Len(m.recs)
            BY <4>1
          <5> QED BY <4>2, <5>1, ElementOfSeq
        <4>4. m.recs[1] \in Nat
          BY <4>3 DEF Rec
        <4> QED BY <4>1, <4>4
      <3> QED BY <2>1, <3>1, <3>2
    <2>12. ASSUME NEW i \in 1..Len(t)
           PROVE  t[i] <= accepted /\ \A m \in Carried : m.kind = "forward" => t[i] < m.recs[1]
      <3>1. CASE \E j \in 1..Len(u) : t[i] = u[j]
        BY <2>2, <2>11, <3>1
      <3>2. CASE \E j \in 1..Len(theld) : t[i] = theld[j]
        BY <2>7, <3>2
      <3> QED BY <2>10, <3>1, <3>2
    <2>13. Len(t) >= cut /\ \A i \in 1..cut : t[i] = i
      BY <2>2, <2>10
    <2>14. Increasing(ran \o tqueue)'
      BY <2>5, <2>10 DEF Increasing
    <2>15. After(ran \o tqueue)'
      BY <1>1, <1>3, <2>5, <2>12 DEF After
    <2>16. Len((ran \o tqueue)') >= cut' /\ \A i \in 1..cut' : (ran \o tqueue)'[i] = i
      BY <1>1, <2>5, <2>13
    <2> QED BY <2>14, <2>15, <2>16 DEF Opened
  <1>12. ForwardsAfterCut'
    BY <1>1, <1>2, <1>3, <1>4, <1>6, <1>11 DEF ForwardsAfterCut
  <1>13. RunsInOrder'
    BY <1>1, <1>2 DEF RunsInOrder
  <1> QED BY <1>7, <1>8, <1>9, <1>10, <1>12, <1>13 DEF Records

\* try_claim() at the target.
LEMMA ServeAtTargetStep == ASSUME IInv, IInv', Records, ServeAtTarget PROVE Records'
  <1>1. /\ tobj # 0 /\ Phase(tobj) = "open" /\ tqueue # <<>>
        /\ ran' = Append(ran, Head(tqueue)) /\ tqueue' = Tail(tqueue)
        /\ UNCHANGED <<sphase, attempt, frozen, batch, row, net, att, tobj, theld, accepted, cut>>
    BY DEF ServeAtTarget, source, store, link
  <1>2. NetInOrder /\ StagedOnce /\ BeforeTheCutover /\ Contents /\ ForwardsAfterCut
    BY DEF Records
  <1>3. Carried' = Carried /\ \A b : Phase(b)' = Phase(b)
    BY <1>1 DEF Carried, Phase
  <1>4. tobj \in Attempt
    BY <1>1 DEF IInv, Types, TargetTypes, Attempt
  <1>5. /\ tobj = attempt /\ row.gen # SourceGeneration
        /\ sphase # "serving" /\ sphase \notin Holding \cup Early
        /\ \A m \in Carried : m.a = attempt /\ m.kind # "state"
    BY <1>1, <1>4, CommittedIsLast
  <1>6. Phase(attempt) = "open" /\ Phase(attempt)' = "open"
    BY <1>1, <1>3, <1>5
  <1>7. NetInOrder' /\ StagedOnce'
    BY <1>1, <1>2, <1>3 DEF NetInOrder, StagedOnce
  <1>8. BeforeTheCutover'
    BY <1>1, <1>5 DEF BeforeTheCutover, Holding, Early
  <1>9. Contents'
    <2>1. PICK k \in 0..MaxRecords : ContentsAt(k)
      BY <1>2, <1>5 DEF Contents
    <2>2. ContentsAt(k)'
      BY <1>1, <1>3, <1>5, <1>6, <2>1 DEF ContentsAt, Upto
    <2> QED BY <2>1, <2>2 DEF Contents
  <1>10. (ran \o tqueue)' = ran \o tqueue
    BY <1>1, MoveHead DEF IInv, Types, SourceTypes, TargetTypes
  <1>11. Opened(ran \o tqueue) /\ Opened(ran \o tqueue)'
    <2>1. Opened(ran \o tqueue)
      BY <1>2, <1>5, <1>6 DEF ForwardsAfterCut
    <2> QED BY <1>1, <1>3, <1>10, <2>1 DEF Opened, After, Increasing
  <1>12. ForwardsAfterCut'
    BY <1>1, <1>2, <1>3, <1>6, <1>11 DEF ForwardsAfterCut
  <1>13. RunsInOrder'
    <2>1. ran' \in Seq(Rec) /\ tqueue' \in Seq(Rec)
      BY DEF IInv, Types, SourceTypes, TargetTypes
    <2>2. Increasing(ran' \o tqueue')
      BY <1>11 DEF Opened, Increasing
    <2>3. /\ Len(ran' \o tqueue') = Len(ran') + Len(tqueue')
          /\ \A i \in 1..Len(ran') + Len(tqueue') :
                (ran' \o tqueue')[i] = IF i <= Len(ran') THEN ran'[i] ELSE tqueue'[i - Len(ran')]
      BY <2>1, ConcatProperties
    <2>4. Len(ran') \in Nat /\ Len(tqueue') \in Nat
      BY <2>1, LenProperties
    <2>5. \A i \in 1..Len(ran') : i \in 1..Len(ran' \o tqueue') /\ (ran' \o tqueue')[i] = ran'[i]
      BY <2>3, <2>4
    <2> QED BY <2>2, <2>5 DEF RunsInOrder, Increasing
  <1> QED BY <1>7, <1>8, <1>9, <1>12, <1>13 DEF Records
-----------------------------------------------------------------------------
(* Every record, in every behaviour.                                        *)

LEMMA InitRecords == ASSUME Init PROVE Records
  <1>1. /\ sphase = "serving" /\ attempt = 0 /\ net = <<>> /\ att = [a \in Attempt |-> NoAttempt]
        /\ tobj = 0 /\ accepted = 0 /\ ran = <<>> /\ cut = 0
    BY DEF Init
  <1>2. Len(<<>>) = 0 /\ 1..0 = {} /\ 0 \notin Attempt
    BY EmptySeq DEF Attempt
  <1>3. Carried = {}
    BY <1>1, <1>2 DEF Carried
  <1>4. \A a \in Attempt : Phase(a) = "none"
    BY <1>1, NoAttemptType DEF Phase
  <1>5. NetInOrder /\ RunsInOrder
    BY <1>1, <1>2, <1>3 DEF NetInOrder, RunsInOrder
  <1>6. StagedOnce
    BY <1>1, <1>2, <1>4 DEF StagedOnce, KeyHolder
  <1>7. BeforeTheCutover /\ Contents /\ ForwardsAfterCut
    BY <1>1 DEF BeforeTheCutover, Contents, ForwardsAfterCut, Holding, Early
  <1> QED BY <1>5, <1>6, <1>7 DEF Records

LEMMA NextRecords == ASSUME IInv, IInv', Records, [Next]_vars PROVE Records'
  <1>1. ASSUME Calm PROVE Records'
    BY <1>1, CalmStep
  <1>2. CASE UNCHANGED vars
    <2>1. /\ UNCHANGED <<sphase, attempt, frozen, batch, net, row, att, tobj, tqueue, theld>>
          /\ UNCHANGED <<accepted, ran, cut>>
      BY <1>2 DEF vars, source, link, store, target, history
    <2>2. TargetCalm
      BY <2>1, StayingTarget
    <2>3. Shrinks
      BY <2>1, ReceiveShrinks DEF IInv, Types
    <2>4. Calm
      BY <2>1, <2>2, <2>3 DEF Calm, TargetCalm, Eases
    <2> QED BY <1>1, <2>4
  <1>3. CASE Accept
    BY <1>3, AcceptStep
  <1>4. CASE ServeAtSource
    BY <1>4, ServeAtSourceStep
  <1>5. CASE SourceStep
    <2>1. CASE Seal
      BY <2>1, SealStep
    <2>2. CASE Prepare
      BY <2>2, PrepareStep
    <2>3. CASE TakeBoundary
      BY <2>3, TakeBoundaryStep
    <2>4. CASE SendBoundary \/ SendBoundaryFails \/ SendCutover \/ Resend
      BY <2>4, SendStep
    <2>5. CASE \/ EncodeFails \/ PrepareReady \/ PrepareFails \/ SettleCommitted \/ SettlePreserved
               \/ Preserve \/ SettleExpired \/ SettleStopped \/ DeadlinePasses
      BY <1>1, <2>5, CalmSource
    <2> QED BY <1>5, <2>1, <2>2, <2>3, <2>4, <2>5 DEF SourceStep
  <1>6. CASE TargetStep
    <2>1. CASE ReceivePrepare
      BY <2>1, ReceivePrepareStep
    <2>2. CASE ReceiveState
      BY <2>2, ReceiveStateStep
    <2>3. CASE ReceiveForward
      BY <2>3, ReceiveForwardStep
    <2>4. CASE ReceiveCutover
      BY <2>4, ReceiveCutoverStep
    <2>5. CASE ServeAtTarget
      BY <2>5, ServeAtTargetStep
    <2>6. CASE ReceiveData \/ SealTarget
      BY <1>1, <2>6, CalmTarget
    <2>7. ASSUME NEW a \in Attempt, Restore(a) PROVE Records'
      BY <2>7, RestoreStep
    <2>8. ASSUME NEW a \in Attempt, Open(a) PROVE Records'
      BY <2>8, OpenStep
    <2>9. ASSUME NEW a \in Attempt,
                 \/ AssemblyExpires(a) \/ RestoreFails(a) \/ SubmitReady(a)
                 \/ Publish(a) \/ Adopt(a) \/ DiscardExcluded(a) \/ OpenFails(a)
          PROVE  Records'
      BY <1>1, <2>9, CalmTarget
    <2> QED BY <1>6, <2>1, <2>2, <2>3, <2>4, <2>5, <2>6, <2>7, <2>8, <2>9 DEF TargetStep
  <1>7. CASE Fault
    BY <1>1, <1>7, CalmFault
  <1> QED BY <1>2, <1>3, <1>4, <1>5, <1>6, <1>7 DEF Next

\* Throughout, every record is where the protocol put it: in the captured state,
\* in the boundary batch, or forwarded behind them (Records).
THEOREM RecordsInvariance == SafetySpec => []Records
  <1>1. Init => Records
    BY InitRecords
  <1>2. IInv /\ IInv' /\ Records /\ [Next]_vars => Records'
    BY NextRecords
  <1> QED BY <1>1, <1>2, Invariance, PTL DEF SafetySpec

\* Every record runs at most once and in acceptance order, whichever node runs
\* it, across the captured queue, the boundary batch, retransmissions and
\* forwarded records (RunsInOrder).
THEOREM RecordsRunInOrder == SafetySpec => []RunsInOrder
  <1>1. Records => RunsInOrder
    BY DEF Records
  <1> QED BY <1>1, RecordsInvariance, PTL

\* A resumed source has every accepted record, and an opened target every record
\* the source had accepted by the boundary (QueueMovesWhole): no retransmission,
\* discard or late answer makes verify_relocation_cutover() accept a part of them.
THEOREM QueueIsMovedWhole == SafetySpec => []QueueMovesWhole
  <1>1. IInv /\ Records => OpensWhole
    <2> SUFFICES ASSUME IInv, Records, NEW a \in Attempt, Phase(a) = "open", NEW r \in 1..cut
                 PROVE  \E i \in DOMAIN (ran \o tqueue) : (ran \o tqueue)[i] = r
      BY DEF OpensWhole, TargetOpen
    <2>1. a = attempt /\ sphase # "serving"
      BY CommittedIsLast
    <2>2. Opened(ran \o tqueue)
      BY <2>1 DEF Records, ForwardsAfterCut
    <2>3. ran \o tqueue \in Seq(Rec) /\ cut \in Nat
      BY ConcatProperties DEF IInv, Types, SourceTypes, TargetTypes
    <2>4. DOMAIN (ran \o tqueue) = 1..Len(ran \o tqueue) /\ Len(ran \o tqueue) \in Nat
      BY <2>3, LenProperties
    <2>5. Len(ran \o tqueue) >= cut /\ (ran \o tqueue)[r] = r
      BY <2>2 DEF Opened
    <2>6. r \in DOMAIN (ran \o tqueue)
      BY <2>3, <2>4, <2>5
    <2> QED BY <2>5, <2>6
  <1>2. TypeOK /\ ResumesWhole /\ OpensWhole => QueueMovesWhole
    BY DEF QueueMovesWhole
  <1> QED BY <1>1, <1>2, Invariance, RecordsInvariance, ResumedSourceIsWhole, PTL
=============================================================================
