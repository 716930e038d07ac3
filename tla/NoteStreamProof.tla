-------------------------- MODULE NoteStreamProof ---------------------------
(***************************************************************************)
(* Proofs about NoteStream for any publishers, viewers, queue capacity and *)
(* number of notes.                                                        *)
(***************************************************************************)
EXTENDS NoteStream, TLAPS, FiniteSetTheorems, SequenceTheorems

\* The types, with their functions, and naturals for what TypeOK bounds.
Types ==
    /\ ended \in BOOLEAN /\ left \subseteq Viewers /\ clients \subseteq Viewers
    /\ notes \in 0..MaxNotes /\ author \in Seq(Publishers) /\ Len(author) = notes
    /\ pubPc \in [Publishers -> {"idle", "lock", "loop", "full", "retry"}]
    /\ pubNote \in [Publishers -> 0..MaxNotes]
    /\ todo \in [Publishers -> SUBSET Viewers]
    /\ at \in [Publishers -> Viewers \cup {NoViewer}]
    /\ viewPc \in [Viewers -> {"away", "subscribe", "live", "drain", "drops",
                               "totals", "write", "close", "closed"}]
    /\ queue \in [Viewers -> Seq(1..MaxNotes)] /\ \A v \in Viewers : Len(queue[v]) <= Capacity
    /\ batch \in [Viewers -> Seq(1..MaxNotes)] /\ \A v \in Viewers : Len(batch[v]) <= Capacity
    /\ shown \in [Viewers -> Seq(1..MaxNotes)]
    /\ drops \in [Viewers -> Nat] /\ told \in [Viewers -> Nat] /\ total \in [Viewers -> 0..MaxNotes]
    /\ offered \in [Viewers -> Nat] /\ base \in [Viewers -> Nat]

\* A publisher visits subscriptions only inside its loop, and the one it found
\* full not again; outside it holds nothing.
PublisherInv ==
    \A p \in Publishers :
        /\ pubPc[p] \in {"idle", "lock"} => todo[p] = {}
        /\ IF pubPc[p] \in {"full", "retry"} THEN at[p] \in Viewers \ todo[p]
                                            ELSE at[p] = NoViewer
        /\ pubNote[p] <= notes
        /\ pubPc[p] # "idle" => pubNote[p] > 0 /\ author[pubNote[p]] = p

\* Clients are the viewers between Subscribe and Close; a batch is empty until
\* the ticker fires.
ViewerInv ==
    \A v \in Viewers :
        /\ v \in clients <=> viewPc[v] \in {"live", "drain", "drops", "totals", "write", "close"}
        /\ viewPc[v] \in {"away", "subscribe"} => offered[v] = 0 /\ base[v] = 0
        /\ viewPc[v] \in {"away", "subscribe", "live"} => batch[v] = <<>>

Waiting == {p \in Publishers : pubPc[p] = "lock"}

\* What a viewer was offered, what it came too late for and what is counted but
\* not handed out yet are different notes.
CountInv ==
    \A v \in Viewers : offered[v] + base[v] + Cardinality(Waiting) <= notes

Inv ==
    /\ Types /\ PublisherInv /\ ViewerInv /\ CountInv
    /\ Accounted /\ TotalCoversBatch /\ NoLateOffer

-----------------------------------------------------------------------------
(***************************************************************************)
(* Types, publishers and viewers                                           *)
(***************************************************************************)

LEMMA TypesKept ==
    ASSUME Inv, [Next]_vars
    PROVE  Types'
<1> USE DEF Goto, pubVars, viewVars
<1>0. /\ Types /\ Capacity \in Nat /\ MaxNotes \in Nat /\ notes \in Nat
      /\ \A v \in Viewers : /\ Len(queue[v]) \in Nat /\ Len(batch[v]) \in Nat
                            /\ queue[v] \in Seq(1..MaxNotes) /\ batch[v] \in Seq(1..MaxNotes)
                            /\ shown[v] \in Seq(1..MaxNotes)
  BY CapacityAssumption, MaxNotesAssumption, LenProperties DEF Inv, Types
<1>1. ASSUME NEW p \in Publishers, Count(p) PROVE Types'
  <2>1. notes + 1 \in 0..MaxNotes /\ notes + 1 \in 1..MaxNotes
    BY <1>0, <1>1 DEF Count, Types
  <2>2. author' \in Seq(Publishers) /\ Len(author') = notes'
    BY <1>0, <1>1, AppendProperties DEF Count, Types
  <2> QED BY <1>1, <1>0, <2>1, <2>2 DEF Count, Types
<1>2. ASSUME NEW p \in Publishers, Lock(p) PROVE Types'
  <2>1. offered' \in [Viewers -> Nat]
    BY <1>0, <1>2 DEF Lock, Types
  <2> QED BY <1>0, <1>2, <2>1 DEF Lock, Types
\* A note that p holds goes to the end of a queue with room.
<1>3. ASSUME NEW p \in Publishers, pubPc[p] # "idle", NEW v \in Viewers,
             Len(queue[v]) < Capacity, queue' = [queue EXCEPT ![v] = Append(@, pubNote[p])]
      PROVE  /\ queue' \in [Viewers -> Seq(1..MaxNotes)]
             /\ \A w \in Viewers : Len(queue'[w]) <= Capacity
  <2>1. pubNote[p] \in 1..MaxNotes
    BY <1>0, <1>3 DEF Inv, Types, PublisherInv
  <2>2. /\ Append(queue[v], pubNote[p]) \in Seq(1..MaxNotes)
        /\ Len(Append(queue[v], pubNote[p])) = Len(queue[v]) + 1
    BY <1>0, <2>1, AppendProperties
  <2>3. Len(queue[v]) + 1 <= Capacity
    BY <1>0, <1>3
  <2> QED BY <1>0, <1>3, <2>2, <2>3 DEF Types
\* The head of a queue is taken.
<1>4. ASSUME NEW v \in Viewers, queue[v] # <<>>, queue' = [queue EXCEPT ![v] = Tail(@)]
      PROVE  /\ queue' \in [Viewers -> Seq(1..MaxNotes)]
             /\ \A w \in Viewers : Len(queue'[w]) <= Capacity
  <2>1. /\ Tail(queue[v]) \in Seq(1..MaxNotes) /\ Len(Tail(queue[v])) = Len(queue[v]) - 1
    BY <1>0, <1>4, HeadTailProperties
  <2>2. Len(queue[v]) - 1 <= Capacity
    BY <1>0 DEF Types
  <2> QED BY <1>0, <1>4, <2>1, <2>2 DEF Types
<1>5. ASSUME NEW p \in Publishers, NEW v \in Viewers, Offer(p, v) PROVE Types'
  <2>1. CASE Len(queue[v]) < Capacity /\ queue' = [queue EXCEPT ![v] = Append(@, pubNote[p])]
             /\ UNCHANGED <<pubPc, at>>
    <3>1. /\ queue' \in [Viewers -> Seq(1..MaxNotes)]
          /\ \A w \in Viewers : Len(queue'[w]) <= Capacity
      BY <1>3, <1>5, <2>1 DEF Offer
    <3> QED BY <1>0, <1>5, <2>1, <3>1 DEF Offer, Types
  <2>2. CASE /\ pubPc' = [pubPc EXCEPT ![p] = "full"] /\ at' = [at EXCEPT ![p] = v]
             /\ UNCHANGED queue
    BY <1>0, <1>5, <2>2 DEF Offer, Types
  <2> QED BY <1>5, <2>1, <2>2 DEF Offer
<1>6. ASSUME NEW p \in Publishers, Discard(p) PROVE Types'
  <2>0. at[p] \in Viewers /\ pubPc' \in [Publishers -> {"idle", "lock", "loop", "full", "retry"}]
    BY <1>6, <1>0 DEF Inv, PublisherInv, Discard, Types
  <2>1. CASE queue[at[p]] # <<>> /\ queue' = [queue EXCEPT ![at[p]] = Tail(@)]
             /\ drops' = [drops EXCEPT ![at[p]] = @ + 1]
    <3>1. /\ queue' \in [Viewers -> Seq(1..MaxNotes)]
          /\ \A w \in Viewers : Len(queue'[w]) <= Capacity
      BY <1>4, <2>0, <2>1
    <3>2. drops' \in [Viewers -> Nat]
      BY <1>0, <2>0, <2>1 DEF Types
    <3> QED BY <1>0, <1>6, <2>0, <3>1, <3>2 DEF Discard, Types
  <2>2. CASE UNCHANGED <<queue, drops>>
    BY <1>0, <1>6, <2>0, <2>2 DEF Discard, Types
  <2> QED BY <1>6, <2>1, <2>2 DEF Discard
<1>7. ASSUME NEW p \in Publishers, Retry(p) PROVE Types'
  <2>0. /\ at[p] \in Viewers
        /\ pubPc' \in [Publishers -> {"idle", "lock", "loop", "full", "retry"}]
        /\ at' \in [Publishers -> Viewers \cup {NoViewer}]
    BY <1>7, <1>0 DEF Inv, PublisherInv, Retry, Types
  <2>1. CASE Len(queue[at[p]]) < Capacity /\ UNCHANGED drops
             /\ queue' = [queue EXCEPT ![at[p]] = Append(@, pubNote[p])]
    <3>1. /\ queue' \in [Viewers -> Seq(1..MaxNotes)]
          /\ \A w \in Viewers : Len(queue'[w]) <= Capacity
      BY <1>3, <1>7, <2>0, <2>1 DEF Retry
    <3> QED BY <1>0, <1>7, <2>0, <2>1, <3>1 DEF Retry, Types
  <2>2. CASE UNCHANGED queue /\ drops' = [drops EXCEPT ![at[p]] = @ + 1]
    <3>1. drops' \in [Viewers -> Nat]
      BY <1>0, <2>0, <2>2 DEF Types
    <3> QED BY <1>0, <1>7, <2>0, <2>2, <3>1 DEF Retry, Types
  <2> QED BY <1>7, <2>1, <2>2 DEF Retry
<1>8. ASSUME NEW p \in Publishers, Unlock(p) PROVE Types'
  BY <1>0, <1>8 DEF Unlock, Types
<1>9. ASSUME NEW v \in Viewers, Connect(v) \/ Leave(v) \/ Close(v) PROVE Types'
  BY <1>0, <1>9 DEF Connect, Leave, Close, Types
<1>10. ASSUME NEW v \in Viewers, Subscribe(v) PROVE Types'
  <2>1. Cardinality(Waiting) \in Nat /\ Cardinality(Waiting) <= notes
    <3>1. IsFiniteSet(Waiting)
      BY PublishersAssumption, FS_Subset DEF Waiting
    <3>2. Cardinality(Waiting) \in Nat
      BY <3>1, FS_CardinalityType
    <3> QED BY <1>0, <3>2 DEF Inv, CountInv, Types
  <2>2. notes - Cardinality(Waiting) \in Nat
    BY <1>0, <2>1
  <2>3. base' \in [Viewers -> Nat]
    BY <1>0, <1>10, <2>2 DEF Subscribe, Waiting, Types
  <2> QED BY <1>0, <1>10, <2>3 DEF Subscribe, Types
<1>11. ASSUME NEW v \in Viewers, Tick(v) PROVE Types'
  <2>1. <<>> \in Seq(1..MaxNotes) /\ Len(<<>>) = 0
    BY EmptySeq
  <2>2. batch' \in [Viewers -> Seq(1..MaxNotes)] /\ \A w \in Viewers : Len(batch'[w]) <= Capacity
    BY <1>0, <1>11, <2>1 DEF Tick, Types
  <2> QED BY <1>0, <1>11, <2>2 DEF Tick, Types
<1>12. ASSUME NEW v \in Viewers, Drain(v) PROVE Types'
  <2>1. CASE /\ queue[v] # <<>> /\ Len(batch[v]) < Capacity
             /\ batch' = [batch EXCEPT ![v] = Append(@, Head(queue[v]))]
             /\ queue' = [queue EXCEPT ![v] = Tail(@)] /\ UNCHANGED viewPc
    <3>1. /\ queue' \in [Viewers -> Seq(1..MaxNotes)]
          /\ \A w \in Viewers : Len(queue'[w]) <= Capacity
      BY <1>4, <2>1
    <3>2. Head(queue[v]) \in 1..MaxNotes
      BY <1>0, <2>1, HeadTailProperties
    <3>3. /\ Append(batch[v], Head(queue[v])) \in Seq(1..MaxNotes)
          /\ Len(Append(batch[v], Head(queue[v]))) = Len(batch[v]) + 1
      BY <1>0, <3>2, AppendProperties
    <3>4. Len(batch[v]) + 1 <= Capacity
      BY <1>0, <2>1
    <3>5. batch' \in [Viewers -> Seq(1..MaxNotes)] /\ \A w \in Viewers : Len(batch'[w]) <= Capacity
      BY <1>0, <2>1, <3>3, <3>4 DEF Types
    <3> QED BY <1>0, <1>12, <2>1, <3>1, <3>5 DEF Drain, Types
  <2>2. CASE Goto(v, "drops") /\ UNCHANGED <<batch, queue>>
    BY <1>0, <1>12, <2>2 DEF Drain, Types
  <2> QED BY <1>12, <2>1, <2>2 DEF Drain
<1>13. ASSUME NEW v \in Viewers, TakeDrops(v) PROVE Types'
  <2>1. told' \in [Viewers -> Nat] /\ drops' \in [Viewers -> Nat]
    BY <1>0, <1>13 DEF TakeDrops, Types
  <2> QED BY <1>0, <1>13, <2>1 DEF TakeDrops, Types
<1>14. ASSUME NEW v \in Viewers, Totals(v) PROVE Types'
  BY <1>0, <1>14 DEF Totals, Types
<1>15. ASSUME NEW v \in Viewers, WriteBatch(v) PROVE Types'
  <2>1. CASE /\ Goto(v, "live") /\ shown' = [shown EXCEPT ![v] = @ \o batch[v]]
             /\ batch' = [batch EXCEPT ![v] = <<>>]
    <3>1. <<>> \in Seq(1..MaxNotes) /\ Len(<<>>) = 0
      BY EmptySeq
    <3>2. shown[v] \o batch[v] \in Seq(1..MaxNotes)
      BY <1>0, ConcatProperties
    <3>3. batch' \in [Viewers -> Seq(1..MaxNotes)] /\ \A w \in Viewers : Len(batch'[w]) <= Capacity
      BY <1>0, <2>1, <3>1 DEF Types
    <3>4. shown' \in [Viewers -> Seq(1..MaxNotes)]
      BY <1>0, <2>1, <3>2 DEF Types
    <3> QED BY <1>0, <1>15, <2>1, <3>3, <3>4 DEF WriteBatch, Types
  <2>2. CASE Goto(v, "close") /\ UNCHANGED <<shown, batch>>
    BY <1>0, <1>15, <2>2 DEF WriteBatch, Types
  <2> QED BY <1>15, <2>1, <2>2 DEF WriteBatch
<1>16. ASSUME NEW v \in Viewers, Disconnect(v) PROVE Types'
  BY <1>0, <1>16 DEF Disconnect, Types
<1>17. CASE EndLifecycle
  BY <1>0, <1>17 DEF EndLifecycle, Types
<1>18. CASE UNCHANGED vars
  BY <1>0, <1>18 DEF vars, Types
<1> QED BY <1>1, <1>2, <1>5, <1>6, <1>7, <1>8, <1>9, <1>10, <1>11, <1>12, <1>13, <1>14, <1>15,
           <1>16, <1>17, <1>18 DEF Next, Publish, Handle

LEMMA PublisherKept ==
    ASSUME Inv, [Next]_vars
    PROVE  PublisherInv'
<1> USE DEF Goto, pubVars, viewVars
<1>0. Types /\ PublisherInv /\ NoViewer \notin Viewers /\ notes \in Nat
  BY NoViewerAssumption DEF Inv, Types
<1>1. ASSUME NEW p \in Publishers, Count(p) PROVE PublisherInv'
  <2>1. /\ Len(author) = notes /\ author \in Seq(Publishers) /\ notes \in Nat
        /\ \A i \in 1..notes : author'[i] = author[i]
        /\ author'[notes + 1] = p
    BY <1>0, <1>1, AppendProperties DEF Count, Types
  <2> SUFFICES ASSUME NEW q \in Publishers
               PROVE  PublisherInv!(q)'
    BY DEF PublisherInv
  <2>2. CASE q = p
    <3>1. /\ pubPc'[p] = "lock" /\ pubNote'[p] = notes + 1 /\ notes' = notes + 1
          /\ todo'[p] = {} /\ at'[p] = NoViewer
      BY <1>0, <1>1 DEF Count, Types, PublisherInv
    <3> QED BY <1>0, <2>1, <2>2, <3>1
  <2>3. CASE q # p
    <3>1. pubNote[q] \in Nat /\ pubNote[q] <= notes
      BY <1>0 DEF Types, PublisherInv
    <3> QED BY <1>0, <1>1, <2>1, <2>3, <3>1 DEF Count, Types, PublisherInv
  <2> QED BY <2>2, <2>3
<1>2. ASSUME NEW p \in Publishers, Lock(p) PROVE PublisherInv'
  BY <1>0, <1>2 DEF Lock, Types, PublisherInv
<1>3. ASSUME NEW p \in Publishers, NEW v \in Viewers, Offer(p, v) PROVE PublisherInv'
  <2> SUFFICES ASSUME NEW q \in Publishers
               PROVE  PublisherInv!(q)'
    BY DEF PublisherInv
  <2>1. UNCHANGED <<notes, author, pubNote>> /\ pubPc[p] = "loop"
    BY <1>3 DEF Offer
  <2>2. v \notin todo'[p] /\ \A x \in Publishers \ {p} : todo'[x] = todo[x]
    BY <1>0, <1>3 DEF Offer, Types
  <2>3. CASE pubPc' = pubPc /\ at' = at
    BY <1>0, <2>1, <2>2, <2>3 DEF PublisherInv
  <2>4. CASE pubPc' = [pubPc EXCEPT ![p] = "full"] /\ at' = [at EXCEPT ![p] = v]
    <3>1. /\ pubPc'[p] = "full" /\ at'[p] = v
          /\ \A x \in Publishers \ {p} : pubPc'[x] = pubPc[x] /\ at'[x] = at[x]
      BY <1>0, <2>4 DEF Types
    <3> QED BY <1>0, <2>1, <2>2, <3>1 DEF PublisherInv
  <2> QED BY <1>3, <2>3, <2>4 DEF Offer
<1>4. ASSUME NEW p \in Publishers, Discard(p) PROVE PublisherInv'
  BY <1>0, <1>4 DEF Discard, Types, PublisherInv
<1>5. ASSUME NEW p \in Publishers, Retry(p) PROVE PublisherInv'
  BY <1>0, <1>5 DEF Retry, Types, PublisherInv
<1>6. ASSUME NEW p \in Publishers, Unlock(p) PROVE PublisherInv'
  BY <1>0, <1>6 DEF Unlock, Types, PublisherInv
<1>7. CASE UNCHANGED pubVars
  BY <1>0, <1>7 DEF PublisherInv
<1>8. ASSUME NEW v \in Viewers, Connect(v) \/ Tick(v) \/ Handle(v) \/ Disconnect(v)
      PROVE  UNCHANGED pubVars
  BY <1>8 DEF Connect, Tick, Handle, Disconnect, Subscribe, Leave, Drain, TakeDrops, Totals,
              WriteBatch, Close
<1>9. EndLifecycle \/ UNCHANGED vars => UNCHANGED pubVars
  BY DEF EndLifecycle, vars
<1> QED BY <1>1, <1>2, <1>3, <1>4, <1>5, <1>6, <1>7, <1>8, <1>9 DEF Next, Publish

LEMMA ViewerKept ==
    ASSUME Inv, [Next]_vars
    PROVE  ViewerInv'
<1> USE DEF Goto, pubVars, viewVars
<1>0. Types /\ ViewerInv
  BY DEF Inv
<1>1. ASSUME NEW p \in Publishers, Lock(p) PROVE ViewerInv'
  BY <1>0, <1>1 DEF Lock, Types, ViewerInv
<1>2. ASSUME NEW v \in Viewers, Connect(v) \/ Leave(v) PROVE ViewerInv'
  BY <1>0, <1>2 DEF Connect, Leave, Types, ViewerInv
<1>3. ASSUME NEW v \in Viewers, Subscribe(v) PROVE ViewerInv'
  BY <1>0, <1>3 DEF Subscribe, Types, ViewerInv
<1>4. ASSUME NEW v \in Viewers, Tick(v) \/ Drain(v) PROVE ViewerInv'
  BY <1>0, <1>4 DEF Tick, Drain, Types, ViewerInv
<1>5. ASSUME NEW v \in Viewers, TakeDrops(v) \/ Totals(v) PROVE ViewerInv'
  BY <1>0, <1>5 DEF TakeDrops, Totals, Types, ViewerInv
<1>6. ASSUME NEW v \in Viewers, WriteBatch(v) PROVE ViewerInv'
  BY <1>0, <1>6 DEF WriteBatch, Types, ViewerInv
<1>7. ASSUME NEW v \in Viewers, Close(v) PROVE ViewerInv'
  BY <1>0, <1>7 DEF Close, Types, ViewerInv
<1>8. CASE UNCHANGED <<viewPc, clients, offered, base, batch>>
  BY <1>0, <1>8 DEF ViewerInv
<1>9. ASSUME NEW p \in Publishers,
             Count(p) \/ (\E v \in Viewers : Offer(p, v)) \/ Discard(p) \/ Retry(p) \/ Unlock(p)
      PROVE  UNCHANGED <<viewPc, clients, offered, base, batch>>
  BY <1>9 DEF Count, Offer, Discard, Retry, Unlock
<1>10. ASSUME (\E v \in Viewers : Disconnect(v)) \/ EndLifecycle \/ UNCHANGED vars
       PROVE  UNCHANGED <<viewPc, clients, offered, base, batch>>
  BY <1>10 DEF Disconnect, EndLifecycle, vars
<1> QED BY <1>1, <1>2, <1>3, <1>4, <1>5, <1>6, <1>7, <1>8, <1>9, <1>10
        DEF Next, Publish, Handle

LEMMA NoLateKept ==
    ASSUME Inv, [Next]_vars
    PROVE  NoLateOffer'
<1> USE DEF Goto, pubVars, viewVars
<1>0. Types /\ PublisherInv /\ NoLateOffer
  BY DEF Inv
<1>1. ASSUME NEW p \in Publishers, Count(p) \/ Publish(p) PROVE NoLateOffer'
  <2>1. clients' = clients /\ \A q \in Publishers : todo'[q] \subseteq todo[q] \cup clients
    <3>1. CASE Count(p) \/ Discard(p) \/ Retry(p) \/ Unlock(p)
      BY <3>1 DEF Count, Discard, Retry, Unlock
    <3>2. CASE Lock(p)
      BY <1>0, <3>2 DEF Lock, Types
    <3>3. ASSUME NEW v \in Viewers, Offer(p, v)
          PROVE  clients' = clients /\ \A q \in Publishers : todo'[q] \subseteq todo[q]
      BY <1>0, <3>3 DEF Offer, Types
    <3> QED BY <1>1, <3>1, <3>2, <3>3 DEF Publish
  <2> QED BY <1>0, <2>1 DEF NoLateOffer
<1>2. ASSUME NEW v \in Viewers, Close(v) PROVE NoLateOffer'
  <2>1. \A p \in Publishers : todo[p] = {}
    <3>1. \A p \in Publishers : pubPc[p] \in {"idle", "lock"}
      BY <1>0, <1>2 DEF Close, Readers, Types
    <3> QED BY <1>0, <3>1 DEF PublisherInv
  <2> QED BY <1>2, <2>1 DEF Close, NoLateOffer
<1>3. ASSUME NEW v \in Viewers,
             Connect(v) \/ Tick(v) \/ Disconnect(v) \/ (Handle(v) /\ ~Close(v))
      PROVE  UNCHANGED todo /\ clients \subseteq clients'
  BY <1>3 DEF Connect, Tick, Handle, Disconnect, Subscribe, Leave, Drain, TakeDrops, Totals,
              WriteBatch
<1>4. EndLifecycle \/ UNCHANGED vars => UNCHANGED todo /\ clients \subseteq clients'
  BY DEF EndLifecycle, vars
<1>5. CASE UNCHANGED todo /\ clients \subseteq clients'
  BY <1>0, <1>5 DEF NoLateOffer
<1> QED BY <1>1, <1>2, <1>3, <1>4, <1>5 DEF Next, Handle

-----------------------------------------------------------------------------
(***************************************************************************)
(* Counting                                                                *)
(***************************************************************************)

\* Sets of publishers can be counted.
LEMMA Countable ==
    ASSUME NEW S \in SUBSET Publishers
    PROVE  IsFiniteSet(S) /\ Cardinality(S) \in Nat
BY PublishersAssumption, FS_Subset, FS_CardinalityType

LEMMA OneLess ==
    ASSUME NEW S \in SUBSET Publishers, NEW x \in S
    PROVE  Cardinality(S \ {x}) = Cardinality(S) - 1
BY Countable, FS_RemoveElement

LEMMA OneMore ==
    ASSUME NEW S \in SUBSET Publishers, NEW x \in Publishers \ S
    PROVE  Cardinality(S \cup {x}) = Cardinality(S) + 1
BY Countable, FS_AddElement

LEMMA CountKept ==
    ASSUME Inv, [Next]_vars
    PROVE  CountInv'
<1> USE DEF Goto, pubVars, viewVars
<1>0. /\ Types /\ PublisherInv /\ ViewerInv /\ CountInv /\ notes \in Nat
      /\ \A v \in Viewers : offered[v] \in Nat /\ base[v] \in Nat
  BY DEF Inv, Types
<1>a. Waiting \in SUBSET Publishers /\ Cardinality(Waiting) \in Nat
  BY Countable DEF Waiting
<1>1. ASSUME NEW p \in Publishers, Count(p) PROVE CountInv'
  <2>1. p \notin Waiting /\ Waiting' = Waiting \cup {p}
    BY <1>0, <1>1 DEF Count, Types, Waiting
  <2>2. Cardinality(Waiting') = Cardinality(Waiting) + 1
    BY <1>a, <2>1, OneMore
  <2> QED BY <1>0, <1>a, <1>1, <2>2 DEF Count, CountInv
<1>2. ASSUME NEW p \in Publishers, Lock(p) PROVE CountInv'
  <2>1. p \in Waiting /\ Waiting' = Waiting \ {p}
    BY <1>0, <1>2 DEF Lock, Types, Waiting
  <2>2. Cardinality(Waiting') = Cardinality(Waiting) - 1
    BY <1>a, <2>1, OneLess
  <2>3. \A v \in Viewers : offered'[v] <= offered[v] + 1 /\ offered'[v] \in Nat
    BY <1>0, <1>2 DEF Lock
  <2> QED BY <1>0, <1>a, <1>2, <2>2, <2>3 DEF Lock, CountInv
<1>3. ASSUME NEW p \in Publishers,
             Discard(p) \/ Retry(p) \/ Unlock(p) \/ \E v \in Viewers : Offer(p, v)
      PROVE  UNCHANGED <<notes, offered, base, Waiting>>
  <2>1. UNCHANGED <<notes, offered, base>>
    BY <1>3 DEF Discard, Retry, Unlock, Offer
  <2>2. Waiting' = Waiting
    BY <1>0, <1>3 DEF Discard, Retry, Unlock, Offer, Waiting, Types
  <2> QED BY <2>1, <2>2
<1>4. ASSUME NEW v \in Viewers, Subscribe(v) PROVE CountInv'
  <2>1. UNCHANGED <<notes, offered, Waiting>> /\ offered[v] = 0
    BY <1>0, <1>4 DEF Subscribe, Waiting, ViewerInv
  <2>2. base' = [base EXCEPT ![v] = notes - Cardinality(Waiting)]
    BY <1>4 DEF Subscribe, Waiting
  <2> QED BY <1>0, <1>a, <2>1, <2>2 DEF CountInv, Types
<1>5. ASSUME NEW v \in Viewers,
             Connect(v) \/ Tick(v) \/ Disconnect(v) \/ (Handle(v) /\ ~Subscribe(v))
      PROVE  UNCHANGED <<notes, offered, base, Waiting>>
  BY <1>5 DEF Connect, Tick, Handle, Disconnect, Close, Leave, Drain, TakeDrops, Totals,
              WriteBatch, Waiting
<1>6. EndLifecycle \/ UNCHANGED vars => UNCHANGED <<notes, offered, base, Waiting>>
  BY DEF EndLifecycle, vars, Waiting
<1>7. CASE UNCHANGED <<notes, offered, base, Waiting>>
  BY <1>0, <1>7 DEF CountInv
<1> QED BY <1>1, <1>2, <1>3, <1>4, <1>5, <1>6, <1>7 DEF Next, Publish, Handle

\* The lengths and the number of publishers with a note for each viewer, and
\* Accounted in their terms.
Shown == [v \in Viewers |-> Len(shown[v])]
Batch == [v \in Viewers |-> Len(batch[v])]
Queued == [v \in Viewers |-> Len(queue[v])]
Held == [v \in Viewers |-> Cardinality(Holding(v))]

Balance ==
    \A v \in Viewers :
        offered[v] = Shown[v] + Batch[v] + Queued[v] + drops[v] + told[v] + Held[v]

LEMMA AccountedIsBalance == Accounted <=> Balance
BY DEF Accounted, Balance, Shown, Batch, Queued, Held

LEMMA SumTypes ==
    ASSUME Types
    PROVE  \A v \in Viewers :
              /\ shown[v] \in Seq(1..MaxNotes) /\ Shown[v] \in Nat
              /\ batch[v] \in Seq(1..MaxNotes) /\ Batch[v] \in Nat
              /\ queue[v] \in Seq(1..MaxNotes) /\ Queued[v] \in Nat
              /\ drops[v] \in Nat /\ told[v] \in Nat /\ offered[v] \in Nat /\ base[v] \in Nat
              /\ Held[v] \in Nat
<1> TAKE v \in Viewers
<1>1. Holding(v) \in SUBSET Publishers
  BY DEF Holding
<1> QED BY <1>1, Countable, LenProperties DEF Types, Shown, Batch, Queued, Held

\* A publisher takes a note for the viewers of S, and no other changes.
LEMMA TakesOn ==
    ASSUME NEW p \in Publishers, NEW S \in SUBSET Viewers,
           \A v \in Viewers : p \notin Holding(v) /\ (v \in todo'[p] \/ at'[p] = v <=> v \in S),
           \A q \in Publishers \ {p} : todo'[q] = todo[q] /\ at'[q] = at[q]
    PROVE  \A v \in Viewers : Held'[v] = IF v \in S THEN Held[v] + 1 ELSE Held[v]
<1> TAKE v \in Viewers
<1>1. Holding(v) \in SUBSET Publishers
  BY DEF Holding
<1>2. Holding(v)' = IF v \in S THEN Holding(v) \cup {p} ELSE Holding(v)
  BY DEF Holding
<1>3. v \in S => Cardinality(Holding(v) \cup {p}) = Cardinality(Holding(v)) + 1
  BY <1>1, OneMore
<1> QED BY <1>2, <1>3 DEF Held

\* A publisher hands the note it holds for viewer v over, or loses it.
LEMMA HandsOver ==
    ASSUME NEW p \in Publishers, NEW v \in Viewers, p \in Holding(v),
           \A w \in Viewers : w \in todo'[p] \/ at'[p] = w <=> w # v /\ p \in Holding(w),
           \A q \in Publishers \ {p} : todo'[q] = todo[q] /\ at'[q] = at[q]
    PROVE  Held'[v] = Held[v] - 1 /\ \A w \in Viewers \ {v} : Held'[w] = Held[w]
<1>1. Holding(v) \in SUBSET Publishers
  BY DEF Holding
<1>2. Holding(v)' = Holding(v) \ {p} /\ \A w \in Viewers \ {v} : Holding(w)' = Holding(w)
  BY DEF Holding
<1>3. Cardinality(Holding(v) \ {p}) = Cardinality(Holding(v)) - 1
  BY <1>1, OneLess
<1> QED BY <1>2, <1>3 DEF Held

LEMMA AccountedKept ==
    ASSUME Inv, [Next]_vars
    PROVE  Accounted'
<1> USE DEF Goto, pubVars, viewVars
<1>0. Types /\ PublisherInv /\ ViewerInv /\ NoViewer \notin Viewers
  BY NoViewerAssumption DEF Inv
<1>s. \A v \in Viewers : /\ shown[v] \in Seq(1..MaxNotes) /\ batch[v] \in Seq(1..MaxNotes)
                        /\ queue[v] \in Seq(1..MaxNotes)
  BY <1>0, SumTypes
<1>n. /\ Balance
      /\ \A v \in Viewers :
            /\ Shown[v] \in Nat /\ Batch[v] \in Nat /\ Queued[v] \in Nat /\ Held[v] \in Nat
            /\ drops[v] \in Nat /\ told[v] \in Nat /\ offered[v] \in Nat
  BY <1>0, SumTypes, AccountedIsBalance DEF Inv
<1>h. /\ UNCHANGED <<todo, at>> => Held' = Held
      /\ UNCHANGED shown => Shown' = Shown
      /\ UNCHANGED batch => Batch' = Batch
      /\ UNCHANGED queue => Queued' = Queued
  BY DEF Held, Holding, Shown, Batch, Queued
<1> SUFFICES Balance'
  BY AccountedIsBalance, PTL
<1>1. ASSUME NEW p \in Publishers, Lock(p) PROVE Balance'
  <2>1. \A v \in Viewers : p \notin Holding(v)
    BY <1>0, <1>1 DEF Lock, Holding, PublisherInv
  <2>2. /\ todo'[p] = clients /\ at'[p] = NoViewer /\ clients \in SUBSET Viewers
        /\ \A q \in Publishers \ {p} : todo'[q] = todo[q] /\ at'[q] = at[q]
    BY <1>0, <1>1 DEF Lock, Types, PublisherInv
  <2>3. \A v \in Viewers : Held'[v] = IF v \in clients THEN Held[v] + 1 ELSE Held[v]
    BY <1>0, <2>1, <2>2, TakesOn
  <2>4. /\ \A v \in Viewers : offered'[v] = IF v \in clients THEN offered[v] + 1 ELSE offered[v]
        /\ UNCHANGED <<Shown, Batch, Queued, drops, told>>
    BY <1>1, <1>n, <1>h DEF Lock
  <2> QED BY <1>n, <2>3, <2>4 DEF Balance
\* The note joins the queue.
<1>2. ASSUME NEW p \in Publishers, NEW v \in Viewers, pubPc[p] # "idle",
             queue' = [queue EXCEPT ![v] = Append(@, pubNote[p])],
             Held'[v] = Held[v] - 1, \A w \in Viewers \ {v} : Held'[w] = Held[w],
             UNCHANGED <<drops, offered, viewVars>>
      PROVE  Balance'
  <2>1. pubNote[p] \in 1..MaxNotes
    BY <1>0, <1>2 DEF Types, PublisherInv
  <2>2. Len(Append(queue[v], pubNote[p])) = Len(queue[v]) + 1
    BY <1>s, <2>1, AppendProperties
  <2>3. Queued'[v] = Queued[v] + 1 /\ \A w \in Viewers \ {v} : Queued'[w] = Queued[w]
    BY <1>0, <1>2, <2>2 DEF Types, Queued
  <2>4. UNCHANGED <<Shown, Batch, drops, told, offered>>
    BY <1>2, <1>h
  <2>5. Held'[v] = Held[v] - 1 /\ \A w \in Viewers \ {v} : Held'[w] = Held[w]
    BY <1>2
  <2>6. \A w \in Viewers : \/ Queued'[w] = Queued[w] + 1 /\ Held'[w] = Held[w] - 1
                           \/ Queued'[w] = Queued[w] /\ Held'[w] = Held[w]
    BY <2>3, <2>5
  <2> QED BY <1>n, <2>4, <2>6 DEF Balance
<1>3. ASSUME NEW p \in Publishers, NEW v \in Viewers, Offer(p, v) PROVE Balance'
  <2>1. p \in Holding(v) /\ at[p] = NoViewer
    BY <1>0, <1>3 DEF Offer, Holding, PublisherInv
  <2>2. todo'[p] = todo[p] \ {v} /\ \A q \in Publishers \ {p} : todo'[q] = todo[q]
    BY <1>0, <1>3 DEF Offer, Types
  <2>3. CASE queue' = [queue EXCEPT ![v] = Append(@, pubNote[p])] /\ UNCHANGED <<pubPc, at>>
    <3>1. \A w \in Viewers : w \in todo'[p] \/ at'[p] = w <=> w # v /\ p \in Holding(w)
      BY <1>0, <2>1, <2>2, <2>3 DEF Holding
    <3>2. Held'[v] = Held[v] - 1 /\ \A w \in Viewers \ {v} : Held'[w] = Held[w]
      BY <2>1, <2>2, <2>3, <3>1, HandsOver
    <3> QED BY <1>2, <1>3, <2>3, <3>2 DEF Offer
  <2>4. CASE at' = [at EXCEPT ![p] = v] /\ UNCHANGED queue
    <3>1. at'[p] = v /\ \A q \in Publishers \ {p} : at'[q] = at[q]
      BY <1>0, <2>4 DEF Types
    <3>2. \A w \in Viewers : Holding(w)' = Holding(w)
      BY <1>0, <1>3, <2>1, <2>2, <3>1 DEF Holding, Offer
    <3>3. Held' = Held
      BY <3>2 DEF Held
    <3>4. UNCHANGED <<Shown, Batch, Queued, drops, told, offered>>
      BY <1>3, <1>h, <2>4 DEF Offer
    <3> QED BY <1>n, <3>3, <3>4 DEF Balance
  <2> QED BY <1>3, <2>3, <2>4 DEF Offer
<1>4. ASSUME NEW p \in Publishers, Discard(p) PROVE Balance'
  <2>0. at[p] \in Viewers /\ UNCHANGED <<Held, Shown, Batch, told, offered>>
    BY <1>0, <1>4, <1>h DEF Discard, PublisherInv
  <2>1. CASE queue[at[p]] # <<>> /\ queue' = [queue EXCEPT ![at[p]] = Tail(@)]
             /\ drops' = [drops EXCEPT ![at[p]] = @ + 1]
    <3>1. Len(Tail(queue[at[p]])) = Len(queue[at[p]]) - 1
      BY <1>s, <2>0, <2>1, HeadTailProperties
    <3>2. \A w \in Viewers :
             \/ Queued'[w] = Queued[w] - 1 /\ drops'[w] = drops[w] + 1
             \/ Queued'[w] = Queued[w] /\ drops'[w] = drops[w]
      BY <1>0, <2>0, <2>1, <3>1 DEF Types, Queued
    <3> QED BY <1>n, <2>0, <3>2 DEF Balance
  <2>2. CASE UNCHANGED <<queue, drops>>
    BY <1>n, <1>h, <2>0, <2>2 DEF Balance
  <2> QED BY <1>4, <2>1, <2>2 DEF Discard
<1>5. ASSUME NEW p \in Publishers, NEW v \in Viewers, at[p] = v, Retry(p) PROVE Balance'
  <2>0. v \notin todo[p] /\ p \in Holding(v) /\ UNCHANGED <<todo, offered, viewVars>>
    BY <1>0, <1>5 DEF Retry, PublisherInv, Holding
  <2>1. at'[p] = NoViewer /\ \A q \in Publishers \ {p} : at'[q] = at[q]
    BY <1>0, <1>5 DEF Retry, Types
  <2>2. \A w \in Viewers : w \in todo'[p] \/ at'[p] = w <=> w # v /\ p \in Holding(w)
    BY <1>0, <1>5, <2>0, <2>1 DEF Holding
  <2>3. Held'[v] = Held[v] - 1 /\ \A w \in Viewers \ {v} : Held'[w] = Held[w]
    BY <2>0, <2>1, <2>2, HandsOver
  <2>4. CASE queue' = [queue EXCEPT ![v] = Append(@, pubNote[p])] /\ UNCHANGED drops
    BY <1>2, <1>5, <2>0, <2>3, <2>4 DEF Retry
  <2>5. CASE drops' = [drops EXCEPT ![v] = @ + 1] /\ UNCHANGED queue
    <3>1. drops'[v] = drops[v] + 1 /\ \A w \in Viewers \ {v} : drops'[w] = drops[w]
      BY <1>0, <2>5 DEF Types
    <3>2. UNCHANGED <<Shown, Batch, Queued, told, offered>>
      BY <1>h, <2>0, <2>5
    <3> QED BY <1>n, <2>3, <3>1, <3>2 DEF Balance
  <2> QED BY <1>5, <2>4, <2>5 DEF Retry
<1>6. ASSUME NEW p \in Publishers, Retry(p) PROVE Balance'
  <2>1. at[p] \in Viewers
    BY <1>0, <1>6 DEF Retry, PublisherInv
  <2> QED BY <1>5, <1>6, <2>1
<1>7. ASSUME NEW v \in Viewers, Tick(v) PROVE Balance'
  <2>1. batch' = batch
    BY <1>0, <1>7 DEF Tick, ViewerInv, Types
  <2>2. UNCHANGED <<Shown, Batch, Queued, Held, drops, told, offered>>
    BY <1>7, <1>h, <2>1 DEF Tick
  <2> QED BY <1>n, <2>2 DEF Balance
<1>8. ASSUME NEW v \in Viewers, Drain(v) PROVE Balance'
  <2>0. UNCHANGED <<Shown, drops, told, offered, Held>>
    BY <1>8, <1>h DEF Drain
  <2>1. CASE /\ queue[v] # <<>> /\ batch' = [batch EXCEPT ![v] = Append(@, Head(queue[v]))]
             /\ queue' = [queue EXCEPT ![v] = Tail(@)]
    <3>1. Head(queue[v]) \in 1..MaxNotes /\ Len(Tail(queue[v])) = Len(queue[v]) - 1
      BY <1>s, <2>1, HeadTailProperties
    <3>2. Len(Append(batch[v], Head(queue[v]))) = Len(batch[v]) + 1
      BY <1>s, <3>1, AppendProperties
    <3>3. \A w \in Viewers :
             \/ Queued'[w] = Queued[w] - 1 /\ Batch'[w] = Batch[w] + 1
             \/ Queued'[w] = Queued[w] /\ Batch'[w] = Batch[w]
      BY <1>0, <2>1, <3>1, <3>2 DEF Types, Queued, Batch
    <3> QED BY <1>n, <2>0, <3>3 DEF Balance
  <2>2. CASE UNCHANGED <<batch, queue>>
    BY <1>n, <1>h, <2>0, <2>2 DEF Balance
  <2> QED BY <1>8, <2>1, <2>2 DEF Drain
<1>9. ASSUME NEW v \in Viewers, TakeDrops(v) PROVE Balance'
  <2>1. UNCHANGED <<Shown, Batch, Queued, offered, Held>>
    BY <1>9, <1>h DEF TakeDrops
  <2>2. /\ told'[v] = told[v] + drops[v] /\ drops'[v] = 0
        /\ \A w \in Viewers \ {v} : told'[w] = told[w] /\ drops'[w] = drops[w]
    BY <1>0, <1>9 DEF TakeDrops, Types
  <2> QED BY <1>n, <2>1, <2>2 DEF Balance
<1>10. ASSUME NEW v \in Viewers, WriteBatch(v) PROVE Balance'
  <2>0. UNCHANGED <<Queued, drops, told, offered, Held>>
    BY <1>10, <1>h DEF WriteBatch
  <2>1. CASE shown' = [shown EXCEPT ![v] = @ \o batch[v]] /\ batch' = [batch EXCEPT ![v] = <<>>]
    <3>1. Len(shown[v] \o batch[v]) = Len(shown[v]) + Len(batch[v]) /\ Len(<<>>) = 0
      BY <1>s, ConcatProperties, EmptySeq
    <3>2. /\ Shown'[v] = Shown[v] + Batch[v] /\ Batch'[v] = 0
          /\ \A w \in Viewers \ {v} : Shown'[w] = Shown[w] /\ Batch'[w] = Batch[w]
      BY <1>0, <2>1, <3>1 DEF Types, Shown, Batch
    <3> QED BY <1>n, <2>0, <3>2 DEF Balance
  <2>2. CASE UNCHANGED <<shown, batch>>
    BY <1>n, <1>h, <2>0, <2>2 DEF Balance
  <2> QED BY <1>10, <2>1, <2>2 DEF WriteBatch
<1>11. CASE UNCHANGED <<shown, batch, queue, drops, told, offered, todo, at>>
  <2>1. UNCHANGED <<Shown, Batch, Queued, Held, drops, told, offered>>
    BY <1>11, <1>h
  <2> QED BY <1>n, <2>1 DEF Balance
<1>12. ASSUME NEW p \in Publishers, Count(p) \/ Unlock(p)
       PROVE  UNCHANGED <<shown, batch, queue, drops, told, offered, todo, at>>
  BY <1>12 DEF Count, Unlock
<1>13. ASSUME NEW v \in Viewers,
              Connect(v) \/ Disconnect(v) \/ Subscribe(v) \/ Leave(v) \/ Totals(v) \/ Close(v)
       PROVE  UNCHANGED <<shown, batch, queue, drops, told, offered, todo, at>>
  BY <1>13 DEF Connect, Disconnect, Subscribe, Leave, Totals, Close
<1>14. EndLifecycle \/ UNCHANGED vars
       => UNCHANGED <<shown, batch, queue, drops, told, offered, todo, at>>
  BY DEF EndLifecycle, vars
<1> QED BY <1>1, <1>3, <1>4, <1>6, <1>7, <1>8, <1>9, <1>10, <1>11, <1>12, <1>13, <1>14
        DEF Next, Publish, Handle

\* TotalCoversBatch in terms of the lengths.
Covered == \A v \in Viewers : viewPc[v] = "write" => base[v] + Shown[v] + Batch[v] + told[v] <= total[v]

LEMMA CoversIsCovered == TotalCoversBatch <=> Covered
BY DEF TotalCoversBatch, Covered, Shown, Batch

LEMMA CoversKept ==
    ASSUME Inv, [Next]_vars
    PROVE  TotalCoversBatch'
<1> USE DEF Goto, pubVars, viewVars
<1>0. Types /\ Covered /\ Balance /\ CountInv
  BY CoversIsCovered, AccountedIsBalance DEF Inv
<1>n. /\ notes \in Nat /\ Cardinality(Waiting) \in Nat
      /\ \A v \in Viewers :
            /\ Shown[v] \in Nat /\ Batch[v] \in Nat /\ Queued[v] \in Nat /\ Held[v] \in Nat
            /\ drops[v] \in Nat /\ told[v] \in Nat /\ offered[v] \in Nat /\ base[v] \in Nat
  BY <1>0, SumTypes, Countable DEF Types, Waiting
<1> SUFFICES Covered'
  BY CoversIsCovered, PTL
\* A viewer whose batch is ready keeps it until it is written.
<1>1. ASSUME \A w \in Viewers : viewPc'[w] = "write" =>
                /\ viewPc[w] = "write" /\ base'[w] = base[w] /\ shown'[w] = shown[w]
                /\ batch'[w] = batch[w] /\ told'[w] = told[w] /\ total'[w] = total[w]
      PROVE  Covered'
  <2>1. \A w \in Viewers : viewPc'[w] = "write" => Shown'[w] = Shown[w] /\ Batch'[w] = Batch[w]
    BY <1>1 DEF Shown, Batch
  <2> QED BY <1>0, <1>1, <2>1 DEF Covered
\* Its total is read after its notes were counted.
<1>2. ASSUME NEW v \in Viewers, Totals(v) PROVE Covered'
  <2>1. UNCHANGED <<base, Shown, Batch, told>>
    BY <1>2 DEF Totals, Shown, Batch
  <2>2. /\ total'[v] = notes
        /\ \A w \in Viewers \ {v} : total'[w] = total[w] /\ viewPc'[w] = viewPc[w]
    BY <1>0, <1>2 DEF Totals, Types
  <2>3. offered[v] + base[v] + Cardinality(Waiting) <= notes
    BY <1>0 DEF CountInv
  <2>4. offered[v] = Shown[v] + Batch[v] + Queued[v] + drops[v] + told[v] + Held[v]
    BY <1>0 DEF Balance
  <2>5. base[v] + Shown[v] + Batch[v] + told[v] <= notes
    BY <1>n, <2>3, <2>4
  <2> QED BY <1>0, <2>1, <2>2, <2>5 DEF Covered
<1>3. ASSUME NEW v \in Viewers, Tick(v) \/ Drain(v) PROVE Covered'
  BY <1>0, <1>1, <1>3 DEF Tick, Drain, Types
<1>4. ASSUME NEW v \in Viewers, TakeDrops(v) \/ WriteBatch(v) PROVE Covered'
  BY <1>0, <1>1, <1>4 DEF TakeDrops, WriteBatch, Types
<1>5. ASSUME NEW v \in Viewers, Connect(v) \/ Subscribe(v) \/ Leave(v) \/ Close(v) PROVE Covered'
  BY <1>0, <1>1, <1>5 DEF Connect, Subscribe, Leave, Close, Types
<1>6. CASE UNCHANGED viewVars
  BY <1>1, <1>6
<1>7. ASSUME NEW p \in Publishers, Count(p) \/ Publish(p) PROVE UNCHANGED viewVars
  BY <1>7 DEF Count, Publish, Lock, Offer, Discard, Retry, Unlock
<1>8. (\E v \in Viewers : Disconnect(v)) \/ EndLifecycle \/ UNCHANGED vars => UNCHANGED viewVars
  BY DEF Disconnect, EndLifecycle, vars
<1> QED BY <1>2, <1>3, <1>4, <1>5, <1>6, <1>7, <1>8 DEF Next, Handle

-----------------------------------------------------------------------------
(***************************************************************************)
(* Accounting                                                              *)
(***************************************************************************)

LEMMA InvInit == Init => Inv
<1> SUFFICES ASSUME Init PROVE Inv
  OBVIOUS
<1> USE DEF Init
<1>c. Capacity \in Nat /\ MaxNotes \in Nat /\ NoViewer \notin Viewers
  BY CapacityAssumption, MaxNotesAssumption, NoViewerAssumption
<1>e. /\ <<>> \in Seq(1..MaxNotes) /\ <<>> \in Seq(Publishers) /\ Len(<<>>) = 0
  BY EmptySeq
<1>1. Types
  <2>1. /\ notes \in 0..MaxNotes /\ author \in Seq(Publishers) /\ Len(author) = notes
        /\ pubNote \in [Publishers -> 0..MaxNotes] /\ total \in [Viewers -> 0..MaxNotes]
    BY <1>c, <1>e
  <2>2. /\ queue \in [Viewers -> Seq(1..MaxNotes)] /\ \A v \in Viewers : Len(queue[v]) <= Capacity
        /\ batch \in [Viewers -> Seq(1..MaxNotes)] /\ \A v \in Viewers : Len(batch[v]) <= Capacity
        /\ shown \in [Viewers -> Seq(1..MaxNotes)]
    BY <1>c, <1>e
  <2> QED BY <2>1, <2>2 DEF Types
<1>2. PublisherInv /\ ViewerInv /\ NoLateOffer
  BY <1>c DEF PublisherInv, ViewerInv, NoLateOffer
<1>3. CountInv
  <2>1. Waiting = {}
    BY DEF Waiting
  <2> QED BY <2>1, FS_EmptySet DEF CountInv
<1>4. Accounted
  <2>1. \A v \in Viewers : Held[v] = 0
    <3>1. \A v \in Viewers : Holding(v) = {}
      BY <1>c DEF Holding
    <3> QED BY <3>1, FS_EmptySet DEF Held
  <2>2. \A v \in Viewers : Shown[v] = 0 /\ Batch[v] = 0 /\ Queued[v] = 0
    BY <1>e DEF Shown, Batch, Queued
  <2>3. Balance
    BY <2>1, <2>2 DEF Balance
  <2> QED BY <2>3, AccountedIsBalance
<1>5. TotalCoversBatch
  BY DEF TotalCoversBatch
<1> QED BY <1>1, <1>2, <1>3, <1>4, <1>5 DEF Inv

LEMMA InvAlways == Spec => []Inv
<1>1. Inv /\ [Next]_vars => Inv'
  BY TypesKept, PublisherKept, ViewerKept, NoLateKept, CountKept, AccountedKept, CoversKept DEF Inv
<1> QED BY <1>1, InvInit, PTL DEF Spec

\* For any publishers, browsers and queue capacity, and any interleaving of
\* Publish, the WebSocket handlers and disconnects: a note published while a
\* browser is subscribed is shown, queued or told as dropped exactly once, the
\* total of a batch is never behind it, and no closed subscription is visited.
THEOREM NotesAreAccountedFor == Spec => []DeliverySound
<1>1. Inv => DeliverySound
  <2> SUFFICES ASSUME Inv PROVE TypeOK
    BY DEF Inv, DeliverySound
  <2>1. Types /\ Balance /\ CountInv
    BY AccountedIsBalance DEF Inv
  <2>2. ASSUME NEW v \in Viewers
        PROVE  {drops[v], told[v], total[v], offered[v], base[v]} \subseteq 0..MaxNotes
    <3>1. /\ notes \in Nat /\ notes <= MaxNotes /\ Cardinality(Waiting) \in Nat /\ MaxNotes \in Nat
          /\ Shown[v] \in Nat /\ Batch[v] \in Nat /\ Queued[v] \in Nat /\ Held[v] \in Nat
          /\ drops[v] \in Nat /\ told[v] \in Nat /\ offered[v] \in Nat /\ base[v] \in Nat
          /\ total[v] \in 0..MaxNotes
      <4>1. Cardinality(Waiting) \in Nat
        BY Countable DEF Waiting
      <4>2. notes \in Nat /\ notes <= MaxNotes /\ MaxNotes \in Nat /\ total[v] \in 0..MaxNotes
        BY <2>1, MaxNotesAssumption DEF Types
      <4> QED BY <2>1, <4>1, <4>2, SumTypes
    <3>2. /\ offered[v] + base[v] + Cardinality(Waiting) <= notes
          /\ offered[v] = Shown[v] + Batch[v] + Queued[v] + drops[v] + told[v] + Held[v]
      BY <2>1 DEF CountInv, Balance
    <3>3. drops[v] <= MaxNotes /\ told[v] <= MaxNotes /\ offered[v] <= MaxNotes /\ base[v] <= MaxNotes
      BY <3>1, <3>2
    <3> QED BY <3>1, <3>3
  <2> QED BY <2>1, <2>2 DEF Types, TypeOK
<1> QED BY <1>1, InvAlways, PTL

-----------------------------------------------------------------------------
(***************************************************************************)
(* Order                                                                   *)
(***************************************************************************)

\* What a viewer has been shown or is about to be shown.
Seen == [v \in Viewers |-> shown[v] \o batch[v] \o queue[v]]

\* Publisher p has a note that viewer v is still to get.
Owes(p, v) == pubPc[p] = "lock" \/ p \in Holding(v)

\* A viewer has no note of a publisher that is later than the one it holds, and
\* none as late when the publisher still owes it that one.
FreshInv ==
    \A v \in Viewers : \A i \in 1..Len(Seen[v]) :
        /\ Seen[v][i] \in 1..notes
        /\ Seen[v][i] <= pubNote[author[Seen[v][i]]]
        /\ Owes(author[Seen[v][i]], v) => Seen[v][i] < pubNote[author[Seen[v][i]]]

InOrder ==
    \A v \in Viewers : \A i, j \in 1..Len(Seen[v]) :
        i < j /\ author[Seen[v][i]] = author[Seen[v][j]] => Seen[v][i] < Seen[v][j]

LEMMA ShownInOrderIs == ShownInOrder <=> InOrder
BY DEF ShownInOrder, InOrder, Seen

\* t is s without some of its elements.
Thinned(s, t) ==
    \E g \in [1..Len(t) -> 1..Len(s)] :
        /\ \A i \in 1..Len(t) : t[i] = s[g[i]]
        /\ \A i, j \in 1..Len(t) : i < j => g[i] < g[j]

LEMMA ThinnedSame ==
    ASSUME NEW S, NEW s \in Seq(S), NEW t \in Seq(S), Len(s) = Len(t),
           \A i \in 1..Len(s) : s[i] = t[i]
    PROVE  Thinned(s, t)
<1> DEFINE g == [i \in 1..Len(t) |-> i]
<1>1. g \in [1..Len(t) -> 1..Len(s)]
  OBVIOUS
<1> QED BY <1>1 DEF Thinned

LEMMA ThinnedTail ==
    ASSUME NEW S, NEW s \in Seq(S), NEW t \in Seq(S), t # <<>>
    PROVE  Thinned(s \o t, s \o Tail(t))
<1> DEFINE a == s \o t
           b == s \o Tail(t)
           g == [i \in 1..Len(b) |-> IF i <= Len(s) THEN i ELSE i + 1]
<1>1. /\ Len(s) \in Nat /\ Len(t) \in Nat /\ Tail(t) \in Seq(S) /\ Len(Tail(t)) = Len(t) - 1
      /\ \A i \in 1..Len(Tail(t)) : Tail(t)[i] = t[i + 1]
  BY HeadTailProperties, LenProperties
<1>2. /\ Len(a) = Len(s) + Len(t)
      /\ \A i \in 1..Len(a) : a[i] = IF i <= Len(s) THEN s[i] ELSE t[i - Len(s)]
  BY ConcatProperties
<1>3. /\ Len(b) = Len(s) + Len(t) - 1
      /\ \A i \in 1..Len(b) : b[i] = IF i <= Len(s) THEN s[i] ELSE Tail(t)[i - Len(s)]
  BY <1>1, ConcatProperties
<1> HIDE DEF a, b
<1>4. g \in [1..Len(b) -> 1..Len(a)]
  BY <1>1, <1>2, <1>3
<1>5. ASSUME NEW i \in 1..Len(b) PROVE b[i] = a[g[i]]
  <2>1. CASE i <= Len(s)
    BY <1>1, <1>2, <1>3, <2>1
  <2>2. CASE ~(i <= Len(s))
    <3>1. g[i] = i + 1 /\ i + 1 \in 1..Len(a) /\ i - Len(s) \in 1..Len(Tail(t))
      BY <1>1, <1>2, <1>3, <2>2
    <3>2. a[i + 1] = t[(i + 1) - Len(s)] /\ b[i] = Tail(t)[i - Len(s)]
      BY <1>1, <1>2, <1>3, <2>2, <3>1
    <3>3. Tail(t)[i - Len(s)] = t[(i - Len(s)) + 1] /\ (i - Len(s)) + 1 = (i + 1) - Len(s)
      BY <1>1, <3>1
    <3> QED BY <3>1, <3>2, <3>3
  <2> QED BY <2>1, <2>2
<1>6. \A i, j \in 1..Len(b) : i < j => g[i] < g[j]
  BY <1>1, <1>3
<1> HIDE DEF g
<1>7. Thinned(a, b)
  BY <1>4, <1>5, <1>6 DEF Thinned
<1> QED BY <1>7 DEF a, b

\* A publisher appends to what a viewer gets.
LEMMA AppendAtEnd ==
    ASSUME NEW S, NEW s \in Seq(S), NEW t \in Seq(S), NEW x \in S
    PROVE  s \o Append(t, x) = Append(s \o t, x)
<1> DEFINE a == s \o Append(t, x)
           b == Append(s \o t, x)
<1>1. /\ Append(t, x) \in Seq(S) /\ Len(Append(t, x)) = Len(t) + 1
      /\ \A i \in 1..Len(t) : Append(t, x)[i] = t[i]
      /\ Append(t, x)[Len(t) + 1] = x /\ Len(s) \in Nat /\ Len(t) \in Nat
  BY AppendProperties, LenProperties
<1>2. /\ a \in Seq(S) /\ Len(a) = Len(s) + Len(t) + 1
      /\ \A i \in 1..Len(a) : a[i] = IF i <= Len(s) THEN s[i] ELSE Append(t, x)[i - Len(s)]
  BY <1>1, ConcatProperties
<1>3. /\ s \o t \in Seq(S) /\ Len(s \o t) = Len(s) + Len(t)
      /\ \A i \in 1..Len(s) + Len(t) : (s \o t)[i] = IF i <= Len(s) THEN s[i] ELSE t[i - Len(s)]
  BY ConcatProperties
<1>4. /\ b \in Seq(S) /\ Len(b) = Len(s) + Len(t) + 1 /\ b[Len(s) + Len(t) + 1] = x
      /\ \A i \in 1..Len(s) + Len(t) : b[i] = IF i <= Len(s) THEN s[i] ELSE t[i - Len(s)]
  BY <1>3, AppendProperties
<1> HIDE DEF a, b
<1>5. ASSUME NEW i \in 1..Len(a) PROVE a[i] = b[i]
  <2>0. i \in Nat /\ 1 <= i /\ i <= Len(s) + Len(t) + 1 /\ Len(s) \in Nat /\ Len(t) \in Nat
    BY <1>1, <1>2
  <2>1. CASE i <= Len(s)
    <3>1. i \in 1..Len(s) + Len(t)
      BY <2>0, <2>1
    <3> QED BY <1>2, <1>4, <2>1, <3>1
  <2>2. CASE ~(i <= Len(s)) /\ i <= Len(s) + Len(t)
    <3>1. i - Len(s) \in 1..Len(t) /\ i \in 1..Len(s) + Len(t)
      BY <1>1, <1>2, <2>2
    <3> QED BY <1>1, <1>2, <1>4, <2>2, <3>1
  <2>3. CASE ~(i <= Len(s) + Len(t))
    <3>1. i = Len(s) + Len(t) + 1 /\ i - Len(s) = Len(t) + 1 /\ ~(i <= Len(s))
      BY <2>0, <2>3
    <3> QED BY <1>1, <1>2, <1>4, <3>1
  <2> QED BY <2>1, <2>2, <2>3
<1>6. a = b
  BY <1>2, <1>4, <1>5, SeqEqual
<1> QED BY <1>6 DEF a, b

\* t is s with x at its end.
Extended(s, t, x) ==
    Len(t) = Len(s) + 1 /\ t[Len(s) + 1] = x /\ \A i \in 1..Len(s) : t[i] = s[i]

LEMMA ExtendedConcat ==
    ASSUME NEW S, NEW s \in Seq(S), NEW t \in Seq(S), NEW x \in S
    PROVE  Extended(s \o t, s \o Append(t, x), x)
<1>1. s \o t \in Seq(S)
  BY ConcatProperties
<1>2. Extended(s \o t, Append(s \o t, x), x)
  BY <1>1, AppendProperties DEF Extended
<1>3. s \o Append(t, x) = Append(s \o t, x)
  BY AppendAtEnd
<1> QED BY <1>2, <1>3, Zenon

\* A note moves from the head of the queue to the end of the batch.
LEMMA MovePair ==
    ASSUME NEW S, NEW s \in Seq(S), NEW t \in Seq(S), t # <<>>
    PROVE  Append(s, Head(t)) \o Tail(t) = s \o t
<1> DEFINE a == Append(s, Head(t)) \o Tail(t)
           b == s \o t
<1>1. /\ Tail(t) \in Seq(S) /\ Len(Tail(t)) = Len(t) - 1 /\ Head(t) \in S /\ Head(t) = t[1]
      /\ \A i \in 1..Len(Tail(t)) : Tail(t)[i] = t[i + 1]
      /\ Len(s) \in Nat /\ Len(t) \in Nat
  BY HeadTailProperties, LenProperties
<1>2. /\ Append(s, Head(t)) \in Seq(S) /\ Len(Append(s, Head(t))) = Len(s) + 1
      /\ \A i \in 1..Len(s) : Append(s, Head(t))[i] = s[i]
      /\ Append(s, Head(t))[Len(s) + 1] = Head(t)
  BY <1>1, AppendProperties
<1>3. /\ a \in Seq(S) /\ Len(a) = Len(s) + Len(t)
      /\ \A i \in 1..Len(a) :
            a[i] = IF i <= Len(s) + 1 THEN Append(s, Head(t))[i] ELSE Tail(t)[i - (Len(s) + 1)]
  BY <1>1, <1>2, ConcatProperties
<1>4. /\ b \in Seq(S) /\ Len(b) = Len(s) + Len(t)
      /\ \A i \in 1..Len(b) : b[i] = IF i <= Len(s) THEN s[i] ELSE t[i - Len(s)]
  BY ConcatProperties
<1> HIDE DEF a, b
<1>5. ASSUME NEW i \in 1..Len(a) PROVE a[i] = b[i]
  <2>1. CASE i <= Len(s)
    BY <1>1, <1>2, <1>3, <1>4, <2>1
  <2>2. CASE i = Len(s) + 1
    BY <1>1, <1>2, <1>3, <1>4, <2>2
  <2>3. CASE ~(i <= Len(s) + 1)
    <3>1. /\ i - (Len(s) + 1) \in 1..Len(Tail(t)) /\ (i - (Len(s) + 1)) + 1 = i - Len(s)
          /\ ~(i <= Len(s))
      BY <1>1, <1>3, <2>3
    <3> QED BY <1>1, <1>3, <1>4, <2>3, <3>1
  <2> QED BY <1>1, <1>3, <2>1, <2>2, <2>3
<1>6. a = b
  BY <1>3, <1>4, <1>5, SeqEqual
<1> QED BY <1>6 DEF a, b

Joined(r, s, t) == (r \o s) \o t
Moved(s, t, s2, t2) == t # <<>> /\ s2 = Append(s, Head(t)) /\ t2 = Tail(t)

LEMMA MoveHead ==
    ASSUME NEW S, NEW r \in Seq(S), NEW s \in Seq(S), NEW t \in Seq(S),
           NEW s2, NEW t2, Moved(s, t, s2, t2)
    PROVE  Joined(r, s2, t2) = Joined(r, s, t)
<1> USE DEF Moved
<1>1. Head(t) \in S /\ r \o s \in Seq(S)
  BY HeadTailProperties, ConcatProperties
<1>2. r \o Append(s, Head(t)) = Append(r \o s, Head(t))
  BY <1>1, AppendAtEnd
<1>3. Append(r \o s, Head(t)) \o Tail(t) = (r \o s) \o t
  BY <1>1, MovePair
<1> QED BY <1>2, <1>3 DEF Joined

\* What every step of Order below has to show: a viewer loses notes, or gets the
\* one a publisher owed it; publishers only move on, to notes nobody has seen.
OrderStep ==
    /\ notes' \in Nat /\ notes <= notes' /\ \A n \in 1..notes : author'[n] = author[n]
    /\ \A p \in Publishers : pubNote'[p] \in Nat /\ pubNote[p] <= pubNote'[p]
    /\ \A v \in Viewers, p \in Publishers : Owes(p, v)' => Owes(p, v) \/ notes < pubNote'[p]
    /\ \A v \in Viewers :
          \/ Thinned(Seen[v], Seen'[v])
          \/ \E p \in Publishers :
                /\ Extended(Seen[v], Seen'[v], pubNote[p]) /\ Owes(p, v) /\ ~Owes(p, v)'
                /\ pubPc[p] # "idle" /\ pubNote'[p] = pubNote[p]

LEMMA SeenTyped ==
    ASSUME Types
    PROVE  \A v \in Viewers : Seen[v] \in Seq(1..MaxNotes)
BY ConcatProperties DEF Types, Seen

LEMMA OrderKept ==
    ASSUME Inv, FreshInv, InOrder, OrderStep
    PROVE  FreshInv' /\ InOrder'
<1>0. /\ notes \in Nat /\ notes <= notes' /\ notes' \in Nat /\ \A n \in 1..notes : author[n] \in Publishers
      /\ \A v \in Viewers : Seen[v] \in Seq(1..MaxNotes) /\ Len(Seen[v]) \in Nat
      /\ \A p \in Publishers : pubNote[p] \in Nat
  <2>1. Types
    BY DEF Inv
  <2>2. \A n \in 1..notes : author[n] \in Publishers
    BY <2>1, ElementOfSeq DEF Types
  <2> QED BY <2>1, <2>2, SeenTyped, LenProperties DEF Types, OrderStep
<1> SUFFICES ASSUME NEW v \in Viewers
             PROVE  /\ \A i \in 1..Len(Seen'[v]) :
                          /\ Seen'[v][i] \in 1..notes'
                          /\ Seen'[v][i] <= pubNote'[author'[Seen'[v][i]]]
                          /\ Owes(author[Seen[v][i]], v)' =>
                                Seen'[v][i] < pubNote'[author'[Seen'[v][i]]]
                    /\ \A i, j \in 1..Len(Seen'[v]) :
                          i < j /\ author'[Seen'[v][i]] = author'[Seen'[v][j]] =>
                             Seen'[v][i] < Seen'[v][j]
  BY DEF FreshInv, InOrder
\* A note the viewer has stays as it is.
<1>1. ASSUME NEW i \in 1..Len(Seen[v]), NEW n, n = Seen[v][i]
      PROVE  /\ n \in 1..notes /\ n \in 1..notes' /\ author'[n] = author[n] /\ author[n] \in Publishers
             /\ n <= pubNote'[author'[n]]
             /\ \A p \in Publishers : p = author'[n] /\ Owes(p, v)' => n < pubNote'[p]
  <2>1. /\ n \in 1..notes /\ n <= pubNote[author[n]]
        /\ Owes(author[n], v) => n < pubNote[author[n]]
    BY <1>1 DEF FreshInv
  <2>2. PICK p \in Publishers : p = author[n]
    BY <1>0, <2>1
  <2>3. /\ author'[n] = p /\ pubNote'[p] \in Nat /\ pubNote[p] <= pubNote'[p]
        /\ Owes(p, v)' => Owes(p, v) \/ notes < pubNote'[p]
    BY <2>1, <2>2 DEF OrderStep
  <2>4. n \in 1..notes' /\ n <= pubNote'[p]
    BY <1>0, <2>1, <2>2, <2>3
  <2>5. Owes(p, v)' => n < pubNote'[p]
    BY <1>0, <2>1, <2>2, <2>3
  <2> QED BY <2>1, <2>2, <2>3, <2>4, <2>5
<1>2. CASE Thinned(Seen[v], Seen'[v])
  <2>1. PICK g \in [1..Len(Seen'[v]) -> 1..Len(Seen[v])] :
           /\ \A i \in 1..Len(Seen'[v]) : Seen'[v][i] = Seen[v][g[i]]
           /\ \A i, j \in 1..Len(Seen'[v]) : i < j => g[i] < g[j]
    BY <1>2 DEF Thinned
  <2>2. ASSUME NEW i \in 1..Len(Seen'[v])
        PROVE  /\ Seen'[v][i] \in 1..notes'
               /\ Seen'[v][i] <= pubNote'[author'[Seen'[v][i]]]
               /\ Owes(author[Seen[v][i]], v)' => Seen'[v][i] < pubNote'[author'[Seen'[v][i]]]
    <3>1. g[i] \in 1..Len(Seen[v]) /\ Seen'[v][i] = Seen[v][g[i]]
      BY <2>1
    <3>2. PICK n : n = Seen[v][g[i]]
      OBVIOUS
    <3> QED BY <1>1, <3>1, <3>2
  <2>3. ASSUME NEW i \in 1..Len(Seen'[v]), NEW j \in 1..Len(Seen'[v]), i < j,
               author'[Seen'[v][i]] = author'[Seen'[v][j]]
        PROVE  Seen'[v][i] < Seen'[v][j]
    <3>1. /\ g[i] \in 1..Len(Seen[v]) /\ Seen'[v][i] = Seen[v][g[i]]
          /\ g[j] \in 1..Len(Seen[v]) /\ Seen'[v][j] = Seen[v][g[j]] /\ g[i] < g[j]
      BY <2>1, <2>3
    <3>2. author'[Seen'[v][i]] = author[Seen[v][g[i]]] /\ author'[Seen'[v][j]] = author[Seen[v][g[j]]]
      BY <1>1, <3>1
    <3> QED BY <2>3, <3>1, <3>2 DEF InOrder
  <2> QED BY <2>2, <2>3
<1>3. ASSUME NEW p \in Publishers,
             Extended(Seen[v], Seen'[v], pubNote[p]), Owes(p, v), ~Owes(p, v)',
             pubPc[p] # "idle", pubNote'[p] = pubNote[p]
      PROVE  /\ \A i \in 1..Len(Seen'[v]) :
                   /\ Seen'[v][i] \in 1..notes'
                   /\ Seen'[v][i] <= pubNote'[author'[Seen'[v][i]]]
                   /\ Owes(author[Seen[v][i]], v)' =>
                         Seen'[v][i] < pubNote'[author'[Seen'[v][i]]]
             /\ \A i, j \in 1..Len(Seen'[v]) :
                   i < j /\ author'[Seen'[v][i]] = author'[Seen'[v][j]] =>
                      Seen'[v][i] < Seen'[v][j]
  <2>1. pubNote[p] \in 1..notes /\ pubNote[p] \in 1..MaxNotes /\ author[pubNote[p]] = p
    BY <1>0, <1>3 DEF Inv, Types, PublisherInv
  <2>2. /\ Len(Seen'[v]) = Len(Seen[v]) + 1 /\ Seen'[v][Len(Seen[v]) + 1] = pubNote[p]
        /\ \A i \in 1..Len(Seen[v]) : Seen'[v][i] = Seen[v][i]
    BY <1>3 DEF Extended
  <2>3. author'[pubNote[p]] = p /\ pubNote[p] \in 1..notes'
    BY <1>0, <2>1 DEF OrderStep
  <2>4. ASSUME NEW i \in 1..Len(Seen'[v])
        PROVE  /\ Seen'[v][i] \in 1..notes'
               /\ Seen'[v][i] <= pubNote'[author'[Seen'[v][i]]]
               /\ Owes(author[Seen[v][i]], v)' => Seen'[v][i] < pubNote'[author'[Seen'[v][i]]]
    <3>1. CASE i \in 1..Len(Seen[v])
      BY <1>1, <2>2, <3>1
    <3>2. CASE i = Len(Seen[v]) + 1
      BY <1>0, <1>3, <2>1, <2>2, <2>3, <3>2
    <3> QED BY <1>0, <2>2, <3>1, <3>2
  <2>5. ASSUME NEW i \in 1..Len(Seen'[v]), NEW j \in 1..Len(Seen'[v]), i < j,
               author'[Seen'[v][i]] = author'[Seen'[v][j]]
        PROVE  Seen'[v][i] < Seen'[v][j]
    <3>0. i \in 1..Len(Seen[v])
      BY <1>0, <2>2, <2>5
    <3>1. CASE j \in 1..Len(Seen[v])
      <4>1. author[Seen[v][i]] = author[Seen[v][j]]
        BY <1>1, <2>2, <2>5, <3>0, <3>1
      <4> QED BY <2>2, <2>5, <3>0, <3>1, <4>1 DEF InOrder
    <3>2. CASE j = Len(Seen[v]) + 1
      <4>1. author[Seen[v][i]] = p
        BY <1>1, <2>2, <2>3, <2>5, <3>0, <3>2
      <4> QED BY <1>3, <2>2, <3>0, <3>2, <4>1 DEF FreshInv
    <3> QED BY <1>0, <2>2, <3>1, <3>2
  <2> QED BY <2>4, <2>5
<1> QED BY <1>2, <1>3 DEF OrderStep

LEMMA StepsKeepOrder ==
    ASSUME Inv, [Next]_vars
    PROVE  OrderStep
<1> USE DEF Goto, pubVars, viewVars
<1>0. /\ Types /\ PublisherInv /\ ViewerInv /\ NoViewer \notin Viewers /\ notes \in Nat
      /\ \A p \in Publishers : pubNote[p] \in Nat
  BY NoViewerAssumption DEF Inv, Types
<1>t. Types'
  BY TypesKept
<1>s. /\ \A v \in Viewers : /\ shown[v] \in Seq(1..MaxNotes) /\ batch[v] \in Seq(1..MaxNotes)
                            /\ queue[v] \in Seq(1..MaxNotes)
                            /\ shown[v] \o batch[v] \in Seq(1..MaxNotes)
                            /\ Seen[v] = (shown[v] \o batch[v]) \o queue[v]
      /\ \A v \in Viewers : Seen'[v] = (shown'[v] \o batch'[v]) \o queue'[v]
      /\ \A v \in Viewers : Seen[v] \in Seq(1..MaxNotes)
  <2>1. \A v \in Viewers : /\ shown[v] \in Seq(1..MaxNotes) /\ batch[v] \in Seq(1..MaxNotes)
                           /\ queue[v] \in Seq(1..MaxNotes)
    BY <1>0, SumTypes
  <2>2. \A v \in Viewers : shown[v] \o batch[v] \in Seq(1..MaxNotes)
    BY <2>1, ConcatProperties
  <2> QED BY <1>0, <2>1, <2>2, SeenTyped DEF Seen
<1>e. ASSUME NEW v \in Viewers, Seen'[v] = Seen[v] PROVE Thinned(Seen[v], Seen'[v])
  BY <1>e, <1>s, ThinnedSame
\* Publishers that only give up what they owe, and viewers as OrderStep has them.
<1>a. ASSUME UNCHANGED <<notes, author, pubNote>>,
             \A v \in Viewers, p \in Publishers : Owes(p, v)' => Owes(p, v),
             \A v \in Viewers :
                \/ Thinned(Seen[v], Seen'[v])
                \/ \E p \in Publishers :
                      /\ Extended(Seen[v], Seen'[v], pubNote[p]) /\ Owes(p, v) /\ ~Owes(p, v)'
                      /\ pubPc[p] # "idle" /\ pubNote'[p] = pubNote[p]
      PROVE  OrderStep
  BY <1>0, <1>a DEF OrderStep
<1>1. ASSUME NEW p \in Publishers, Count(p) PROVE OrderStep
  <2>1. \A v \in Viewers : Thinned(Seen[v], Seen'[v])
    BY <1>1, <1>e DEF Count, Seen
  <2>2. /\ notes' = notes + 1 /\ \A n \in 1..notes : author'[n] = author[n]
    BY <1>0, <1>1, AppendProperties DEF Count, Types
  <2>3. pubNote'[p] = notes + 1 /\ \A q \in Publishers \ {p} : pubNote'[q] = pubNote[q]
    BY <1>0, <1>1 DEF Count, Types
  <2>4. \A q \in Publishers : pubNote'[q] \in Nat /\ pubNote[q] <= pubNote'[q]
    BY <1>0, <2>3 DEF PublisherInv
  <2>5. ASSUME NEW v \in Viewers, NEW q \in Publishers, Owes(q, v)'
        PROVE  Owes(q, v) \/ notes < pubNote'[q]
    <3>1. CASE q = p
      BY <1>0, <2>3, <3>1
    <3>2. CASE q # p
      BY <1>0, <1>1, <2>5, <3>2 DEF Count, Types, Owes, Holding
    <3> QED BY <3>1, <3>2
  <2> QED BY <1>0, <2>1, <2>2, <2>4, <2>5 DEF OrderStep
<1>2. ASSUME NEW p \in Publishers, Lock(p) PROVE OrderStep
  <2>1. \A v \in Viewers : Thinned(Seen[v], Seen'[v])
    BY <1>2, <1>e DEF Lock, Seen
  <2>2. ASSUME NEW v \in Viewers, NEW q \in Publishers, Owes(q, v)' PROVE Owes(q, v)
    <3>1. CASE q = p
      BY <1>2, <3>1 DEF Lock, Owes
    <3>2. CASE q # p
      BY <1>0, <1>2, <2>2, <3>2 DEF Lock, Types, Owes, Holding
    <3> QED BY <3>1, <3>2
  <2> QED BY <1>2, <1>a, <2>1, <2>2 DEF Lock
\* The note joins the queue.
<1>3. ASSUME NEW p \in Publishers, NEW v \in Viewers, pubPc[p] # "idle",
             queue' = [queue EXCEPT ![v] = Append(@, pubNote[p])],
             UNCHANGED <<notes, author, pubNote, viewVars>>,
             \A w \in Viewers, q \in Publishers : Owes(q, w)' => Owes(q, w),
             Owes(p, v), ~Owes(p, v)'
      PROVE  OrderStep
  <2>1. pubNote[p] \in 1..MaxNotes
    BY <1>0, <1>3 DEF Types, PublisherInv
  <2>2. queue'[v] = Append(queue[v], pubNote[p]) /\ \A w \in Viewers \ {v} : queue'[w] = queue[w]
    BY <1>0, <1>3 DEF Types
  <2>3. Seen'[v] = (shown[v] \o batch[v]) \o Append(queue[v], pubNote[p])
    BY <1>3, <1>s, <2>2
  <2>4. Extended(Seen[v], Seen'[v], pubNote[p])
    <3>1. /\ shown[v] \o batch[v] \in Seq(1..MaxNotes) /\ queue[v] \in Seq(1..MaxNotes)
          /\ Seen[v] = (shown[v] \o batch[v]) \o queue[v]
      BY <1>s
    <3>2. Extended((shown[v] \o batch[v]) \o queue[v],
                   (shown[v] \o batch[v]) \o Append(queue[v], pubNote[p]), pubNote[p])
      BY <2>1, <3>1, ExtendedConcat, Zenon
    <3> QED BY <2>3, <3>1, <3>2, Zenon
  <2>5. \A w \in Viewers \ {v} : Thinned(Seen[w], Seen'[w])
    <3>1. \A w \in Viewers \ {v} : Seen'[w] = Seen[w]
      <4>1. shown' = shown /\ batch' = batch
        BY <1>3
      <4> QED BY <2>2, <4>1, Zenon DEF Seen
    <3> QED BY <1>e, <3>1
  <2> QED BY <1>3, <1>a, <2>4, <2>5
<1>4. ASSUME NEW p \in Publishers, NEW v \in Viewers, Offer(p, v) PROVE OrderStep
  <2>1. pubPc[p] = "loop" /\ v \in todo[p] /\ at[p] = NoViewer
    BY <1>0, <1>4 DEF Offer, PublisherInv
  <2>2. todo'[p] = todo[p] \ {v} /\ \A q \in Publishers \ {p} : todo'[q] = todo[q]
    BY <1>0, <1>4 DEF Offer, Types
  <2>3. CASE queue' = [queue EXCEPT ![v] = Append(@, pubNote[p])] /\ UNCHANGED <<pubPc, at>>
    <3>1. \A w \in Viewers, q \in Publishers : Owes(q, w)' => Owes(q, w)
      BY <2>2, <2>3 DEF Owes, Holding
    <3>2. Owes(p, v) /\ ~Owes(p, v)'
      BY <1>0, <2>1, <2>2, <2>3 DEF Owes, Holding
    <3> QED BY <1>3, <1>4, <2>1, <2>3, <3>1, <3>2 DEF Offer
  <2>4. CASE /\ pubPc' = [pubPc EXCEPT ![p] = "full"] /\ at' = [at EXCEPT ![p] = v]
             /\ UNCHANGED queue
    <3>1. /\ at'[p] = v /\ pubPc'[p] = "full"
          /\ \A q \in Publishers \ {p} : at'[q] = at[q] /\ pubPc'[q] = pubPc[q]
      BY <1>0, <2>4 DEF Types
    <3>2. \A w \in Viewers, q \in Publishers : Owes(q, w)' => Owes(q, w)
      BY <2>1, <2>2, <3>1 DEF Owes, Holding
    <3>3. \A w \in Viewers : Thinned(Seen[w], Seen'[w])
      BY <1>4, <1>e, <2>4 DEF Offer, Seen
    <3> QED BY <1>4, <1>a, <3>2, <3>3 DEF Offer
  <2> QED BY <1>4, <2>3, <2>4 DEF Offer
<1>5. ASSUME NEW p \in Publishers, Discard(p) PROVE OrderStep
  <2>0. at[p] \in Viewers /\ UNCHANGED <<notes, author, pubNote, shown, batch, todo, at>>
    BY <1>0, <1>5 DEF Discard, PublisherInv
  <2>1. \A w \in Viewers, q \in Publishers : Owes(q, w)' => Owes(q, w)
    <3>1. \A q \in Publishers : pubPc'[q] = "lock" => pubPc[q] = "lock"
      BY <1>0, <1>5 DEF Discard, Types
    <3> QED BY <2>0, <3>1 DEF Owes, Holding
  <2>2. ASSUME NEW w \in Viewers PROVE Thinned(Seen[w], Seen'[w])
    <3>1. CASE queue'[w] = queue[w]
      BY <1>e, <1>s, <2>0, <3>1
    <3>2. CASE queue[w] # <<>> /\ queue'[w] = Tail(queue[w])
      <4>1. Thinned((shown[w] \o batch[w]) \o queue[w], (shown[w] \o batch[w]) \o Tail(queue[w]))
        BY <1>s, <3>2, ThinnedTail
      <4>2. Seen'[w] = (shown[w] \o batch[w]) \o Tail(queue[w])
        BY <1>s, <2>0, <3>2
      <4> QED BY <1>s, <4>1, <4>2
    <3> QED BY <1>0, <1>5, <2>0, <3>1, <3>2 DEF Discard, Types
  <2> QED BY <1>a, <2>0, <2>1, <2>2
<1>6. ASSUME NEW p \in Publishers, NEW v \in Viewers, at[p] = v, Retry(p) PROVE OrderStep
  <2>0. /\ v \notin todo[p] /\ pubPc[p] = "retry"
        /\ UNCHANGED <<notes, author, pubNote, todo, viewVars>>
    BY <1>0, <1>6 DEF Retry, PublisherInv
  <2>1. /\ at'[p] = NoViewer /\ pubPc'[p] = "loop"
        /\ \A q \in Publishers \ {p} : at'[q] = at[q] /\ pubPc'[q] = pubPc[q]
    BY <1>0, <1>6 DEF Retry, Types
  <2>2. \A w \in Viewers, q \in Publishers : Owes(q, w)' => Owes(q, w)
    BY <1>0, <2>0, <2>1 DEF Owes, Holding
  <2>3. Owes(p, v) /\ ~Owes(p, v)'
    BY <1>0, <1>6, <2>0, <2>1 DEF Owes, Holding
  <2>4. CASE queue' = [queue EXCEPT ![v] = Append(@, pubNote[p])]
    BY <1>3, <2>0, <2>2, <2>3, <2>4
  <2>5. CASE UNCHANGED queue
    <3>1. \A w \in Viewers : Thinned(Seen[w], Seen'[w])
      BY <1>e, <2>0, <2>5 DEF Seen
    <3> QED BY <1>a, <2>0, <2>2, <3>1
  <2> QED BY <1>6, <2>4, <2>5 DEF Retry
<1>7. ASSUME NEW p \in Publishers, Retry(p) PROVE OrderStep
  <2>1. at[p] \in Viewers
    BY <1>0, <1>7 DEF Retry, PublisherInv
  <2> QED BY <1>6, <1>7, <2>1
<1>8. ASSUME NEW p \in Publishers, Unlock(p) PROVE OrderStep
  <2>1. \A w \in Viewers, q \in Publishers : Owes(q, w)' => Owes(q, w)
    BY <1>0, <1>8 DEF Unlock, Types, Owes, Holding
  <2>2. \A w \in Viewers : Thinned(Seen[w], Seen'[w])
    BY <1>8, <1>e DEF Unlock, Seen
  <2> QED BY <1>8, <1>a, <2>1, <2>2 DEF Unlock
\* A handler moves the notes of its viewer on.
<1>9. ASSUME UNCHANGED pubVars, \A w \in Viewers : Seen'[w] = Seen[w] PROVE OrderStep
  <2>1. \A w \in Viewers, q \in Publishers : Owes(q, w)' => Owes(q, w)
    BY <1>9 DEF Owes, Holding
  <2> QED BY <1>9, <1>a, <1>e, <2>1
<1>10. ASSUME NEW v \in Viewers, Drain(v) PROVE OrderStep
  <2>1. CASE /\ queue[v] # <<>> /\ batch' = [batch EXCEPT ![v] = Append(@, Head(queue[v]))]
             /\ queue' = [queue EXCEPT ![v] = Tail(@)]
    <3>1. /\ queue'[v] = Tail(queue[v]) /\ batch'[v] = Append(batch[v], Head(queue[v]))
          /\ \A w \in Viewers \ {v} : queue'[w] = queue[w] /\ batch'[w] = batch[w]
      BY <1>0, <2>1 DEF Types
    <3>2. shown' = shown /\ Head(queue[v]) \in 1..MaxNotes
      BY <1>10, <1>s, <2>1, HeadTailProperties DEF Drain
    <3>3. Joined(shown[v], batch'[v], queue'[v]) = Joined(shown[v], batch[v], queue[v])
      <4>1. /\ shown[v] \in Seq(1..MaxNotes) /\ batch[v] \in Seq(1..MaxNotes)
            /\ queue[v] \in Seq(1..MaxNotes)
        BY <1>s
      <4>2. Moved(batch[v], queue[v], batch'[v], queue'[v])
        BY <2>1, <3>1 DEF Moved
      <4> QED BY <4>1, <4>2, MoveHead
    <3>4. \A w \in Viewers : Seen'[w] = Seen[w]
      <4>1. \A w \in Viewers : /\ Seen[w] = Joined(shown[w], batch[w], queue[w])
                               /\ Seen'[w] = Joined(shown'[w], batch'[w], queue'[w])
        BY DEF Joined, Seen
      <4> QED BY <3>1, <3>2, <3>3, <4>1
    <3> QED BY <1>9, <1>10, <3>4 DEF Drain
  <2>2. CASE UNCHANGED <<batch, queue>>
    BY <1>9, <1>10, <2>2 DEF Drain, Seen
  <2> QED BY <1>10, <2>1, <2>2 DEF Drain
<1>11. ASSUME NEW v \in Viewers, WriteBatch(v) PROVE OrderStep
  <2>1. CASE shown' = [shown EXCEPT ![v] = @ \o batch[v]] /\ batch' = [batch EXCEPT ![v] = <<>>]
    <3>1. /\ shown'[v] = shown[v] \o batch[v] /\ batch'[v] = <<>> /\ queue' = queue
          /\ \A w \in Viewers \ {v} : shown'[w] = shown[w] /\ batch'[w] = batch[w]
      BY <1>0, <1>11, <2>1 DEF WriteBatch, Types
    <3>2. (shown[v] \o batch[v]) \o <<>> = shown[v] \o batch[v]
      BY <1>s, ConcatEmptySeq
    <3>3. \A w \in Viewers : Seen'[w] = Seen[w]
      BY <1>s, <3>1, <3>2
    <3> QED BY <1>9, <1>11, <3>3 DEF WriteBatch
  <2>2. CASE UNCHANGED <<shown, batch>>
    BY <1>9, <1>11, <2>2 DEF WriteBatch, Seen
  <2> QED BY <1>11, <2>1, <2>2 DEF WriteBatch
<1>12. ASSUME NEW v \in Viewers, Tick(v) PROVE OrderStep
  <2>1. batch' = batch
    BY <1>0, <1>12 DEF Tick, ViewerInv, Types
  <2> QED BY <1>9, <1>12, <2>1 DEF Tick, Seen
<1>13. CASE UNCHANGED <<pubVars, shown, batch, queue>>
  BY <1>9, <1>13 DEF Seen
<1>14. ASSUME NEW v \in Viewers,
              Connect(v) \/ Disconnect(v) \/ Subscribe(v) \/ Leave(v) \/ TakeDrops(v)
              \/ Totals(v) \/ Close(v)
       PROVE  UNCHANGED <<pubVars, shown, batch, queue>>
  BY <1>14 DEF Connect, Disconnect, Subscribe, Leave, TakeDrops, Totals, Close
<1>15. EndLifecycle \/ UNCHANGED vars => UNCHANGED <<pubVars, shown, batch, queue>>
  BY DEF EndLifecycle, vars
<1> QED BY <1>1, <1>2, <1>4, <1>5, <1>7, <1>8, <1>10, <1>11, <1>12, <1>13, <1>14, <1>15
        DEF Next, Publish, Handle

\* For any publishers, browsers and queue capacity: whatever a slow browser
\* loses, it is shown the notes of one goroutine in the order in which that
\* goroutine published them, and none of them twice.
THEOREM BrowsersSeeOrder == Spec => []ShownInOrder
<1>1. Init => FreshInv /\ InOrder
  <2> SUFFICES ASSUME Init PROVE \A v \in Viewers : Len(Seen[v]) = 0
    BY DEF FreshInv, InOrder
  <2>1. (<<>> \o <<>>) \o <<>> = <<>> /\ Len(<<>>) = 0
    BY EmptySeq, ConcatEmptySeq
  <2> QED BY <2>1 DEF Init, Seen
<1>2. Inv /\ FreshInv /\ InOrder /\ [Next]_vars => FreshInv' /\ InOrder'
  BY StepsKeepOrder, OrderKept
<1>3. FreshInv /\ InOrder => ShownInOrder
  BY ShownInOrderIs
<1> QED BY <1>1, <1>2, <1>3, InvAlways, PTL DEF Spec

=============================================================================
