--------------------------- MODULE PeerEdgeProof ----------------------------
(***************************************************************************)
(* Proofs about PeerEdge for any queue and link capacity, any backoff and  *)
(* any number of notes and sessions.                                       *)
(***************************************************************************)
EXTENDS PeerEdge, TLAPS, SequenceTheorems

Messages == 0..MaxNotes + 3

\* The types, with their functions, and naturals for what TypeOK bounds.
Types ==
    /\ stop \in BOOLEAN
    /\ pc \in {"loop", "dial", "select", "write", "over", "backoff", "finish", "done"}
    /\ state \in {"disconnected", "connecting", "connected", "backoff"}
    /\ backoff \in ReconnectBase..ReconnectLimit
    /\ session \in 0..MaxSessions /\ pending \in BOOLEAN
    /\ written \in 0..MaxNotes
    /\ queue \in Seq(1..MaxNotes) /\ Len(queue) <= QueueCapacity
    /\ tally \in [{"sent", "full", "stale", "failed"} -> Nat]
    /\ link \in [Sessions -> {"none", "up", "broken", "closed"}]
    /\ reader \in [Sessions -> {"none", "read", "hold", "ended"}]
    /\ held \in [Sessions -> Messages]
    /\ received \in Seq(Sessions \X (1..MaxNotes))

\* Buffers, one of each per session.
Short(buffers, limit) ==
    buffers \in [Sessions -> Seq(Messages)] /\ \A s \in Sessions : Len(buffers[s]) <= limit

Buffers == Short(incoming, 1) /\ Short(toHost, LinkCapacity) /\ Short(toEdge, LinkCapacity)

\* A message is in the hand of a session, while it is written.
SessionInv ==
    /\ pc \in {"select", "write"} => session > 0
    /\ IF pc = "write" THEN hand \in 1..MaxNotes + 1 ELSE hand = Nothing

\* The notes in the queue, the notes the host received in each session, and the
\* notes on their way to it.
Notes(s) == {n \in 1..MaxNotes : \E i \in 1..Len(s) : s[i] = n}

Queued == Notes(queue)
Arrived == [s \in Sessions |-> {n \in 1..MaxNotes : \E i \in 1..Len(received) : received[i] = <<s, n>>}]
Wire == [s \in Sessions |-> Notes(toHost[s])]

\* Notes leave the queue in order, and later sessions get later notes: what
\* arrived is behind what is on the wire, that behind the hand, that behind the
\* queue.
PlaceInv ==
    /\ \A s \in Sessions : \A m \in Arrived[s] \cup Wire[s] :
          /\ s <= session /\ m <= written /\ (IsNote(hand) => m < hand)
          /\ \A n \in Queued : m < n
          /\ \A t \in Sessions : s < t => \A n \in Arrived[t] \cup Wire[t] : m < n
    /\ \A s \in Sessions : \A m \in Arrived[s], n \in Wire[s] : m < n
    /\ \A n \in Queued : n <= written /\ (IsNote(hand) => hand < n)
    /\ IsNote(hand) => hand <= written

Ascending(s) == \A i, j \in 1..Len(s) : i < j /\ IsNote(s[i]) /\ IsNote(s[j]) => s[i] < s[j]

OrderInv == Ascending(queue) /\ \A s \in Sessions : Ascending(toHost[s])

Inv == Types /\ Buffers /\ SessionInv /\ PlaceInv /\ OrderInv /\ ReceivedOnce /\ Accounted

-----------------------------------------------------------------------------
(***************************************************************************)
(* Types                                                                   *)
(***************************************************************************)

LEMMA Constants ==
    /\ QueueCapacity \in Nat /\ ReconnectBase \in Nat /\ ReconnectLimit \in Nat
    /\ ReconnectBase > 0 /\ ReconnectBase <= ReconnectLimit
    /\ LinkCapacity \in Nat /\ MaxNotes \in Nat /\ MaxSessions \in Nat
    /\ \A n \in 1..MaxNotes : n \in Messages
    /\ Ping \in Messages /\ Pong \in Messages /\ Rejected \in Messages /\ Nothing \in Messages
BY EdgeAssumption DEF Messages, Ping, Pong, Rejected, Nothing

LEMMA ShortAppend ==
    ASSUME NEW f, NEW g, NEW limit \in Nat, Short(f, limit), NEW s \in Sessions, NEW m \in Messages,
           Len(f[s]) < limit, g = [f EXCEPT ![s] = Append(@, m)]
    PROVE  Short(g, limit)
<1>0. f \in [Sessions -> Seq(Messages)] /\ f[s] \in Seq(Messages) /\ Len(f[s]) \in Nat
  BY LenProperties DEF Short
<1>1. Append(f[s], m) \in Seq(Messages) /\ Len(Append(f[s], m)) = Len(f[s]) + 1
  BY <1>0, AppendProperties
<1>2. Len(Append(f[s], m)) <= limit
  BY <1>0, <1>1
<1> QED BY <1>0, <1>1, <1>2 DEF Short

LEMMA ShortTail ==
    ASSUME NEW f, NEW g, NEW limit \in Nat, Short(f, limit), NEW s \in Sessions, f[s] # <<>>,
           g = [f EXCEPT ![s] = Tail(@)]
    PROVE  Short(g, limit) /\ Head(f[s]) \in Messages
<1>0. f \in [Sessions -> Seq(Messages)] /\ f[s] \in Seq(Messages) /\ Len(f[s]) \in Nat
      /\ Len(f[s]) <= limit
  BY LenProperties DEF Short
<1>1. /\ Tail(f[s]) \in Seq(Messages) /\ Len(Tail(f[s])) = Len(f[s]) - 1
      /\ Head(f[s]) \in Messages
  BY <1>0, HeadTailProperties
<1>2. Len(Tail(f[s])) <= limit
  BY <1>0, <1>1
<1> QED BY <1>0, <1>1, <1>2 DEF Short

LEMMA ShortPut ==
    ASSUME NEW f, NEW g, NEW limit \in Nat, Short(f, limit), NEW s, NEW b \in Seq(Messages),
           Len(b) <= limit, g = [f EXCEPT ![s] = b]
    PROVE  Short(g, limit)
<1>1. g \in [Sessions -> Seq(Messages)] /\ \A t \in Sessions : g[t] = f[t] \/ g[t] = b
  BY DEF Short
<1> QED BY <1>1 DEF Short

LEMMA ShortEmpty ==
    ASSUME NEW f, NEW g, NEW limit \in Nat, Short(f, limit), NEW s,
           g = [f EXCEPT ![s] = <<>>]
    PROVE  Short(g, limit)
<1>1. <<>> \in Seq(Messages) /\ Len(<<>>) <= limit
  BY EmptySeq
<1> QED BY <1>1, ShortPut

LEMMA TypesKept ==
    ASSUME Inv, [Next]_vars
    PROVE  Types'
<1> USE DEF edgeVars, readerVars
<1>0. Types /\ Buffers /\ SessionInv
  BY DEF Inv
<1>c. /\ QueueCapacity \in Nat /\ ReconnectBase \in Nat /\ ReconnectLimit \in Nat
      /\ ReconnectBase > 0 /\ ReconnectBase <= ReconnectLimit
      /\ LinkCapacity \in Nat /\ MaxNotes \in Nat /\ MaxSessions \in Nat
  BY Constants
<1>q. queue \in Seq(1..MaxNotes) /\ Len(queue) \in Nat /\ Len(queue) <= QueueCapacity
  BY <1>0, LenProperties DEF Types
<1>k. ASSUME NEW k \in {"sent", "full", "stale", "failed"}, Count(k)
      PROVE  tally' \in [{"sent", "full", "stale", "failed"} -> Nat]
  BY <1>0, <1>k DEF Count, Types
<1>1. CASE Write
  <2>1. written' \in 0..MaxNotes /\ written + 1 \in 1..MaxNotes
    BY <1>0, <1>1, <1>c DEF Write, Types
  <2>2. CASE Len(queue) < QueueCapacity /\ queue' = Append(queue, written + 1) /\ UNCHANGED tally
    <3>1. queue' \in Seq(1..MaxNotes) /\ Len(queue') = Len(queue) + 1
      BY <1>q, <2>1, <2>2, AppendProperties
    <3>2. Len(queue') <= QueueCapacity
      BY <1>q, <1>c, <2>2, <3>1
    <3> QED BY <1>0, <1>1, <2>1, <2>2, <3>1, <3>2 DEF Write, Types
  <2>3. CASE Count("full") /\ UNCHANGED queue
    <3>1. tally' \in [{"sent", "full", "stale", "failed"} -> Nat]
      BY <1>k, <2>3
    <3> QED BY <1>0, <1>1, <2>1, <2>3, <3>1 DEF Write, Types
  <2> QED BY <1>1, <2>2, <2>3 DEF Write
<1>2. CASE Loop
  <2>1. CASE BackoffEnds
    <3>1. backoff' \in ReconnectBase..ReconnectLimit
      BY <1>0, <1>c, <2>1 DEF BackoffEnds, Types
    <3> QED BY <1>0, <2>1, <3>1 DEF BackoffEnds, Types
  <2>2. CASE Attempt \/ SessionOver \/ Finish
    BY <1>0, <2>2 DEF Attempt, SessionOver, Finish, Types
  <2> QED BY <1>2, <2>1, <2>2 DEF Loop
<1>3. CASE Connect
  <2>1. session' \in 0..MaxSessions /\ backoff' \in ReconnectBase..ReconnectLimit
    BY <1>0, <1>3, <1>c DEF Connect, Types
  <2> QED BY <1>0, <1>3, <2>1 DEF Connect, Types
<1>4. CASE ConnectFails
  BY <1>0, <1>4 DEF ConnectFails, Types
<1>5. CASE OnStop \/ OnReadError \/ OnIncoming \/ OnTick
  BY <1>0, <1>5 DEF OnStop, OnReadError, OnIncoming, OnTick, Leave, Types
<1>6. CASE OnQueue
  <2>1. queue' \in Seq(1..MaxNotes) /\ Len(queue') = Len(queue) - 1
    BY <1>q, <1>6, HeadTailProperties DEF OnQueue
  <2>2. Len(queue') <= QueueCapacity
    BY <1>c, <1>q, <2>1
  <2>3. tally' \in [{"sent", "full", "stale", "failed"} -> Nat]
    BY <1>0, <1>k, <1>6 DEF OnQueue, Types
  <2> QED BY <1>0, <1>6, <2>1, <2>2, <2>3 DEF OnQueue, Types
<1>7. CASE WriteDone \/ WriteFails
  <2>1. tally' \in [{"sent", "full", "stale", "failed"} -> Nat]
    BY <1>0, <1>k, <1>7 DEF WriteDone, WriteFails, Types
  <2> QED BY <1>0, <1>7, <2>1 DEF WriteDone, WriteFails, Cut, Leave, Types
<1>8. ASSUME NEW s \in Sessions, Reader(s) PROVE Types'
  <2>1. CASE Read(s)
    <3>1. Head(toEdge[s]) \in Messages
      BY <1>0, <1>c, <2>1, ShortTail DEF Read, Buffers
    <3> QED BY <1>0, <2>1, <3>1 DEF Read, Types
  <2>2. CASE ReadFails(s)
    BY <1>0, <2>2 DEF ReadFails, Types
  <2>3. CASE HandOver(s)
    <3>1. held' \in [Sessions -> Messages]
      BY <1>0, <2>3, Constants DEF HandOver, Types
    <3> QED BY <1>0, <2>3, <3>1 DEF HandOver, Types
  <2> QED BY <1>8, <2>1, <2>2, <2>3 DEF Reader
<1>9. ASSUME NEW s \in Sessions, Host(s) PROVE Types'
  <2>1. received' \in Seq(Sessions \X (1..MaxNotes))
    <3>1. CASE received' = received
      BY <1>0, <3>1 DEF Types
    <3>2. CASE IsNote(Head(toHost[s])) /\ received' = Append(received, <<s, Head(toHost[s])>>)
      <4>1. <<s, Head(toHost[s])>> \in Sessions \X (1..MaxNotes)
        BY <3>2 DEF IsNote
      <4> QED BY <1>0, <3>2, <4>1, AppendProperties DEF Types
    <3> QED BY <1>9, <3>1, <3>2 DEF Host, HostRead, HostLeaves
  <2> QED BY <1>0, <1>9, <2>1 DEF Host, HostRead, HostLeaves, Types
<1>10. CASE LinkBreaks \/ Cancel
  BY <1>0, <1>10 DEF LinkBreaks, Cancel, Types
<1>11. CASE UNCHANGED vars
  BY <1>0, <1>11 DEF vars, Types
<1> QED BY <1>1, <1>2, <1>3, <1>4, <1>5, <1>6, <1>7, <1>8, <1>9, <1>10, <1>11 DEF Next, Session

LEMMA BuffersKept ==
    ASSUME Inv, [Next]_vars
    PROVE  Buffers'
<1> USE DEF edgeVars, readerVars
<1>0. /\ Types /\ SessionInv /\ 1 \in Nat /\ LinkCapacity \in Nat
      /\ Short(incoming, 1) /\ Short(toHost, LinkCapacity) /\ Short(toEdge, LinkCapacity)
  BY Constants DEF Inv, Buffers
<1>s. pc \in {"select", "write"} => session \in Sessions
  BY <1>0, Constants DEF Types, SessionInv, Sessions
<1>h. pc = "write" => hand \in Messages
  BY <1>0, Constants DEF SessionInv, Messages
<1>l. Leave => Short(toEdge', LinkCapacity)
  BY <1>0, ShortEmpty DEF Leave
<1> SUFFICES Short(incoming', 1) /\ Short(toHost', LinkCapacity) /\ Short(toEdge', LinkCapacity)
  BY DEF Buffers, Short
<1>1. CASE UNCHANGED <<incoming, toHost, toEdge>>
  BY <1>0, <1>1
<1>2. CASE Write \/ Loop \/ Connect \/ ConnectFails \/ OnQueue \/ LinkBreaks \/ Cancel \/ UNCHANGED vars
  <2>1. UNCHANGED <<incoming, toHost, toEdge>>
    BY <1>2 DEF Write, Loop, Attempt, SessionOver, BackoffEnds, Finish, Connect, ConnectFails,
                OnQueue, LinkBreaks, Cancel, vars
  <2> QED BY <1>1, <2>1
<1>3. CASE OnStop \/ OnReadError \/ OnTick
  BY <1>0, <1>3, <1>l DEF OnStop, OnReadError, OnTick
<1>4. CASE OnIncoming
  <2>1. Short(incoming', 1)
    BY <1>0, <1>4, <1>s, ShortTail DEF OnIncoming
  <2> QED BY <1>0, <1>4, <2>1 DEF OnIncoming
<1>5. CASE WriteDone \/ WriteFails
  <2>1. Short(toHost', LinkCapacity)
    <3>1. CASE toHost' = toHost
      BY <1>0, <3>1
    <3>2. CASE /\ Len(toHost[session]) < LinkCapacity
               /\ toHost' = [toHost EXCEPT ![session] = Append(@, hand)]
      <4>1. session \in Sessions /\ hand \in Messages
        BY <1>5, <1>s, <1>h DEF WriteDone, WriteFails, Cut
      <4> QED BY <1>0, <3>2, <4>1, ShortAppend
    <3> QED BY <1>5, <3>1, <3>2 DEF WriteDone, WriteFails, Cut
  <2> QED BY <1>0, <1>5, <1>l, <2>1 DEF WriteDone, WriteFails, Cut
<1>6. ASSUME NEW s \in Sessions, Read(s) PROVE Short(toEdge', LinkCapacity)
  BY <1>0, <1>6, ShortTail DEF Read
<1>7. ASSUME NEW s \in Sessions, HandOver(s) PROVE Short(incoming', 1)
  <2>1. CASE incoming' = incoming
    BY <1>0, <2>1
  <2>2. CASE incoming' = [incoming EXCEPT ![s] = <<held[s]>>]
    <3>1. held[s] \in Messages
      BY <1>0 DEF Types
    <3>2. <<held[s]>> \in Seq(Messages) /\ Len(<<held[s]>>) <= 1
      BY <3>1
    <3> QED BY <1>0, <2>2, <3>2, ShortPut
  <2> QED BY <1>7, <2>1, <2>2 DEF HandOver
<1>8. ASSUME NEW s \in Sessions, Reader(s)
      PROVE  Short(incoming', 1) /\ Short(toHost', LinkCapacity) /\ Short(toEdge', LinkCapacity)
  BY <1>0, <1>6, <1>7, <1>8 DEF Reader, Read, ReadFails, HandOver
<1>9. ASSUME NEW s \in Sessions, Host(s)
      PROVE  Short(incoming', 1) /\ Short(toHost', LinkCapacity) /\ Short(toEdge', LinkCapacity)
  <2>1. CASE HostLeaves(s)
    BY <1>0, <2>1, ShortEmpty DEF HostLeaves
  <2>2. CASE HostRead(s)
    <3>1. Short(toHost', LinkCapacity)
      BY <1>0, <2>2, ShortTail DEF HostRead
    <3>2. \/ toEdge' = toEdge
          \/ \E a \in Messages : /\ Len(toEdge[s]) < LinkCapacity
                                 /\ toEdge' = [toEdge EXCEPT ![s] = Append(@, a)]
      BY <2>2, Constants DEF HostRead
    <3>3. Short(toEdge', LinkCapacity)
      BY <1>0, <3>2, ShortAppend
    <3> QED BY <1>0, <2>2, <3>1, <3>3 DEF HostRead
  <2> QED BY <1>9, <2>1, <2>2 DEF Host
<1> QED BY <1>2, <1>3, <1>4, <1>5, <1>8, <1>9 DEF Next, Session

LEMMA SessionKept ==
    ASSUME Inv, [Next]_vars
    PROVE  SessionInv'
<1> USE DEF edgeVars, readerVars
<1>0. Types /\ SessionInv /\ MaxNotes \in Nat /\ session \in Nat /\ Ping = MaxNotes + 1
  BY Constants DEF Inv, Types, Ping
<1>1. CASE Write \/ LinkBreaks \/ Cancel \/ UNCHANGED vars
  BY <1>0, <1>1 DEF Write, LinkBreaks, Cancel, vars, SessionInv
<1>2. CASE Loop \/ ConnectFails
  BY <1>0, <1>2 DEF Loop, Attempt, SessionOver, BackoffEnds, Finish, ConnectFails, SessionInv
<1>3. CASE Connect
  BY <1>0, <1>3 DEF Connect, SessionInv
<1>4. CASE OnStop \/ OnReadError \/ OnIncoming
  BY <1>0, <1>4 DEF OnStop, OnReadError, OnIncoming, Leave, SessionInv
<1>5. CASE OnTick
  BY <1>0, <1>5 DEF OnTick, Leave, SessionInv
<1>6. CASE OnQueue
  <2>1. Head(queue) \in 1..MaxNotes
    BY <1>0, <1>6, HeadTailProperties DEF OnQueue, Types
  <2> QED BY <1>0, <1>6, <2>1 DEF OnQueue, SessionInv
<1>7. CASE WriteDone \/ WriteFails
  BY <1>0, <1>7 DEF WriteDone, WriteFails, Cut, Leave, SessionInv
<1>8. ASSUME NEW s \in Sessions, Reader(s) \/ Host(s) PROVE SessionInv'
  <2>1. UNCHANGED edgeVars
    BY <1>8 DEF Reader, Read, ReadFails, HandOver, Host, HostRead, HostLeaves
  <2> QED BY <1>0, <2>1 DEF SessionInv
<1> QED BY <1>1, <1>2, <1>3, <1>4, <1>5, <1>6, <1>7, <1>8 DEF Next, Session

-----------------------------------------------------------------------------
(***************************************************************************)
(* Accounting                                                              *)
(***************************************************************************)

Size == Len(queue)
InHand == IF pc = "write" /\ IsNote(hand) THEN 1 ELSE 0

LEMMA AccountedKept ==
    ASSUME Inv, [Next]_vars
    PROVE  Accounted'
<1> USE DEF edgeVars, readerVars
<1>0. Types /\ SessionInv /\ queue \in Seq(1..MaxNotes)
  BY DEF Inv, Types
<1>n. /\ written \in Nat /\ InHand \in {0, 1} /\ Size \in Nat
      /\ tally["sent"] \in Nat /\ tally["full"] \in Nat /\ tally["stale"] \in Nat
      /\ tally["failed"] \in Nat
      /\ written = Size + tally["sent"] + tally["full"] + tally["stale"] + tally["failed"] + InHand
  BY LenProperties DEF Inv, Types, Accounted, InHand, Size
<1> SUFFICES written' = Size' + tally'["sent"] + tally'["full"] + tally'["stale"]
                        + tally'["failed"] + InHand'
  BY DEF Accounted, InHand, Size
<1>k. ASSUME NEW k \in {"sent", "full", "stale", "failed"}, Count(k)
      PROVE  /\ tally'["sent"] = IF k = "sent" THEN tally["sent"] + 1 ELSE tally["sent"]
             /\ tally'["full"] = IF k = "full" THEN tally["full"] + 1 ELSE tally["full"]
             /\ tally'["stale"] = IF k = "stale" THEN tally["stale"] + 1 ELSE tally["stale"]
             /\ tally'["failed"] = IF k = "failed" THEN tally["failed"] + 1 ELSE tally["failed"]
  BY <1>0, <1>k DEF Count, Types
<1>1. CASE UNCHANGED <<written, queue, tally>> /\ InHand' = InHand
  BY <1>n, <1>1 DEF Size
<1>2. CASE Write
  <2>1. InHand' = InHand /\ written' = written + 1
    BY <1>2 DEF Write, InHand
  <2>2. CASE queue' = Append(queue, written + 1) /\ UNCHANGED tally
    <3>1. Size' = Size + 1
      BY <1>0, <2>2 DEF Size
    <3>2. tally' = tally
      BY <2>2
    <3> QED BY <1>n, <2>1, <3>1, <3>2
  <2>3. CASE Count("full") /\ UNCHANGED queue
    <3>1. /\ tally'["sent"] = tally["sent"] /\ tally'["full"] = tally["full"] + 1
          /\ tally'["stale"] = tally["stale"] /\ tally'["failed"] = tally["failed"] /\ Size' = Size
      BY <1>k, <2>3 DEF Size
    <3> QED BY <1>n, <2>1, <3>1
  <2> QED BY <1>2, <2>2, <2>3 DEF Write
<1>3. CASE OnQueue
  <2>1. InHand = 0 /\ Size' = Size - 1 /\ written' = written /\ Head(queue) \in 1..MaxNotes
    BY <1>0, <1>3, HeadTailProperties DEF OnQueue, InHand, Size
  <2>2. CASE Count("stale") /\ UNCHANGED <<pc, hand>>
    <3>1. InHand' = 0
      BY <1>3, <2>2 DEF OnQueue, InHand
    <3>2. /\ tally'["sent"] = tally["sent"] /\ tally'["full"] = tally["full"]
          /\ tally'["stale"] = tally["stale"] + 1 /\ tally'["failed"] = tally["failed"]
      BY <1>k, <2>2
    <3> QED BY <1>n, <2>1, <3>1, <3>2
  <2>3. CASE hand' = Head(queue) /\ pc' = "write" /\ UNCHANGED tally
    <3>1. InHand' = 1
      BY <2>1, <2>3 DEF InHand, IsNote
    <3> QED BY <1>n, <2>1, <2>3, <3>1
  <2> QED BY <1>3, <2>2, <2>3 DEF OnQueue
<1>4. ASSUME NEW k \in {"sent", "failed"}, pc = "write", UNCHANGED <<queue, written>>, InHand' = 0,
             IF IsNote(hand) THEN Count(k) ELSE UNCHANGED tally
      PROVE  written' = Size' + tally'["sent"] + tally'["full"] + tally'["stale"]
                        + tally'["failed"] + InHand'
  <2>1. CASE IsNote(hand)
    <3>1. InHand = 1 /\ Count(k)
      BY <1>4, <2>1 DEF InHand
    <3>2. /\ tally'["full"] = tally["full"] /\ tally'["stale"] = tally["stale"]
          /\ \/ tally'["sent"] = tally["sent"] + 1 /\ tally'["failed"] = tally["failed"]
             \/ tally'["sent"] = tally["sent"] /\ tally'["failed"] = tally["failed"] + 1
      BY <1>4, <1>k, <3>1
    <3>3. Size' = Size /\ written' = written /\ InHand' = 0
      BY <1>4 DEF Size
    <3> QED BY <1>n, <3>1, <3>2, <3>3
  <2>2. CASE ~IsNote(hand)
    <3>1. InHand = 0 /\ tally' = tally
      BY <1>4, <2>2 DEF InHand
    <3> QED BY <1>n, <1>4, <3>1 DEF Size
  <2> QED BY <2>1, <2>2
<1>5. CASE WriteDone
  <2>1. InHand' = 0
    BY <1>5 DEF WriteDone, InHand
  <2> QED BY <1>4, <1>5, <2>1 DEF WriteDone
<1>6. CASE WriteFails
  <2>1. InHand' = 0
    BY <1>6 DEF WriteFails, Cut, Leave, InHand
  <2> QED BY <1>4, <1>6, <2>1 DEF WriteFails, Cut
<1>7. CASE Loop \/ Connect \/ ConnectFails \/ OnStop \/ OnReadError \/ OnIncoming \/ OnTick
  <2>1. UNCHANGED <<written, queue, tally>> /\ pc # "write"
    BY <1>7 DEF Loop, Attempt, SessionOver, BackoffEnds, Finish, Connect, ConnectFails, OnStop,
                OnReadError, OnIncoming, OnTick
  <2>2. pc' # "write" \/ hand' = MaxNotes + 1
    BY <1>7 DEF Loop, Attempt, SessionOver, BackoffEnds, Finish, Connect, ConnectFails, OnStop,
                OnReadError, OnIncoming, OnTick, Leave, Ping
  <2>3. InHand = 0 /\ InHand' = 0
    BY <2>1, <2>2, Constants DEF InHand, IsNote
  <2> QED BY <1>1, <2>1, <2>3
<1>8. CASE \/ LinkBreaks \/ Cancel \/ UNCHANGED vars
           \/ \E s \in Sessions : Reader(s) \/ Host(s)
  <2>1. UNCHANGED <<written, queue, tally, pc, hand>>
    BY <1>8 DEF LinkBreaks, Cancel, vars, Reader, Read, ReadFails, HandOver, Host, HostRead, HostLeaves
  <2> QED BY <1>1, <2>1 DEF InHand
<1> QED BY <1>2, <1>3, <1>5, <1>6, <1>7, <1>8 DEF Next, Session

-----------------------------------------------------------------------------
(***************************************************************************)
(* Sequences of messages                                                   *)
(***************************************************************************)

\* A message is appended that is no note, or a later note than all before.
LEMMA AppendLater ==
    ASSUME NEW s \in Seq(Messages), NEW m \in Messages, Ascending(s),
           IsNote(m) => \A n \in Notes(s) : n < m
    PROVE  /\ Ascending(Append(s, m))
           /\ Notes(Append(s, m)) \subseteq Notes(s) \cup (IF IsNote(m) THEN {m} ELSE {})
<1> DEFINE t == Append(s, m)
<1>1. /\ t \in Seq(Messages) /\ Len(t) = Len(s) + 1 /\ Len(s) \in Nat /\ t[Len(s) + 1] = m
      /\ \A i \in 1..Len(s) : t[i] = s[i]
  BY AppendProperties, LenProperties
<1> HIDE DEF t
<1>2. \A i \in 1..Len(t) : i \in 1..Len(s) \/ i = Len(s) + 1
  BY <1>1
<1>3. Notes(t) \subseteq Notes(s) \cup (IF IsNote(m) THEN {m} ELSE {})
  <2> SUFFICES ASSUME NEW n \in 1..MaxNotes, NEW i \in 1..Len(t), t[i] = n
               PROVE  n \in Notes(s) \/ (IsNote(m) /\ n = m)
    BY DEF Notes
  <2> QED BY <1>1, <1>2 DEF Notes, IsNote
<1>4. ASSUME NEW i \in 1..Len(t), NEW j \in 1..Len(t), i < j, IsNote(t[i]), IsNote(t[j])
      PROVE  t[i] < t[j]
  <2>1. i \in 1..Len(s)
    BY <1>1, <1>2, <1>4
  <2>2. CASE j \in 1..Len(s)
    BY <1>1, <1>4, <2>1, <2>2 DEF Ascending
  <2>3. CASE j = Len(s) + 1
    <3>1. t[i] \in Notes(s)
      BY <1>1, <1>4, <2>1 DEF Notes, IsNote
    <3> QED BY <1>1, <1>4, <2>3, <3>1
  <2> QED BY <1>2, <2>2, <2>3
<1>5. Ascending(t)
  BY <1>4 DEF Ascending
<1> QED BY <1>3, <1>5 DEF t

\* The first message is taken: a note is earlier than all that stay.
LEMMA TakeFirst ==
    ASSUME NEW s \in Seq(Messages), s # <<>>, Ascending(s)
    PROVE  /\ Ascending(Tail(s)) /\ Notes(Tail(s)) \subseteq Notes(s)
           /\ IsNote(Head(s)) => Head(s) \in Notes(s) /\ \A n \in Notes(Tail(s)) : Head(s) < n
<1> DEFINE t == Tail(s)
<1>1. /\ t \in Seq(Messages) /\ Len(t) = Len(s) - 1 /\ Len(s) \in Nat \ {0} /\ Head(s) = s[1]
      /\ \A i \in 1..Len(t) : t[i] = s[i + 1]
  BY HeadTailProperties, EmptySeq
<1> HIDE DEF t
<1>2. \A i \in 1..Len(t) : i + 1 \in 1..Len(s) /\ 1 < i + 1 /\ 1 \in 1..Len(s)
  BY <1>1
<1>3. ASSUME NEW n \in Notes(t) PROVE n \in Notes(s) /\ (IsNote(Head(s)) => Head(s) < n)
  <2>1. PICK i \in 1..Len(t) : t[i] = n
    BY DEF Notes
  <2>2. n \in 1..MaxNotes /\ s[i + 1] = n
    BY <1>1, <2>1 DEF Notes
  <2> QED BY <1>1, <1>2, <2>2 DEF Notes, Ascending, IsNote
<1>4. IsNote(Head(s)) => Head(s) \in Notes(s)
  <2>1. 1 \in 1..Len(s)
    BY <1>1
  <2> QED BY <1>1, <2>1 DEF Notes, IsNote
<1>5. ASSUME NEW i \in 1..Len(t), NEW j \in 1..Len(t), i < j, IsNote(t[i]), IsNote(t[j])
      PROVE  t[i] < t[j]
  <2>1. i + 1 \in 1..Len(s) /\ j + 1 \in 1..Len(s) /\ i + 1 < j + 1
    BY <1>1, <1>5
  <2> QED BY <1>1, <1>5, <2>1 DEF Ascending
<1>6. Ascending(t)
  BY <1>5 DEF Ascending
<1> QED BY <1>3, <1>4, <1>6 DEF t

\* The queue is a sequence of messages too.
LEMMA QueueTyped ==
    ASSUME Types
    PROVE  queue \in Seq(Messages)
<1>1. 1..MaxNotes \subseteq Messages
  BY Constants
<1> QED BY <1>1, SeqMonotonic DEF Types

-----------------------------------------------------------------------------
(***************************************************************************)
(* Places                                                                  *)
(***************************************************************************)

\* Notes may leave, none arrives.
LEMMA PlacesShrink ==
    ASSUME Inv, Arrived' = Arrived, \A s \in Sessions : Wire'[s] \subseteq Wire[s],
           Queued' \subseteq Queued, hand' = hand \/ ~IsNote(hand'), session' \in Nat,
           session <= session', written' = written
    PROVE  PlaceInv'
<1>0. PlaceInv /\ session \in Nat /\ \A s \in Sessions : s \in Nat
  BY Constants DEF Inv, Types, Sessions
<1>1. ASSUME NEW s \in Sessions, NEW m \in Arrived'[s] \cup Wire'[s]
      PROVE  /\ s <= session' /\ m <= written' /\ (IsNote(hand') => m < hand')
             /\ \A n \in Queued' : m < n
             /\ \A t \in Sessions : s < t => \A n \in Arrived'[t] \cup Wire'[t] : m < n
  <2>1. m \in Arrived[s] \cup Wire[s]
    OBVIOUS
  <2>2. /\ s <= session /\ m <= written /\ (IsNote(hand) => m < hand)
        /\ \A n \in Queued : m < n
        /\ \A t \in Sessions : s < t => \A n \in Arrived[t] \cup Wire[t] : m < n
    BY <1>0, <2>1 DEF PlaceInv
  <2>3. s <= session'
    BY <1>0, <2>2
  <2> QED BY <2>2, <2>3
<1>2. \A s \in Sessions : \A m \in Arrived'[s], n \in Wire'[s] : m < n
  BY <1>0 DEF PlaceInv
<1>3. \A n \in Queued' : n <= written' /\ (IsNote(hand') => hand' < n)
  BY <1>0 DEF PlaceInv
<1>4. IsNote(hand') => hand' <= written'
  BY <1>0 DEF PlaceInv
<1> QED BY <1>1, <1>2, <1>3, <1>4 DEF PlaceInv, IsNote

LEMMA ArrivedTyped ==
    ASSUME Types
    PROVE  /\ \A s \in Sessions : Arrived[s] \subseteq 1..MaxNotes /\ Wire[s] \subseteq 1..MaxNotes
           /\ Queued \subseteq 1..MaxNotes
BY DEF Arrived, Wire, Queued, Notes

LEMMA PlaceKept ==
    ASSUME Inv, [Next]_vars
    PROVE  PlaceInv' /\ OrderInv' /\ ReceivedOnce'
<1> USE DEF edgeVars, readerVars
<1>0. /\ Types /\ SessionInv /\ PlaceInv /\ OrderInv /\ ReceivedOnce /\ Short(toHost, LinkCapacity)
      /\ session \in Nat /\ MaxNotes \in Nat /\ written \in Nat
  BY Constants DEF Inv, Buffers, Types
<1>t. \A s \in Sessions : s \in Nat /\ toHost[s] \in Seq(Messages)
  BY <1>0, Constants DEF Sessions, Short
<1>a. received' = received => Arrived' = Arrived /\ ReceivedOnce'
  BY <1>0 DEF Arrived, ReceivedOnce
<1>w. toHost' = toHost => Wire' = Wire /\ \A s \in Sessions : Ascending(toHost'[s])
  BY <1>0 DEF Wire, OrderInv
<1>q. queue' = queue => Queued' = Queued /\ Ascending(queue')
  BY <1>0 DEF Queued, OrderInv
\* Neither the queue, nor the wire, nor the host.
<1>1. ASSUME UNCHANGED <<received, toHost, queue, written>>, session' \in Nat, session <= session',
             hand' = hand \/ ~IsNote(hand')
      PROVE  PlaceInv' /\ OrderInv' /\ ReceivedOnce'
  <2>1. PlaceInv'
    BY <1>1, <1>a, <1>w, <1>q, PlacesShrink
  <2> QED BY <1>1, <1>a, <1>w, <1>q, <2>1 DEF OrderInv
<1>2. CASE Write
  <2>0. /\ UNCHANGED <<received, toHost, session, hand>> /\ written' = written + 1
        /\ written + 1 \in 1..MaxNotes
    BY <1>0, <1>2, Constants DEF Write
  <2>1. Queued' \subseteq Queued \cup {written + 1} /\ Ascending(queue')
    <3>1. CASE queue' = queue
      BY <1>q, <3>1
    <3>2. CASE queue' = Append(queue, written + 1)
      <4>1. queue \in Seq(Messages) /\ written + 1 \in Messages
        BY <1>0, <2>0, QueueTyped, Constants
      <4>2. \A n \in Notes(queue) : n < written + 1
        <5>1. \A n \in Notes(queue) : n \in Nat /\ n <= written
          BY <1>0 DEF PlaceInv, Queued, Notes
        <5> QED BY <1>0, <5>1
      <4> QED BY <1>0, <3>2, <4>1, <4>2, AppendLater DEF OrderInv, Queued
    <3> QED BY <1>2, <3>1, <3>2 DEF Write
  <2>2. PlaceInv'
    <3>1. Arrived' = Arrived /\ Wire' = Wire
      BY <1>a, <1>w, <2>0
    <3>2. /\ \A s \in Sessions : \A m \in Arrived[s] \cup Wire[s] : m \in Nat
          /\ Queued \subseteq Nat /\ \A n : IsNote(n) => n \in Nat
      BY <1>0, ArrivedTyped DEF IsNote
    <3> QED BY <1>0, <2>0, <2>1, <3>1, <3>2 DEF PlaceInv, IsNote
  <2> QED BY <1>a, <1>w, <2>0, <2>1, <2>2 DEF OrderInv
<1>3. CASE OnQueue
  <2>0. /\ UNCHANGED <<received, toHost, session, written>> /\ pc = "select"
        /\ queue \in Seq(Messages) /\ queue # <<>> /\ queue' = Tail(queue)
        /\ Head(queue) \in 1..MaxNotes
    BY <1>0, <1>3, QueueTyped, HeadTailProperties DEF OnQueue, Types
  <2>1. /\ Ascending(queue') /\ Queued' \subseteq Queued /\ IsNote(Head(queue))
        /\ Head(queue) \in Queued /\ \A n \in Queued' : Head(queue) < n
    <3>1. Ascending(queue)
      BY <1>0 DEF OrderInv
    <3>2. IsNote(Head(queue))
      BY <2>0 DEF IsNote
    <3> QED BY <2>0, <3>1, <3>2, TakeFirst DEF Queued
  <2>2. CASE hand' = hand
    <3>1. PlaceInv'
      BY <1>0, <1>a, <1>w, <2>0, <2>1, <2>2, PlacesShrink
    <3> QED BY <1>a, <1>w, <2>0, <2>1, <3>1 DEF OrderInv
  <2>3. CASE hand' = Head(queue)
    <3>1. Arrived' = Arrived /\ Wire' = Wire
      BY <1>a, <1>w, <2>0
    <3>2. PlaceInv'
      BY <1>0, <2>0, <2>1, <2>3, <3>1 DEF PlaceInv, IsNote
    <3> QED BY <1>a, <1>w, <2>0, <2>1, <3>2 DEF OrderInv
  <2> QED BY <1>3, <2>2, <2>3 DEF OnQueue
\* The hand is put on the wire.
<1>4. ASSUME pc = "write", toHost' = [toHost EXCEPT ![session] = Append(@, hand)],
             UNCHANGED <<received, queue, session, written>>, ~IsNote(hand')
      PROVE  PlaceInv' /\ OrderInv' /\ ReceivedOnce'
  <2>0. session \in Sessions /\ hand \in Messages
    BY <1>0, <1>4, Constants DEF SessionInv, Types, Sessions, Messages
  <2>1. IsNote(hand) => \A n \in Notes(toHost[session]) : n < hand
    <3>1. \A n \in Notes(toHost[session]) : n \in Wire[session]
      BY <2>0 DEF Wire
    <3> QED BY <1>0, <2>0, <3>1 DEF PlaceInv
  <2>2. /\ Ascending(Append(toHost[session], hand))
        /\ Notes(Append(toHost[session], hand))
              \subseteq Notes(toHost[session]) \cup (IF IsNote(hand) THEN {hand} ELSE {})
    <3>1. Ascending(toHost[session])
      BY <1>0, <2>0 DEF OrderInv
    <3> QED BY <1>t, <2>0, <2>1, <3>1, AppendLater
  <2>3. /\ toHost'[session] = Append(toHost[session], hand)
        /\ \A s \in Sessions \ {session} : toHost'[s] = toHost[s]
    BY <1>0, <1>4, <2>0 DEF Short
  <2>4. /\ Wire'[session] \subseteq Wire[session] \cup (IF IsNote(hand) THEN {hand} ELSE {})
        /\ \A s \in Sessions \ {session} : Wire'[s] = Wire[s]
    BY <2>0, <2>2, <2>3 DEF Wire
  <2>5. OrderInv'
    <3>1. \A s \in Sessions : Ascending(toHost'[s])
      BY <1>0, <2>2, <2>3 DEF OrderInv
    <3> QED BY <1>4, <1>q, <3>1 DEF OrderInv
  <2>6. Arrived' = Arrived /\ Queued' = Queued /\ ReceivedOnce'
    BY <1>4, <1>a, <1>q
  <2>7. CASE ~IsNote(hand)
    <3>1. PlaceInv'
      BY <1>0, <1>4, <2>4, <2>6, <2>7, PlacesShrink
    <3> QED BY <2>5, <2>6, <3>1
  <2>8. CASE IsNote(hand)
    <3>1. \A s \in Sessions : \A m \in Arrived[s] \cup Wire[s] : s <= session /\ m < hand
      BY <1>0, <2>8 DEF PlaceInv
    <3>2. hand <= written /\ \A n \in Queued : hand < n
      BY <1>0, <2>8 DEF PlaceInv
    <3>3. ASSUME NEW s \in Sessions, NEW m \in Arrived'[s] \cup Wire'[s]
          PROVE  /\ s <= session' /\ m <= written' /\ \A n \in Queued' : m < n
                 /\ \A t \in Sessions : s < t => \A n \in Arrived'[t] \cup Wire'[t] : m < n
      <4>1. CASE m \in Arrived[s] \cup Wire[s]
        <5>1. /\ s <= session /\ m <= written /\ \A n \in Queued : m < n
              /\ \A t \in Sessions : s < t => \A n \in Arrived[t] \cup Wire[t] : m < n
          BY <1>0, <4>1 DEF PlaceInv
        <5>2. \A t \in Sessions : \A n \in Arrived'[t] \cup Wire'[t] :
                 n = hand \/ n \in Arrived[t] \cup Wire[t]
          BY <2>4, <2>6, <2>8
        <5> QED BY <1>4, <2>6, <3>1, <4>1, <5>1, <5>2
      <4>2. CASE s = session /\ m = hand
        <5>1. \A t \in Sessions : s < t => Arrived'[t] \cup Wire'[t] = {}
          <6> SUFFICES ASSUME NEW t \in Sessions, s < t, NEW n \in Arrived'[t] \cup Wire'[t]
                       PROVE  FALSE
            OBVIOUS
          <6>1. t # session /\ n \in Arrived[t] \cup Wire[t] /\ t \in Nat
            BY <1>0, <1>t, <2>4, <2>6, <4>2
          <6> QED BY <1>0, <3>1, <4>2, <6>1
        <5> QED BY <1>0, <1>4, <2>6, <3>2, <4>2, <5>1
      <4> QED BY <2>4, <2>6, <2>8, <4>1, <4>2
    <3>4. \A s \in Sessions : \A m \in Arrived'[s], n \in Wire'[s] : m < n
      <4> SUFFICES ASSUME NEW s \in Sessions, NEW m \in Arrived[s], NEW n \in Wire'[s]
                   PROVE  m < n
        BY <2>6
      <4>1. n \in Wire[s] \/ n = hand
        BY <2>4, <2>8
      <4> QED BY <1>0, <3>1, <4>1 DEF PlaceInv
    <3>5. \A n \in Queued' : n <= written'
      BY <1>0, <1>4, <2>6 DEF PlaceInv
    <3>6. PlaceInv'
      BY <1>4, <3>3, <3>4, <3>5 DEF PlaceInv, IsNote
    <3> QED BY <2>5, <2>6, <3>6
  <2> QED BY <2>7, <2>8
<1>5. ASSUME WriteDone \/ WriteFails PROVE PlaceInv' /\ OrderInv' /\ ReceivedOnce'
  <2>1. /\ pc = "write" /\ UNCHANGED <<received, queue, session, written>> /\ ~IsNote(hand')
    BY <1>5 DEF WriteDone, WriteFails, Cut, Leave, IsNote, Nothing
  <2>2. CASE toHost' = toHost
    BY <1>0, <1>1, <2>1, <2>2
  <2>3. CASE toHost' = [toHost EXCEPT ![session] = Append(@, hand)]
    BY <1>4, <2>1, <2>3
  <2> QED BY <1>5, <2>2, <2>3 DEF WriteDone, WriteFails, Cut
<1>6. ASSUME NEW s \in Sessions, HostRead(s) PROVE PlaceInv' /\ OrderInv' /\ ReceivedOnce'
  <2> DEFINE m == Head(toHost[s])
  <2>0. /\ UNCHANGED <<queue, session, written, hand>> /\ toHost[s] # <<>>
        /\ toHost[s] \in Seq(Messages) /\ Ascending(toHost[s])
    BY <1>0, <1>6, <1>t DEF HostRead, OrderInv
  <2>1. /\ toHost'[s] = Tail(toHost[s]) /\ \A t \in Sessions \ {s} : toHost'[t] = toHost[t]
    BY <1>0, <1>6 DEF HostRead, Short
  <2>2. /\ Ascending(toHost'[s]) /\ Wire'[s] \subseteq Wire[s]
        /\ \A t \in Sessions \ {s} : Wire'[t] = Wire[t]
        /\ IsNote(m) => m \in Wire[s] /\ \A n \in Wire'[s] : m < n
    BY <2>0, <2>1, TakeFirst DEF Wire
  <2> HIDE DEF m
  <2>3. OrderInv'
    <3>1. \A t \in Sessions : Ascending(toHost'[t])
      BY <1>0, <2>1, <2>2 DEF OrderInv
    <3> QED BY <1>q, <2>0, <3>1 DEF OrderInv
  <2>4. CASE received' = received
    <3>1. Arrived' = Arrived /\ Queued' = Queued /\ ReceivedOnce'
      BY <1>a, <1>q, <2>0, <2>4
    <3>2. \A t \in Sessions : Wire'[t] \subseteq Wire[t]
      BY <2>2
    <3>3. PlaceInv'
      BY <1>0, <2>0, <3>1, <3>2, PlacesShrink
    <3> QED BY <2>3, <3>1, <3>3
  <2>5. CASE IsNote(m) /\ received' = Append(received, <<s, m>>)
    <3>1. /\ m \in Wire[s] /\ m \in 1..MaxNotes /\ \A n \in Wire'[s] : m < n
      BY <2>2, <2>5 DEF IsNote
    <3>2. /\ Len(received') = Len(received) + 1 /\ received'[Len(received) + 1] = <<s, m>>
          /\ \A i \in 1..Len(received) : received'[i] = received[i] /\ Len(received) \in Nat
          /\ Len(received) \in Nat
      <4>1. <<s, m>> \in Sessions \X (1..MaxNotes)
        BY <3>1
      <4> QED BY <1>0, <2>5, <4>1, AppendProperties, LenProperties DEF Types
    <3>3. /\ Arrived'[s] \subseteq Arrived[s] \cup {m}
          /\ \A t \in Sessions \ {s} : Arrived'[t] \subseteq Arrived[t]
      <4> SUFFICES ASSUME NEW t \in Sessions, NEW n \in 1..MaxNotes,
                          NEW i \in 1..Len(received'), received'[i] = <<t, n>>
                   PROVE  n \in Arrived[t] \/ (t = s /\ n = m)
        BY DEF Arrived
      <4>1. CASE i \in 1..Len(received)
        BY <3>2, <4>1 DEF Arrived
      <4>2. CASE i = Len(received) + 1
        BY <3>2, <4>2
      <4> QED BY <3>2, <4>1, <4>2
    <3>4. Queued' = Queued
      BY <1>q, <2>0
    <3>5. \A t \in Sessions : Arrived'[t] \cup Wire'[t] \subseteq Arrived[t] \cup Wire[t]
      BY <2>2, <3>1, <3>3
    <3>6. \A t \in Sessions : \A a \in Arrived'[t], n \in Wire'[t] : a < n
      <4> SUFFICES ASSUME NEW t \in Sessions, NEW a \in Arrived'[t], NEW n \in Wire'[t]
                   PROVE  a < n
        OBVIOUS
      <4>1. CASE a \in Arrived[t]
        <5>1. n \in Wire[t]
          BY <2>2
        <5> QED BY <1>0, <4>1, <5>1 DEF PlaceInv
      <4>2. CASE t = s /\ a = m
        BY <3>1, <4>2
      <4> QED BY <3>3, <4>1, <4>2
    <3>7. PlaceInv'
      BY <1>0, <2>0, <3>4, <3>5, <3>6 DEF PlaceInv, IsNote
    \* The note that arrives is none that arrived before, and in its session the last.
    <3>8. ASSUME NEW i \in 1..Len(received)
          PROVE  received[i][2] # m /\ (received[i][1] = s => received[i][2] < m)
      <4>1. PICK t \in Sessions, n \in 1..MaxNotes : received[i] = <<t, n>>
        <5>1. received[i] \in Sessions \X (1..MaxNotes)
          BY <1>0, ElementOfSeq DEF Types
        <5> QED BY <5>1
      <4>2. n \in Arrived[t]
        BY <4>1 DEF Arrived
      <4>3. CASE t = s
        <5>1. n < m
          BY <1>0, <3>1, <4>2, <4>3 DEF PlaceInv
        <5> QED BY <3>1, <4>1, <5>1
      <4>4. CASE t # s
        <5>1. n < m \/ m < n
          BY <1>0, <1>t, <3>1, <4>2, <4>4 DEF PlaceInv
        <5> QED BY <3>1, <4>1, <4>4, <5>1
      <4> QED BY <4>3, <4>4
    <3>9. ReceivedOnce'
      <4> SUFFICES ASSUME NEW i \in 1..Len(received'), NEW j \in 1..Len(received'), i < j
                   PROVE  /\ received'[i][2] # received'[j][2]
                          /\ received'[i][1] = received'[j][1] => received'[i][2] < received'[j][2]
        BY DEF ReceivedOnce
      <4>1. i \in 1..Len(received)
        BY <3>2
      <4>2. CASE j \in 1..Len(received)
        BY <1>0, <3>2, <4>1, <4>2 DEF ReceivedOnce
      <4>3. CASE j = Len(received) + 1
        BY <3>2, <3>8, <4>1, <4>3
      <4> QED BY <3>2, <4>2, <4>3
    <3> QED BY <2>3, <3>7, <3>9
  <2> QED BY <1>6, <2>4, <2>5 DEF HostRead, m
<1>7. ASSUME NEW s \in Sessions, HostLeaves(s) PROVE PlaceInv' /\ OrderInv' /\ ReceivedOnce'
  <2>0. /\ UNCHANGED <<received, queue, session, written, hand>>
        /\ toHost'[s] = <<>> /\ \A t \in Sessions \ {s} : toHost'[t] = toHost[t]
    BY <1>0, <1>7 DEF HostLeaves, Short
  <2>1. Ascending(<<>>) /\ Notes(<<>>) = {}
    BY EmptySeq DEF Ascending, Notes
  <2>2. /\ \A t \in Sessions : Ascending(toHost'[t])
        /\ \A t \in Sessions : Wire'[t] \subseteq Wire[t]
    BY <1>0, <2>0, <2>1 DEF OrderInv, Wire
  <2>3. Arrived' = Arrived /\ Queued' = Queued /\ ReceivedOnce' /\ Ascending(queue')
    BY <1>a, <1>q, <2>0
  <2>4. PlaceInv'
    BY <1>0, <2>0, <2>2, <2>3, PlacesShrink
  <2> QED BY <2>2, <2>3, <2>4 DEF OrderInv
<1>8. CASE Loop \/ ConnectFails \/ OnStop \/ OnReadError \/ OnIncoming \/ OnTick \/ LinkBreaks
           \/ Cancel \/ UNCHANGED vars \/ \E s \in Sessions : Reader(s)
  <2>1. UNCHANGED <<received, toHost, queue, written, session>>
    BY <1>8 DEF Loop, Attempt, SessionOver, BackoffEnds, Finish, ConnectFails, OnStop, OnReadError,
                OnIncoming, OnTick, LinkBreaks, Cancel, vars, Reader, Read, ReadFails, HandOver
  <2>2. hand' = hand \/ hand' = 0 \/ hand' = MaxNotes + 1
    BY <1>8 DEF Loop, Attempt, SessionOver, BackoffEnds, Finish, ConnectFails, OnStop, OnReadError,
                OnIncoming, OnTick, LinkBreaks, Cancel, vars, Reader, Read, ReadFails, HandOver,
                Leave, Nothing, Ping
  <2>3. hand' = hand \/ ~IsNote(hand')
    BY <1>0, <2>2 DEF IsNote
  <2> QED BY <1>0, <1>1, <2>1, <2>3
<1>9. CASE Connect
  BY <1>0, <1>1, <1>9 DEF Connect
<1> QED BY <1>2, <1>3, <1>5, <1>6, <1>7, <1>8, <1>9 DEF Next, Session, Host

-----------------------------------------------------------------------------
(***************************************************************************)
(* Delivery                                                                *)
(***************************************************************************)

LEMMA InvInit == Init => Inv
<1> SUFFICES ASSUME Init PROVE Inv
  OBVIOUS
<1> USE DEF Init
<1>e. /\ <<>> \in Seq(Messages) /\ <<>> \in Seq(1..MaxNotes) /\ Len(<<>>) = 0
      /\ <<>> \in Seq(Sessions \X (1..MaxNotes))
  BY EmptySeq
<1>1. Types
  <2>1. /\ backoff \in ReconnectBase..ReconnectLimit /\ session \in 0..MaxSessions
        /\ written \in 0..MaxNotes /\ queue \in Seq(1..MaxNotes) /\ Len(queue) <= QueueCapacity
    BY <1>e, Constants
  <2>2. held \in [Sessions -> Messages] /\ received \in Seq(Sessions \X (1..MaxNotes))
    BY <1>e, Constants
  <2> QED BY <2>1, <2>2 DEF Types
<1>2. Buffers
  BY <1>e, Constants DEF Buffers, Short
<1>3. SessionInv
  BY DEF SessionInv
<1>4. Queued = {} /\ \A s \in Sessions : Arrived[s] = {} /\ Wire[s] = {}
  BY <1>e DEF Queued, Arrived, Wire, Notes
<1>5. PlaceInv
  BY <1>4 DEF PlaceInv, IsNote, Nothing
<1>6. OrderInv /\ ReceivedOnce
  BY <1>e DEF OrderInv, Ascending, ReceivedOnce
<1>7. Accounted
  BY <1>e DEF Accounted
<1> QED BY <1>1, <1>2, <1>3, <1>5, <1>6, <1>7 DEF Inv

LEMMA InvAlways == Spec => []Inv
<1>1. Inv /\ [Next]_vars => Inv'
  BY TypesKept, BuffersKept, SessionKept, AccountedKept, PlaceKept DEF Inv
<1> QED BY <1>1, InvInit, PTL DEF Spec

\* For any queue and link capacity and any number of sessions: every note given
\* to Edge.Write is queued, in the hands of the session or counted once, the
\* host receives none twice however sessions end and begin, and those of one
\* session in order; the backoff stays between its base and its limit.
THEOREM NotesArriveOnce == Spec => []DeliverySound
<1>1. Inv => DeliverySound
  <2> SUFFICES ASSUME Inv PROVE TypeOK
    BY DEF Inv, DeliverySound
  <2>1. tally \in [{"sent", "full", "stale", "failed"} -> 0..MaxNotes]
    <3>1. /\ written \in Nat /\ InHand \in {0, 1} /\ Size \in Nat /\ MaxNotes \in Nat
          /\ written <= MaxNotes
          /\ tally["sent"] \in Nat /\ tally["full"] \in Nat /\ tally["stale"] \in Nat
          /\ tally["failed"] \in Nat
          /\ written = Size + tally["sent"] + tally["full"] + tally["stale"] + tally["failed"] + InHand
      BY LenProperties, Constants DEF Inv, Types, Accounted, InHand, Size
    <3>2. \A k \in {"sent", "full", "stale", "failed"} : tally[k] \in 0..MaxNotes
      BY <3>1
    <3> QED BY <3>2 DEF Inv, Types
  <2> QED BY <2>1 DEF Inv, Types, Buffers, Short, TypeOK
<1> QED BY <1>1, InvAlways, PTL

=============================================================================
