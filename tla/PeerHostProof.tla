--------------------------- MODULE PeerHostProof ----------------------------
(***************************************************************************)
(* Proofs about PeerHost for any edges, connections, notes and limits.     *)
(***************************************************************************)
EXTENDS PeerHost, TLAPS, FiniteSetTheorems, SequenceTheorems

Entry == [id : Keys, time : Nat]
Admission == [id : Keys, time : Nat, done : Nat]

\* What pruneNodesLocked may do: it keeps a node or removes it, and it keeps
\* every connected node.
LEMMA PrunedShape ==
    ASSUME NEW ns \in [Instances -> Node], NEW t \in Nat, NEW p \in Pruned(ns, t)
    PROVE  /\ p \in [Instances -> Node]
           /\ \A i \in Instances : p[i] = ns[i] \/ p[i] = Absent
           /\ \A i \in Instances : ns[i].state = "connected" => p[i] = ns[i]
<1>1. PICK keep \in SUBSET Fresh(ns, t) :
        /\ Keeps(ns, t, keep)
        /\ p = [i \in Instances |-> IF i \in keep THEN ns[i] ELSE Absent]
  BY DEF Pruned
<1>2. Absent \in Node
  BY DEF Absent, Node
<1>3. \A i \in Instances : ns[i].state = "connected" => i \in keep
  BY <1>1 DEF Keeps, InState
<1> QED BY <1>1, <1>2, <1>3

\* The entries behind the first k.
LEMMA BehindProperties ==
    ASSUME NEW S, NEW s \in Seq(S), NEW k \in 0..Len(s)
    PROVE  /\ Behind(s, k) \in Seq(S)
           /\ Len(Behind(s, k)) = Len(s) - k
           /\ \A j \in 1..Len(s) - k : Behind(s, k)[j] = s[k + j]
<1>1. Len(s) \in Nat
  BY LenProperties
<1>2. CASE k = Len(s)
  <2>1. SubSeq(s, k + 1, Len(s)) = <<>>
    BY <1>1, <1>2, SubSeqProperties
  <2> QED BY <1>1, <1>2, <2>1, EmptySeq DEF Behind
<1>3. CASE k < Len(s)
  <2>1. k + 1 \in 1..Len(s) /\ Len(s) \in 1..Len(s)
    BY <1>1, <1>3
  <2>2. \A j \in (k + 1)..Len(s) : s[j] \in S
    BY <1>1, ElementOfSeq
  <2> QED BY <1>1, <1>3, <2>1, <2>2, SubSeqProperties DEF Behind
<1> QED BY <1>1, <1>2, <1>3

\* Handlers that have read a hello know an identity; a note is read before the
\* duplicate check, and no later than now; before register there is no
\* generation.
LocalInv ==
    \A c \in Conns :
        /\ pc[c] = "note" => note[c] \in Keys /\ at[c] <= now
        /\ pc[c] \in {"register", "announce", "open", "note", "write", "record", "disconnect"}
             => who[c] \in Instances
        /\ gen[c] > 0 => who[c] \in Instances
        /\ pc[c] \in {"none", "accept", "hello", "register"} => gen[c] = 0 /\ took[c] = 0

CountInv == sessionCount = Cardinality(Running)

TypeInv == TypeOK /\ LocalInv /\ CountInv

\* Nodes, cache and session counter are the parts of the state whose types
\* need an argument.
LEMMA PlainTypes ==
    ASSUME TypeOK, LocalInv, [Next]_vars,
           nodes' \in [Instances -> Node], sessionCount' \in Nat,
           duplicates' \in [Keys -> Nat \cup {Never}],
           dupOrder' \in Seq(Entry), Len(dupOrder') <= DuplicateCapacity,
           admitted' \in Seq(Admission)
    PROVE  TypeOK' /\ LocalInv'
<1> USE DEF Goto, closeVars, handlerVars, Steps, closing
<1>0. /\ pc \in [Conns -> Steps] /\ took \in [Conns -> Nat] /\ sessions \subseteq Conns
      /\ generation \in Nat /\ gen \in [Conns -> Nat]
      /\ replaced \in [Conns -> Conns \cup {NoConn}]
  BY DEF TypeOK
<1>1. ASSUME NEW c \in Conns, BeginSession(c)
      PROVE  TypeOK' /\ LocalInv'
  BY <1>1 DEF BeginSession, TypeOK, LocalInv, Entry, Admission
<1>2. ASSUME NEW c \in Conns, AcceptFails(c)
      PROVE  TypeOK' /\ LocalInv'
  BY <1>2 DEF AcceptFails, TypeOK, LocalInv, Entry, Admission
<1>3. ASSUME NEW c \in Conns, TrackSession(c)
      PROVE  TypeOK' /\ LocalInv'
  <2>1. CASE closing
    BY <1>3, <2>1 DEF TrackSession, TypeOK, LocalInv, Entry, Admission
  <2>2. CASE ~closing
    <3>1. pc' \in [Conns -> Steps] /\ sessions' \subseteq Conns
      BY <1>3, <2>2, <1>0 DEF TrackSession
    <3> QED BY <1>3, <2>2, <3>1 DEF TrackSession, TypeOK, LocalInv, Entry, Admission
  <2> QED BY <2>1, <2>2
<1>4. ASSUME NEW c \in Conns, NEW i \in Instances, ReadHello(c, i)
      PROVE  TypeOK' /\ LocalInv'
  BY <1>4 DEF ReadHello, TypeOK, LocalInv, Entry, Admission
<1>5. ASSUME NEW c \in Conns, HelloFails(c)
      PROVE  TypeOK' /\ LocalInv'
  BY <1>5 DEF HelloFails, TypeOK, LocalInv, Entry, Admission
<1>6. ASSUME NEW c \in Conns, Register(c)
      PROVE  TypeOK' /\ LocalInv'
  <2>1. now \in Nat /\ nodes \in [Instances -> Node] /\ who[c] \in Instances
    BY <1>6 DEF Register, TypeOK, LocalInv
  <2>2. PICK ns \in Pruned(nodes, now) :
          \/ pc' = [pc EXCEPT ![c] = "untrack"] /\ UNCHANGED <<generation, gen, replaced>>
          \/ /\ generation' = generation + 1 /\ gen' = [gen EXCEPT ![c] = generation + 1]
             /\ replaced' = [replaced EXCEPT ![c] = ns[who[c]].connection]
             /\ pc' = [pc EXCEPT ![c] = "announce"]
    BY <1>6 DEF Register
  <2>3. ns[who[c]].connection \in Conns \cup {NoConn}
    <3>1. ns \in [Instances -> Node]
      BY <2>1, PrunedShape
    <3> QED BY <2>1, <3>1 DEF Node
  <2>4. /\ pc' \in [Conns -> Steps] /\ generation' \in Nat /\ gen' \in [Conns -> Nat]
        /\ replaced' \in [Conns -> Conns \cup {NoConn}]
    <3>1. CASE pc' = [pc EXCEPT ![c] = "untrack"] /\ UNCHANGED <<generation, gen, replaced>>
      BY <3>1, <1>0
    <3>2. CASE /\ generation' = generation + 1 /\ gen' = [gen EXCEPT ![c] = generation + 1]
               /\ replaced' = [replaced EXCEPT ![c] = ns[who[c]].connection]
               /\ pc' = [pc EXCEPT ![c] = "announce"]
      BY <3>2, <2>3, <1>0
    <3> QED BY <2>2, <3>1, <3>2
  <2>5. TypeOK'
    BY <1>6, <2>4 DEF Register, TypeOK, Entry, Admission
  <2>6. LocalInv'
    BY <1>6, <2>1, <2>2 DEF Register, TypeOK, LocalInv
  <2> QED BY <2>5, <2>6
<1>7. ASSUME NEW c \in Conns, Announce(c)
      PROVE  TypeOK' /\ LocalInv'
  <2>1. TypeOK'
    <3>1. up' \subseteq Conns /\ inbound' \in Nat
      BY <1>7 DEF Announce, TypeOK
    <3> QED BY <1>7, <3>1 DEF Announce, TypeOK, Entry, Admission
  <2>2. LocalInv'
    BY <1>7 DEF Announce, TypeOK, LocalInv
  <2> QED BY <2>1, <2>2
<1>8. ASSUME NEW c \in Conns, NEW n \in Notes, ReadNote(c, n)
      PROVE  TypeOK' /\ LocalInv'
  BY <1>8 DEF ReadNote, TypeOK, LocalInv, Entry, Admission, Keys
<1>9. ASSUME NEW c \in Conns, Duplicate(c)
      PROVE  TypeOK' /\ LocalInv'
  BY <1>9 DEF Duplicate, TypeOK, LocalInv, Entry, Admission
<1>10. ASSUME NEW c \in Conns, SinkWrite(c)
      PROVE  TypeOK' /\ LocalInv'
  <2>1. pc' \in [Conns -> Steps] /\ took' \in [Conns -> Nat]
    <3>1. CASE Goto(c, "record") /\ took' = [took EXCEPT ![c] = @ + 1]
      BY <3>1, <1>0
    <3>2. CASE Goto(c, "open") /\ UNCHANGED took
      BY <3>2, <1>0
    <3> QED BY <1>10, <3>1, <3>2 DEF SinkWrite
  <2>2. TypeOK'
    BY <1>10, <2>1 DEF SinkWrite, TypeOK, Entry, Admission
  <2>3. LocalInv'
    BY <1>10, <2>1 DEF SinkWrite, TypeOK, LocalInv
  <2> QED BY <2>2, <2>3
<1>11. ASSUME NEW c \in Conns, Record(c)
      PROVE  TypeOK' /\ LocalInv'
  BY <1>11 DEF Record, TypeOK, LocalInv, Entry, Admission
<1>12. ASSUME NEW c \in Conns, ReadFails(c)
      PROVE  TypeOK' /\ LocalInv'
  BY <1>12 DEF ReadFails, TypeOK, LocalInv, Entry, Admission
<1>13. ASSUME NEW c \in Conns, Disconnect(c)
      PROVE  TypeOK' /\ LocalInv'
  BY <1>13 DEF Disconnect, TypeOK, LocalInv, Entry, Admission
<1>14. ASSUME NEW c \in Conns, Report(c)
      PROVE  TypeOK' /\ LocalInv'
  BY <1>14 DEF Report, OneLess, TypeOK, LocalInv, Entry, Admission
<1>15. ASSUME NEW c \in Conns, UntrackSession(c)
      PROVE  TypeOK' /\ LocalInv'
  BY <1>15 DEF UntrackSession, TypeOK, LocalInv, Entry, Admission
<1>16. ASSUME NEW c \in Conns, EndSession(c)
      PROVE  TypeOK' /\ LocalInv'
  BY <1>16 DEF EndSession, TypeOK, LocalInv, Entry, Admission
<1>17. ASSUME NEW c \in Conns, CloseNow(c)
      PROVE  TypeOK' /\ LocalInv'
  BY <1>17 DEF CloseNow, TypeOK, LocalInv, Entry, Admission
<1>18. ASSUME NEW c \in Conns, LinkLost(c)
      PROVE  TypeOK' /\ LocalInv'
  BY <1>18 DEF LinkLost, TypeOK, LocalInv, Entry, Admission
<1>19. CASE Close
  BY <1>19 DEF Close, TypeOK, LocalInv, Entry, Admission
<1>20. CASE CloseReturns
  BY <1>20 DEF CloseReturns, TypeOK, LocalInv, Entry, Admission
<1>21. CASE Snapshot
  BY <1>21 DEF Snapshot, TypeOK, LocalInv, Entry, Admission
<1>22. CASE Tick
  BY <1>22 DEF Tick, TypeOK, LocalInv, Entry, Admission
<1>23. CASE UNCHANGED vars
  BY <1>23 DEF vars, cacheVars, TypeOK, LocalInv
<1> QED BY <1>1, <1>2, <1>3, <1>4, <1>5, <1>6, <1>7, <1>8, <1>9, <1>10, <1>11, <1>12, <1>13, <1>14, <1>15, <1>16, <1>17, <1>18, <1>19, <1>20, <1>21, <1>22, <1>23 DEF Next, Handler

\* The nodes keep their type.
LEMMA NodesTyped ==
    ASSUME TypeOK, LocalInv, [Next]_vars
    PROVE  nodes' \in [Instances -> Node]
<1>0. nodes \in [Instances -> Node] /\ now \in Nat /\ generation \in Nat
  BY DEF TypeOK
<1>1. ASSUME NEW c \in Conns, BeginSession(c)
      PROVE  nodes' \in [Instances -> Node]
  BY <1>1, <1>0 DEF BeginSession
<1>2. ASSUME NEW c \in Conns, AcceptFails(c)
      PROVE  nodes' \in [Instances -> Node]
  BY <1>2, <1>0 DEF AcceptFails
<1>3. ASSUME NEW c \in Conns, TrackSession(c)
      PROVE  nodes' \in [Instances -> Node]
  BY <1>3, <1>0 DEF TrackSession
<1>4. ASSUME NEW c \in Conns, NEW i \in Instances, ReadHello(c, i)
      PROVE  nodes' \in [Instances -> Node]
  BY <1>4, <1>0 DEF ReadHello
<1>5. ASSUME NEW c \in Conns, HelloFails(c)
      PROVE  nodes' \in [Instances -> Node]
  BY <1>5, <1>0 DEF HelloFails
<1>6. ASSUME NEW c \in Conns, Register(c)
      PROVE  nodes' \in [Instances -> Node]
  <2>1. who[c] \in Instances
    BY <1>6 DEF Register, LocalInv
  <2>2. PICK ns \in Pruned(nodes, now) :
          \/ nodes' = ns
          \/ nodes' \in Pruned([ns EXCEPT ![who[c]] = NewNode(c, generation + 1)], now)
    BY <1>6 DEF Register
  <2>3. ns \in [Instances -> Node]
    BY <1>0, PrunedShape
  <2>4. NewNode(c, generation + 1) \in Node
    BY <1>0 DEF NewNode, Node
  <2>5. [ns EXCEPT ![who[c]] = NewNode(c, generation + 1)] \in [Instances -> Node]
    BY <2>1, <2>3, <2>4
  <2> QED BY <1>0, <2>2, <2>3, <2>5, PrunedShape
<1>7. ASSUME NEW c \in Conns, Announce(c)
      PROVE  nodes' \in [Instances -> Node]
  BY <1>7, <1>0 DEF Announce
<1>8. ASSUME NEW c \in Conns, NEW n \in Notes, ReadNote(c, n)
      PROVE  nodes' \in [Instances -> Node]
  BY <1>8, <1>0 DEF ReadNote
<1>9. ASSUME NEW c \in Conns, Duplicate(c)
      PROVE  nodes' \in [Instances -> Node]
  BY <1>9, <1>0 DEF Duplicate
<1>10. ASSUME NEW c \in Conns, SinkWrite(c)
      PROVE  nodes' \in [Instances -> Node]
  BY <1>10, <1>0 DEF SinkWrite
<1>11. ASSUME NEW c \in Conns, Record(c)
      PROVE  nodes' \in [Instances -> Node]
  <2>1. who[c] \in Instances
    BY <1>11 DEF Record, LocalInv
  <2> QED BY <1>11, <1>0, <2>1 DEF Record, Node
<1>12. ASSUME NEW c \in Conns, ReadFails(c)
      PROVE  nodes' \in [Instances -> Node]
  BY <1>12, <1>0 DEF ReadFails
<1>13. ASSUME NEW c \in Conns, Disconnect(c)
      PROVE  nodes' \in [Instances -> Node]
  <2>1. who[c] \in Instances
    BY <1>13 DEF Disconnect, LocalInv
  <2> QED BY <1>13, <1>0, <2>1 DEF Disconnect, Node
<1>14. ASSUME NEW c \in Conns, Report(c)
      PROVE  nodes' \in [Instances -> Node]
  BY <1>14, <1>0 DEF Report
<1>15. ASSUME NEW c \in Conns, UntrackSession(c)
      PROVE  nodes' \in [Instances -> Node]
  BY <1>15, <1>0 DEF UntrackSession
<1>16. ASSUME NEW c \in Conns, EndSession(c)
      PROVE  nodes' \in [Instances -> Node]
  BY <1>16, <1>0 DEF EndSession
<1>17. ASSUME NEW c \in Conns, CloseNow(c)
      PROVE  nodes' \in [Instances -> Node]
  BY <1>17, <1>0 DEF CloseNow
<1>18. ASSUME NEW c \in Conns, LinkLost(c)
      PROVE  nodes' \in [Instances -> Node]
  BY <1>18, <1>0 DEF LinkLost
<1>19. CASE Close
  BY <1>19, <1>0 DEF Close
<1>20. CASE CloseReturns
  BY <1>20, <1>0 DEF CloseReturns
<1>21. CASE Snapshot
  BY <1>21, <1>0, PrunedShape DEF Snapshot
<1>22. CASE Tick
  BY <1>22, <1>0 DEF Tick
<1>23. CASE UNCHANGED vars
  BY <1>23, <1>0 DEF vars
<1> QED BY <1>1, <1>2, <1>3, <1>4, <1>5, <1>6, <1>7, <1>8, <1>9, <1>10, <1>11,
          <1>12, <1>13, <1>14, <1>15, <1>16, <1>17, <1>18, <1>19, <1>20, <1>21,
          <1>22, <1>23 DEF Next, Handler

\* sessionCount follows the handlers between beginSession and endSession.
LEMMA CountStep ==
    ASSUME TypeOK, CountInv, [Next]_vars
    PROVE  CountInv' /\ sessionCount' \in Nat
<1>0. IsFiniteSet(Running) /\ pc \in [Conns -> Steps] /\ sessionCount \in Nat
  BY ConnsAssumption, FS_Subset DEF Running, TypeOK
<1> USE <1>0 DEF Goto, CountInv
<1>1. ASSUME NEW c \in Conns, BeginSession(c)
      PROVE  CountInv' /\ sessionCount' \in Nat
  <2>1. c \notin Running /\ Running' = Running \cup {c}
    BY <1>1 DEF BeginSession, Running
  <2>2. Cardinality(Running \cup {c}) = Cardinality(Running) + 1
    BY <2>1, FS_AddElement
  <2> QED BY <1>1, <2>1, <2>2 DEF BeginSession
<1>2. ASSUME NEW c \in Conns, AcceptFails(c)
      PROVE  CountInv' /\ sessionCount' \in Nat
  BY <1>2 DEF AcceptFails, Running, Steps
<1>3. ASSUME NEW c \in Conns, TrackSession(c)
      PROVE  CountInv' /\ sessionCount' \in Nat
  BY <1>3 DEF TrackSession, Running, Steps
<1>4. ASSUME NEW c \in Conns, NEW i \in Instances, ReadHello(c, i)
      PROVE  CountInv' /\ sessionCount' \in Nat
  BY <1>4 DEF ReadHello, Running, Steps
<1>5. ASSUME NEW c \in Conns, HelloFails(c)
      PROVE  CountInv' /\ sessionCount' \in Nat
  BY <1>5 DEF HelloFails, Running, Steps
<1>6. ASSUME NEW c \in Conns, Register(c)
      PROVE  CountInv' /\ sessionCount' \in Nat
  BY <1>6 DEF Register, Running, Steps
<1>7. ASSUME NEW c \in Conns, Announce(c)
      PROVE  CountInv' /\ sessionCount' \in Nat
  BY <1>7 DEF Announce, Running, Steps
<1>8. ASSUME NEW c \in Conns, NEW n \in Notes, ReadNote(c, n)
      PROVE  CountInv' /\ sessionCount' \in Nat
  BY <1>8 DEF ReadNote, Running, Steps
<1>9. ASSUME NEW c \in Conns, Duplicate(c)
      PROVE  CountInv' /\ sessionCount' \in Nat
  BY <1>9 DEF Duplicate, Running, Steps
<1>10. ASSUME NEW c \in Conns, SinkWrite(c)
      PROVE  CountInv' /\ sessionCount' \in Nat
  BY <1>10 DEF SinkWrite, Running, Steps
<1>11. ASSUME NEW c \in Conns, Record(c)
      PROVE  CountInv' /\ sessionCount' \in Nat
  BY <1>11 DEF Record, Running, Steps
<1>12. ASSUME NEW c \in Conns, ReadFails(c)
      PROVE  CountInv' /\ sessionCount' \in Nat
  BY <1>12 DEF ReadFails, Running, Steps
<1>13. ASSUME NEW c \in Conns, Disconnect(c)
      PROVE  CountInv' /\ sessionCount' \in Nat
  BY <1>13 DEF Disconnect, Running, Steps
<1>14. ASSUME NEW c \in Conns, Report(c)
      PROVE  CountInv' /\ sessionCount' \in Nat
  BY <1>14 DEF Report, Running, Steps
<1>15. ASSUME NEW c \in Conns, UntrackSession(c)
      PROVE  CountInv' /\ sessionCount' \in Nat
  BY <1>15 DEF UntrackSession, Running, Steps
<1>16. ASSUME NEW c \in Conns, EndSession(c)
      PROVE  CountInv' /\ sessionCount' \in Nat
  <2>1. c \in Running /\ Running' = Running \ {c}
    BY <1>16 DEF EndSession, Running
  <2>2. Cardinality(Running \ {c}) = Cardinality(Running) - 1 /\ Cardinality(Running \ {c}) \in Nat
    BY <2>1, FS_RemoveElement, FS_Subset, FS_CardinalityType
  <2> QED BY <1>16, <2>1, <2>2 DEF EndSession
<1>17. ASSUME NEW c \in Conns, CloseNow(c)
      PROVE  CountInv' /\ sessionCount' \in Nat
  BY <1>17 DEF CloseNow, Running, Steps
<1>18. ASSUME NEW c \in Conns, LinkLost(c)
      PROVE  CountInv' /\ sessionCount' \in Nat
  BY <1>18 DEF LinkLost, Running, Steps
<1>19. CASE Close
  BY <1>19 DEF Close, Running, Steps
<1>20. CASE CloseReturns
  BY <1>20 DEF CloseReturns, Running, Steps
<1>21. CASE Snapshot
  BY <1>21 DEF Snapshot, Running, Steps
<1>22. CASE Tick
  BY <1>22 DEF Tick, Running, Steps
<1>23. CASE UNCHANGED vars
  BY <1>23 DEF vars, Running
<1> QED BY <1>1, <1>2, <1>3, <1>4, <1>5, <1>6, <1>7, <1>8, <1>9, <1>10, <1>11,
          <1>12, <1>13, <1>14, <1>15, <1>16, <1>17, <1>18, <1>19, <1>20, <1>21,
          <1>22, <1>23 DEF Next, Handler

-----------------------------------------------------------------------------
(***************************************************************************)
(* The duplicate cache                                                     *)
(***************************************************************************)

Indexes == [Keys -> Nat \cup {Never}]

Indexed(index, order) ==
    /\ \A j, k \in 1..Len(order) : order[j].id = order[k].id => j = k
    /\ \A key \in Keys : index[key] # Never =>
           \E j \in 1..Len(order) : order[j] = [id |-> key, time |-> index[key]]
    /\ \A j \in 1..Len(order) : index[order[j].id] = order[j].time

\* The order holds the last admitted notes; a note that is no longer in it was
\* pushed out by DuplicateCapacity others or is older than RecentTTL.
Follows(adm, order, t) ==
    /\ Len(order) <= Len(adm)
    /\ \A p \in 1..Len(order) :
           /\ adm[Len(adm) - Len(order) + p].id = order[p].id
           /\ adm[Len(adm) - Len(order) + p].time = order[p].time
    /\ \A j \in 1..Len(adm) - Len(order) :
           Len(adm) - j >= DuplicateCapacity \/ adm[j].time + RecentTTL < t

CacheInv ==
    /\ DuplicatesIndexed
    /\ Follows(admitted, dupOrder, now)
    /\ DuplicatesSuppressed

\* Removing the first k entries keeps map and order in agreement.
LEMMA ForgetKeepsIndex ==
    ASSUME NEW index \in Indexes, NEW order \in Seq(Entry), Indexed(index, order),
           NEW k \in 0..Len(order)
    PROVE  /\ Forget(index, order, k) \in Indexes
           /\ Indexed(Forget(index, order, k), Behind(order, k))
<1> DEFINE rest == Behind(order, k)
           left == Forget(index, order, k)
<1>1. /\ Len(order) \in Nat /\ Len(rest) = Len(order) - k
      /\ \A j \in 1..Len(order) - k : rest[j] = order[k + j]
      /\ \A j \in 1..Len(order) : order[j] \in Entry
  BY BehindProperties, LenProperties, ElementOfSeq
<1>2. left \in Indexes
  BY DEF Forget, Indexes
<1>3. \A j, m \in 1..Len(rest) : rest[j].id = rest[m].id => j = m
  <2> SUFFICES ASSUME NEW j \in 1..Len(rest), NEW m \in 1..Len(rest), rest[j].id = rest[m].id
               PROVE  j = m
    OBVIOUS
  <2>1. k + j \in 1..Len(order) /\ k + m \in 1..Len(order)
    BY <1>1
  <2>2. order[k + j].id = order[k + m].id
    BY <1>1
  <2>3. k + j = k + m
    BY <2>1, <2>2 DEF Indexed
  <2> QED BY <1>1, <2>3
<1>4. \A key \in Keys : left[key] # Never =>
        \E j \in 1..Len(rest) : rest[j] = [id |-> key, time |-> left[key]]
  <2> SUFFICES ASSUME NEW key \in Keys, left[key] # Never
               PROVE  \E j \in 1..Len(rest) : rest[j] = [id |-> key, time |-> left[key]]
    OBVIOUS
  <2>1. /\ left[key] = index[key]
        /\ \A j \in 1..k : order[j] # [id |-> key, time |-> index[key]]
    BY DEF Forget
  <2>2. PICK j \in 1..Len(order) : order[j] = [id |-> key, time |-> index[key]]
    BY <2>1 DEF Indexed
  <2>3. j - k \in 1..Len(rest) /\ k + (j - k) = j
    BY <1>1, <2>1, <2>2
  <2> QED BY <1>1, <2>1, <2>2, <2>3
<1>5. \A j \in 1..Len(rest) : left[rest[j].id] = rest[j].time
  <2> SUFFICES ASSUME NEW j \in 1..Len(rest) PROVE left[rest[j].id] = rest[j].time
    OBVIOUS
  <2>1. k + j \in 1..Len(order) /\ rest[j] = order[k + j] /\ rest[j].id \in Keys
    BY <1>1 DEF Entry
  <2>2. ~ \E m \in 1..k : order[m] = [id |-> rest[j].id, time |-> index[rest[j].id]]
    <3> SUFFICES ASSUME NEW m \in 1..k,
                        order[m] = [id |-> rest[j].id, time |-> index[rest[j].id]]
                 PROVE  FALSE
      OBVIOUS
    <3>1. m \in 1..Len(order) /\ order[m].id = order[k + j].id
      BY <1>1, <2>1
    <3>2. m = k + j
      BY <2>1, <3>1 DEF Indexed
    <3> QED BY <1>1, <3>2
  <2>3. left[rest[j].id] = index[rest[j].id]
    BY <2>1, <2>2 DEF Forget
  <2> QED BY <2>1, <2>3 DEF Indexed
<1> QED BY <1>2, <1>3, <1>4, <1>5 DEF Indexed

\* So does an entry for an ID that is not in the map.
LEMMA AppendKeepsIndex ==
    ASSUME NEW index \in Indexes, NEW order \in Seq(Entry), Indexed(index, order),
           NEW key \in Keys, NEW t \in Nat, index[key] = Never
    PROVE  LET longer == Append(order, [id |-> key, time |-> t])
               more == [index EXCEPT ![key] = t]
           IN  more \in Indexes /\ longer \in Seq(Entry) /\ Indexed(more, longer)
<1> DEFINE e == [id |-> key, time |-> t]
           longer == Append(order, e)
           more == [index EXCEPT ![key] = t]
<1>1. e \in Entry /\ more \in Indexes /\ more[key] = t
  BY DEF Entry, Indexes
<1>2. /\ longer \in Seq(Entry) /\ Len(order) \in Nat /\ Len(longer) = Len(order) + 1
      /\ longer[Len(order) + 1] = e
      /\ \A j \in 1..Len(order) : longer[j] = order[j] /\ order[j] \in Entry
  BY <1>1, AppendProperties, LenProperties, ElementOfSeq
<1>3. \A j \in 1..Len(order) : order[j].id # key /\ more[order[j].id] = index[order[j].id]
  <2> SUFFICES ASSUME NEW j \in 1..Len(order)
               PROVE  order[j].id # key /\ more[order[j].id] = index[order[j].id]
    OBVIOUS
  <2>1. index[order[j].id] = order[j].time /\ order[j].time \in Nat /\ order[j].id \in Keys
    BY <1>2 DEF Indexed, Entry
  <2>2. order[j].id # key
    BY <2>1 DEF Never
  <2> QED BY <2>1, <2>2 DEF Indexes
<1>4. \A j, m \in 1..Len(longer) : longer[j].id = longer[m].id => j = m
  <2> SUFFICES ASSUME NEW j \in 1..Len(longer), NEW m \in 1..Len(longer),
                      longer[j].id = longer[m].id
               PROVE  j = m
    OBVIOUS
  <2>1. CASE j \in 1..Len(order) /\ m \in 1..Len(order)
    BY <1>2, <2>1 DEF Indexed
  <2>2. CASE j = Len(order) + 1 \/ m = Len(order) + 1
    BY <1>2, <1>3, <2>2
  <2> QED BY <1>2, <2>1, <2>2
<1>5. \A x \in Keys : more[x] # Never =>
        \E j \in 1..Len(longer) : longer[j] = [id |-> x, time |-> more[x]]
  <2> SUFFICES ASSUME NEW x \in Keys, more[x] # Never
               PROVE  \E j \in 1..Len(longer) : longer[j] = [id |-> x, time |-> more[x]]
    OBVIOUS
  <2>1. CASE x = key
    <3>1. longer[Len(order) + 1] = [id |-> x, time |-> more[x]]
      BY <1>1, <1>2, <2>1
    <3>2. Len(order) + 1 \in 1..Len(longer)
      BY <1>2
    <3> QED BY <3>1, <3>2
  <2>2. CASE x # key
    <3>1. more[x] = index[x]
      BY <2>2 DEF Indexes
    <3>2. PICK j \in 1..Len(order) : order[j] = [id |-> x, time |-> index[x]]
      BY <3>1 DEF Indexed
    <3>3. j \in 1..Len(longer) /\ longer[j] = order[j]
      BY <1>2
    <3> QED BY <3>1, <3>2, <3>3
  <2> QED BY <2>1, <2>2
<1>6. \A j \in 1..Len(longer) : more[longer[j].id] = longer[j].time
  <2> SUFFICES ASSUME NEW j \in 1..Len(longer) PROVE more[longer[j].id] = longer[j].time
    OBVIOUS
  <2>1. CASE j \in 1..Len(order)
    BY <1>2, <1>3, <2>1 DEF Indexed
  <2>2. CASE j = Len(order) + 1
    BY <1>1, <1>2, <2>2
  <2> QED BY <1>2, <2>1, <2>2
<1> QED BY <1>1, <1>2, <1>4, <1>5, <1>6 DEF Indexed

\* Removing expired entries from the order leaves it following what was
\* admitted; the clock that found them expired may be a little behind.
LEMMA ExpireKeepsFollowing ==
    ASSUME NEW adm \in Seq(Admission), NEW order \in Seq(Entry), NEW t \in Nat, NEW r \in Nat,
           r <= t, NEW k \in 0..Len(order), Expires(order, r, k), Follows(adm, order, t)
    PROVE  Follows(adm, Behind(order, k), t)
<1> DEFINE rest == Behind(order, k)
<1>1. /\ Len(order) \in Nat /\ Len(adm) \in Nat /\ Len(rest) = Len(order) - k
      /\ \A j \in 1..Len(order) - k : rest[j] = order[k + j]
      /\ \A j \in 1..Len(order) : order[j].time \in Nat
  <2>1. \A j \in 1..Len(order) : order[j] \in Entry
    BY ElementOfSeq
  <2> QED BY <2>1, BehindProperties, LenProperties DEF Entry
<1>2. Len(rest) <= Len(adm)
  BY <1>1 DEF Follows
<1>3. \A p \in 1..Len(rest) :
        /\ adm[Len(adm) - Len(rest) + p].id = rest[p].id
        /\ adm[Len(adm) - Len(rest) + p].time = rest[p].time
  <2> SUFFICES ASSUME NEW p \in 1..Len(rest)
               PROVE  /\ adm[Len(adm) - Len(rest) + p].id = rest[p].id
                      /\ adm[Len(adm) - Len(rest) + p].time = rest[p].time
    OBVIOUS
  <2>1. /\ k + p \in 1..Len(order) /\ rest[p] = order[k + p]
        /\ Len(adm) - Len(order) + (k + p) = Len(adm) - Len(rest) + p
    BY <1>1
  <2>2. /\ adm[Len(adm) - Len(order) + (k + p)].id = order[k + p].id
        /\ adm[Len(adm) - Len(order) + (k + p)].time = order[k + p].time
    BY <2>1 DEF Follows
  <2> QED BY <2>1, <2>2
<1>4. \A j \in 1..Len(adm) - Len(rest) :
        Len(adm) - j >= DuplicateCapacity \/ adm[j].time + RecentTTL < t
  <2> SUFFICES ASSUME NEW j \in 1..Len(adm) - Len(rest)
               PROVE  Len(adm) - j >= DuplicateCapacity \/ adm[j].time + RecentTTL < t
    OBVIOUS
  <2>1. CASE j <= Len(adm) - Len(order)
    <3>1. j \in 1..Len(adm) - Len(order)
      BY <1>1, <2>1
    <3> QED BY <3>1 DEF Follows
  <2>2. CASE j > Len(adm) - Len(order)
    <3> DEFINE p == j - (Len(adm) - Len(order))
    <3>1. p \in 1..k /\ p \in 1..Len(order) /\ Len(adm) - Len(order) + p = j
      BY <1>1, <2>2
    <3> HIDE DEF p
    <3>2. adm[j].time = order[p].time
      BY <3>1 DEF Follows
    <3>3. order[p].time + RecentTTL < r
      BY <3>1 DEF Expires
    <3>4. order[p].time + RecentTTL \in Nat
      BY <1>1, <3>1, LimitsAssumption
    <3> QED BY <3>2, <3>3, <3>4
  <2> QED BY <1>1, <2>1, <2>2
<1> QED BY <1>2, <1>3, <1>4 DEF Follows

\* Admitting a note: it is appended to both, and the surplus leaves the order.
LEMMA AdmitKeepsFollowing ==
    ASSUME NEW adm \in Seq(Admission), NEW order \in Seq(Entry), NEW t \in Nat,
           NEW key \in Keys, NEW r \in Nat, Follows(adm, order, t),
           Len(order) <= DuplicateCapacity
    PROVE  LET longer == Append(order, [id |-> key, time |-> r])
               more == Append(adm, [id |-> key, time |-> r, done |-> t])
           IN  /\ more \in Seq(Admission) /\ Surplus(longer) \in 0..Len(longer)
               /\ Len(Behind(longer, Surplus(longer))) <= DuplicateCapacity
               /\ Follows(more, Behind(longer, Surplus(longer)), t)
<1> DEFINE e == [id |-> key, time |-> r]
           a == [id |-> key, time |-> r, done |-> t]
           longer == Append(order, e)
           more == Append(adm, a)
           s == Surplus(longer)
           kept == Behind(longer, s)
<1>1. e \in Entry /\ a \in Admission /\ DuplicateCapacity \in Nat \ {0}
  BY LimitsAssumption DEF Entry, Admission
<1>2. /\ longer \in Seq(Entry) /\ Len(order) \in Nat /\ Len(longer) = Len(order) + 1
      /\ longer[Len(order) + 1] = e
      /\ \A j \in 1..Len(order) : longer[j] = order[j]
  BY <1>1, AppendProperties, LenProperties
<1>3. /\ more \in Seq(Admission) /\ Len(adm) \in Nat /\ Len(more) = Len(adm) + 1
      /\ more[Len(adm) + 1] = a
      /\ \A j \in 1..Len(adm) : more[j] = adm[j]
  BY <1>1, AppendProperties, LenProperties
<1>4. s \in 0..Len(longer) /\ Len(longer) - s <= DuplicateCapacity
      /\ (s > 0 => Len(longer) - s = DuplicateCapacity)
  BY <1>1, <1>2 DEF Surplus
<1>5. /\ Len(kept) = Len(longer) - s
      /\ \A j \in 1..Len(longer) - s : kept[j] = longer[s + j]
  BY <1>2, <1>4, BehindProperties
<1> HIDE DEF longer, more, s, kept
<1>6. Len(kept) <= Len(more)
  BY <1>2, <1>3, <1>4, <1>5 DEF Follows
<1>7. \A p \in 1..Len(kept) :
        /\ more[Len(more) - Len(kept) + p].id = kept[p].id
        /\ more[Len(more) - Len(kept) + p].time = kept[p].time
  <2> SUFFICES ASSUME NEW p \in 1..Len(kept)
               PROVE  /\ more[Len(more) - Len(kept) + p].id = kept[p].id
                      /\ more[Len(more) - Len(kept) + p].time = kept[p].time
    OBVIOUS
  <2>1. /\ s + p \in 1..Len(longer) /\ kept[p] = longer[s + p]
        /\ Len(more) - Len(kept) + p = Len(adm) - Len(order) + (s + p)
    BY <1>2, <1>3, <1>4, <1>5
  <2>2. CASE s + p = Len(order) + 1
    <3>1. Len(more) - Len(kept) + p = Len(adm) + 1
      BY <1>2, <1>3, <2>1, <2>2
    <3> QED BY <1>2, <1>3, <2>1, <2>2, <3>1
  <2>3. CASE s + p \in 1..Len(order)
    <3>1. /\ adm[Len(adm) - Len(order) + (s + p)].id = order[s + p].id
          /\ adm[Len(adm) - Len(order) + (s + p)].time = order[s + p].time
      BY <2>3 DEF Follows
    <3>2. Len(adm) - Len(order) + (s + p) \in 1..Len(adm)
      BY <1>2, <1>3, <2>3 DEF Follows
    <3> QED BY <1>2, <1>3, <2>1, <2>3, <3>1, <3>2
  <2> QED BY <1>2, <2>1, <2>2, <2>3
<1>8. \A j \in 1..Len(more) - Len(kept) :
        Len(more) - j >= DuplicateCapacity \/ more[j].time + RecentTTL < t
  <2> SUFFICES ASSUME NEW j \in 1..Len(more) - Len(kept)
               PROVE  Len(more) - j >= DuplicateCapacity \/ more[j].time + RecentTTL < t
    OBVIOUS
  <2>1. CASE s > 0
    BY <1>1, <1>2, <1>3, <1>4, <1>5, <2>1
  <2>2. CASE s = 0
    <3>1. j \in 1..Len(adm) - Len(order) /\ j \in 1..Len(adm)
      BY <1>2, <1>3, <1>4, <1>5, <2>2
    <3>2. Len(adm) - j >= DuplicateCapacity \/ adm[j].time + RecentTTL < t
      BY <3>1 DEF Follows
    <3>3. more[j] = adm[j]
      BY <1>3, <3>1
    <3> QED BY <1>1, <1>3, <3>1, <3>2, <3>3
  <2> QED BY <1>4, <2>1, <2>2
<1>9. Follows(more, kept, t)
  BY <1>6, <1>7, <1>8 DEF Follows
<1> QED BY <1>3, <1>4, <1>5, <1>9 DEF longer, more, s, kept

\* An ID that is not in the map was not admitted lately.
LEMMA UnknownIsOld ==
    ASSUME NEW adm \in Seq(Admission), NEW order \in Seq(Entry), NEW t \in Nat,
           NEW index \in Indexes, Indexed(index, order), Follows(adm, order, t),
           NEW key \in Keys, index[key] = Never, NEW j \in 1..Len(adm), adm[j].id = key
    PROVE  Len(adm) - j >= DuplicateCapacity \/ adm[j].time + RecentTTL < t
<1>1. Len(adm) \in Nat /\ Len(order) \in Nat /\ \A p \in 1..Len(order) : order[p].time \in Nat
  <2>1. \A p \in 1..Len(order) : order[p] \in Entry
    BY ElementOfSeq
  <2> QED BY <2>1, LenProperties DEF Entry
<1>2. CASE j <= Len(adm) - Len(order)
  <2>1. j \in 1..Len(adm) - Len(order)
    BY <1>1, <1>2
  <2> QED BY <2>1 DEF Follows
<1>3. CASE j > Len(adm) - Len(order)
  <2> DEFINE p == j - (Len(adm) - Len(order))
  <2>1. p \in 1..Len(order) /\ Len(adm) - Len(order) + p = j
    BY <1>1, <1>3
  <2>2. order[p].id = key
    BY <2>1 DEF Follows
  <2>3. index[key] = order[p].time
    BY <2>1, <2>2 DEF Indexed
  <2> QED BY <1>1, <2>1, <2>3 DEF Never
<1> QED BY <1>1, <1>2, <1>3

\* The step of the duplicate check.
LEMMA DuplicateStep ==
    ASSUME TypeOK, LocalInv, CacheInv, NEW c \in Conns, Duplicate(c)
    PROVE  /\ duplicates' \in Indexes /\ dupOrder' \in Seq(Entry)
           /\ Len(dupOrder') <= DuplicateCapacity /\ admitted' \in Seq(Admission)
           /\ CacheInv'
<1>1. PICK old \in 0..Len(dupOrder) :
        LET order == Behind(dupOrder, old)
            index == Forget(duplicates, dupOrder, old)
            longer == Append(order, [id |-> note[c], time |-> at[c]])
        IN /\ Expires(dupOrder, at[c], old)
           /\ \/ /\ index[note[c]] # Never
                 /\ duplicates' = index /\ dupOrder' = order /\ admitted' = admitted
              \/ /\ index[note[c]] = Never
                 /\ duplicates' = Forget([index EXCEPT ![note[c]] = at[c]],
                                         longer, Surplus(longer))
                 /\ dupOrder' = Behind(longer, Surplus(longer))
                 /\ admitted' = Append(admitted,
                                 [id |-> note[c], time |-> at[c], done |-> now])
  BY DEF Duplicate
<1> DEFINE order == Behind(dupOrder, old)
           index == Forget(duplicates, dupOrder, old)
           longer == Append(order, [id |-> note[c], time |-> at[c]])
           more == [index EXCEPT ![note[c]] = at[c]]
           a == [id |-> note[c], time |-> at[c], done |-> now]
<1>2. /\ duplicates \in Indexes /\ dupOrder \in Seq(Entry) /\ admitted \in Seq(Admission)
      /\ now \in Nat /\ at[c] \in Nat /\ Len(dupOrder) <= DuplicateCapacity
      /\ note[c] \in Keys /\ at[c] <= now /\ now' = now
  BY DEF TypeOK, LocalInv, Duplicate, Indexes, Entry, Admission
<1>3. Indexed(duplicates, dupOrder) /\ Follows(admitted, dupOrder, now) /\ DuplicatesSuppressed
  BY DEF CacheInv, DuplicatesIndexed, Indexed
<1>4. index \in Indexes /\ Indexed(index, order)
  BY <1>2, <1>3, ForgetKeepsIndex
<1>5. order \in Seq(Entry) /\ Len(order) <= DuplicateCapacity
  BY <1>2, BehindProperties, LenProperties, LimitsAssumption
<1>6. Follows(admitted, order, now)
  BY <1>1, <1>2, <1>3, ExpireKeepsFollowing
<1>7. CASE index[note[c]] # Never
  <2>1. duplicates' = index /\ dupOrder' = order /\ admitted' = admitted
    BY <1>1, <1>7
  <2>2. DuplicatesIndexed'
    BY <1>4, <2>1 DEF Indexed, DuplicatesIndexed
  <2>3. Follows(admitted, dupOrder, now)' /\ DuplicatesSuppressed'
    BY <1>2, <1>3, <1>6, <2>1 DEF DuplicatesSuppressed, Follows
  <2> QED BY <1>2, <1>4, <1>5, <2>1, <2>2, <2>3 DEF CacheInv
<1>8. CASE index[note[c]] = Never
  <2>1. /\ duplicates' = Forget(more, longer, Surplus(longer))
        /\ dupOrder' = Behind(longer, Surplus(longer))
        /\ admitted' = Append(admitted, a)
    BY <1>1, <1>8
  <2>2. more \in Indexes /\ longer \in Seq(Entry) /\ Indexed(more, longer)
    BY <1>2, <1>4, <1>5, <1>8, AppendKeepsIndex
  <2>3. /\ Append(admitted, a) \in Seq(Admission) /\ Surplus(longer) \in 0..Len(longer)
        /\ Len(Behind(longer, Surplus(longer))) <= DuplicateCapacity
        /\ Follows(Append(admitted, a), Behind(longer, Surplus(longer)), now)
    BY <1>2, <1>5, <1>6, AdmitKeepsFollowing
  <2>4. /\ Forget(more, longer, Surplus(longer)) \in Indexes
        /\ Indexed(Forget(more, longer, Surplus(longer)), Behind(longer, Surplus(longer)))
    BY <2>2, <2>3, ForgetKeepsIndex
  <2>5. Behind(longer, Surplus(longer)) \in Seq(Entry)
    BY <2>2, <2>3, BehindProperties
  <2>6. DuplicatesSuppressed'
    <3> HIDE DEF order, index, longer, more
    <3>1. /\ Len(admitted) \in Nat /\ Len(admitted') = Len(admitted) + 1
          /\ admitted'[Len(admitted) + 1] = a
          /\ \A j \in 1..Len(admitted) : admitted'[j] = admitted[j]
      <4>1. a \in Admission
        BY <1>2 DEF Admission
      <4> QED BY <1>2, <2>1, <4>1, AppendProperties, LenProperties
    <3>2. \A j \in 1..Len(admitted) : admitted[j].time \in Nat
      <4>1. \A j \in 1..Len(admitted) : admitted[j] \in Admission
        BY <1>2, ElementOfSeq
      <4> QED BY <4>1 DEF Admission
    <3>3. SUFFICES ASSUME NEW j \in 1..Len(admitted'), NEW k \in 1..Len(admitted'),
                          j < k, admitted'[j].id = admitted'[k].id
                   PROVE  \/ k - j > DuplicateCapacity
                          \/ admitted'[k].done - admitted'[j].time > RecentTTL
      BY DEF DuplicatesSuppressed
    <3>4. j \in 1..Len(admitted) /\ admitted'[j] = admitted[j]
      BY <3>1, <3>3
    <3>5. CASE k \in 1..Len(admitted)
      BY <1>3, <3>1, <3>3, <3>4, <3>5 DEF DuplicatesSuppressed
    <3>6. CASE k = Len(admitted) + 1
      <4>1. admitted[j].id = note[c] /\ admitted'[k].done = now
        BY <3>1, <3>3, <3>4, <3>6
      <4>2. Len(admitted) - j >= DuplicateCapacity \/ admitted[j].time + RecentTTL < now
        BY <1>2, <1>4, <1>5, <1>6, <1>8, <3>4, <4>1, UnknownIsOld
      <4> QED BY <1>2, <3>1, <3>2, <3>4, <3>6, <4>1, <4>2, LimitsAssumption
    <3> QED BY <3>1, <3>5, <3>6
  <2>7. DuplicatesIndexed' /\ Follows(admitted, dupOrder, now)'
    BY <1>2, <2>1, <2>3, <2>4 DEF Indexed, DuplicatesIndexed, Follows
  <2> QED BY <2>1, <2>3, <2>4, <2>5, <2>6, <2>7 DEF CacheInv
<1> QED BY <1>7, <1>8

CacheTyped ==
    /\ duplicates' \in Indexes /\ dupOrder' \in Seq(Entry)
    /\ Len(dupOrder') <= DuplicateCapacity /\ admitted' \in Seq(Admission)

\* The cache under every other step: only the clock moves.
LEMMA CacheFrame ==
    ASSUME TypeOK, CacheInv, UNCHANGED cacheVars, now' \in Nat, now' >= now
    PROVE  CacheTyped /\ CacheInv'
<1>1. CacheTyped
  BY DEF CacheTyped, TypeOK, cacheVars, Indexes, Entry, Admission
<1>2. DuplicatesIndexed' /\ DuplicatesSuppressed'
  BY DEF CacheInv, cacheVars, DuplicatesIndexed, DuplicatesSuppressed
<1>3. now \in Nat /\ admitted \in Seq(Admission) /\ \A j \in 1..Len(admitted) : admitted[j].time \in Nat
  <2>1. admitted \in Seq(Admission) /\ now \in Nat
    BY DEF TypeOK, Admission
  <2>2. \A j \in 1..Len(admitted) : admitted[j] \in Admission
    BY <2>1, ElementOfSeq
  <2> QED BY <2>1, <2>2 DEF Admission
<1>4. Follows(admitted, dupOrder, now')
  <2>1. \A j \in 1..Len(admitted) - Len(dupOrder) :
          Len(admitted) - j >= DuplicateCapacity \/ admitted[j].time + RecentTTL < now'
    <3> SUFFICES ASSUME NEW j \in 1..Len(admitted) - Len(dupOrder)
                 PROVE  Len(admitted) - j >= DuplicateCapacity \/ admitted[j].time + RecentTTL < now'
      OBVIOUS
    <3>1. Len(admitted) - j >= DuplicateCapacity \/ admitted[j].time + RecentTTL < now
      BY DEF CacheInv, Follows
    <3>2. Len(admitted) \in Nat /\ Len(dupOrder) \in Nat
      BY <1>3, LenProperties DEF TypeOK
    <3>3. j \in 1..Len(admitted)
      BY <3>2
    <3>4. admitted[j].time + RecentTTL \in Nat
      BY <1>3, <3>3, LimitsAssumption
    <3> QED BY <1>3, <3>1, <3>4
  <2> QED BY <2>1 DEF CacheInv, Follows
<1> QED BY <1>1, <1>2, <1>4 DEF CacheInv, cacheVars

\* The cache invariant is inductive.
LEMMA CacheStep ==
    ASSUME TypeOK, LocalInv, CacheInv, [Next]_vars
    PROVE  CacheTyped /\ CacheInv'
<1>0. now \in Nat
  BY DEF TypeOK
<1>1. ASSUME NEW c \in Conns, BeginSession(c)
      PROVE  CacheTyped /\ CacheInv'
  BY <1>1, <1>0, CacheFrame DEF BeginSession
<1>2. ASSUME NEW c \in Conns, AcceptFails(c)
      PROVE  CacheTyped /\ CacheInv'
  BY <1>2, <1>0, CacheFrame DEF AcceptFails
<1>3. ASSUME NEW c \in Conns, TrackSession(c)
      PROVE  CacheTyped /\ CacheInv'
  BY <1>3, <1>0, CacheFrame DEF TrackSession
<1>4. ASSUME NEW c \in Conns, NEW i \in Instances, ReadHello(c, i)
      PROVE  CacheTyped /\ CacheInv'
  BY <1>4, <1>0, CacheFrame DEF ReadHello
<1>5. ASSUME NEW c \in Conns, HelloFails(c)
      PROVE  CacheTyped /\ CacheInv'
  BY <1>5, <1>0, CacheFrame DEF HelloFails
<1>6. ASSUME NEW c \in Conns, Register(c)
      PROVE  CacheTyped /\ CacheInv'
  BY <1>6, <1>0, CacheFrame DEF Register
<1>7. ASSUME NEW c \in Conns, Announce(c)
      PROVE  CacheTyped /\ CacheInv'
  BY <1>7, <1>0, CacheFrame DEF Announce
<1>8. ASSUME NEW c \in Conns, NEW n \in Notes, ReadNote(c, n)
      PROVE  CacheTyped /\ CacheInv'
  BY <1>8, <1>0, CacheFrame DEF ReadNote
<1>9. ASSUME NEW c \in Conns, Duplicate(c)
      PROVE  CacheTyped /\ CacheInv'
  BY <1>9, DuplicateStep DEF CacheTyped
<1>10. ASSUME NEW c \in Conns, SinkWrite(c)
      PROVE  CacheTyped /\ CacheInv'
  BY <1>10, <1>0, CacheFrame DEF SinkWrite
<1>11. ASSUME NEW c \in Conns, Record(c)
      PROVE  CacheTyped /\ CacheInv'
  BY <1>11, <1>0, CacheFrame DEF Record
<1>12. ASSUME NEW c \in Conns, ReadFails(c)
      PROVE  CacheTyped /\ CacheInv'
  BY <1>12, <1>0, CacheFrame DEF ReadFails
<1>13. ASSUME NEW c \in Conns, Disconnect(c)
      PROVE  CacheTyped /\ CacheInv'
  BY <1>13, <1>0, CacheFrame DEF Disconnect
<1>14. ASSUME NEW c \in Conns, Report(c)
      PROVE  CacheTyped /\ CacheInv'
  BY <1>14, <1>0, CacheFrame DEF Report
<1>15. ASSUME NEW c \in Conns, UntrackSession(c)
      PROVE  CacheTyped /\ CacheInv'
  BY <1>15, <1>0, CacheFrame DEF UntrackSession
<1>16. ASSUME NEW c \in Conns, EndSession(c)
      PROVE  CacheTyped /\ CacheInv'
  BY <1>16, <1>0, CacheFrame DEF EndSession
<1>17. ASSUME NEW c \in Conns, CloseNow(c)
      PROVE  CacheTyped /\ CacheInv'
  BY <1>17, <1>0, CacheFrame DEF CloseNow
<1>18. ASSUME NEW c \in Conns, LinkLost(c)
      PROVE  CacheTyped /\ CacheInv'
  BY <1>18, <1>0, CacheFrame DEF LinkLost
<1>19. CASE Close
  BY <1>19, <1>0, CacheFrame DEF Close
<1>20. CASE CloseReturns
  BY <1>20, <1>0, CacheFrame DEF CloseReturns
<1>21. CASE Snapshot
  BY <1>21, <1>0, CacheFrame DEF Snapshot
<1>22. CASE Tick
  BY <1>22, <1>0, CacheFrame DEF Tick
<1>23. CASE UNCHANGED vars
  BY <1>23, <1>0, CacheFrame DEF vars
<1> QED BY <1>1, <1>2, <1>3, <1>4, <1>5, <1>6, <1>7, <1>8, <1>9, <1>10, <1>11,
          <1>12, <1>13, <1>14, <1>15, <1>16, <1>17, <1>18, <1>19, <1>20, <1>21,
          <1>22, <1>23 DEF Next, Handler

Inv1 == TypeInv /\ CacheInv

\* Types, local facts, the session counter and the cache hold initially.
LEMMA Inv1Init == Init => Inv1
<1> SUFFICES ASSUME Init PROVE Inv1
  OBVIOUS
<1>1. <<>> \in Seq(Entry) /\ <<>> \in Seq(Admission) /\ Len(<<>>) = 0
  BY EmptySeq
<1>2. /\ dupOrder \in Seq(Entry) /\ Len(dupOrder) = 0 /\ admitted \in Seq(Admission)
      /\ Len(admitted) = 0
  BY <1>1 DEF Init
<1>3. Absent \in Node
  BY DEF Absent, Node
<1>4. TypeOK
  <2>1. nodes \in [Instances -> Node] /\ duplicates \in [Keys -> Nat \cup {Never}]
    BY <1>3 DEF Init
  <2>2. Len(dupOrder) <= DuplicateCapacity
    BY <1>2, LimitsAssumption
  <2> QED BY <1>2, <2>1, <2>2 DEF Init, TypeOK, Entry, Admission, Steps
<1>5. LocalInv
  BY DEF Init, LocalInv
<1>6. CountInv
  <2>1. Running = {}
    BY DEF Init, Running
  <2> QED BY <2>1, FS_EmptySet DEF Init, CountInv
<1>7. CacheInv
  BY <1>2 DEF Init, CacheInv, DuplicatesIndexed, DuplicatesSuppressed, Follows
<1> QED BY <1>4, <1>5, <1>6, <1>7 DEF Inv1, TypeInv

\* And they are inductive.
LEMMA Inv1Step == Inv1 /\ [Next]_vars => Inv1'
<1> SUFFICES ASSUME Inv1, [Next]_vars PROVE Inv1'
  OBVIOUS
<1>1. TypeOK /\ LocalInv /\ CountInv /\ CacheInv
  BY DEF Inv1, TypeInv
<1>2. CacheTyped /\ CacheInv'
  BY <1>1, CacheStep
<1>3. CountInv' /\ sessionCount' \in Nat
  BY <1>1, CountStep
<1>4. nodes' \in [Instances -> Node]
  BY <1>1, NodesTyped
<1>5. TypeOK' /\ LocalInv'
  BY <1>1, <1>2, <1>3, <1>4, PlainTypes DEF CacheTyped, Indexes
<1> QED BY <1>2, <1>3, <1>5 DEF Inv1, TypeInv

-----------------------------------------------------------------------------
(***************************************************************************)
(* Sessions and Close                                                      *)
(***************************************************************************)

\* The tracked sessions are the handlers from trackSession to untrackSession,
\* and Close returns when none is left.
SessionInv ==
    /\ \A c \in Conns :
           c \in sessions <=>
               pc[c] \in {"hello", "register", "announce", "open", "note", "write",
                          "record", "disconnect", "report", "untrack"}
    /\ CloseReachesAll
    /\ closer = "closed" => Running = {}

\* The invariant of sessions and Close is inductive.
LEMMA SessionStep ==
    ASSUME TypeOK, SessionInv, [Next]_vars
    PROVE  SessionInv'
<1>0. pc \in [Conns -> Steps] /\ up \subseteq Conns /\ sessions \subseteq Conns
  BY DEF TypeOK
<1> USE <1>0 DEF Goto, SessionInv, CloseReachesAll, Running, closeVars, closing
<1>1. ASSUME NEW c \in Conns, BeginSession(c)
      PROVE  SessionInv'
  BY <1>1 DEF BeginSession
<1>2. ASSUME NEW c \in Conns, AcceptFails(c)
      PROVE  SessionInv'
  BY <1>2 DEF AcceptFails
<1>3. ASSUME NEW c \in Conns, TrackSession(c)
      PROVE  SessionInv'
  BY <1>3 DEF TrackSession
<1>4. ASSUME NEW c \in Conns, NEW i \in Instances, ReadHello(c, i)
      PROVE  SessionInv'
  BY <1>4 DEF ReadHello
<1>5. ASSUME NEW c \in Conns, HelloFails(c)
      PROVE  SessionInv'
  BY <1>5 DEF HelloFails
<1>6. ASSUME NEW c \in Conns, Register(c)
      PROVE  SessionInv'
  BY <1>6 DEF Register
<1>7. ASSUME NEW c \in Conns, Announce(c)
      PROVE  SessionInv'
  BY <1>7 DEF Announce
<1>8. ASSUME NEW c \in Conns, NEW n \in Notes, ReadNote(c, n)
      PROVE  SessionInv'
  BY <1>8 DEF ReadNote
<1>9. ASSUME NEW c \in Conns, Duplicate(c)
      PROVE  SessionInv'
  BY <1>9 DEF Duplicate
<1>10. ASSUME NEW c \in Conns, SinkWrite(c)
      PROVE  SessionInv'
  BY <1>10 DEF SinkWrite
<1>11. ASSUME NEW c \in Conns, Record(c)
      PROVE  SessionInv'
  BY <1>11 DEF Record
<1>12. ASSUME NEW c \in Conns, ReadFails(c)
      PROVE  SessionInv'
  BY <1>12 DEF ReadFails
<1>13. ASSUME NEW c \in Conns, Disconnect(c)
      PROVE  SessionInv'
  BY <1>13 DEF Disconnect
<1>14. ASSUME NEW c \in Conns, Report(c)
      PROVE  SessionInv'
  BY <1>14 DEF Report
<1>15. ASSUME NEW c \in Conns, UntrackSession(c)
      PROVE  SessionInv'
  BY <1>15 DEF UntrackSession
<1>16. ASSUME NEW c \in Conns, EndSession(c)
      PROVE  SessionInv'
  BY <1>16 DEF EndSession
<1>17. ASSUME NEW c \in Conns, CloseNow(c)
      PROVE  SessionInv'
  BY <1>17 DEF CloseNow
<1>18. ASSUME NEW c \in Conns, LinkLost(c)
      PROVE  SessionInv'
  BY <1>18 DEF LinkLost
<1>19. CASE Close
  BY <1>19 DEF Close, Steps
<1>20. CASE CloseReturns
  BY <1>20 DEF CloseReturns
<1>21. CASE Snapshot
  BY <1>21 DEF Snapshot
<1>22. CASE Tick
  BY <1>22 DEF Tick
<1>23. CASE UNCHANGED vars
  BY <1>23 DEF vars
<1> QED BY <1>1, <1>2, <1>3, <1>4, <1>5, <1>6, <1>7, <1>8, <1>9, <1>10, <1>11,
          <1>12, <1>13, <1>14, <1>15, <1>16, <1>17, <1>18, <1>19, <1>20, <1>21,
          <1>22, <1>23 DEF Next, Handler

-----------------------------------------------------------------------------
(***************************************************************************)
(* The registry of nodes                                                   *)
(***************************************************************************)

\* Generations are unique and grow; a registered handler has one.
GenInv ==
    /\ \A c \in Conns : gen[c] <= generation
    /\ \A c \in Registered : gen[c] > 0
    /\ \A c, d \in Conns : gen[c] = gen[d] /\ gen[c] > 0 => c = d

\* NodeFollowsNewest, read from the node and read from the handler.
OwnerInv ==
    \A i \in Instances : nodes[i].state = "connected" =>
        /\ nodes[i].connection \in Registered
        /\ nodes[i].generation = gen[nodes[i].connection]
        /\ who[nodes[i].connection] = i
        /\ Newest(nodes[i].connection)

NewestInv ==
    \A c \in Registered : Newest(c) =>
        /\ nodes[who[c]].state = "connected" /\ nodes[who[c]].connection = c
        /\ nodes[who[c]].generation = gen[c]

NodeInv == GenInv /\ OwnerInv /\ NewestInv /\ AcceptedIsTaken

\* Pruning as the other steps see it.
Shrinks ==
    /\ \A i \in Instances : nodes'[i] = nodes[i] \/ nodes'[i] = Absent
    /\ \A i \in Instances : nodes[i].state = "connected" => nodes'[i] = nodes[i]

\* What register does: it finds no room, or the identity has a new node and
\* the others are kept or pruned.
LEMMA RegisterShape ==
    ASSUME TypeOK, LocalInv, NEW c \in Conns, Register(c)
    PROVE  /\ who[c] \in Instances
           /\ \/ /\ Shrinks /\ pc' = [pc EXCEPT ![c] = "untrack"]
                 /\ UNCHANGED <<generation, gen>>
              \/ /\ generation' = generation + 1 /\ gen' = [gen EXCEPT ![c] = generation + 1]
                 /\ pc' = [pc EXCEPT ![c] = "announce"]
                 /\ nodes'[who[c]] = NewNode(c, generation + 1)
                 /\ \A i \in Instances \ {who[c]} :
                        /\ nodes'[i] = nodes[i] \/ nodes'[i] = Absent
                        /\ nodes[i].state = "connected" => nodes'[i] = nodes[i]
<1>1. /\ now \in Nat /\ nodes \in [Instances -> Node] /\ who[c] \in Instances
      /\ generation \in Nat
  BY DEF Register, TypeOK, LocalInv
<1>2. PICK ns \in Pruned(nodes, now) :
        \/ /\ nodes' = ns /\ pc' = [pc EXCEPT ![c] = "untrack"]
           /\ UNCHANGED <<generation, gen>>
        \/ /\ generation' = generation + 1 /\ gen' = [gen EXCEPT ![c] = generation + 1]
           /\ nodes' \in Pruned([ns EXCEPT ![who[c]] = NewNode(c, generation + 1)], now)
           /\ pc' = [pc EXCEPT ![c] = "announce"]
  BY DEF Register, Goto
<1>3. /\ ns \in [Instances -> Node]
      /\ \A i \in Instances : ns[i] = nodes[i] \/ ns[i] = Absent
      /\ \A i \in Instances : nodes[i].state = "connected" => ns[i] = nodes[i]
  BY <1>1, PrunedShape
<1>4. CASE nodes' = ns /\ pc' = [pc EXCEPT ![c] = "untrack"] /\ UNCHANGED <<generation, gen>>
  BY <1>1, <1>3, <1>4 DEF Shrinks
<1>5. CASE /\ generation' = generation + 1 /\ gen' = [gen EXCEPT ![c] = generation + 1]
           /\ nodes' \in Pruned([ns EXCEPT ![who[c]] = NewNode(c, generation + 1)], now)
           /\ pc' = [pc EXCEPT ![c] = "announce"]
  <2> DEFINE with == [ns EXCEPT ![who[c]] = NewNode(c, generation + 1)]
  <2>1. NewNode(c, generation + 1) \in Node /\ NewNode(c, generation + 1).state = "connected"
    BY <1>1 DEF NewNode, Node
  <2>2. /\ with \in [Instances -> Node] /\ with[who[c]] = NewNode(c, generation + 1)
        /\ \A i \in Instances \ {who[c]} : with[i] = ns[i]
    BY <1>1, <1>3, <2>1
  <2>0. nodes' \in Pruned(with, now)
    BY <1>5
  <2> HIDE DEF with
  <2>3. /\ \A i \in Instances : nodes'[i] = with[i] \/ nodes'[i] = Absent
        /\ \A i \in Instances : with[i].state = "connected" => nodes'[i] = with[i]
    BY <1>1, <2>0, <2>2, PrunedShape
  <2>4. nodes'[who[c]] = NewNode(c, generation + 1)
    BY <1>1, <2>1, <2>2, <2>3
  <2>5. \A i \in Instances \ {who[c]} :
           /\ nodes'[i] = nodes[i] \/ nodes'[i] = Absent
           /\ nodes[i].state = "connected" => nodes'[i] = nodes[i]
    BY <1>3, <2>2, <2>3
  <2> QED BY <1>1, <1>5, <2>4, <2>5
<1> QED BY <1>1, <1>2, <1>4, <1>5

\* Nothing the nodes depend on changes, except that some may be pruned.
LEMMA NodeFrame ==
    ASSUME TypeOK, LocalInv, NodeInv, UNCHANGED <<generation, gen, who, took>>, Shrinks,
           Registered' = Registered,
           \A c \in Conns : pc'[c] = "record" <=> pc[c] = "record"
    PROVE  NodeInv'
<1>0. /\ nodes \in [Instances -> Node] /\ gen \in [Conns -> Nat] /\ generation \in Nat
      /\ Absent.generation = 0 /\ Absent.state = "absent"
      /\ \A c \in Conns : gen[c] > 0 => who[c] \in Instances
  BY DEF TypeOK, Absent, LocalInv
<1>1. GenInv'
  BY DEF NodeInv, GenInv
<1>2. OwnerInv'
  BY <1>0 DEF NodeInv, OwnerInv, Shrinks, Newest
<1>3. NewestInv'
  BY <1>0 DEF NodeInv, NewestInv, Shrinks, Newest, GenInv, Registered
<1>4. AcceptedIsTaken'
  BY <1>0 DEF NodeInv, AcceptedIsTaken, Shrinks
<1> QED BY <1>1, <1>2, <1>3, <1>4 DEF NodeInv

\* The invariant of the registry is inductive.
LEMMA NodeStep ==
    ASSUME TypeOK, LocalInv, NodeInv, [Next]_vars
    PROVE  NodeInv'
<1>0. /\ pc \in [Conns -> Steps] /\ nodes \in [Instances -> Node] /\ gen \in [Conns -> Nat]
      /\ who \in [Conns -> Instances \cup {NoInstance}] /\ took \in [Conns -> Nat]
      /\ generation \in Nat /\ now \in Nat
  BY DEF TypeOK
<1>a. GenInv /\ OwnerInv /\ NewestInv /\ AcceptedIsTaken
  BY DEF NodeInv
<1> USE <1>0 DEF Goto, handlerVars
<1>1. ASSUME NEW c \in Conns, BeginSession(c)
      PROVE  NodeInv'
  BY <1>1, NodeFrame DEF BeginSession, Shrinks, Registered
<1>2. ASSUME NEW c \in Conns, AcceptFails(c)
      PROVE  NodeInv'
  BY <1>2, NodeFrame DEF AcceptFails, Shrinks, Registered
<1>3. ASSUME NEW c \in Conns, TrackSession(c)
      PROVE  NodeInv'
  BY <1>3, NodeFrame DEF TrackSession, Shrinks, Registered
<1>4. ASSUME NEW c \in Conns, NEW i \in Instances, ReadHello(c, i)
      PROVE  NodeInv'
  <2>1. gen[c] = 0 /\ c \notin Registered /\ Registered' = Registered /\ pc[c] # "record"
    BY <1>4 DEF ReadHello, LocalInv, Registered
  <2>2. \A d \in Registered : gen[d] > 0 /\ d # c /\ who'[d] = who[d]
    BY <1>4, <2>1, <1>a DEF ReadHello, GenInv
  <2>3. \A d \in Registered : Newest(d)' <=> Newest(d)
    BY <1>4, <2>1, <2>2, ConnsAssumption DEF ReadHello, Newest, Registered
  <2>4. GenInv'
    BY <1>4, <2>1, <1>a DEF ReadHello, GenInv
  <2>5. OwnerInv'
    BY <1>4, <2>1, <2>2, <2>3, <1>a DEF ReadHello, OwnerInv
  <2>6. NewestInv'
    BY <1>4, <2>1, <2>2, <2>3, <1>a DEF ReadHello, NewestInv
  <2>7. AcceptedIsTaken'
    BY <1>4, <2>1, <1>a DEF ReadHello, AcceptedIsTaken
  <2> QED BY <2>4, <2>5, <2>6, <2>7 DEF NodeInv
<1>5. ASSUME NEW c \in Conns, HelloFails(c)
      PROVE  NodeInv'
  BY <1>5, NodeFrame DEF HelloFails, Shrinks, Registered
<1>6. ASSUME NEW c \in Conns, Register(c)
      PROVE  NodeInv'
  <2>1. /\ who[c] \in Instances /\ gen[c] = 0 /\ took[c] = 0 /\ pc[c] = "register"
        /\ who' = who /\ took' = took
    BY <1>6, RegisterShape DEF Register, LocalInv
  <2>2. CASE Shrinks /\ pc' = [pc EXCEPT ![c] = "untrack"] /\ UNCHANGED <<generation, gen>>
    BY <2>1, <2>2, NodeFrame DEF Registered
  <2>3. CASE /\ generation' = generation + 1 /\ gen' = [gen EXCEPT ![c] = generation + 1]
             /\ pc' = [pc EXCEPT ![c] = "announce"]
             /\ nodes'[who[c]] = NewNode(c, generation + 1)
             /\ \A i \in Instances \ {who[c]} :
                    /\ nodes'[i] = nodes[i] \/ nodes'[i] = Absent
                    /\ nodes[i].state = "connected" => nodes'[i] = nodes[i]
    <3>1. Registered' = Registered \cup {c} /\ c \notin Registered
      BY <2>1, <2>3 DEF Registered
    <3>2. /\ gen'[c] = generation + 1
          /\ \A d \in Conns \ {c} : gen'[d] = gen[d] /\ gen'[d] < gen'[c]
      BY <2>3, <1>a DEF GenInv
    <3>3. GenInv'
      BY <2>3, <3>1, <3>2, <1>a DEF GenInv
    <3>4. Newest(c)' /\ \A d \in Conns \ {c} : who[d] = who[c] => ~Newest(d)'
      BY <2>1, <3>2 DEF Newest
    <3>5. \A d \in Conns \ {c} : who[d] # who[c] => (Newest(d)' <=> Newest(d))
      BY <2>1, <3>2 DEF Newest
    <3>6. Absent.state = "absent" /\ Absent.generation = 0
      BY DEF Absent
    <3>7. OwnerInv'
      <4> SUFFICES ASSUME NEW i \in Instances, nodes'[i].state = "connected"
                   PROVE  /\ nodes'[i].connection \in Registered'
                          /\ nodes'[i].generation = gen'[nodes'[i].connection]
                          /\ who'[nodes'[i].connection] = i
                          /\ Newest(nodes[i].connection)'
        BY DEF OwnerInv
      <4>1. CASE i = who[c]
        <5>1. nodes'[i].connection = c /\ nodes'[i].generation = generation + 1
          BY <2>3, <4>1 DEF NewNode
        <5>2. Newest(nodes[i].connection)'
          BY <3>4, <5>1 DEF Newest
        <5> QED BY <2>1, <3>1, <3>2, <4>1, <5>1, <5>2
      <4>2. CASE i # who[c]
        <5>1. nodes'[i] = nodes[i] /\ nodes[i].state = "connected"
          BY <2>3, <3>6, <4>2
        <5>2. /\ nodes[i].connection \in Registered /\ nodes[i].connection # c
              /\ nodes[i].generation = gen[nodes[i].connection]
              /\ who[nodes[i].connection] = i /\ Newest(nodes[i].connection)
          BY <3>1, <5>1, <1>a DEF OwnerInv
        <5>3. nodes[i].connection \in Conns
          BY <5>2 DEF Registered
        <5>4. Newest(nodes[i].connection)'
          BY <3>5, <4>2, <5>1, <5>2, <5>3 DEF Newest
        <5> QED BY <2>1, <3>1, <3>2, <5>1, <5>2, <5>3, <5>4
      <4> QED BY <4>1, <4>2
    <3>8. NewestInv'
      <4> SUFFICES ASSUME NEW d \in Registered', Newest(d)'
                   PROVE  /\ nodes'[who[d]].state = "connected"
                          /\ nodes'[who[d]].connection = d
                          /\ nodes'[who[d]].generation = gen'[d]
        BY <2>1 DEF NewestInv
      <4>1. CASE d = c
        BY <2>1, <2>3, <3>2, <4>1 DEF NewNode
      <4>2. CASE d # c
        <5>1. d \in Registered /\ d \in Conns \ {c} /\ who[d] # who[c] /\ Newest(d)
          BY <3>1, <3>4, <3>5, <4>2 DEF Registered
        <5>2. who[d] \in Instances
          BY <5>1 DEF Registered, LocalInv
        <5> QED BY <2>3, <3>2, <5>1, <5>2, <1>a DEF NewestInv
      <4> QED BY <4>1, <4>2
    <3>9. AcceptedIsTaken'
      <4> SUFFICES ASSUME NEW d \in Conns, gen'[d] > 0, nodes'[who[d]].generation = gen'[d]
                   PROVE  took[d] = nodes'[who[d]].accepted + (IF pc'[d] = "record" THEN 1 ELSE 0)
        BY <2>1 DEF AcceptedIsTaken
      <4>1. CASE d = c
        BY <2>1, <2>3, <4>1 DEF NewNode
      <4>2. CASE d # c
        <5>1. gen'[d] = gen[d] /\ gen[d] > 0 /\ who[d] \in Instances /\ pc'[d] = pc[d]
          BY <2>3, <3>2, <4>2 DEF LocalInv
        <5>2. who[d] # who[c]
          BY <2>3, <3>2, <4>2, <5>1 DEF NewNode
        <5>3. nodes'[who[d]] = nodes[who[d]]
          BY <2>3, <3>6, <5>1, <5>2
        <5> QED BY <5>1, <5>3, <1>a DEF AcceptedIsTaken
      <4> QED BY <4>1, <4>2
    <3> QED BY <3>3, <3>7, <3>8, <3>9 DEF NodeInv
  <2> QED BY <1>6, <2>2, <2>3, RegisterShape
<1>7. ASSUME NEW c \in Conns, Announce(c)
      PROVE  NodeInv'
  BY <1>7, NodeFrame DEF Announce, Shrinks, Registered
<1>8. ASSUME NEW c \in Conns, NEW n \in Notes, ReadNote(c, n)
      PROVE  NodeInv'
  BY <1>8, NodeFrame DEF ReadNote, Shrinks, Registered
<1>9. ASSUME NEW c \in Conns, Duplicate(c)
      PROVE  NodeInv'
  BY <1>9, NodeFrame DEF Duplicate, Shrinks, Registered
<1>10. ASSUME NEW c \in Conns, SinkWrite(c)
      PROVE  NodeInv'
  <2>1. CASE Goto(c, "open") /\ UNCHANGED took
    BY <1>10, <2>1, NodeFrame DEF SinkWrite, Shrinks, Registered
  <2>2. CASE Goto(c, "record") /\ took' = [took EXCEPT ![c] = @ + 1]
    <3>1. Registered' = Registered /\ UNCHANGED <<generation, gen, who, nodes>>
      BY <1>10, <2>2 DEF SinkWrite, Registered
    <3>2. GenInv' /\ OwnerInv' /\ NewestInv'
      BY <3>1, <1>a DEF GenInv, OwnerInv, NewestInv, Newest
    <3>3. AcceptedIsTaken'
      <4>1. \A d \in Conns : gen[d] > 0 => nodes[who[d]].accepted \in Nat
        BY DEF LocalInv, Node
      <4> QED BY <1>10, <2>2, <3>1, <4>1, <1>a DEF SinkWrite, AcceptedIsTaken
    <3> QED BY <3>2, <3>3 DEF NodeInv
  <2> QED BY <1>10, <2>1, <2>2 DEF SinkWrite
<1>11. ASSUME NEW c \in Conns, Record(c)
      PROVE  NodeInv'
  <2>1. /\ who[c] \in Instances /\ c \in Registered /\ gen[c] > 0
        /\ Registered' = Registered /\ UNCHANGED <<generation, gen, who, took>>
    BY <1>11, <1>a DEF Record, Registered, LocalInv, GenInv
  <2>2. CASE nodes[who[c]].generation # gen[c]
    <3>1. nodes' = nodes
      BY <1>11, <2>2 DEF Record
    <3>2. GenInv' /\ OwnerInv' /\ NewestInv'
      BY <2>1, <3>1, <1>a DEF GenInv, OwnerInv, NewestInv, Newest
    <3>3. AcceptedIsTaken'
      BY <1>11, <2>1, <2>2, <3>1, <1>a DEF Record, AcceptedIsTaken
    <3> QED BY <3>2, <3>3 DEF NodeInv
  <2>3. CASE nodes[who[c]].generation = gen[c]
    <3>1. /\ nodes' \in [Instances -> Node]
          /\ nodes'[who[c]].accepted = nodes[who[c]].accepted + 1
          /\ \A i \in Instances :
                 /\ nodes'[i].state = nodes[i].state
                 /\ nodes'[i].generation = nodes[i].generation
                 /\ nodes'[i].connection = nodes[i].connection
                 /\ i # who[c] => nodes'[i].accepted = nodes[i].accepted
      BY <1>11, <2>1, <2>3 DEF Record, Node
    <3>2. GenInv' /\ OwnerInv'
      BY <2>1, <3>1, <1>a DEF GenInv, OwnerInv, Newest
    <3>3. NewestInv'
      <4>1. \A d \in Registered : who[d] \in Instances
        BY DEF Registered, LocalInv
      <4> QED BY <2>1, <3>1, <4>1, <1>a DEF NewestInv, Newest
    <3>4. AcceptedIsTaken'
      <4> SUFFICES ASSUME NEW d \in Conns, gen[d] > 0, nodes'[who[d]].generation = gen[d]
                   PROVE  took[d] = nodes'[who[d]].accepted + (IF pc'[d] = "record" THEN 1 ELSE 0)
        BY <2>1 DEF AcceptedIsTaken
      <4>1. who[d] \in Instances /\ nodes[who[d]].generation = gen[d]
        BY <3>1 DEF LocalInv
      <4>2. took[d] = nodes[who[d]].accepted + (IF pc[d] = "record" THEN 1 ELSE 0)
        BY <4>1, <1>a DEF AcceptedIsTaken
      <4>3. CASE d = c
        <5>1. pc[c] = "record" /\ pc'[c] = "open" /\ nodes[who[c]].accepted \in Nat
          BY <1>11, <2>1 DEF Record, Node
        <5> QED BY <3>1, <4>2, <4>3, <5>1
      <4>4. CASE d # c
        <5>1. who[d] # who[c]
          BY <2>1, <2>3, <4>1, <4>4, <1>a DEF GenInv
        <5>2. pc'[d] = pc[d]
          BY <1>11, <4>4 DEF Record
        <5> QED BY <3>1, <4>1, <4>2, <5>1, <5>2
      <4> QED BY <4>3, <4>4
    <3> QED BY <3>2, <3>3, <3>4 DEF NodeInv
  <2> QED BY <2>2, <2>3
<1>12. ASSUME NEW c \in Conns, ReadFails(c)
      PROVE  NodeInv'
  BY <1>12, NodeFrame DEF ReadFails, Shrinks, Registered
<1>13. ASSUME NEW c \in Conns, Disconnect(c)
      PROVE  NodeInv'
  <2>1. /\ who[c] \in Instances /\ c \in Registered /\ gen[c] > 0
        /\ Registered' = Registered \ {c} /\ UNCHANGED <<generation, gen, who, took>>
        /\ \A d \in Conns : pc'[d] = "record" <=> pc[d] = "record"
        /\ \A d \in Registered : who[d] \in Instances
    BY <1>13, <1>a DEF Disconnect, Registered, LocalInv, GenInv
  <2>2. GenInv'
    BY <2>1, <1>a DEF GenInv
  <2>3. CASE nodes[who[c]].generation # gen[c]
    <3>1. nodes' = nodes
      BY <1>13, <2>3 DEF Disconnect
    <3>2. OwnerInv' /\ NewestInv'
      BY <2>1, <2>3, <3>1, <1>a DEF OwnerInv, NewestInv, Newest
    <3>3. AcceptedIsTaken'
      BY <2>1, <3>1, <1>a DEF AcceptedIsTaken
    <3> QED BY <2>2, <3>2, <3>3 DEF NodeInv
  <2>4. CASE nodes[who[c]].generation = gen[c]
    <3>1. /\ nodes'[who[c]].state = "disconnected"
          /\ \A i \in Instances :
                 /\ i # who[c] => nodes'[i] = nodes[i]
                 /\ nodes'[i].generation = nodes[i].generation
                 /\ nodes'[i].accepted = nodes[i].accepted
      BY <1>13, <2>1, <2>4 DEF Disconnect, Node
    <3>2. OwnerInv'
      <4> SUFFICES ASSUME NEW i \in Instances, nodes'[i].state = "connected"
                   PROVE  /\ nodes'[i].connection \in Registered'
                          /\ nodes'[i].generation = gen'[nodes'[i].connection]
                          /\ who'[nodes'[i].connection] = i
                          /\ Newest(nodes[i].connection)'
        BY DEF OwnerInv
      <4>1. i # who[c] /\ nodes'[i] = nodes[i]
        BY <3>1
      <4> QED BY <2>1, <4>1, <1>a DEF OwnerInv, Newest
    <3>3. NewestInv'
      <4> SUFFICES ASSUME NEW d \in Registered', Newest(d)'
                   PROVE  /\ nodes'[who[d]].state = "connected"
                          /\ nodes'[who[d]].connection = d
                          /\ nodes'[who[d]].generation = gen[d]
        BY <2>1 DEF NewestInv
      <4>1. d \in Registered /\ d # c /\ Newest(d) /\ who[d] \in Instances
        BY <2>1 DEF Newest
      <4>2. nodes[who[d]].generation = gen[d] /\ nodes[who[d]].state = "connected"
            /\ nodes[who[d]].connection = d
        BY <4>1, <1>a DEF NewestInv
      <4>3. who[d] # who[c]
        BY <2>1, <2>4, <4>1, <4>2, <1>a DEF GenInv, Registered
      <4> QED BY <3>1, <4>1, <4>2, <4>3
    <3>4. AcceptedIsTaken'
      <4>1. \A d \in Conns : gen[d] > 0 => who[d] \in Instances
        BY DEF LocalInv
      <4> QED BY <2>1, <3>1, <4>1, <1>a DEF AcceptedIsTaken
    <3> QED BY <2>2, <3>2, <3>3, <3>4 DEF NodeInv
  <2> QED BY <2>3, <2>4
<1>14. ASSUME NEW c \in Conns, Report(c)
      PROVE  NodeInv'
  BY <1>14, NodeFrame DEF Report, Shrinks, Registered
<1>15. ASSUME NEW c \in Conns, UntrackSession(c)
      PROVE  NodeInv'
  BY <1>15, NodeFrame DEF UntrackSession, Shrinks, Registered
<1>16. ASSUME NEW c \in Conns, EndSession(c)
      PROVE  NodeInv'
  BY <1>16, NodeFrame DEF EndSession, Shrinks, Registered
<1>17. ASSUME NEW c \in Conns, CloseNow(c)
      PROVE  NodeInv'
  BY <1>17, NodeFrame DEF CloseNow, Shrinks, Registered
<1>18. ASSUME NEW c \in Conns, LinkLost(c)
      PROVE  NodeInv'
  BY <1>18, NodeFrame DEF LinkLost, Shrinks, Registered
<1>19. CASE Close
  BY <1>19, NodeFrame DEF Close, Shrinks, Registered
<1>20. CASE CloseReturns
  BY <1>20, NodeFrame DEF CloseReturns, Shrinks, Registered
<1>21. CASE Snapshot
  <2>1. Shrinks
    BY <1>21, PrunedShape DEF Snapshot, Shrinks
  <2> QED BY <1>21, <2>1, NodeFrame DEF Snapshot, Registered
<1>22. CASE Tick
  BY <1>22, NodeFrame DEF Tick, Shrinks, Registered
<1>23. CASE UNCHANGED vars
  BY <1>23, NodeFrame DEF vars, Shrinks, Registered
<1> QED BY <1>1, <1>2, <1>3, <1>4, <1>5, <1>6, <1>7, <1>8, <1>9, <1>10, <1>11,
          <1>12, <1>13, <1>14, <1>15, <1>16, <1>17, <1>18, <1>19, <1>20, <1>21,
          <1>22, <1>23 DEF Next, Handler

-----------------------------------------------------------------------------
(***************************************************************************)
(* The bounds of the registry                                              *)
(***************************************************************************)

Known(ns) == {i \in Instances : ns[i].state # "absent"}

\* A node that was removed has no generation.
AbsentInv == \A i \in Instances : nodes[i].state = "absent" => nodes[i].generation = 0

\* That is inductive.
LEMMA AbsentStep ==
    ASSUME TypeOK, LocalInv, NodeInv, AbsentInv, [Next]_vars
    PROVE  AbsentInv'
<1>0. /\ nodes \in [Instances -> Node] /\ now \in Nat
      /\ Absent.generation = 0 /\ Absent.state = "absent"
  BY DEF TypeOK, Absent
<1> USE <1>0 DEF AbsentInv
<1>1. ASSUME NEW c \in Conns, BeginSession(c)
      PROVE  AbsentInv'
  BY <1>1 DEF BeginSession
<1>2. ASSUME NEW c \in Conns, AcceptFails(c)
      PROVE  AbsentInv'
  BY <1>2 DEF AcceptFails
<1>3. ASSUME NEW c \in Conns, TrackSession(c)
      PROVE  AbsentInv'
  BY <1>3 DEF TrackSession
<1>4. ASSUME NEW c \in Conns, NEW i \in Instances, ReadHello(c, i)
      PROVE  AbsentInv'
  BY <1>4 DEF ReadHello
<1>5. ASSUME NEW c \in Conns, HelloFails(c)
      PROVE  AbsentInv'
  BY <1>5 DEF HelloFails
<1>6. ASSUME NEW c \in Conns, Register(c)
      PROVE  AbsentInv'
  <2>1. NewNode(c, generation + 1).state = "connected"
    BY DEF NewNode
  <2> QED BY <1>6, <2>1, RegisterShape DEF Shrinks
<1>7. ASSUME NEW c \in Conns, Announce(c)
      PROVE  AbsentInv'
  BY <1>7 DEF Announce
<1>8. ASSUME NEW c \in Conns, NEW n \in Notes, ReadNote(c, n)
      PROVE  AbsentInv'
  BY <1>8 DEF ReadNote
<1>9. ASSUME NEW c \in Conns, Duplicate(c)
      PROVE  AbsentInv'
  BY <1>9 DEF Duplicate
<1>10. ASSUME NEW c \in Conns, SinkWrite(c)
      PROVE  AbsentInv'
  BY <1>10 DEF SinkWrite
<1>11. ASSUME NEW c \in Conns, Record(c)
      PROVE  AbsentInv'
  <2>1. who[c] \in Instances
    BY <1>11 DEF Record, LocalInv
  <2> QED BY <1>11, <2>1 DEF Record, Node
<1>12. ASSUME NEW c \in Conns, ReadFails(c)
      PROVE  AbsentInv'
  BY <1>12 DEF ReadFails
<1>13. ASSUME NEW c \in Conns, Disconnect(c)
      PROVE  AbsentInv'
  <2>1. who[c] \in Instances
    BY <1>13 DEF Disconnect, LocalInv
  <2> QED BY <1>13, <2>1 DEF Disconnect, Node
<1>14. ASSUME NEW c \in Conns, Report(c)
      PROVE  AbsentInv'
  BY <1>14 DEF Report
<1>15. ASSUME NEW c \in Conns, UntrackSession(c)
      PROVE  AbsentInv'
  BY <1>15 DEF UntrackSession
<1>16. ASSUME NEW c \in Conns, EndSession(c)
      PROVE  AbsentInv'
  BY <1>16 DEF EndSession
<1>17. ASSUME NEW c \in Conns, CloseNow(c)
      PROVE  AbsentInv'
  BY <1>17 DEF CloseNow
<1>18. ASSUME NEW c \in Conns, LinkLost(c)
      PROVE  AbsentInv'
  BY <1>18 DEF LinkLost
<1>19. CASE Close
  BY <1>19 DEF Close
<1>20. CASE CloseReturns
  BY <1>20 DEF CloseReturns
<1>21. CASE Snapshot
  BY <1>21, PrunedShape DEF Snapshot
<1>22. CASE Tick
  BY <1>22 DEF Tick
<1>23. CASE UNCHANGED vars
  BY <1>23 DEF vars
<1> QED BY <1>1, <1>2, <1>3, <1>4, <1>5, <1>6, <1>7, <1>8, <1>9, <1>10, <1>11,
          <1>12, <1>13, <1>14, <1>15, <1>16, <1>17, <1>18, <1>19, <1>20, <1>21,
          <1>22, <1>23 DEF Next, Handler

\* Sets of identities are finite, and smaller sets have fewer of them.
LEMMA InstanceSets ==
    ASSUME NEW S \in SUBSET Instances, NEW T \in SUBSET S
    PROVE  /\ IsFiniteSet(S) /\ Cardinality(S) \in Nat /\ Cardinality(T) \in Nat
           /\ Cardinality(T) <= Cardinality(S)
  BY InstancesAssumption, FS_Subset, FS_CardinalityType

\* Pruning respects RecentCapacity when the connected nodes alone do, and
\* leaves the connected nodes alone.
LEMMA PrunedBound ==
    ASSUME NEW ns \in [Instances -> Node], NEW t \in Nat, NEW p \in Pruned(ns, t),
           Cardinality(InState(ns, "connected")) <= RecentCapacity
    PROVE  /\ Cardinality(Known(p)) <= RecentCapacity
           /\ InState(p, "connected") = InState(ns, "connected")
<1>1. PICK keep \in SUBSET Fresh(ns, t) :
        /\ Keeps(ns, t, keep)
        /\ p = [i \in Instances |-> IF i \in keep THEN ns[i] ELSE Absent]
  BY DEF Pruned
<1>2. keep \subseteq Instances /\ Known(p) \subseteq keep
  BY <1>1 DEF Fresh, InState, Known, Absent
<1>3. Cardinality(keep) <= RecentCapacity
  BY <1>1 DEF Keeps
<1>4. Cardinality(Known(p)) <= RecentCapacity
  BY <1>2, <1>3, InstanceSets, LimitsAssumption
<1>5. InState(p, "connected") = InState(ns, "connected")
  BY <1>1, <1>2 DEF Keeps, InState, Absent
<1> QED BY <1>4, <1>5

\* The bounds are inductive.
LEMMA BoundStep ==
    ASSUME TypeInv, NodeInv, AbsentInv, RegistryBound, [Next]_vars, TypeInv'
    PROVE  RegistryBound'
<1>0. /\ nodes \in [Instances -> Node] /\ now \in Nat /\ generation \in Nat
      /\ nodes' \in [Instances -> Node]
      /\ sessionCount \in Nat /\ MaximumConnections \in Nat /\ RecentCapacity \in Nat
      /\ MaximumConnections <= RecentCapacity
      /\ sessionCount' = Cardinality(Running')
  BY LimitsAssumption DEF TypeInv, TypeOK, CountInv
<1>a. /\ Cardinality(InState(nodes, "connected")) <= MaximumConnections
      /\ Cardinality(Known(nodes)) <= RecentCapacity
      /\ sessionCount <= 2 * MaximumConnections
      /\ Cardinality(InState(nodes, "connected")) \in Nat
  BY InstanceSets DEF RegistryBound, Known, InState
<1>b. ASSUME Cardinality(InState(nodes', "connected")) <= MaximumConnections,
             Cardinality(Known(nodes')) <= RecentCapacity,
             sessionCount' <= 2 * MaximumConnections
      PROVE  RegistryBound'
  BY <1>0, <1>b DEF RegistryBound, Known, InState, Running
<1> USE <1>0, <1>a
<1>1. ASSUME NEW c \in Conns, BeginSession(c)
      PROVE  RegistryBound'
  BY <1>1, <1>b DEF BeginSession
<1>2. ASSUME NEW c \in Conns, AcceptFails(c)
      PROVE  RegistryBound'
  BY <1>2, <1>b DEF AcceptFails
<1>3. ASSUME NEW c \in Conns, TrackSession(c)
      PROVE  RegistryBound'
  BY <1>3, <1>b DEF TrackSession
<1>4. ASSUME NEW c \in Conns, NEW i \in Instances, ReadHello(c, i)
      PROVE  RegistryBound'
  BY <1>4, <1>b DEF ReadHello
<1>5. ASSUME NEW c \in Conns, HelloFails(c)
      PROVE  RegistryBound'
  BY <1>5, <1>b DEF HelloFails
<1>6. ASSUME NEW c \in Conns, Register(c)
      PROVE  RegistryBound'
  <2>1. PICK ns \in Pruned(nodes, now) :
          \/ nodes' = ns
          \/ /\ ~(Cardinality(Others(ns, who[c])) >= MaximumConnections)
             /\ nodes' \in Pruned([ns EXCEPT ![who[c]] = NewNode(c, generation + 1)], now)
    BY <1>6 DEF Register
  <2>2. /\ ns \in [Instances -> Node]
        /\ Cardinality(Known(ns)) <= RecentCapacity
        /\ InState(ns, "connected") = InState(nodes, "connected")
    BY PrunedShape, PrunedBound
  <2>3. sessionCount' = sessionCount /\ who[c] \in Instances
    BY <1>6 DEF Register, TypeInv, LocalInv
  <2>4. CASE nodes' = ns
    BY <1>b, <2>2, <2>3, <2>4
  <2>5. CASE /\ ~(Cardinality(Others(ns, who[c])) >= MaximumConnections)
             /\ nodes' \in Pruned([ns EXCEPT ![who[c]] = NewNode(c, generation + 1)], now)
    <3> DEFINE with == [ns EXCEPT ![who[c]] = NewNode(c, generation + 1)]
    <3>1. with \in [Instances -> Node] /\ nodes' \in Pruned(with, now)
      <4>1. NewNode(c, generation + 1) \in Node
        BY DEF NewNode, Node
      <4> QED BY <2>2, <2>3, <2>5, <4>1
    <3>2. InState(with, "connected") = Others(ns, who[c]) \cup {who[c]}
      BY <2>2, <2>3 DEF InState, Others, NewNode
    <3>3. Others(ns, who[c]) \subseteq Instances /\ who[c] \notin Others(ns, who[c])
      BY DEF Others, InState
    <3>4. /\ IsFiniteSet(Others(ns, who[c])) /\ Cardinality(Others(ns, who[c])) \in Nat
          /\ Cardinality(Others(ns, who[c]) \cup {who[c]}) = Cardinality(Others(ns, who[c])) + 1
      BY <3>3, InstanceSets, FS_AddElement
    <3> HIDE DEF with
    <3>5. /\ Cardinality(InState(with, "connected")) <= MaximumConnections
          /\ Cardinality(InState(with, "connected")) \in Nat
      <4>1. Cardinality(Others(ns, who[c])) + 1 <= MaximumConnections
        BY <2>5, <3>4
      <4>2. Cardinality(InState(with, "connected")) = Cardinality(Others(ns, who[c])) + 1
        BY <3>2, <3>4, Zenon
      <4> QED BY <3>4, <4>1, <4>2
    <3>6. /\ Cardinality(Known(nodes')) <= RecentCapacity
          /\ InState(nodes', "connected") = InState(with, "connected")
      <4>1. Cardinality(InState(with, "connected")) <= RecentCapacity
        BY <3>5
      <4> QED BY <3>1, <4>1, PrunedBound
    <3> QED BY <1>b, <2>3, <3>5, <3>6
  <2> QED BY <2>1, <2>4, <2>5
<1>7. ASSUME NEW c \in Conns, Announce(c)
      PROVE  RegistryBound'
  BY <1>7, <1>b DEF Announce
<1>8. ASSUME NEW c \in Conns, NEW n \in Notes, ReadNote(c, n)
      PROVE  RegistryBound'
  BY <1>8, <1>b DEF ReadNote
<1>9. ASSUME NEW c \in Conns, Duplicate(c)
      PROVE  RegistryBound'
  BY <1>9, <1>b DEF Duplicate
<1>10. ASSUME NEW c \in Conns, SinkWrite(c)
      PROVE  RegistryBound'
  BY <1>10, <1>b DEF SinkWrite
<1>11. ASSUME NEW c \in Conns, Record(c)
      PROVE  RegistryBound'
  <2>1. \A i \in Instances : nodes'[i].state = nodes[i].state
    BY <1>11 DEF Record, TypeInv, LocalInv, Node
  <2>2. InState(nodes', "connected") = InState(nodes, "connected") /\ Known(nodes') = Known(nodes)
    BY <2>1 DEF InState, Known
  <2> QED BY <1>11, <1>b, <2>2 DEF Record
<1>12. ASSUME NEW c \in Conns, ReadFails(c)
      PROVE  RegistryBound'
  BY <1>12, <1>b DEF ReadFails
<1>13. ASSUME NEW c \in Conns, Disconnect(c)
      PROVE  RegistryBound'
  <2>1. \A i \in Instances : \/ nodes'[i].state = nodes[i].state
                             \/ nodes'[i].state = "disconnected" /\ nodes[i].state # "absent"
    <3>1. who[c] \in Instances /\ gen[c] > 0
      BY <1>13 DEF Disconnect, TypeInv, LocalInv, NodeInv, GenInv, Registered
    <3>2. nodes[who[c]].generation = gen[c] => nodes[who[c]].state # "absent"
      BY <3>1 DEF AbsentInv
    <3> QED BY <1>13, <3>1, <3>2 DEF Disconnect, Node
  <2>2. /\ InState(nodes', "connected") \subseteq InState(nodes, "connected")
        /\ InState(nodes, "connected") \subseteq Instances
        /\ Known(nodes') = Known(nodes)
    BY <2>1 DEF InState, Known
  <2>3. /\ Cardinality(InState(nodes', "connected")) \in Nat
        /\ Cardinality(InState(nodes', "connected")) <= Cardinality(InState(nodes, "connected"))
    BY <2>2, InstanceSets
  <2> QED BY <1>13, <1>b, <2>2, <2>3 DEF Disconnect
<1>14. ASSUME NEW c \in Conns, Report(c)
      PROVE  RegistryBound'
  BY <1>14, <1>b DEF Report
<1>15. ASSUME NEW c \in Conns, UntrackSession(c)
      PROVE  RegistryBound'
  BY <1>15, <1>b DEF UntrackSession
<1>16. ASSUME NEW c \in Conns, EndSession(c)
      PROVE  RegistryBound'
  BY <1>16, <1>b DEF EndSession
<1>17. ASSUME NEW c \in Conns, CloseNow(c)
      PROVE  RegistryBound'
  BY <1>17, <1>b DEF CloseNow
<1>18. ASSUME NEW c \in Conns, LinkLost(c)
      PROVE  RegistryBound'
  BY <1>18, <1>b DEF LinkLost
<1>19. CASE Close
  BY <1>19, <1>b DEF Close
<1>20. CASE CloseReturns
  BY <1>20, <1>b DEF CloseReturns
<1>21. CASE Snapshot
  <2>1. /\ Cardinality(Known(nodes')) <= RecentCapacity
        /\ InState(nodes', "connected") = InState(nodes, "connected")
    BY <1>21, PrunedBound DEF Snapshot
  <2> QED BY <1>21, <1>b, <2>1 DEF Snapshot
<1>22. CASE Tick
  BY <1>22, <1>b DEF Tick
<1>23. CASE UNCHANGED vars
  BY <1>23, <1>b DEF vars
<1> QED BY <1>1, <1>2, <1>3, <1>4, <1>5, <1>6, <1>7, <1>8, <1>9, <1>10, <1>11,
          <1>12, <1>13, <1>14, <1>15, <1>16, <1>17, <1>18, <1>19, <1>20, <1>21,
          <1>22, <1>23 DEF Next, Handler

-----------------------------------------------------------------------------
(***************************************************************************)
(* The inductive invariant and the theorems                                *)
(***************************************************************************)

Inv == Inv1 /\ SessionInv /\ NodeInv /\ AbsentInv /\ RegistryBound

\* It holds in a new host.
LEMMA InvInit == Init => Inv
<1> SUFFICES ASSUME Init PROVE Inv
  OBVIOUS
<1>1. Inv1
  BY Inv1Init
<1>2. /\ \A c \in Conns : pc[c] = "none" /\ gen[c] = 0
      /\ \A i \in Instances : nodes[i].state = "absent" /\ nodes[i].generation = 0
  BY DEF Init, Absent
<1>3. /\ Running = {} /\ Registered = {} /\ InState(nodes, "connected") = {}
      /\ Known(nodes) = {}
  BY <1>2 DEF Running, Registered, InState, Known
<1>4. SessionInv
  BY <1>2, <1>3 DEF Init, SessionInv, CloseReachesAll
<1>5. NodeInv
  BY <1>2, <1>3 DEF Init, NodeInv, GenInv, OwnerInv, NewestInv, AcceptedIsTaken
<1>6. AbsentInv
  BY <1>2 DEF AbsentInv
<1>7. RegistryBound
  <2>1. /\ Cardinality(Running) = 0 /\ Cardinality(Known(nodes)) = 0
        /\ Cardinality(InState(nodes, "connected")) = 0
    BY <1>3, FS_EmptySet
  <2>2. sessionCount = 0
    BY DEF Init
  <2> QED BY <2>1, <2>2, LimitsAssumption DEF RegistryBound, Known
<1> QED BY <1>1, <1>4, <1>5, <1>6, <1>7 DEF Inv

\* Every step keeps it.
LEMMA InvStep == Inv /\ [Next]_vars => Inv'
<1> SUFFICES ASSUME Inv, [Next]_vars PROVE Inv'
  OBVIOUS
<1>1. Inv1 /\ SessionInv /\ NodeInv /\ AbsentInv /\ RegistryBound /\ TypeInv
  BY DEF Inv, Inv1
<1>2. Inv1'
  BY <1>1, Inv1Step
<1>3. TypeOK /\ LocalInv
  BY <1>1 DEF TypeInv
<1>4. SessionInv'
  BY <1>1, <1>3, SessionStep
<1>5. NodeInv'
  BY <1>1, <1>3, NodeStep
<1>6. AbsentInv'
  BY <1>1, <1>3, AbsentStep
<1>7. RegistryBound'
  BY <1>1, <1>2, BoundStep DEF Inv1
<1> QED BY <1>2, <1>4, <1>5, <1>6, <1>7 DEF Inv

\* Hence it always holds.
LEMMA InvAlways == Spec => []Inv
<1> QED BY InvInit, InvStep, PTL DEF Spec

\* Type correctness of the host, the capacity of the duplicate cache included.
THEOREM TypeCorrect == Spec => []TypeOK
<1>1. Inv => TypeOK
  BY DEF Inv, Inv1, TypeInv
<1> QED BY <1>1, InvAlways, PTL

\* A node is connected exactly as long as the newest registered handler of its
\* identity runs, however disconnects of replaced sessions and registrations
\* interleave.
THEOREM NodesFollowNewest == Spec => []NodeFollowsNewest
<1>1. Inv => NodeFollowsNewest
  <2> SUFFICES ASSUME Inv, NEW i \in Instances, NEW c \in Conns
      PROVE (nodes[i].state = "connected" /\ nodes[i].connection = c
                /\ nodes[i].generation = gen[c])
              <=> (c \in Registered /\ who[c] = i /\ Newest(c))
    BY DEF NodeFollowsNewest
  <2>1. OwnerInv /\ NewestInv
    BY DEF Inv, NodeInv
  <2> QED BY <2>1 DEF OwnerInv, NewestInv
<1> QED BY <1>1, InvAlways, PTL

\* register and pruneNodesLocked keep the connected nodes within
\* MaximumConnections and the known ones within RecentCapacity; beginSession
\* keeps the sessions within twice MaximumConnections.
THEOREM RegistryBounded == Spec => []RegistryBound
<1>1. Inv => RegistryBound
  BY DEF Inv
<1> QED BY <1>1, InvAlways, PTL

\* record counts a note for the session it came from or not at all.
THEOREM AcceptedAreTaken == Spec => []AcceptedIsTaken
<1>1. Inv => AcceptedIsTaken
  BY DEF Inv, NodeInv
<1> QED BY <1>1, InvAlways, PTL

\* Close reaches every session that still reads from its connection.
THEOREM CloseReachesSessions == Spec => []CloseReachesAll
<1>1. Inv => CloseReachesAll
  BY DEF Inv, SessionInv
<1> QED BY <1>1, InvAlways, PTL

\* Map and order of the duplicate cache agree.
THEOREM CacheIsIndexed == Spec => []DuplicatesIndexed
<1>1. Inv => DuplicatesIndexed
  BY DEF Inv, Inv1, CacheInv
<1> QED BY <1>1, InvAlways, PTL

\* duplicate lets an ID pass again only after DuplicateCapacity others or when
\* RecentTTL has passed, whatever clock readings its callers bring.
THEOREM RepeatsSuppressed == Spec => []DuplicatesSuppressed
<1>1. Inv => DuplicatesSuppressed
  BY DEF Inv, Inv1, CacheInv
<1> QED BY <1>1, InvAlways, PTL

\* After Close has returned no handler takes a step and no node is connected.
THEOREM QuietOnceClosed == Spec => QuietAfterClose
<1>1. ASSUME Inv, Inv', [Next]_vars, closer = "closed"
      PROVE  /\ UNCHANGED <<pc, took, admitted, sessions, sessionCount>>
             /\ InState(nodes', "connected") = {}
  <2>1. \A c \in Conns : pc[c] \in {"none", "done"}
    BY <1>1 DEF Inv, SessionInv, Running
  <2>2. \A c \in Conns : ~Handler(c)
    <3> SUFFICES ASSUME NEW c \in Conns, Handler(c) PROVE FALSE
      OBVIOUS
    <3>1. pc[c] \in {"none", "done"}
      BY <2>1
    <3> QED BY <3>1, <1>1 DEF Handler, BeginSession, AcceptFails, TrackSession, ReadHello,
                HelloFails, Register, Announce, ReadNote, Duplicate, SinkWrite, Record,
                ReadFails, Disconnect, Report, UntrackSession, EndSession, closing
  <2>3. \/ \E c \in Conns : CloseNow(c) \/ LinkLost(c)
        \/ Close \/ CloseReturns \/ Snapshot \/ Tick \/ UNCHANGED vars
    BY <1>1, <2>2 DEF Next
  <2>4. UNCHANGED <<pc, took, admitted, sessions, sessionCount>>
    BY <2>3 DEF CloseNow, LinkLost, Close, CloseReturns, Snapshot, Tick, vars,
                handlerVars, cacheVars
  <2>5. Registered' = {}
    BY <2>1, <2>4 DEF Registered
  <2>6. \A i \in Instances : nodes'[i].state # "connected"
    BY <1>1, <2>5 DEF Inv, NodeInv, OwnerInv
  <2> QED BY <2>4, <2>6 DEF InState
<1>2. Inv /\ Inv' /\ [Next]_vars =>
        [closer = "closed" =>
            /\ UNCHANGED <<pc, took, admitted, sessions, sessionCount>>
            /\ InState(nodes', "connected") = {}]_vars
  BY <1>1
<1> QED BY <1>2, InvAlways, PTL DEF Spec, QuietAfterClose

\* register, disconnect, record, pruneNodesLocked and Close keep the registry of
\* the host sound, for any edges, connections and limits.
THEOREM RegistryStaysSound == Spec => []RegistrySound
<1>1. TypeOK /\ NodeFollowsNewest /\ RegistryBound /\ AcceptedIsTaken /\ CloseReachesAll
        => RegistrySound
  BY DEF RegistrySound
<1> QED BY <1>1, TypeCorrect, NodesFollowNewest, RegistryBounded, AcceptedAreTaken,
           CloseReachesSessions, PTL

\* duplicate and pruneDuplicatesLocked keep map and order in agreement and
\* suppress repeated notes, for any capacity and TTL.
THEOREM CacheStaysSound == Spec => []CacheSound
<1>1. DuplicatesIndexed /\ DuplicatesSuppressed => CacheSound
  BY DEF CacheSound
<1> QED BY <1>1, CacheIsIndexed, RepeatsSuppressed, PTL
=============================================================================
