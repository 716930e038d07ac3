------------------------------ MODULE PeerHost ------------------------------
(***************************************************************************)
(* peer.Host: one handler goroutine per edge WebSocket, the registry of    *)
(* current and recently seen edges, the duplicate cache and Close.         *)
(*                                                                         *)
(* A connection is used once, so a handler is named by its connection.     *)
(* Every section under Host.mu is one step, and so is every call between   *)
(* two of them that others can observe: reading a frame, Sink.Write,       *)
(* CloseNow and the calls of the connection observer.                      *)
(*                                                                         *)
(* Left out: what a node shows besides its state and its accepted total    *)
(* (addresses, times of activity, rates, channels, the other totals), the  *)
(* checks before the upgrade, and the notes refused for their origin or    *)
(* age, which change nothing but those totals.                             *)
(***************************************************************************)
EXTENDS Integers, Sequences, FiniteSets

CONSTANTS
    Instances,              \* identities of edges
    Conns,                  \* WebSocket connections
    Notes,                  \* event IDs
    NoConn,                 \* nil *websocket.Conn
    NoInstance,             \* before the hello
    MaximumConnections,     \* HostConfig.MaximumConnections
    RecentCapacity,         \* HostConfig.RecentCapacity
    RecentTTL,              \* HostConfig.RecentTTL
    DuplicateCapacity,      \* HostConfig.DuplicateCapacity
    MaxTime,                \* bound: the clock
    MaxAdmitted             \* bound: notes that pass the duplicate check

\* NewHost rejects other values.
ASSUME LimitsAssumption ==
    /\ MaximumConnections \in Nat \ {0}
    /\ RecentCapacity \in Nat /\ RecentCapacity >= MaximumConnections
    /\ RecentTTL \in Nat \ {0} /\ DuplicateCapacity \in Nat \ {0}

ASSUME ConnsAssumption == NoConn \notin Conns /\ IsFiniteSet(Conns)

ASSUME InstancesAssumption == NoInstance \notin Instances /\ IsFiniteSet(Instances)

\* The bounds of the model.
ASSUME BoundsAssumption == MaxTime \in Nat /\ MaxAdmitted \in Nat

VARIABLES
    now,            \* HostConfig.Now
    closer,         \* Close: not called, closing connections, or returned
    toClose,        \* the connections it has yet to close
    sessionCount,   \* Host.sessionCount
    sessions,       \* Host.sessions
    nodes,          \* Host.nodes
    generation,     \* Host.generation
    duplicates,     \* Host.duplicates
    dupOrder,       \* Host.dupOrder
    inbound,        \* PeerObserver.inbound, the gauge of connected edges
    pc,             \* where the handler of each connection is
    up,             \* the connections that neither side has ended
    who,            \* hello.InstanceID, from the hello on
    gen,            \* the generation register returned
    replaced,       \* the connection register returned
    note,           \* the key of the note being accepted
    at,             \* the clock as acceptNote read it
    took,           \* history: notes of each connection the sink accepted
    admitted        \* history: notes that passed the duplicate check

handlerVars == <<who, gen, replaced, note, at, took>>
cacheVars == <<duplicates, dupOrder, admitted>>
closeVars == <<closer, toClose>>
vars == <<now, closeVars, sessionCount, sessions, nodes, generation, cacheVars,
          inbound, pc, up, handlerVars>>

\* event.Origin and event.ID; acceptNote refuses a foreign origin.
Keys == Instances \X Notes

\* The time of an event ID that is not in Host.duplicates.
Never == -1

\* No hostNode.
Absent == [state |-> "absent", generation |-> 0, connection |-> NoConn,
           disconnectedAt |-> 0, accepted |-> 0]

InState(ns, s) == {i \in Instances : ns[i].state = s}

\* A session, from beginSession to endSession, is counted by sessionWG.
Running == {c \in Conns : pc[c] \notin {"none", "done"}}

\* The handlers between register and disconnect.
Registered ==
    {c \in Conns : pc[c] \in {"announce", "open", "note", "write", "record", "disconnect"}}

closing == closer # "open"

Init ==
    /\ now = 0
    /\ closer = "open" /\ toClose = {}
    /\ sessionCount = 0 /\ sessions = {}
    /\ nodes = [i \in Instances |-> Absent] /\ generation = 0
    /\ duplicates = [k \in Keys |-> Never] /\ dupOrder = <<>> /\ admitted = <<>>
    /\ inbound = 0
    /\ pc = [c \in Conns |-> "none"] /\ up = Conns
    /\ who = [c \in Conns |-> NoInstance]
    /\ gen = [c \in Conns |-> 0] /\ replaced = [c \in Conns |-> NoConn]
    /\ note = [c \in Conns |-> <<>>] /\ at = [c \in Conns |-> 0]
    /\ took = [c \in Conns |-> 0]

Goto(c, step) == pc' = [pc EXCEPT ![c] = step]

-----------------------------------------------------------------------------
(***************************************************************************)
(* Sessions                                                                *)
(***************************************************************************)

\* beginSession; a request it refuses is answered and leaves no trace.
BeginSession(c) ==
    /\ pc[c] = "none"
    /\ ~closing /\ sessionCount < MaximumConnections * 2
    /\ sessionCount' = sessionCount + 1
    /\ Goto(c, "accept")
    /\ UNCHANGED <<now, closeVars, sessions, nodes, generation, cacheVars, inbound,
                   up, handlerVars>>

\* websocket.Accept fails.
AcceptFails(c) ==
    /\ pc[c] = "accept"
    /\ Goto(c, "end")
    /\ UNCHANGED <<now, closeVars, sessionCount, sessions, nodes, generation,
                   cacheVars, inbound, up, handlerVars>>

\* trackSession; once the host is closing it fails, and the handler closes
\* the connection itself.
TrackSession(c) ==
    /\ pc[c] = "accept"
    /\ IF closing
       THEN Goto(c, "end") /\ up' = up \ {c} /\ UNCHANGED sessions
       ELSE Goto(c, "hello") /\ sessions' = sessions \cup {c} /\ UNCHANGED up
    /\ UNCHANGED <<now, closeVars, sessionCount, nodes, generation, cacheVars,
                   inbound, handlerVars>>

\* A valid hello of another identity and of this mapping version is read.
ReadHello(c, i) ==
    /\ pc[c] = "hello" /\ c \in up
    /\ who' = [who EXCEPT ![c] = i]
    /\ Goto(c, "register")
    /\ UNCHANGED <<now, closeVars, sessionCount, sessions, nodes, generation,
                   cacheVars, inbound, up, gen, replaced, note, at, took>>

\* No hello in time, or one that is refused.
HelloFails(c) ==
    /\ pc[c] = "hello"
    /\ Goto(c, "untrack")
    /\ UNCHANGED <<now, closeVars, sessionCount, sessions, nodes, generation,
                   cacheVars, inbound, up, handlerVars>>

\* The deferred untrackSession and CloseNow.
UntrackSession(c) ==
    /\ pc[c] = "untrack"
    /\ sessions' = sessions \ {c}
    /\ up' = up \ {c}
    /\ Goto(c, "end")
    /\ UNCHANGED <<now, closeVars, sessionCount, nodes, generation, cacheVars,
                   inbound, handlerVars>>

EndSession(c) ==
    /\ pc[c] = "end"
    /\ sessionCount' = sessionCount - 1
    /\ Goto(c, "done")
    /\ UNCHANGED <<now, closeVars, sessions, nodes, generation, cacheVars, inbound,
                   up, handlerVars>>

-----------------------------------------------------------------------------
(***************************************************************************)
(* The registry of nodes                                                   *)
(***************************************************************************)

\* The nodes pruneNodesLocked does not find expired.
Fresh(ns, t) ==
    InState(ns, "connected") \cup
    {i \in InState(ns, "disconnected") : ns[i].disconnectedAt + RecentTTL >= t}

\* The loop over the disconnected nodes ends at the capacity or with the last
\* of them, and does not start unless there are too many nodes.
Keeps(ns, t, s) ==
    /\ InState(ns, "connected") \subseteq s
    /\ Cardinality(s) <= RecentCapacity \/ s = InState(ns, "connected")
    /\ Cardinality(s) >= RecentCapacity \/ s = Fresh(ns, t)

\* The outcomes of pruneNodesLocked: the nodes that have been disconnected
\* longest go first, in any order among equals.
Pruned(ns, t) ==
    {[i \in Instances |-> IF i \in keep THEN ns[i] ELSE Absent] :
        keep \in {s \in SUBSET Fresh(ns, t) :
            /\ Keeps(ns, t, s)
            /\ \A k \in s \ InState(ns, "connected"), d \in Fresh(ns, t) \ s :
                   ns[d].disconnectedAt <= ns[k].disconnectedAt}}

\* The other identities that count against MaximumConnections.
Others(ns, i) == InState(ns, "connected") \ {i}

NewNode(c, g) == [state |-> "connected", generation |-> g, connection |-> c,
                  disconnectedAt |-> 0, accepted |-> 0]

\* register: a new generation for the identity, or no room.
Register(c) ==
    /\ pc[c] = "register"
    /\ \E ns \in Pruned(nodes, now) :
        IF Cardinality(Others(ns, who[c])) >= MaximumConnections
        THEN /\ nodes' = ns
             /\ Goto(c, "untrack")
             /\ UNCHANGED <<generation, gen, replaced>>
        ELSE /\ generation' = generation + 1
             /\ nodes' \in Pruned([ns EXCEPT ![who[c]] = NewNode(c, generation + 1)], now)
             /\ gen' = [gen EXCEPT ![c] = generation + 1]
             /\ replaced' = [replaced EXCEPT ![c] = ns[who[c]].connection]
             /\ Goto(c, "announce")
    /\ UNCHANGED <<now, closeVars, sessionCount, sessions, cacheVars, inbound, up,
                   who, note, at, took>>

\* The replaced connection is closed, or the observer is told of a new edge.
Announce(c) ==
    /\ pc[c] = "announce"
    /\ replaced' = [replaced EXCEPT ![c] = NoConn]
    /\ IF replaced[c] # NoConn
       THEN up' = up \ {replaced[c]} /\ UNCHANGED inbound
       ELSE inbound' = inbound + 1 /\ UNCHANGED up
    /\ Goto(c, "open")
    /\ UNCHANGED <<now, closeVars, sessionCount, sessions, nodes, generation,
                   cacheVars, who, gen, note, at, took>>

\* Mutant: reads have no time limit and miss that the edge is gone.
ReadFailsUp(c) ==
    /\ pc[c] = "open" /\ c \in up
    /\ Goto(c, "disconnect")
    /\ UNCHANGED <<now, closeVars, sessionCount, sessions, nodes, generation,
                   cacheVars, inbound, up, handlerVars>>

\* The hello of the host or a pong cannot be written, or the read loop ends:
\* the connection is gone, idle for too long, or sent something invalid.
ReadFails(c) ==
    /\ pc[c] = "open"
    /\ Goto(c, "disconnect")
    /\ UNCHANGED <<now, closeVars, sessionCount, sessions, nodes, generation,
                   cacheVars, inbound, up, handlerVars>>

\* Mutant: the generation is not compared.
DisconnectAny(c) ==
    /\ pc[c] = "disconnect"
    /\ nodes' = [nodes EXCEPT ![who[c]].state = "disconnected",
                              ![who[c]].connection = NoConn,
                              ![who[c]].disconnectedAt = now]
    /\ Goto(c, "report")
    /\ UNCHANGED <<now, closeVars, sessionCount, sessions, generation, cacheVars,
                   inbound, up, handlerVars>>

\* disconnect under the lock: only the generation of this handler is marked.
Disconnect(c) ==
    /\ pc[c] = "disconnect"
    /\ IF nodes[who[c]].generation = gen[c]
       THEN /\ nodes' = [nodes EXCEPT ![who[c]].state = "disconnected",
                                      ![who[c]].connection = NoConn,
                                      ![who[c]].disconnectedAt = now]
            /\ Goto(c, "report")
       ELSE Goto(c, "untrack") /\ UNCHANGED nodes
    /\ UNCHANGED <<now, closeVars, sessionCount, sessions, generation, cacheVars,
                   inbound, up, handlerVars>>

\* PeerObserver.Connection counts down, but not below zero.
OneLess(n) == IF n > 0 THEN n - 1 ELSE 0

\* disconnect after the lock: the observer is told.
Report(c) ==
    /\ pc[c] = "report"
    /\ inbound' = OneLess(inbound)
    /\ Goto(c, "untrack")
    /\ UNCHANGED <<now, closeVars, sessionCount, sessions, nodes, generation,
                   cacheVars, up, handlerVars>>

\* Snapshot prunes before it copies.
Snapshot ==
    /\ nodes' \in Pruned(nodes, now)
    /\ UNCHANGED <<now, closeVars, sessionCount, sessions, generation, cacheVars,
                   inbound, pc, up, handlerVars>>

-----------------------------------------------------------------------------
(***************************************************************************)
(* acceptNote                                                              *)
(***************************************************************************)

\* A note of the right origin and age is read, and the clock with it.
ReadNote(c, n) ==
    /\ pc[c] = "open" /\ c \in up /\ Len(admitted) < MaxAdmitted
    /\ note' = [note EXCEPT ![c] = <<who[c], n>>]
    /\ at' = [at EXCEPT ![c] = now]
    /\ Goto(c, "note")
    /\ UNCHANGED <<now, closeVars, sessionCount, sessions, nodes, generation,
                   cacheVars, inbound, up, who, gen, replaced, took>>

\* Host.duplicates without the first k entries of the order.
Forget(index, order, k) ==
    [key \in Keys |-> IF \E j \in 1..k : order[j] = [id |-> key, time |-> index[key]]
                      THEN Never ELSE index[key]]

Behind(order, k) == SubSeq(order, k + 1, Len(order))

\* pruneDuplicatesLocked removes the first k entries at time t.
Expires(order, t, k) ==
    /\ \A j \in 1..k : order[j].time + RecentTTL < t
    /\ k < Len(order) => order[k + 1].time + RecentTTL >= t

\* Mutant: one entry too few is kept.
SurplusEarly(order) ==
    IF Len(order) >= DuplicateCapacity THEN Len(order) + 1 - DuplicateCapacity ELSE 0

\* How many the loop over DuplicateCapacity removes.
Surplus(order) ==
    IF Len(order) > DuplicateCapacity THEN Len(order) - DuplicateCapacity ELSE 0

\* duplicate, with a clock reading taken before the lock.
Duplicate(c) ==
    /\ pc[c] = "note"
    /\ \E old \in 0..Len(dupOrder) :
        LET order == Behind(dupOrder, old)
            index == Forget(duplicates, dupOrder, old)
            longer == Append(order, [id |-> note[c], time |-> at[c]])
        IN /\ Expires(dupOrder, at[c], old)
           /\ IF index[note[c]] # Never
              THEN /\ duplicates' = index /\ dupOrder' = order
                   /\ Goto(c, "open")
                   /\ UNCHANGED admitted
              ELSE /\ duplicates' = Forget([index EXCEPT ![note[c]] = at[c]],
                                           longer, Surplus(longer))
                   /\ dupOrder' = Behind(longer, Surplus(longer))
                   /\ admitted' = Append(admitted,
                                   [id |-> note[c], time |-> at[c], done |-> now])
                   /\ Goto(c, "write")
    /\ note' = [note EXCEPT ![c] = <<>>] /\ at' = [at EXCEPT ![c] = 0]
    /\ UNCHANGED <<now, closeVars, sessionCount, sessions, nodes, generation,
                   inbound, up, who, gen, replaced, took>>

\* Sink.Write accepts the note or not.
SinkWrite(c) ==
    /\ pc[c] = "write"
    /\ \/ Goto(c, "record") /\ took' = [took EXCEPT ![c] = @ + 1]
       \/ Goto(c, "open") /\ UNCHANGED took
    /\ UNCHANGED <<now, closeVars, sessionCount, sessions, nodes, generation,
                   cacheVars, inbound, up, who, gen, replaced, note, at>>

\* record of an accepted note: nothing unless the node is of this generation.
Record(c) ==
    /\ pc[c] = "record"
    /\ nodes' = IF nodes[who[c]].generation = gen[c]
                THEN [nodes EXCEPT ![who[c]].accepted = @ + 1] ELSE nodes
    /\ Goto(c, "open")
    /\ UNCHANGED <<now, closeVars, sessionCount, sessions, generation, cacheVars,
                   inbound, up, handlerVars>>

-----------------------------------------------------------------------------
(***************************************************************************)
(* Close                                                                   *)
(***************************************************************************)

\* closing is set and the sessions are copied, under the lock.
Close ==
    /\ ~closing
    /\ closer' = "closing" /\ toClose' = sessions
    /\ UNCHANGED <<now, sessionCount, sessions, nodes, generation, cacheVars,
                   inbound, pc, up, handlerVars>>

CloseNow(c) ==
    /\ c \in toClose
    /\ toClose' = toClose \ {c}
    /\ up' = up \ {c}
    /\ UNCHANGED <<now, closer, sessionCount, sessions, nodes, generation,
                   cacheVars, inbound, pc, handlerVars>>

\* Mutant: Close waits until no edge is listed any more.
CloseReturnsUnlisted ==
    /\ closer = "closing" /\ toClose = {} /\ Running = {}
    /\ InState(nodes, "disconnected") = {}
    /\ closer' = "closed"
    /\ UNCHANGED <<now, toClose, sessionCount, sessions, nodes, generation,
                   cacheVars, inbound, pc, up, handlerVars>>

\* sessionWG.Wait ends.
CloseReturns ==
    /\ closer = "closing" /\ toClose = {} /\ Running = {}
    /\ closer' = "closed"
    /\ UNCHANGED <<now, toClose, sessionCount, sessions, nodes, generation,
                   cacheVars, inbound, pc, up, handlerVars>>

-----------------------------------------------------------------------------
(***************************************************************************)
(* The environment                                                         *)
(***************************************************************************)

\* The edge or the network ends a connection; the handler can tell only when
\* it reads.
LinkLost(c) ==
    /\ c \in up /\ pc[c] \in {"hello", "open"}
    /\ up' = up \ {c}
    /\ UNCHANGED <<now, closeVars, sessionCount, sessions, nodes, generation,
                   cacheVars, inbound, pc, handlerVars>>

Tick ==
    /\ now < MaxTime
    /\ now' = now + 1
    /\ UNCHANGED <<closeVars, sessionCount, sessions, nodes, generation, cacheVars,
                   inbound, pc, up, handlerVars>>

-----------------------------------------------------------------------------

Handler(c) ==
    \/ BeginSession(c) \/ AcceptFails(c) \/ TrackSession(c)
    \/ (\E i \in Instances : ReadHello(c, i)) \/ HelloFails(c) \/ Register(c) \/ Announce(c)
    \/ \E n \in Notes : ReadNote(c, n)
    \/ Duplicate(c) \/ SinkWrite(c) \/ Record(c)
    \/ ReadFails(c) \/ Disconnect(c) \/ Report(c)
    \/ UntrackSession(c) \/ EndSession(c)

Next ==
    \/ \E c \in Conns : Handler(c) \/ CloseNow(c) \/ LinkLost(c)
    \/ Close \/ CloseReturns \/ Snapshot \/ Tick

Spec == Init /\ [][Next]_vars

\* The steps of a handler that need no frame from its edge: the handshake has
\* a time limit, and reading from a connection that is gone fails, at the
\* latest when hostIdleTimeout has passed.
Proceed(c) ==
    \/ TrackSession(c) \/ HelloFails(c) \/ Register(c) \/ Announce(c)
    \/ Duplicate(c) \/ SinkWrite(c) \/ Record(c)
    \/ c \notin up /\ ReadFails(c)
    \/ Disconnect(c) \/ Report(c) \/ UntrackSession(c) \/ EndSession(c)

\* Goroutines are scheduled; an edge that keeps its connection busy may stay
\* for ever.
FairSpec ==
    /\ Spec
    /\ WF_vars(CloseReturns \/ \E c \in Conns : CloseNow(c))
    /\ \A c \in Conns : WF_vars(Proceed(c))

-----------------------------------------------------------------------------
(***************************************************************************)
(* Properties                                                              *)
(***************************************************************************)

Steps == {"none", "accept", "hello", "register", "announce", "open", "note",
          "write", "record", "disconnect", "report", "untrack", "end", "done"}

Node == [state : {"absent", "connected", "disconnected"}, generation : Nat,
         connection : Conns \cup {NoConn}, disconnectedAt : Nat, accepted : Nat]

\* Types of all variables, the capacity of the duplicate cache included.
TypeOK ==
    /\ now \in Nat
    /\ closer \in {"open", "closing", "closed"} /\ toClose \subseteq Conns
    /\ sessionCount \in Nat /\ sessions \subseteq Conns
    /\ nodes \in [Instances -> Node] /\ generation \in Nat
    /\ duplicates \in [Keys -> Nat \cup {Never}]
    /\ dupOrder \in Seq([id : Keys, time : Nat])
    /\ Len(dupOrder) <= DuplicateCapacity
    /\ admitted \in Seq([id : Keys, time : Nat, done : Nat])
    /\ inbound \in Nat
    /\ pc \in [Conns -> Steps] /\ up \subseteq Conns
    /\ who \in [Conns -> Instances \cup {NoInstance}] /\ gen \in [Conns -> Nat]
    /\ replaced \in [Conns -> Conns \cup {NoConn}]
    /\ note \in [Conns -> Keys \cup {<<>>}] /\ at \in [Conns -> Nat]
    /\ took \in [Conns -> Nat]

\* A node is connected exactly as long as the newest registered handler of
\* its identity runs: a late disconnect of a replaced session does not mark
\* the new one, and pruning removes no connected node.
Newest(c) == \A d \in Conns : who[d] = who[c] => gen[d] <= gen[c]

NodeFollowsNewest ==
    \A i \in Instances : \A c \in Conns :
        (nodes[i].state = "connected" /\ nodes[i].connection = c /\ nodes[i].generation = gen[c])
            <=> (c \in Registered /\ who[c] = i /\ Newest(c))

\* MaximumConnections and RecentCapacity bound the connected and the known
\* nodes, whatever the order in which edges come, go and return.
RegistryBound ==
    /\ Cardinality(InState(nodes, "connected")) <= MaximumConnections
    /\ Cardinality({i \in Instances : nodes[i].state # "absent"}) <= RecentCapacity
    /\ sessionCount = Cardinality(Running) /\ sessionCount <= 2 * MaximumConnections

\* The map and the order of the duplicate cache agree: an ID that is in the
\* map without an entry would be suppressed for ever.
DuplicatesIndexed ==
    /\ \A j, k \in 1..Len(dupOrder) : dupOrder[j].id = dupOrder[k].id => j = k
    /\ \A key \in Keys : duplicates[key] # Never =>
           \E j \in 1..Len(dupOrder) : dupOrder[j] = [id |-> key, time |-> duplicates[key]]
    /\ \A j \in 1..Len(dupOrder) : duplicates[dupOrder[j].id] = dupOrder[j].time

\* An ID reaches the sink again only when DuplicateCapacity others came in
\* between or RecentTTL has passed, although the clock is read outside the
\* lock of the cache.
DuplicatesSuppressed ==
    \A j, k \in 1..Len(admitted) :
        j < k /\ admitted[j].id = admitted[k].id =>
            \/ k - j > DuplicateCapacity
            \/ admitted[k].done - admitted[j].time > RecentTTL

\* The accepted total of a node counts the notes the sink took from its own
\* session, not those of a session it replaced.
AcceptedIsTaken ==
    \A c \in Conns :
        gen[c] > 0 /\ nodes[who[c]].generation = gen[c] =>
            took[c] = nodes[who[c]].accepted + (IF pc[c] = "record" THEN 1 ELSE 0)

\* "waits until all peer handlers have stopped writing to the host sink":
\* once Close has returned no handler takes a step, nothing reaches the sink
\* and no edge is shown as connected.
QuietAfterClose ==
    [][closer = "closed" =>
          /\ UNCHANGED <<pc, took, admitted, sessions, sessionCount>>
          /\ InState(nodes', "connected") = {}]_vars

\* While Close waits, every running handler has lost its connection, is about
\* to, or no longer reads from it: nobody slips in between closing and the
\* copy of the sessions.
CloseReachesAll ==
    closer = "closing" =>
        \A c \in Running : \/ c \in toClose \/ c \notin up
                          \/ pc[c] \in {"accept", "untrack", "end"}

\* Close returns, although an edge may keep its connection busy.
CloseTerminates == closer = "closing" ~> closer = "closed"

\* The connections that are lost or were replaced are all cleaned up eventually.
LostSessionsEnd ==
    (\E c \in Conns \ up : pc[c] # "done") ~> (\A c \in Conns \ up : pc[c] = "done")

\* "Peer connection state": when every handler has told the observer what it
\* knows, the gauge shows the number of connected edges.
GaugeSettles ==
    (\A c \in Conns : pc[c] \notin {"announce", "report"}) =>
        inbound = Cardinality(InState(nodes, "connected"))

\* The registry of the host, however handlers, expiry and Close interleave: nodes
\* follow their newest session and count its notes, the limits hold, and Close
\* reaches every session.
RegistrySound ==
    /\ TypeOK /\ NodeFollowsNewest /\ RegistryBound
    /\ AcceptedIsTaken /\ CloseReachesAll

\* The duplicate cache: its map and order agree and repeated notes are suppressed.
CacheSound == DuplicatesIndexed /\ DuplicatesSuppressed

=============================================================================
