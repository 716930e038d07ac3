------------------------------ MODULE FlowPath ------------------------------
(***************************************************************************)
(* What happens to one packet between capture and the note queue: it is    *)
(* normalized (capture/normalize.go), recorded in the bounded flow         *)
(* registry (flow/registry.go), routed by the selector (flow/selector.go,  *)
(* compiled by app/policy.go with the safety rules of app/app.go), and     *)
(* mapped to a note (music/mapper.go).  pipeline.processPacket calls these *)
(* one after the other on one goroutine; packets come with any timestamps, *)
(* the policy may be another one at every packet, and HTTP requests read   *)
(* the registry between any two calls.                                     *)
(***************************************************************************)
EXTENDS Integers, FiniteSets, Sequences, SequencesExt

CONSTANTS
    Frames,             \* captured frames, as gopacket decodes them
    MaxTime,            \* timestamps are 1 .. MaxTime; 0 is the zero time.Time
    Tick,               \* milliseconds between two timestamps
    Capacity, TTL,      \* RegistryConfig; TTL in timestamps
    MaxPackets,         \* packets of one flow that are explored
    Policies,           \* configurations: persistent rules and default action
    Overlays,           \* temporary mute and solo sets
    HttpPort,           \* port of the application's own listener
    Peers, PeerPort,    \* the host an edge sends notes to: addresses and port
    Unset,                \* an absent predicate or value
    MinimumNote, MaximumNote, MinimumDuration, MaximumDuration,  \* MapperConfig
    Loudness            \* round(116 log1p(length) / log1p(65535)), per length

\* What NewRegistry and NewMapper accept.
ASSUME ConfigAssumption ==
    /\ Capacity \in Nat \ {0} /\ TTL \in Nat \ {0}
    /\ MinimumNote \in 0..127 /\ MaximumNote \in MinimumNote..127
    /\ MinimumDuration \in Nat \ {0}
    /\ MaximumDuration \in Nat /\ MaximumDuration >= MinimumDuration
    /\ MaxTime \in Nat /\ Tick \in Nat \ {0} /\ MaxPackets \in Nat \ {0}

\* Addresses, ports and lengths are numbers; an address may be missing.
ASSUME FramesAssumption ==
    \A f \in Frames :
        /\ f.src \in Nat \cup {Unset} /\ f.dst \in Nat \cup {Unset}
        /\ {f.sport, f.dport, f.length, f.captured, f.data, f.payload} \subseteq Nat
        /\ f.transport \in {"tcp", "udp", "icmp", "icmp6", "other"}

ASSUME PortsAssumption == HttpPort \in Nat /\ PeerPort \in Nat /\ Peers \in Seq(Nat)

VARIABLES
    flows,      \* Registry.flows: flow ID -> Snapshot
    oldest,     \* Registry.oldest: the flow IDs, least recently seen first
    pc,         \* where processPacket is
    event,      \* the packet in hand
    observed,   \* what Observe returned
    note        \* the note in hand, with the decision behind it

vars == <<flows, oldest, pc, event, observed, note>>

None == [none |-> TRUE]

Protocols == {"tcp", "udp", "icmp", "icmp6", "other"}

-----------------------------------------------------------------------------
(***************************************************************************)
(* Packets and flow identity                                               *)
(***************************************************************************)

\* Event.Validate
Valid(e) ==
    /\ e.src.addr # Unset /\ e.dst.addr # Unset
    /\ e.length >= 0 /\ e.captured >= 0 /\ e.payload >= 0
    /\ e.captured <= e.length /\ e.payload <= e.captured
    /\ e.protocol \in Protocols

Supported(f) == f.network \in {"ip4", "ip6"} /\ f.src # Unset /\ f.dst # Unset

AtLeast(a, b) == IF a < b THEN b ELSE a

AtMost(a, b) == IF a > b THEN b ELSE a

\* Normalize, for a supported frame: lengths are made consistent, and ports and
\* flags exist only where the transport has them.
Normalize(f, at) ==
    LET captured == IF f.captured = 0 THEN f.data ELSE f.captured
        ports == f.transport \in {"tcp", "udp"}
    IN  [at |-> at,
         src |-> [addr |-> f.src, port |-> IF ports THEN f.sport ELSE 0],
         dst |-> [addr |-> f.dst, port |-> IF ports THEN f.dport ELSE 0],
         protocol |-> f.transport,
         length |-> AtLeast(f.length, captured), captured |-> captured,
         payload |-> AtMost(f.payload, captured),
         flags |-> IF f.transport = "tcp" THEN f.flags ELSE {}]

\* The logarithm is defined for every length that is met.
ASSUME LoudnessAssumption ==
    \A f \in Frames : Loudness[Normalize(f, 0).length] \in Nat

\* compareEndpoint(a, b) <= 0
EndpointLeq(a, b) == a.addr < b.addr \/ (a.addr = b.addr /\ a.port <= b.port)

\* Canonicalize: the direction of a packet within its flow.
AToB(e) == EndpointLeq(e.src, e.dst)

\* Canonicalize: the key both directions share.
Key(e) == [protocol |-> e.protocol,
           a |-> IF AToB(e) THEN e.src ELSE e.dst,
           b |-> IF AToB(e) THEN e.dst ELSE e.src]

\* Key.ID: the digest is taken to be injective; its order is some total order.
ID(k) ==
    LET p == CHOOSE i \in 1..5 :
                 <<"tcp", "udp", "icmp", "icmp6", "other">>[i] = k.protocol
    IN  p + 8 * (k.a.addr + 8 * (k.a.port + 8 * (k.b.addr + 8 * k.b.port)))

FlowID(e) == ID(Key(e))

-----------------------------------------------------------------------------
(***************************************************************************)
(* The flow registry                                                       *)
(***************************************************************************)

\* entryHeap.Less
Older(f, i, j) == f[i].last < f[j].last \/ (f[i].last = f[j].last /\ i < j)

\* heap.Push and heap.Fix: the entry takes the place its key asks for, in front
\* of the first that is younger; the others stay where they are.
Place(f, order, id) ==
    LET rest == RemoveFirst(order, id)
        younger == SelectInSeq(rest, LAMBDA i : Older(f, id, i))
    IN  IF younger = 0 THEN Append(rest, id) ELSE InsertAt(rest, younger, id)

Without(f, ids) == [i \in DOMAIN f \ ids |-> f[i]]

\* How many entries Expire pops: up to the first that is recent enough.
Expired(f, order, now) ==
    CHOOSE n \in 0..Len(order) :
        /\ \A i \in 1..n : f[order[i]].last <= now - TTL
        /\ n < Len(order) => f[order[n + 1]].last > now - TTL

\* Expire(now)
Expire(now) ==
    LET n == Expired(flows, oldest, now)
    IN  /\ flows' = Without(flows, {oldest[i] : i \in 1..n})
        /\ oldest' = SubSeq(oldest, n + 1, Len(oldest))

\* The entry of a flow seen for the first time.
Entry(e) ==
    [first |-> e.at, last |-> e.at, packets |-> 1,
     ab |-> IF AToB(e) THEN 1 ELSE 0, ba |-> IF AToB(e) THEN 0 ELSE 1,
     event |-> e]

\* update: a late record moves neither LastSeen nor LastEvent back.
Updated(s, e) ==
    [first |-> AtMost(s.first, e.at), last |-> AtLeast(s.last, e.at),
     packets |-> s.packets + 1,
     ab |-> IF AToB(e) THEN s.ab + 1 ELSE s.ab,
     ba |-> IF AToB(e) THEN s.ba ELSE s.ba + 1,
     event |-> IF e.at < s.event.at THEN s.event ELSE e]

\* Mutant: the heap is not told of the new LastSeen.
UpdateUnfixed(e, id) ==
    /\ flows' = [flows EXCEPT ![id] = Updated(@, e)]
    /\ oldest' = oldest
    /\ observed' = [sequence |-> flows[id].packets + 1, previous |-> flows[id].last]

\* Observe of a known flow.  The heap is fixed when LastSeen moves.
Update(e, id) ==
    /\ flows' = [flows EXCEPT ![id] = Updated(@, e)]
    /\ oldest' = IF e.at > flows[id].last THEN Place(flows', oldest, id) ELSE oldest
    /\ observed' = [sequence |-> flows[id].packets + 1, previous |-> flows[id].last]

\* Mutant: the entry evicted is the one added last.
CreateEvictingNewest(e, id) ==
    LET full == Cardinality(DOMAIN flows) >= Capacity
        kept == IF full THEN Without(flows, {oldest[Len(oldest)]}) ELSE flows
        order == IF full THEN SubSeq(oldest, 1, Len(oldest) - 1) ELSE oldest
    IN  /\ flows' = [i \in DOMAIN kept \cup {id} |-> IF i = id THEN Entry(e) ELSE kept[i]]
        /\ oldest' = Place(flows', order, id)
        /\ observed' = [sequence |-> 1, previous |-> 0]

\* Observe of a new flow: a full registry evicts the root of the heap.
Create(e, id) ==
    LET full == Cardinality(DOMAIN flows) >= Capacity
        kept == IF full THEN Without(flows, {Head(oldest)}) ELSE flows
        order == IF full THEN Tail(oldest) ELSE oldest
    IN  /\ flows' = [i \in DOMAIN kept \cup {id} |-> IF i = id THEN Entry(e) ELSE kept[i]]
        /\ oldest' = Place(flows', order, id)
        /\ observed' = [sequence |-> 1, previous |-> 0]

\* snapshotBefore: newest first, then by ID.
Before(i, j) ==
    IF flows[i].last = flows[j].last THEN i < j ELSE flows[i].last > flows[j].last

\* One step of the scan of RecentSnapshots, which keeps the newest seen so far.
Keep(kept, id, limit) ==
    LET worst == CHOOSE w \in kept : \A k \in kept \ {w} : Before(k, w)
    IN  IF Cardinality(kept) < limit THEN kept \cup {id}
        ELSE IF Before(id, worst) THEN (kept \ {worst}) \cup {id}
        ELSE kept

\* The scan, when the map is iterated in the given order.
Scan(order, limit) == FoldLeft(LAMBDA kept, id : Keep(kept, id, limit), {}, order)

\* RecentSnapshots: what the scan kept, sorted.
RecentSnapshots(order, limit) ==
    LET kept == Scan(order, limit)
    IN  CHOOSE page \in [1..Cardinality(kept) -> kept] :
            \A i, j \in DOMAIN page : i < j => Before(page[i], page[j])

-----------------------------------------------------------------------------
(***************************************************************************)
(* The selector                                                            *)
(***************************************************************************)

\* PortRange.contains
InRange(range, port) == range # Unset => port \in range[1]..range[2]

\* Match.matches
Matches(m, e, id) ==
    /\ m.flow \in {Unset, id}
    /\ m.source # Unset => e.src.addr \in m.source
    /\ m.destination # Unset => e.dst.addr \in m.destination
    /\ m.protocol \in {Unset, e.protocol}
    /\ InRange(m.sports, e.src.port) /\ InRange(m.dports, e.dst.port)
    /\ m.size # Unset => e.length \in m.size[1]..m.size[2]
    /\ m.flags \subseteq e.flags

\* The match without predicates.
Everything ==
    [flow |-> Unset, source |-> Unset, destination |-> Unset, protocol |-> Unset,
     sports |-> Unset, dports |-> Unset, size |-> Unset, flags |-> {}]

Plain(state) == [state |-> state, channel |-> 0, mode |-> Unset, root |-> 0]

\* A configuration has a list of rules and a default action.
ASSUME PoliciesAssumption ==
    \A p \in Policies :
        /\ p.rules \in Seq(Range(p.rules))
        /\ \A r \in Range(p.rules) : /\ DOMAIN r = {"id", "enabled", "match", "action"}
                                     /\ DOMAIN r.action = DOMAIN Plain("ignore")
        /\ DOMAIN p.default = DOMAIN Plain("ignore")

\* validateAction, and the same checks of config.toFlowRule.
ValidAction(a) ==
    /\ a.state \in {"ignore", "monitor", "play"}
    /\ a.channel \in 0..16
    /\ IF a.mode = Unset THEN a.root = 0
       ELSE a.state = "play" /\ a.mode \in 0..6 /\ a.root \in 0..11

Ordered(range) == range # Unset => range[1] <= range[2]

\* validateRule, and the same checks of config.toFlowRule.
ValidRule(r) ==
    /\ ValidAction(r.action)
    /\ Ordered(r.match.sports) /\ Ordered(r.match.dports) /\ Ordered(r.match.size)
    /\ r.match.protocol \in Protocols \cup {Unset}

UniqueIDs(rules) == \A i, j \in DOMAIN rules : rules[i].id = rules[j].id => i = j

\* ToFlowRules: the persistent rules of a configuration are acceptable.
ValidRules(rules) == UniqueIDs(rules) /\ \A i \in DOMAIN rules : ValidRule(rules[i])

\* uniqueRuleID: the (numbered) base name, or the first numbered one no rule has.
UniqueRuleID(base, k, rules) ==
    CHOOSE id \in {<<base, k, n>> : n \in 0..Len(rules)} :
        /\ \A i \in DOMAIN rules : rules[i].id # id
        /\ \A n \in 0..Len(rules) :
              n < id[3] => \E i \in DOMAIN rules : rules[i].id = <<base, k, n>>

\* httpSafetyRules: the application never plays its own HTTP traffic.
HttpSafetyRules(rules) ==
    << [id |-> UniqueRuleID("http_source", 0, rules), enabled |-> TRUE,
        match |-> [Everything EXCEPT !.protocol = "tcp", !.sports = <<HttpPort, HttpPort>>],
        action |-> Plain("ignore")],
       [id |-> UniqueRuleID("http_destination", 0, rules), enabled |-> TRUE,
        match |-> [Everything EXCEPT !.protocol = "tcp", !.dports = <<HttpPort, HttpPort>>],
        action |-> Plain("ignore")] >>

\* peerSafetyRules: nor the connection that carries its notes to the host.
PeerSafetyRules(rules) ==
    LET rule(name, k, match) ==
            [id |-> UniqueRuleID(name, k, rules), enabled |-> TRUE,
             match |-> match, action |-> Plain("ignore")]
        pair(k) ==
            << rule("peer_source", k,
                    [Everything EXCEPT !.protocol = "tcp", !.source = {Peers[k]},
                                       !.sports = <<PeerPort, PeerPort>>]),
               rule("peer_destination", k,
                    [Everything EXCEPT !.protocol = "tcp", !.destination = {Peers[k]},
                                       !.dports = <<PeerPort, PeerPort>>]) >>
    IN  [i \in 1..2 * Len(Peers) |-> pair((i + 1) \div 2)[2 - (i % 2)]]

\* The safety rules of an edge; other roles have no peer.
SafetyRules(rules) ==
    LET http == HttpSafetyRules(rules)
    IN  http \o PeerSafetyRules(rules \o http)

\* A loop that appends the members of T among the elements of s to a list.
Collect(s, T) ==
    FoldLeft(LAMBDA list, x : IF x \in T THEN Append(list, x) ELSE list, <<>>, s)

\* compileSelector: exact-flow rules are the pinned tier.
Compile(p) ==
    LET exact == {r \in Range(p.rules) : r.match.flow # Unset}
    IN  [safety |-> SafetyRules(p.rules),
         pinned |-> Collect(p.rules, exact),
         user |-> Collect(p.rules, Range(p.rules) \ exact),
         default |-> p.default]

\* NewSelector accepts the tiers.
NewSelector(s) ==
    /\ ValidAction(s.default) /\ s.default.channel # 0
    /\ ValidRules(s.safety \o s.pinned \o s.user)
    /\ \A i \in DOMAIN s.safety : s.safety[i].action.state = "ignore"
    /\ \A i \in DOMAIN s.pinned : s.pinned[i].match.flow # Unset

\* A policy the controller can publish.
Publishable(p) == ValidRules(p.rules) /\ NewSelector(Compile(p))

\* The configurations that packets can meet, and the selector of each.
Published == {p \in Policies : Publishable(p)}
Selector == [p \in Published |-> Compile(p)]

\* firstMatch
FirstMatch(rules, e, id) ==
    LET hits == {i \in DOMAIN rules : rules[i].enabled /\ Matches(rules[i].match, e, id)}
    IN  IF hits = {} THEN None
        ELSE rules[CHOOSE i \in hits : \A j \in hits : i <= j]

\* selection: channel 0 inherits the default channel.
Selection(s, a) == [a EXCEPT !.channel = IF @ = 0 THEN s.default.channel ELSE @]

\* Mutant: the safety rules are looked at after the persistent ones.
EvaluateSafetyLast(s, e, overlay) ==
    LET id == FlowID(e)
        hit == FirstMatch(s.pinned \o s.user \o s.safety, e, id)
    IN  IF id \in overlay.muted THEN Selection(s, Plain("ignore"))
        ELSE IF overlay.soloed # {} /\ id \notin overlay.soloed
             THEN Selection(s, Plain("monitor"))
        ELSE IF hit # None THEN Selection(s, hit.action)
        ELSE Selection(s, s.default)

\* Selector.Evaluate: safety, mute, solo, pinned, user, default.
Evaluate(s, e, overlay) ==
    LET id == FlowID(e)
        persistent == FirstMatch(s.pinned \o s.user, e, id)
    IN  IF FirstMatch(s.safety, e, id) # None
        THEN Selection(s, FirstMatch(s.safety, e, id).action)
        ELSE IF id \in overlay.muted THEN Selection(s, Plain("ignore"))
        ELSE IF overlay.soloed # {} /\ id \notin overlay.soloed
             THEN Selection(s, Plain("monitor"))
        ELSE IF persistent # None THEN Selection(s, persistent.action)
        ELSE Selection(s, s.default)

-----------------------------------------------------------------------------
(***************************************************************************)
(* The mapper                                                              *)
(***************************************************************************)

\* modeIntervals, by mode 0 (ionian) to 6 (locrian).
ModeIntervals ==
    << {0, 2, 4, 5, 7, 9, 11}, {0, 2, 3, 5, 7, 9, 10}, {0, 1, 3, 5, 7, 8, 10},
       {0, 2, 4, 6, 7, 9, 11}, {0, 2, 4, 5, 7, 9, 10}, {0, 2, 3, 5, 7, 8, 10},
       {0, 1, 3, 5, 6, 8, 10} >>

\* IdentityForFlowID: two bytes of a digest of the ID choose mode and root.
Identity(id) == [mode |-> (id \div 8) % 7, root |-> (id \div 8) % 12]

\* scaleNotes: the notes of the range that belong to the scale, ascending.
ScaleNotes(mode, root) ==
    Collect([i \in 1..MaximumNote - MinimumNote + 1 |-> MinimumNote + i - 1],
            {n \in 0..127 : (n - root) % 12 \in ModeIntervals[mode + 1]})

ProtocolOffset(p) ==
    CASE p = "tcp" -> 0 [] p = "udp" -> 2 [] p \in {"icmp", "icmp6"} -> 4 [] OTHER -> 6

FlagOffset(flags) ==
      (IF "SYN" \in flags THEN 1 ELSE 0) + (IF "FIN" \in flags THEN 2 ELSE 0)
    + (IF "RST" \in flags THEN 3 ELSE 0)

\* packetVelocity
PacketVelocity(length, flags) ==
    AtMost(1 + Loudness[length] +
               (IF flags \cap {"SYN", "FIN", "RST"} # {} THEN 10 ELSE 0), 127)

\* quantizedDuration: rounded to 25 ms, then limited.
QuantizedDuration(gap) ==
    IF gap <= 0 THEN MinimumDuration
    ELSE AtMost(AtLeast(((2 * gap + 25) \div 50) * 25, MinimumDuration), MaximumDuration)

\* Mutant: the answer is shifted by a whole octave of candidates.
PitchFullTurn(e, candidates) ==
    LET shift == IF AToB(e) THEN 0 ELSE Len(candidates)
        index == e.length + ProtocolOffset(e.protocol) + FlagOffset(e.flags) + shift
    IN  candidates[1 + (index % Len(candidates))]

\* The candidate a packet picks; answers are shifted by half the candidates.
Pitch(e, candidates) ==
    LET shift == IF AToB(e) THEN 0 ELSE (Len(candidates) + 1) \div 2
        index == e.length + ProtocolOffset(e.protocol) + FlagOffset(e.flags) + shift
    IN  candidates[1 + (index % Len(candidates))]

\* The mode and root of a packet's note: fixed by the rule, or the flow's own.
Scale(e, selection) ==
    IF selection.mode = Unset THEN Identity(FlowID(e))
    ELSE [mode |-> selection.mode, root |-> selection.root]

\* Map, when the scale has a note in the range; it is an error otherwise.
Map(e, selection, sequence, gap) ==
    LET scale == Scale(e, selection)
    IN  [id |-> <<FlowID(e), sequence>>, mode |-> scale.mode, root |-> scale.root,
         pitch |-> Pitch(e, ScaleNotes(scale.mode, scale.root)),
         velocity |-> PacketVelocity(e.length, e.flags),
         duration |-> QuantizedDuration(gap), channel |-> selection.channel]

-----------------------------------------------------------------------------
(***************************************************************************)
(* processPacket                                                           *)
(***************************************************************************)

Init ==
    /\ flows = [i \in {} |-> None] /\ oldest = <<>>
    /\ pc = "next" /\ event = None /\ observed = None /\ note = None

\* The source skips frames it does not support; any other is a packet, and the
\* registry is first rid of flows that are too old at the packet's own time.
Arrive(f, at) ==
    /\ pc = "next" /\ Supported(f)
    /\ LET e == Normalize(f, at)
       IN  /\ FlowID(e) \in DOMAIN flows => flows[FlowID(e)].packets < MaxPackets
           /\ event' = e
    /\ Expire(at)
    /\ pc' = "observe"
    /\ UNCHANGED <<observed, note>>

\* registry.Observe; an invalid packet, or one without a timestamp, is dropped.
Observe ==
    /\ pc = "observe"
    /\ IF ~Valid(event) \/ event.at = 0
       THEN /\ pc' = "next" /\ event' = None
            /\ UNCHANGED <<flows, oldest, observed>>
       ELSE /\ IF FlowID(event) \in DOMAIN flows
               THEN Update(event, FlowID(event)) ELSE Create(event, FlowID(event))
            /\ pc' = "select" /\ UNCHANGED event
    /\ UNCHANGED note

\* The time since the flow's last packet, or 0 for a first or a late one.
Gap ==
    IF observed.previous # 0 /\ event.at > observed.previous
    THEN Tick * (event.at - observed.previous) ELSE 0

\* policyStore.Evaluate under the policy published just now, and mapper.Map.
Select(p, overlay) ==
    /\ pc = "select" /\ p \in Published
    /\ LET selection == Evaluate(Selector[p], event, overlay)
           scale == Scale(event, selection)
           played == /\ selection.state = "play"
                     /\ ScaleNotes(scale.mode, scale.root) # <<>>
       IN  /\ pc' = IF played THEN "enqueue" ELSE "next"
           /\ note' = IF played
                      THEN [note |-> Map(event, selection, observed.sequence, Gap),
                            gap |-> Gap, overlay |-> overlay, policy |-> p]
                      ELSE None
           /\ event' = IF played THEN event ELSE None
    /\ observed' = None
    /\ UNCHANGED <<flows, oldest>>

\* The note goes to the note queue, or is dropped there.
Enqueue ==
    /\ pc = "enqueue"
    /\ pc' = "next" /\ event' = None /\ note' = None
    /\ UNCHANGED <<flows, oldest, observed>>

Next ==
    \/ \E f \in Frames, at \in 0..MaxTime : Arrive(f, at)
    \/ Observe
    \/ \E p \in Policies, overlay \in Overlays : Select(p, overlay)
    \/ Enqueue

Spec == Init /\ [][Next]_vars

-----------------------------------------------------------------------------
(***************************************************************************)
(* Properties                                                              *)
(***************************************************************************)

\* Every variable holds a value of the Go state it stands for.
TypeOK ==
    /\ \A i \in DOMAIN flows :
          /\ flows[i].first \in 1..MaxTime /\ flows[i].last \in 1..MaxTime
          /\ flows[i].packets \in 1..MaxPackets
          /\ flows[i].ab \in Nat /\ flows[i].ba \in Nat
          /\ Valid(flows[i].event)
    /\ oldest \in Seq(DOMAIN flows)
    /\ pc \in {"next", "observe", "select", "enqueue"}
    /\ (pc = "next") = (event = None)
    /\ (pc = "select") = (observed # None)
    /\ (pc = "enqueue") = (note # None)

\* What capture hands over is always valid, whatever lengths the frame header
\* claims: the registry refuses a packet only for a missing timestamp.
NormalizedIsValid == pc # "next" => Valid(event)

\* The registry never holds more flows than its capacity, and its heap holds
\* exactly the flows of its map in the order eviction and expiry rely on,
\* through late packets, evictions and expiry.
Indexed ==
    /\ Cardinality(DOMAIN flows) <= Capacity
    /\ Len(oldest) = Cardinality(DOMAIN flows)
    /\ {oldest[i] : i \in DOMAIN oldest} = DOMAIN flows
    /\ \A i, j \in DOMAIN oldest : i < j => Older(flows, oldest[i], oldest[j])

\* "A late capture record cannot move a flow backward in time": the counters of
\* a flow agree, and its newest packet is the one its LastSeen comes from.
SnapshotsCoherent ==
    \A i \in DOMAIN flows :
        /\ flows[i].packets = flows[i].ab + flows[i].ba
        /\ flows[i].first <= flows[i].last
        /\ flows[i].event.at = flows[i].last
        /\ FlowID(flows[i].event) = i

\* A flow leaves the registry only when it is TTL or more older than the packet
\* just read, and then it always does, or to make room for a new flow, and then
\* no other flow was seen longer ago.
RemovalsExact ==
    [][/\ pc = "next" /\ pc' = "observe" =>
            DOMAIN flows' = {i \in DOMAIN flows : flows[i].last > event'.at - TTL}
       /\ pc = "observe" =>
            \A i \in DOMAIN flows \ DOMAIN flows' :
                /\ FlowID(event) \notin DOMAIN flows
                /\ Cardinality(DOMAIN flows) = Capacity
                /\ \A j \in DOMAIN flows' \ {FlowID(event)} : flows[i].last <= flows[j].last]_vars

\* A page of flows is the same in whatever order the map is iterated: the newest
\* flows, newest first, and no flow left out is newer than one shown.
RecentExact ==
    \A limit \in 1..Capacity, order \in SetToSeqs(DOMAIN flows) :
        LET page == RecentSnapshots(order, limit)
        IN  /\ Len(page) = AtMost(limit, Cardinality(DOMAIN flows))
            /\ \A i \in 1..Len(page) - 1 : Before(page[i], page[i + 1])
            /\ \A i \in DOMAIN flows \ {page[k] : k \in DOMAIN page} :
                  \A k \in DOMAIN page : Before(page[k], i)

\* The safety rules never keep an acceptable configuration from being compiled,
\* not even one whose rules use the reserved names: every one can be published.
SafetyCompiles ==
    pc = "select" =>
        \A p \in Policies : ValidRules(p.rules) /\ ValidAction(p.default)
                              /\ p.default.channel # 0 => p \in Published

\* Whatever the rules, the application's own HTTP traffic and its connection to
\* the host are never heard in either direction, so notes cannot cause notes;
\* nor is a muted flow, nor one outside the solo set, nor one that only a
\* disabled rule would play.
HeardIsAllowed ==
    pc = "enqueue" =>
        /\ event.protocol = "tcp" => HttpPort \notin {event.src.port, event.dst.port}
        /\ event.protocol = "tcp" =>
              \A end \in {event.src, event.dst}, k \in DOMAIN Peers :
                  end # [addr |-> Peers[k], port |-> PeerPort]
        /\ FlowID(event) \notin note.overlay.muted
        /\ note.overlay.soloed # {} => FlowID(event) \in note.overlay.soloed
        /\ \/ note.policy.default.state = "play"
           \/ \E i \in DOMAIN note.policy.rules :
                 LET r == note.policy.rules[i]
                 IN  /\ r.enabled /\ r.action.state = "play"
                     /\ Matches(r.match, event, FlowID(event))

\* NoteEvent.Validate never fails a mapped note, and the note is one of its
\* scale within the configured range.
NoteSound ==
    pc = "enqueue" =>
        /\ note.note.pitch \in MinimumNote..MaximumNote
        /\ \E k \in ModeIntervals[note.note.mode + 1], octave \in -1..10 :
              note.note.pitch = note.note.root + k + 12 * octave
        /\ note.note.velocity \in 1..127 /\ note.note.channel \in 1..16
        /\ note.note.duration \in MinimumDuration..MaximumDuration

\* Both directions of a conversation share one musical identity, and a packet
\* and its mirror image sound different wherever the scale has two notes.
DirectionsDiffer ==
    pc = "enqueue" =>
        LET mirror == [event EXCEPT !.src = event.dst, !.dst = event.src]
            notes == ScaleNotes(note.note.mode, note.note.root)
        IN  /\ FlowID(mirror) = FlowID(event)
            /\ Len(notes) > 1 /\ event.src # event.dst =>
                  Pitch(mirror, notes) # note.note.pitch

\* A pause is measured within one stay of the flow in the registry: it is
\* shorter than the TTL, since a longer one ends the stay.
GapWithinTTL == pc = "enqueue" => note.gap < TTL * Tick

\* The registry under any timestamps: what enters it is valid, its map and heap
\* agree, its snapshots are coherent and its listing is exact.
RegistrySound ==
    /\ TypeOK /\ NormalizedIsValid
    /\ Indexed /\ SnapshotsCoherent /\ RecentExact

\* Every acceptable policy compiles with its safety rules, and what is heard
\* through it is allowed: the program never hears itself.
NoFeedback == SafetyCompiles /\ HeardIsAllowed

\* A mapped note is valid and in its scale, directions differ, and its duration
\* comes from a pause within one stay of the flow.
MappingSound == NoteSound /\ DirectionsDiffer /\ GapWithinTTL

=============================================================================
