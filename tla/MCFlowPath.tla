----------------------------- MODULE MCFlowPath -----------------------------
(***************************************************************************)
(* Four conversations between three machines, one of them with the         *)
(* application's listener and one with the peer host, in frames with       *)
(* consistent and inconsistent lengths, and configurations that play, pin, *)
(* disable and reuse reserved names.                                       *)
(***************************************************************************)
EXTENDS FlowPath

Frame(network, transport, src, sport, dst, dport, length, captured, payload, flags) ==
    [network |-> network, transport |-> transport, src |-> src, sport |-> sport,
     dst |-> dst, dport |-> dport, length |-> length, captured |-> captured,
     data |-> 60, payload |-> payload, flags |-> flags]

AllFrames ==
    { Frame("ip4", "tcp", 1, 3, 2, 4, 1500, 60, 6, {"SYN"}),
      Frame("ip4", "tcp", 2, 4, 1, 3, 0, 0, 90, {}),
      Frame("ip6", "udp", 2, 5, 3, 5, 200000, 1500, 1400, {}),
      Frame("ip4", "tcp", 3, 1, 1, 6, 60, 60, 0, {"FIN"}),
      Frame("ip6", "tcp", 1, 2, 3, 7, 60, 60, 0, {}),
      Frame("arp", "other", 1, 0, 2, 0, 60, 60, 0, {}) }

\* round(116 log1p(l) / log1p(65535)) for the lengths above.
LoudnessTable ==
    [l \in {60, 1500, 200000} |-> CASE l = 60 -> 43 [] l = 1500 -> 76 [] OTHER -> 128]

FirstFlow == FlowID(Normalize(Frame("ip4", "tcp", 1, 3, 2, 4, 1500, 60, 6, {}), 1))

Rule(id, enabled, match, action) ==
    [id |-> id, enabled |-> enabled, match |-> match, action |-> action]

Fixed == [state |-> "play", channel |-> 3, mode |-> 1, root |-> 2]

AllPolicies ==
    { [rules |-> << Rule(<<"a", 0, 0>>, FALSE, Everything, Plain("play")),
                    Rule(<<"b", 0, 0>>, TRUE, [Everything EXCEPT !.size = <<61, 70000>>], Fixed) >>,
       default |-> [Plain("monitor") EXCEPT !.channel = 1]],
      [rules |-> << Rule(<<"a", 0, 0>>, TRUE, Everything, Plain("play")),
                    Rule(<<"b", 0, 0>>, TRUE, [Everything EXCEPT !.flow = FirstFlow], Plain("monitor")) >>,
       default |-> [Plain("ignore") EXCEPT !.channel = 2]],
      [rules |-> << Rule(<<"http_source", 0, 0>>, TRUE, [Everything EXCEPT !.flags = {"SYN"}], Plain("ignore")) >>,
       default |-> [Plain("play") EXCEPT !.channel = 2]],
      [rules |-> << Rule(<<"a", 0, 0>>, TRUE, Everything, [Fixed EXCEPT !.state = "ignore"]) >>,
       default |-> [Plain("play") EXCEPT !.channel = 2]] }

AllOverlays ==
    { [muted |-> {}, soloed |-> {}], [muted |-> {FirstFlow}, soloed |-> {}],
      [muted |-> {}, soloed |-> {FirstFlow}] }

PeerAddresses == <<3>>
=============================================================================
