---------------------------- MODULE MCManagement ----------------------------
(***************************************************************************)
(* A small instance of Management: two rules, one of them in two versions, *)
(* one secret and one other field that needs a restart, one flow.          *)
(***************************************************************************)
EXTENDS Management

a1 == [id |-> "a", body |-> 1]
a2 == [id |-> "a", body |-> 2]
b1 == [id |-> "b", body |-> 1]

TwoRules ==
    {<<>>, <<a1>>, <<a2>>, <<b1>>, <<a1, b1>>, <<b1, a1>>, <<a2, b1>>, <<b1, a2>>}

Cold(secret, plain) == [secret |-> secret, plain |-> plain]

Config(rules, cold) == [rules |-> rules, defaults |-> "d", cold |-> cold]

SmallConfigs ==
    {Config(rules, Cold(secret, plain)) :
        rules \in TwoRules, secret \in {"", "s1", "s2"}, plain \in {1, 2}}

\* An honest file system and editors that take the lock.
OneWorld == {[rogue |-> FALSE, applyMayFail |-> FALSE, failures |-> {}]}

FlowOverlays == [muted : SUBSET {"f"}, soloed : SUBSET {"f"}]

Quiet == [muted |-> {}, soloed |-> {}]

\* The service starts with two rules, and with or without a secret.
StartDocuments ==
    {Encode(Config(<<a1, b1>>, Cold(secret, 1))) : secret \in {"", "s1"}}

\* A rule removed by hand, a secret changed by hand, and a broken file.
Edits ==
    {Encode(Config(<<b1>>, Cold("s1", 1))), Encode(Config(<<a1, b1>>, Cold("s2", 1))), Bad}

SmallRequests ==
    {[kind |-> "update", config |-> Config(<<a1>>, Cold(secret, 1))] :
        secret \in {"<redacted>", "s2"}}
    \cup {[kind |-> "stage", config |-> Config(<<a1, b1>>, Cold(secret, 2))] :
        secret \in {"<redacted>", "s2"}}
    \cup {[kind |-> "cancel"],
          [kind |-> "create", rule |-> a2],
          [kind |-> "replaceAll", rules |-> <<a1, a2>>],
          [kind |-> "replaceOne", id |-> "a", rule |-> a2],
          [kind |-> "delete", id |-> "a"],
          [kind |-> "reorder", order |-> <<"b", "a">>],
          [kind |-> "mute", flows |-> {"f"}],
          [kind |-> "solo", flows |-> {"f"}]}

MCInit == ManagementInit /\ file \in StartDocuments

MCSpec == MCInit /\ [][ManagementNext]_managementVars /\ ManagementFairness
=============================================================================
