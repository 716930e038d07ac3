------------------------ MODULE MCPolicyController ------------------------
(***************************************************************************)
(* A small instance of PolicyController: two values of each field, one     *)
(* configuration that is also found handwritten, and two environments.     *)
(***************************************************************************)
EXTENDS PolicyController

CONSTANTS r1, d1, d2, k1, k2

\* Two values of the rules, of the defaults and of the cold fields.
SmallConfigs ==
    [rules : Rules, defaults : {d1, d2}, cold : {k1}]
        \cup [rules : Rules, defaults : {d1}, cold : {k2}]

\* The configuration that may be written by hand.
OneEdited == {[rules |-> r1, defaults |-> d1, cold |-> k1]}

\* Editors that ignore the lock while the process is killed and restarted; and
\* programs that honour it, with power losses and publications that fail.
TwoWorlds ==
    {[rogue |-> TRUE, applyMayFail |-> FALSE, failures |-> {"kill"}],
     [rogue |-> FALSE, applyMayFail |-> TRUE, failures |-> {"power"}]}
=============================================================================
