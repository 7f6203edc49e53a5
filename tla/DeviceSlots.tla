---------------------------- MODULE DeviceSlots ----------------------------
(***************************************************************************)
(* What the panel's device store promises (setDevices, syncNodeDevices and *)
(* clearAllNodeDevices in app/Services/DeviceStateService.php), as if each *)
(* report were one step: a user has at most DeviceLimit devices over all   *)
(* nodes, the first to come is the first served, and a node's report takes *)
(* nothing from another node.                                              *)
(***************************************************************************)
EXTENDS Integers, FiniteSets

CONSTANTS
    Users, Nodes, Ips,
    DeviceLimit     \* users.device_limit, 0 for "no limit"

VARIABLES
    slots,   \* user -> pairs (node, ip) that are allowed
    sent     \* node -> user -> devices: the reports that are in force

Reports == UNION {[U -> SUBSET Ips] : U \in SUBSET Users}

IpsIn(pairs) == {s[2] : s \in pairs}
Others(u, n) == {s \in slots[u] : s[1] # n}
Own(u, n)    == IpsIn(slots[u] \ Others(u, n))

Give(u, n, K) == slots' = [slots EXCEPT ![u] = Others(u, n) \cup ({n} \X K)]

Init ==
    /\ slots = [u \in Users |-> {}]
    /\ sent = [n \in Nodes |-> [u \in {} |-> {}]]

\* Node n sends its report.
Send(n, p) ==
    /\ sent' = [sent EXCEPT ![n] = p]
    /\ UNCHANGED slots

\* Node n reports the devices S of user u, and K of them are allowed: those it
\* had already, and new ones as far as they fit.
Report(u, n, S, K) ==
    /\ K \subseteq S
    /\ Own(u, n) \cap S \subseteq K
    /\ DeviceLimit[u] = 0 => K = S
    /\ DeviceLimit[u] > 0 =>
           Cardinality(IpsIn(Others(u, n)) \cup K) <= DeviceLimit[u]
    /\ Give(u, n, K)
    /\ sent' = [sent EXCEPT ![n] = [v \in DOMAIN @ \cup {u} |->
                                       IF v = u THEN S ELSE @[v]]]

\* User u is not in the report of node n any more.
Drop(u, n) ==
    /\ u \notin DOMAIN sent[n]
    /\ Give(u, n, {})
    /\ UNCHANGED sent

\* What node n has reported of user u becomes too old, or is cut off on its way
\* into the store.
Expire(u, n) ==
    /\ sent' = [sent EXCEPT ![n] = [v \in DOMAIN @ \ {u} |-> @[v]]]
    /\ Give(u, n, {})

Next ==
    \E n \in Nodes :
        \/ \E p \in Reports : Send(n, p)
        \/ \E u \in Users :
               \/ \E S \in SUBSET Ips : \E K \in SUBSET S : Report(u, n, S, K)
               \/ Drop(u, n)
               \/ Expire(u, n)

Spec == Init /\ [][Next]_<<slots, sent>>
=============================================================================
