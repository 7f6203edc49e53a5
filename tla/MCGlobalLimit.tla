--------------------------- MODULE MCGlobalLimit ---------------------------
(* Instances of GlobalLimit: the slots of the users, the devices of a node. *)
EXTENDS GlobalLimit, TLC

CONSTANTS n1, n2, d1, d2, d3

NoLimit  == [u \in Users |-> 0]
OneSlot  == [u \in Users |-> 1]
TwoSlots == [u \in Users |-> 2]

AnyNode     == [n \in Nodes |-> Ips]
Apart       == [n \in Nodes |-> IF n = n1 THEN {d1, d3} ELSE {d2}]
Overlapping == [n \in Nodes |-> IF n = n1 THEN Ips ELSE {d3}]
=============================================================================
