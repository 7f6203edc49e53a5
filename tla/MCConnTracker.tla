--------------------------- MODULE MCConnTracker ---------------------------
(* Small instances of ConnTracker: one user, a handful of connections. *)
EXTENDS ConnTracker, TLC

CONSTANTS u1, x1, da, db, dc, c1, c2, c3, c4

MCUuidOf == [c \in Conns |-> x1]

\* c1 and c3 come from the same address.
MCDevOf == [c \in Conns |-> CASE c = c1 -> da [] c = c2 -> db [] c = c3 -> da [] OTHER -> dc]

\* c1 and c3 are alike under MCDevOf.
MCSymmetry == Permutations({c1, c3})

\* Every connection from an address of its own.
MCDistinct == [c \in Conns |-> CASE c = c1 -> da [] c = c2 -> db [] OTHER -> dc]

MCMapped   == {[y \in Uuids |-> u1]}
MCUserMaps == {[y \in Uuids |-> u1], [y \in Uuids |-> NoUser]}

MCLimitOne == {[y \in Uuids |-> 1]}
MCLimitTwo == {[y \in Uuids |-> 2]}
MCLimits   == {[y \in Uuids |-> n] : n \in 0..1}

MCPushes  == {[v \in {u1} |-> {da}], [v \in {u1} |-> {db}], [v \in {} |-> {}]}
MCPartial == {[v \in {u1} |-> {da}]}
=============================================================================
