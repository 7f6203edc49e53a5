-------------------------- MODULE MCLimitDispatcher --------------------------
(* Small instances of LimitDispatcher: one user, three connections. *)
EXTENDS LimitDispatcher, TLC

CONSTANTS u1, e1, da, db, c1, c2, c3

MCEmailOf == [c \in Conns |-> e1]

\* c1 and c3 come from the same address.
MCDevOf == [c \in Conns |-> IF c = c2 THEN db ELSE da]
MCSymmetry == Permutations({c1, c3})

\* A counter that nothing refers to any more is never read again, the one that a
\* connection has added to is only remembered, and whether a closed connection was
\* late does not matter either.
InHand(c) == IF pc[c] \in {"add", "subtract"} THEN ctr[c] ELSE NoCounter

InUse(c) == \/ \E e \in Emails, d \in Devices : counter[e][d] = c
            \/ \E x \in Conns : InHand(x) = c

MCView == <<config, global, limited, unlimitedIPs, counter,
            [c \in {x \in Conns : InUse(x)} |-> value[c]],
            tracked, pc, gate, refUid, [c \in Conns |-> InHand(c)], toClose, counted,
            {c \in late : pc[c] # "closed"}>>

MCUserMaps == {[e \in Emails |-> u1], [e \in Emails |-> NoUser]}
MCMapped   == {[e \in Emails |-> u1]}

MCLimitOne == {[e \in Emails |-> 1]}

MCNoPush == {}
MCPushes == {[u \in {u1} |-> {da}]}
=============================================================================
