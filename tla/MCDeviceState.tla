--------------------------- MODULE MCDeviceState ---------------------------
(* Small instances of DeviceState: one user, two nodes. *)
EXTENDS DeviceState, TLC

MCLimitOne == [u \in Users |-> 1]
MCLimitTwo == [u \in Users |-> 2]

\* What others write without reading it (the nodes to push to, the counts for
\* display, what was told last) tells no two states apart.
MCView == <<allowed, reported, lock, pc, call, locked, user, ips, preferred,
            kept, reading, history>>

MCSymmetry == Permutations(Nodes) \cup Permutations(Ips) \cup Permutations(Workers)
=============================================================================
