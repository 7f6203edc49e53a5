---------------------------- MODULE GlobalLimit ----------------------------
(***************************************************************************)
(* The device limit over all nodes, the loop that this system is for.      *)
(* Every node gates new connections by the whitelist it holds and by what  *)
(* is connected to it (conntracker.go), reports what is connected when     *)
(* that has changed (tracker.go, service.go), and installs the whitelists  *)
(* it polls or is sent.  The panel gives slots to reported devices         *)
(* (DeviceStateService.php).                                               *)
(*                                                                         *)
(* The panel is DeviceSlots, which DeviceState implements: a report of a   *)
(* user is one step.  The gate and the sweep of a node are one step each   *)
(* here; ConnTracker has what happens in between.  Reports arrive, in      *)
(* order: AliveReport has how they are lost, and DeviceState what lapses.  *)
(***************************************************************************)
EXTENDS Integers, Sequences, FiniteSets

CONSTANTS
    Users, Nodes, Ips,
    DeviceLimit,  \* users.device_limit, 0 for "no limit"
    Reach,        \* node -> devices that use it, bound of the model
    MaxMoves,     \* devices that connect, bound of the model
    MaySkip,      \* a report may find the user's lock taken
    MayExpire     \* a node may lose its whitelist

ASSUME GlobalLimitAssumption ==
    /\ IsFiniteSet(Users) /\ IsFiniteSet(Nodes) /\ IsFiniteSet(Ips)
    /\ DeviceLimit \in [Users -> Nat]
    /\ Reach \in [Nodes -> SUBSET Ips]
    /\ MaxMoves \in Nat
    /\ {MaySkip, MayExpire} \subseteq BOOLEAN

VARIABLES
    connected,    \* node -> user -> devices that have connections
    list,         \* node -> the whitelist in force, of some users
    flushed,      \* node -> what FlushAliveIPs handed out last
    up,           \* node -> reports on their way to the panel
    slots, sent,  \* the panel's store, see DeviceSlots
    gone,         \* node -> users the panel still has to drop for its report
    todo,         \* node -> users it still has to set
    pushPending,  \* device:push_pending_nodes
    mail,         \* node -> the whitelists on their way to it
    moves         \* devices that connected

Panel == INSTANCE DeviceSlots

atNode  == <<connected, list, flushed>>
atPanel == <<slots, sent, gone, todo, pushPending>>
vars    == <<atNode, up, atPanel, mail, moves>>

Devices  == UNION {[U -> SUBSET Ips] : U \in SUBSET Users}
Nothing  == [u \in {} |-> {}]
Channels == {"poll", "push"}

TypeOK ==
    /\ connected \in [Nodes -> [Users -> SUBSET Ips]]
    /\ list \in [Nodes -> Devices]
    /\ flushed \in [Nodes -> Devices]
    /\ up \in [Nodes -> Seq(Devices)]
    /\ slots \in [Users -> SUBSET (Nodes \X Ips)]
    /\ sent \in [Nodes -> Devices]
    /\ gone \in [Nodes -> SUBSET Users]
    /\ todo \in [Nodes -> Devices]
    /\ pushPending \in SUBSET Nodes
    /\ mail \in [Nodes -> [Channels -> SUBSET Devices]]
    /\ moves \in 0 .. MaxMoves

Init ==
    /\ connected = [n \in Nodes |-> [u \in Users |-> {}]]
    /\ list = [n \in Nodes |-> Nothing]
    /\ flushed = [n \in Nodes |-> Nothing]
    /\ up = [n \in Nodes |-> <<>>]
    /\ Panel!Init
    /\ gone = [n \in Nodes |-> {}]
    /\ todo = [n \in Nodes |-> Nothing]
    /\ pushPending = {}
    /\ mail = [n \in Nodes |-> [k \in Channels |-> {}]]
    /\ moves = 0

-----------------------------------------------------------------------------
(* The nodes *)

\* checkDeviceGate without, and with, a whitelist of the user.
LocalOnlyAdmits(n, u, d) ==
    d \in connected[n][u] \/ Cardinality(connected[n][u]) < DeviceLimit[u]

WhitelistAdmits(n, u, d) ==
    LET merged == list[n][u] \cup connected[n][u]
    IN  \/ d \in list[n][u]
        \/ /\ Cardinality(list[n][u]) < DeviceLimit[u]
           /\ d \in merged \/ Cardinality(merged) < DeviceLimit[u]

\* Mutant of Admits: a user that the whitelist leaves out is let in.
AdmitsUnlisted(n, u, d) ==
    \/ DeviceLimit[u] = 0
    \/ u \in DOMAIN list[n] => WhitelistAdmits(n, u, d)

Admits(n, u, d) ==
    \/ DeviceLimit[u] = 0
    \/ u \in DOMAIN list[n] /\ WhitelistAdmits(n, u, d)
    \/ u \notin DOMAIN list[n] /\ LocalOnlyAdmits(n, u, d)

\* A device of a user connects to a node, and passes the gate.
Connect(n, u, d) ==
    /\ moves < MaxMoves
    /\ d \notin connected[n][u]
    /\ Admits(n, u, d)
    /\ connected' = [connected EXCEPT ![n][u] = @ \cup {d}]
    /\ moves' = moves + 1
    /\ UNCHANGED <<list, flushed, up, atPanel, mail>>

\* Its last connection ends.
Leave(n, u, d) ==
    /\ d \in connected[n][u]
    /\ connected' = [connected EXCEPT ![n][u] = @ \ {d}]
    /\ UNCHANGED <<list, flushed, up, atPanel, mail, moves>>

Alive(n) == [u \in {v \in Users : connected[n][v] # {}} |-> connected[n][u]]

\* sendDeviceBatch: what is connected, unless that is what was handed out last.
Flush(n) ==
    /\ Alive(n) # flushed[n]
    /\ flushed' = [flushed EXCEPT ![n] = Alive(n)]
    /\ up' = [up EXCEPT ![n] = Append(@, Alive(n))]
    /\ UNCHANGED <<connected, list, atPanel, mail, moves>>

\* UpdateGlobalDevices: what is outside the whitelist is closed.
Install(n, k) ==
    \E w \in mail[n][k] :
        /\ list' = [list EXCEPT ![n] = w]
        /\ connected' = [connected EXCEPT
                            ![n] = [u \in Users |->
                                       IF u \in DOMAIN w THEN @[u] \cap w[u] ELSE @[u]]]
        /\ mail' = [mail EXCEPT ![n][k] = {}]
        /\ UNCHANGED <<flushed, up, atPanel, moves>>

\* A minute without a whitelist, or ClearGlobalDevices.
Expire(n) ==
    /\ MayExpire
    /\ list[n] # Nothing
    /\ list' = [list EXCEPT ![n] = Nothing]
    /\ UNCHANGED <<connected, flushed, up, atPanel, mail, moves>>

-----------------------------------------------------------------------------
(* The panel *)

Serving(n) == gone[n] # {} \/ todo[n] # Nothing

Taken(u) == {s[2] : s \in slots[u]}

\* syncNodeDevices begins with the next report of the node.
Receive(n) ==
    /\ up[n] # <<>>
    /\ ~Serving(n)
    /\ LET p == Head(up[n])
       IN  /\ Panel!Send(n, p)
           /\ todo' = [todo EXCEPT ![n] = p]
           /\ gone' = [gone EXCEPT ![n] =
                          {u \in Users \ DOMAIN p : \E d \in Ips : <<n, d>> \in slots[u]}]
    /\ up' = [up EXCEPT ![n] = Tail(@)]
    /\ UNCHANGED <<atNode, pushPending, mail, moves>>

\* A user that is missing in the report.
Drop(n, u) ==
    /\ u \in gone[n]
    /\ Panel!Drop(u, n)
    /\ gone' = [gone EXCEPT ![n] = @ \ {u}]
    /\ UNCHANGED <<atNode, up, todo, pushPending, mail, moves>>

Done(n, u) == todo' = [todo EXCEPT ![n] = [v \in DOMAIN @ \ {u} |-> @[v]]]

\* The devices of a report S that get a slot: those that have one, and others
\* as long as there is room beside all that had one before the report.
Kept(u, S) ==
    IF DeviceLimit[u] = 0 THEN {S}
    ELSE LET room  == DeviceLimit[u] - Cardinality(Taken(u))
             newer == S \ Taken(u)
         IN  {S \cap (Taken(u) \cup X) :
                 X \in {Y \in SUBSET newer :
                           Cardinality(Y) = IF Cardinality(newer) < room
                                            THEN Cardinality(newer) ELSE room}}

\* setDevices of a user of the report; when it keeps less than was reported
\* every node is to be sent the whitelist.
Set(n, u) ==
    /\ gone[n] = {}
    /\ u \in DOMAIN todo[n]
    /\ \E K \in Kept(u, todo[n][u]) :
           /\ Panel!Report(u, n, todo[n][u], K)
           /\ pushPending' = IF K # todo[n][u] THEN Nodes ELSE pushPending
    /\ Done(n, u)
    /\ UNCHANGED <<atNode, up, gone, mail, moves>>

\* The lock of the user is taken, by the report of another node.
Skip(n, u) ==
    /\ MaySkip
    /\ gone[n] = {}
    /\ u \in DOMAIN todo[n]
    /\ \E m \in Nodes \ {n} : u \in DOMAIN todo[m]
    /\ Done(n, u)
    /\ UNCHANGED <<atNode, up, slots, sent, gone, pushPending, mail, moves>>

\* Mutant of LeftOut: so is one whose slots are all taken.
LeftOutComplete(u) ==
    \/ Taken(u) = {}
    \/ DeviceLimit[u] > 0 /\ Cardinality(Taken(u)) <= DeviceLimit[u]

\* getUsersDevices: a user without devices is left out, and so is one of
\* several slots that are not all taken.
LeftOut(u) ==
    \/ Taken(u) = {}
    \/ DeviceLimit[u] > 1 /\ Cardinality(Taken(u)) < DeviceLimit[u]

\* Mutant of Whitelist: the fields as they are stored, "node:ip".
WhitelistRaw == [u \in {v \in Users : ~LeftOut(v)} |-> slots[u]]

Whitelist == [u \in {v \in Users : ~LeftOut(v)} |-> Taken(u)]

\* The devices endpoint answers the node's poll, or the websocket process sends
\* what is pending.
Read(n, k) ==
    /\ mail[n][k] = {}
    /\ k = "push" => n \in pushPending
    /\ mail' = [mail EXCEPT ![n][k] = {Whitelist}]
    /\ pushPending' = IF k = "push" THEN pushPending \ {n} ELSE pushPending
    /\ UNCHANGED <<atNode, up, slots, sent, gone, todo, moves>>

-----------------------------------------------------------------------------

Next ==
    \E n \in Nodes :
        \/ Flush(n)
        \/ Expire(n)
        \/ Receive(n)
        \/ \E u \in Users :
               \/ \E d \in Reach[n] : Connect(n, u, d) \/ Leave(n, u, d)
               \/ Drop(n, u)
               \/ Set(n, u)
               \/ Skip(n, u)
        \/ \E k \in Channels : Read(n, k) \/ Install(n, k)

Spec == Init /\ [][Next]_vars

\* The tickers of the service, the panel's workers and the network go on;
\* clients need not.  A poll is repeated, whatever the whitelist.
Fairness ==
    \A n \in Nodes :
        /\ WF_vars(Flush(n))
        /\ WF_vars(Receive(n))
        /\ \A u \in Users : WF_vars(Drop(n, u)) /\ WF_vars(Set(n, u))
        /\ \A k \in Channels : WF_vars(Read(n, k)) /\ WF_vars(Install(n, k))

FairSpec == Spec /\ Fairness

-----------------------------------------------------------------------------
(* Properties *)

Limited == {u \in Users : DeviceLimit[u] > 0}

Everywhere(u) == UNION {connected[n][u] : n \in Nodes}

\* No node serves more devices of a user than the limit, whatever whitelists
\* it has had, lost and installed late: those it takes from a list and those it
\* has let in without one are together within the limit.
NodeWithinLimit ==
    \A n \in Nodes, u \in Limited : Cardinality(connected[n][u]) <= DeviceLimit[u]

\* What the panel promises of a user whose slots are all taken: once its
\* clients stop moving, every device that is connected anywhere has a slot.
FullListPrevails ==
    \A u \in Limited :
        <>[](Cardinality(Taken(u)) = DeviceLimit[u])
            => <>[](Everywhere(u) \subseteq Taken(u))

\* README.md: with device_limit=1 only one device can be used, whatever node
\* the user connects to.
GlobalWithinLimit ==
    \A u \in Limited : Cardinality(Everywhere(u)) <= DeviceLimit[u]

\* The comment in checkDeviceGate: if another node briefly admits one device
\* more during a race, the panel trims it and pushes a close on the next report.
ExcessClosed == <>[]GlobalWithinLimit

\* The comment in nodeUserForAuth: no limit disables the node-side gate, so a
\* whitelist that lags must not cut off a device of a user without a limit.
UnlimitedUndisturbed ==
    [][\A n \in Nodes, u \in Users \ Limited :
          \A k \in Channels : Install(n, k) => connected[n][u] \subseteq connected'[n][u]]_vars
=============================================================================
