------------------------- MODULE GlobalLimitProofs -------------------------
(***************************************************************************)
(* Theorems about GlobalLimit for any users, nodes, devices and limits:    *)
(* the types are right, and no node ever serves more devices of a user     *)
(* than the limit, whatever whitelists it has had, lost and installed      *)
(* late.                                                                   *)
(***************************************************************************)
EXTENDS GlobalLimit, FiniteSetTheorems, SequenceTheorems, TLAPS

-----------------------------------------------------------------------------
(* Types *)

\* A function from some users to devices is a list of devices.
LEMMA DevicesIntro ==
    ASSUME NEW U \in SUBSET Users, NEW f \in [U -> SUBSET Ips]
    PROVE  f \in Devices
BY DEF Devices

\* ... and every list is one.
LEMMA DevicesElim ==
    ASSUME NEW f \in Devices
    PROVE  /\ DOMAIN f \in SUBSET Users
           /\ f \in [DOMAIN f -> SUBSET Ips]
           /\ \A u \in DOMAIN f : f[u] \in SUBSET Ips
BY DEF Devices

LEMMA NothingType == Nothing \in Devices
<1>1. Nothing \in [{} -> SUBSET Ips]
    BY DEF Nothing
<1> QED
    BY <1>1, DevicesIntro

\* The devices that are connected to a node make a report.
LEMMA AliveType ==
    ASSUME TypeOK, NEW n \in Nodes
    PROVE  Alive(n) \in Devices
<1> DEFINE U == {v \in Users : connected[n][v] # {}}
<1>1. Alive(n) \in [U -> SUBSET Ips]
    BY DEF Alive, TypeOK
<1> QED
    BY <1>1, DevicesIntro

\* The devices with a slot are devices, ...
LEMMA TakenType ==
    ASSUME TypeOK, NEW u \in Users
    PROVE  Taken(u) \in SUBSET Ips
BY DEF TypeOK, Taken

\* ... and the whitelist that is read is a list of them.
LEMMA WhitelistType ==
    ASSUME TypeOK
    PROVE  Whitelist \in Devices
<1> DEFINE U == {v \in Users : ~LeftOut(v)}
<1>1. Whitelist \in [U -> SUBSET Ips]
    BY TakenType DEF Whitelist
<1> QED
    BY <1>1, DevicesIntro

\* Without one of its users a report is a report.
LEMMA DoneType ==
    ASSUME TypeOK, NEW n \in Nodes, NEW u \in Users, Done(n, u)
    PROVE  todo' \in [Nodes -> Devices]
<1> DEFINE U == DOMAIN todo[n] \ {u}
           f == [v \in U |-> todo[n][v]]
<1>1. todo[n] \in Devices
    BY DEF TypeOK
<1>2. f \in [U -> SUBSET Ips] /\ U \in SUBSET Users
    BY <1>1, DevicesElim
<1>3. f \in Devices
    BY <1>2, DevicesIntro
<1>4. todo' = [todo EXCEPT ![n] = f]
    BY DEF Done
<1> HIDE DEF f
<1> QED
    BY <1>3, <1>4 DEF TypeOK

\* Init has the types.
LEMMA TypeInit == Init => TypeOK
<1> SUFFICES ASSUME Init PROVE TypeOK
    OBVIOUS
<1>1. sent = [n \in Nodes |-> Nothing] /\ slots = [u \in Users |-> {}]
    BY DEF Init, Panel!Init, Nothing
<1>2. up \in [Nodes -> Seq(Devices)]
    <2>1. <<>> \in Seq(Devices)
        BY EmptySeq
    <2> QED
        BY <2>1 DEF Init
<1> QED
    BY <1>1, <1>2, NothingType, GlobalLimitAssumption DEF Init, TypeOK

-----------------------------------------------------------------------------
(* Every step keeps the types *)

\* The steps of a node.
LEMMA TypeNode ==
    ASSUME TypeOK, NEW n \in Nodes,
           \/ \E u \in Users, d \in Reach[n] : Connect(n, u, d) \/ Leave(n, u, d)
           \/ Flush(n)
           \/ \E k \in Channels : Install(n, k)
           \/ Expire(n)
    PROVE  TypeOK'
<1> USE DEF atNode, atPanel
<1>1. ASSUME NEW u \in Users, NEW d \in Reach[n], Connect(n, u, d) PROVE TypeOK'
    <2>1. d \in Ips
        BY GlobalLimitAssumption
    <2>2. connected' \in [Nodes -> [Users -> SUBSET Ips]]
        BY <1>1, <2>1 DEF Connect, TypeOK
    <2>3. moves' \in 0 .. MaxMoves
        BY <1>1, GlobalLimitAssumption DEF Connect, TypeOK
    <2> QED
        BY <1>1, <2>2, <2>3 DEF Connect, TypeOK
<1>2. ASSUME NEW u \in Users, NEW d \in Reach[n], Leave(n, u, d) PROVE TypeOK'
    BY <1>2 DEF Leave, TypeOK
<1>3. CASE Flush(n)
    <2>1. Alive(n) \in Devices
        BY AliveType
    <2>2. flushed' \in [Nodes -> Devices]
        BY <1>3, <2>1 DEF Flush, TypeOK
    <2>3. Append(up[n], Alive(n)) \in Seq(Devices)
        BY <2>1, AppendProperties DEF TypeOK
    <2>4. up' \in [Nodes -> Seq(Devices)]
        BY <1>3, <2>3 DEF Flush, TypeOK
    <2> QED
        BY <1>3, <2>2, <2>4 DEF Flush, TypeOK
<1>4. ASSUME NEW k \in Channels, Install(n, k) PROVE TypeOK'
    <2>1. PICK w \in mail[n][k] :
              /\ list' = [list EXCEPT ![n] = w]
              /\ connected' = [connected EXCEPT
                     ![n] = [u \in Users |->
                                IF u \in DOMAIN w THEN @[u] \cap w[u] ELSE @[u]]]
              /\ mail' = [mail EXCEPT ![n][k] = {}]
              /\ UNCHANGED <<flushed, up, atPanel, moves>>
        BY <1>4 DEF Install
    <2>2. w \in Devices
        BY <2>1 DEF TypeOK
    <2>3. mail' \in [Nodes -> [Channels -> SUBSET Devices]]
        BY <2>1 DEF TypeOK
    <2>4. connected' \in [Nodes -> [Users -> SUBSET Ips]]
        BY <2>1 DEF TypeOK
    <2>5. list' \in [Nodes -> Devices]
        BY <2>1, <2>2 DEF TypeOK
    <2> QED
        BY <2>1, <2>3, <2>4, <2>5 DEF TypeOK
<1>5. CASE Expire(n)
    BY <1>5, NothingType DEF Expire, TypeOK
<1> QED
    BY <1>1, <1>2, <1>3, <1>4, <1>5

\* The panel receives a report.
LEMMA TypeReceive ==
    ASSUME TypeOK, NEW n \in Nodes, Receive(n)
    PROVE  TypeOK'
<1> USE DEF atNode
<1>1. PICK p : p = Head(up[n])
    OBVIOUS
<1>2. p \in Devices /\ Tail(up[n]) \in Seq(Devices)
    BY <1>1, HeadTailProperties DEF Receive, TypeOK
<1>3. /\ Panel!Send(n, p)
      /\ todo' = [todo EXCEPT ![n] = p]
      /\ gone' = [gone EXCEPT ![n] =
                     {u \in Users \ DOMAIN p : \E d \in Ips : <<n, d>> \in slots[u]}]
      /\ up' = [up EXCEPT ![n] = Tail(@)]
      /\ UNCHANGED <<atNode, pushPending, mail, moves>>
    BY <1>1 DEF Receive
<1>4. sent' = [sent EXCEPT ![n] = p] /\ slots' = slots
    BY <1>3 DEF Panel!Send
<1>5. up' \in [Nodes -> Seq(Devices)]
    BY <1>2, <1>3 DEF TypeOK
<1>6. sent' \in [Nodes -> Devices] /\ todo' \in [Nodes -> Devices]
    BY <1>2, <1>3, <1>4 DEF TypeOK
<1>7. gone' \in [Nodes -> SUBSET Users]
    BY <1>3 DEF TypeOK
<1> QED
    BY <1>3, <1>4, <1>5, <1>6, <1>7 DEF TypeOK

\* It takes a missing user's slots away.
LEMMA TypeDrop ==
    ASSUME TypeOK, NEW n \in Nodes, NEW u \in Users, Drop(n, u)
    PROVE  /\ TypeOK'
           /\ slots' = [slots EXCEPT ![u] = Panel!Others(u, n)]
<1>1. slots' = [slots EXCEPT ![u] = Panel!Others(u, n) \cup ({n} \X {})] /\ sent' = sent
    BY DEF Drop, Panel!Drop, Panel!Give
<1>2. Panel!Others(u, n) \subseteq slots[u]
    BY DEF Panel!Others
<1>3. slots' = [slots EXCEPT ![u] = Panel!Others(u, n)]
    BY <1>1
<1>4. slots' \in [Users -> SUBSET (Nodes \X Ips)]
    BY <1>2, <1>3 DEF TypeOK
<1> QED
    BY <1>1, <1>3, <1>4 DEF Drop, TypeOK, atNode

\* It sets the slots of a reported user.
LEMMA TypeSet ==
    ASSUME TypeOK, NEW n \in Nodes, NEW u \in Users, Set(n, u)
    PROVE  TypeOK'
<1> USE DEF atNode
<1>1. PICK S : S = todo[n][u]
    OBVIOUS
<1>2. S \in SUBSET Ips
    BY <1>1, DevicesElim DEF Set, TypeOK
<1>3. PICK K : /\ Panel!Report(u, n, S, K)
               /\ pushPending' = IF K # S THEN Nodes ELSE pushPending
    BY <1>1 DEF Set
<1>4. /\ K \subseteq S
      /\ slots' = [slots EXCEPT ![u] = Panel!Others(u, n) \cup ({n} \X K)]
      /\ sent' = [sent EXCEPT ![n] = [v \in DOMAIN @ \cup {u} |->
                                         IF v = u THEN S ELSE @[v]]]
    BY <1>3 DEF Panel!Report, Panel!Give
<1>5. Panel!Others(u, n) \subseteq slots[u]
    BY DEF Panel!Others
<1>6. slots' \in [Users -> SUBSET (Nodes \X Ips)]
    BY <1>2, <1>4, <1>5 DEF TypeOK
<1>7. sent' \in [Nodes -> Devices]
    <2> DEFINE U == DOMAIN sent[n] \cup {u}
               f == [v \in U |-> IF v = u THEN S ELSE sent[n][v]]
    <2>1. sent[n] \in Devices
        BY DEF TypeOK
    <2>2. f \in [U -> SUBSET Ips] /\ U \in SUBSET Users
        BY <1>2, <2>1, DevicesElim
    <2>3. f \in Devices
        BY <2>2, DevicesIntro
    <2>4. sent' = [sent EXCEPT ![n] = f]
        BY <1>4
    <2> HIDE DEF f
    <2> QED
        BY <2>3, <2>4 DEF TypeOK
<1>8. todo' \in [Nodes -> Devices]
    BY DoneType DEF Set
<1>9. pushPending' \in SUBSET Nodes
    BY <1>3 DEF TypeOK
<1> QED
    BY <1>6, <1>7, <1>8, <1>9 DEF Set, TypeOK

\* It skips a user whose lock is taken, or answers with the whitelist.
LEMMA TypeSkip ==
    ASSUME TypeOK, NEW n \in Nodes, NEW u \in Users, Skip(n, u)
    PROVE  TypeOK'
<1>1. todo' \in [Nodes -> Devices]
    BY DoneType DEF Skip
<1> QED
    BY <1>1 DEF Skip, TypeOK, atNode

LEMMA TypeRead ==
    ASSUME TypeOK, NEW n \in Nodes, NEW k \in Channels, Read(n, k)
    PROVE  TypeOK'
<1>1. Whitelist \in Devices
    BY WhitelistType
<1>2. mail' \in [Nodes -> [Channels -> SUBSET Devices]]
    BY <1>1 DEF Read, TypeOK
<1>3. pushPending' \in SUBSET Nodes
    BY DEF Read, TypeOK
<1> QED
    BY <1>2, <1>3 DEF Read, TypeOK, atNode

LEMMA TypeStep == TypeOK /\ [Next]_vars => TypeOK'
<1> SUFFICES ASSUME TypeOK, [Next]_vars PROVE TypeOK'
    OBVIOUS
<1>1. CASE UNCHANGED vars
    BY <1>1 DEF TypeOK, vars, atNode, atPanel
<1>2. CASE Next
    <2> PICK n \in Nodes :
            \/ Flush(n)
            \/ Expire(n)
            \/ Receive(n)
            \/ \E u \in Users :
                   \/ \E d \in Reach[n] : Connect(n, u, d) \/ Leave(n, u, d)
                   \/ Drop(n, u)
                   \/ Set(n, u)
                   \/ Skip(n, u)
            \/ \E k \in Channels : Read(n, k) \/ Install(n, k)
        BY <1>2 DEF Next
    <2> QED
        BY TypeNode, TypeReceive, TypeDrop, TypeSet, TypeSkip, TypeRead
<1> QED
    BY <1>1, <1>2

\* Every variable keeps its type, for any number of nodes, users and devices.
THEOREM TypeCorrect == Spec => []TypeOK
BY TypeInit, TypeStep, PTL DEF Spec

-----------------------------------------------------------------------------
(* The limit of a node *)

\* A device occupies a node if it is connected, or may connect because it is on
\* the whitelist in force.
Known(n, u) == connected[n][u] \cup (IF u \in DOMAIN list[n] THEN list[n][u] ELSE {})

Fits(S, u) == Cardinality(S) <= DeviceLimit[u]

\* What a node serves is within the limit because what it may serve is, and that
\* because of the whitelists on their way, and of the slots they are made from.
LimitInv ==
    /\ TypeOK
    /\ \A u \in Limited :
           /\ Fits(Taken(u), u)
           /\ \A n \in Nodes :
                  /\ Fits(Known(n, u), u)
                  /\ \A k \in Channels : \A w \in mail[n][k] : u \in DOMAIN w => Fits(w[u], u)

\* A limit is a positive number, and sets of devices are finite.
LEMMA Sizes ==
    ASSUME NEW u \in Limited, NEW S \in SUBSET Ips
    PROVE  /\ u \in Users
           /\ DeviceLimit[u] \in Nat /\ DeviceLimit[u] > 0
           /\ IsFiniteSet(S) /\ Cardinality(S) \in Nat
BY FS_Subset, FS_CardinalityType, GlobalLimitAssumption DEF Limited

\* A part of what fits does.
LEMMA PartFits ==
    ASSUME NEW u \in Limited, NEW S \in SUBSET Ips, NEW T \in SUBSET S, Fits(S, u)
    PROVE  Fits(T, u)
<1>1. Cardinality(T) <= Cardinality(S) /\ T \in SUBSET Ips
    BY Sizes, FS_Subset
<1>2. Cardinality(T) \in Nat /\ Cardinality(S) \in Nat /\ DeviceLimit[u] \in Nat
    BY <1>1, Sizes
<1> QED
    BY <1>1, <1>2 DEF Fits

LEMMA EmptyFits ==
    ASSUME NEW u \in Limited
    PROVE  Fits({}, u)
BY Sizes, FS_EmptySet DEF Fits

\* One device more fits if there is room.
LEMMA OneMoreFits ==
    ASSUME NEW u \in Limited, NEW S \in SUBSET Ips, NEW d \in Ips,
           Cardinality(S) < DeviceLimit[u]
    PROVE  Fits(S \cup {d}, u)
<1>1. Cardinality(S \cup {d}) = IF d \in S THEN Cardinality(S) ELSE Cardinality(S) + 1
    BY Sizes, FS_AddElement
<1> QED
    BY <1>1, Sizes DEF Fits

LEMMA KnownType ==
    ASSUME TypeOK, NEW n \in Nodes, NEW u \in Users
    PROVE  Known(n, u) \in SUBSET Ips
<1>1. list[n] \in Devices
    BY DEF TypeOK
<1>2. u \in DOMAIN list[n] => list[n][u] \in SUBSET Ips
    BY <1>1, DevicesElim
<1> QED
    BY <1>2 DEF Known, TypeOK

LEMMA LimitInit == Init => LimitInv
<1> SUFFICES ASSUME Init PROVE LimitInv
    OBVIOUS
<1>1. TypeOK
    BY TypeInit
<1> SUFFICES ASSUME NEW u \in Limited
             PROVE  /\ Fits(Taken(u), u)
                    /\ \A n \in Nodes :
                           /\ Fits(Known(n, u), u)
                           /\ \A k \in Channels : \A w \in mail[n][k] :
                                  u \in DOMAIN w => Fits(w[u], u)
    BY <1>1 DEF LimitInv
<1>2. u \in Users
    BY DEF Limited
<1>3. Taken(u) = {}
    BY <1>2 DEF Init, Panel!Init, Taken
<1>4. \A n \in Nodes : Known(n, u) = {}
    BY <1>2 DEF Init, Known, Nothing
<1>5. \A n \in Nodes, k \in Channels : mail[n][k] = {}
    BY DEF Init
<1> QED
    BY <1>3, <1>4, <1>5, EmptyFits

\* What the invariant says of one user, step by step: the slots, what the nodes
\* know, and the mail.
SlotsFit(u) == Fits(Taken(u), u)
NodesFit(u) == \A n \in Nodes : Fits(Known(n, u), u)
MailFits(u) == \A n \in Nodes, k \in Channels : \A w \in mail[n][k] :
                   u \in DOMAIN w => Fits(w[u], u)

LEMMA LimitParts ==
    LimitInv <=> TypeOK /\ \A u \in Limited : SlotsFit(u) /\ NodesFit(u) /\ MailFits(u)
BY DEF LimitInv, SlotsFit, NodesFit, MailFits

\* A step that leaves slots, mail and nodes alone keeps the parts.
LEMMA SlotsStay ==
    ASSUME LimitInv, NEW u \in Limited, slots' = slots
    PROVE  SlotsFit(u)'
BY LimitParts DEF SlotsFit, Taken, Fits

LEMMA NodesStay ==
    ASSUME LimitInv, NEW u \in Limited, connected' = connected, list' = list
    PROVE  NodesFit(u)'
BY LimitParts DEF NodesFit, Known, Fits

LEMMA MailStays ==
    ASSUME LimitInv, NEW u \in Limited, mail' = mail
    PROVE  MailFits(u)'
BY LimitParts DEF MailFits, Fits

\* The gate lets in a device that is on the whitelist, one that is connected, or
\* one for which there is room.
LEMMA GateFits ==
    ASSUME LimitInv, NEW u \in Limited, NEW n \in Nodes, NEW d \in Ips,
           Admits(n, u, d)
    PROVE  Fits(Known(n, u) \cup {d}, u)
<1>1. TypeOK /\ u \in Users /\ Fits(Known(n, u), u) /\ DeviceLimit[u] # 0
    BY LimitParts, Sizes DEF NodesFit, Limited
<1>2. Known(n, u) \in SUBSET Ips
    BY <1>1, KnownType
<1>3. CASE d \in Known(n, u)
    <2>1. Known(n, u) \cup {d} = Known(n, u)
        BY <1>3
    <2> QED
        BY <2>1, <1>1
<1>4. CASE d \notin Known(n, u)
    <2>1. Cardinality(Known(n, u)) < DeviceLimit[u]
        <3>1. CASE u \in DOMAIN list[n]
            <4>1. Known(n, u) = list[n][u] \cup connected[n][u]
                BY <3>1 DEF Known
            <4> QED
                BY <1>1, <1>4, <3>1, <4>1 DEF Admits, WhitelistAdmits
        <3>2. CASE u \notin DOMAIN list[n]
            <4>1. Known(n, u) = connected[n][u]
                BY <3>2 DEF Known
            <4> QED
                BY <1>1, <1>4, <3>2, <4>1 DEF Admits, LocalOnlyAdmits
        <3> QED
            BY <3>1, <3>2
    <2> QED
        BY <1>2, <2>1, OneMoreFits
<1> QED
    BY <1>3, <1>4

LEMMA LimitConnect ==
    ASSUME LimitInv, NEW n \in Nodes, NEW v \in Users, NEW d \in Reach[n],
           Connect(n, v, d), NEW u \in Limited
    PROVE  SlotsFit(u)' /\ NodesFit(u)' /\ MailFits(u)'
<1>0. TypeOK /\ u \in Users /\ d \in Ips
    BY LimitParts, Sizes, GlobalLimitAssumption DEF Limited
<1>1. SlotsFit(u)' /\ MailFits(u)'
    BY SlotsStay, MailStays DEF Connect, atPanel
<1>2. ASSUME NEW m \in Nodes PROVE Fits(Known(m, u), u)'
    <2>1. Fits(Known(m, u), u)
        BY LimitParts DEF NodesFit
    <2>2. CASE m = n /\ v = u
        <3>1. Known(n, u)' = Known(n, u) \cup {d}
            BY <1>0, <2>2 DEF Connect, Known, TypeOK
        <3>2. Fits(Known(n, u) \cup {d}, u)
            BY <1>0, <2>2, GateFits DEF Connect
        <3> QED
            BY <2>2, <3>1, <3>2 DEF Fits
    <2>3. CASE ~(m = n /\ v = u)
        <3>1. Known(m, u)' = Known(m, u)
            BY <1>0, <2>3 DEF Connect, Known, TypeOK
        <3> QED
            BY <2>1, <3>1 DEF Fits
    <2> QED
        BY <2>2, <2>3
<1> QED
    BY <1>1, <1>2 DEF NodesFit

\* What a device, or a whitelist, gives up makes room.
LEMMA LimitShrink ==
    ASSUME LimitInv, TypeOK', NEW u \in Limited,
           \A m \in Nodes : Known(m, u)' \subseteq Known(m, u)
    PROVE  NodesFit(u)'
<1>1. ASSUME NEW m \in Nodes PROVE Fits(Known(m, u), u)'
    <2>1. TypeOK /\ u \in Users /\ Fits(Known(m, u), u)
        BY LimitParts DEF NodesFit, Limited
    <2>2. PICK S : S = Known(m, u)'
        OBVIOUS
    <2>3. S \in SUBSET Known(m, u)
        BY <2>2
    <2>4. Fits(S, u)
        BY <2>1, <2>3, KnownType, PartFits
    <2> QED
        BY <2>2, <2>4 DEF Fits
<1> QED
    BY <1>1 DEF NodesFit

LEMMA LimitLeave ==
    ASSUME LimitInv, NEW n \in Nodes, NEW v \in Users, NEW d \in Reach[n],
           Leave(n, v, d), TypeOK', NEW u \in Limited
    PROVE  SlotsFit(u)' /\ NodesFit(u)' /\ MailFits(u)'
<1>1. SlotsFit(u)' /\ MailFits(u)'
    BY SlotsStay, MailStays DEF Leave, atPanel
<1>2. TypeOK /\ u \in Users
    BY LimitParts DEF Limited
<1>3. \A m \in Nodes : Known(m, u)' \subseteq Known(m, u)
    BY <1>2 DEF Leave, Known, TypeOK
<1> QED
    BY <1>1, <1>3, LimitShrink

LEMMA LimitExpire ==
    ASSUME LimitInv, NEW n \in Nodes, Expire(n), TypeOK', NEW u \in Limited
    PROVE  SlotsFit(u)' /\ NodesFit(u)' /\ MailFits(u)'
<1>1. SlotsFit(u)' /\ MailFits(u)'
    BY SlotsStay, MailStays DEF Expire, atPanel
<1>2. TypeOK /\ u \in Users
    BY LimitParts DEF Limited
<1>3. \A m \in Nodes : Known(m, u)' \subseteq Known(m, u)
    BY <1>2 DEF Expire, Known, Nothing, TypeOK
<1> QED
    BY <1>1, <1>3, LimitShrink

\* A whitelist that is installed replaces what the node knew, or leaves it as if
\* there were none.
LEMMA LimitInstall ==
    ASSUME LimitInv, NEW n \in Nodes, NEW k \in Channels, Install(n, k),
           NEW u \in Limited
    PROVE  SlotsFit(u)' /\ NodesFit(u)' /\ MailFits(u)'
<1>1. PICK w \in mail[n][k] :
          /\ list' = [list EXCEPT ![n] = w]
          /\ connected' = [connected EXCEPT
                 ![n] = [v \in Users |->
                            IF v \in DOMAIN w THEN @[v] \cap w[v] ELSE @[v]]]
          /\ mail' = [mail EXCEPT ![n][k] = {}]
          /\ UNCHANGED <<flushed, up, atPanel, moves>>
    BY DEF Install
<1>2. TypeOK /\ u \in Users
    BY LimitParts DEF Limited
<1>3. SlotsFit(u)'
    BY <1>1, SlotsStay DEF atPanel
<1>4. MailFits(u)'
    <2>1. \A m \in Nodes, c \in Channels : mail'[m][c] \subseteq mail[m][c]
        BY <1>1, <1>2 DEF TypeOK
    <2>2. MailFits(u)
        BY LimitParts
    <2> QED
        BY <2>1, <2>2 DEF MailFits, Fits
<1>5. ASSUME NEW m \in Nodes PROVE Fits(Known(m, u), u)'
    <2>1. Fits(Known(m, u), u) /\ (u \in DOMAIN w => Fits(w[u], u))
        BY LimitParts, <1>1 DEF NodesFit, MailFits
    <2>2. CASE m # n
        <3>1. Known(m, u)' = Known(m, u)
            BY <1>1, <1>2, <2>2 DEF Known, TypeOK
        <3> QED
            BY <2>1, <3>1 DEF Fits
    <2>3. CASE m = n /\ u \in DOMAIN w
        <3>1. list'[n] = w /\ connected'[n][u] = connected[n][u] \cap w[u]
            BY <1>1, <1>2, <2>3 DEF TypeOK
        <3>2. Known(n, u)' = w[u]
            BY <2>3, <3>1 DEF Known
        <3> QED
            BY <2>1, <2>3, <3>2 DEF Fits
    <2>4. CASE m = n /\ u \notin DOMAIN w
        <3>1. list'[n] = w /\ connected'[n][u] = connected[n][u]
            BY <1>1, <1>2, <2>4 DEF TypeOK
        <3>2. PICK S : S = Known(n, u)'
            OBVIOUS
        <3>3. S = connected[n][u]
            BY <2>4, <3>1, <3>2 DEF Known
        <3>4. S \in SUBSET Known(n, u)
            BY <3>3 DEF Known
        <3>5. Fits(S, u)
            BY <1>2, <2>1, <2>4, <3>4, KnownType, PartFits
        <3> QED
            BY <2>4, <3>2, <3>5 DEF Fits
    <2> QED
        BY <2>2, <2>3, <2>4
<1> QED
    BY <1>3, <1>4, <1>5 DEF NodesFit

\* A node that does not report and a panel that does not answer: only the slots
\* matter.
LEMMA LimitPanel ==
    ASSUME LimitInv, TypeOK', NEW u \in Limited,
           UNCHANGED <<connected, list, mail>>,
           \/ slots' = slots
           \/ \E n \in Nodes, v \in Users : Drop(n, v) \/ Set(n, v)
    PROVE  SlotsFit(u)' /\ NodesFit(u)' /\ MailFits(u)'
<1>1. NodesFit(u)' /\ MailFits(u)'
    BY NodesStay, MailStays
<1>2. TypeOK /\ u \in Users /\ Fits(Taken(u), u)
    BY LimitParts DEF SlotsFit, Limited
<1>3. CASE slots' = slots
    BY <1>1, <1>3, SlotsStay
<1>4. ASSUME NEW n \in Nodes, NEW v \in Users, Drop(n, v) PROVE SlotsFit(u)'
    <2>1. slots' = [slots EXCEPT ![v] = Panel!Others(v, n)]
        BY <1>2, <1>4, TypeDrop
    <2>2. PICK S : S = Taken(u)'
        OBVIOUS
    <2>3. slots'[u] \subseteq slots[u]
        BY <1>2, <2>1 DEF Panel!Others, TypeOK
    <2>4. S \in SUBSET Taken(u)
        BY <2>2, <2>3 DEF Taken
    <2>5. Fits(S, u)
        BY <1>2, <2>4, TakenType, PartFits
    <2> QED
        BY <2>2, <2>5 DEF SlotsFit, Fits
<1>5. ASSUME NEW n \in Nodes, NEW v \in Users, Set(n, v) PROVE SlotsFit(u)'
    <2>1. PICK S : S = todo[n][v]
        OBVIOUS
    <2>2. PICK K : Panel!Report(v, n, S, K)
        BY <1>5, <2>1 DEF Set
    <2>3. /\ slots' = [slots EXCEPT ![v] = Panel!Others(v, n) \cup ({n} \X K)]
          /\ DeviceLimit[v] > 0 =>
                 Panel!Cardinality(Panel!IpsIn(Panel!Others(v, n)) \cup K) <= DeviceLimit[v]
        BY <2>2 DEF Panel!Report, Panel!Give
    <2>4. CASE v # u
        <3>1. slots'[u] = slots[u]
            BY <1>2, <2>3, <2>4 DEF TypeOK
        <3> QED
            BY <1>2, <3>1 DEF SlotsFit, Taken, Fits
    <2>5. CASE v = u
        <3>1. slots'[u] = Panel!Others(u, n) \cup ({n} \X K)
            BY <1>2, <2>3, <2>5 DEF TypeOK
        <3>2. Taken(u)' = Panel!IpsIn(Panel!Others(u, n)) \cup K
            <4>1. PICK A : A = Panel!Others(u, n)
                OBVIOUS
            <4>2. Panel!IpsIn(A \cup ({n} \X K)) = Panel!IpsIn(A) \cup K
                <5>1. ASSUME NEW d \in K PROVE d \in Panel!IpsIn(A \cup ({n} \X K))
                    <6>1. <<n, d>> \in {n} \X K /\ <<n, d>>[2] = d
                        BY <5>1
                    <6> QED
                        BY <6>1 DEF Panel!IpsIn
                <5>2. ASSUME NEW s \in {n} \X K PROVE s[2] \in K
                    BY <5>2
                <5> QED
                    BY <5>1, <5>2 DEF Panel!IpsIn
            <4>3. Taken(u)' = Panel!IpsIn(A \cup ({n} \X K))
                BY <3>1, <4>1 DEF Taken, Panel!IpsIn
            <4> QED
                BY <4>1, <4>2, <4>3
        <3>3. Panel!Cardinality(Taken(u)') = Cardinality(Taken(u)')
            BY DEF Panel!Cardinality, Cardinality
        <3>4. DeviceLimit[u] > 0
            BY Sizes, EmptyFits DEF Limited
        <3> QED
            BY <2>3, <2>5, <3>2, <3>3, <3>4 DEF SlotsFit, Fits
    <2> QED
        BY <2>4, <2>5
<1> QED
    BY <1>1, <1>3, <1>4, <1>5

\* The whitelist of a user is what has slots.
LEMMA LimitRead ==
    ASSUME LimitInv, NEW n \in Nodes, NEW k \in Channels, Read(n, k),
           NEW u \in Limited
    PROVE  SlotsFit(u)' /\ NodesFit(u)' /\ MailFits(u)'
<1>1. SlotsFit(u)' /\ NodesFit(u)'
    BY SlotsStay, NodesStay DEF Read, atNode
<1>2. TypeOK /\ u \in Users /\ Fits(Taken(u), u) /\ MailFits(u)
    BY LimitParts DEF SlotsFit, Limited
<1>3. u \in DOMAIN Whitelist => Whitelist[u] = Taken(u)
    BY DEF Whitelist
<1>4. ASSUME NEW m \in Nodes, NEW c \in Channels, NEW w \in mail'[m][c], u \in DOMAIN w
      PROVE  Fits(w[u], u)
    <2>1. w \in mail[m][c] \/ w = Whitelist
        BY <1>2, <1>4 DEF Read, TypeOK
    <2> QED
        BY <1>2, <1>3, <1>4, <2>1 DEF MailFits
<1>5. MailFits(u)'
    BY <1>4 DEF MailFits, Fits
<1> QED
    BY <1>1, <1>5

LEMMA LimitStep == LimitInv /\ [Next]_vars => LimitInv'
<1> SUFFICES ASSUME LimitInv, [Next]_vars PROVE LimitInv'
    OBVIOUS
<1>1. TypeOK'
    BY LimitParts, TypeStep
<1>2. ASSUME NEW u \in Limited PROVE SlotsFit(u)' /\ NodesFit(u)' /\ MailFits(u)'
    <2>1. CASE UNCHANGED vars
        BY <1>1, <2>1, LimitPanel DEF vars, atNode, atPanel
    <2>2. CASE Next
        <3> PICK n \in Nodes :
                \/ Flush(n)
                \/ Expire(n)
                \/ Receive(n)
                \/ \E v \in Users :
                       \/ \E d \in Reach[n] : Connect(n, v, d) \/ Leave(n, v, d)
                       \/ Drop(n, v)
                       \/ Set(n, v)
                       \/ Skip(n, v)
                \/ \E k \in Channels : Read(n, k) \/ Install(n, k)
            BY <2>2 DEF Next
        <3>1. CASE Flush(n)
            BY <1>1, <3>1, LimitPanel DEF Flush, atPanel
        <3>2. CASE Receive(n)
            <4>1. PICK p : Panel!Send(n, p)
                BY <3>2 DEF Receive
            <4>2. slots' = slots
                BY <4>1 DEF Panel!Send
            <4> QED
                BY <1>1, <3>2, <4>2, LimitPanel DEF Receive, atNode
        <3>3. ASSUME NEW v \in Users, Skip(n, v)
              PROVE  SlotsFit(u)' /\ NodesFit(u)' /\ MailFits(u)'
            BY <1>1, <3>3, LimitPanel DEF Skip, atNode
        <3>4. ASSUME NEW v \in Users, Drop(n, v) \/ Set(n, v)
              PROVE  SlotsFit(u)' /\ NodesFit(u)' /\ MailFits(u)'
            <4>1. UNCHANGED <<connected, list, mail>>
                BY <3>4 DEF Drop, Set, atNode
            <4> QED
                BY <1>1, <3>4, <4>1, LimitPanel
        <3> QED
            BY <1>1, <3>1, <3>2, <3>3, <3>4, LimitExpire, LimitConnect, LimitLeave,
               LimitRead, LimitInstall
    <2> QED
        BY <2>1, <2>2
<1>3. \A u \in Limited : (SlotsFit(u) /\ NodesFit(u) /\ MailFits(u))'
    BY <1>2
<1> QED
    BY <1>1, <1>3 DEF LimitInv, SlotsFit, NodesFit, MailFits, Limited

\* No node ever serves more devices of a user than the limit, for any number of
\* nodes, devices and slots, whatever whitelists it has had, lost and installed
\* late: those it takes from a list and those it has let in without one are
\* together within the limit.
THEOREM NodeLimitCorrect == Spec => []NodeWithinLimit
<1>1. Spec => []LimitInv
    BY LimitInit, LimitStep, PTL DEF Spec
<1>2. LimitInv => NodeWithinLimit
    <2> SUFFICES ASSUME LimitInv, NEW n \in Nodes, NEW u \in Limited
                 PROVE  Cardinality(connected[n][u]) <= DeviceLimit[u]
        BY DEF NodeWithinLimit
    <2>1. TypeOK /\ u \in Users /\ Fits(Known(n, u), u)
        BY LimitParts DEF NodesFit, Limited
    <2>2. connected[n][u] \in SUBSET Known(n, u)
        BY DEF Known
    <2>3. Fits(connected[n][u], u)
        BY <2>1, <2>2, KnownType, PartFits
    <2> QED
        BY <2>3 DEF Fits
<1> QED
    BY <1>1, <1>2, PTL
=============================================================================
