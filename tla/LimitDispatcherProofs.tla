----------------------- MODULE LimitDispatcherProofs -----------------------
(***************************************************************************)
(* Theorems about LimitDispatcher for any connections, users, devices,     *)
(* limits and whitelists: the types are right, the number of connections   *)
(* is exact, no device of a limited user is counted too little and none of *)
(* an unlimited one too much, and a sweep leaves open only what was not    *)
(* tracked when it came.                                                   *)
(***************************************************************************)
EXTENDS LimitDispatcher, FiniteSetTheorems, TLAPS

-----------------------------------------------------------------------------
(* Types *)

\* A function from some users to devices is a whitelist.
LEMMA WhitelistIntro ==
    ASSUME NEW U \in SUBSET Users, NEW f \in [U -> SUBSET Devices]
    PROVE  f \in Whitelists
BY DEF Whitelists

\* ... and every whitelist is one.
LEMMA WhitelistElim ==
    ASSUME NEW f \in Whitelists
    PROVE  \A u \in DOMAIN f : f[u] \in SUBSET Devices
BY DEF Whitelists

LEMMA NoWhitelistType == NoWhitelist \in Whitelists /\ DOMAIN NoWhitelist = {}
<1>1. NoWhitelist \in [{} -> SUBSET Devices]
    BY DEF NoWhitelist
<1> QED
    BY <1>1, WhitelistIntro DEF NoWhitelist

\* A dispatcher that begins, and one that begins anew.
LEMMA EmptyType ==
    /\ [e \in Emails |-> NoUser] \in [Emails -> Users \cup {NoUser}]
    /\ [e \in Emails |-> 0] \in [Emails -> Nat]
    /\ [e \in Emails |-> [d \in Devices |-> 0]] \in [Emails -> [Devices -> Nat]]
    /\ [e \in Emails |-> [d \in Devices |-> NoCounter]]
           \in [Emails -> [Devices -> Conns \cup {NoCounter}]]
    /\ [c \in Conns |-> 0] \in [Conns -> Int]
    /\ [c \in Conns |-> 0] \in [Conns -> Nat]
    /\ [c \in Conns |-> FALSE] \in [Conns -> BOOLEAN]
    /\ [c \in Conns |-> {}] \in [Conns -> SUBSET Devices]
    /\ [c \in Conns |-> NoCounter] \in [Conns -> Conns \cup {NoCounter}]
    /\ [c \in Conns |-> NoUser] \in [Conns -> Users \cup {NoUser}]
    /\ [c \in Conns |-> "no"] \in [Conns -> {"no", "limited", "unlimited"}]
    /\ [c \in Conns |-> "none"] \in [Conns -> Stages]
BY DEF Stages

LEMMA TypeInit == Init => TypeOK
<1> SUFFICES ASSUME Init PROVE TypeOK
    OBVIOUS
<1>1. /\ emailToUID \in [Emails -> Users \cup {NoUser}]
      /\ deviceLimits \in [Emails -> Nat]
      /\ limitedIPs \in [Emails -> [Devices -> Nat]]
      /\ counter \in [Emails -> [Devices -> Conns \cup {NoCounter}]]
      /\ value \in [Conns -> Int]
    BY EmptyType DEF Init
<1>2. /\ pc \in [Conns -> Stages]
      /\ limit \in [Conns -> Nat]
      /\ listed \in [Conns -> BOOLEAN]
      /\ list \in [Conns -> SUBSET Devices]
      /\ ctr \in [Conns -> Conns \cup {NoCounter}]
      /\ refUid \in [Conns -> Users \cup {NoUser}]
      /\ counted \in [Conns -> {"no", "limited", "unlimited"}]
    BY EmptyType DEF Init
<1>3. /\ globalDevices \in Whitelists /\ globalFresh \in BOOLEAN
      /\ mapped \in SUBSET Emails /\ unlimitedIPs \in SUBSET Emails
      /\ trackedConns \in SUBSET Conns /\ connCount \in Nat
      /\ toClose \in SUBSET Conns /\ late \in SUBSET Conns
    BY NoWhitelistType DEF Init
<1> QED
    BY <1>1, <1>2, <1>3 DEF TypeOK

\* The stages that a connection goes to after the second read lock.
LEMMA StageType ==
    ASSUME NEW c \in Conns, NEW local
    PROVE  /\ ListedStage(c, local) \in {"count", "dispatch", "closed"}
           /\ LocalStage(c, local) \in {"count", "again", "dispatch", "recheck"}
BY DEF ListedStage, LocalStage, Through

\* The gate.
LEMMA TypeGate ==
    ASSUME TypeOK, NEW c \in Conns, Gate(c) PROVE TypeOK'
<1> USE DEF TypeOK, Goto, config, global, limited, free, tracked, gate, locals, Stages,
            Entering, Leaving
<1>a. EmailOf[c] \in Emails /\ DevOf[c] \in Devices
    BY LimitDispatcherAssumption
<1>1. CASE Arrive(c)
    BY <1>1 DEF Arrive
<1>2. CASE ReadLimits(c)
    <2>1. emailToUID[EmailOf[c]] \in DOMAIN globalDevices =>
              globalDevices[emailToUID[EmailOf[c]]] \in SUBSET Devices
        BY WhitelistElim
    <2> QED
        BY <1>a, <1>2, <2>1 DEF ReadLimits
<1>3. CASE LoadCounter(c)
    BY <1>a, <1>3 DEF LoadCounter
<1>4. CASE AddCounter(c)
    <2>1. value' \in [Conns -> Int]
        <3>1. CASE ctr[c] \in Conns
            BY <1>4, <3>1 DEF AddCounter
        <3>2. CASE ctr[c] \notin Conns
            BY <1>4, <3>2 DEF AddCounter
        <3> QED
            BY <3>1, <3>2
    <2> QED
        BY <1>4, <2>1 DEF AddCounter
<1>5. CASE Decide(c)
    <2>1. PICK stage \in Stages : pc' = [pc EXCEPT ![c] = stage]
        BY <1>5, StageType DEF Decide
    <2>2. pc' \in [Conns -> Stages]
        BY <2>1
    <2>3. limit' \in [Conns -> Nat]
        BY <1>5 DEF Decide
    <2> QED
        BY <1>5, <2>2, <2>3 DEF Decide
<1>6. CASE Count(c)
    BY <1>a, <1>6 DEF Count, Enter
<1>7. CASE CountAgain(c)
    BY <1>a, <1>7 DEF CountAgain, Enter
<1>8. CASE Panic(c)
    <2>1. /\ emailToUID' \in [Emails -> Users \cup {NoUser}]
          /\ deviceLimits' \in [Emails -> Nat]
          /\ limitedIPs' \in [Emails -> [Devices -> Nat]]
          /\ counter' \in [Emails -> [Devices -> Conns \cup {NoCounter}]]
          /\ value' \in [Conns -> Int]
        BY <1>8, EmptyType DEF Panic
    <2>2. /\ limit' \in [Conns -> Nat]
          /\ listed' \in [Conns -> BOOLEAN]
          /\ list' \in [Conns -> SUBSET Devices]
          /\ ctr' \in [Conns -> Conns \cup {NoCounter}]
          /\ refUid' \in [Conns -> Users \cup {NoUser}]
          /\ counted' \in [Conns -> {"no", "limited", "unlimited"}]
        BY <1>8, EmptyType DEF Panic
    <2>3. /\ globalDevices' \in Whitelists /\ globalFresh' \in BOOLEAN
          /\ mapped' \in SUBSET Emails /\ unlimitedIPs' \in SUBSET Emails
          /\ trackedConns' \in SUBSET Conns /\ connCount' \in Nat
          /\ toClose' \in SUBSET Conns /\ late' \in SUBSET Conns
        BY <1>8, NoWhitelistType DEF Panic
    <2>4. pc' \in [Conns -> Stages]
        BY <1>8 DEF Panic
    <2> QED
        BY <2>1, <2>2, <2>3, <2>4
<1>9. CASE Recheck(c)
    <2>1. /\ mapped' \in SUBSET Emails
          /\ Goto(c, "dispatch") \/ Goto(c, "closed")
          /\ Enter(c) \/ UNCHANGED <<limitedIPs, counted>>
        BY <1>a, <1>9 DEF Recheck
    <2>2. /\ limitedIPs' \in [Emails -> [Devices -> Nat]]
          /\ counted' \in [Conns -> {"no", "limited", "unlimited"}]
        <3>1. CASE Enter(c)
            BY <1>a, <3>1 DEF Enter
        <3>2. CASE UNCHANGED <<limitedIPs, counted>>
            BY <3>2
        <3> QED
            BY <2>1, <3>1, <3>2
    <2> QED
        BY <1>9, <2>1, <2>2 DEF Recheck
<1> QED
    BY <1>1, <1>2, <1>3, <1>4, <1>5, <1>6, <1>7, <1>8, <1>9 DEF Gate

\* Everything but the number of connections, which is part of the next section.
LEMMA TypeServe ==
    ASSUME TypeOK, NEW c \in Conns, Serve(c), connCount' \in Nat PROVE TypeOK'
<1> USE DEF TypeOK, Goto, config, global, limited, free, tracked, gate, locals, Stages,
            Entering, Leaving
<1>a. EmailOf[c] \in Emails /\ DevOf[c] \in Devices
    BY LimitDispatcherAssumption
<1>1. CASE DispatchFails(c)
    BY <1>1 DEF DispatchFails
<1>2. CASE Track(c)
    BY <1>a, <1>2 DEF Track
<1>3. CASE Insert(c)
    BY <1>3 DEF Insert
<1> QED
    BY <1>1, <1>2, <1>3 DEF Serve

LEMMA TypeLeave ==
    ASSUME TypeOK, NEW c \in Conns, Leave(c), connCount' \in Nat PROVE TypeOK'
<1> USE DEF TypeOK, Goto, config, global, limited, free, tracked, gate, locals, Stages,
            Entering, Leaving
<1>a. EmailOf[c] \in Emails /\ DevOf[c] \in Devices
    BY LimitDispatcherAssumption
<1>1. CASE PeerClose(c)
    BY <1>1 DEF PeerClose, FirstClose
<1>2. CASE StartRelease(c)
    <2>1. counter[EmailOf[c]][DevOf[c]] \in Conns \cup {NoCounter}
        BY <1>a
    <2> QED
        BY <1>2, <2>1 DEF StartRelease, Released
<1>3. CASE Subtract(c)
    <2>1. value' \in [Conns -> Int]
        <3>1. CASE ctr[c] \in Conns
            BY <1>3, <3>1 DEF Subtract
        <3>2. CASE ctr[c] \notin Conns
            BY <1>3, <3>2 DEF Subtract
        <3> QED
            BY <3>1, <3>2
    <2>2. pc' \in [Conns -> Stages]
        BY <1>3 DEF Subtract, Released
    <2>3. /\ ctr' \in [Conns -> Conns \cup {NoCounter}]
          /\ counted' \in [Conns -> {"no", "limited", "unlimited"}]
        BY <1>3 DEF Subtract
    <2> QED
        BY <1>3, <2>1, <2>2, <2>3 DEF Subtract
<1>4. CASE DeleteCounter(c)
    BY <1>a, <1>4 DEF DeleteCounter, Released
<1>5. CASE Release(c)
    <2>1. limitedIPs[EmailOf[c]][DevOf[c]] \in Nat
        BY <1>a
    <2>2. limitedIPs' \in [Emails -> [Devices -> Nat]]
        BY <1>a, <1>5, <2>1 DEF Release
    <2>3. mapped' \in SUBSET Emails
        BY <1>5 DEF Release
    <2> QED
        BY <1>5, <2>2, <2>3 DEF Release, Released
<1>6. CASE Untrack(c)
    BY <1>6 DEF Untrack
<1> QED
    BY <1>1, <1>2, <1>3, <1>4, <1>5, <1>6 DEF Leave

LEMMA TypeControl ==
    ASSUME TypeOK, Control \/ GlobalExpires PROVE TypeOK'
<1> USE DEF TypeOK, Goto, config, global, limited, free, tracked, gate, locals, Stages,
            Entering, Leaving
<1>1. ASSUME NEW m \in UserMaps, NEW l \in LimitMaps, UpdateLimits(m, l) PROVE TypeOK'
    <2>1. m \in [Emails -> Users \cup {NoUser}] /\ l \in [Emails -> Nat]
        BY LimitDispatcherAssumption
    <2> QED
        BY <1>1, <2>1 DEF UpdateLimits
<1>2. ASSUME NEW w \in Pushes, UpdateGlobalDevices(w) PROVE TypeOK'
    <2>1. w \in Whitelists
        BY LimitDispatcherAssumption
    <2> QED
        BY <1>2, <2>1 DEF UpdateGlobalDevices, Excess
<1>3. CASE ClearGlobalDevices
    BY <1>3, NoWhitelistType DEF ClearGlobalDevices
<1>4. ASSUME NEW e \in Emails, CloseUsers(e) PROVE TypeOK'
    BY <1>4 DEF CloseUsers
<1>5. ASSUME NEW c \in Conns, CloseCollected(c) PROVE TypeOK'
    BY <1>5 DEF CloseCollected, FirstClose
<1>6. CASE GlobalExpires
    BY <1>6 DEF GlobalExpires
<1> QED
    BY <1>1, <1>2, <1>3, <1>4, <1>5, <1>6 DEF Control
-----------------------------------------------------------------------------
(* The number of connections *)

\* What has an entry is open or on its way out, and onClose only goes on for
\* what has one.
Placed(c) ==
    /\ c \in trackedConns => pc[c] \in {"open"} \cup Leaving
    /\ pc[c] \in {"open", "untrack"} => c \in trackedConns
    /\ pc[c] = "closing" /\ c \notin Tcp => c \in trackedConns

Shape == TypeOK /\ \A c \in Conns : Placed(c)

Live == {c \in Conns : pc[c] = "insert" \/ c \in trackedConns}

CountInv == Shape /\ connCount = Cardinality(Live)

LEMMA LiveFinite == IsFiniteSet(Live) /\ Cardinality(Live) \in Nat
<1>1. IsFiniteSet(Conns) /\ Live \in SUBSET Conns
    BY LimitDispatcherAssumption DEF Live
<1> QED
    BY <1>1, FS_Subset, FS_CardinalityType

LEMMA CountInit == Init => CountInv
<1> SUFFICES ASSUME Init PROVE CountInv
    OBVIOUS
<1>1. \A c \in Conns : Placed(c)
    BY DEF Init, Placed
<1>2. Live = {}
    BY DEF Init, Live
<1> QED
    BY <1>1, <1>2, TypeInit, FS_EmptySet DEF CountInv, Shape, Init

\* A step of one connection before it is dispatched leaves the entries alone, but
\* a panic, after which there are none.
LEMMA PlacedGate ==
    ASSUME Shape, NEW c \in Conns, Gate(c), NEW x \in Conns
    PROVE  /\ Placed(x)'
           /\ \/ trackedConns' = trackedConns /\ connCount' = connCount
                 /\ (pc'[x] = "insert" <=> pc[x] = "insert")
              \/ trackedConns' = {} /\ connCount' = 0 /\ pc'[x] # "insert"
<1> USE DEF Shape, TypeOK, Placed, Goto, Leaving, tracked
<1>1. CASE Arrive(c)
    BY <1>1 DEF Arrive
<1>2. CASE ReadLimits(c)
    <2>1. PICK stage \in {"load", "dispatch", "decide"} : pc' = [pc EXCEPT ![c] = stage]
        BY <1>2 DEF ReadLimits
    <2> QED
        BY <1>2, <2>1 DEF ReadLimits
<1>3. CASE LoadCounter(c)
    BY <1>3 DEF LoadCounter
<1>4. CASE AddCounter(c)
    BY <1>4 DEF AddCounter
<1>5. CASE Decide(c)
    <2>1. PICK stage \in {"count", "again", "dispatch", "recheck", "closed"} :
              pc' = [pc EXCEPT ![c] = stage]
        BY <1>5, StageType DEF Decide
    <2> QED
        BY <1>5, <2>1 DEF Decide
<1>6. CASE Count(c)
    BY <1>6 DEF Count
<1>7. CASE CountAgain(c)
    BY <1>7 DEF CountAgain
<1>8. CASE Panic(c)
    BY <1>8 DEF Panic
<1>9. CASE Recheck(c)
    <2>1. PICK stage \in {"dispatch", "closed"} : pc' = [pc EXCEPT ![c] = stage]
        BY <1>9 DEF Recheck
    <2> QED
        BY <1>9, <2>1 DEF Recheck
<1> QED
    BY <1>1, <1>2, <1>3, <1>4, <1>5, <1>6, <1>7, <1>8, <1>9 DEF Gate

\* The set of connections that count loses or gains what a step says.
LEMMA LiveStays ==
    ASSUME \A x \in Conns :
               pc'[x] = "insert" \/ x \in trackedConns' <=>
               pc[x] = "insert" \/ x \in trackedConns
    PROVE  Live' = Live
BY DEF Live

LEMMA CountGate ==
    ASSUME CountInv, NEW c \in Conns, Gate(c)
    PROVE  connCount' = Cardinality(Live')
<1>1. Shape /\ connCount = Cardinality(Live)
    BY DEF CountInv
<1>2. \/ trackedConns' = trackedConns /\ connCount' = connCount
      \/ trackedConns' = {} /\ connCount' = 0
    BY <1>1, PlacedGate
<1>3. CASE /\ trackedConns' = trackedConns /\ connCount' = connCount
           /\ \A x \in Conns : pc'[x] = "insert" <=> pc[x] = "insert"
    BY <1>1, <1>3, LiveStays
<1>4. CASE trackedConns' = {} /\ connCount' = 0 /\ \A x \in Conns : pc'[x] # "insert"
    <2>1. Live' = {}
        BY <1>4 DEF Live
    <2> QED
        BY <1>4, <2>1, FS_EmptySet
<1>5. CASE Panic(c)
    <2>1. \A x \in Conns : pc'[x] # "insert"
        BY <1>5 DEF Panic
    <2> QED
        BY <1>4, <1>5, <2>1 DEF Panic
<1>6. CASE ~Panic(c)
    <2>1. trackedConns' = trackedConns /\ connCount' = connCount
        BY <1>6 DEF Gate, Arrive, ReadLimits, LoadCounter, AddCounter, Decide, Count,
                    CountAgain, Recheck, tracked
    <2>2. ASSUME NEW x \in Conns PROVE pc'[x] = "insert" <=> pc[x] = "insert"
        <3>1. CASE pc'[x] = "insert"
            BY <1>1, <3>1, PlacedGate
        <3>2. CASE pc'[x] # "insert" /\ pc[x] = "insert"
            <4>1. x # c /\ \E stage : pc' = [pc EXCEPT ![c] = stage]
                BY <1>6, <3>2 DEF Gate, Arrive, ReadLimits, LoadCounter, AddCounter, Decide,
                    Count, CountAgain, Recheck, Goto
            <4> QED
                BY <1>1, <3>2, <4>1 DEF Shape, TypeOK
        <3> QED
            BY <3>1, <3>2
    <2> QED
        BY <1>3, <2>1, <2>2
<1> QED
    BY <1>5, <1>6

\* Dispatch and trackLink.
LEMMA CountServe ==
    ASSUME CountInv, NEW c \in Conns, Serve(c)
    PROVE  (\A x \in Conns : Placed(x)') /\ connCount' = Cardinality(Live')
<1> USE DEF TypeOK, Placed, Goto, Leaving, tracked
<1>1. TypeOK /\ (\A x \in Conns : Placed(x)) /\ connCount = Cardinality(Live)
    BY DEF CountInv, Shape
<1>2. CASE DispatchFails(c)
    <2>1. PICK stage \in {"closing", "closed"} :
              /\ pc[c] = "dispatch" /\ pc' = [pc EXCEPT ![c] = stage]
              /\ stage = "closing" => c \in Tcp
        BY <1>2 DEF DispatchFails
    <2>2. trackedConns' = trackedConns /\ connCount' = connCount
        BY <1>2 DEF DispatchFails
    <2>3. \A x \in Conns : Placed(x)'
        BY <1>1, <2>1, <2>2
    <2>4. Live' = Live
        BY <1>1, <2>1, <2>2, LiveStays
    <2> QED
        BY <1>1, <2>2, <2>3, <2>4
<1>3. CASE Track(c)
    <2>1. /\ pc[c] = "dispatch" /\ pc' = [pc EXCEPT ![c] = "insert"]
          /\ trackedConns' = trackedConns /\ connCount' = connCount + 1
        BY <1>3 DEF Track
    <2>2. \A x \in Conns : Placed(x)'
        BY <1>1, <2>1
    <2>3. c \notin Live /\ Live' = Live \cup {c}
        BY <1>1, <2>1 DEF Live
    <2> QED
        BY <1>1, <2>1, <2>2, <2>3, LiveFinite, FS_AddElement
<1>4. CASE Insert(c)
    <2>1. /\ pc[c] = "insert" /\ pc' = [pc EXCEPT ![c] = "open"]
          /\ trackedConns' = trackedConns \cup {c} /\ connCount' = connCount
        BY <1>4 DEF Insert
    <2>2. \A x \in Conns : Placed(x)'
        BY <1>1, <2>1
    <2>3. Live' = Live
        BY <1>1, <2>1, LiveStays
    <2> QED
        BY <1>1, <2>1, <2>2, <2>3
<1> QED
    BY <1>2, <1>3, <1>4 DEF Serve

\* A step on the way out keeps the entry, up to the last.
LEMMA OutStays ==
    ASSUME TypeOK, \A x \in Conns : Placed(x), connCount = Cardinality(Live),
           NEW c \in Conns, pc[c] \in {"open"} \cup Leaving,
           NEW stage, pc' = [pc EXCEPT ![c] = stage],
           \/ stage \in {"release", "subtract", "delete"}
           \/ stage \in {"untrack", "closing"} /\ c \in trackedConns
           \/ stage = "closed" /\ c \notin trackedConns,
           UNCHANGED <<trackedConns, connCount>>
    PROVE  (\A x \in Conns : Placed(x)') /\ connCount' = Cardinality(Live')
<1>1. \A x \in Conns : Placed(x)'
    BY DEF TypeOK, Placed, Leaving
<1>2. Live' = Live
    BY LiveStays DEF TypeOK, Leaving
<1> QED
    BY <1>1, <1>2

LEMMA CountLeave ==
    ASSUME CountInv, NEW c \in Conns, Leave(c)
    PROVE  (\A x \in Conns : Placed(x)') /\ connCount' = Cardinality(Live')
<1>1. TypeOK /\ (\A x \in Conns : Placed(x)) /\ connCount = Cardinality(Live)
    BY DEF CountInv, Shape
<1>2. CASE PeerClose(c)
    <2>1. c \in trackedConns /\ UNCHANGED <<trackedConns, connCount>>
        BY <1>2 DEF PeerClose, tracked
    <2>2. CASE pc[c] = "open"
        BY <1>1, <1>2, <2>1, <2>2, OutStays DEF PeerClose, FirstClose, Goto
    <2>3. CASE pc[c] # "open"
        <3>1. pc' = pc
            BY <1>1, <1>2, <2>3 DEF PeerClose, FirstClose, Goto, TypeOK
        <3>2. Live' = Live
            BY <2>1, <3>1, LiveStays
        <3> QED
            BY <1>1, <2>1, <3>1, <3>2 DEF Placed
    <2> QED
        BY <2>2, <2>3
<1>3. CASE StartRelease(c)
    <2>1. PICK stage :
              /\ pc[c] = "closing" /\ pc' = [pc EXCEPT ![c] = stage]
              /\ \/ stage \in {"release", "subtract"}
                 \/ stage = "untrack" /\ c \notin Tcp
                 \/ stage = Released(c)
        BY <1>3 DEF StartRelease, Goto
    <2>2. /\ stage = "untrack" => c \in trackedConns
          /\ stage = "closed" => c \notin trackedConns
          /\ stage \in {"release", "subtract", "untrack", "closed"}
        BY <1>1, <2>1 DEF Released, Placed
    <2>3. UNCHANGED <<trackedConns, connCount>>
        BY <1>3 DEF StartRelease, tracked
    <2> QED
        BY <1>1, <2>1, <2>2, <2>3, OutStays DEF Leaving
<1>4. CASE Subtract(c) \/ DeleteCounter(c) \/ Release(c)
    <2>1. PICK stage \in {"delete", Released(c)} :
              /\ pc[c] \in {"subtract", "delete", "release"}
              /\ pc' = [pc EXCEPT ![c] = stage]
        BY <1>4 DEF Subtract, DeleteCounter, Release, Goto
    <2>2. /\ stage = "untrack" => c \in trackedConns
          /\ stage = "closed" => c \notin trackedConns
          /\ stage \in {"delete", "untrack", "closed"}
        BY <2>1 DEF Released
    <2>3. UNCHANGED <<trackedConns, connCount>>
        BY <1>4 DEF Subtract, DeleteCounter, Release, tracked
    <2> QED
        BY <1>1, <2>1, <2>2, <2>3, OutStays DEF Leaving
<1>5. CASE Untrack(c)
    <2>1. /\ pc[c] = "untrack" /\ pc' = [pc EXCEPT ![c] = "closed"]
          /\ trackedConns' = trackedConns \ {c} /\ connCount' = connCount - 1
        BY <1>5 DEF Untrack, Goto
    <2>2. \A x \in Conns : Placed(x)'
        BY <1>1, <2>1 DEF Placed, TypeOK, Leaving
    <2>3. c \in Live /\ Live' = Live \ {c}
        BY <1>1, <2>1 DEF Live, Placed, TypeOK
    <2> QED
        BY <1>1, <2>1, <2>2, <2>3, LiveFinite, FS_RemoveElement
<1> QED
    BY <1>2, <1>3, <1>4, <1>5 DEF Leave

LEMMA CountControl ==
    ASSUME CountInv, Control \/ GlobalExpires
    PROVE  (\A x \in Conns : Placed(x)') /\ connCount' = Cardinality(Live')
<1>1. TypeOK /\ (\A x \in Conns : Placed(x)) /\ connCount = Cardinality(Live)
    BY DEF CountInv, Shape
<1>2. CASE UNCHANGED <<pc, trackedConns, connCount>>
    <2>1. Live' = Live
        BY <1>2, LiveStays
    <2> QED
        BY <1>1, <1>2, <2>1 DEF Placed
<1>3. ASSUME NEW c \in Conns, CloseCollected(c), pc[c] = "open"
      PROVE  (\A x \in Conns : Placed(x)') /\ connCount' = Cardinality(Live')
    <2>1. /\ c \in trackedConns /\ UNCHANGED <<trackedConns, connCount>>
          /\ pc' = [pc EXCEPT ![c] = "closing"]
        BY <1>1, <1>3 DEF CloseCollected, tracked, Placed, FirstClose, Goto
    <2> QED
        BY <1>1, <1>3, <2>1, OutStays
<1>4. ASSUME NEW c \in Conns, CloseCollected(c), pc[c] # "open"
      PROVE  UNCHANGED <<pc, trackedConns, connCount>>
    BY <1>1, <1>4 DEF CloseCollected, tracked, FirstClose, Goto, TypeOK
<1>5. ASSUME \/ \E m \in UserMaps, l \in LimitMaps : UpdateLimits(m, l)
             \/ \E w \in Pushes : UpdateGlobalDevices(w)
             \/ ClearGlobalDevices
             \/ \E e \in Emails : CloseUsers(e)
             \/ GlobalExpires
      PROVE  UNCHANGED <<pc, trackedConns, connCount>>
    BY <1>5 DEF UpdateLimits, UpdateGlobalDevices, ClearGlobalDevices, CloseUsers,
                GlobalExpires, tracked
<1> QED
    BY <1>2, <1>3, <1>4, <1>5 DEF Control

LEMMA CountStep == CountInv /\ [Next]_vars => CountInv'
<1> SUFFICES ASSUME CountInv, [Next]_vars PROVE CountInv'
    OBVIOUS
<1>1. TypeOK
    BY DEF CountInv, Shape
<1>2. ASSUME NEW c \in Conns, Gate(c) PROVE CountInv'
    <2>1. \A x \in Conns : Placed(x)'
        BY <1>2, PlacedGate DEF CountInv
    <2> QED
        BY <1>1, <1>2, <2>1, TypeGate, CountGate DEF CountInv, Shape
<1>3. connCount' = Cardinality(Live') => connCount' \in Nat
    <2>1. IsFiniteSet(Conns) /\ Live' \in SUBSET Conns
        BY LimitDispatcherAssumption DEF Live
    <2> QED
        BY <2>1, FS_Subset, FS_CardinalityType
<1>4. ASSUME NEW c \in Conns, Serve(c) PROVE CountInv'
    BY <1>1, <1>3, <1>4, TypeServe, CountServe DEF CountInv, Shape
<1>5. ASSUME NEW c \in Conns, Leave(c) PROVE CountInv'
    BY <1>1, <1>3, <1>5, TypeLeave, CountLeave DEF CountInv, Shape
<1>6. CASE Control \/ GlobalExpires
    BY <1>1, <1>6, TypeControl, CountControl DEF CountInv, Shape
<1>7. CASE UNCHANGED vars
    BY <1>7 DEF vars, config, global, limited, free, tracked, gate, locals, CountInv, Shape,
                TypeOK, Placed, Live
<1> QED
    BY <1>2, <1>4, <1>5, <1>6, <1>7 DEF Next

\* Every variable keeps its type for any connections, users and whitelists.
THEOREM TypeCorrect == Spec => []TypeOK
<1>1. Spec => []CountInv
    BY CountInit, CountStep, PTL DEF Spec
<1>2. CountInv => TypeOK
    BY DEF CountInv, Shape
<1> QED
    BY <1>1, <1>2, PTL

\* connCount, for which the replacement of an instance waits, is the number of
\* connections that are open or being closed, also over panics: an entry is
\* removed once, whoever closes and however often.
THEOREM ConnCountCorrect == Spec => []ConnCountExact
<1>1. Spec => []CountInv
    BY CountInit, CountStep, PTL DEF Spec
<1>2. CountInv => ConnCountExact
    BY DEF CountInv, ConnCountExact, Live
<1> QED
    BY <1>1, <1>2, PTL
-----------------------------------------------------------------------------
(* What a whitelist leaves open *)

\* A connection that is not tracked yet is late for the last whitelist ...
Waits(c) == pc[c] \in Entering \cup {"none"} => c \in late

\* ... and one that is open is on it, as the user it was tracked for, or was late,
\* or is to be closed.
Swept(c) ==
    pc[c] = "open" /\ refUid[c] \in DOMAIN globalDevices
        /\ DevOf[c] \notin globalDevices[refUid[c]]
        => c \in toClose \cup late

SweepInv == CountInv /\ \A c \in Conns : Waits(c) /\ Swept(c)

LEMMA SweepInit == Init => SweepInv
<1>1. Init => \A c \in Conns : Waits(c) /\ Swept(c)
    BY DEF Init, Waits, Swept
<1> QED
    BY <1>1, CountInit DEF SweepInv

\* A connection that moves on before it is open changes nothing that matters.
LEMMA SweepEnters ==
    ASSUME TypeOK, \A x \in Conns : Waits(x) /\ Swept(x),
           NEW c \in Conns, pc[c] \in Entering \cup {"none"},
           NEW stage, pc' = [pc EXCEPT ![c] = stage],
           \A x \in Conns \ {c} : refUid'[x] = refUid[x],
           UNCHANGED <<globalDevices, toClose, late>>
    PROVE  \A x \in Conns : Waits(x)' /\ Swept(x)'
BY DEF TypeOK, Waits, Swept

LEMMA SweepGate ==
    ASSUME SweepInv, NEW c \in Conns, Gate(c) \/ Serve(c)
    PROVE  \A x \in Conns : Waits(x)' /\ Swept(x)'
<1>1. TypeOK /\ \A x \in Conns : Waits(x) /\ Swept(x)
    BY DEF SweepInv, CountInv, Shape
<1>2. CASE Panic(c)
    BY <1>2 DEF Panic, Waits, Swept, NoWhitelist
<1>3. CASE ~Panic(c)
    <2>1. PICK stage : pc[c] \in Entering \cup {"none"} /\ pc' = [pc EXCEPT ![c] = stage]
        BY <1>3 DEF Gate, Serve, Arrive, ReadLimits, LoadCounter, AddCounter, Decide, Count,
            CountAgain, Recheck, DispatchFails, Track, Insert, Goto, Entering
    <2>2. UNCHANGED <<globalDevices, toClose, late>>
        BY <1>3 DEF Gate, Serve, Arrive, ReadLimits, LoadCounter, AddCounter, Decide, Count,
            CountAgain, Recheck, DispatchFails, Track, Insert, global
    <2>3. \A x \in Conns \ {c} : refUid'[x] = refUid[x]
        <3>1. CASE Track(c)
            BY <1>1, <3>1 DEF Track, TypeOK
        <3>2. CASE ~Track(c)
            BY <1>3, <3>2 DEF Gate, Serve, Arrive, ReadLimits, LoadCounter, AddCounter, Decide,
                Count, CountAgain, Recheck, DispatchFails, Insert, locals
        <3> QED
            BY <3>1, <3>2
    <2> QED
        BY <1>1, <2>1, <2>2, <2>3, SweepEnters
<1> QED
    BY <1>2, <1>3

\* A connection on its way out is not open.
LEMMA SweepLeave ==
    ASSUME SweepInv, NEW c \in Conns, Leave(c)
    PROVE  \A x \in Conns : Waits(x)' /\ Swept(x)'
<1>1. TypeOK /\ \A x \in Conns : Waits(x) /\ Swept(x)
    BY DEF SweepInv, CountInv, Shape
<1>2. PICK stage : /\ pc' = [pc EXCEPT ![c] = stage]
                   /\ stage \notin {"open", "none"} \cup Entering
    <2>1. "closing" \notin {"open", "none"} \cup Entering
        BY DEF Entering
    <2>2. CASE PeerClose(c)
        <3>1. /\ pc[c] \in {"open"} \cup Leaving
              /\ Goto(c, IF pc[c] = "open" THEN "closing" ELSE pc[c])
            BY <2>2 DEF PeerClose, FirstClose
        <3>2. CASE pc[c] = "open"
            BY <2>1, <3>1, <3>2 DEF Goto
        <3>3. CASE pc[c] # "open"
            <4>1. pc[c] \notin {"open", "none"} \cup Entering
                BY <3>1, <3>3 DEF Entering, Leaving
            <4> QED
                BY <3>1, <3>3, <4>1 DEF Goto
        <3> QED
            BY <3>2, <3>3
    <2>3. CASE StartRelease(c) \/ Subtract(c) \/ DeleteCounter(c) \/ Release(c) \/ Untrack(c)
        <3>1. \/ Goto(c, "release") \/ Goto(c, "subtract") \/ Goto(c, "delete")
              \/ Goto(c, "untrack") \/ Goto(c, "closed")
            BY <2>3 DEF StartRelease, Subtract, DeleteCounter, Release, Untrack, Released
        <3>2. \A stage \in {"release", "subtract", "delete", "untrack", "closed"} :
                  stage \notin {"open", "none"} \cup Entering
            BY DEF Entering
        <3> QED
            BY <3>1, <3>2 DEF Goto
    <2> QED
        BY <2>2, <2>3 DEF Leave
<1>3. /\ globalDevices' = globalDevices /\ toClose' = toClose
      /\ \A x \in Conns \ {c} : refUid'[x] = refUid[x] /\ (x \in late => x \in late')
    <2>1. CASE Untrack(c)
        BY <1>1, <2>1 DEF Untrack, global, TypeOK
    <2>2. CASE ~Untrack(c)
        BY <2>2 DEF Leave, PeerClose, StartRelease, Subtract, DeleteCounter, Release, locals,
            global
    <2> QED
        BY <2>1, <2>2
<1> QED
    BY <1>1, <1>2, <1>3 DEF TypeOK, Waits, Swept

LEMMA SweepControl ==
    ASSUME SweepInv, Control \/ GlobalExpires
    PROVE  \A x \in Conns : Waits(x)' /\ Swept(x)'
<1>1. TypeOK /\ \A x \in Conns : Waits(x) /\ Swept(x) /\ Placed(x)
    BY DEF SweepInv, CountInv, Shape
<1>2. ASSUME NEW m \in UserMaps, NEW l \in LimitMaps, UpdateLimits(m, l)
      PROVE  \A x \in Conns : Waits(x)' /\ Swept(x)'
    BY <1>1, <1>2 DEF UpdateLimits, global, locals, Waits, Swept
<1>3. ASSUME NEW w \in Pushes, UpdateGlobalDevices(w)
      PROVE  \A x \in Conns : Waits(x)' /\ Swept(x)'
    BY <1>1, <1>3 DEF UpdateGlobalDevices, Excess, locals, Waits, Swept, Placed, Entering
<1>4. CASE ClearGlobalDevices
    BY <1>1, <1>4 DEF ClearGlobalDevices, NoWhitelist, locals, Waits, Swept
<1>5. ASSUME NEW e \in Emails, CloseUsers(e)
      PROVE  \A x \in Conns : Waits(x)' /\ Swept(x)'
    BY <1>1, <1>5 DEF CloseUsers, global, locals, Waits, Swept
<1>6. ASSUME NEW c \in Conns, CloseCollected(c)
      PROVE  \A x \in Conns : Waits(x)' /\ Swept(x)'
    BY <1>1, <1>6 DEF CloseCollected, FirstClose, Goto, TypeOK, global, locals, Waits, Swept,
                      Entering
<1>7. CASE GlobalExpires
    BY <1>1, <1>7 DEF GlobalExpires, locals, Waits, Swept
<1> QED
    BY <1>2, <1>3, <1>4, <1>5, <1>6, <1>7 DEF Control

LEMMA SweepStep == SweepInv /\ [Next]_vars => SweepInv'
<1> SUFFICES ASSUME SweepInv, [Next]_vars PROVE SweepInv'
    OBVIOUS
<1>1. CountInv'
    BY CountStep DEF SweepInv
<1>2. CASE UNCHANGED vars
    BY <1>1, <1>2 DEF vars, global, locals, SweepInv, Waits, Swept
<1> QED
    BY <1>1, <1>2, SweepGate, SweepLeave, SweepControl DEF Next, SweepInv

\* After a whitelist the only open connections outside it are those that are
\* about to be closed, those that had no entry when it came, and those entered under
\* another id of their user, for any connections, users and whitelists.
THEOREM SweepCorrect == Spec => []SweepMissesOnlyLate
<1>1. Spec => []SweepInv
    BY SweepInit, SweepStep, PTL DEF Spec
<1>2. SweepInv => SweepMissesOnlyLate
    BY DEF SweepInv, Swept, SweepMissesOnlyLate
<1> QED
    BY <1>1, <1>2, PTL

-----------------------------------------------------------------------------
(* The devices of limited users *)

Held(e, d) == Holders(e, d, "limited")

\* Before the gate has counted it a connection is not counted, afterwards a TCP
\* connection is; what is counted or released among the unlimited has a user
\* there; and what is released among the limited was counted there.
Marked(c) ==
    /\ pc[c] \in {"none", "limits", "load", "add", "decide", "count", "again", "recheck"}
           => counted[c] = "no"
    /\ c \in Tcp /\ pc[c] \in {"dispatch", "insert", "open", "closing"} => counted[c] # "no"
    /\ pc[c] = "release" => counted[c] = "limited"
    /\ pc[c] \in {"add", "subtract"} \/ counted[c] = "unlimited" => AmongUnlimited(c)

Fair(e, d) ==
    /\ limitedIPs[e][d] >= Cardinality(Held(e, d))
    /\ e \notin unlimitedIPs => limitedIPs[e][d] = Cardinality(Held(e, d))

LimitedInv ==
    /\ TypeOK
    /\ \A c \in Conns : Marked(c)
    /\ \A e \in Emails, d \in Devices : Fair(e, d)

LEMMA HeldFinite ==
    ASSUME NEW S \in SUBSET Conns
    PROVE  IsFiniteSet(S) /\ Cardinality(S) \in Nat
BY LimitDispatcherAssumption, FS_Subset, FS_CardinalityType

LEMMA LimitedInit == Init => LimitedInv
<1> SUFFICES ASSUME Init PROVE LimitedInv
    OBVIOUS
<1>1. \A c \in Conns : Marked(c)
    BY DEF Init, Marked
<1>2. ASSUME NEW e \in Emails, NEW d \in Devices PROVE Fair(e, d)
    <2>1. Held(e, d) = {}
        BY DEF Held, Holders, Init
    <2> QED
        BY <2>1, FS_EmptySet DEF Fair, Init
<1> QED
    BY <1>1, <1>2, TypeInit DEF LimitedInv

\* Nothing is counted: at most a user has become unlimited.
LEMMA FairStays ==
    ASSUME NEW e \in Emails, NEW d \in Devices, Fair(e, d),
           \A c \in Conns : counted'[c] = "limited" <=> counted[c] = "limited",
           limitedIPs' = limitedIPs, unlimitedIPs \subseteq unlimitedIPs'
    PROVE  Fair(e, d)'
<1>1. Held(e, d)' = Held(e, d)
    BY DEF Held, Holders
<1> QED
    BY <1>1 DEF Fair

\* A connection that is counted among the limited ones.
LEMMA FairEnter ==
    ASSUME LimitedInv, NEW c \in Conns, counted[c] = "no", Enter(c),
           unlimitedIPs' = unlimitedIPs, NEW e \in Emails, NEW d \in Devices
    PROVE  Fair(e, d)'
<1>1. /\ limitedIPs' = [limitedIPs EXCEPT ![EmailOf[c]][DevOf[c]] = @ + 1]
      /\ counted' = [counted EXCEPT ![c] = "limited"]
      /\ EmailOf[c] \in Emails /\ DevOf[c] \in Devices
      /\ counted \in [Conns -> {"no", "limited", "unlimited"}]
      /\ limitedIPs \in [Emails -> [Devices -> Nat]]
      /\ Fair(e, d)
    BY LimitDispatcherAssumption DEF Enter, LimitedInv, TypeOK
<1>2. Held(e, d) \in SUBSET Conns
    BY DEF Held, Holders
<1>3. CASE e = EmailOf[c] /\ d = DevOf[c]
    <2>1. c \notin Held(e, d) /\ Held(e, d)' = Held(e, d) \cup {c}
        BY <1>1, <1>3 DEF Held, Holders
    <2>2. Cardinality(Held(e, d)') = Cardinality(Held(e, d)) + 1
        BY <1>2, <2>1, HeldFinite, FS_AddElement
    <2>3. limitedIPs'[e][d] = limitedIPs[e][d] + 1
        BY <1>1, <1>3
    <2> QED
        BY <1>1, <1>2, <2>2, <2>3, HeldFinite DEF Fair
<1>4. CASE ~(e = EmailOf[c] /\ d = DevOf[c])
    <2>1. Held(e, d)' = Held(e, d) /\ limitedIPs'[e][d] = limitedIPs[e][d]
        BY <1>1, <1>4 DEF Held, Holders
    <2> QED
        BY <1>1, <2>1 DEF Fair
<1> QED
    BY <1>3, <1>4

\* A connection that is released, of a user that is among the unlimited: its
\* count may stay.
LEMMA FairForget ==
    ASSUME LimitedInv, NEW c \in Conns, AmongUnlimited(c),
           counted' = [counted EXCEPT ![c] = "no"],
           UNCHANGED <<limitedIPs, unlimitedIPs>>, NEW e \in Emails, NEW d \in Devices
    PROVE  Fair(e, d)'
<1>1. /\ counted \in [Conns -> {"no", "limited", "unlimited"}]
      /\ limitedIPs \in [Emails -> [Devices -> Nat]]
      /\ Fair(e, d)
    BY DEF LimitedInv, TypeOK
<1>2. Held(e, d) \in SUBSET Conns /\ Held(e, d)' \in SUBSET Held(e, d)
    BY <1>1 DEF Held, Holders
<1>3. CASE e = EmailOf[c]
    <2>1. PICK H, K : H = Held(e, d) /\ K = Held(e, d)'
        OBVIOUS
    <2>2. Cardinality(K) <= Cardinality(H)
        BY <1>2, <2>1, HeldFinite, FS_Subset
    <2>3. Cardinality(K) \in Nat /\ Cardinality(H) \in Nat
        BY <1>2, <2>1, HeldFinite
    <2>4. limitedIPs'[e][d] >= Cardinality(K)
        BY <1>1, <2>1, <2>2, <2>3 DEF Fair
    <2> QED
        BY <1>3, <2>1, <2>4 DEF Fair, AmongUnlimited
<1>4. CASE e # EmailOf[c]
    <2>1. Held(e, d)' = Held(e, d)
        BY <1>1, <1>4 DEF Held, Holders
    <2> QED
        BY <1>1, <2>1 DEF Fair
<1> QED
    BY <1>3, <1>4

\* A connection that is released among the limited ones.
LEMMA FairRelease ==
    ASSUME LimitedInv, NEW c \in Conns, Release(c), NEW e \in Emails, NEW d \in Devices
    PROVE  Fair(e, d)'
<1>1. /\ limitedIPs' = [limitedIPs EXCEPT ![EmailOf[c]][DevOf[c]] =
                           IF @ > 0 THEN @ - 1 ELSE 0]
      /\ counted' = [counted EXCEPT ![c] = "no"]
      /\ unlimitedIPs' = unlimitedIPs
      /\ EmailOf[c] \in Emails /\ DevOf[c] \in Devices
      /\ counted \in [Conns -> {"no", "limited", "unlimited"}]
      /\ limitedIPs \in [Emails -> [Devices -> Nat]]
      /\ Fair(e, d) /\ counted[c] = "limited"
    BY LimitDispatcherAssumption DEF Release, free, LimitedInv, TypeOK, Marked
<1>2. Held(e, d) \in SUBSET Conns
    BY DEF Held, Holders
<1>3. CASE e = EmailOf[c] /\ d = DevOf[c]
    <2>1. c \in Held(e, d) /\ Held(e, d)' = Held(e, d) \ {c}
        BY <1>1, <1>3 DEF Held, Holders
    <2>2. Cardinality(Held(e, d)') = Cardinality(Held(e, d)) - 1
        BY <1>2, <2>1, HeldFinite, FS_RemoveElement
    <2>3. Cardinality(Held(e, d)') \in Nat
        BY <1>2, <2>1, HeldFinite
    <2>4. limitedIPs[e][d] > 0
        BY <1>1, <1>2, <2>2, <2>3, HeldFinite DEF Fair
    <2>5. limitedIPs'[e][d] = limitedIPs[e][d] - 1
        BY <1>1, <1>3, <2>4
    <2> QED
        BY <1>1, <1>2, <2>2, <2>3, <2>5, HeldFinite DEF Fair
<1>4. CASE ~(e = EmailOf[c] /\ d = DevOf[c])
    <2>1. Held(e, d)' = Held(e, d) /\ limitedIPs'[e][d] = limitedIPs[e][d]
        BY <1>1, <1>4 DEF Held, Holders
    <2> QED
        BY <1>1, <2>1 DEF Fair
<1> QED
    BY <1>3, <1>4
\* Through a step of the gate.
LEMMA LimitedGate ==
    ASSUME LimitedInv, NEW c \in Conns, Gate(c), ~Panic(c)
    PROVE  /\ \A x \in Conns : Marked(x)'
           /\ \A e \in Emails, d \in Devices : Fair(e, d)'
<1>1. TypeOK /\ (\A x \in Conns : Marked(x)) /\ \A e \in Emails, d \in Devices : Fair(e, d)
    BY DEF LimitedInv
<1> USE DEF Goto, Marked, AmongUnlimited
<1>2. ASSUME counted' = counted, limitedIPs' = limitedIPs, unlimitedIPs' = unlimitedIPs
      PROVE  \A e \in Emails, d \in Devices : Fair(e, d)'
    BY <1>1, <1>2, FairStays
<1>3. CASE Arrive(c)
    BY <1>1, <1>2, <1>3 DEF Arrive, limited, free, TypeOK
<1>4. CASE ReadLimits(c)
    <2>1. PICK stage \in {"load", "dispatch", "decide"} :
              /\ pc[c] = "limits" /\ pc' = [pc EXCEPT ![c] = stage]
              /\ stage = "dispatch" => c \notin Tcp
        BY <1>4 DEF ReadLimits
    <2>2. counted' = counted /\ limitedIPs' = limitedIPs /\ unlimitedIPs' = unlimitedIPs
        BY <1>4 DEF ReadLimits, limited, free
    <2>3. \A x \in Conns : Marked(x)'
        BY <1>1, <2>1, <2>2 DEF TypeOK
    <2> QED
        BY <1>2, <2>2, <2>3
<1>5. CASE LoadCounter(c)
    <2>1. /\ pc[c] = "load" /\ pc' = [pc EXCEPT ![c] = "add"] /\ counted' = counted
          /\ unlimitedIPs' = unlimitedIPs \cup {EmailOf[c]} /\ limitedIPs' = limitedIPs
        BY <1>5 DEF LoadCounter, limited
    <2>2. \A x \in Conns : Marked(x)'
        BY <1>1, <2>1 DEF TypeOK
    <2> QED
        BY <1>1, <2>1, <2>2, FairStays
<1>6. CASE AddCounter(c)
    <2>1. /\ pc[c] = "add" /\ pc' = [pc EXCEPT ![c] = "dispatch"]
          /\ counted' = [counted EXCEPT ![c] = "unlimited"]
          /\ unlimitedIPs' = unlimitedIPs /\ limitedIPs' = limitedIPs
        BY <1>6 DEF AddCounter, limited
    <2>2. \A x \in Conns : Marked(x)'
        BY <1>1, <2>1 DEF TypeOK
    <2>3. \A x \in Conns : counted'[x] = "limited" <=> counted[x] = "limited"
        BY <1>1, <2>1 DEF TypeOK
    <2> QED
        BY <1>1, <2>1, <2>2, <2>3, FairStays
<1>7. CASE Decide(c)
    <2>1. PICK stage \in {"count", "again", "dispatch", "recheck", "closed"} :
              /\ pc[c] = "decide" /\ pc' = [pc EXCEPT ![c] = stage]
              /\ stage = "dispatch" => c \notin Tcp
        BY <1>7 DEF Decide, ListedStage, LocalStage, Through
    <2>2. counted' = counted /\ limitedIPs' = limitedIPs /\ unlimitedIPs' = unlimitedIPs
        BY <1>7 DEF Decide, limited, free
    <2>3. \A x \in Conns : Marked(x)'
        BY <1>1, <2>1, <2>2 DEF TypeOK
    <2> QED
        BY <1>2, <2>2, <2>3
<1>8. ASSUME pc[c] \in {"count", "again", "recheck"}, Enter(c),
             pc' = [pc EXCEPT ![c] = "dispatch"], unlimitedIPs' = unlimitedIPs
      PROVE  /\ \A x \in Conns : Marked(x)'
             /\ \A e \in Emails, d \in Devices : Fair(e, d)'
    <2>1. counted[c] = "no" /\ counted' = [counted EXCEPT ![c] = "limited"]
        BY <1>1, <1>8 DEF Enter
    <2>2. \A x \in Conns : Marked(x)'
        BY <1>1, <1>8, <2>1 DEF TypeOK
    <2> QED
        BY <1>8, <2>1, <2>2, FairEnter
<1>9. CASE Count(c) \/ CountAgain(c)
    <2>1. /\ pc[c] \in {"count", "again"} /\ Enter(c)
          /\ pc' = [pc EXCEPT ![c] = "dispatch"] /\ unlimitedIPs' = unlimitedIPs
        BY <1>9 DEF Count, CountAgain, free
    <2> QED
        BY <1>8, <2>1
<1>10. CASE Recheck(c)
    <2>1. pc[c] = "recheck" /\ unlimitedIPs' = unlimitedIPs
        BY <1>10 DEF Recheck, free
    <2>2. CASE pc' = [pc EXCEPT ![c] = "dispatch"] /\ Enter(c)
        BY <1>8, <2>1, <2>2
    <2>3. CASE /\ limitedIPs' = limitedIPs /\ counted' = counted
               /\ \/ pc' = [pc EXCEPT ![c] = "closed"]
                  \/ c \notin Tcp /\ pc' = [pc EXCEPT ![c] = "dispatch"]
        <3>1. \A x \in Conns : Marked(x)'
            BY <1>1, <2>1, <2>3 DEF TypeOK
        <3> QED
            BY <1>2, <2>1, <2>3, <3>1
    <2> QED
        BY <1>10, <2>2, <2>3 DEF Recheck
<1> QED
    BY <1>3, <1>4, <1>5, <1>6, <1>7, <1>9, <1>10 DEF Gate

\* A panic forgets the devices and every connection with them.
LEMMA LimitedPanic ==
    ASSUME LimitedInv, NEW c \in Conns, Panic(c)
    PROVE  /\ \A x \in Conns : Marked(x)'
           /\ \A e \in Emails, d \in Devices : Fair(e, d)'
<1>1. \A x \in Conns : counted'[x] = "no" /\ pc'[x] \in {"none", "closed"}
    BY DEF Panic
<1>2. \A x \in Conns : Marked(x)'
    BY <1>1 DEF Marked
<1>3. ASSUME NEW e \in Emails, NEW d \in Devices PROVE Fair(e, d)'
    <2>1. Held(e, d)' = {}
        BY <1>1 DEF Held, Holders
    <2>2. limitedIPs'[e][d] = 0
        BY DEF Panic
    <2> QED
        BY <2>1, <2>2, FS_EmptySet DEF Fair
<1> QED
    BY <1>2, <1>3

\* Dispatching and the control goroutine count and release nothing.
LEMMA LimitedOthers ==
    ASSUME LimitedInv, \/ \E c \in Conns : Serve(c) \/ PeerClose(c) \/ DeleteCounter(c)
                                                \/ Untrack(c)
                       \/ Control \/ GlobalExpires \/ UNCHANGED vars
    PROVE  /\ \A x \in Conns : Marked(x)'
           /\ \A e \in Emails, d \in Devices : Fair(e, d)'
<1>1. TypeOK /\ (\A x \in Conns : Marked(x)) /\ \A e \in Emails, d \in Devices : Fair(e, d)
    BY DEF LimitedInv
<1>2. counted' = counted /\ limitedIPs' = limitedIPs /\ unlimitedIPs' = unlimitedIPs
    BY DEF Serve, DispatchFails, Track, Insert, PeerClose, DeleteCounter, Untrack, Control,
           UpdateLimits, UpdateGlobalDevices, ClearGlobalDevices, CloseUsers, CloseCollected,
           GlobalExpires, limited, free, vars
<1>3. \A e \in Emails, d \in Devices : Fair(e, d)'
    BY <1>1, <1>2, FairStays
<1>4. CASE pc' = pc
    BY <1>1, <1>2, <1>3, <1>4 DEF Marked, AmongUnlimited
<1>5. ASSUME NEW c \in Conns,
             NEW stage \in {"insert", "open", "closing", "closed", "untrack"},
             pc' = [pc EXCEPT ![c] = stage],
             stage \in {"insert", "open", "closing"} =>
                 pc[c] \in {"dispatch", "insert", "open", "closing"} \/ c \notin Tcp
      PROVE  \A x \in Conns : Marked(x)'
    BY <1>1, <1>2, <1>5 DEF Marked, AmongUnlimited, TypeOK
<1>6. ASSUME NEW c \in Conns, FirstClose(c) PROVE \A x \in Conns : Marked(x)'
    <2>1. CASE pc[c] = "open"
        BY <1>5, <1>6, <2>1 DEF FirstClose, Goto
    <2>2. CASE pc[c] # "open"
        <3>1. pc' = pc
            BY <1>1, <1>6, <2>2 DEF FirstClose, Goto, TypeOK
        <3> QED
            BY <1>4, <3>1
    <2> QED
        BY <2>1, <2>2
<1>7. ASSUME NEW c \in Conns, Serve(c) PROVE \A x \in Conns : Marked(x)'
    <2>1. CASE DispatchFails(c)
        <3>1. /\ pc[c] = "dispatch"
              /\ \/ pc' = [pc EXCEPT ![c] = "closing"]
                 \/ pc' = [pc EXCEPT ![c] = "closed"]
            BY <2>1 DEF DispatchFails, Goto
        <3> QED
            BY <1>5, <3>1
    <2>2. CASE Track(c)
        BY <1>5, <2>2 DEF Track, Goto
    <2>3. CASE Insert(c)
        BY <1>5, <2>3 DEF Insert, Goto
    <2> QED
        BY <1>7, <2>1, <2>2, <2>3 DEF Serve
<1>8. ASSUME NEW c \in Conns, PeerClose(c) \/ DeleteCounter(c) \/ Untrack(c)
      PROVE  \A x \in Conns : Marked(x)'
    <2>1. CASE PeerClose(c)
        BY <1>6, <2>1 DEF PeerClose
    <2>2. CASE DeleteCounter(c) \/ Untrack(c)
        <3>1. pc' = [pc EXCEPT ![c] = "untrack"] \/ pc' = [pc EXCEPT ![c] = "closed"]
            BY <2>2 DEF DeleteCounter, Untrack, Released, Goto
        <3> QED
            BY <1>5, <3>1
    <2> QED
        BY <1>8, <2>1, <2>2
<1>9. CASE Control \/ GlobalExpires \/ UNCHANGED vars
    <2>1. pc' = pc \/ \E c \in Conns : FirstClose(c)
        BY <1>9 DEF Control, UpdateLimits, UpdateGlobalDevices, ClearGlobalDevices, CloseUsers,
                    CloseCollected, GlobalExpires, vars
    <2> QED
        BY <1>3, <1>4, <1>6, <2>1
<1>10. \A x \in Conns : Marked(x)'
    <2>1. CASE \E c \in Conns : Serve(c) \/ PeerClose(c) \/ DeleteCounter(c) \/ Untrack(c)
        BY <1>7, <1>8, <2>1
    <2>2. CASE Control \/ GlobalExpires \/ UNCHANGED vars
        BY <1>9, <2>2
    <2> QED
        BY <2>1, <2>2
<1> QED
    BY <1>3, <1>10

\* delConn.
LEMMA LimitedLeave ==
    ASSUME LimitedInv, NEW c \in Conns, StartRelease(c) \/ Subtract(c) \/ Release(c)
    PROVE  /\ \A x \in Conns : Marked(x)'
           /\ \A e \in Emails, d \in Devices : Fair(e, d)'
<1>1. TypeOK /\ (\A x \in Conns : Marked(x)) /\ \A e \in Emails, d \in Devices : Fair(e, d)
    BY DEF LimitedInv
<1>2. unlimitedIPs' = unlimitedIPs
    BY DEF StartRelease, Subtract, Release, free
<1>3. ASSUME NEW stage \in {"delete", "untrack", "closed"}, pc' = [pc EXCEPT ![c] = stage],
             counted' = [counted EXCEPT ![c] = "no"]
      PROVE  \A x \in Conns : Marked(x)'
    BY <1>1, <1>2, <1>3 DEF Marked, AmongUnlimited, TypeOK
<1>4. CASE StartRelease(c)
    <2>1. pc[c] = "closing" /\ limitedIPs' = limitedIPs
        BY <1>4 DEF StartRelease, limited
    <2>2. CASE /\ counted' = counted
               /\ \/ pc' = [pc EXCEPT ![c] = "untrack"]
                  \/ c \in Tcp /\ ~AmongUnlimited(c) /\ pc' = [pc EXCEPT ![c] = "release"]
                  \/ AmongUnlimited(c) /\ pc' = [pc EXCEPT ![c] = "subtract"]
        <3>1. c \in Tcp /\ ~AmongUnlimited(c) => counted[c] = "limited"
            BY <1>1, <2>1 DEF Marked, TypeOK
        <3>2. \A x \in Conns : Marked(x)'
            BY <1>1, <1>2, <2>1, <2>2, <3>1 DEF Marked, AmongUnlimited, TypeOK
        <3>3. \A e \in Emails, d \in Devices : Fair(e, d)'
            BY <1>1, <1>2, <2>1, <2>2, FairStays
        <3> QED
            BY <3>2, <3>3
    <2>3. CASE /\ AmongUnlimited(c) /\ counted' = [counted EXCEPT ![c] = "no"]
               /\ Goto(c, Released(c))
        BY <1>2, <1>3, <2>1, <2>3, FairForget DEF Goto, Released
    <2> QED
        BY <1>4, <2>2, <2>3 DEF StartRelease, Goto
<1>5. CASE Subtract(c)
    <2>1. /\ pc[c] = "subtract" /\ limitedIPs' = limitedIPs
          /\ counted' = [counted EXCEPT ![c] = "no"]
          /\ \/ pc' = [pc EXCEPT ![c] = "delete"]
             \/ pc' = [pc EXCEPT ![c] = "untrack"]
             \/ pc' = [pc EXCEPT ![c] = "closed"]
        BY <1>5 DEF Subtract, limited, Goto, Released
    <2>2. AmongUnlimited(c)
        BY <1>1, <2>1 DEF Marked
    <2> QED
        BY <1>2, <1>3, <2>1, <2>2, FairForget
<1>6. CASE Release(c)
    <2>1. /\ counted' = [counted EXCEPT ![c] = "no"]
          /\ \/ pc' = [pc EXCEPT ![c] = "untrack"]
             \/ pc' = [pc EXCEPT ![c] = "closed"]
        BY <1>6 DEF Release, Goto, Released
    <2> QED
        BY <1>3, <1>6, <2>1, FairRelease
<1> QED
    BY <1>4, <1>5, <1>6

LEMMA LimitedStep == LimitedInv /\ TypeOK' /\ [Next]_vars => LimitedInv'
<1> SUFFICES ASSUME LimitedInv, TypeOK', [Next]_vars
             PROVE  /\ \A x \in Conns : Marked(x)'
                    /\ \A e \in Emails, d \in Devices : Fair(e, d)'
    BY DEF LimitedInv
<1>1. CASE \E c \in Conns : Gate(c)
    BY <1>1, LimitedGate, LimitedPanic
<1>2. CASE \E c \in Conns : StartRelease(c) \/ Subtract(c) \/ Release(c)
    BY <1>2, LimitedLeave
<1>3. CASE \/ \E c \in Conns : Serve(c) \/ PeerClose(c) \/ DeleteCounter(c) \/ Untrack(c)
           \/ Control \/ GlobalExpires \/ UNCHANGED vars
    BY <1>3, LimitedOthers
<1> QED
    BY <1>1, <1>2, <1>3 DEF Next, Leave

\* The gate counts a device of a limited user at least as often as it has
\* connections that have not been released, and exactly as often if the user was
\* never seen without a limit, for any connections, users and limits.
THEOREM LimitedCorrect == Spec => []LimitedCounts
<1>1. Spec => []TypeOK
    BY TypeCorrect
<1>2. Spec => []LimitedInv
    BY <1>1, LimitedInit, LimitedStep, PTL DEF Spec
<1>3. LimitedInv => LimitedCounts
    BY DEF LimitedInv, Fair, Held, LimitedCounts
<1> QED
    BY <1>2, <1>3, PTL

-----------------------------------------------------------------------------
(* The counters of unlimited users *)

\* A connection has loaded a counter of its own device, ...
Loaded(c) ==
    ctr[c] # NoCounter => EmailOf[ctr[c]] = EmailOf[c] /\ DevOf[ctr[c]] = DevOf[c]

\* ... and a device has a counter that was stored for it.
Owned(e, d) ==
    counter[e][d] # NoCounter =>
        EmailOf[counter[e][d]] = e /\ DevOf[counter[e][d]] = d

\* A connection that has not come to LoadOrStore has not stored its counter.
Fresh(c) ==
    pc[c] \in {"none", "limits", "load"} =>
        /\ value[c] = 0
        /\ \A e \in Emails, d \in Devices : counter[e][d] # c
        /\ \A x \in Conns : ctr[x] # c

\* Connections that have added to a counter and not subtracted from any, but
\* may have loaded one since to subtract from: those whose count it holds.
Adders(x) == {c \in Conns : ctr[c] = x /\ counted[c] = "unlimited"}

Under(e, d) ==
    counter[e][d] # NoCounter =>
        value[counter[e][d]] <= Cardinality(Adders(counter[e][d]))

Books ==
    /\ \A c \in Conns : Loaded(c) /\ Fresh(c)
    /\ \A e \in Emails, d \in Devices : Owned(e, d) /\ Under(e, d)

OverInv == LimitedInv /\ Books

LEMMA OverInit == Init => OverInv
<1> SUFFICES ASSUME Init PROVE Books
    BY LimitedInit DEF OverInv
<1>1. /\ \A c \in Conns : ctr[c] = NoCounter /\ value[c] = 0
      /\ \A e \in Emails, d \in Devices : counter[e][d] = NoCounter
    BY DEF Init
<1>2. \A c \in Conns : c # NoCounter
    BY LimitDispatcherAssumption
<1> QED
    BY <1>1, <1>2 DEF Books, Loaded, Fresh, Owned, Under

\* A connection that has loaded a counter another device has now, or none has,
\* does not exist: what it has loaded is out of use or in use for its device.
LEMMA LoadedOwn ==
    ASSUME Books, NEW c \in Conns, NEW e \in Emails, NEW d \in Devices,
           counter[e][d] # NoCounter, ctr[c] = counter[e][d]
    PROVE  e = EmailOf[c] /\ d = DevOf[c]
BY DEF Books, Loaded, Owned

\* A step that leaves the counters alone and takes no connection back.
LEMMA BooksStay ==
    ASSUME OverInv, value' = value, counter' = counter, ctr' = ctr,
           \A c \in Conns : counted'[c] = "unlimited" <=> counted[c] = "unlimited",
           \A c \in Conns : pc'[c] \in {"none", "limits", "load"} =>
                                pc[c] \in {"none", "limits", "load"}
    PROVE  Books'
<1>1. Books
    BY DEF OverInv
<1>2. \A x : Adders(x)' = Adders(x)
    BY DEF Adders
<1>3. ASSUME NEW c \in Conns PROVE Loaded(c)' /\ Fresh(c)'
    BY <1>1 DEF Books, Loaded, Fresh
<1>4. ASSUME NEW e \in Emails, NEW d \in Devices PROVE Owned(e, d)' /\ Under(e, d)'
    <2>1. Owned(e, d) /\ Under(e, d)
        BY <1>1 DEF Books
    <2> QED
        BY <1>2, <2>1 DEF Owned, Under
<1> QED
    BY <1>3, <1>4 DEF Books

\* LoadOrStore: the counter it stores stands at zero.
LEMMA BooksLoad ==
    ASSUME OverInv, NEW c \in Conns, LoadCounter(c)
    PROVE  Books'
<1> DEFINE present == counter[EmailOf[c]][DevOf[c]]
           found == IF present = NoCounter THEN c ELSE present
<1>1. TypeOK /\ Books /\ Marked(c)
    BY DEF OverInv, LimitedInv
<1>2. /\ pc[c] = "load" /\ pc' = [pc EXCEPT ![c] = "add"]
      /\ counter' = [counter EXCEPT ![EmailOf[c]][DevOf[c]] = found]
      /\ ctr' = [ctr EXCEPT ![c] = found]
      /\ value' = value /\ counted' = counted
    BY DEF LoadCounter, Goto
<1>3. EmailOf[c] \in Emails /\ DevOf[c] \in Devices /\ NoCounter \notin Conns
    BY LimitDispatcherAssumption
<1>4. /\ pc \in [Conns -> Stages] /\ ctr \in [Conns -> Conns \cup {NoCounter}]
      /\ counter \in [Emails -> [Devices -> Conns \cup {NoCounter}]]
      /\ value \in [Conns -> Int] /\ counted[c] = "no"
    BY <1>1, <1>2 DEF TypeOK, Marked
<1>5. /\ found \in Conns /\ EmailOf[found] = EmailOf[c] /\ DevOf[found] = DevOf[c]
      /\ found = c \/ found = present
    BY <1>1, <1>3, <1>4 DEF Books, Owned
<1>6. /\ value[c] = 0 /\ (\A x \in Conns : ctr[x] # c)
      /\ \A e \in Emails, d \in Devices : counter[e][d] # c
    BY <1>1, <1>2 DEF Books, Fresh
<1> HIDE DEF found
<1>7. \A x : Adders(x)' = Adders(x)
    BY <1>2, <1>4 DEF Adders
<1>8. ASSUME NEW x \in Conns PROVE Loaded(x)' /\ Fresh(x)'
    <2>1. Loaded(x) /\ Fresh(x)
        BY <1>1 DEF Books
    <2>2. Loaded(x)'
        BY <1>2, <1>4, <1>5, <2>1 DEF Loaded
    <2>3. Fresh(x)'
        <3>1. CASE x = c
            BY <1>2, <1>4, <3>1 DEF Fresh
        <3>2. CASE x # c
            BY <1>2, <1>3, <1>4, <1>5, <2>1, <3>2 DEF Fresh
        <3> QED
            BY <3>1, <3>2
    <2> QED
        BY <2>2, <2>3
<1>9. ASSUME NEW e \in Emails, NEW d \in Devices PROVE Owned(e, d)' /\ Under(e, d)'
    <2>1. Owned(e, d) /\ Under(e, d)
        BY <1>1 DEF Books
    <2>2. CASE counter'[e][d] = counter[e][d]
        BY <1>2, <1>7, <2>1, <2>2 DEF Owned, Under
    <2>3. CASE counter'[e][d] # counter[e][d]
        <3>1. e = EmailOf[c] /\ d = DevOf[c] /\ counter'[e][d] = c
            BY <1>2, <1>3, <1>4, <1>5, <2>3
        <3>2. Adders(c) \in SUBSET Conns
            BY DEF Adders
        <3>3. Cardinality(Adders(c)) \in Nat
            BY <3>2, HeldFinite
        <3>4. Owned(e, d)'
            BY <3>1 DEF Owned
        <3>5. value'[c] <= Cardinality(Adders(c)')
            BY <1>2, <1>6, <1>7, <3>3
        <3> QED
            BY <3>1, <3>4, <3>5 DEF Under
    <2> QED
        BY <2>2, <2>3
<1> QED
    BY <1>8, <1>9 DEF Books

\* Add(1): the counter, in use or not, holds one connection more.
LEMMA BooksAdd ==
    ASSUME OverInv, NEW c \in Conns, AddCounter(c)
    PROVE  Books'
<1>1. TypeOK /\ Books /\ Marked(c)
    BY DEF OverInv, LimitedInv
<1>2. /\ pc[c] = "add" /\ pc' = [pc EXCEPT ![c] = "dispatch"]
      /\ value' = [value EXCEPT ![ctr[c]] = @ + 1]
      /\ counted' = [counted EXCEPT ![c] = "unlimited"]
      /\ counter' = counter /\ ctr' = ctr
    BY DEF AddCounter, Goto, locals
<1>3. /\ pc \in [Conns -> Stages] /\ value \in [Conns -> Int]
      /\ counter \in [Emails -> [Devices -> Conns \cup {NoCounter}]]
      /\ counted \in [Conns -> {"no", "limited", "unlimited"}] /\ counted[c] = "no"
    BY <1>1, <1>2 DEF TypeOK, Marked
<1>4. ASSUME NEW x \in Conns PROVE Loaded(x)' /\ Fresh(x)'
    <2>1. Loaded(x) /\ Fresh(x)
        BY <1>1 DEF Books
    <2>2. Loaded(x)'
        BY <1>2, <2>1 DEF Loaded
    <2>3. Fresh(x)'
        BY <1>2, <1>3, <2>1 DEF Fresh
    <2> QED
        BY <2>2, <2>3
<1>5. ASSUME NEW e \in Emails, NEW d \in Devices PROVE Owned(e, d)' /\ Under(e, d)'
    <2>1. Owned(e, d) /\ Under(e, d)
        BY <1>1 DEF Books
    <2>2. Owned(e, d)'
        BY <1>2, <2>1 DEF Owned
    <2>3. Under(e, d)'
        <3>1. SUFFICES ASSUME NEW y \in Conns, y = counter[e][d], y # NoCounter
                       PROVE  value'[y] <= Cardinality(Adders(y)')
            BY <1>2, <1>3 DEF Under, Adders
        <3>2. /\ value[y] <= Cardinality(Adders(y)) /\ value[y] \in Int
              /\ Adders(y) \in SUBSET Conns
            BY <1>3, <2>1, <3>1 DEF Under, Adders
        <3>3. CASE y = ctr[c]
            <4>1. Adders(y)' = Adders(y) \cup {c} /\ c \notin Adders(y)
                BY <1>2, <1>3, <3>3 DEF Adders
            <4>2. Cardinality(Adders(y)') = Cardinality(Adders(y)) + 1
                BY <3>2, <4>1, HeldFinite, FS_AddElement
            <4>3. value'[y] = value[y] + 1
                BY <1>2, <1>3, <3>3
            <4> QED
                BY <3>1, <3>2, <4>2, <4>3, HeldFinite
        <3>4. CASE y # ctr[c]
            <4>1. Adders(y)' = Adders(y)
                BY <1>2, <1>3, <3>4 DEF Adders
            <4>2. value'[y] = value[y]
                BY <1>2, <1>3, <3>4
            <4> QED
                BY <3>1, <3>2, <4>1, <4>2
        <3> QED
            BY <3>3, <3>4
    <2> QED
        BY <2>2, <2>3
<1> QED
    BY <1>4, <1>5 DEF Books

\* delConn loads the device's counter of now.  A connection counted in one that
\* is out of use is from here on taken for one of this.
LEMMA BooksStart ==
    ASSUME OverInv, NEW c \in Conns, StartRelease(c)
    PROVE  Books'
<1> DEFINE present == counter[EmailOf[c]][DevOf[c]]
<1>1. TypeOK /\ Books
    BY DEF OverInv, LimitedInv
<1>2. /\ value' = value /\ counter' = counter /\ pc[c] = "closing"
      /\ \/ pc' = [pc EXCEPT ![c] = "untrack"]
         \/ pc' = [pc EXCEPT ![c] = "release"]
         \/ pc' = [pc EXCEPT ![c] = "subtract"]
         \/ pc' = [pc EXCEPT ![c] = "closed"]
    BY DEF StartRelease, Goto, Released, free
<1>3. /\ pc \in [Conns -> Stages] /\ ctr \in [Conns -> Conns \cup {NoCounter}]
      /\ value \in [Conns -> Int]
      /\ counter \in [Emails -> [Devices -> Conns \cup {NoCounter}]]
      /\ counted \in [Conns -> {"no", "limited", "unlimited"}]
      /\ EmailOf[c] \in Emails /\ DevOf[c] \in Devices
    BY <1>1, LimitDispatcherAssumption DEF TypeOK
<1>4. \A x \in Conns : pc'[x] \in {"none", "limits", "load"} =>
                           pc[x] \in {"none", "limits", "load"}
    BY <1>2, <1>3
<1>5. CASE ctr' = ctr /\ counted' = counted
    BY <1>2, <1>4, <1>5, BooksStay
<1>6. CASE /\ ctr' = [ctr EXCEPT ![c] = present]
           /\ \/ present # NoCounter /\ counted' = counted
              \/ present = NoCounter /\ counted' = [counted EXCEPT ![c] = "no"]
    <2>1. ASSUME NEW x \in Conns PROVE Loaded(x)' /\ Fresh(x)'
        <3>1. Loaded(x) /\ Fresh(x) /\ Owned(EmailOf[c], DevOf[c])
            BY <1>1, <1>3 DEF Books
        <3>2. Loaded(x)'
            BY <1>3, <1>6, <3>1 DEF Loaded, Owned
        <3>3. Fresh(x)'
            BY <1>2, <1>3, <1>4, <1>6, <3>1, LimitDispatcherAssumption DEF Fresh
        <3> QED
            BY <3>2, <3>3
    <2>2. ASSUME NEW e \in Emails, NEW d \in Devices PROVE Owned(e, d)' /\ Under(e, d)'
        <3>1. Owned(e, d) /\ Under(e, d)
            BY <1>1 DEF Books
        <3>2. Owned(e, d)'
            BY <1>2, <3>1 DEF Owned
        <3>3. Under(e, d)'
            <4>1. SUFFICES ASSUME NEW y \in Conns, y = counter[e][d], y # NoCounter
                           PROVE  value[y] <= Cardinality(Adders(y)')
                BY <1>2, <1>3 DEF Under, Adders
            <4>2. /\ value[y] <= Cardinality(Adders(y)) /\ value[y] \in Int
                  /\ Adders(y) \in SUBSET Conns /\ Adders(y)' \in SUBSET Conns
                BY <1>3, <3>1, <4>1 DEF Under, Adders
            <4>3. Adders(y) \subseteq Adders(y)'
                <5>1. ctr[c] = y => present = y
                    BY <1>1, <4>1, LoadedOwn
                <5>2. ASSUME NEW x \in Adders(y) PROVE x \in Adders(y)'
                    <6>1. CASE x = c
                        BY <1>3, <1>6, <4>1, <5>1, <6>1 DEF Adders
                    <6>2. CASE x # c
                        BY <1>3, <1>6, <6>2 DEF Adders
                    <6> QED
                        BY <6>1, <6>2
                <5> QED
                    BY <5>2
            <4>4. PICK S, T : S = Adders(y) /\ T = Adders(y)'
                OBVIOUS
            <4>5. Cardinality(S) <= Cardinality(T)
                BY <4>2, <4>3, <4>4, HeldFinite, FS_Subset
            <4>6. Cardinality(S) \in Nat /\ Cardinality(T) \in Nat
                BY <4>2, <4>4, HeldFinite
            <4>7. value[y] <= Cardinality(T)
                BY <4>2, <4>4, <4>5, <4>6
            <4> QED
                BY <4>1, <4>4, <4>7
        <3> QED
            BY <3>2, <3>3
    <2> QED
        BY <2>1, <2>2 DEF Books
<1> QED
    BY <1>5, <1>6 DEF StartRelease

\* Add(-1): the counter holds at most one connection less.
LEMMA BooksSubtract ==
    ASSUME OverInv, NEW c \in Conns, Subtract(c)
    PROVE  Books'
<1>1. TypeOK /\ Books
    BY DEF OverInv, LimitedInv
<1>2. /\ pc[c] = "subtract"
      /\ \/ pc' = [pc EXCEPT ![c] = "delete"]
         \/ pc' = [pc EXCEPT ![c] = "untrack"]
         \/ pc' = [pc EXCEPT ![c] = "closed"]
      /\ value' = [value EXCEPT ![ctr[c]] = @ - 1]
      /\ counted' = [counted EXCEPT ![c] = "no"]
      /\ ctr' = [ctr EXCEPT ![c] = NoCounter] /\ counter' = counter
    BY DEF Subtract, Goto, Released
<1>3. /\ pc \in [Conns -> Stages] /\ ctr \in [Conns -> Conns \cup {NoCounter}]
      /\ value \in [Conns -> Int] /\ NoCounter \notin Conns
      /\ counter \in [Emails -> [Devices -> Conns \cup {NoCounter}]]
      /\ counted \in [Conns -> {"no", "limited", "unlimited"}]
    BY <1>1, LimitDispatcherAssumption DEF TypeOK
<1>4. ASSUME NEW x \in Conns PROVE Loaded(x)' /\ Fresh(x)'
    <2>1. Loaded(x) /\ Fresh(x)
        BY <1>1 DEF Books
    <2>2. Loaded(x)'
        BY <1>2, <1>3, <2>1 DEF Loaded
    <2>3. Fresh(x)'
        <3>1. pc'[x] \in {"none", "limits", "load"} => pc[x] \in {"none", "limits", "load"}
            BY <1>2, <1>3
        <3>2. pc[x] \in {"none", "limits", "load"} => value'[x] = value[x]
            BY <1>2, <1>3, <2>1 DEF Fresh
        <3> QED
            BY <1>2, <1>3, <2>1, <3>1, <3>2 DEF Fresh
    <2> QED
        BY <2>2, <2>3
<1>5. ASSUME NEW e \in Emails, NEW d \in Devices PROVE Owned(e, d)' /\ Under(e, d)'
    <2>1. Owned(e, d) /\ Under(e, d)
        BY <1>1 DEF Books
    <2>2. Owned(e, d)'
        BY <1>2, <2>1 DEF Owned
    <2>3. Under(e, d)'
        <3>1. SUFFICES ASSUME NEW y \in Conns, y = counter[e][d], y # NoCounter
                       PROVE  value'[y] <= Cardinality(Adders(y)')
            BY <1>2, <1>3 DEF Under, Adders
        <3>2. /\ value[y] <= Cardinality(Adders(y)) /\ value[y] \in Int
              /\ Adders(y) \in SUBSET Conns
            BY <1>3, <2>1, <3>1 DEF Under, Adders
        <3>3. Adders(y)' = IF ctr[c] = y THEN Adders(y) \ {c} ELSE Adders(y)
            BY <1>2, <1>3, <3>1 DEF Adders
        <3>4. CASE y = ctr[c]
            <4>1. value'[y] = value[y] - 1
                BY <1>2, <1>3, <3>4
            <4>2. CASE c \in Adders(y)
                <5>1. Cardinality(Adders(y)') = Cardinality(Adders(y)) - 1
                    BY <3>2, <3>3, <3>4, <4>2, HeldFinite, FS_RemoveElement
                <5> QED
                    BY <3>1, <3>2, <4>1, <5>1, HeldFinite
            <4>3. CASE c \notin Adders(y)
                <5>1. Adders(y)' = Adders(y)
                    BY <3>3, <4>3
                <5> QED
                    BY <3>1, <3>2, <4>1, <5>1, HeldFinite
            <4> QED
                BY <4>2, <4>3
        <3>5. CASE y # ctr[c]
            <4>1. value'[y] = value[y]
                BY <1>2, <1>3, <3>5
            <4> QED
                BY <3>1, <3>2, <3>3, <3>5, <4>1
        <3> QED
            BY <3>4, <3>5
    <2> QED
        BY <2>2, <2>3
<1> QED
    BY <1>4, <1>5 DEF Books

\* Delete: a device without a counter, and after a panic none has one.
LEMMA BooksDelete ==
    ASSUME OverInv, NEW c \in Conns, DeleteCounter(c)
    PROVE  Books'
<1>1. TypeOK /\ Books
    BY DEF OverInv, LimitedInv
<1>2. /\ pc' = [pc EXCEPT ![c] = "untrack"] \/ pc' = [pc EXCEPT ![c] = "closed"]
      /\ counter' = [counter EXCEPT ![EmailOf[c]][DevOf[c]] = NoCounter]
      /\ value' = value /\ ctr' = ctr /\ counted' = counted
    BY DEF DeleteCounter, Goto, Released, locals
<1>3. /\ pc \in [Conns -> Stages]
      /\ counter \in [Emails -> [Devices -> Conns \cup {NoCounter}]]
      /\ NoCounter \notin Conns
    BY <1>1, LimitDispatcherAssumption DEF TypeOK
<1>4. \A e \in Emails, d \in Devices :
          counter'[e][d] = counter[e][d] \/ counter'[e][d] = NoCounter
    BY <1>2, <1>3
<1>5. \A x : Adders(x)' = Adders(x)
    BY <1>2 DEF Adders
<1>6. ASSUME NEW x \in Conns PROVE Loaded(x)' /\ Fresh(x)'
    <2>1. Loaded(x) /\ Fresh(x)
        BY <1>1 DEF Books
    <2>2. pc'[x] \in {"none", "limits", "load"} => pc[x] \in {"none", "limits", "load"}
        BY <1>2, <1>3
    <2>3. Loaded(x)'
        BY <1>2, <2>1 DEF Loaded
    <2>4. Fresh(x)'
        BY <1>2, <1>3, <1>4, <2>1, <2>2 DEF Fresh
    <2> QED
        BY <2>3, <2>4
<1>7. ASSUME NEW e \in Emails, NEW d \in Devices PROVE Owned(e, d)' /\ Under(e, d)'
    <2>1. Owned(e, d) /\ Under(e, d)
        BY <1>1 DEF Books
    <2> QED
        BY <1>2, <1>4, <1>5, <2>1 DEF Owned, Under
<1> QED
    BY <1>6, <1>7 DEF Books

LEMMA BooksPanic ==
    ASSUME NEW c \in Conns, Panic(c)
    PROVE  Books'
<1>1. /\ \A x \in Conns : ctr'[x] = NoCounter /\ value'[x] = 0
      /\ \A e \in Emails, d \in Devices : counter'[e][d] = NoCounter
    BY DEF Panic
<1>2. \A x \in Conns : x # NoCounter
    BY LimitDispatcherAssumption
<1>3. \A x \in Conns : Loaded(x)' /\ Fresh(x)'
    BY <1>1, <1>2 DEF Loaded, Fresh
<1>4. \A e \in Emails, d \in Devices : Owned(e, d)' /\ Under(e, d)'
    BY <1>1 DEF Owned, Under
<1> QED
    BY <1>3, <1>4 DEF Books

\* The rest of the gate, and the release of a connection of a limited user.
LEMMA BooksGate ==
    ASSUME OverInv, NEW c \in Conns,
           \/ Arrive(c) \/ ReadLimits(c) \/ Decide(c) \/ Count(c) \/ CountAgain(c)
           \/ Recheck(c) \/ Release(c)
    PROVE  Books'
<1>1. TypeOK /\ Marked(c)
    BY DEF OverInv, LimitedInv
<1>2. value' = value /\ counter' = counter /\ ctr' = ctr
    BY DEF Arrive, ReadLimits, Decide, Count, CountAgain, Recheck, Release, free, locals
<1>3. /\ pc \in [Conns -> Stages]
      /\ counted \in [Conns -> {"no", "limited", "unlimited"}]
    BY <1>1 DEF TypeOK
<1>4. /\ pc[c] \in {"none", "limits", "decide", "count", "again", "recheck", "release"}
      /\ \/ counted' = counted
         \/ counted' = [counted EXCEPT ![c] = "no"]
         \/ counted' = [counted EXCEPT ![c] = "limited"]
    BY DEF Arrive, ReadLimits, Decide, Count, CountAgain, Recheck, Release, Enter
<1>5. counted[c] # "unlimited"
    BY <1>1, <1>4 DEF Marked
<1>6. \A x \in Conns : counted'[x] = "unlimited" <=> counted[x] = "unlimited"
    BY <1>3, <1>4, <1>5
<1>7. \/ pc[c] = "none" /\ Arrive(c)
      \/ pc[c] = "limits" /\ ReadLimits(c)
      \/ /\ pc[c] \notin {"none", "limits"}
         /\ Decide(c) \/ Count(c) \/ CountAgain(c) \/ Recheck(c) \/ Release(c)
    BY DEF Arrive, ReadLimits, Decide, Count, CountAgain, Recheck, Release
<1>8. \A x \in Conns : pc'[x] \in {"none", "limits", "load"} =>
                           pc[x] \in {"none", "limits", "load"}
    <2>1. CASE pc[c] \in {"none", "limits"}
        <3>1. \E stage : pc' = [pc EXCEPT ![c] = stage]
            BY <1>7, <2>1 DEF Arrive, ReadLimits, Goto
        <3> QED
            BY <1>3, <2>1, <3>1
    <2>2. CASE Decide(c)
        <3>1. PICK stage \in {"count", "again", "dispatch", "recheck", "closed"} :
                  pc' = [pc EXCEPT ![c] = stage]
            BY <2>2, StageType DEF Decide, Goto
        <3> QED
            BY <1>3, <3>1
    <2>3. CASE Count(c) \/ CountAgain(c) \/ Recheck(c) \/ Release(c)
        <3>1. PICK stage \in {"dispatch", "closed", "untrack"} :
                  pc' = [pc EXCEPT ![c] = stage]
            BY <2>3 DEF Count, CountAgain, Recheck, Release, Released, Goto
        <3> QED
            BY <1>3, <3>1
    <2> QED
        BY <1>7, <2>1, <2>2, <2>3
<1> QED
    BY <1>2, <1>6, <1>8, BooksStay

\* Dispatching, closing and the control goroutine.
LEMMA BooksOthers ==
    ASSUME OverInv, \/ \E c \in Conns : Serve(c) \/ PeerClose(c) \/ Untrack(c)
                    \/ Control \/ GlobalExpires \/ UNCHANGED vars
    PROVE  Books'
<1>1. TypeOK
    BY DEF OverInv, LimitedInv
<1>2. /\ value' = value /\ counter' = counter /\ ctr' = ctr /\ counted' = counted
      /\ \/ pc' = pc
         \/ \E c \in Conns : FirstClose(c)
         \/ \E c \in Conns : \E stage \in {"closing", "closed", "insert", "open"} :
                pc' = [pc EXCEPT ![c] = stage]
    <2>1. CASE \E c \in Conns : Serve(c) \/ PeerClose(c) \/ Untrack(c)
        BY <2>1 DEF Serve, DispatchFails, Track, Insert, PeerClose, Untrack, Goto, free, locals
    <2>2. CASE Control \/ GlobalExpires \/ UNCHANGED vars
        BY <2>2 DEF Control, UpdateLimits, UpdateGlobalDevices, ClearGlobalDevices, CloseUsers,
                    CloseCollected, GlobalExpires, free, locals, vars
    <2> QED
        BY <2>1, <2>2
<1>3. \A x \in Conns : pc'[x] \in {"none", "limits", "load"} =>
                           pc[x] \in {"none", "limits", "load"}
    <2>1. CASE \E c \in Conns : FirstClose(c)
        BY <1>1, <2>1 DEF FirstClose, Goto, TypeOK
    <2>2. CASE \E c \in Conns : \E stage \in {"closing", "closed", "insert", "open"} :
                   pc' = [pc EXCEPT ![c] = stage]
        BY <1>1, <2>2 DEF TypeOK
    <2> QED
        BY <1>2, <2>1, <2>2
<1> QED
    BY <1>2, <1>3, BooksStay

LEMMA OverStep == OverInv /\ TypeOK' /\ [Next]_vars => OverInv'
<1> SUFFICES ASSUME OverInv, TypeOK', [Next]_vars PROVE Books'
    BY LimitedStep DEF OverInv
<1>1. CASE \E c \in Conns : Gate(c)
    <2> PICK c \in Conns : Gate(c)
        BY <1>1
    <2>1. CASE \/ Arrive(c) \/ ReadLimits(c) \/ Decide(c) \/ Count(c) \/ CountAgain(c)
               \/ Recheck(c)
        BY <2>1, BooksGate
    <2> QED
        BY <2>1, BooksLoad, BooksAdd, BooksPanic DEF Gate
<1>2. CASE \E c \in Conns : \/ StartRelease(c) \/ Subtract(c) \/ DeleteCounter(c)
                            \/ Release(c)
    BY <1>2, BooksStart, BooksSubtract, BooksDelete, BooksGate
<1>3. CASE \/ \E c \in Conns : Serve(c) \/ PeerClose(c) \/ Untrack(c)
           \/ Control \/ GlobalExpires \/ UNCHANGED vars
    BY <1>3, BooksOthers
<1> QED
    BY <1>1, <1>2, <1>3 DEF Next, Leave

\* Whatever connections of a device race through LoadOrStore, Add, Load, Add(-1)
\* and Delete, its counter does not stand above the number of connections that
\* are counted under it, for any connections, users and limits.
THEOREM UnlimitedCorrect == Spec => []UnlimitedNotOver
<1>1. Spec => []TypeOK
    BY TypeCorrect
<1>2. Spec => []OverInv
    BY <1>1, OverInit, OverStep, PTL DEF Spec
<1>3. ASSUME OverInv PROVE UnlimitedNotOver
    <2> SUFFICES ASSUME NEW e \in Emails, NEW d \in Devices, counter[e][d] # NoCounter
                 PROVE  value[counter[e][d]] <= Cardinality(Holders(e, d, "unlimited"))
        BY DEF UnlimitedNotOver
    <2>1. TypeOK /\ Books
        BY <1>3 DEF OverInv, LimitedInv
    <2>2. PICK y \in Conns : y = counter[e][d]
        BY <2>1 DEF TypeOK
    <2>3. value[y] <= Cardinality(Adders(y)) /\ value[y] \in Int
        BY <2>1, <2>2 DEF Books, Under, TypeOK
    <2>4. Adders(y) \subseteq Holders(e, d, "unlimited")
        BY <2>1, <2>2, LoadedOwn DEF Adders, Holders
    <2>5. Adders(y) \in SUBSET Conns /\ Holders(e, d, "unlimited") \in SUBSET Conns
        BY DEF Adders, Holders
    <2>6. PICK S, T : S = Adders(y) /\ T = Holders(e, d, "unlimited")
        OBVIOUS
    <2>7. Cardinality(S) <= Cardinality(T)
        BY <2>4, <2>5, <2>6, HeldFinite, FS_Subset
    <2>8. Cardinality(S) \in Nat /\ Cardinality(T) \in Nat
        BY <2>5, <2>6, HeldFinite
    <2>9. value[y] <= Cardinality(T)
        BY <2>3, <2>6, <2>7, <2>8
    <2> QED
        BY <2>2, <2>6, <2>9
<1> QED
    BY <1>2, <1>3, PTL
=============================================================================
