------------------------- MODULE ConnTrackerProofs -------------------------
(***************************************************************************)
(* Proofs about ConnTracker, for every number of connections, users,       *)
(* credentials, devices and concurrent handlers.                           *)
(***************************************************************************)
EXTENDS ConnTracker, FiniteSetTheorems, TLAPS

LEMMA EmptyWhitelist == [u \in {} |-> {}] \in Whitelists
  BY DEF Whitelists

\* Every reachable state has the type the Go declarations give it.
LEMMA TypeInit == Init => TypeOK
  <1> SUFFICES ASSUME Init PROVE TypeOK
    OBVIOUS
  <1> QED
    BY EmptyWhitelist, ConnTrackerAssumption DEF Init, TypeOK, Stages, Running

\* Changing one reference count keeps the type of refs.
LEMMA RefsUpdate ==
  ASSUME NEW r \in [Users -> [Devices -> Nat]], NEW u \in Users,
         NEW d \in Devices, NEW n \in Nat
  PROVE  [r EXCEPT ![u][d] = n] \in [Users -> [Devices -> Nat]]
  OBVIOUS

\* Closing a connection keeps the types of pc and refs.
LEMMA CloseType ==
  ASSUME TypeOK, NEW c \in Conns, CloseEffect(c)
  PROVE  pc' \in [Conns -> Stages] /\ refs' \in [Users -> [Devices -> Nat]]
  <1>1. pc' \in [Conns -> Stages]
    BY DEF TypeOK, CloseEffect, Stages
  <1>2. CASE refs' = refs
    BY <1>1, <1>2 DEF TypeOK
  <1>3. CASE refs' # refs
    <2>1. uid[c] \in Users /\ DevOf[c] \in Devices
      BY <1>3, ConnTrackerAssumption DEF TypeOK, CloseEffect, Released
    <2>2. PICK n \in Nat : refs' = [refs EXCEPT ![uid[c]][DevOf[c]] = n]
      BY <1>3, <2>1 DEF TypeOK, CloseEffect, Released
    <2> QED
      BY <1>1, <2>1, <2>2, RefsUpdate DEF TypeOK
  <1> QED
    BY <1>2, <1>3

LEMMA TypeStep == TypeOK /\ [Next]_vars => TypeOK'
  <1> SUFFICES ASSUME TypeOK, [Next]_vars PROVE TypeOK'
    OBVIOUS
  <1> USE DEF TypeOK, handler, whitelist, history
  <1>1. ASSUME NEW c \in Conns, Accept(c) PROVE TypeOK'
    BY <1>1 DEF Accept, Stages, Running
  <1>2. ASSUME NEW c \in Conns, Lookup(c) PROVE TypeOK'
    BY <1>2, ConnTrackerAssumption DEF Lookup, Stages, Running
  <1>3. ASSUME NEW c \in Conns, LoadLimit(c) PROVE TypeOK'
    BY <1>3, ConnTrackerAssumption DEF LoadLimit, Stages, Running
  <1>4. ASSUME NEW c \in Conns, CopyLocal(c) PROVE TypeOK'
    BY <1>4 DEF CopyLocal, LocalDevices, Stages, Running
  <1>5. ASSUME NEW c \in Conns, Gate(c) PROVE TypeOK'
    BY <1>5 DEF Gate, Stages, Running
  <1>6. ASSUME NEW c \in Conns, AddConn(c) PROVE TypeOK'
    <2>1. refs' \in [Users -> [Devices -> Nat]]
      <3>1. DevOf[c] \in Devices
        BY ConnTrackerAssumption
      <3>2. CASE uid[c] = NoUser
        BY <1>6, <3>2 DEF AddConn
      <3>3. CASE uid[c] \in Users
        <4>1. refs[uid[c]][DevOf[c]] + 1 \in Nat
          BY <3>1, <3>3
        <4>2. refs' = [refs EXCEPT ![uid[c]][DevOf[c]] = refs[uid[c]][DevOf[c]] + 1]
          BY <1>6, <3>1, <3>3, ConnTrackerAssumption DEF AddConn
        <4> QED
          BY <3>1, <3>3, <4>1, <4>2, RefsUpdate
      <3> QED
        BY <3>2, <3>3
    <2> QED
      BY <1>6, <2>1 DEF AddConn, Stages, Running
  <1>7. ASSUME NEW c \in Conns, Register(c) PROVE TypeOK'
    BY <1>7 DEF Register, Stages, Running
  <1>8. ASSUME NEW c \in Conns, RemoveConnRef(c) PROVE TypeOK'
    BY <1>8 DEF RemoveConnRef, Stages, Running
  <1>9. ASSUME NEW c \in Conns, PeerClose(c) PROVE TypeOK'
    BY <1>9, CloseType DEF PeerClose
  <1>10. ASSUME NEW c \in Conns, SweepClose(c) PROVE TypeOK'
    BY <1>10, CloseType DEF SweepClose
  <1>11. ASSUME NEW c \in Conns, CloseByID(c) PROVE TypeOK'
    BY <1>11 DEF CloseByID
  <1>12. CASE ScanGlobal
    BY <1>12 DEF ScanGlobal
  <1>13. CASE SweepDone
    BY <1>13 DEF SweepDone
  <1>14. ASSUME NEW w \in Pushes, InstallGlobal(w) PROVE TypeOK'
    BY <1>14, ConnTrackerAssumption DEF InstallGlobal
  <1>15. ASSUME NEW x \in Uuids, CloseByUUID(x) PROVE TypeOK'
    BY <1>15 DEF CloseByUUID
  <1>16. CASE ClearGlobal
    BY <1>16, EmptyWhitelist DEF ClearGlobal
  <1>17. ASSUME NEW m \in UserMaps, SetUserMap(m) PROVE TypeOK'
    BY <1>17, ConnTrackerAssumption DEF SetUserMap
  <1>18. CASE GlobalExpires
    BY <1>18 DEF GlobalExpires
  <1>19. ASSUME NEW l \in LimitMaps, UpdateLimits(l) PROVE TypeOK'
    BY <1>19, ConnTrackerAssumption DEF UpdateLimits
  <1>20. CASE UNCHANGED vars
    BY <1>20 DEF vars
  <1> QED
    BY <1>1, <1>2, <1>3, <1>4, <1>5, <1>6, <1>7, <1>8, <1>9, <1>10, <1>11, <1>12, <1>13, <1>14, <1>15, <1>16, <1>17, <1>18, <1>19, <1>20
    DEF Next, HandlerStep, SweepStep

THEOREM TypeCorrect == Spec => []TypeOK
  BY TypeInit, TypeStep, PTL DEF Spec
-----------------------------------------------------------------------------

\* Who is open decides what connMap holds.
LEMMA ConnMapStep == TypeOK /\ ConnMapExact /\ [Next]_vars => ConnMapExact'
  <1> SUFFICES ASSUME TypeOK, ConnMapExact, [Next]_vars PROVE ConnMapExact'
    OBVIOUS
  <1> USE DEF ConnMapExact, handler
  <1>t. pc \in [Conns -> Stages] /\ connMap \subseteq Conns
    BY DEF TypeOK
  <1>1. ASSUME NEW c \in Conns, Accept(c) PROVE ConnMapExact'
    BY <1>1, <1>t DEF Accept
  <1>2. ASSUME NEW c \in Conns, Lookup(c) PROVE ConnMapExact'
    BY <1>2, <1>t DEF Lookup
  <1>3. ASSUME NEW c \in Conns, LoadLimit(c) PROVE ConnMapExact'
    BY <1>3, <1>t DEF LoadLimit
  <1>4. ASSUME NEW c \in Conns, CopyLocal(c) PROVE ConnMapExact'
    BY <1>4, <1>t DEF CopyLocal
  <1>5. ASSUME NEW c \in Conns, Gate(c) PROVE ConnMapExact'
    BY <1>5, <1>t DEF Gate
  <1>6. ASSUME NEW c \in Conns, AddConn(c) PROVE ConnMapExact'
    BY <1>6, <1>t DEF AddConn
  <1>7. ASSUME NEW c \in Conns, Register(c) PROVE ConnMapExact'
    BY <1>7, <1>t DEF Register
  <1>8. ASSUME NEW c \in Conns, RemoveConnRef(c) PROVE ConnMapExact'
    BY <1>8, <1>t DEF RemoveConnRef
  <1>9. ASSUME NEW c \in Conns, PeerClose(c) PROVE ConnMapExact'
    BY <1>9, <1>t DEF PeerClose, CloseEffect
  <1>10. ASSUME NEW c \in Conns, SweepClose(c) PROVE ConnMapExact'
    BY <1>10, <1>t DEF SweepClose, CloseEffect
  <1>11. CASE pc' = pc /\ connMap' = connMap
    BY <1>11
  <1> QED
    BY <1>1, <1>2, <1>3, <1>4, <1>5, <1>6, <1>7, <1>8, <1>9, <1>10, <1>11
    DEF Next, HandlerStep, SweepStep, vars, CloseByID, ScanGlobal, SweepDone,
        InstallGlobal, CloseByUUID, ClearGlobal, SetUserMap, GlobalExpires,
        UpdateLimits

\* connMap holds exactly the connections that can still be force-closed.
THEOREM ConnMapCorrect == Spec => []ConnMapExact
  <1>1. Init => ConnMapExact
    BY DEF Init, ConnMapExact
  <1> QED
    BY <1>1, TypeCorrect, ConnMapStep, PTL DEF Spec

-----------------------------------------------------------------------------

(***************************************************************************)
(* The connections a sweep can miss.  SweepMissesOnlyInFlight speaks of    *)
(* open connections; to be inductive it must also follow the handlers that *)
(* are past their gate, and know that an idle control goroutine has        *)
(* nothing left to close.                                                  *)
(***************************************************************************)
SweepInv ==
    /\ SweepMissesOnlyInFlight
    /\ Idle => sweep.pending = {}
    /\ sweep.phase # "scan" =>
           \A c \in Conns : PastGate(c) => c \in gatedNow \cup escaped

LEMMA SweepInit == Init => SweepInv
  BY DEF Init, SweepInv, SweepMissesOnlyInFlight, PastGate, Idle, Outside

LEMMA SweepInductive == TypeOK /\ ConnMapExact /\ SweepInv /\ [Next]_vars => SweepInv'
  <1> SUFFICES ASSUME TypeOK, ConnMapExact, SweepInv, [Next]_vars PROVE SweepInv'
    OBVIOUS
  <1> USE DEF SweepInv, SweepMissesOnlyInFlight, PastGate, Idle, Outside,
              handler, whitelist, history
  <1>t. /\ pc \in [Conns -> Stages]
        /\ uid \in [Conns -> Users \cup {NoUser}]
        /\ sweep \in [phase : {"idle", "scan", "close"}, pending : SUBSET Conns]
    BY DEF TypeOK
  <1>1. ASSUME NEW c \in Conns, Accept(c) PROVE SweepInv'
    BY <1>1, <1>t DEF Accept
  <1>2. ASSUME NEW c \in Conns, Lookup(c) PROVE SweepInv'
    BY <1>2, <1>t DEF Lookup
  <1>3. ASSUME NEW c \in Conns, LoadLimit(c) PROVE SweepInv'
    BY <1>3, <1>t DEF LoadLimit
  <1>4. ASSUME NEW c \in Conns, CopyLocal(c) PROVE SweepInv'
    BY <1>4, <1>t DEF CopyLocal
  <1>5. ASSUME NEW c \in Conns, Gate(c) PROVE SweepInv'
    BY <1>5, <1>t DEF Gate
  <1>6. ASSUME NEW c \in Conns, AddConn(c) PROVE SweepInv'
    BY <1>6, <1>t DEF AddConn
  <1>7. ASSUME NEW c \in Conns, Register(c) PROVE SweepInv'
    BY <1>7, <1>t DEF Register
  <1>8. ASSUME NEW c \in Conns, RemoveConnRef(c) PROVE SweepInv'
    BY <1>8, <1>t DEF RemoveConnRef
  <1>9. ASSUME NEW c \in Conns, PeerClose(c) PROVE SweepInv'
    BY <1>9, <1>t DEF PeerClose, CloseEffect
  <1>10. ASSUME NEW c \in Conns, SweepClose(c) PROVE SweepInv'
    BY <1>10, <1>t DEF SweepClose, CloseEffect
  <1>11. ASSUME NEW c \in Conns, CloseByID(c) PROVE SweepInv'
    BY <1>11, <1>t DEF CloseByID
  <1>12. CASE ScanGlobal
    BY <1>12, <1>t DEF ScanGlobal, ConnMapExact
  <1>13. CASE SweepDone
    BY <1>13, <1>t DEF SweepDone
  <1>14. ASSUME NEW w \in Pushes, InstallGlobal(w) PROVE SweepInv'
    BY <1>14, <1>t DEF InstallGlobal
  <1>15. ASSUME NEW x \in Uuids, CloseByUUID(x) PROVE SweepInv'
    BY <1>15, <1>t DEF CloseByUUID
  <1>16. CASE ClearGlobal
    BY <1>16, <1>t DEF ClearGlobal
  <1>17. ASSUME NEW m \in UserMaps, SetUserMap(m) PROVE SweepInv'
    BY <1>17, <1>t DEF SetUserMap
  <1>18. CASE GlobalExpires
    BY <1>18, <1>t DEF GlobalExpires
  <1>19. ASSUME NEW l \in LimitMaps, UpdateLimits(l) PROVE SweepInv'
    BY <1>19, <1>t DEF UpdateLimits
  <1>20. CASE UNCHANGED vars
    BY <1>20, <1>t DEF vars
  <1> QED
    BY <1>1, <1>2, <1>3, <1>4, <1>5, <1>6, <1>7, <1>8, <1>9, <1>10, <1>11,
       <1>12, <1>13, <1>14, <1>15, <1>16, <1>17, <1>18, <1>19, <1>20
    DEF Next, HandlerStep, SweepStep

\* A push closes every connection the new whitelist leaves out, except those
\* whose handler was between its gate and its registration during the scan.
THEOREM SweepCorrect == Spec => []SweepMissesOnlyInFlight
  <1>1. Spec => []SweepInv
    BY SweepInit, SweepInductive, TypeCorrect, ConnMapCorrect, PTL DEF Spec
  <1>2. SweepInv => SweepMissesOnlyInFlight
    BY DEF SweepInv
  <1> QED
    BY <1>1, <1>2, PTL
-----------------------------------------------------------------------------

\* A finite subset of Conns has a cardinality.
LEMMA HoldersFinite ==
  ASSUME NEW u, NEW d
  PROVE  IsFiniteSet(Holders(u, d)) /\ Cardinality(Holders(u, d)) \in Nat
  BY ConnTrackerAssumption, FS_Subset, FS_CardinalityType DEF Holders

\* A step that moves no connection in or out of a device keeps its count.
LEMMA RefsUnchanged ==
  ASSUME RefsExact, refs' = refs,
         \A u \in Users, d \in Devices : Holders(u, d)' = Holders(u, d)
  PROVE  RefsExact'
  BY DEF RefsExact

LEMMA RefsAdd ==
  ASSUME TypeOK, RefsExact, NEW c \in Conns, AddConn(c)
  PROVE  RefsExact'
  <1>t. /\ pc \in [Conns -> Stages] /\ refs \in [Users -> [Devices -> Nat]]
        /\ uid[c] \in Users \cup {NoUser} /\ DevOf[c] \in Devices
        /\ NoUser \notin Users
    BY ConnTrackerAssumption DEF TypeOK
  <1>1. /\ pc[c] = "add" /\ uid' = uid
        /\ pc' = [pc EXCEPT ![c] = "register"]
    BY DEF AddConn
  <1>2. CASE uid[c] = NoUser
    <2>1. \A u \in Users, d \in Devices : Holders(u, d)' = Holders(u, d)
      BY <1>t, <1>1, <1>2 DEF Holders, Counted
    <2>2. refs' = refs
      BY <1>2 DEF AddConn
    <2> QED
      BY <2>1, <2>2, RefsUnchanged
  <1>3. CASE uid[c] \in Users
    <2>1. refs' = [refs EXCEPT ![uid[c]][DevOf[c]] = refs[uid[c]][DevOf[c]] + 1]
      BY <1>3, <1>t DEF AddConn
    <2> SUFFICES ASSUME NEW u \in Users, NEW d \in Devices
                 PROVE  refs'[u][d] = Cardinality(Holders(u, d)')
      BY DEF RefsExact
    <2>2. CASE u = uid[c] /\ d = DevOf[c]
      <3>1. Holders(u, d)' = Holders(u, d) \cup {c} /\ c \notin Holders(u, d)
        BY <2>2, <1>t, <1>1 DEF Holders, Counted
      <3>2. Cardinality(Holders(u, d)') = Cardinality(Holders(u, d)) + 1
        BY <3>1, HoldersFinite, FS_AddElement
      <3>3. refs'[u][d] = refs[u][d] + 1
        BY <2>1, <2>2, <1>t
      <3> QED
        BY <3>2, <3>3 DEF RefsExact
    <2>3. CASE ~(u = uid[c] /\ d = DevOf[c])
      <3>1. Holders(u, d)' = Holders(u, d)
        BY <2>3, <1>t, <1>1 DEF Holders, Counted
      <3>2. refs'[u][d] = refs[u][d]
        BY <2>1, <2>3, <1>t
      <3> QED
        BY <3>1, <3>2 DEF RefsExact
    <2> QED
      BY <2>2, <2>3
  <1> QED
    BY <1>t, <1>2, <1>3

LEMMA RefsClose ==
  ASSUME TypeOK, RefsExact, NEW c \in Conns, CloseEffect(c), uid' = uid
  PROVE  RefsExact'
  <1>t. /\ pc \in [Conns -> Stages] /\ refs \in [Users -> [Devices -> Nat]]
        /\ uid[c] \in Users \cup {NoUser} /\ DevOf[c] \in Devices
        /\ NoUser \notin Users
    BY ConnTrackerAssumption DEF TypeOK
  <1>1. CASE pc[c] # "open"
    <2>1. pc' = pc /\ refs' = refs
      BY <1>1 DEF CloseEffect
    <2> QED
      BY <2>1, RefsUnchanged DEF Holders
  <1>2. CASE pc[c] = "open" /\ uid[c] = NoUser
    <2>1. pc' = [pc EXCEPT ![c] = "unref"] /\ refs' = refs
      BY <1>2 DEF CloseEffect, Released
    <2>2. \A u \in Users, d \in Devices : Holders(u, d)' = Holders(u, d)
      BY <1>t, <1>2, <2>1 DEF Holders, Counted
    <2> QED
      BY <2>1, <2>2, RefsUnchanged
  <1>3. CASE pc[c] = "open" /\ uid[c] \in Users
    <2>1. /\ pc' = [pc EXCEPT ![c] = "unref"]
          /\ refs' = [refs EXCEPT ![uid[c]][DevOf[c]] = IF @ > 0 THEN @ - 1 ELSE 0]
      BY <1>3, <1>t DEF CloseEffect, Released
    <2> SUFFICES ASSUME NEW u \in Users, NEW d \in Devices
                 PROVE  refs'[u][d] = Cardinality(Holders(u, d)')
      BY DEF RefsExact
    <2>2. CASE u = uid[c] /\ d = DevOf[c]
      <3>1. Holders(u, d)' = Holders(u, d) \ {c} /\ c \in Holders(u, d)
        BY <2>1, <2>2, <1>t, <1>3 DEF Holders, Counted
      <3>2. /\ Cardinality(Holders(u, d)') = Cardinality(Holders(u, d)) - 1
            /\ Cardinality(Holders(u, d)') \in Nat
        BY <3>1, HoldersFinite, FS_RemoveElement, FS_CardinalityType
      <3>3. refs[u][d] = Cardinality(Holders(u, d)) /\ refs[u][d] \in Nat
        BY <1>t DEF RefsExact
      <3>4. refs'[u][d] = IF refs[u][d] > 0 THEN refs[u][d] - 1 ELSE 0
        BY <2>1, <2>2, <1>t
      <3> QED
        BY <3>2, <3>3, <3>4
    <2>3. CASE ~(u = uid[c] /\ d = DevOf[c])
      <3>1. Holders(u, d)' = Holders(u, d)
        BY <2>1, <2>3, <1>t DEF Holders, Counted
      <3>2. refs'[u][d] = refs[u][d]
        BY <2>1, <2>3, <1>t
      <3> QED
        BY <3>1, <3>2 DEF RefsExact
    <2> QED
      BY <2>2, <2>3
  <1> QED
    BY <1>t, <1>1, <1>2, <1>3

LEMMA RefsStep == TypeOK /\ RefsExact /\ [Next]_vars => RefsExact'
  <1> SUFFICES ASSUME TypeOK, RefsExact, [Next]_vars PROVE RefsExact'
    OBVIOUS
  <1>t. pc \in [Conns -> Stages] /\ uid \in [Conns -> Users \cup {NoUser}]
    BY DEF TypeOK
  <1> USE DEF handler
  <1>1. ASSUME NEW c \in Conns, AddConn(c) PROVE RefsExact'
    BY <1>1, RefsAdd
  <1>2. ASSUME NEW c \in Conns, PeerClose(c) \/ SweepClose(c) PROVE RefsExact'
    BY <1>2, RefsClose DEF PeerClose, SweepClose
  <1>3. ASSUME NEW c \in Conns,
               Accept(c) \/ Lookup(c) \/ LoadLimit(c) \/ CopyLocal(c) \/ Gate(c)
        PROVE  RefsExact'
    <2>1. \A u \in Users, d \in Devices : Holders(u, d)' = Holders(u, d)
      BY <1>3, <1>t
      DEF Accept, Lookup, LoadLimit, CopyLocal, Gate, Holders, Counted
    <2>2. refs' = refs
      BY <1>3 DEF Accept, Lookup, LoadLimit, CopyLocal, Gate
    <2> QED
      BY <2>1, <2>2, RefsUnchanged
  <1>4. ASSUME NEW c \in Conns, Register(c) \/ RemoveConnRef(c) PROVE RefsExact'
    <2>1. \A u \in Users, d \in Devices : Holders(u, d)' = Holders(u, d)
      BY <1>4, <1>t DEF Register, RemoveConnRef, Holders, Counted
    <2>2. refs' = refs
      BY <1>4 DEF Register, RemoveConnRef
    <2> QED
      BY <2>1, <2>2, RefsUnchanged
  <1>5. CASE pc' = pc /\ uid' = uid /\ refs' = refs
    BY <1>5, RefsUnchanged DEF Holders
  <1> QED
    BY <1>1, <1>2, <1>3, <1>4, <1>5
    DEF Next, HandlerStep, SweepStep, vars, CloseByID, ScanGlobal, SweepDone,
        InstallGlobal, CloseByUUID, ClearGlobal, SetUserMap, GlobalExpires,
        UpdateLimits

\* The reference count of a device is the number of its open connections.
THEOREM RefsCorrect == Spec => []RefsExact
  <1>1. Init => RefsExact
    <2> SUFFICES ASSUME Init, NEW u \in Users, NEW d \in Devices
                 PROVE  refs[u][d] = Cardinality(Holders(u, d))
      BY DEF RefsExact
    <2>1. Holders(u, d) = {}
      BY DEF Init, Holders, Counted
    <2> QED
      BY <2>1, FS_EmptySet DEF Init
  <1> QED
    BY <1>1, TypeCorrect, RefsStep, PTL DEF Spec
-----------------------------------------------------------------------------

(***************************************************************************)
(* How far a user without a whitelist can exceed a limit L.  A device      *)
(* claims a slot when it is counted, or when its handler holds a copy of   *)
(* the devices on which the gate will let it through.  A copy with room    *)
(* was taken while at most L - 1 devices were counted, and the only other  *)
(* claims are those of the handlers that run: the claims never outnumber   *)
(* L - 1 + MaxHandlers.                                                    *)
(***************************************************************************)
Claims(c) ==
    \/ pc[c] = "add"
    \/ pc[c] = "gate" /\ LocalOnlyAdmits(c)

Claimants(u) == {c \in Conns : uid[c] = u /\ Claims(c)}
DevicesOf(S) == {DevOf[c] : c \in S}
Claimed(u)   == LocalDevices(u) \cup DevicesOf(Claimants(u))
RunningConns == {c \in Conns : pc[c] \in Running}

GatedKnown(L) ==
    \A c \in Conns : pc[c] \in {"snapshot", "gate"} => uid[c] \in Users /\ limit[c] = L

OverrunInv(L) ==
    /\ deviceLimit = [x \in Uuids |-> L]
    /\ globalDevices = [u \in {} |-> {}]
    /\ GatedKnown(L)
    /\ Cardinality(RunningConns) <= MaxHandlers
    /\ \A u \in Users : Cardinality(Claimed(u)) <= L - 1 + MaxHandlers

\* A set of connections uses at most as many devices as it has members.
LEMMA DevicesOfBound ==
  ASSUME NEW S \in SUBSET Conns
  PROVE  /\ IsFiniteSet(S)
         /\ IsFiniteSet(DevicesOf(S))
         /\ Cardinality(DevicesOf(S)) \in Nat
         /\ Cardinality(DevicesOf(S)) <= Cardinality(S)
         /\ Cardinality(S) \in Nat
  <1>1. IsFiniteSet(S)
    BY FS_Subset, ConnTrackerAssumption
  <1> DEFINE f == [c \in S |-> DevOf[c]]
  <1>2. f \in Surjection(S, DevicesOf(S))
    BY DEF Surjection, DevicesOf
  <1> HIDE DEF f
  <1> QED
    BY <1>1, <1>2, FS_Surjection, FS_CardinalityType

\* A counted device belongs to some connection.
LEMMA LocalDevicesUsed ==
  ASSUME TypeOK, RefsExact, NEW u \in Users
  PROVE  LocalDevices(u) \subseteq DevicesOf(Conns)
  <1> SUFFICES ASSUME NEW d \in Devices, refs[u][d] > 0
               PROVE  d \in DevicesOf(Conns)
    BY DEF LocalDevices
  <1>1. Cardinality(Holders(u, d)) # 0
    BY DEF RefsExact
  <1>2. Holders(u, d) # {}
    BY <1>1, FS_EmptySet
  <1> QED
    BY <1>2 DEF Holders, DevicesOf

LEMMA ClaimedFinite ==
  ASSUME TypeOK, RefsExact, NEW u \in Users
  PROVE  /\ IsFiniteSet(Claimed(u)) /\ Cardinality(Claimed(u)) \in Nat
         /\ IsFiniteSet(LocalDevices(u)) /\ Cardinality(LocalDevices(u)) \in Nat
         /\ Cardinality(LocalDevices(u)) <= Cardinality(Claimed(u))
  <1>1. Claimed(u) \subseteq DevicesOf(Conns)
    BY LocalDevicesUsed DEF Claimed, DevicesOf, Claimants
  <1>2. IsFiniteSet(DevicesOf(Conns))
    BY DevicesOfBound
  <1>3. IsFiniteSet(Claimed(u))
    BY <1>1, <1>2, FS_Subset
  <1>4. LocalDevices(u) \subseteq Claimed(u)
    BY DEF Claimed
  <1> QED
    BY <1>3, <1>4, FS_Subset, FS_CardinalityType

\* The handlers that run stay within MaxHandlers.
LEMMA RunningStep ==
  ASSUME TypeOK, Cardinality(RunningConns) <= MaxHandlers, [Next]_vars
  PROVE  Cardinality(RunningConns') <= MaxHandlers
  <1>t. pc \in [Conns -> Stages]
    BY DEF TypeOK
  <1>f. IsFiniteSet(RunningConns) /\ Cardinality(RunningConns) \in Nat
    BY DevicesOfBound DEF RunningConns
  <1>1. ASSUME NEW c \in Conns, Accept(c)
        PROVE  Cardinality(RunningConns') <= MaxHandlers
    <2>1. RunningConns' = RunningConns \cup {c}
      BY <1>1, <1>t DEF Accept, RunningConns, Running
    <2>2. Cardinality(RunningConns) < MaxHandlers
      BY <1>1 DEF Accept, RunningConns
    <2>3. Cardinality(RunningConns') <= Cardinality(RunningConns) + 1
      BY <2>1, <1>f, FS_AddElement
    <2>4. Cardinality(RunningConns') \in Nat /\ MaxHandlers \in Nat
      BY <2>1, <1>f, FS_AddElement, FS_CardinalityType, ConnTrackerAssumption
    <2> QED
      BY <2>2, <2>3, <2>4, <1>f
  <1>2. CASE RunningConns' \subseteq RunningConns
    BY <1>2, <1>f, FS_Subset, FS_CardinalityType, ConnTrackerAssumption
  <1>3. ASSUME NEW c \in Conns, HandlerStep(c) \/ PeerClose(c) \/ SweepClose(c)
        PROVE  RunningConns' \subseteq RunningConns
    BY <1>3, <1>t
    DEF HandlerStep, Lookup, LoadLimit, CopyLocal, Gate, AddConn, Register,
        RemoveConnRef, PeerClose, SweepClose, CloseEffect, RunningConns, Running
  <1>4. CASE pc' = pc
    BY <1>4, <1>2 DEF RunningConns
  <1> QED
    BY <1>1, <1>2, <1>3, <1>4
    DEF Next, SweepStep, vars, handler, CloseByID, ScanGlobal, SweepDone,
        InstallGlobal, CloseByUUID, ClearGlobal, SetUserMap, GlobalExpires,
        UpdateLimits

\* Only a copy of the devices makes a new claim.
LEMMA ClaimedShrinks ==
  ASSUME TypeOK, NEW L \in Nat \ {0}, OverrunInv(L), NEW u \in Users,
         [Next]_vars, \A c \in Conns : ~CopyLocal(c)
  PROVE  Claimed(u)' \subseteq Claimed(u)
  <1>t. /\ pc \in [Conns -> Stages]
        /\ uid \in [Conns -> Users \cup {NoUser}]
        /\ limit \in [Conns -> Nat]
        /\ local \in [Conns -> SUBSET Devices]
        /\ refs \in [Users -> [Devices -> Nat]]
        /\ \A c \in Conns : DevOf[c] \in Devices /\ UuidOf[c] \in Uuids
        /\ NoUser \notin Users
    BY ConnTrackerAssumption DEF TypeOK
  <1> USE DEF Claimed, Claimants, Claims, LocalOnlyAdmits, DevicesOf
  <1>1. CASE refs' = refs /\ Claimants(u)' \subseteq Claimants(u)
    BY <1>1 DEF LocalDevices
  <1>2. ASSUME NEW c \in Conns,
               Accept(c) \/ Lookup(c) \/ Register(c) \/ RemoveConnRef(c)
        PROVE  refs' = refs /\ Claimants(u)' \subseteq Claimants(u)
    BY <1>2, <1>t DEF Accept, Lookup, Register, RemoveConnRef
  <1>3. ASSUME NEW c \in Conns, LoadLimit(c)
        PROVE  refs' = refs /\ Claimants(u)' \subseteq Claimants(u)
    <2>1. deviceLimit[UuidOf[c]] = L
      BY <1>t DEF OverrunInv
    <2> QED
      BY <1>3, <1>t, <2>1 DEF LoadLimit
  <1>4. ASSUME NEW c \in Conns, Gate(c)
        PROVE  refs' = refs /\ Claimants(u)' \subseteq Claimants(u)
    <2>1. Admits(c) = LocalOnlyAdmits(c)
      BY DEF Admits, OverrunInv
    <2> QED
      BY <1>4, <1>t, <2>1 DEF Gate
  <1>5. ASSUME NEW c \in Conns, AddConn(c) PROVE Claimed(u)' \subseteq Claimed(u)
    <2>1. Claimants(u)' \subseteq Claimants(u)
      BY <1>5, <1>t DEF AddConn
    <2>2. CASE uid[c] # u
      <3>1. LocalDevices(u)' = LocalDevices(u)
        BY <1>5, <1>t, <2>2 DEF AddConn, LocalDevices
      <3> QED
        BY <2>1, <3>1
    <2>3. CASE uid[c] = u
      <3>1. LocalDevices(u)' \subseteq LocalDevices(u) \cup {DevOf[c]}
        BY <1>5, <1>t, <2>3 DEF AddConn, LocalDevices
      <3>2. c \in Claimants(u)
        BY <1>5, <2>3 DEF AddConn
      <3> QED
        BY <2>1, <3>1, <3>2
    <2> QED
      BY <2>2, <2>3
  <1>6. ASSUME NEW c \in Conns, PeerClose(c) \/ SweepClose(c)
        PROVE  Claimed(u)' \subseteq Claimed(u)
    <2>1. Claimants(u)' \subseteq Claimants(u)
      BY <1>6, <1>t DEF PeerClose, SweepClose, CloseEffect
    <2>2. CASE refs' = refs
      BY <2>1, <2>2 DEF LocalDevices
    <2>3. CASE refs' # refs
      <3>1. /\ uid[c] \in Users
            /\ refs' = [refs EXCEPT ![uid[c]][DevOf[c]] = IF @ > 0 THEN @ - 1 ELSE 0]
        BY <1>6, <1>t, <2>3 DEF PeerClose, SweepClose, CloseEffect, Released
      <3>2. LocalDevices(u)' \subseteq LocalDevices(u)
        BY <3>1, <1>t DEF LocalDevices
      <3> QED
        BY <2>1, <3>2
    <2> QED
      BY <2>2, <2>3
  <1>7. CASE UNCHANGED <<handler, refs>>
    BY <1>7 DEF handler, LocalDevices
  <1> QED
    BY <1>1, <1>2, <1>3, <1>4, <1>5, <1>6, <1>7
    DEF Next, HandlerStep, SweepStep, vars, handler, CloseByID, ScanGlobal,
        SweepDone, InstallGlobal, CloseByUUID, ClearGlobal, SetUserMap,
        GlobalExpires, UpdateLimits

\* The copy that makes a claim leaves room for every handler that runs.
LEMMA ClaimedByCopy ==
  ASSUME TypeOK, RefsExact, NEW L \in Nat \ {0}, OverrunInv(L),
         NEW u \in Users, NEW c \in Conns, CopyLocal(c)
  PROVE  Cardinality(Claimed(u)') <= L - 1 + MaxHandlers
  <1>t. /\ pc \in [Conns -> Stages] /\ local \in [Conns -> SUBSET Devices]
        /\ MaxHandlers \in Nat
    BY ConnTrackerAssumption DEF TypeOK
  <1>1. /\ pc[c] = "snapshot" /\ pc' = [pc EXCEPT ![c] = "gate"]
        /\ local' = [local EXCEPT ![c] = LocalDevices(uid[c])]
        /\ uid' = uid /\ limit' = limit /\ refs' = refs
        /\ LocalDevices(u)' = LocalDevices(u)
    BY DEF CopyLocal, LocalDevices
  <1>2. /\ IsFiniteSet(Claimed(u)) /\ Cardinality(Claimed(u)) \in Nat
        /\ Cardinality(Claimed(u)) <= L - 1 + MaxHandlers
        /\ IsFiniteSet(LocalDevices(u)) /\ Cardinality(LocalDevices(u)) \in Nat
    BY ClaimedFinite DEF OverrunInv
  <1>3. CASE Claimed(u)' \subseteq Claimed(u)
    <2>1. Cardinality(Claimed(u)') <= Cardinality(Claimed(u))
      BY <1>2, <1>3, FS_Subset
    <2>2. Cardinality(Claimed(u)') \in Nat
      BY <1>2, <1>3, FS_Subset, FS_CardinalityType
    <2> QED
      BY <1>2, <2>1, <2>2, <1>t
  <1>4. CASE uid[c] # u \/ DevOf[c] \in LocalDevices(u)
    <2>1. Claimed(u)' \subseteq Claimed(u)
      BY <1>1, <1>4, <1>t
      DEF Claimed, Claimants, Claims, LocalOnlyAdmits, DevicesOf
    <2> QED
      BY <1>3, <2>1
  <1>5. CASE uid[c] = u /\ DevOf[c] \notin LocalDevices(u)
             /\ ~(Cardinality(LocalDevices(u)) < L)
    <2>1. limit[c] = L /\ local'[c] = LocalDevices(u)
      BY <1>1, <1>5, <1>t DEF OverrunInv, GatedKnown
    <2>2. ~Claims(c)'
      BY <1>1, <1>5, <1>t, <2>1 DEF Claims, LocalOnlyAdmits
    <2>3. Claimants(u)' \subseteq Claimants(u)
      BY <1>1, <2>2, <1>t DEF Claimants, Claims, LocalOnlyAdmits
    <2>4. Claimed(u)' \subseteq Claimed(u)
      BY <1>1, <2>3 DEF Claimed, DevicesOf
    <2> QED
      BY <1>3, <2>4
  <1>6. CASE Cardinality(LocalDevices(u)) < L
    <2>1. Claimed(u)' \subseteq LocalDevices(u) \cup DevicesOf(RunningConns)
      BY <1>1, <1>t
      DEF Claimed, Claimants, Claims, DevicesOf, RunningConns, Running
    <2>2. /\ IsFiniteSet(DevicesOf(RunningConns))
          /\ Cardinality(DevicesOf(RunningConns)) \in Nat
          /\ Cardinality(DevicesOf(RunningConns)) <= MaxHandlers
      BY DevicesOfBound, <1>t DEF RunningConns, OverrunInv
    <2> DEFINE D == LocalDevices(u)
               R == DevicesOf(RunningConns)
    <2> HIDE DEF D, R
    <2>3. /\ IsFiniteSet(D \cup R)
          /\ Cardinality(D \cup R) = Cardinality(D) + Cardinality(R) - Cardinality(D \cap R)
          /\ Cardinality(D \cap R) \in Nat
      BY <1>2, <2>2, FS_Union, FS_Intersection, FS_CardinalityType DEF D, R
    <2>4. Cardinality(D) \in Nat /\ Cardinality(D) < L
          /\ Cardinality(R) \in Nat /\ Cardinality(R) <= MaxHandlers
      BY <1>2, <1>6, <2>2 DEF D, R
    <2>5. Cardinality(D \cup R) <= L - 1 + MaxHandlers /\ Cardinality(D \cup R) \in Int
      BY <2>3, <2>4, <1>t
    <2>6. Claimed(u)' \subseteq D \cup R
      BY <2>1 DEF D, R
    <2>7. Cardinality(Claimed(u)') <= Cardinality(D \cup R)
          /\ Cardinality(Claimed(u)') \in Nat
      BY <2>3, <2>6, FS_Subset, FS_CardinalityType
    <2> QED
      BY <2>5, <2>7, <1>t
  <1> QED
    BY <1>4, <1>5, <1>6

LEMMA OverrunStep ==
  ASSUME NEW L \in Nat \ {0}, LimitMaps = {[x \in Uuids |-> L]}, Pushes = {},
         TypeOK, RefsExact, OverrunInv(L), [Next]_vars
  PROVE  OverrunInv(L)'
  <1>1. deviceLimit' = [x \in Uuids |-> L]
    BY DEF OverrunInv, Next, HandlerStep, SweepStep, vars, Accept, Lookup,
       LoadLimit, CopyLocal, Gate, AddConn, Register, RemoveConnRef, PeerClose,
       SweepClose, CloseByID, ScanGlobal, SweepDone, InstallGlobal,
       CloseByUUID, ClearGlobal, SetUserMap, GlobalExpires, UpdateLimits
  <1>2. globalDevices' = [u \in {} |-> {}]
    BY DEF OverrunInv, Next, HandlerStep, SweepStep, vars, whitelist, Accept,
       Lookup, LoadLimit, CopyLocal, Gate, AddConn, Register, RemoveConnRef,
       PeerClose, SweepClose, CloseByID, ScanGlobal, SweepDone, InstallGlobal,
       CloseByUUID, ClearGlobal, SetUserMap, GlobalExpires, UpdateLimits
  <1>3. GatedKnown(L)'
    <2>t. /\ pc \in [Conns -> Stages] /\ limit \in [Conns -> Nat]
          /\ uid \in [Conns -> Users \cup {NoUser}]
      BY DEF TypeOK
    <2>0. GatedKnown(L)
      BY DEF OverrunInv
    <2>1. ASSUME NEW c \in Conns,
                 Accept(c) \/ Lookup(c) \/ CopyLocal(c) \/ Gate(c) \/ AddConn(c)
                 \/ Register(c) \/ RemoveConnRef(c) \/ PeerClose(c)
                 \/ SweepClose(c)
          PROVE  GatedKnown(L)'
      BY <2>1, <2>t, <2>0
      DEF GatedKnown, Accept, Lookup, CopyLocal, Gate, AddConn, Register, RemoveConnRef,
          PeerClose, SweepClose, CloseEffect
    <2>2. ASSUME NEW c \in Conns, LoadLimit(c) PROVE GatedKnown(L)'
      <3>1. deviceLimit[UuidOf[c]] = L
        BY ConnTrackerAssumption DEF OverrunInv
      <3> QED
        BY <2>2, <2>t, <2>0, <3>1 DEF LoadLimit, GatedKnown
    <2>3. CASE UNCHANGED handler
      BY <2>3, <2>0 DEF handler, GatedKnown
    <2> QED
      BY <2>1, <2>2, <2>3
      DEF Next, HandlerStep, SweepStep, vars, handler, CloseByID, ScanGlobal,
          SweepDone, InstallGlobal, CloseByUUID, ClearGlobal, SetUserMap,
          GlobalExpires, UpdateLimits
  <1>4. Cardinality(RunningConns') <= MaxHandlers
    BY RunningStep DEF OverrunInv
  <1>5. ASSUME NEW u \in Users PROVE Cardinality(Claimed(u)') <= L - 1 + MaxHandlers
    <2>1. CASE \E c \in Conns : CopyLocal(c)
      BY <2>1, ClaimedByCopy
    <2>2. CASE \A c \in Conns : ~CopyLocal(c)
      <3>1. Claimed(u)' \subseteq Claimed(u)
        BY <2>2, ClaimedShrinks
      <3>2. /\ IsFiniteSet(Claimed(u)) /\ Cardinality(Claimed(u)) \in Nat
            /\ Cardinality(Claimed(u)) <= L - 1 + MaxHandlers
        BY ClaimedFinite DEF OverrunInv
      <3>3. /\ Cardinality(Claimed(u)') <= Cardinality(Claimed(u))
            /\ Cardinality(Claimed(u)') \in Nat
        BY <3>1, <3>2, FS_Subset, FS_CardinalityType
      <3> QED
        BY <3>2, <3>3, ConnTrackerAssumption
    <2> QED
      BY <2>1, <2>2
  <1> QED
    BY <1>1, <1>2, <1>3, <1>4, <1>5 DEF OverrunInv

LEMMA OverrunInit ==
  ASSUME NEW L \in Nat \ {0}, LimitMaps = {[x \in Uuids |-> L]}, Init
  PROVE  OverrunInv(L)
  <1>1. RunningConns = {} /\ \A u \in Users : Claimed(u) = {}
    BY DEF Init, RunningConns, Running, Claimed, LocalDevices, DevicesOf,
           Claimants, Claims
  <1>2. /\ Cardinality(RunningConns) = 0
        /\ \A u \in Users : Cardinality(Claimed(u)) = 0
    BY <1>1, FS_EmptySet
  <1>3. MaxHandlers \in Nat
    BY ConnTrackerAssumption
  <1> QED
    BY <1>2, <1>3 DEF Init, OverrunInv, GatedKnown

\* Whatever the number of connections and devices, a user who has the limit L
\* and no whitelist is never counted on more than L - 1 + MaxHandlers devices.
THEOREM OverrunCorrect ==
  ASSUME NEW L \in Nat \ {0}, LimitMaps = {[x \in Uuids |-> L]}, Pushes = {}
  PROVE  Spec => []LocalOverrunBound
  <1>1. Init => OverrunInv(L)
    BY OverrunInit
  <1>2. TypeOK /\ RefsExact /\ OverrunInv(L) /\ [Next]_vars => OverrunInv(L)'
    BY OverrunStep
  <1>3. TypeOK /\ RefsExact /\ OverrunInv(L) => LocalOverrunBound
    <2> SUFFICES ASSUME TypeOK, RefsExact, OverrunInv(L), NEW x \in Uuids,
                        uuidMap[x] # NoUser
                 PROVE  Cardinality(LocalDevices(uuidMap[x]))
                           <= deviceLimit[x] - 1 + MaxHandlers
      BY DEF LocalOverrunBound
    <2>1. uuidMap[x] \in Users /\ deviceLimit[x] = L
      BY DEF TypeOK, OverrunInv
    <2>2. /\ Cardinality(LocalDevices(uuidMap[x])) \in Nat
          /\ Cardinality(Claimed(uuidMap[x])) \in Nat
          /\ Cardinality(LocalDevices(uuidMap[x])) <= Cardinality(Claimed(uuidMap[x]))
          /\ Cardinality(Claimed(uuidMap[x])) <= L - 1 + MaxHandlers
      BY <2>1, ClaimedFinite DEF OverrunInv
    <2> QED
      BY <2>1, <2>2, ConnTrackerAssumption
  <1> QED
    BY <1>1, <1>2, <1>3, TypeCorrect, RefsCorrect, PTL DEF Spec
=============================================================================
