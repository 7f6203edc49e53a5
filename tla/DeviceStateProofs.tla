------------------------- MODULE DeviceStateProofs -------------------------
(***************************************************************************)
(* Theorems about DeviceState for any users, nodes, devices, workers and   *)
(* limits: the types are right; as long as a lock outlives the call that   *)
(* took it, no moment shows more allowed devices than the limit; and if    *)
(* moreover a node has one report under way at a time, the store acts as   *)
(* DeviceSlots.                                                            *)
(***************************************************************************)
EXTENDS DeviceState, FiniteSetTheorems, TLAPS

\* The devices of a set of fields are devices.
LEMMA IpsOfType ==
    ASSUME NEW fields \in SUBSET (Nodes \X Ips)
    PROVE  IpsOf(fields) \in SUBSET Ips
BY DEF IpsOf

\* ... of which there are finitely many.
LEMMA IpsFinite ==
    ASSUME NEW S \in SUBSET Ips
    PROVE  IsFiniteSet(S) /\ Cardinality(S) \in Nat
BY FS_Subset, FS_CardinalityType, DeviceStateAssumption

\* The first k of a set are in it, and are not more than k.
LEMMA FirstOfFits ==
    ASSUME NEW k \in Int, NEW S, NEW T \in FirstOf(k, S)
    PROVE  T \subseteq S /\ Cardinality(T) <= k
<1>1. CASE Cardinality(S) <= k
    BY <1>1 DEF FirstOf
<1>2. CASE ~(Cardinality(S) <= k)
    <2>1. T \subseteq S /\ Cardinality(T) = k
        BY <1>2 DEF FirstOf
    <2> QED
        BY <2>1
<1> QED
    BY <1>1, <1>2

\* What LimitDevices returns, for a preference that is within the limit: devices
\* of the report, all that are preferred among them, and together with all that
\* are preferred no more than the limit.
LEMMA LimitDevicesFits ==
    ASSUME NEW limit \in Nat, limit > 0, NEW devices \in SUBSET Ips,
           NEW prefer \in SUBSET Ips, NEW alive,
           NEW K \in LimitDevices(limit, devices, prefer, alive),
           Cardinality(prefer) <= limit
    PROVE  /\ K \subseteq devices
           /\ prefer \cap devices \subseteq K
           /\ Cardinality(prefer \cup K) <= limit
<1>1. FirstOf(limit, prefer) = {prefer}
    BY DEF FirstOf
<1>2. PICK extra \in FirstOf(limit - Cardinality(prefer), (devices \cap alive) \ prefer) :
          K = devices \cap (prefer \cup extra)
    <2> DEFINE Choices(winners) ==
                   {devices \cap (winners \cup extra) :
                       extra \in FirstOf(limit - Cardinality(winners),
                                         (devices \cap alive) \ winners)}
    <2>0. limit # 0
        OBVIOUS
    <2>1. K \in UNION {Choices(winners) : winners \in FirstOf(limit, prefer)}
        BY <2>0 DEF LimitDevices
    <2> HIDE DEF Choices
    <2>2. PICK winners \in FirstOf(limit, prefer) : K \in Choices(winners)
        BY <2>1
    <2>3. winners = prefer
        BY <2>2, <1>1
    <2> QED
        BY <2>2, <2>3 DEF Choices
<1>3. /\ extra \subseteq devices
      /\ Cardinality(extra) <= limit - Cardinality(prefer)
    <2>1. limit - Cardinality(prefer) \in Int
        BY IpsFinite
    <2>2. extra \subseteq (devices \cap alive) \ prefer
        BY <2>1, FirstOfFits
    <2>3. Cardinality(extra) <= limit - Cardinality(prefer)
        BY <2>1, FirstOfFits
    <2> QED
        BY <2>2, <2>3
<1>4. IsFiniteSet(prefer) /\ IsFiniteSet(extra) /\ IsFiniteSet(prefer \cup K)
    BY <1>2, <1>3, IpsFinite
<1>5. Cardinality(prefer \cup extra) <= limit
    <2>1. Cardinality(prefer \cup extra)
             = Cardinality(prefer) + Cardinality(extra) - Cardinality(prefer \cap extra)
        BY <1>4, FS_Union
    <2>2. /\ Cardinality(prefer) \in Nat /\ Cardinality(extra) \in Nat
          /\ Cardinality(prefer \cap extra) \in Nat
        BY <1>3, IpsFinite
    <2> QED
        BY <2>1, <2>2, <1>3
<1>6. prefer \cup K \subseteq prefer \cup extra
    BY <1>2
<1>7. Cardinality(prefer \cup K) <= Cardinality(prefer \cup extra)
    <2>1. IsFiniteSet(prefer \cup extra)
        BY <1>3, IpsFinite
    <2> QED
        BY <2>1, <1>6, FS_Subset
<1>8. Cardinality(prefer \cup K) \in Nat /\ Cardinality(prefer \cup extra) \in Nat
    BY <1>2, <1>3, IpsFinite
<1> QED
    BY <1>2, <1>5, <1>7, <1>8

-----------------------------------------------------------------------------
(* Types *)

\* A report stays one when a user is taken off it or put on it.
LEMMA PayloadOps ==
    ASSUME NEW p \in Payloads, NEW u \in Users, NEW S \in SUBSET Ips
    PROVE  /\ DOMAIN p \subseteq Users
           /\ \A v \in DOMAIN p : p[v] \subseteq Ips
           /\ [v \in DOMAIN p \ {u} |-> p[v]] \in Payloads
           /\ [v \in DOMAIN p \cup {u} |-> IF v = u THEN S ELSE p[v]] \in Payloads
<1>1. PICK U \in SUBSET Users : p \in [U -> SUBSET Ips]
    BY DEF Payloads
<1>2. [v \in DOMAIN p \ {u} |-> p[v]] \in [U \ {u} -> SUBSET Ips]
    BY <1>1
<1>3. [v \in DOMAIN p \cup {u} |-> IF v = u THEN S ELSE p[v]]
          \in [U \cup {u} -> SUBSET Ips]
    BY <1>1
<1>4. U \ {u} \in SUBSET Users /\ U \cup {u} \in SUBSET Users
    OBVIOUS
<1>5. [v \in DOMAIN p \ {u} |-> p[v]] \in Payloads
    BY <1>2, <1>4 DEF Payloads
<1>6. [v \in DOMAIN p \cup {u} |-> IF v = u THEN S ELSE p[v]] \in Payloads
    BY <1>3, <1>4 DEF Payloads
<1>7. DOMAIN p \subseteq Users /\ \A v \in DOMAIN p : p[v] \subseteq Ips
    BY <1>1
<1> QED
    BY <1>5, <1>6, <1>7

LEMMA NoPayloadType == NoPayload \in Payloads
<1>1. NoPayload \in [{} -> SUBSET Ips]
    BY DEF NoPayload
<1> QED
    BY <1>1 DEF Payloads

LEMMA ForgottenType ==
    ASSUME TypeOK, NEW u \in Users, NEW n \in Nodes
    PROVE  Forgotten(u, n) \in [Nodes -> Payloads]
<1>1. [v \in DOMAIN lastSync[n] \ {u} |-> lastSync[n][v]] \in Payloads
    BY PayloadOps DEF TypeOK
<1> QED
    BY <1>1 DEF Forgotten, TypeOK

LEMMA InForceType ==
    ASSUME TypeOK, NEW w \in Workers
    PROVE  [v \in DOMAIN lastSync[node[w]] \cup {user[w]} |->
               IF v = user[w] THEN ips[w] ELSE lastSync[node[w]][v]] \in Payloads
<1>1. /\ lastSync[node[w]] \in Payloads /\ user[w] \in Users
      /\ ips[w] \in SUBSET Ips
    BY DEF TypeOK
<1>2. PICK U \in SUBSET Users : lastSync[node[w]] \in [U -> SUBSET Ips]
    BY <1>1 DEF Payloads
<1>3. U \cup {user[w]} \in SUBSET Users
    BY <1>1
<1>4. [v \in DOMAIN lastSync[node[w]] \cup {user[w]} |->
          IF v = user[w] THEN ips[w] ELSE lastSync[node[w]][v]]
              \in [U \cup {user[w]} -> SUBSET Ips]
    BY <1>1, <1>2
<1> QED
    BY <1>3, <1>4 DEF Payloads

LEMMA TypeInit == Init => TypeOK
BY NoPayloadType DEF Init, TypeOK, Stages

\* The fields of a node.
LEMMA FieldsType ==
    ASSUME NEW n \in Nodes, NEW S \in SUBSET Ips,
           NEW fields \in SUBSET (Nodes \X Ips)
    PROVE  /\ OfNode(n, S) \in SUBSET (Nodes \X Ips)
           /\ Without(fields, n) \in SUBSET (Nodes \X Ips)
           /\ {ip \in Ips : <<n, ip>> \in fields} \in SUBSET Ips
BY DEF OfNode, Without

LEMMA DeviceIps ==
    ASSUME TypeOK, NEW u \in Users
    PROVE  /\ AllowedIps(u) \in SUBSET Ips
           /\ ReportedIps(u) \in SUBSET Ips
           /\ Cardinality(ReportedIps(u)) \in Nat
<1>1. AllowedIps(u) \in SUBSET Ips /\ ReportedIps(u) \in SUBSET Ips
    BY IpsOfType DEF AllowedIps, ReportedIps, TypeOK
<1> QED
    BY <1>1, IpsFinite

\* A part of the devices remains.
LEMMA LimitDevicesType ==
    ASSUME NEW limit, NEW devices, NEW prefer, NEW alive,
           NEW K \in LimitDevices(limit, devices, prefer, alive)
    PROVE  K \subseteq devices
<1> DEFINE Choices(winners) ==
               {devices \cap (winners \cup extra) :
                   extra \in FirstOf(limit - Cardinality(winners),
                                     (devices \cap alive) \ winners)}
<1>1. CASE limit = 0
    BY <1>1 DEF LimitDevices
<1>2. CASE limit # 0
    <2>1. K \in UNION {Choices(winners) : winners \in FirstOf(limit, prefer)}
        BY <1>2 DEF LimitDevices
    <2> HIDE DEF Choices
    <2>2. PICK winners \in FirstOf(limit, prefer) : K \in Choices(winners)
        BY <2>1
    <2> QED
        BY <2>2 DEF Choices
<1> QED
    BY <1>1, <1>2

\* The steps of a worker.
LEMMA TypeWorker ==
    ASSUME TypeOK, NEW w \in Workers, WorkerStep(w)
    PROVE  TypeOK'
<1> USE DEF TypeOK, Stages, Goto
<1>1. ASSUME NEW u \in Users, DropMissing(w, u)
      PROVE  TypeOK'
    <2>1. Without(allowed[u], node[w]) \in SUBSET (Nodes \X Ips)
        BY FieldsType
    <2> QED
        BY <1>1, <2>1 DEF DropMissing, readers, history
<1>2. ASSUME NEW u \in Users, Acquire(w, u)
      PROVE  TypeOK'
    <2>1. /\ payload[w][u] \in SUBSET Ips
          /\ [v \in DOMAIN payload[w] \ {u} |-> payload[w][v]] \in Payloads
        BY <1>2, PayloadOps DEF Acquire
    <2>2. {ip \in Ips : <<node[w], ip>> \in allowed[u]} \in SUBSET Ips
        OBVIOUS
    <2> QED
        BY <1>2, <2>1, <2>2 DEF Acquire, readers
<1>3. ASSUME NEW u \in Users, Skip(w, u)
      PROVE  TypeOK'
    <2>1. [v \in DOMAIN payload[w] \ {u} |-> payload[w][v]] \in Payloads
        BY PayloadOps
    <2> QED
        BY <1>3, <2>1 DEF Skip, store, locals, readers, history
<1>4. CASE DropReported(w)
    <2>1. Without(reported[user[w]], node[w]) \in SUBSET (Nodes \X Ips)
        BY FieldsType
    <2> QED
        BY <1>4, <2>1 DEF DropReported, call, locals, readers, history
<1>5. CASE Capture(w)
    <2>1. AllowedIps(user[w]) \in SUBSET Ips
        BY DeviceIps
    <2> QED
        BY <1>5, <2>1 DEF Capture, store, call, readers, history
<1>6. CASE Clear(w)
    <2>1. Without(allowed[user[w]], node[w]) \in SUBSET (Nodes \X Ips)
        BY FieldsType
    <2> QED
        BY <1>6, <2>1 DEF Clear, call, locals, readers, history
<1>7. CASE Unreport(w)
    <2>1. Without(reported[user[w]], node[w]) \in SUBSET (Nodes \X Ips)
        BY FieldsType
    <2> QED
        BY <1>7, <2>1 DEF Unreport, call, locals, readers, history
<1>8. CASE Report(w)
    <2>1. reported[user[w]] \cup OfNode(node[w], ips[w]) \in SUBSET (Nodes \X Ips)
        BY FieldsType
    <2> QED
        BY <1>8, <2>1 DEF Report, call, locals, readers, history
<1>9. CASE Limit(w)
    <2>1. PICK K \in LimitDevices(DeviceLimit[user[w]], ips[w], preferred[w],
                                  ReportedIps(user[w])) :
              kept' = [kept EXCEPT ![w] = K]
        BY <1>9 DEF Limit
    <2>2. K \in SUBSET Ips
        BY LimitDevicesType
    <2> QED
        BY <1>9, <2>1, <2>2 DEF Limit, store, call, readers, history
<1>10. CASE Write(w)
    <2>1. allowed[user[w]] \cup OfNode(node[w], kept[w]) \in SUBSET (Nodes \X Ips)
        BY FieldsType
    <2> DEFINE inForce == [v \in DOMAIN lastSync[node[w]] \cup {user[w]} |->
                              IF v = user[w] THEN ips[w] ELSE lastSync[node[w]][v]]
    <2>2. inForce \in Payloads
        BY InForceType
    <2>3. lastSync' = [lastSync EXCEPT ![node[w]] = inForce]
        BY <1>10 DEF Write, Goto
    <2> HIDE DEF inForce
    <2>4. lastSync' \in [Nodes -> Payloads]
        BY <2>2, <2>3
    <2>5. /\ allowed' = [allowed EXCEPT ![user[w]] = @ \cup OfNode(node[w], kept[w])]
          /\ pc' = [pc EXCEPT ![w] = "queue"]
          /\ UNCHANGED <<reported, lock, pushPending, onlineCount>>
          /\ UNCHANGED <<call, locals, readers, before>>
        BY <1>10, Zenon DEF Write, Goto
    <2> QED
        BY <2>1, <2>4, <2>5 DEF call, locals, readers
<1>11. CASE QueuePush(w)
    BY <1>11 DEF QueuePush, call, readers
<1>12. CASE Count(w)
    BY <1>12, DeviceIps DEF Count, store, call, readers, history
<1>13. CASE Save(w)
    BY <1>13 DEF Save, call, readers, history
<1>14. CASE Release(w)
    BY <1>14 DEF Release, call, readers, history
<1>15. CASE EndSync(w)
    BY <1>15 DEF EndSync, store, call, locals, readers, history
<1> QED
    BY <1>1, <1>2, <1>3, <1>4, <1>5, <1>6, <1>7, <1>8, <1>9, <1>10, <1>11,
       <1>12, <1>13, <1>14, <1>15 DEF WorkerStep

LEMMA TypeStep == TypeOK /\ [Next]_vars => TypeOK'
<1> SUFFICES ASSUME TypeOK, [Next]_vars
             PROVE  TypeOK'
    OBVIOUS
<1> USE DEF TypeOK, Stages, Goto
<1>1. ASSUME NEW w \in Workers, NEW n \in Nodes, NEW p \in Payloads,
             StartSync(w, n, p)
      PROVE  TypeOK'
    BY <1>1 DEF StartSync, store, locals, readers
<1>2. ASSUME NEW w \in Workers, WorkerStep(w)
      PROVE  TypeOK'
    BY <1>2, TypeWorker
<1>3. ASSUME NEW w \in Workers, Crash(w)
      PROVE  TypeOK'
    <2>1. lastSync' \in [Nodes -> Payloads]
        BY <1>3, ForgottenType DEF Crash
    <2> QED
        BY <1>3, <2>1, NoPayloadType DEF Crash, readers
<1>4. ASSUME NEW u \in Users, LockExpires(u)
      PROVE  TypeOK'
    BY <1>4 DEF LockExpires, call, locals, readers, history
<1>5. ASSUME NEW u \in Users, StartRead(u)
      PROVE  TypeOK'
    BY <1>5, DeviceIps DEF StartRead, store, call, locals, history
<1>6. ASSUME NEW u \in Users, FinishRead(u)
      PROVE  TypeOK'
    <2>1. PICK whitelist \in Snapshots(u, reading[u]) :
              told' = IF LeftOut(u, whitelist) THEN told
                      ELSE [told EXCEPT ![u] = whitelist]
        BY <1>6 DEF FinishRead
    <2>2. whitelist \in SUBSET Ips
        BY LimitDevicesType DEF Snapshots
    <2> QED
        BY <1>6, <2>1, <2>2 DEF FinishRead, store, call, locals, history
<1>7. ASSUME NEW u \in Users, NEW n \in Nodes, Lapse(u, n)
      PROVE  TypeOK'
    <2>1. lastSync' \in [Nodes -> Payloads]
        BY <1>7, ForgottenType DEF Lapse
    <2>2. /\ Without(allowed[u], n) \in SUBSET (Nodes \X Ips)
          /\ Without(reported[u], n) \in SUBSET (Nodes \X Ips)
        BY FieldsType
    <2>3. before' \in [Workers -> SUBSET Ips]
        BY <1>7 DEF Lapse
    <2> QED
        BY <1>7, <2>1, <2>2, <2>3 DEF Lapse, call, locals, readers
<1>8. ASSUME NEW n \in Nodes, SendPush(n)
      PROVE  TypeOK'
    BY <1>8 DEF SendPush, call, locals, readers, history
<1>9. CASE UNCHANGED vars
    BY <1>9 DEF vars, store, call, locals, readers, history
<1> QED
    BY <1>1, <1>2, <1>3, <1>4, <1>5, <1>6, <1>7, <1>8, <1>9 DEF Next

\* Every variable keeps its type: in particular a lock is free, left behind by a
\* dead worker, or held by a worker.
THEOREM TypeCorrect == Spec => []TypeOK
BY TypeInit, TypeStep, PTL DEF Spec

-----------------------------------------------------------------------------
(* Never more than the limit *)

InLock == {"capture", "clear", "unreport", "report", "limit", "write", "queue",
           "release"}

\* Who took the lock of the user it works on holds it.
Owner(w) ==
    /\ locked[w] => lock[user[w]] = w
    /\ pc[w] \in InLock => locked[w]
    /\ pc[w] \in {"idle", "next", "drop"} => ~locked[w]

\* What is allowed at the moment was allowed when the worker looked, and that
\* was within the limit.
Preference(w) ==
    pc[w] \in {"clear", "unreport", "report", "limit"} =>
        /\ AllowedIps(user[w]) \subseteq preferred[w]
        /\ DeviceLimit[user[w]] > 0 =>
               Cardinality(preferred[w]) <= DeviceLimit[user[w]]

\* What the worker is about to write fits to what is there.
Room(w) ==
    pc[w] = "write" /\ DeviceLimit[user[w]] > 0 =>
        Cardinality(AllowedIps(user[w]) \cup kept[w]) <= DeviceLimit[user[w]]

LimitInv ==
    /\ TypeOK
    /\ ~LockMayExpire =>
           /\ \A w \in Workers : Owner(w)
           /\ \A w \in Workers : Preference(w) /\ Room(w)
           /\ AllowedWithinLimit

LEMMA LimitInit == Init => LimitInv
<1> SUFFICES ASSUME Init
             PROVE  LimitInv
    OBVIOUS
<1>1. \A u \in Users : AllowedIps(u) = {}
    BY DEF Init, AllowedIps, IpsOf
<1>2. AllowedWithinLimit
    BY <1>1, FS_EmptySet, DeviceStateAssumption DEF AllowedWithinLimit
<1>3. \A w \in Workers : Owner(w) /\ Preference(w) /\ Room(w)
    BY DEF Init, Owner, Preference, Room, InLock
<1> QED
    BY <1>2, <1>3, TypeInit DEF LimitInv

\* Only the worker that holds a lock gives it away.
LEMMA OwnerStep ==
    ASSUME TypeOK, ~LockMayExpire, \A w \in Workers : Owner(w), [Next]_vars,
           NEW v \in Workers
    PROVE  Owner(v)'
<1>a. Owner(v)
    OBVIOUS
<1>b. Free \notin Workers /\ Dead \notin Workers
    BY DeviceStateAssumption
<1> USE DEF Owner, InLock, TypeOK, Goto
<1>1. ASSUME NEW w \in Workers, NEW n \in Nodes, NEW p \in Payloads,
             StartSync(w, n, p)
      PROVE  Owner(v)'
    BY <1>1 DEF StartSync, store, locals
<1>2. ASSUME NEW w \in Workers, NEW u \in Users, DropMissing(w, u)
      PROVE  Owner(v)'
    BY <1>2 DEF DropMissing
<1>3. ASSUME NEW w \in Workers, NEW u \in Users, Acquire(w, u)
      PROVE  Owner(v)'
    <2>1. CASE v = w
        BY <1>3, <2>1 DEF Acquire
    <2>2. CASE v # w
        <3>1. locked[v] => user[v] # u
            BY <1>3, <1>a, <1>b DEF Acquire
        <3> QED
            BY <1>3, <2>2, <3>1, <1>a DEF Acquire
    <2> QED
        BY <2>1, <2>2
<1>4. ASSUME NEW w \in Workers, NEW u \in Users, Skip(w, u)
      PROVE  Owner(v)'
    BY <1>4 DEF Skip, store, locals
<1>5. ASSUME NEW w \in Workers,
             DropReported(w) \/ Capture(w) \/ Clear(w) \/ Unreport(w) \/ Report(w)
      PROVE  Owner(v)'
    BY <1>5 DEF DropReported, Capture, Clear, Unreport, Report, store, locals
<1>6. ASSUME NEW w \in Workers, Limit(w)
      PROVE  Owner(v)'
    <2>1. /\ pc[w] = "limit"
          /\ pc' = [pc EXCEPT ![w] = "write"]
          /\ UNCHANGED <<lock, locked, user>>
        BY <1>6 DEF Limit, store
    <2> QED
        BY <2>1, <1>a
<1>7. ASSUME NEW w \in Workers, Write(w)
      PROVE  Owner(v)'
    <2>1. /\ pc[w] = "write"
          /\ pc' = [pc EXCEPT ![w] = "queue"]
          /\ UNCHANGED <<lock, locked, user>>
        BY <1>7 DEF Write, locals
    <2> QED
        BY <2>1, <1>a
<1>8. ASSUME NEW w \in Workers, QueuePush(w) \/ Count(w) \/ Save(w)
      PROVE  Owner(v)'
    BY <1>8 DEF QueuePush, Count, Save, store, locals
<1>9. ASSUME NEW w \in Workers, Release(w)
      PROVE  Owner(v)'
    <2>1. CASE v = w
        BY <1>9, <2>1 DEF Release
    <2>2. CASE v # w
        <3>1. lock[user[w]] = w
            BY <1>9 DEF Release
        <3>2. locked[v] => user[v] # user[w]
            BY <3>1, <2>2, <1>a
        <3> QED
            BY <1>9, <2>2, <3>2, <1>a DEF Release
    <2> QED
        BY <2>1, <2>2
<1>10. ASSUME NEW w \in Workers, EndSync(w)
       PROVE  Owner(v)'
    BY <1>10 DEF EndSync, store, locals
<1>11. ASSUME NEW w \in Workers, Crash(w)
       PROVE  Owner(v)'
    <2>1. /\ pc' = [pc EXCEPT ![w] = "idle"]
          /\ lock' = [u \in Users |-> IF lock[u] = w THEN Dead ELSE lock[u]]
          /\ locked' = [locked EXCEPT ![w] = FALSE]
          /\ UNCHANGED user
        BY <1>11 DEF Crash
    <2> QED
        BY <2>1, <1>a
<1>12. ASSUME NEW u \in Users, LockExpires(u)
       PROVE  Owner(v)'
    BY <1>12, <1>a, <1>b DEF LockExpires, locals
<1>13. ASSUME NEW u \in Users, StartRead(u) \/ FinishRead(u)
       PROVE  Owner(v)'
    BY <1>13 DEF StartRead, FinishRead, store, locals
<1>14. ASSUME NEW u \in Users, NEW n \in Nodes, Lapse(u, n)
       PROVE  Owner(v)'
    BY <1>14 DEF Lapse, locals
<1>15. ASSUME NEW n \in Nodes, SendPush(n)
       PROVE  Owner(v)'
    BY <1>15 DEF SendPush, locals
<1>16. CASE UNCHANGED vars
    BY <1>16 DEF vars, store, locals
<1> QED
    BY <1>1, <1>2, <1>3, <1>4, <1>5, <1>6, <1>7, <1>8, <1>9, <1>10, <1>11,
       <1>12, <1>13, <1>14, <1>15, <1>16 DEF Next, WorkerStep

\* Only a worker that writes adds to what is allowed, and only to what is allowed
\* to its user.
LEMMA AllowedShrinks ==
    ASSUME TypeOK, [Next]_vars, NEW u \in Users,
           \A w \in Workers : Write(w) => user[w] # u
    PROVE  allowed'[u] \subseteq allowed[u]
<1> USE DEF TypeOK
<1>1. ASSUME NEW w \in Workers, NEW n \in Nodes, NEW p \in Payloads,
             StartSync(w, n, p)
      PROVE  allowed' = allowed
    BY <1>1 DEF StartSync, store
<1>2. ASSUME NEW w \in Workers, NEW x \in Users, DropMissing(w, x)
      PROVE  allowed'[u] \subseteq allowed[u]
    BY <1>2 DEF DropMissing, Without
<1>3. ASSUME NEW w \in Workers, NEW x \in Users, Acquire(w, x) \/ Skip(w, x)
      PROVE  allowed' = allowed
    BY <1>3 DEF Acquire, Skip, store
<1>4. ASSUME NEW w \in Workers,
             DropReported(w) \/ Capture(w) \/ Unreport(w) \/ Report(w) \/ Limit(w)
      PROVE  allowed' = allowed
    BY <1>4 DEF DropReported, Capture, Unreport, Report, Limit, store
<1>5. ASSUME NEW w \in Workers, Clear(w)
      PROVE  allowed'[u] \subseteq allowed[u]
    BY <1>5 DEF Clear, Without
<1>6. ASSUME NEW w \in Workers, Write(w)
      PROVE  allowed'[u] = allowed[u]
    <2>1. /\ allowed' = [allowed EXCEPT ![user[w]] = @ \cup OfNode(node[w], kept[w])]
          /\ user[w] # u
        BY <1>6 DEF Write
    <2> QED
        BY <2>1
<1>7. ASSUME NEW w \in Workers,
             QueuePush(w) \/ Count(w) \/ Save(w) \/ Release(w) \/ EndSync(w) \/ Crash(w)
      PROVE  allowed' = allowed
    BY <1>7 DEF QueuePush, Count, Save, Release, EndSync, Crash, store
<1>8. ASSUME NEW x \in Users, LockExpires(x) \/ StartRead(x) \/ FinishRead(x)
      PROVE  allowed' = allowed
    BY <1>8 DEF LockExpires, StartRead, FinishRead, store
<1>9. ASSUME NEW x \in Users, NEW n \in Nodes, Lapse(x, n)
      PROVE  allowed'[u] \subseteq allowed[u]
    BY <1>9 DEF Lapse, Without
<1>10. ASSUME NEW n \in Nodes, SendPush(n)
       PROVE  allowed' = allowed
    BY <1>10 DEF SendPush
<1>11. CASE UNCHANGED vars
    BY <1>11 DEF vars, store
<1> QED
    BY <1>1, <1>2, <1>3, <1>4, <1>5, <1>6, <1>7, <1>8, <1>9, <1>10, <1>11
    DEF Next, WorkerStep

LEMMA WriteAdds ==
    ASSUME TypeOK, NEW w \in Workers, Write(w)
    PROVE  /\ pc[w] = "write"
           /\ AllowedIps(user[w])' \subseteq AllowedIps(user[w]) \cup kept[w]
           /\ AllowedIps(user[w])' \in SUBSET Ips
           /\ user' = user
<1>1. /\ pc[w] = "write"
      /\ allowed' = [allowed EXCEPT ![user[w]] = @ \cup OfNode(node[w], kept[w])]
      /\ user' = user
    BY DEF Write, locals
<1>2. allowed'[user[w]] = allowed[user[w]] \cup OfNode(node[w], kept[w])
    BY <1>1 DEF TypeOK
<1>3. AllowedIps(user[w])' = IpsOf(allowed'[user[w]])
    BY <1>1 DEF AllowedIps
<1>4. IpsOf(allowed'[user[w]]) \subseteq IpsOf(allowed[user[w]]) \cup kept[w]
    BY <1>2 DEF IpsOf, OfNode
<1>5. IpsOf(allowed[user[w]]) \in SUBSET Ips /\ kept[w] \in SUBSET Ips
    BY IpsOfType DEF TypeOK
<1> QED
    BY <1>1, <1>3, <1>4, <1>5 DEF AllowedIps

\* Fewer fields, fewer devices.
LEMMA FewerIps ==
    ASSUME NEW u \in Users, allowed'[u] \subseteq allowed[u]
    PROVE  IpsOf(allowed'[u]) \subseteq IpsOf(allowed[u])
BY DEF IpsOf

\* The limit holds after a step, for one user.
LEMMA WithinLimitStep ==
    ASSUME LimitInv, ~LockMayExpire, [Next]_vars, NEW u \in Users,
           DeviceLimit[u] > 0
    PROVE  Cardinality(IpsOf(allowed'[u])) <= DeviceLimit[u]
<1>a. /\ TypeOK
      /\ Cardinality(IpsOf(allowed[u])) <= DeviceLimit[u]
      /\ \A w \in Workers : Room(w)
    BY DEF LimitInv, AllowedWithinLimit, AllowedIps
<1>b. DeviceLimit[u] \in Nat
    BY DeviceStateAssumption
<1>c. IpsOf(allowed[u]) \in SUBSET Ips
    BY <1>a, IpsOfType DEF TypeOK
<1>1. CASE \A w \in Workers : Write(w) => user[w] # u
    <2>1. IpsOf(allowed'[u]) \subseteq IpsOf(allowed[u])
        BY <1>1, <1>a, AllowedShrinks, FewerIps
    <2>2. IsFiniteSet(IpsOf(allowed[u]))
        BY <1>c, IpsFinite
    <2>3. Cardinality(IpsOf(allowed'[u])) <= Cardinality(IpsOf(allowed[u]))
        BY <2>1, <2>2, FS_Subset
    <2>4. /\ Cardinality(IpsOf(allowed'[u])) \in Nat
          /\ Cardinality(IpsOf(allowed[u])) \in Nat
        BY <2>1, <1>c, IpsFinite
    <2> QED
        BY <2>3, <2>4, <1>a, <1>b
<1>2. CASE \E w \in Workers : Write(w) /\ user[w] = u
    <2>1. PICK w \in Workers : Write(w) /\ user[w] = u
        BY <1>2
    <2>2. /\ pc[w] = "write"
          /\ AllowedIps(u)' \subseteq AllowedIps(u) \cup kept[w]
        BY <2>1, <1>a, WriteAdds
    <2>3. Cardinality(AllowedIps(u) \cup kept[w]) <= DeviceLimit[u]
        BY <2>1, <2>2, <1>a DEF Room
    <2>4. AllowedIps(u) \cup kept[w] \in SUBSET Ips
        BY <1>a, <1>c DEF TypeOK, AllowedIps
    <2>5. IsFiniteSet(AllowedIps(u) \cup kept[w])
        BY <2>4, IpsFinite
    <2>6. IpsOf(allowed'[u]) \subseteq AllowedIps(u) \cup kept[w]
        BY <2>2 DEF AllowedIps
    <2>7. Cardinality(IpsOf(allowed'[u])) <= Cardinality(AllowedIps(u) \cup kept[w])
        BY <2>5, <2>6, FS_Subset
    <2>8. /\ Cardinality(IpsOf(allowed'[u])) \in Nat
          /\ Cardinality(AllowedIps(u) \cup kept[w]) \in Nat
        BY <2>4, <2>6, IpsFinite
    <2> QED
        BY <2>3, <2>7, <2>8, <1>b
<1> QED
    BY <1>1, <1>2

Choosing == {"clear", "unreport", "report", "limit"}

\* A worker gets to the stages at which it has a preference by Capture, and to the
\* one at which it has devices to write by Limit; meanwhile nobody changes either.
LEMMA StageOrigin ==
    ASSUME TypeOK, [Next]_vars, NEW v \in Workers
    PROVE  /\ pc'[v] \in Choosing =>
                  \/ Capture(v)
                  \/ /\ pc[v] \in Choosing
                     /\ preferred'[v] = preferred[v] /\ user'[v] = user[v]
           /\ pc'[v] = "write" =>
                  \/ Limit(v)
                  \/ /\ pc[v] = "write"
                     /\ kept'[v] = kept[v] /\ user'[v] = user[v]
<1> USE DEF TypeOK, Goto, Choosing
<1>1. ASSUME NEW w \in Workers, NEW n \in Nodes, NEW p \in Payloads,
             StartSync(w, n, p)
      PROVE  /\ pc'[v] \in Choosing \cup {"write"} => pc'[v] = pc[v]
             /\ UNCHANGED <<preferred, kept, user>>
    BY <1>1 DEF StartSync, locals
<1>2. ASSUME NEW w \in Workers, NEW u \in Users,
             DropMissing(w, u) \/ Acquire(w, u) \/ Skip(w, u)
      PROVE  /\ UNCHANGED <<preferred, kept>>
             /\ pc'[v] \in Choosing \cup {"write"} =>
                    pc'[v] = pc[v] /\ user'[v] = user[v]
    BY <1>2 DEF DropMissing, Acquire, Skip, locals
<1>3. ASSUME NEW w \in Workers, Capture(w), w # v
      PROVE  /\ pc'[v] = pc[v] /\ preferred'[v] = preferred[v]
             /\ UNCHANGED <<kept, user>>
    BY <1>3 DEF Capture
<1>4. ASSUME NEW w \in Workers,
             DropReported(w) \/ Clear(w) \/ Unreport(w) \/ Report(w)
      PROVE  /\ UNCHANGED <<preferred, kept, user>>
             /\ pc'[v] \in Choosing => pc[v] \in Choosing
             /\ pc'[v] = "write" => pc[v] = "write"
    BY <1>4 DEF DropReported, Clear, Unreport, Report, locals
<1>5. ASSUME NEW w \in Workers, Limit(w), w # v
      PROVE  /\ pc'[v] = pc[v] /\ preferred'[v] = preferred[v]
             /\ kept'[v] = kept[v] /\ user' = user
    <2>1. PICK K : kept' = [kept EXCEPT ![w] = K]
        BY <1>5 DEF Limit
    <2>2. /\ pc' = [pc EXCEPT ![w] = "write"]
          /\ preferred' = [preferred EXCEPT ![w] = {}]
          /\ user' = user
        BY <1>5 DEF Limit
    <2> QED
        BY <2>1, <2>2, <1>5
<1>6. ASSUME Limit(v)
      PROVE  pc'[v] = "write"
    BY <1>6 DEF Limit
<1>7. ASSUME NEW w \in Workers, Write(w)
      PROVE  /\ UNCHANGED <<preferred, kept, user>>
             /\ pc'[v] \in Choosing \cup {"write"} => pc'[v] = pc[v]
    <2>1. pc' = [pc EXCEPT ![w] = "queue"] /\ UNCHANGED locals
        BY <1>7 DEF Write
    <2> QED
        BY <2>1 DEF locals
<1>8. ASSUME NEW w \in Workers, QueuePush(w) \/ Crash(w)
      PROVE  /\ UNCHANGED user
             /\ pc'[v] \in Choosing \cup {"write"} =>
                    /\ pc'[v] = pc[v]
                    /\ preferred'[v] = preferred[v] /\ kept'[v] = kept[v]
    <2>1. /\ pc' = [pc EXCEPT ![w] = "count"] \/ pc' = [pc EXCEPT ![w] = "idle"]
          /\ kept' = [kept EXCEPT ![w] = {}]
          /\ preferred' = [preferred EXCEPT ![w] = {}] \/ preferred' = preferred
          /\ UNCHANGED user
        BY <1>8 DEF QueuePush, Crash
    <2> QED
        BY <2>1
<1>9. ASSUME NEW w \in Workers, Count(w) \/ Save(w) \/ Release(w) \/ EndSync(w)
      PROVE  /\ UNCHANGED <<preferred, kept, user>>
             /\ pc'[v] \in Choosing \cup {"write"} => pc'[v] = pc[v]
    BY <1>9 DEF Count, Save, Release, EndSync, locals
<1>10. ASSUME NEW u \in Users,
              \/ LockExpires(u) \/ StartRead(u) \/ FinishRead(u)
              \/ \E n \in Nodes : Lapse(u, n)
       PROVE  UNCHANGED <<pc, preferred, kept, user>>
    BY <1>10 DEF LockExpires, StartRead, FinishRead, Lapse, locals
<1>11. ASSUME NEW n \in Nodes, SendPush(n)
       PROVE  UNCHANGED <<pc, preferred, kept, user>>
    BY <1>11 DEF SendPush, locals
<1>12. CASE UNCHANGED vars
    BY <1>12 DEF vars, locals
<1>13. CASE Capture(v)
    BY <1>13 DEF Capture
<1> QED
    BY <1>1, <1>2, <1>3, <1>4, <1>5, <1>6, <1>7, <1>8, <1>9, <1>10, <1>11,
       <1>12, <1>13 DEF Next, WorkerStep

\* No other worker writes for the user of a worker that is in the lock.
LEMMA LockExcludes ==
    ASSUME LimitInv, ~LockMayExpire, NEW v \in Workers, pc[v] \in InLock
    PROVE  \A w \in Workers : Write(w) /\ user[w] = user[v] => w = v
<1> SUFFICES ASSUME NEW w \in Workers, Write(w), user[w] = user[v]
             PROVE  w = v
    OBVIOUS
<1>1. pc[w] \in InLock
    BY DEF Write, InLock
<1>2. Owner(v) /\ Owner(w)
    BY DEF LimitInv
<1> QED
    BY <1>1, <1>2 DEF Owner

LEMMA PreferenceStep ==
    ASSUME LimitInv, ~LockMayExpire, [Next]_vars, NEW v \in Workers,
           pc'[v] \in Choosing
    PROVE  /\ IpsOf(allowed'[user'[v]]) \subseteq preferred'[v]
           /\ DeviceLimit[user'[v]] > 0 =>
                  Cardinality(preferred'[v]) <= DeviceLimit[user'[v]]
<1>a. TypeOK /\ Preference(v)
    BY DEF LimitInv
<1>b. user[v] \in Users
    BY <1>a DEF TypeOK
<1>1. CASE Capture(v)
    <2>1. /\ preferred'[v] = AllowedIps(user[v])
          /\ user' = user /\ allowed' = allowed
        BY <1>1, <1>a DEF Capture, store, TypeOK
    <2>2. AllowedWithinLimit
        BY DEF LimitInv
    <2> QED
        BY <2>1, <2>2, <1>b DEF AllowedWithinLimit, AllowedIps
<1>2. CASE /\ pc[v] \in Choosing
           /\ preferred'[v] = preferred[v] /\ user'[v] = user[v]
    <2>1. \A w \in Workers : Write(w) => user[w] # user[v]
        <3>1. pc[v] \in InLock /\ pc[v] # "write"
            BY <1>2 DEF Choosing, InLock
        <3> QED
            BY <3>1, LockExcludes DEF Write
    <2>2. IpsOf(allowed'[user[v]]) \subseteq IpsOf(allowed[user[v]])
        BY <2>1, <1>a, <1>b, AllowedShrinks, FewerIps
    <2> QED
        BY <2>2, <1>2, <1>a DEF Preference, Choosing, AllowedIps
<1> QED
    BY <1>1, <1>2, <1>a, StageOrigin

LEMMA RoomStep ==
    ASSUME LimitInv, ~LockMayExpire, [Next]_vars, NEW v \in Workers,
           pc'[v] = "write", DeviceLimit[user'[v]] > 0
    PROVE  Cardinality(IpsOf(allowed'[user'[v]]) \cup kept'[v]) <= DeviceLimit[user'[v]]
<1>a. TypeOK /\ Preference(v) /\ Room(v)
    BY DEF LimitInv
<1>b. user[v] \in Users /\ IpsOf(allowed[user[v]]) \in SUBSET Ips /\ kept[v] \in SUBSET Ips
    BY <1>a, IpsOfType DEF TypeOK
<1>c. DeviceLimit[user[v]] \in Nat
    BY <1>b, DeviceStateAssumption
<1>1. CASE Limit(v)
    <2>1. PICK K \in LimitDevices(DeviceLimit[user[v]], ips[v], preferred[v],
                                  ReportedIps(user[v])) :
              kept' = [kept EXCEPT ![v] = K]
        BY <1>1 DEF Limit
    <2>2. /\ pc[v] = "limit" /\ user' = user /\ allowed' = allowed
          /\ kept'[v] = K
          /\ DeviceLimit[user[v]] > 0
        BY <1>1, <2>1, <1>a DEF Limit, store, TypeOK
    <2>3. /\ IpsOf(allowed[user[v]]) \subseteq preferred[v]
          /\ Cardinality(preferred[v]) <= DeviceLimit[user[v]]
        BY <2>2, <1>a DEF Preference, AllowedIps
    <2>4. preferred[v] \in SUBSET Ips /\ ips[v] \in SUBSET Ips
        BY <1>a DEF TypeOK
    <2>5. /\ Cardinality(preferred[v] \cup K) <= DeviceLimit[user[v]]
          /\ K \subseteq ips[v]
        <3> DEFINE limit == DeviceLimit[user[v]]
        <3>1. limit \in Nat /\ limit > 0 /\ Cardinality(preferred[v]) <= limit
            BY <2>2, <2>3, <1>c
        <3>2. K \in LimitDevices(limit, ips[v], preferred[v], ReportedIps(user[v]))
            BY <2>1
        <3> HIDE DEF limit
        <3>3. PICK I, P, A : I = ips[v] /\ P = preferred[v] /\ A = ReportedIps(user[v])
            OBVIOUS
        <3>4. /\ P \in SUBSET Ips /\ I \in SUBSET Ips /\ Cardinality(P) <= limit
              /\ K \in LimitDevices(limit, I, P, A)
            BY <3>1, <3>2, <3>3, <2>4
        <3>5. Cardinality(P \cup K) <= limit /\ K \subseteq I
            BY <3>1, <3>4, LimitDevicesFits
        <3> QED
            BY <3>3, <3>5 DEF limit
    <2>6. IpsOf(allowed[user[v]]) \cup K \subseteq preferred[v] \cup K
        BY <2>3
    <2>7. preferred[v] \cup K \in SUBSET Ips
        BY <2>4, <2>5
    <2>8. Cardinality(IpsOf(allowed[user[v]]) \cup K) <= Cardinality(preferred[v] \cup K)
        BY <2>6, <2>7, IpsFinite, FS_Subset
    <2>9. /\ Cardinality(IpsOf(allowed[user[v]]) \cup K) \in Nat
          /\ Cardinality(preferred[v] \cup K) \in Nat
        BY <2>6, <2>7, IpsFinite
    <2>10. Cardinality(IpsOf(allowed[user[v]]) \cup K) <= DeviceLimit[user[v]]
        BY <2>5, <2>8, <2>9, <1>c
    <2> QED
        BY <2>2, <2>10
<1>2. CASE /\ pc[v] = "write"
           /\ kept'[v] = kept[v] /\ user'[v] = user[v]
    <2>1. \A w \in Workers : Write(w) => user[w] # user[v]
        <3>1. pc[v] \in InLock
            BY <1>2 DEF InLock
        <3>2. ~Write(v)
            <4>1. ASSUME Write(v) PROVE pc'[v] = "queue"
                <5>1. pc' = [pc EXCEPT ![v] = "queue"]
                    BY <4>1 DEF Write, Goto
                <5> QED
                    BY <5>1, <1>a DEF TypeOK
            <4> QED
                BY <4>1
        <3> QED
            BY <3>1, <3>2, LockExcludes
    <2>2. IpsOf(allowed'[user[v]]) \subseteq IpsOf(allowed[user[v]])
        BY <2>1, <1>a, <1>b, AllowedShrinks, FewerIps
    <2>3. IpsOf(allowed'[user[v]]) \cup kept[v] \subseteq IpsOf(allowed[user[v]]) \cup kept[v]
        BY <2>2
    <2>4. IpsOf(allowed[user[v]]) \cup kept[v] \in SUBSET Ips
        BY <1>b
    <2>5. Cardinality(IpsOf(allowed'[user[v]]) \cup kept[v])
              <= Cardinality(IpsOf(allowed[user[v]]) \cup kept[v])
        BY <2>3, <2>4, IpsFinite, FS_Subset
    <2>6. /\ Cardinality(IpsOf(allowed'[user[v]]) \cup kept[v]) \in Nat
          /\ Cardinality(IpsOf(allowed[user[v]]) \cup kept[v]) \in Nat
        BY <2>3, <2>4, IpsFinite
    <2>7. Cardinality(IpsOf(allowed[user[v]]) \cup kept[v]) <= DeviceLimit[user[v]]
        BY <1>2, <1>a DEF Room, AllowedIps
    <2> QED
        BY <2>5, <2>6, <2>7, <1>2, <1>c
<1> QED
    BY <1>1, <1>2, <1>a, StageOrigin

LEMMA LimitStep == LimitInv /\ [Next]_vars => LimitInv'
<1> SUFFICES ASSUME LimitInv, [Next]_vars
             PROVE  LimitInv'
    OBVIOUS
<1>1. TypeOK'
    BY TypeStep DEF LimitInv
<1>2. ASSUME ~LockMayExpire
      PROVE  \A w \in Workers : Owner(w)'
    BY <1>2, OwnerStep DEF LimitInv
<1>3. ASSUME ~LockMayExpire, NEW w \in Workers
      PROVE  Preference(w)'
    BY <1>3, PreferenceStep DEF Preference, Choosing, AllowedIps
<1>4. ASSUME ~LockMayExpire, NEW w \in Workers
      PROVE  Room(w)'
    BY <1>4, RoomStep DEF Room, AllowedIps
<1>5. ASSUME ~LockMayExpire
      PROVE  AllowedWithinLimit'
    BY <1>5, WithinLimitStep DEF AllowedWithinLimit, AllowedIps
<1> QED
    BY <1>1, <1>2, <1>3, <1>4, <1>5 DEF LimitInv

\* While a lock outlives its call, the allowed devices of a user over all nodes
\* are at no moment more than device_limit, whichever commands of whichever
\* workers interleave, workers die and reports lapse.
THEOREM LimitCorrect ==
    ASSUME ~LockMayExpire
    PROVE  Spec => []AllowedWithinLimit
<1>1. Spec => []LimitInv
    BY LimitInit, LimitStep, PTL DEF Spec
<1>2. LimitInv => AllowedWithinLimit
    BY DEF LimitInv
<1> QED
    BY <1>1, <1>2, PTL

-----------------------------------------------------------------------------
(* The store acts as DeviceSlots *)

\* A node has one report under way.
Serial ==
    \A w, v \in Workers :
        pc[w] # "idle" /\ pc[v] # "idle" /\ node[w] = node[v] => w = v

\* The users a worker still has to drop are not in the report of its node, and
\* they are all dropped before the first user is set.
Missed(w) ==
    /\ pc[w] # "idle" => missing[w] \cap DOMAIN lastSync[node[w]] = {}
    /\ locked[w] => missing[w] = {}

OwnIps(w) == {ip \in Ips : <<node[w], ip>> \in allowed[user[w]]}

\* What the node of a worker had: allowed until Clear, then only remembered, part
\* of what is preferred, and at last of what is kept.
Mine(w) ==
    /\ pc[w] \in {"capture", "clear"} => OwnIps(w) = before[w]
    /\ pc[w] \in Setting => OwnIps(w) = {}
    /\ pc[w] \in Choosing => before[w] \subseteq preferred[w]
    /\ pc[w] = "write" =>
           /\ kept[w] \subseteq ips[w]
           /\ before[w] \cap ips[w] \subseteq kept[w]
           /\ DeviceLimit[user[w]] = 0 => kept[w] = ips[w]

SlotsInv ==
    /\ LimitInv
    /\ Serial
    /\ \A w \in Workers : Missed(w) /\ Mine(w)

LEMMA SlotsInit == Init => SlotsInv
BY LimitInit DEF Init, SlotsInv, Serial, Missed, Mine, Setting, Choosing

\* A node's next report waits for the one before.
LEMMA SerialStep ==
    ASSUME TypeOK, Serial, SerialNodes, [Next]_vars
    PROVE  Serial'
<1> USE DEF TypeOK, Goto, Serial
<1>1. ASSUME NEW w \in Workers, NEW n \in Nodes, NEW p \in Payloads,
             StartSync(w, n, p)
      PROVE  Serial'
    <2>1. \A v \in Workers : pc[v] # "idle" => node[v] # n
        BY <1>1 DEF StartSync, Busy
    <2>2. /\ pc' = [pc EXCEPT ![w] = "next"]
          /\ node' = [node EXCEPT ![w] = n]
        BY <1>1 DEF StartSync
    <2> QED
        BY <2>1, <2>2
<1>2. ASSUME NEW w \in Workers, WorkerStep(w)
      PROVE  /\ node' = node
             /\ \A v \in Workers : pc'[v] # "idle" => pc[v] # "idle"
    BY <1>2 DEF WorkerStep, DropMissing, Acquire, Skip, DropReported, Capture, Clear,
                Unreport, Report, Limit, Write, QueuePush, Count, Save, Release,
                EndSync, call
<1>3. ASSUME NEW w \in Workers, Crash(w)
      PROVE  /\ node' = node
             /\ \A v \in Workers : pc'[v] # "idle" => pc[v] # "idle"
    BY <1>3 DEF Crash
<1>4. ASSUME NEW u \in Users,
             \/ LockExpires(u) \/ StartRead(u) \/ FinishRead(u)
             \/ \E n \in Nodes : Lapse(u, n)
      PROVE  UNCHANGED <<pc, node>>
    BY <1>4 DEF LockExpires, StartRead, FinishRead, Lapse, call
<1>5. ASSUME NEW n \in Nodes, SendPush(n)
      PROVE  UNCHANGED <<pc, node>>
    BY <1>5 DEF SendPush, call
<1>6. CASE UNCHANGED vars
    BY <1>6 DEF vars, call
<1> QED
    BY <1>1, <1>2, <1>3, <1>4, <1>5, <1>6 DEF Next

\* The report in force of a node changes when its worker starts, writes or dies, or
\* by losing users.
LEMMA MissedStep ==
    ASSUME TypeOK, Serial, SerialNodes, [Next]_vars, NEW w \in Workers,
           Missed(w), Owner(w)
    PROVE  Missed(w)'
<1> USE DEF TypeOK, Goto
<1>a. Missed(w)
    OBVIOUS
<1>1. ASSUME NEW v \in Workers, NEW n \in Nodes, NEW p \in Payloads,
             StartSync(v, n, p)
      PROVE  Missed(w)'
    <2>1. CASE v = w
        <3>1. /\ pc'[w] = "next" /\ node'[w] = n /\ lastSync'[n] = p
              /\ missing'[w] \subseteq Users \ DOMAIN p
              /\ ~locked'[w]
            BY <1>1, <2>1 DEF StartSync, locals, Owner
        <3> QED
            BY <3>1 DEF Missed
    <2>2. CASE v # w
        <3>1. pc[w] # "idle" => node[w] # n
            BY <1>1 DEF StartSync, Busy
        <3>2. /\ pc'[w] = pc[w] /\ node'[w] = node[w] /\ missing'[w] = missing[w]
              /\ node[w] # n => lastSync'[node[w]] = lastSync[node[w]]
              /\ locked' = locked
            BY <1>1, <2>2 DEF StartSync, locals
        <3> QED
            BY <3>1, <3>2, <1>a DEF Missed
    <2> QED
        BY <2>1, <2>2
<1>2. ASSUME NEW v \in Workers, NEW u \in Users,
             DropMissing(v, u) \/ Acquire(v, u) \/ Skip(v, u)
      PROVE  Missed(w)'
    <2>1. /\ lastSync' = lastSync /\ node' = node
          /\ missing'[w] \subseteq missing[w]
          /\ pc'[w] # "idle" => pc[w] # "idle"
          /\ locked'[w] => locked[w] \/ missing'[w] = {}
        BY <1>2 DEF DropMissing, Acquire, Skip, locals, history
    <2> QED
        BY <2>1, <1>a DEF Missed
<1>3. ASSUME NEW v \in Workers,
             \/ DropReported(v) \/ Capture(v) \/ Clear(v) \/ Unreport(v)
             \/ Report(v) \/ Limit(v)
      PROVE  Missed(w)'
    <2>1. /\ lastSync' = lastSync /\ node' = node /\ missing' = missing
          /\ pc'[w] # "idle" => pc[w] # "idle"
          /\ locked' = locked
        BY <1>3 DEF DropReported, Capture, Clear, Unreport, Report, Limit, call, locals,
                    history
    <2> QED
        BY <2>1, <1>a DEF Missed
<1>4. ASSUME NEW v \in Workers, Write(v)
      PROVE  Missed(w)'
    <2> DEFINE inForce == [x \in DOMAIN lastSync[node[v]] \cup {user[v]} |->
                              IF x = user[v] THEN ips[v] ELSE lastSync[node[v]][x]]
    <2>1. /\ lastSync' = [lastSync EXCEPT ![node[v]] = inForce]
          /\ pc[v] = "write" /\ pc' = [pc EXCEPT ![v] = "queue"]
          /\ node' = node /\ missing' = missing /\ locked' = locked
        BY <1>4 DEF Write, call, locals
    <2> HIDE DEF inForce
    <2>2. CASE v = w
        <3>1. missing[w] = {}
            BY <2>1, <2>2, <1>a DEF Missed, Owner, InLock
        <3> QED
            BY <3>1, <2>1 DEF Missed
    <2>3. CASE v # w
        <3>1. pc[w] # "idle" => node[w] # node[v]
            BY <2>1, <2>3 DEF Serial
        <3>2. node[w] # node[v] => lastSync'[node[w]] = lastSync[node[w]]
            BY <2>1
        <3> QED
            BY <3>1, <3>2, <2>1, <2>3, <1>a DEF Missed
    <2> QED
        BY <2>2, <2>3
<1>5. ASSUME NEW v \in Workers,
             QueuePush(v) \/ Count(v) \/ Save(v) \/ Release(v) \/ EndSync(v)
      PROVE  Missed(w)'
    <2>1. /\ lastSync' = lastSync /\ node' = node /\ missing' = missing
          /\ pc'[w] # "idle" => pc[w] # "idle"
          /\ locked'[w] => locked[w]
        BY <1>5 DEF QueuePush, Count, Save, Release, EndSync, call, locals, history
    <2> QED
        BY <2>1, <1>a DEF Missed
<1>6. ASSUME NEW x \in Users, NEW n \in Nodes
      PROVE  DOMAIN Forgotten(x, n)[node[w]] \subseteq DOMAIN lastSync[node[w]]
    BY DEF Forgotten
<1>7. ASSUME NEW v \in Workers, Crash(v)
      PROVE  Missed(w)'
    <2>1. /\ lastSync' = lastSync \/ lastSync' = Forgotten(user[v], node[v])
          /\ node' = node
          /\ missing'[w] \subseteq missing[w]
          /\ pc'[w] # "idle" => pc[w] # "idle"
          /\ locked'[w] => locked[w]
        BY <1>7 DEF Crash
    <2> QED
        BY <2>1, <1>6, <1>a DEF Missed
<1>8. ASSUME NEW x \in Users, NEW n \in Nodes, Lapse(x, n)
      PROVE  Missed(w)'
    <2>1. /\ lastSync' = Forgotten(x, n)
          /\ UNCHANGED <<node, missing, pc, locked>>
        BY <1>8 DEF Lapse, call, locals
    <2> QED
        BY <2>1, <1>6, <1>a DEF Missed
<1>9. ASSUME NEW x \in Users, LockExpires(x) \/ StartRead(x) \/ FinishRead(x)
      PROVE  UNCHANGED <<lastSync, node, missing, pc, locked>>
    BY <1>9 DEF LockExpires, StartRead, FinishRead, call, locals, history
<1>10. ASSUME NEW n \in Nodes, SendPush(n)
       PROVE  UNCHANGED <<lastSync, node, missing, pc, locked>>
    BY <1>10 DEF SendPush, call, locals, history
<1>11. CASE UNCHANGED vars
    BY <1>11, <1>a DEF vars, call, locals, history, Missed
<1>12. CASE UNCHANGED <<lastSync, node, missing, pc, locked>>
    BY <1>12, <1>a DEF Missed
<1> QED
    BY <1>1, <1>2, <1>3, <1>4, <1>5, <1>7, <1>8, <1>9, <1>10, <1>11, <1>12
    DEF Next, WorkerStep

\* Nothing of what a node has changes for a worker that steps in no way itself and
\* keeps what it remembers, when the other fields of the user may change.
LEMMA MineKeeps ==
    ASSUME TypeOK, NEW w \in Workers, Mine(w),
           pc'[w] = pc[w], user'[w] = user[w], node'[w] = node[w],
           before'[w] = before[w], preferred'[w] = preferred[w],
           kept'[w] = kept[w], ips'[w] = ips[w],
           pc[w] \in {"capture", "clear"} \cup Setting =>
               \A ip \in Ips : <<node[w], ip>> \in allowed'[user[w]]
                                   <=> <<node[w], ip>> \in allowed[user[w]]
    PROVE  Mine(w)'
<1>1. pc[w] \in {"capture", "clear"} \cup Setting => OwnIps(w)' = OwnIps(w)
    BY DEF OwnIps
<1> QED
    BY <1>1 DEF Mine

\* A step of another worker, of another node.
LEMMA MineOther ==
    ASSUME TypeOK, Serial, NEW w \in Workers, Mine(w),
           NEW v \in Workers, v # w, WorkerStep(v)
    PROVE  Mine(w)'
<1> USE DEF TypeOK, Goto
<1>a. pc[v] # "idle"
    BY DEF WorkerStep, DropMissing, Acquire, Skip, DropReported, Capture, Clear,
           Unreport, Report, Limit, Write, QueuePush, Count, Save, Release, EndSync
<1>b. pc[w] # "idle" => node[w] # node[v]
    BY <1>a DEF Serial
<1>c. pc[w] \in {"capture", "clear"} \cup Setting => node[w] # node[v]
    BY <1>b DEF Setting
<1>1. /\ pc'[w] = pc[w] /\ user'[w] = user[w] /\ node'[w] = node[w]
      /\ before'[w] = before[w] /\ preferred'[w] = preferred[w] /\ ips'[w] = ips[w]
    BY DEF WorkerStep, DropMissing, Acquire, Skip, DropReported, Capture, Clear,
           Unreport, Report, Limit, Write, QueuePush, Count, Save, Release, EndSync,
           call, locals, history
<1>2. kept'[w] = kept[w]
    <2>1. CASE Limit(v)
        <3>1. PICK K : kept' = [kept EXCEPT ![v] = K]
            BY <2>1 DEF Limit
        <3> QED
            BY <3>1
    <2>2. CASE ~Limit(v)
        BY <2>2 DEF WorkerStep, DropMissing, Acquire, Skip, DropReported, Capture,
               Clear, Unreport, Report, Write, QueuePush, Count, Save, Release,
               EndSync, locals
    <2> QED
        BY <2>1, <2>2
<1>3. ASSUME node[w] # node[v], NEW ip \in Ips
      PROVE  <<node[w], ip>> \in allowed'[user[w]] <=> <<node[w], ip>> \in allowed[user[w]]
    <2>1. ASSUME NEW u \in Users, DropMissing(v, u)
          PROVE  allowed' = [allowed EXCEPT ![u] = Without(@, node[v])]
        BY <2>1 DEF DropMissing
    <2>2. CASE Clear(v)
        BY <2>2, <1>3 DEF Clear, Without
    <2>3. CASE Write(v)
        <3>1. allowed' = [allowed EXCEPT ![user[v]] = @ \cup OfNode(node[v], kept[v])]
            BY <2>3 DEF Write
        <3> QED
            BY <3>1, <1>3 DEF OfNode
    <2>4. ASSUME NEW u \in Users, Acquire(v, u) \/ Skip(v, u)
          PROVE  allowed' = allowed
        BY <2>4 DEF Acquire, Skip, store
    <2>5. ASSUME \/ DropReported(v) \/ Capture(v) \/ Unreport(v) \/ Report(v)
                 \/ Limit(v) \/ QueuePush(v) \/ Count(v) \/ Save(v) \/ Release(v)
                 \/ EndSync(v)
          PROVE  allowed' = allowed
        BY <2>5 DEF DropReported, Capture, Unreport, Report, Limit, QueuePush, Count,
                    Save, Release, EndSync, store
    <2>6. ASSUME NEW u \in Users, DropMissing(v, u)
          PROVE  <<node[w], ip>> \in allowed'[user[w]]
                     <=> <<node[w], ip>> \in allowed[user[w]]
        BY <2>1, <2>6, <1>3 DEF Without
    <2> QED
        BY <2>2, <2>3, <2>4, <2>5, <2>6 DEF WorkerStep
<1> QED
    BY <1>c, <1>1, <1>2, <1>3, MineKeeps

\* What Limit keeps has all that is preferred and reported.
LEMMA LimitKeeps ==
    ASSUME TypeOK, NEW w \in Workers, Preference(w), pc[w] = "limit",
           NEW K \in LimitDevices(DeviceLimit[user[w]], ips[w], preferred[w],
                                  ReportedIps(user[w]))
    PROVE  /\ K \subseteq ips[w]
           /\ DeviceLimit[user[w]] = 0 => K = ips[w]
           /\ DeviceLimit[user[w]] > 0 => preferred[w] \cap ips[w] \subseteq K
<1> DEFINE limit == DeviceLimit[user[w]]
<1>1. limit \in Nat /\ (limit > 0 => Cardinality(preferred[w]) <= limit)
    BY DeviceStateAssumption DEF Preference, TypeOK
<1>2. K \in LimitDevices(limit, ips[w], preferred[w], ReportedIps(user[w]))
    OBVIOUS
<1>3. preferred[w] \in SUBSET Ips /\ ips[w] \in SUBSET Ips
    BY DEF TypeOK
<1> HIDE DEF limit
<1>4. ASSUME limit > 0
      PROVE  K \subseteq ips[w] /\ preferred[w] \cap ips[w] \subseteq K
    <2>1. limit \in Nat /\ Cardinality(preferred[w]) <= limit
        BY <1>1, <1>4
    <2>2. /\ K \subseteq ips[w]
          /\ preferred[w] \cap ips[w] \subseteq K
          /\ Cardinality(preferred[w] \cup K) <= limit
        BY <2>1, <1>2, <1>3, <1>4, LimitDevicesFits
    <2> QED
        BY <2>2
<1>5. ASSUME limit = 0
      PROVE  K = ips[w]
    BY <1>2, <1>5 DEF LimitDevices
<1>6. limit = 0 \/ limit > 0
    BY <1>1
<1> QED
    BY <1>4, <1>5, <1>6 DEF limit

\* A step of the worker itself.
LEMMA MineSelf ==
    ASSUME SlotsInv, ~LockMayExpire, NEW w \in Workers, WorkerStep(w)
    PROVE  Mine(w)'
<1>a. TypeOK /\ Mine(w) /\ Owner(w) /\ Preference(w)
    BY DEF SlotsInv, LimitInv
<1> USE DEF TypeOK, Goto
<1>1. ASSUME NEW u \in Users, DropMissing(w, u)
      PROVE  Mine(w)'
    BY <1>1, <1>a DEF DropMissing, Mine, Setting, Choosing
<1>2. ASSUME NEW u \in Users, Acquire(w, u)
      PROVE  Mine(w)'
    <2>1. /\ pc'[w] = "capture" /\ user'[w] = u /\ node' = node /\ allowed' = allowed
          /\ before'[w] = {ip \in Ips : <<node[w], ip>> \in allowed[u]}
        BY <1>2, <1>a DEF Acquire
    <2> QED
        BY <2>1 DEF Mine, OwnIps, Setting, Choosing
<1>3. ASSUME NEW u \in Users, Skip(w, u)
      PROVE  Mine(w)'
    BY <1>3, <1>a DEF Skip, store, locals, history, Mine, Setting, Choosing
<1>4. CASE DropReported(w)
    BY <1>4, <1>a DEF DropReported, Mine, Setting, Choosing
<1>5. CASE Capture(w)
    <2>1. /\ pc[w] = "capture" /\ pc'[w] = "clear" /\ preferred'[w] = AllowedIps(user[w])
          /\ user' = user /\ node' = node /\ before' = before /\ allowed' = allowed
        BY <1>5, <1>a DEF Capture, store, call, history
    <2>2. OwnIps(w) = before[w] /\ OwnIps(w)' = OwnIps(w)
        BY <2>1, <1>a DEF Mine, OwnIps
    <2>3. OwnIps(w) \subseteq AllowedIps(user[w])
        BY DEF OwnIps, AllowedIps, IpsOf
    <2> QED
        BY <2>1, <2>2, <2>3 DEF Mine, Setting, Choosing
<1>6. CASE Clear(w)
    <2>1. /\ pc[w] = "clear" /\ pc'[w] = "unreport"
          /\ allowed' = [allowed EXCEPT ![user[w]] = Without(@, node[w])]
          /\ user' = user /\ node' = node /\ before' = before /\ preferred' = preferred
        BY <1>6, <1>a DEF Clear, call, locals, history
    <2>2. OwnIps(w)' = {}
        BY <2>1, <1>a DEF OwnIps, Without
    <2> QED
        BY <2>1, <2>2, <1>a DEF Mine, Setting, Choosing
<1>7. CASE Unreport(w) \/ Report(w)
    <2>1. /\ pc[w] \in {"unreport", "report"} /\ pc'[w] \in {"report", "limit"}
          /\ user' = user /\ node' = node /\ before' = before /\ preferred' = preferred
          /\ allowed' = allowed
        BY <1>7, <1>a DEF Unreport, Report, call, locals, history
    <2>2. OwnIps(w)' = OwnIps(w)
        BY <2>1 DEF OwnIps
    <2> QED
        BY <2>1, <2>2, <1>a DEF Mine, Setting, Choosing
<1>8. CASE Limit(w)
    <2>1. PICK K \in LimitDevices(DeviceLimit[user[w]], ips[w], preferred[w],
                                  ReportedIps(user[w])) :
              kept' = [kept EXCEPT ![w] = K]
        BY <1>8 DEF Limit
    <2>2. /\ pc[w] = "limit" /\ pc'[w] = "write" /\ kept'[w] = K
          /\ user' = user /\ node' = node /\ before' = before /\ ips' = ips
          /\ allowed' = allowed
        BY <1>8, <2>1, <1>a DEF Limit, store, call, history
    <2>3. OwnIps(w)' = OwnIps(w)
        BY <2>2 DEF OwnIps
    <2>4. /\ K \subseteq ips[w]
          /\ DeviceLimit[user[w]] = 0 => K = ips[w]
          /\ DeviceLimit[user[w]] > 0 => preferred[w] \cap ips[w] \subseteq K
        BY <2>1, <2>2, <1>a, LimitKeeps
    <2>5. DeviceLimit[user[w]] \in Nat
        BY <1>a, DeviceStateAssumption
    <2>6. OwnIps(w) = {} /\ before[w] \subseteq preferred[w]
        BY <2>2, <1>a DEF Mine, Setting, Choosing
    <2>7. before[w] \cap ips[w] \subseteq K
        BY <2>4, <2>5, <2>6
    <2> QED
        BY <2>2, <2>3, <2>4, <2>6, <2>7 DEF Mine, Setting, Choosing
<1>9. CASE Write(w)
    <2>1. pc' = [pc EXCEPT ![w] = "queue"]
        BY <1>9 DEF Write
    <2> QED
        BY <2>1, <1>a DEF Mine, Setting, Choosing
<1>10. CASE QueuePush(w) \/ Count(w) \/ Save(w) \/ Release(w) \/ EndSync(w)
    <2>1. pc'[w] \in {"count", "save", "release", "next", "idle"}
        BY <1>10, <1>a DEF QueuePush, Count, Save, Release, EndSync
    <2> QED
        BY <2>1 DEF Mine, Setting, Choosing
<1> QED
    BY <1>1, <1>2, <1>3, <1>4, <1>5, <1>6, <1>7, <1>8, <1>9, <1>10 DEF WorkerStep

LEMMA MineStep ==
    ASSUME SlotsInv, ~LockMayExpire, SerialNodes, [Next]_vars, NEW w \in Workers
    PROVE  Mine(w)'
<1>a. TypeOK /\ Mine(w) /\ Serial
    BY DEF SlotsInv, LimitInv
<1>1. ASSUME NEW v \in Workers, NEW n \in Nodes, NEW p \in Payloads,
             StartSync(v, n, p)
      PROVE  Mine(w)'
    <2>1. CASE v = w
        <3>1. pc'[w] = "next"
            BY <1>1, <2>1, <1>a DEF StartSync, TypeOK, Goto
        <3> QED
            BY <3>1 DEF Mine, Setting, Choosing
    <2>2. CASE v # w
        <3>1. /\ pc'[w] = pc[w] /\ node'[w] = node[w]
              /\ UNCHANGED <<user, before, preferred, kept, ips, allowed>>
            BY <1>1, <2>2, <1>a DEF StartSync, TypeOK, Goto, store, locals
        <3> QED
            BY <3>1, <1>a, MineKeeps
    <2> QED
        BY <2>1, <2>2
<1>2. ASSUME NEW v \in Workers, WorkerStep(v)
      PROVE  Mine(w)'
    BY <1>2, <1>a, MineOther, MineSelf
<1>3. ASSUME NEW v \in Workers, Crash(v)
      PROVE  Mine(w)'
    <2>1. CASE v = w
        <3>1. pc'[w] = "idle"
            BY <1>3, <2>1, <1>a DEF Crash, TypeOK, Goto
        <3> QED
            BY <3>1 DEF Mine, Setting, Choosing
    <2>2. CASE v # w
        <3>1. /\ pc'[w] = pc[w] /\ before'[w] = before[w] /\ kept'[w] = kept[w]
              /\ preferred'[w] = preferred[w] /\ ips'[w] = ips[w]
              /\ UNCHANGED <<user, node, allowed>>
            BY <1>3, <2>2, <1>a DEF Crash, TypeOK, Goto
        <3> QED
            BY <3>1, <1>a, MineKeeps
    <2> QED
        BY <2>1, <2>2
<1>4. ASSUME NEW u \in Users, NEW n \in Nodes, Lapse(u, n)
      PROVE  Mine(w)'
    <2>1. /\ allowed' = [allowed EXCEPT ![u] = Without(@, n)]
          /\ before'[w] = IF user[w] = u /\ node[w] = n THEN {} ELSE before[w]
          /\ UNCHANGED <<pc, user, node, preferred, kept, ips>>
        BY <1>4 DEF Lapse, call, locals
    <2>2. CASE user[w] = u /\ node[w] = n
        <3>1. OwnIps(w)' = {}
            BY <2>1, <2>2, <1>a DEF OwnIps, Without, TypeOK
        <3> QED
            BY <2>1, <2>2, <3>1, <1>a DEF Mine
    <2>3. CASE ~(user[w] = u /\ node[w] = n)
        <3>1. \A ip \in Ips : <<node[w], ip>> \in allowed'[user[w]]
                                  <=> <<node[w], ip>> \in allowed[user[w]]
            BY <2>1, <2>3, <1>a DEF Without, TypeOK
        <3> QED
            BY <2>1, <2>3, <3>1, <1>a, MineKeeps
    <2> QED
        BY <2>2, <2>3
<1>5. ASSUME UNCHANGED <<allowed, pc, user, node, before, preferred, kept, ips>>
      PROVE  Mine(w)'
    BY <1>5, <1>a, MineKeeps
<1>6. ASSUME NEW u \in Users, LockExpires(u) \/ StartRead(u) \/ FinishRead(u)
      PROVE  Mine(w)'
    BY <1>5, <1>6 DEF LockExpires, StartRead, FinishRead, store, call, locals, history
<1>7. ASSUME NEW n \in Nodes, SendPush(n)
      PROVE  Mine(w)'
    BY <1>5, <1>7 DEF SendPush, call, locals, history
<1>8. CASE UNCHANGED vars
    BY <1>5, <1>8 DEF vars, store, call, locals, history
<1> QED
    BY <1>1, <1>2, <1>3, <1>4, <1>6, <1>7, <1>8 DEF Next

LEMMA SlotsInvStep ==
    ASSUME SlotsInv, ~LockMayExpire, SerialNodes, [Next]_vars
    PROVE  SlotsInv'
<1>1. TypeOK /\ Serial /\ \A w \in Workers : Missed(w) /\ Owner(w)
    BY DEF SlotsInv, LimitInv
<1>2. LimitInv'
    BY LimitStep DEF SlotsInv
<1>3. Serial'
    BY <1>1, SerialStep
<1>4. ASSUME NEW w \in Workers
      PROVE  Missed(w)' /\ Mine(w)'
    BY <1>1, MissedStep, MineStep
<1>5. \A w \in Workers : Missed(w)' /\ Mine(w)'
    BY <1>4
<1> QED
    BY <1>2, <1>3, <1>5 DEF SlotsInv

-----------------------------------------------------------------------------

\* What a user has in the abstract store.
Shown(u) == allowed[u] \cup Held(u)

\* A pair is held by a worker that is setting the user's devices.
LEMMA HeldBy ==
    ASSUME NEW u \in Users, NEW x
    PROVE  x \in Held(u) <=>
               \E w \in Workers : /\ user[w] = u /\ pc[w] \in Setting
                                  /\ x \in OfNode(node[w], before[w])
BY DEF Held

LEMMA HeldByNext ==
    ASSUME NEW u \in Users, NEW x
    PROVE  x \in Held(u)' <=>
               \E w \in Workers : /\ user'[w] = u /\ pc'[w] \in Setting
                                  /\ x \in OfNode(node'[w], before'[w])
BY DEF Held, Setting, OfNode

\* Nothing is held anew, and nothing given up, as long as the workers that are
\* setting devices are the same.
LEMMA HeldKeeps ==
    ASSUME \A w \in Workers :
               /\ pc'[w] \in Setting <=> pc[w] \in Setting
               /\ pc[w] \in Setting => /\ user'[w] = user[w] /\ node'[w] = node[w]
                                       /\ before'[w] = before[w]
    PROVE  \A u \in Users : Held(u)' = Held(u)
<1> SUFFICES ASSUME NEW u \in Users
             PROVE  Held(u)' = Held(u)
    OBVIOUS
<1>1. \A x : x \in Held(u)' <=> x \in Held(u)
    BY HeldBy, HeldByNext
<1> QED
    BY <1>1

SlotsVars == <<[u \in Users |-> allowed[u] \cup Held(u)], lastSync>>

\* A step that does not show.
LEMMA Stutter ==
    ASSUME \A u \in Users : Shown(u)' = Shown(u), UNCHANGED lastSync
    PROVE  UNCHANGED SlotsVars
<1>1. \A u \in Users : allowed'[u] \cup Held(u)' = allowed[u] \cup Held(u)
    BY DEF Shown
<1>2. [u \in Users |-> allowed[u] \cup Held(u)]' = [u \in Users |-> allowed[u] \cup Held(u)]
    BY <1>1
<1> QED
    BY <1>2 DEF SlotsVars

\* A step that gives a node other devices of one user.
LEMMA GiveShown ==
    ASSUME NEW u \in Users, NEW n \in Nodes, NEW K,
           Shown(u)' = Without(Shown(u), n) \cup OfNode(n, K),
           \A x \in Users \ {u} : Shown(x)' = Shown(x)
    PROVE  Slots!Give(u, n, K)
<1>1. Slots!Others(u, n) = Without(Shown(u), n)
    BY DEF Slots!Others, Without, Shown
<1>2. [x \in Users |-> Shown(x)]'
          = [[x \in Users |-> Shown(x)] EXCEPT ![u] = Slots!Others(u, n) \cup ({n} \X K)]
    BY <1>1 DEF OfNode
<1> QED
    BY <1>2 DEF Slots!Give, Shown

\* What is held is held for a node whose worker is setting devices.
LEMMA HeldElsewhere ==
    ASSUME TypeOK, Serial, NEW w \in Workers, pc[w] # "idle", NEW u \in Users,
           pc[w] \notin Setting \/ user[w] # u
    PROVE  \A x \in Held(u) : x[1] # node[w]
<1> SUFFICES ASSUME NEW x \in Held(u)
             PROVE  x[1] # node[w]
    OBVIOUS
<1>1. PICK v \in Workers : /\ user[v] = u /\ pc[v] \in Setting
                           /\ x \in OfNode(node[v], before[v])
    BY HeldBy
<1>2. x[1] = node[v] /\ pc[v] # "idle" /\ v # w
    BY <1>1 DEF OfNode, Setting
<1> QED
    BY <1>2 DEF Serial

\* DeviceSlots counts as DeviceState does.
LEMMA SameCardinality ==
    ASSUME NEW S
    PROVE  Slots!Cardinality(S) = Cardinality(S)
BY DEF Slots!Cardinality, Cardinality

LEMMA SimDrop ==
    ASSUME SlotsInv, NEW w \in Workers, NEW u \in Users, DropMissing(w, u)
    PROVE  Slots!Drop(u, node[w])
<1>a. TypeOK /\ Serial /\ Missed(w)
    BY DEF SlotsInv, LimitInv
<1>1. /\ pc[w] = "next" /\ u \in missing[w]
      /\ allowed' = [allowed EXCEPT ![u] = Without(@, node[w])]
      /\ UNCHANGED <<node, before, lastSync>>
    BY DEF DropMissing, history
<1>2. \A x \in Users : Held(x)' = Held(x)
    <2>1. \A v \in Workers :
              /\ pc'[v] \in Setting <=> pc[v] \in Setting
              /\ pc[v] \in Setting => user'[v] = user[v]
        BY <1>a DEF DropMissing, TypeOK, Goto, Setting
    <2> QED
        BY <2>1, <1>1, HeldKeeps
<1>3. \A x \in Held(u) : x[1] # node[w]
    BY <1>1, <1>a, HeldElsewhere DEF Setting
<1>4. /\ allowed'[u] = Without(allowed[u], node[w])
      /\ \A x \in Users \ {u} : allowed'[x] = allowed[x]
    BY <1>1, <1>a DEF TypeOK
<1>5. Shown(u)' = Without(Shown(u), node[w]) \cup OfNode(node[w], {})
    BY <1>2, <1>3, <1>4 DEF Shown, Without, OfNode
<1>6. \A x \in Users \ {u} : Shown(x)' = Shown(x)
    BY <1>2, <1>4 DEF Shown
<1>7. Slots!Give(u, node[w], {})
    BY <1>5, <1>6, <1>a, GiveShown DEF TypeOK
<1>8. u \notin DOMAIN lastSync[node[w]]
    BY <1>1, <1>a DEF Missed
<1> QED
    BY <1>1, <1>7, <1>8 DEF Slots!Drop

LEMMA SimClear ==
    ASSUME SlotsInv, NEW w \in Workers, Clear(w)
    PROVE  UNCHANGED SlotsVars
<1>a. TypeOK /\ Serial /\ Mine(w)
    BY DEF SlotsInv, LimitInv
<1>1. /\ pc[w] = "clear" /\ pc' = [pc EXCEPT ![w] = "unreport"]
      /\ allowed' = [allowed EXCEPT ![user[w]] = Without(@, node[w])]
      /\ UNCHANGED <<user, node, before, lastSync>>
    BY DEF Clear, Goto, call, locals, history
<1>2. \A v \in Workers : v # w => pc'[v] = pc[v]
    BY <1>1, <1>a DEF TypeOK
<1>3. pc'[w] \in Setting /\ pc[w] \notin Setting
    BY <1>1, <1>a DEF TypeOK, Setting
<1>4. OfNode(node[w], before[w]) = allowed[user[w]] \ Without(allowed[user[w]], node[w])
    <2>1. before[w] = {ip \in Ips : <<node[w], ip>> \in allowed[user[w]]}
        BY <1>1, <1>a DEF Mine, OwnIps
    <2>2. allowed[user[w]] \subseteq Nodes \X Ips
        BY <1>a DEF TypeOK
    <2> QED
        BY <2>1, <2>2 DEF OfNode, Without
<1>5. ASSUME NEW u \in Users
      PROVE  Shown(u)' = Shown(u)
    <2>1. CASE u = user[w]
        <3>1. allowed'[u] = Without(allowed[u], node[w])
            BY <2>1, <1>1, <1>a DEF TypeOK
        <3>2. \A x : x \in Held(u)' <=> x \in Held(u) \/ x \in OfNode(node[w], before[w])
            BY <2>1, <1>1, <1>2, <1>3, HeldBy, HeldByNext
        <3>3. Without(allowed[u], node[w]) \subseteq allowed[u]
            BY DEF Without
        <3> QED
            BY <2>1, <3>1, <3>2, <3>3, <1>4 DEF Shown
    <2>2. CASE u # user[w]
        <3>1. allowed'[u] = allowed[u]
            BY <2>2, <1>1, <1>a DEF TypeOK
        <3>2. \A x : x \in Held(u)' <=> x \in Held(u)
            BY <2>2, <1>1, <1>2, <1>3, HeldBy, HeldByNext
        <3> QED
            BY <3>1, <3>2 DEF Shown
    <2> QED
        BY <2>1, <2>2
<1> QED
    BY <1>1, <1>5, Stutter

LEMMA SimWrite ==
    ASSUME SlotsInv, ~LockMayExpire, NEW w \in Workers, Write(w)
    PROVE  \E n \in Nodes, u \in Users :
               \E S \in SUBSET Ips : \E K \in SUBSET S : Slots!Report(u, n, S, K)
<1>a. TypeOK /\ Serial /\ Mine(w) /\ Room(w) /\ \A v \in Workers : Owner(v)
    BY DEF SlotsInv, LimitInv
<1>u. PICK u \in Users, n \in Nodes, S \in SUBSET Ips, K \in SUBSET Ips :
          u = user[w] /\ n = node[w] /\ S = ips[w] /\ K = kept[w]
    BY <1>a DEF TypeOK
<1> USE <1>u
<1>1. /\ pc[w] = "write" /\ pc' = [pc EXCEPT ![w] = "queue"]
      /\ allowed' = [allowed EXCEPT ![u] = @ \cup OfNode(n, K)]
      /\ UNCHANGED <<user, node, before>>
    BY DEF Write, Goto, call, locals
<1>2. lastSync' = [lastSync EXCEPT
                      ![n] = [v \in DOMAIN @ \cup {u} |-> IF v = u THEN S ELSE @[v]]]
    <2> DEFINE Put(x, m, T) ==
            [lastSync EXCEPT
                ![m] = [v \in DOMAIN @ \cup {x} |-> IF v = x THEN T ELSE @[v]]]
    <2>1. lastSync' = Put(user[w], node[w], ips[w])
        BY DEF Write
    <2>2. Put(user[w], node[w], ips[w]) = Put(u, n, S)
        <3> HIDE DEF Put
        <3> QED
            OBVIOUS
    <2> QED
        BY <2>1, <2>2
<1>t. u \in Users /\ n \in Nodes /\ before[w] \in SUBSET Ips
    BY <1>a DEF TypeOK
<1>3. \A v \in Workers : v # w => pc'[v] = pc[v]
    BY <1>1, <1>a DEF TypeOK
<1>4. pc[w] \in Setting /\ pc'[w] \notin Setting
    BY <1>1, <1>a DEF TypeOK, Setting
<1>5. \A v \in Workers : user[v] = u /\ pc[v] \in Setting => v = w
    BY <1>1, <1>a DEF Owner, InLock, Setting
<1>6. Held(u) = OfNode(n, before[w]) /\ Held(u)' = {}
    <2>1. \A x : x \in Held(u) <=> x \in OfNode(n, before[w])
        BY <1>4, <1>5, <1>t, HeldBy
    <2>2. \A x : x \notin Held(u)'
        BY <1>1, <1>3, <1>4, <1>5, <1>t, HeldByNext
    <2> QED
        BY <2>1, <2>2
<1>7. \A s \in allowed[u] : s[1] # n
    <2>1. {ip \in Ips : <<n, ip>> \in allowed[u]} = {}
        BY <1>4, <1>a DEF Mine, OwnIps
    <2>2. allowed[u] \subseteq Nodes \X Ips
        BY <1>a DEF TypeOK
    <2> QED
        BY <2>1, <2>2
<1>8. Without(Shown(u), n) = allowed[u]
    BY <1>6, <1>7 DEF Shown, Without, OfNode
<1>9. Shown(u)' = Without(Shown(u), n) \cup OfNode(n, K)
    <2>1. allowed'[u] = allowed[u] \cup OfNode(n, K)
        BY <1>1, <1>t, <1>a DEF TypeOK
    <2>2. Shown(u)' = allowed'[u] \cup Held(u)'
        BY <1>1 DEF Shown
    <2> QED
        BY <2>1, <2>2, <1>6, <1>8
<1>10. ASSUME NEW x \in Users \ {u}
       PROVE  Shown(x)' = Shown(x)
    <2>1. allowed'[x] = allowed[x]
        BY <1>1, <1>a DEF TypeOK
    <2>2. \A y : y \in Held(x)' <=> y \in Held(x)
        BY <1>1, <1>3, <1>4, HeldBy, HeldByNext
    <2> QED
        BY <2>1, <2>2 DEF Shown
<1>11. Slots!Give(u, n, K)
    BY <1>9, <1>10, <1>t, GiveShown
<1>12. Slots!Others(u, n) = allowed[u]
    BY <1>8, <1>t DEF Slots!Others, Without, Shown
<1>13. Slots!Own(u, n) \subseteq before[w]
    <2>1. Slots!Own(u, n) = {s[2] : s \in Shown(u) \ allowed[u]}
        BY <1>12, <1>t DEF Slots!Own, Slots!IpsIn, Shown
    <2> QED
        BY <2>1, <1>6 DEF Shown, OfNode
<1>14. /\ K \subseteq S
       /\ before[w] \cap S \subseteq K
       /\ DeviceLimit[u] = 0 => K = S
    BY <1>1, <1>a DEF Mine
<1>15. DeviceLimit[u] > 0 =>
           Cardinality(Slots!IpsIn(Slots!Others(u, n)) \cup K) <= DeviceLimit[u]
    BY <1>1, <1>12, <1>a DEF Room, AllowedIps, IpsOf, Slots!IpsIn
<1>17. Slots!Cardinality(Slots!IpsIn(Slots!Others(u, n)) \cup K)
           = Cardinality(Slots!IpsIn(Slots!Others(u, n)) \cup K)
    BY SameCardinality
<1>16. Slots!Own(u, n) \cap S \subseteq K
    BY <1>13, <1>14
<1>18. Slots!Report(u, n, S, K)
    BY <1>2, <1>11, <1>14, <1>15, <1>16, <1>17, Zenon DEF Slots!Report
<1> QED
    BY <1>14, <1>18

\* A worker that dies gives up what it holds.
LEMMA SimCrash ==
    ASSUME SlotsInv, ~LockMayExpire, NEW w \in Workers, Crash(w)
    PROVE  \/ \E n \in Nodes, u \in Users : Slots!Expire(u, n)
           \/ UNCHANGED SlotsVars
<1>a. TypeOK /\ Serial /\ Mine(w) /\ \A v \in Workers : Owner(v)
    BY DEF SlotsInv, LimitInv
<1>u. PICK u \in Users, n \in Nodes : u = user[w] /\ n = node[w]
    BY <1>a DEF TypeOK
<1> USE <1>u
<1>1. /\ pc' = [pc EXCEPT ![w] = "idle"]
      /\ before' = [before EXCEPT ![w] = {}]
      /\ UNCHANGED <<user, node, allowed>>
      /\ lastSync' = IF pc[w] \in Setting THEN Forgotten(user[w], node[w]) ELSE lastSync
    BY DEF Crash, Goto
<1>2. /\ \A v \in Workers : v # w => pc'[v] = pc[v] /\ before'[v] = before[v]
      /\ pc'[w] \notin Setting
    BY <1>1, <1>a DEF TypeOK, Setting
<1>3. CASE pc[w] \notin Setting
    <2>1. \A x \in Users : Held(x)' = Held(x)
        BY <1>1, <1>2, <1>3, HeldKeeps
    <2> QED
        BY <2>1, <1>1, <1>3, Stutter DEF Shown
<1>4. CASE pc[w] \in Setting
    <2>1. \A v \in Workers : user[v] = u /\ pc[v] \in Setting => v = w
        BY <1>4, <1>a DEF Owner, InLock, Setting
    <2>2. /\ \A x : x \in Held(u) <=> x \in OfNode(n, before[w])
          /\ \A x : x \notin Held(u)'
        BY <1>1, <1>2, <1>4, <2>1, HeldBy, HeldByNext
    <2>3. \A s \in allowed[u] : s[1] # n
        <3>1. {ip \in Ips : <<n, ip>> \in allowed[u]} = {}
            BY <1>4, <1>a DEF Mine, OwnIps
        <3>2. allowed[u] \subseteq Nodes \X Ips
            BY <1>a DEF TypeOK
        <3> QED
            BY <3>1, <3>2
    <2>4. Without(Shown(u), n) = allowed[u]
        BY <2>2, <2>3 DEF Shown, Without, OfNode
    <2>5. Shown(u)' = Without(Shown(u), n) \cup OfNode(n, {})
        BY <2>2, <2>4, <1>1 DEF Shown, OfNode
    <2>6. ASSUME NEW x \in Users \ {u}
          PROVE  Shown(x)' = Shown(x)
        <3>1. \A y : y \in Held(x)' <=> y \in Held(x)
            BY <1>1, <1>2, HeldBy, HeldByNext
        <3> QED
            BY <3>1, <1>1 DEF Shown
    <2>7. Slots!Give(u, n, {})
        BY <2>5, <2>6, GiveShown
    <2>8. lastSync' = Forgotten(u, n)
        BY <1>1, <1>4
    <2>9. Slots!Expire(u, n)
        BY <2>7, <2>8 DEF Slots!Expire, Forgotten
    <2> QED
        BY <2>9
<1> QED
    BY <1>3, <1>4

LEMMA SimLapse ==
    ASSUME SlotsInv, NEW u \in Users, NEW n \in Nodes, Lapse(u, n)
    PROVE  Slots!Expire(u, n)
<1>a. TypeOK
    BY DEF SlotsInv, LimitInv
<1>1. /\ allowed' = [allowed EXCEPT ![u] = Without(@, n)]
      /\ before' = [w \in Workers |->
                       IF user[w] = u /\ node[w] = n THEN {} ELSE before[w]]
      /\ lastSync' = Forgotten(u, n)
      /\ UNCHANGED <<pc, user, node>>
    BY DEF Lapse, call, locals
<1>2. /\ allowed'[u] = Without(allowed[u], n)
      /\ \A x \in Users \ {u} : allowed'[x] = allowed[x]
    BY <1>1, <1>a DEF TypeOK
<1>3. Held(u)' = Without(Held(u), n)
    <2>1. ASSUME NEW x
          PROVE  x \in Held(u)' <=> x \in Held(u) /\ x[1] # n
        <3>1. ASSUME NEW w \in Workers, user[w] = u
              PROVE  x \in OfNode(node'[w], before'[w])
                         <=> x \in OfNode(node[w], before[w]) /\ x[1] # n
            BY <1>1, <3>1 DEF OfNode
        <3> QED
            BY <3>1, <1>1, HeldBy, HeldByNext
    <2> QED
        BY <2>1 DEF Without
<1>4. Shown(u)' = Without(Shown(u), n) \cup OfNode(n, {})
    BY <1>2, <1>3 DEF Shown, Without, OfNode
<1>5. ASSUME NEW x \in Users \ {u}
      PROVE  Shown(x)' = Shown(x)
    <2>1. \A w \in Workers : user[w] = x => before'[w] = before[w]
        BY <1>1
    <2>2. \A y : y \in Held(x)' <=> y \in Held(x)
        BY <2>1, <1>1, HeldBy, HeldByNext
    <2> QED
        BY <2>2, <1>2 DEF Shown
<1>6. Slots!Give(u, n, {})
    BY <1>4, <1>5, GiveShown
<1> QED
    BY <1>1, <1>6 DEF Slots!Expire, Forgotten

LEMMA SimSend ==
    ASSUME SlotsInv, NEW w \in Workers, NEW n \in Nodes, NEW p \in Payloads,
           StartSync(w, n, p)
    PROVE  Slots!Send(n, p)
<1>a. TypeOK
    BY DEF SlotsInv, LimitInv
<1>1. /\ pc[w] = "idle" /\ pc' = [pc EXCEPT ![w] = "next"]
      /\ node' = [node EXCEPT ![w] = n]
      /\ lastSync' = [lastSync EXCEPT ![n] = p]
      /\ UNCHANGED <<allowed, user, before>>
    BY DEF StartSync, Goto, store, locals
<1>2. \A u \in Users : Held(u)' = Held(u)
    <2>1. \A v \in Workers :
              /\ pc'[v] \in Setting <=> pc[v] \in Setting
              /\ pc[v] \in Setting => node'[v] = node[v]
        BY <1>1, <1>a DEF TypeOK, Setting
    <2> QED
        BY <2>1, <1>1, HeldKeeps
<1>3. [u \in Users |-> allowed[u] \cup Held(u)]' = [u \in Users |-> allowed[u] \cup Held(u)]
    BY <1>1, <1>2
<1> QED
    BY <1>1, <1>3 DEF Slots!Send

\* The other commands of a worker do not show.
LEMMA SimQuiet ==
    ASSUME SlotsInv, NEW w \in Workers,
           \/ \E u \in Users : Acquire(w, u) \/ Skip(w, u)
           \/ DropReported(w) \/ Capture(w) \/ Unreport(w) \/ Report(w) \/ Limit(w)
           \/ QueuePush(w) \/ Count(w) \/ Save(w) \/ Release(w) \/ EndSync(w)
    PROVE  UNCHANGED SlotsVars
<1>a. TypeOK
    BY DEF SlotsInv, LimitInv
<1>1. UNCHANGED <<allowed, lastSync, node>>
    BY DEF Acquire, Skip, DropReported, Capture, Unreport, Report, Limit, QueuePush,
           Count, Save, Release, EndSync, store, call, history
<1>2. ASSUME NEW v \in Workers
      PROVE  /\ pc'[v] \in Setting <=> pc[v] \in Setting
             /\ pc[v] \in Setting => user'[v] = user[v] /\ before'[v] = before[v]
    <2>1. ASSUME NEW u \in Users, Acquire(w, u) \/ Skip(w, u)
          PROVE  /\ pc'[v] \in Setting <=> pc[v] \in Setting
                 /\ pc[v] \in Setting => user'[v] = user[v] /\ before'[v] = before[v]
        BY <2>1, <1>a DEF Acquire, Skip, locals, history, Goto, TypeOK, Setting
    <2>2. CASE \/ DropReported(w) \/ Capture(w) \/ Unreport(w) \/ Report(w) \/ Limit(w)
        <3>1. UNCHANGED <<user, before>>
            BY <2>2 DEF DropReported, Capture, Unreport, Report, Limit, locals, history
        <3>2. pc'[v] \in Setting <=> pc[v] \in Setting
            BY <2>2, <1>a DEF DropReported, Capture, Unreport, Report, Limit, Goto,
                              TypeOK, Setting
        <3> QED
            BY <3>1, <3>2
    <2>3. CASE QueuePush(w) \/ Count(w) \/ Save(w) \/ Release(w) \/ EndSync(w)
        BY <2>3, <1>a DEF QueuePush, Count, Save, Release, EndSync, locals, history,
                          Goto, TypeOK, Setting
    <2> QED
        BY <2>1, <2>2, <2>3
<1>3. \A u \in Users : Held(u)' = Held(u)
    BY <1>1, <1>2, HeldKeeps
<1> QED
    BY <1>1, <1>3, Stutter DEF Shown

LEMMA SimStep ==
    ASSUME SlotsInv, ~LockMayExpire, SerialNodes, [Next]_vars
    PROVE  [Slots!Next]_SlotsVars
<1>1. ASSUME NEW w \in Workers, NEW n \in Nodes, NEW p \in Payloads,
             StartSync(w, n, p)
      PROVE  Slots!Next
    <2>1. p \in Slots!Reports
        BY DEF Slots!Reports, Payloads
    <2> QED
        BY <1>1, <2>1, SimSend DEF Slots!Next
<1>2. ASSUME NEW w \in Workers, NEW u \in Users, DropMissing(w, u)
      PROVE  Slots!Next
    <2>1. node[w] \in Nodes
        BY DEF SlotsInv, LimitInv, TypeOK
    <2> QED
        BY <1>2, <2>1, SimDrop DEF Slots!Next
<1>3. ASSUME NEW w \in Workers, Clear(w)
      PROVE  UNCHANGED SlotsVars
    BY <1>3, SimClear
<1>4. ASSUME NEW w \in Workers, Write(w)
      PROVE  Slots!Next
    BY <1>4, SimWrite DEF Slots!Next
<1>5. ASSUME NEW w \in Workers, WorkerStep(w)
      PROVE  Slots!Next \/ UNCHANGED SlotsVars
    BY <1>2, <1>3, <1>4, <1>5, SimQuiet DEF WorkerStep
<1>6. ASSUME NEW w \in Workers, Crash(w)
      PROVE  Slots!Next \/ UNCHANGED SlotsVars
    BY <1>6, SimCrash DEF Slots!Next
<1>7. ASSUME NEW u \in Users, NEW n \in Nodes, Lapse(u, n)
      PROVE  Slots!Next
    BY <1>7, SimLapse DEF Slots!Next
<1>8. ASSUME UNCHANGED <<allowed, lastSync, pc, user, node, before>>
      PROVE  UNCHANGED SlotsVars
    <2>1. \A u \in Users : Held(u)' = Held(u)
        BY <1>8, HeldKeeps
    <2> QED
        BY <2>1, <1>8, Stutter DEF Shown
<1>9. ASSUME NEW u \in Users, LockExpires(u) \/ StartRead(u) \/ FinishRead(u)
      PROVE  UNCHANGED SlotsVars
    BY <1>8, <1>9 DEF LockExpires, StartRead, FinishRead, store, call, locals, history
<1>10. ASSUME NEW n \in Nodes, SendPush(n)
       PROVE  UNCHANGED SlotsVars
    BY <1>8, <1>10 DEF SendPush, call, locals, history
<1>11. CASE UNCHANGED vars
    BY <1>8, <1>11 DEF vars, store, call, locals, history
<1> QED
    BY <1>1, <1>5, <1>6, <1>7, <1>9, <1>10, <1>11 DEF Next

LEMMA SimInit ==
    ASSUME Init
    PROVE  Slots!Init
<1>1. \A u \in Users : allowed[u] \cup Held(u) = {}
    BY DEF Init, Held, Setting
<1> QED
    BY <1>1 DEF Init, Slots!Init, NoPayload

\* While locks outlive their calls and a node has one report under way at a time,
\* the commands of the reports, of workers that interleave and die and with the
\* TTL passing, act as the steps of DeviceSlots: a report takes its effect at once,
\* keeps the limit, serves first who came first and takes nothing from the others.
THEOREM StoreImplementsSlots ==
    ASSUME ~LockMayExpire, SerialNodes
    PROVE  Spec => ReportsActAtOnce
<1>1. Init => SlotsInv /\ Slots!Init
    BY SlotsInit, SimInit
<1>2. SlotsInv /\ [Next]_vars => SlotsInv' /\ [Slots!Next]_SlotsVars
    BY SlotsInvStep, SimStep
<1> QED
    BY <1>1, <1>2, PTL DEF Spec, ReportsActAtOnce, Slots!Spec, SlotsVars
\* A worker leaves the writing stage for the next one by writing.
LEMMA OnlyWrite ==
    ASSUME TypeOK, Next, NEW v \in Workers, pc[v] = "write", pc'[v] = "queue"
    PROVE  Write(v)
<1> USE DEF TypeOK, Goto
<1>1. ASSUME NEW w \in Workers, NEW n \in Nodes, NEW p \in Payloads,
             StartSync(w, n, p)
      PROVE  FALSE
    BY <1>1 DEF StartSync
<1>2. ASSUME NEW w \in Workers, NEW u \in Users,
             DropMissing(w, u) \/ Acquire(w, u) \/ Skip(w, u)
      PROVE  FALSE
    BY <1>2 DEF DropMissing, Acquire, Skip
<1>3. ASSUME NEW w \in Workers,
             \/ DropReported(w) \/ Capture(w) \/ Clear(w) \/ Unreport(w) \/ Report(w)
             \/ QueuePush(w) \/ Count(w) \/ Release(w) \/ EndSync(w) \/ Crash(w)
      PROVE  FALSE
    BY <1>3 DEF DropReported, Capture, Clear, Unreport, Report, QueuePush, Count,
                Release, EndSync, Crash
<1>4. ASSUME NEW w \in Workers, Limit(w) PROVE FALSE
    <2>1. pc[w] = "limit" /\ pc' = [pc EXCEPT ![w] = "write"]
        BY <1>4 DEF Limit
    <2> QED
        BY <2>1
<1>5. ASSUME NEW w \in Workers, Save(w) PROVE FALSE
    <2>1. PICK stage \in {"release", "next"} :
              pc[w] = "save" /\ pc' = [pc EXCEPT ![w] = stage]
        BY <1>5 DEF Save
    <2> QED
        BY <2>1
<1>6. ASSUME NEW w \in Workers, Write(w), w # v PROVE FALSE
    <2>1. pc' = [pc EXCEPT ![w] = "queue"]
        BY <1>6 DEF Write
    <2> QED
        BY <1>6, <2>1
<1>7. ASSUME NEW u \in Users,
             \/ LockExpires(u) \/ StartRead(u) \/ FinishRead(u)
             \/ \E n \in Nodes : Lapse(u, n)
      PROVE  FALSE
    BY <1>7 DEF LockExpires, StartRead, FinishRead, Lapse
<1>8. ASSUME NEW n \in Nodes, SendPush(n) PROVE FALSE
    BY <1>8 DEF SendPush
<1> QED
    BY <1>1, <1>2, <1>3, <1>4, <1>5, <1>6, <1>7, <1>8 DEF Next, WorkerStep

\* First come, first served, for any number of workers, nodes and devices: with
\* such locks, a device that was allowed for a node when its call got the lock, and
\* that the node reports again, is written again.
THEOREM WinnersCorrect ==
    ASSUME ~LockMayExpire, SerialNodes
    PROVE  Spec => WinnersStay
<1> DEFINE Kept == \A w \in Workers :
                      pc[w] = "write" /\ pc'[w] = "queue" =>
                          \A ip \in before[w] \cap ips[w] :
                              <<node[w], ip>> \in allowed'[user[w]]
<1>1. Init => SlotsInv
    BY SlotsInit
<1>2. SlotsInv /\ [Next]_vars => SlotsInv'
    BY SlotsInvStep
<1>3. ASSUME SlotsInv, Next PROVE Kept
    <2>1. TypeOK /\ \A w \in Workers : Mine(w)
        BY <1>3 DEF SlotsInv, LimitInv
    <2>2. ASSUME NEW w \in Workers, pc[w] = "write", pc'[w] = "queue",
                 NEW ip \in before[w] \cap ips[w]
          PROVE  <<node[w], ip>> \in allowed'[user[w]]
        <3>1. Write(w)
            BY <1>3, <2>1, <2>2, OnlyWrite
        <3>2. ip \in kept[w]
            BY <2>1, <2>2 DEF Mine
        <3>3. /\ allowed' = [allowed EXCEPT ![user[w]] = @ \cup OfNode(node[w], kept[w])]
              /\ user[w] \in Users /\ DOMAIN allowed = Users
            BY <2>1, <3>1 DEF Write, TypeOK
        <3>4. <<node[w], ip>> \in OfNode(node[w], kept[w])
            BY <3>2 DEF OfNode
        <3> QED
            BY <3>3, <3>4
    <2> QED
        BY <2>2
<1>4. SlotsInv /\ [Next]_vars => [Kept]_vars
    BY <1>3
<1> HIDE DEF Kept
<1>5. Spec => [][Kept]_vars
    BY <1>1, <1>2, <1>4, PTL DEF Spec
<1> QED
    BY <1>5 DEF WinnersStay, Kept

-----------------------------------------------------------------------------
(* What a reader sees *)

\* What a worker is about to allow is reported, and what it is about to take off
\* the reported ones is no longer allowed.
Backed(w) ==
    /\ pc[w] \in {"limit", "write"} => OfNode(node[w], ips[w]) \subseteq reported[user[w]]
    /\ pc[w] = "drop" => OwnIps(w) = {}

\* Whatever is allowed is reported, by the same node.
AllowedReported == \A u \in Users : allowed[u] \subseteq reported[u]

ReadInv == SlotsInv /\ AllowedReported /\ \A w \in Workers : Backed(w)

LEMMA ReadInit == Init => ReadInv
BY SlotsInit DEF Init, ReadInv, AllowedReported, Backed

\* A step that leaves a worker where it is, takes nothing of its report off the
\* reported devices and allows its node nothing.
LEMMA BackedKeeps ==
    ASSUME TypeOK, NEW w \in Workers, Backed(w),
           pc'[w] = pc[w], user'[w] = user[w], node'[w] = node[w], ips'[w] = ips[w],
           pc[w] \in {"limit", "write"} =>
               \A ip \in Ips : <<node[w], ip>> \in reported[user[w]]
                                   => <<node[w], ip>> \in reported'[user[w]],
           pc[w] = "drop" =>
               \A ip \in Ips : <<node[w], ip>> \in allowed'[user[w]]
                                   => <<node[w], ip>> \in allowed[user[w]]
    PROVE  Backed(w)'
<1>1. CASE pc[w] \in {"limit", "write"}
    BY <1>1 DEF Backed, OfNode, TypeOK
<1>2. CASE pc[w] = "drop"
    BY <1>2 DEF Backed, OwnIps
<1>3. CASE pc[w] \notin {"limit", "write", "drop"}
    BY <1>3 DEF Backed
<1> QED
    BY <1>1, <1>2, <1>3

\* The steps that write one of the hashes.
LEMMA ReadWorker ==
    ASSUME ReadInv, NEW v \in Workers,
           \/ \E u \in Users : DropMissing(v, u)
           \/ DropReported(v) \/ Clear(v) \/ Unreport(v) \/ Report(v) \/ Write(v)
    PROVE  AllowedReported' /\ \A w \in Workers : Backed(w)'
<1>1. /\ TypeOK /\ Serial /\ AllowedReported
      /\ \A w \in Workers : Mine(w) /\ Backed(w)
    BY DEF ReadInv, SlotsInv, LimitInv
<1>2. ASSUME NEW w \in Workers, w # v, pc[w] # "idle"
      PROVE  node[w] # node[v]
    BY <1>1, <1>2 DEF Serial, DropMissing, DropReported, Clear, Unreport, Report, Write
<1>3. ASSUME NEW w \in Workers, w # v,
             \A u \in Users, ip \in Ips, n \in Nodes \ {node[v]} :
                 /\ <<n, ip>> \in reported[u] => <<n, ip>> \in reported'[u]
                 /\ <<n, ip>> \in allowed'[u] => <<n, ip>> \in allowed[u]
      PROVE  Backed(w)'
    <2>1. /\ pc'[w] = pc[w] /\ user'[w] = user[w] /\ node'[w] = node[w] /\ ips'[w] = ips[w]
        BY <1>1, <1>3 DEF TypeOK, Goto, DropMissing, DropReported, Clear, Unreport, Report,
                          Write, call, locals
    <2>2. user[w] \in Users /\ node[w] \in Nodes
        BY <1>1 DEF TypeOK
    <2>3. pc[w] \in {"limit", "write", "drop"} => node[w] \in Nodes \ {node[v]}
        BY <1>2, <1>3, <2>2
    <2> QED
        BY <1>1, <1>3, <2>1, <2>2, <2>3, BackedKeeps
<1> USE DEF TypeOK, Goto
<1>4. ASSUME NEW u \in Users, DropMissing(v, u)
      PROVE  AllowedReported' /\ \A w \in Workers : Backed(w)'
    <2>1. /\ allowed' = [allowed EXCEPT ![u] = Without(@, node[v])]
          /\ reported' = reported /\ user' = [user EXCEPT ![v] = u]
          /\ pc' = [pc EXCEPT ![v] = "drop"] /\ node' = node
        BY <1>4 DEF DropMissing
    <2>2. AllowedReported'
        BY <1>1, <2>1 DEF AllowedReported, Without
    <2>3. Backed(v)'
        BY <1>1, <2>1 DEF Backed, OwnIps, Without
    <2>4. \A w \in Workers \ {v} : Backed(w)'
        BY <1>1, <1>3, <2>1 DEF Without
    <2> QED
        BY <2>2, <2>3, <2>4
<1>5. CASE DropReported(v) \/ Unreport(v)
    <2>1. /\ allowed' = allowed
          /\ reported' = [reported EXCEPT ![user[v]] = Without(@, node[v])]
          /\ pc[v] = "drop" \/ pc[v] = "unreport"
          /\ pc' = [pc EXCEPT ![v] = "count"] \/ pc' = [pc EXCEPT ![v] = "report"]
        BY <1>5 DEF DropReported, Unreport
    <2>2. OwnIps(v) = {}
        BY <1>1, <2>1 DEF Backed, Mine, Setting
    <2>3. AllowedReported'
        BY <1>1, <2>1, <2>2 DEF AllowedReported, Without, OwnIps
    <2>4. Backed(v)'
        BY <1>1, <2>1 DEF Backed
    <2>5. \A w \in Workers \ {v} : Backed(w)'
        BY <1>1, <1>3, <2>1 DEF Without
    <2> QED
        BY <2>3, <2>4, <2>5
<1>6. CASE Clear(v)
    <2>1. /\ allowed' = [allowed EXCEPT ![user[v]] = Without(@, node[v])]
          /\ reported' = reported /\ pc' = [pc EXCEPT ![v] = "unreport"]
        BY <1>6 DEF Clear
    <2>2. AllowedReported'
        BY <1>1, <2>1 DEF AllowedReported, Without
    <2>3. Backed(v)'
        BY <1>1, <2>1 DEF Backed
    <2>4. \A w \in Workers \ {v} : Backed(w)'
        BY <1>1, <1>3, <2>1 DEF Without
    <2> QED
        BY <2>2, <2>3, <2>4
<1>7. CASE Report(v)
    <2>1. /\ allowed' = allowed /\ pc' = [pc EXCEPT ![v] = "limit"]
          /\ reported' = [reported EXCEPT ![user[v]] = @ \cup OfNode(node[v], ips[v])]
          /\ node' = node /\ user' = user /\ ips' = ips
        BY <1>7 DEF Report, call, locals
    <2>2. AllowedReported'
        BY <1>1, <2>1 DEF AllowedReported
    <2>3. Backed(v)'
        BY <1>1, <2>1 DEF Backed
    <2>4. \A w \in Workers \ {v} : Backed(w)'
        BY <1>1, <1>3, <2>1
    <2> QED
        BY <2>2, <2>3, <2>4
<1>8. CASE Write(v)
    <2>1. /\ allowed' = [allowed EXCEPT ![user[v]] = @ \cup OfNode(node[v], kept[v])]
          /\ reported' = reported /\ pc[v] = "write" /\ pc' = [pc EXCEPT ![v] = "queue"]
        BY <1>8 DEF Write
    <2>2. OfNode(node[v], kept[v]) \subseteq reported[user[v]]
        BY <1>1, <2>1 DEF Backed, Mine, OfNode
    <2>3. AllowedReported'
        BY <1>1, <2>1, <2>2 DEF AllowedReported
    <2>4. Backed(v)'
        BY <1>1, <2>1 DEF Backed
    <2>5. \A w \in Workers \ {v} : Backed(w)'
        BY <1>1, <1>3, <2>1 DEF OfNode
    <2> QED
        BY <2>3, <2>4, <2>5
<1> QED
    BY <1>4, <1>5, <1>6, <1>7, <1>8

\* The steps of a worker that write neither.
LEMMA ReadIdle ==
    ASSUME ReadInv, NEW v \in Workers,
           \/ \E n \in Nodes, p \in Payloads : StartSync(v, n, p)
           \/ \E u \in Users : Acquire(v, u) \/ Skip(v, u)
           \/ Capture(v) \/ Limit(v) \/ QueuePush(v) \/ Count(v) \/ Save(v) \/ Release(v)
           \/ EndSync(v) \/ Crash(v)
    PROVE  AllowedReported' /\ \A w \in Workers : Backed(w)'
<1>1. TypeOK /\ AllowedReported /\ \A w \in Workers : Backed(w)
    BY DEF ReadInv, SlotsInv, LimitInv
<1>2. allowed' = allowed /\ reported' = reported
    BY DEF StartSync, Acquire, Skip, Capture, Limit, QueuePush, Count, Save, Release,
           EndSync, Crash, store
<1>3. AllowedReported'
    BY <1>1, <1>2 DEF AllowedReported
<1>4. ASSUME NEW w \in Workers \ {v} PROVE Backed(w)'
    <2>1. pc'[w] = pc[w] /\ user'[w] = user[w] /\ node'[w] = node[w] /\ ips'[w] = ips[w]
        <3>1. CASE \E n \in Nodes, p \in Payloads : StartSync(v, n, p)
            BY <1>1, <3>1 DEF TypeOK, Goto, StartSync, locals
        <3>2. CASE \E u \in Users : Acquire(v, u) \/ Skip(v, u)
            BY <1>1, <3>2 DEF TypeOK, Goto, Acquire, Skip, locals
        <3>3. CASE \/ Capture(v) \/ Limit(v) \/ QueuePush(v) \/ Count(v) \/ Save(v)
                   \/ Release(v) \/ EndSync(v) \/ Crash(v)
            <4>1. node' = node /\ user' = user /\ ips'[w] = ips[w]
                BY <1>1, <3>3 DEF TypeOK, Capture, Limit, QueuePush, Count, Save, Release,
                                  EndSync, Crash, call, locals
            <4>2. pc'[w] = pc[w]
                BY <1>1, <3>3 DEF TypeOK, Goto, Capture, Limit, QueuePush, Count, Save,
                                  Release, EndSync, Crash
            <4> QED
                BY <4>1, <4>2
        <3> QED
            BY <3>1, <3>2, <3>3
    <2> QED
        BY <1>1, <1>2, <2>1, BackedKeeps
<1>5. CASE Limit(v)
    <2>1. /\ pc[v] = "limit" /\ pc' = [pc EXCEPT ![v] = "write"]
          /\ node' = node /\ user' = user /\ ips' = ips
        BY <1>5 DEF Limit, call, Goto
    <2>2. Backed(v)'
        BY <1>1, <1>2, <2>1 DEF Backed, TypeOK
    <2> QED
        BY <1>3, <1>4, <2>2
<1>6. CASE \E u \in Users : Skip(v, u)
    <2>1. pc' = pc /\ user' = user /\ node' = node /\ ips' = ips
        BY <1>6 DEF Skip, locals
    <2> QED
        BY <1>1, <1>2, <1>3, <1>4, <2>1 DEF Backed, OwnIps
<1>7. CASE ~Limit(v) /\ ~\E u \in Users : Skip(v, u)
    <2>1. pc'[v] \in {"idle", "next", "capture", "clear", "count", "save", "release"}
        BY <1>1, <1>7 DEF TypeOK, Goto, StartSync, Acquire, Capture, QueuePush, Count, Save,
                          Release, EndSync, Crash
    <2>2. Backed(v)'
        BY <2>1 DEF Backed
    <2> QED
        BY <1>3, <1>4, <2>2
<1> QED
    BY <1>5, <1>6, <1>7

\* What happens from outside: only the TTL takes devices away, of both hashes.
LEMMA ReadOutside ==
    ASSUME ReadInv,
           \/ \E u \in Users : \/ LockExpires(u) \/ StartRead(u) \/ FinishRead(u)
                               \/ \E n \in Nodes : Lapse(u, n)
           \/ \E n \in Nodes : SendPush(n)
           \/ UNCHANGED vars
    PROVE  AllowedReported' /\ \A w \in Workers : Backed(w)'
<1>1. TypeOK /\ AllowedReported /\ \A w \in Workers : Backed(w)
    BY DEF ReadInv, SlotsInv, LimitInv
<1>2. pc' = pc /\ user' = user /\ node' = node /\ ips' = ips
    BY DEF LockExpires, StartRead, FinishRead, Lapse, SendPush, vars, call, locals
<1>3. CASE allowed' = allowed /\ reported' = reported
    BY <1>1, <1>2, <1>3, BackedKeeps DEF AllowedReported
<1>4. ASSUME NEW u \in Users, NEW n \in Nodes, Lapse(u, n)
      PROVE  AllowedReported' /\ \A w \in Workers : Backed(w)'
    <2>1. /\ allowed' = [allowed EXCEPT ![u] = Without(@, n)]
          /\ reported' = [reported EXCEPT ![u] = Without(@, n)]
          /\ \A w \in Workers :
                 pc[w] \in {"limit", "write"} => user[w] # u \/ node[w] # n
        BY <1>4 DEF Lapse
    <2>2. AllowedReported'
        BY <1>1, <2>1 DEF AllowedReported, Without, TypeOK
    <2>3. ASSUME NEW w \in Workers PROVE Backed(w)'
        <3>1. /\ user[w] \in Users /\ allowed \in [Users -> SUBSET (Nodes \X Ips)]
              /\ reported \in [Users -> SUBSET (Nodes \X Ips)]
            BY <1>1 DEF TypeOK
        <3>2. /\ pc[w] \in {"limit", "write"} =>
                    \A ip \in Ips : <<node[w], ip>> \in reported[user[w]]
                                        => <<node[w], ip>> \in reported'[user[w]]
              /\ \A ip \in Ips : <<node[w], ip>> \in allowed'[user[w]]
                                     => <<node[w], ip>> \in allowed[user[w]]
            BY <2>1, <3>1 DEF Without
        <3> QED
            BY <1>1, <1>2, <3>2, BackedKeeps
    <2> QED
        BY <2>2, <2>3
<1>5. (\E u \in Users, n \in Nodes : Lapse(u, n)) \/ (allowed' = allowed /\ reported' = reported)
    BY DEF LockExpires, StartRead, FinishRead, SendPush, vars, store
<1> QED
    BY <1>3, <1>4, <1>5

LEMMA ReadStep ==
    ASSUME ReadInv, ~LockMayExpire, SerialNodes, [Next]_vars
    PROVE  ReadInv'
<1>1. SlotsInv'
    BY SlotsInvStep DEF ReadInv
<1>2. AllowedReported' /\ \A w \in Workers : Backed(w)'
    BY ReadWorker, ReadIdle, ReadOutside DEF Next, WorkerStep
<1> QED
    BY <1>1, <1>2 DEF ReadInv

\* Devices that are all preferred, reported and within the limit are all kept.
LEMMA LimitDevicesAll ==
    ASSUME NEW limit \in Nat, limit > 0, NEW A \in SUBSET Ips,
           Cardinality(A) <= limit, NEW alive, A \subseteq alive
    PROVE  LimitDevices(limit, A, A, alive) = {A}
<1>1. ASSUME NEW K \in LimitDevices(limit, A, A, alive) PROVE K = A
    <2>1. K \subseteq A /\ A \cap A \subseteq K
        BY LimitDevicesFits
    <2> QED
        BY <2>1
<1>2. A \in LimitDevices(limit, A, A, alive)
    <2> DEFINE Choices(winners) ==
                   {A \cap (winners \cup extra) :
                       extra \in FirstOf(limit - Cardinality(winners),
                                         (A \cap alive) \ winners)}
    <2>1. A \in FirstOf(limit, A)
        BY DEF FirstOf
    <2>2. A \in Choices(A)
        <3>1. (A \cap alive) \ A = {}
            OBVIOUS
        <3>2. Cardinality(A) \in Nat
            BY IpsFinite
        <3>3. Cardinality({}) <= limit - Cardinality(A)
            BY <3>2, FS_EmptySet
        <3>4. {} \in FirstOf(limit - Cardinality(A), (A \cap alive) \ A)
            BY <3>1, <3>3 DEF FirstOf
        <3>5. A = A \cap (A \cup {})
            OBVIOUS
        <3> QED
            BY <3>4, <3>5
    <2>3. limit # 0
        OBVIOUS
    <2>4. LimitDevices(limit, A, A, alive)
              = UNION {Choices(winners) : winners \in FirstOf(limit, A)}
        BY <2>3, Zenon DEF LimitDevices
    <2> HIDE DEF Choices
    <2> QED
        BY <2>1, <2>2, <2>4
<1> QED
    BY <1>1, <1>2

\* A reader filters nothing out of devices that are all reported and within the
\* limit.
LEMMA SnapshotAgrees ==
    ASSUME TypeOK, AllowedWithinLimit, AllowedReported, NEW u \in Users
    PROVE  Snapshots(u, AllowedIps(u)) = {AllowedIps(u)}
<1>1. AllowedIps(u) \subseteq ReportedIps(u)
    BY DEF AllowedReported, AllowedIps, ReportedIps, IpsOf
<1>2. AllowedIps(u) \cap ReportedIps(u) = AllowedIps(u)
    BY <1>1
<1>3. AllowedIps(u) \in SUBSET Ips /\ DeviceLimit[u] \in Nat
    BY DeviceIps, DeviceStateAssumption
<1>4. CASE DeviceLimit[u] = 0
    BY <1>4 DEF Snapshots, LimitDevices
<1>5. CASE DeviceLimit[u] > 0
    BY <1>1, <1>2, <1>3, <1>5, LimitDevicesAll DEF Snapshots, AllowedWithinLimit
<1> QED
    BY <1>3, <1>4, <1>5

\* A reader of the whitelists whose commands no other comes between tells the nodes
\* exactly what is allowed, for any number of nodes, workers and devices and at any
\* command of any call, while locks outlive their calls and a node has one report
\* under way: the two hashes, written by different commands, always agree.
THEOREM ReadersCorrect ==
    ASSUME ~LockMayExpire, SerialNodes
    PROVE  Spec => []ReadersAgree
<1>1. Init => ReadInv
    BY ReadInit
<1>2. ReadInv /\ [Next]_vars => ReadInv'
    BY ReadStep
<1>3. ReadInv => ReadersAgree
    BY SnapshotAgrees DEF ReadInv, SlotsInv, LimitInv, ReadersAgree
<1> QED
    BY <1>1, <1>2, <1>3, PTL DEF Spec
=============================================================================
