---------------------------- MODULE ConnTracker ----------------------------
(***************************************************************************)
(* The connection tracker of the sing-box kernel                           *)
(* (src/src/node/internal/kernel/singbox/conntracker.go): the device gate  *)
(* every new connection passes, the reference counts of the devices a user *)
(* is connected from, the table of connections that can be force-closed,   *)
(* and the sweeps that close what the panel's whitelist, or the removal of *)
(* a user, no longer allows.                                               *)
(*                                                                         *)
(* One handler goroutine runs RoutedConnection (TCP) or                    *)
(* RoutedPacketConnection (UDP) per connection.  Each of its critical      *)
(* sections is one action, because nothing is held between two of them.    *)
(* One control goroutine runs the sweeps: its callers hold SingBox.mu.     *)
(***************************************************************************)
EXTENDS Integers, FiniteSets

CONSTANTS
    Conns,       \* connections that arrive during a behaviour
    Users,       \* user ids
    Uuids,       \* credentials: several may belong to one user
    Devices,     \* source addresses, the key devices are counted under
    NoUser,      \* the id 0 that a failed lookup in uuidMap yields
    UuidOf,      \* the credential a connection was authenticated with
    DevOf,       \* the source address of a connection
    UserMaps,    \* the uuid -> user maps the kernel installs
    LimitMaps,   \* the device limits the limiter holds, 0 for "no limit"
    Pushes,      \* the whitelists the panel sends
    MaxHandlers  \* bound: handlers that run at the same time

Whitelists == UNION {[S -> SUBSET Devices] : S \in SUBSET Users}

ASSUME ConnTrackerAssumption ==
    /\ IsFiniteSet(Conns)
    /\ NoUser \notin Users
    /\ UuidOf \in [Conns -> Uuids]
    /\ DevOf \in [Conns -> Devices]
    /\ UserMaps \subseteq [Uuids -> Users \cup {NoUser}]
    /\ LimitMaps \subseteq [Uuids -> Nat]
    /\ Pushes \subseteq Whitelists
    /\ MaxHandlers \in Nat \ {0}

VARIABLES
    uuidMap,        \* ConnTracker.uuidMap
    deviceLimit,    \* what deviceLimitFunc answers for a uuid
    refs,           \* userStats.devices: user -> device -> open connections
    connMap,        \* the connections ConnTracker.connMap can force-close
    globalDevices,  \* ConnTracker.globalDevices, the whitelist in force
    globalFresh,    \* globalLastUpdate is at most 60 seconds old
    pc,             \* how far the handler of each connection has got
    uid,            \* its local variable uid
    limit,          \* its local variable limit
    local,          \* the copy checkDeviceGate took of the user's devices
    sweep,          \* the control goroutine: phase and connections to close
    gatedNow,       \* history: connections let through since the last push
    escaped         \* history: handlers past the gate when a sweep scanned

handler == <<pc, uid, limit, local>>
whitelist == <<globalDevices, globalFresh>>
history == <<gatedNow, escaped>>
vars == <<uuidMap, deviceLimit, refs, connMap, whitelist, handler, sweep, history>>

-----------------------------------------------------------------------------

(***************************************************************************)
(* A handler goes through "lookup" .. "register"; the wrapped connection   *)
(* it returns is "open" until the first Close, "unref" until that Close    *)
(* has removed its entry of connMap, then "closed".                        *)
(***************************************************************************)
Running == {"lookup", "limit", "snapshot", "gate", "add", "register"}
Counted == {"register", "open"}
Stages  == Running \cup {"none", "open", "unref", "closed", "rejected"}

TypeOK ==
    /\ uuidMap \in [Uuids -> Users \cup {NoUser}]
    /\ deviceLimit \in [Uuids -> Nat]
    /\ refs \in [Users -> [Devices -> Nat]]
    /\ connMap \in SUBSET Conns
    /\ globalDevices \in Whitelists
    /\ globalFresh \in BOOLEAN
    /\ pc \in [Conns -> Stages]
    /\ uid \in [Conns -> Users \cup {NoUser}]
    /\ limit \in [Conns -> Nat]
    /\ local \in [Conns -> SUBSET Devices]
    /\ sweep \in [phase : {"idle", "scan", "close"}, pending : SUBSET Conns]
    /\ gatedNow \in SUBSET Conns
    /\ escaped \in SUBSET Conns

LocalDevices(u) == {d \in Devices : refs[u][d] > 0}

\* The tracker of a fresh kernel: no connection, no whitelist, a zero
\* globalLastUpdate, which is older than a minute.
Init ==
    /\ uuidMap \in UserMaps
    /\ deviceLimit \in LimitMaps
    /\ refs = [u \in Users |-> [d \in Devices |-> 0]]
    /\ connMap = {}
    /\ globalDevices = [u \in {} |-> {}]
    /\ globalFresh = FALSE
    /\ pc = [c \in Conns |-> "none"]
    /\ uid = [c \in Conns |-> NoUser]
    /\ limit = [c \in Conns |-> 0]
    /\ local = [c \in Conns |-> {}]
    /\ sweep = [phase |-> "idle", pending |-> {}]
    /\ gatedNow = {}
    /\ escaped = {}

-----------------------------------------------------------------------------
(* The handler of a connection *)

\* The inbound has authenticated the connection and calls the tracker.
Accept(c) ==
    /\ pc[c] = "none"
    /\ Cardinality({x \in Conns : pc[x] \in Running}) < MaxHandlers
    /\ pc' = [pc EXCEPT ![c] = "lookup"]
    /\ UNCHANGED <<uid, limit, local, uuidMap, deviceLimit, refs, connMap,
                   whitelist, sweep, history>>

\* uid := uuidMap[uuid]; us := users[uid].  SetUserMap gives every mapped
\* user its userStats and none is ever deleted: us is nil exactly for NoUser.
Lookup(c) ==
    /\ pc[c] = "lookup"
    /\ pc' = [pc EXCEPT ![c] = "limit"]
    /\ uid' = [uid EXCEPT ![c] = uuidMap[UuidOf[c]]]
    /\ UNCHANGED <<limit, local, uuidMap, deviceLimit, refs, connMap,
                   whitelist, sweep, history>>

\* The limit of the credential is read under the limiter's lock.  A connection
\* without a limit, or without a user, is not gated.
LoadLimit(c) ==
    LET l == deviceLimit[UuidOf[c]]
    IN  /\ pc[c] = "limit"
        /\ UNCHANGED <<uid, local, uuidMap, deviceLimit, refs, connMap,
                       whitelist, sweep, escaped>>
        /\ \/ /\ uid[c] # NoUser /\ l > 0
              /\ pc' = [pc EXCEPT ![c] = "snapshot"]
              /\ limit' = [limit EXCEPT ![c] = l]
              /\ UNCHANGED gatedNow
           \/ /\ uid[c] = NoUser \/ l = 0
              /\ pc' = [pc EXCEPT ![c] = "add"]
              /\ gatedNow' = gatedNow \cup {c}
              /\ UNCHANGED limit

\* checkDeviceGate copies the devices of the user under userStats.mu.
CopyLocal(c) ==
    /\ pc[c] = "snapshot"
    /\ pc' = [pc EXCEPT ![c] = "gate"]
    /\ local' = [local EXCEPT ![c] = LocalDevices(uid[c])]
    /\ UNCHANGED <<uid, limit, uuidMap, deviceLimit, refs, connMap, whitelist,
                   sweep, history>>

\* MUTANT: a gate that compares with <= lets one device too many in.
LocalOnlyAdmitsOneMore(c) ==
    \/ DevOf[c] \in local[c]
    \/ Cardinality(local[c]) <= limit[c]

\* checkDeviceGate: what the copy of the devices and the whitelist decide.
LocalOnlyAdmits(c) ==
    \/ DevOf[c] \in local[c]
    \/ Cardinality(local[c]) < limit[c]

WhitelistAdmits(c, allowed) ==
    LET merged == allowed \cup local[c]
    IN  \/ DevOf[c] \in allowed
        \/ /\ Cardinality(allowed) < limit[c]
           /\ DevOf[c] \in merged \/ Cardinality(merged) < limit[c]

Admits(c) ==
    IF globalFresh /\ uid[c] \in DOMAIN globalDevices
    THEN WhitelistAdmits(c, globalDevices[uid[c]])
    ELSE LocalOnlyAdmits(c)

\* The whitelist is read under globalMu; the decision uses the older copy
\* of the local devices.
Gate(c) ==
    /\ pc[c] = "gate"
    /\ pc' = [pc EXCEPT ![c] = IF Admits(c) THEN "add" ELSE "rejected"]
    /\ limit' = [limit EXCEPT ![c] = 0]
    /\ local' = [local EXCEPT ![c] = {}]
    /\ gatedNow' = gatedNow \cup {c}
    /\ UNCHANGED <<uid, uuidMap, deviceLimit, refs, connMap, whitelist, sweep,
                   escaped>>

\* userStats.addConn, skipped for a nil us.
AddConn(c) ==
    /\ pc[c] = "add"
    /\ pc' = [pc EXCEPT ![c] = "register"]
    /\ refs' = IF uid[c] = NoUser THEN refs
               ELSE [refs EXCEPT ![uid[c]][DevOf[c]] = @ + 1]
    /\ UNCHANGED <<uid, limit, local, uuidMap, deviceLimit, connMap, whitelist,
                   sweep, history>>

\* connMap[connID] = ref under usersMu, then the wrapper is returned.
Register(c) ==
    /\ pc[c] = "register"
    /\ pc' = [pc EXCEPT ![c] = "open"]
    /\ connMap' = connMap \cup {c}
    /\ UNCHANGED <<uid, limit, local, uuidMap, deviceLimit, refs, whitelist,
                   sweep, history>>

-----------------------------------------------------------------------------
(* Closing a connection *)

\* removeConn: decrement, and forget a device that reached zero.
Released(c) ==
    IF uid[c] = NoUser THEN refs
    ELSE [refs EXCEPT ![uid[c]][DevOf[c]] = IF @ > 0 THEN @ - 1 ELSE 0]

\* MUTANT: a Close without the CompareAndSwap releases the device every time.
CloseEffectTwice(c) ==
    IF pc[c] \in {"open", "unref"}
    THEN pc' = [pc EXCEPT ![c] = "unref"] /\ refs' = Released(c)
    ELSE UNCHANGED <<pc, refs>>

\* MUTANT: neither the CompareAndSwap nor the test for zero of removeConn.
CloseEffectBlind(c) ==
    IF pc[c] \in {"open", "unref"} /\ uid[c] # NoUser
    THEN /\ pc' = [pc EXCEPT ![c] = "unref"]
         /\ refs' = [refs EXCEPT ![uid[c]][DevOf[c]] = @ - 1]
    ELSE UNCHANGED <<pc, refs>>

\* The first Close of a wrapper wins its CompareAndSwap and releases the
\* device; what a later Close does to the tracker is nothing.
CloseEffect(c) ==
    IF pc[c] = "open"
    THEN pc' = [pc EXCEPT ![c] = "unref"] /\ refs' = Released(c)
    ELSE UNCHANGED <<pc, refs>>

\* The peer, the relay or an I/O error closes the wrapper.
PeerClose(c) ==
    /\ pc[c] = "open"
    /\ CloseEffect(c)
    /\ UNCHANGED <<uid, limit, local, uuidMap, deviceLimit, connMap, whitelist,
                   sweep, history>>

\* MUTANT: a Close that forgets removeConnRef.
LeakConnRef(c) ==
    /\ pc[c] = "unref"
    /\ pc' = [pc EXCEPT ![c] = "closed"]
    /\ uid' = [uid EXCEPT ![c] = NoUser]
    /\ UNCHANGED <<limit, local, uuidMap, deviceLimit, refs, connMap, whitelist,
                   sweep, history>>

\* removeConnRef, the second half of the winning Close.
RemoveConnRef(c) ==
    /\ pc[c] = "unref"
    /\ pc' = [pc EXCEPT ![c] = "closed"]
    /\ uid' = [uid EXCEPT ![c] = NoUser]
    /\ connMap' = connMap \ {c}
    /\ UNCHANGED <<limit, local, uuidMap, deviceLimit, refs, whitelist, sweep,
                   history>>

-----------------------------------------------------------------------------
(* The control goroutine *)

Idle == sweep.phase = "idle"

\* MUTANT: a push that swaps the whitelist and closes no established session.
InstallOnly(w) ==
    /\ Idle
    /\ globalDevices' = w
    /\ globalFresh' = TRUE
    /\ sweep' = [phase |-> "close", pending |-> {}]
    /\ gatedNow' = {}
    /\ UNCHANGED <<handler, uuidMap, deviceLimit, refs, connMap, escaped>>

\* UpdateGlobalDevices, first critical section: the new whitelist is in force.
InstallGlobal(w) ==
    /\ Idle
    /\ globalDevices' = w
    /\ globalFresh' = TRUE
    /\ sweep' = [phase |-> "scan", pending |-> {}]
    /\ gatedNow' = {}
    /\ UNCHANGED <<handler, uuidMap, deviceLimit, refs, connMap, escaped>>

Outside(c) ==
    /\ uid[c] \in DOMAIN globalDevices
    /\ DevOf[c] \notin globalDevices[uid[c]]

PastGate(c) == pc[c] \in {"add", "register"}

\* UpdateGlobalDevices, second critical section: a scan of connMap.
ScanGlobal ==
    /\ sweep.phase = "scan"
    /\ sweep' = [phase |-> "close", pending |-> {c \in connMap : Outside(c)}]
    /\ escaped' = {c \in Conns : PastGate(c)}
    /\ UNCHANGED <<handler, uuidMap, deviceLimit, refs, connMap, whitelist,
                   gatedNow>>

\* CloseByUUID: the lookup and the scan share one read lock.
CloseByUUID(x) ==
    /\ Idle
    /\ uuidMap[x] # NoUser
    /\ sweep' = [phase |-> "close",
                 pending |-> {c \in connMap : uid[c] = uuidMap[x]}]
    /\ UNCHANGED <<handler, uuidMap, deviceLimit, refs, connMap, whitelist,
                   history>>

\* CloseByID: one connection, found by its id.
CloseByID(c) ==
    /\ Idle
    /\ c \in connMap
    /\ sweep' = [phase |-> "close", pending |-> {c}]
    /\ UNCHANGED <<handler, uuidMap, deviceLimit, refs, connMap, whitelist,
                   history>>

\* The closes run one by one after the lock has been given back.
SweepClose(c) ==
    /\ c \in sweep.pending
    /\ sweep' = [sweep EXCEPT !.pending = @ \ {c}]
    /\ CloseEffect(c)
    /\ UNCHANGED <<uid, limit, local, uuidMap, deviceLimit, connMap, whitelist,
                   history>>

SweepDone ==
    /\ sweep.phase = "close"
    /\ sweep.pending = {}
    /\ sweep' = [sweep EXCEPT !.phase = "idle"]
    /\ UNCHANGED <<handler, uuidMap, deviceLimit, refs, connMap, whitelist,
                   history>>

\* ClearGlobalDevices, when the websocket is lost.
ClearGlobal ==
    /\ Idle
    /\ globalDevices' = [u \in {} |-> {}]
    /\ globalFresh' = FALSE
    /\ UNCHANGED <<handler, uuidMap, deviceLimit, refs, connMap, sweep, history>>

\* SetUserMap: the kernel has new users.
SetUserMap(m) ==
    /\ Idle
    /\ uuidMap' = m
    /\ UNCHANGED <<handler, deviceLimit, refs, connMap, whitelist, sweep, history>>

-----------------------------------------------------------------------------
(* The environment *)

\* Sixty seconds pass without a push.
GlobalExpires ==
    /\ globalFresh
    /\ globalFresh' = FALSE
    /\ UNCHANGED <<handler, uuidMap, deviceLimit, refs, connMap, globalDevices,
                   sweep, history>>

\* limiter.UpdateUsers rebuilds the uuid -> limit index.
UpdateLimits(l) ==
    /\ deviceLimit' = l
    /\ UNCHANGED <<handler, uuidMap, refs, connMap, whitelist, sweep, history>>

-----------------------------------------------------------------------------

HandlerStep(c) ==
    \/ Lookup(c)
    \/ LoadLimit(c)
    \/ CopyLocal(c)
    \/ Gate(c)
    \/ AddConn(c)
    \/ Register(c)
    \/ RemoveConnRef(c)

SweepStep == ScanGlobal \/ SweepDone \/ \E c \in Conns : SweepClose(c)

Next ==
    \/ \E c \in Conns : Accept(c) \/ HandlerStep(c) \/ PeerClose(c) \/ CloseByID(c)
    \/ SweepStep
    \/ \E w \in Pushes : InstallGlobal(w)
    \/ \E x \in Uuids : CloseByUUID(x)
    \/ ClearGlobal
    \/ \E m \in UserMaps : SetUserMap(m)
    \/ GlobalExpires
    \/ \E l \in LimitMaps : UpdateLimits(l)

Spec == Init /\ [][Next]_vars

-----------------------------------------------------------------------------
(* Properties *)

Holders(u, d) == {c \in Conns : uid[c] = u /\ DevOf[c] = d /\ pc[c] \in Counted}

\* The reference count of a device is the number of its connections that were
\* added and not yet closed: a device slot is neither leaked nor freed while a
\* connection still uses it, whichever of peer and sweep closes it first.
RefsExact ==
    \A u \in Users, d \in Devices : refs[u][d] = Cardinality(Holders(u, d))

\* Every open connection can be force-closed, and connMap holds no connection
\* whose Close has run to its end.
ConnMapExact == connMap = {c \in Conns : pc[c] \in {"open", "unref"}}

\* After the scan that follows a push, an open connection the whitelist leaves
\* out is about to be closed, was let through after the push, or was between
\* its gate and its registration during the scan: nothing else escapes.
SweepMissesOnlyInFlight ==
    sweep.phase # "scan" =>
        \A c \in Conns : pc[c] = "open" /\ Outside(c) =>
            c \in sweep.pending \cup gatedNow \cup escaped

\* Without a whitelist a user is never connected from more than limit - 1 devices
\* plus one per concurrent handler: the check and the count are two critical
\* sections, so the limit itself is not the bound.
LocalOverrunBound ==
    \A x \in Uuids :
        uuidMap[x] # NoUser /\ deviceLimit[x] > 0 =>
            Cardinality(LocalDevices(uuidMap[x])) <= deviceLimit[x] - 1 + MaxHandlers

\* A comment of UpdateGlobalDevices: excess sessions are closed so that a
\* cross-node excess device is not left alive until it reconnects.
NoExcessLeftAlive ==
    Idle /\ globalFresh =>
        \A c \in Conns : pc[c] = "open" => ~Outside(c)

\* A comment of checkDeviceGate: a local device beyond the limit is rejected
\* immediately.
ExcessLocalDeviceRejected ==
    \A x \in Uuids :
        uuidMap[x] # NoUser /\ deviceLimit[x] > 0 =>
            Cardinality(LocalDevices(uuidMap[x])) <= deviceLimit[x]
=============================================================================
