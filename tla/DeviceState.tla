---------------------------- MODULE DeviceState ----------------------------
(***************************************************************************)
(* The panel's store of online devices                                     *)
(* (src/src/panel/app/Services/DeviceStateService.php).  Two Redis hashes  *)
(* per user hold fields "node:ip": the devices the nodes report, and the   *)
(* devices the panel allows, at most device_limit of them over all nodes.  *)
(*                                                                         *)
(* Requests are served by several PHP workers.  Each Redis command is      *)
(* atomic, and commands of different workers interleave; only setDevices   *)
(* takes a lock, per user, that Redis drops after 8 seconds.               *)
(*                                                                         *)
(* A field older than the TTL counts for nothing: it is modelled as gone.  *)
(* The order of the fields of a hash, and of the devices of a report, is   *)
(* not modelled: where the code stops after the first k, any k may be kept.*)
(***************************************************************************)
EXTENDS Integers, FiniteSets

CONSTANTS
    Users, Nodes, Ips,
    Workers,        \* PHP workers
    Free, Dead,     \* a lock nobody holds; one whose worker was killed
    DeviceLimit,    \* users.device_limit, 0 for "no limit"
    LockMayExpire,  \* a call may outlive the 8 seconds of its lock
    SerialNodes,    \* a node has at most one report under way
    MayCrash,       \* a worker may be killed in the middle of a call
    MayLapse,       \* the TTL may pass without a report
    MayRead         \* nodes fetch, or are sent, what is allowed

ASSUME DeviceStateAssumption ==
    /\ IsFiniteSet(Ips)
    /\ Free \notin Workers /\ Dead \notin Workers /\ Free # Dead
    /\ DeviceLimit \in [Users -> Nat]
    /\ {LockMayExpire, SerialNodes, MayCrash, MayLapse, MayRead} \subseteq BOOLEAN

Payloads == UNION {[S -> SUBSET Ips] : S \in SUBSET Users}
NoPayload == [u \in {} |-> {}]

VARIABLES
    allowed,      \* user_devices: user -> pairs (node, ip)
    reported,     \* user_reported_devices
    lock,         \* device:set_lock
    pushPending,  \* device:push_pending_nodes
    onlineCount,  \* users.online_count
    pc,           \* where each worker is
    locked,       \* its $locked: it took the lock of the user it works on
    node,         \* the node whose report it handles
    missing,      \* users it still has to drop
    payload,      \* users it still has to set
    user, ips,    \* the user it works on, and the devices reported for it
    preferred,    \* preferredAllowedIps
    kept,         \* what limitDevices returned
    seen,         \* the device count it read
    reading,      \* allowed devices a reader of the user has in hand, if any
    told,         \* the whitelist the nodes were told last, if any
    before,       \* history: devices of the node allowed when it got the lock
    lastSync      \* history: the last report of each node, as far as it is in force

store   == <<allowed, reported, lock, pushPending, onlineCount>>
call    == <<node, missing, payload>>
locals  == <<locked, user, ips, preferred, kept, seen>>
readers == <<reading, told>>
history == <<before, lastSync>>
vars    == <<store, pc, call, locals, readers, history>>

-----------------------------------------------------------------------------

Stages == {"idle", "next", "drop", "capture", "clear", "unreport", "report",
           "limit", "write", "queue", "count", "save", "release"}

\* Between the HDEL of what a node had and the HMSET of what it is given.
Setting == {"unreport", "report", "limit", "write"}

TypeOK ==
    /\ allowed \in [Users -> SUBSET (Nodes \X Ips)]
    /\ reported \in [Users -> SUBSET (Nodes \X Ips)]
    /\ lock \in [Users -> Workers \cup {Free, Dead}]
    /\ pushPending \in SUBSET Nodes
    /\ onlineCount \in [Users -> Nat]
    /\ pc \in [Workers -> Stages]
    /\ locked \in [Workers -> BOOLEAN]
    /\ node \in [Workers -> Nodes]
    /\ missing \in [Workers -> SUBSET Users]
    /\ payload \in [Workers -> Payloads]
    /\ user \in [Workers -> Users]
    /\ ips \in [Workers -> SUBSET Ips]
    /\ preferred \in [Workers -> SUBSET Ips]
    /\ kept \in [Workers -> SUBSET Ips]
    /\ seen \in [Workers -> Nat]
    /\ reading \in [Users -> SUBSET Ips]
    /\ told \in [Users -> SUBSET Ips]
    /\ before \in [Workers -> SUBSET Ips]
    /\ lastSync \in [Nodes -> Payloads]

IpsOf(fields) == {f[2] : f \in fields}
OfNode(n, devices) == {n} \X devices
Without(fields, n) == {f \in fields : f[1] # n}

\* getAllowedDevices and getReportedDevices: without duplicates over the nodes.
AllowedIps(u)  == IpsOf(allowed[u])
ReportedIps(u) == IpsOf(reported[u])

Init ==
    /\ allowed = [u \in Users |-> {}]
    /\ reported = [u \in Users |-> {}]
    /\ lock = [u \in Users |-> Free]
    /\ pushPending = {}
    /\ onlineCount = [u \in Users |-> 0]
    /\ pc = [w \in Workers |-> "idle"]
    /\ locked = [w \in Workers |-> FALSE]
    /\ node \in [Workers -> Nodes]
    /\ missing = [w \in Workers |-> {}]
    /\ payload = [w \in Workers |-> NoPayload]
    /\ user \in [Workers -> Users]
    /\ ips = [w \in Workers |-> {}]
    /\ preferred = [w \in Workers |-> {}]
    /\ kept = [w \in Workers |-> {}]
    /\ seen = [w \in Workers |-> 0]
    /\ reading = [u \in Users |-> {}]
    /\ told = [u \in Users |-> {}]
    /\ before = [w \in Workers |-> {}]
    /\ lastSync = [n \in Nodes |-> NoPayload]

Goto(w, stage) == pc' = [pc EXCEPT ![w] = stage]

\* The reports without what node n reports of user u.
Forgotten(u, n) == [lastSync EXCEPT ![n] = [v \in DOMAIN @ \ {u} |-> @[v]]]

-----------------------------------------------------------------------------
(* limitDevices *)

\* The sets that "the first k, at most" of S can be.
FirstOf(k, S) ==
    IF Cardinality(S) <= k THEN {S} ELSE {T \in SUBSET S : Cardinality(T) = k}

\* Mutant of LimitDevices: the room is not counted down.
LimitDevicesAnew(limit, devices, prefer, alive) ==
    IF limit = 0 THEN {devices}
    ELSE UNION {{devices \cap (winners \cup extra) :
                    extra \in FirstOf(limit, (devices \cap alive) \ winners)} :
                winners \in FirstOf(limit, prefer)}

\* The devices of a report that a limit keeps: those already preferred, then
\* others that are reported, as long as there is room.
LimitDevices(limit, devices, prefer, alive) ==
    IF limit = 0 THEN {devices}
    ELSE UNION {{devices \cap (winners \cup extra) :
                    extra \in FirstOf(limit - Cardinality(winners),
                                      (devices \cap alive) \ winners)} :
                winners \in FirstOf(limit, prefer)}

\* getUsersDevices, for the devices it read as allowed: what it may tell the
\* nodes about the user.
Snapshots(u, devices) ==
    LimitDevices(DeviceLimit[u], devices, AllowedIps(u) \cap ReportedIps(u),
                 ReportedIps(u))

\* An incomplete whitelist of several slots is left out; an empty one is not.
LeftOut(u, whitelist) ==
    DeviceLimit[u] > 1 /\ Cardinality(whitelist) \in 1 .. DeviceLimit[u] - 1

-----------------------------------------------------------------------------
(* A call *)

Busy(n) == \E w \in Workers : pc[w] # "idle" /\ node[w] = n

\* syncNodeDevices: the users the node has devices of and does not report any
\* more.  With an empty report this is clearAllNodeDevices.
StartSync(w, n, p) ==
    /\ pc[w] = "idle"
    /\ SerialNodes => ~Busy(n)
    /\ node' = [node EXCEPT ![w] = n]
    /\ missing' = [missing EXCEPT ![w] =
                      {u \in Users \ DOMAIN p : \E ip \in Ips : <<n, ip>> \in allowed[u]}]
    /\ payload' = [payload EXCEPT ![w] = p]
    /\ lastSync' = [lastSync EXCEPT ![n] = p]
    /\ Goto(w, "next")
    /\ UNCHANGED <<store, locals, readers, before>>

\* Mutant of DropMissing: the allowed devices stay.
DropMissingReported(w, u) ==
    /\ pc[w] = "next"
    /\ u \in missing[w]
    /\ missing' = [missing EXCEPT ![w] = @ \ {u}]
    /\ user' = [user EXCEPT ![w] = u]
    /\ allowed' = allowed
    /\ Goto(w, "drop")
    /\ UNCHANGED <<reported, lock, pushPending, onlineCount, node, payload,
                   locked, ips, preferred, kept, seen, readers, history>>

\* A missing user: removeNodeDevices, without the lock.
DropMissing(w, u) ==
    /\ pc[w] = "next"
    /\ u \in missing[w]
    /\ missing' = [missing EXCEPT ![w] = @ \ {u}]
    /\ user' = [user EXCEPT ![w] = u]
    /\ allowed' = [allowed EXCEPT ![u] = Without(@, node[w])]
    /\ Goto(w, "drop")
    /\ UNCHANGED <<reported, lock, pushPending, onlineCount, node, payload,
                   locked, ips, preferred, kept, seen, readers, history>>

\* Mutant of DropReported: no notifyUpdate.
DropQuietly(w) ==
    /\ pc[w] = "drop"
    /\ reported' = [reported EXCEPT ![user[w]] = Without(@, node[w])]
    /\ Goto(w, "next")
    /\ UNCHANGED <<allowed, lock, pushPending, onlineCount, call, locals,
                   readers, history>>

\* ... then removeNodeReportedDevices.
DropReported(w) ==
    /\ pc[w] = "drop"
    /\ reported' = [reported EXCEPT ![user[w]] = Without(@, node[w])]
    /\ Goto(w, "count")
    /\ UNCHANGED <<allowed, lock, pushPending, onlineCount, call, locals,
                   readers, history>>

\* Mutant of Acquire: the lock names the node instead of its owner.
LockByNode(w, u) ==
    /\ pc[w] = "next"
    /\ missing[w] = {}
    /\ u \in DOMAIN payload[w]
    /\ lock[u] = Free
    /\ lock' = [lock EXCEPT ![u] = node[w]]
    /\ locked' = [locked EXCEPT ![w] = TRUE]
    /\ user' = [user EXCEPT ![w] = u]
    /\ ips' = [ips EXCEPT ![w] = payload[w][u]]
    /\ payload' = [payload EXCEPT ![w] = [v \in DOMAIN @ \ {u} |-> @[v]]]
    /\ before' = [before EXCEPT ![w] = {ip \in Ips : <<node[w], ip>> \in allowed[u]}]
    /\ Goto(w, "capture")
    /\ UNCHANGED <<allowed, reported, pushPending, onlineCount, node, missing,
                   preferred, kept, seen, readers, lastSync>>

\* setDevices of the next user: SET NX EX 8.
Acquire(w, u) ==
    /\ pc[w] = "next"
    /\ missing[w] = {}
    /\ u \in DOMAIN payload[w]
    /\ lock[u] = Free
    /\ lock' = [lock EXCEPT ![u] = w]
    /\ locked' = [locked EXCEPT ![w] = TRUE]
    /\ user' = [user EXCEPT ![w] = u]
    /\ ips' = [ips EXCEPT ![w] = payload[w][u]]
    /\ payload' = [payload EXCEPT ![w] = [v \in DOMAIN @ \ {u} |-> @[v]]]
    /\ before' = [before EXCEPT ![w] = {ip \in Ips : <<node[w], ip>> \in allowed[u]}]
    /\ Goto(w, "capture")
    /\ UNCHANGED <<allowed, reported, pushPending, onlineCount, node, missing,
                   preferred, kept, seen, readers, lastSync>>

\* The lock is taken: the report of this user is dropped, and that is all.
Skip(w, u) ==
    /\ pc[w] = "next"
    /\ missing[w] = {}
    /\ u \in DOMAIN payload[w]
    /\ lock[u] # Free
    /\ payload' = [payload EXCEPT ![w] = [v \in DOMAIN @ \ {u} |-> @[v]]]
    /\ UNCHANGED <<store, pc, node, missing, locals, readers, history>>

EndSync(w) ==
    /\ pc[w] = "next"
    /\ missing[w] = {}
    /\ payload[w] = NoPayload
    /\ Goto(w, "idle")
    /\ UNCHANGED <<store, call, locals, readers, history>>

\* Mutant of Capture: the winners are captured too late.
CaptureOthers(w) ==
    /\ pc[w] = "capture"
    /\ preferred' = [preferred EXCEPT ![w] = IpsOf(Without(allowed[user[w]], node[w]))]
    /\ Goto(w, "clear")
    /\ UNCHANGED <<store, call, locked, user, ips, kept, seen, readers, history>>

\* preferredAllowedIps = getAllowedDevices, before the node's own are removed.
Capture(w) ==
    /\ pc[w] = "capture"
    /\ preferred' = [preferred EXCEPT ![w] = AllowedIps(user[w])]
    /\ Goto(w, "clear")
    /\ UNCHANGED <<store, call, locked, user, ips, kept, seen, readers, history>>

\* Mutant of Clear: the fields of every node are removed.
ClearAll(w) ==
    /\ pc[w] = "clear"
    /\ allowed' = [allowed EXCEPT ![user[w]] = {}]
    /\ Goto(w, "unreport")
    /\ UNCHANGED <<reported, lock, pushPending, onlineCount, call, locals,
                   readers, history>>

\* removeNodeDevices.
Clear(w) ==
    /\ pc[w] = "clear"
    /\ allowed' = [allowed EXCEPT ![user[w]] = Without(@, node[w])]
    /\ Goto(w, "unreport")
    /\ UNCHANGED <<reported, lock, pushPending, onlineCount, call, locals,
                   readers, history>>

\* removeNodeReportedDevices ...
Unreport(w) ==
    /\ pc[w] = "unreport"
    /\ reported' = [reported EXCEPT ![user[w]] = Without(@, node[w])]
    /\ Goto(w, "report")
    /\ UNCHANGED <<allowed, lock, pushPending, onlineCount, call, locals,
                   readers, history>>

\* ... then the new fields.
Report(w) ==
    /\ pc[w] = "report"
    /\ reported' = [reported EXCEPT ![user[w]] = @ \cup OfNode(node[w], ips[w])]
    /\ Goto(w, "limit")
    /\ UNCHANGED <<allowed, lock, pushPending, onlineCount, call, locals,
                   readers, history>>

Limit(w) ==
    /\ pc[w] = "limit"
    /\ \E K \in LimitDevices(DeviceLimit[user[w]], ips[w], preferred[w],
                             ReportedIps(user[w])) :
           kept' = [kept EXCEPT ![w] = K]
    /\ preferred' = [preferred EXCEPT ![w] = {}]
    /\ Goto(w, "write")
    /\ UNCHANGED <<store, call, locked, user, ips, seen, readers, history>>

Write(w) ==
    /\ pc[w] = "write"
    /\ allowed' = [allowed EXCEPT ![user[w]] = @ \cup OfNode(node[w], kept[w])]
    /\ lastSync' = [lastSync EXCEPT
                       ![node[w]] = [v \in DOMAIN @ \cup {user[w]} |->
                                        IF v = user[w] THEN ips[w] ELSE @[v]]]
    /\ Goto(w, "queue")
    /\ UNCHANGED <<reported, lock, pushPending, onlineCount, call, locals,
                   readers, before>>

\* queueDevicePushForUser when something was trimmed: every node that serves
\* the user is to be sent the whitelist.
QueuePush(w) ==
    /\ pc[w] = "queue"
    /\ pushPending' = IF kept[w] # ips[w] THEN Nodes ELSE pushPending
    /\ ips' = [ips EXCEPT ![w] = {}]
    /\ kept' = [kept EXCEPT ![w] = {}]
    /\ before' = [before EXCEPT ![w] = {}]
    /\ Goto(w, "count")
    /\ UNCHANGED <<allowed, reported, lock, onlineCount, call, locked, user,
                   preferred, seen, readers, lastSync>>

\* notifyUpdate reads the device count ...
Count(w) ==
    /\ pc[w] = "count"
    /\ seen' = [seen EXCEPT ![w] = Cardinality(ReportedIps(user[w]))]
    /\ Goto(w, "save")
    /\ UNCHANGED <<store, call, locked, user, ips, preferred, kept,
                   readers, history>>

\* ... and updates the user's row.
Save(w) ==
    /\ pc[w] = "save"
    /\ onlineCount' = [onlineCount EXCEPT ![user[w]] = seen[w]]
    /\ seen' = [seen EXCEPT ![w] = 0]
    /\ Goto(w, IF locked[w] THEN "release" ELSE "next")
    /\ UNCHANGED <<allowed, reported, lock, pushPending, call, locked, user,
                   ips, preferred, kept, readers, history>>

\* finally: DEL, whoever holds the lock by now.
Release(w) ==
    /\ pc[w] = "release"
    /\ lock' = [lock EXCEPT ![user[w]] = Free]
    /\ locked' = [locked EXCEPT ![w] = FALSE]
    /\ Goto(w, "next")
    /\ UNCHANGED <<allowed, reported, pushPending, onlineCount, call, user,
                   ips, preferred, kept, seen, readers, history>>

-----------------------------------------------------------------------------
(* What happens to a call from outside *)

\* The worker is killed: no finally, the lock stays until Redis drops it.
Crash(w) ==
    /\ MayCrash
    /\ pc[w] # "idle"
    /\ Goto(w, "idle")
    /\ lock' = [u \in Users |-> IF lock[u] = w THEN Dead ELSE lock[u]]
    /\ locked' = [locked EXCEPT ![w] = FALSE]
    /\ missing' = [missing EXCEPT ![w] = {}]
    /\ payload' = [payload EXCEPT ![w] = NoPayload]
    /\ ips' = [ips EXCEPT ![w] = {}]
    /\ preferred' = [preferred EXCEPT ![w] = {}]
    /\ kept' = [kept EXCEPT ![w] = {}]
    /\ seen' = [seen EXCEPT ![w] = 0]
    /\ before' = [before EXCEPT ![w] = {}]
    /\ lastSync' = IF pc[w] \in Setting THEN Forgotten(user[w], node[w]) ELSE lastSync
    /\ UNCHANGED <<allowed, reported, pushPending, onlineCount, node, user,
                   readers>>

\* Eight seconds after SET.
LockExpires(u) ==
    /\ lock[u] = Dead \/ (LockMayExpire /\ lock[u] # Free)
    /\ lock' = [lock EXCEPT ![u] = Free]
    /\ UNCHANGED <<allowed, reported, pushPending, onlineCount, pc, call,
                   locals, readers, history>>

\* Five minutes without a report of a user by a node: what the node wrote for
\* the user, in both hashes under one timestamp, no longer counts.  A call does
\* not last that long.
Lapse(u, n) ==
    /\ MayLapse
    /\ ~\E w \in Workers :
           user[w] = u /\ node[w] = n /\ pc[w] \in {"limit", "write"}
    /\ OfNode(n, Ips) \cap (allowed[u] \cup reported[u]) # {}
    /\ allowed' = [allowed EXCEPT ![u] = Without(@, n)]
    /\ reported' = [reported EXCEPT ![u] = Without(@, n)]
    /\ before' = [w \in Workers |->
                     IF user[w] = u /\ node[w] = n THEN {} ELSE before[w]]
    /\ lastSync' = Forgotten(u, n)
    /\ UNCHANGED <<lock, pushPending, onlineCount, pc, call, locals, readers>>

\* A reader of the whitelists, the devices endpoint or the websocket process,
\* reads the allowed devices of a user; a user without any is left out ...
StartRead(u) ==
    /\ MayRead
    /\ reading[u] = {}
    /\ AllowedIps(u) # {}
    /\ reading' = [reading EXCEPT ![u] = AllowedIps(u)]
    /\ UNCHANGED <<store, pc, call, locals, told, history>>

\* ... and then, in limitDevices, the reported ones and the allowed ones again.
FinishRead(u) ==
    /\ reading[u] # {}
    /\ \E whitelist \in Snapshots(u, reading[u]) :
           told' = IF LeftOut(u, whitelist) THEN told
                   ELSE [told EXCEPT ![u] = whitelist]
    /\ reading' = [reading EXCEPT ![u] = {}]
    /\ UNCHANGED <<store, pc, call, locals, history>>

\* The websocket process takes a node off the set.
SendPush(n) ==
    /\ n \in pushPending
    /\ pushPending' = pushPending \ {n}
    /\ UNCHANGED <<allowed, reported, lock, onlineCount, pc, call, locals,
                   readers, history>>

-----------------------------------------------------------------------------

WorkerStep(w) ==
    \/ \E u \in Users : DropMissing(w, u) \/ Acquire(w, u) \/ Skip(w, u)
    \/ DropReported(w)
    \/ Capture(w)
    \/ Clear(w)
    \/ Unreport(w)
    \/ Report(w)
    \/ Limit(w)
    \/ Write(w)
    \/ QueuePush(w)
    \/ Count(w)
    \/ Save(w)
    \/ Release(w)
    \/ EndSync(w)

Next ==
    \/ \E w \in Workers :
           \/ \E n \in Nodes, p \in Payloads : StartSync(w, n, p)
           \/ WorkerStep(w)
           \/ Crash(w)
    \/ \E u \in Users :
           \/ LockExpires(u)
           \/ StartRead(u)
           \/ FinishRead(u)
           \/ \E n \in Nodes : Lapse(u, n)
    \/ \E n \in Nodes : SendPush(n)

Spec == Init /\ [][Next]_vars

-----------------------------------------------------------------------------
(* Properties *)

\* The allowed devices of a user, over all nodes, are at most device_limit at
\* every moment: also between the commands of a call, while another node's
\* report is skipped or a worker has died with half its commands done.
AllowedWithinLimit ==
    \A u \in Users :
        DeviceLimit[u] > 0 => Cardinality(AllowedIps(u)) <= DeviceLimit[u]

\* First come, first served: a device that was allowed for a node and that the
\* node reports again is allowed again, whatever the other nodes report.
WinnersStay ==
    [][\A w \in Workers :
          pc[w] = "write" /\ pc'[w] = "queue" =>
              \A ip \in before[w] \cap ips[w] :
                  <<node[w], ip>> \in allowed'[user[w]]]_vars

Quiet == \A w \in Workers : pc[w] = "idle"

\* A reader whose commands no other command comes between tells the nodes exactly
\* the allowed devices, also in the middle of calls: none of them is filtered out
\* again because the hash of the reported devices, written by other commands, does
\* not have it.
ReadersAgree ==
    \A u \in Users : Snapshots(u, AllowedIps(u)) = {AllowedIps(u)}

\* The comment in setDevices: a push closes only devices outside the allowlist,
\* never the whole user.  A device that was allowed when the reader looked, and
\* that a node reports still, is on the whitelist the reader sends.
WhitelistHasServed ==
    [][\A u \in Users :
          told'[u] # told[u] =>
              \A ip \in reading[u] :
                  (\E n \in Nodes : u \in DOMAIN lastSync[n] /\ ip \in lastSync[n][u])
                      => ip \in told'[u]]_vars

\* What a node has reported last is in the store: no report is lost.
ReportTakesEffect ==
    Quiet => \A n \in Nodes : \A u \in DOMAIN lastSync[n] :
                 OfNode(n, lastSync[n][u]) \subseteq reported[u]

\* The comment of syncNodeDevices: users that disappeared from the report are
\* removed from both the allowed-device and the reported-device store.
SyncReplaces ==
    Quiet => \A n \in Nodes, u \in Users :
                 u \notin DOMAIN lastSync[n] =>
                     OfNode(n, Ips) \cap (allowed[u] \cup reported[u]) = {}

\* The online count of a user is the number of devices reported for it, once
\* no request is being served.
OnlineCountExact ==
    Quiet => \A u \in Users : onlineCount[u] = Cardinality(ReportedIps(u))

\* While a report of a node is being set the node still holds what it had.
Held(u) ==
    UNION {OfNode(node[w], before[w]) :
              w \in {v \in Workers : user[v] = u /\ pc[v] \in Setting}}

Slots == INSTANCE DeviceSlots WITH
             slots <- [u \in Users |-> allowed[u] \cup Held(u)],
             sent  <- lastSync

\* The commands of a report, interleaved with those of other workers, with dead
\* workers and with the TTL, act as one step that keeps the limit, serves first
\* who came first and takes nothing from a node that reports still.
ReportsActAtOnce == Slots!Spec
=============================================================================
