--------------------------- MODULE LimitDispatcher ---------------------------
(***************************************************************************)
(* The limit dispatcher of the xray kernel                                 *)
(* (src/src/node/internal/kernel/xray/dispatcher.go): the second           *)
(* implementation of the device gate.  A connection is admitted by         *)
(* checkDeviceLimit, counted under its device if it is TCP, dispatched,    *)
(* tracked, and released when its writer is closed for the first time.     *)
(*                                                                         *)
(* Limited users are counted in a map of maps under one RWMutex, unlimited *)
(* ones in a lock-free sync.Map of counters.  A section that holds the     *)
(* mutex is one action, and so is one atomic operation on a sync.Map or a  *)
(* counter; nothing is held between two actions of a connection.           *)
(*                                                                         *)
(* The model covers one dispatcher while it is in service, from its        *)
(* factory on: ResetConns is only called on one that has been replaced.    *)
(***************************************************************************)
EXTENDS Integers, FiniteSets

CONSTANTS
    Conns,       \* connections that arrive during a behaviour
    Emails,      \* xray's names for credentials
    Devices,     \* source addresses
    Users,       \* panel user ids
    NoUser,      \* the id 0 of an email that emailToUID does not have
    NoCounter,   \* a sync.Map without an entry for the device
    EmailOf,     \* the credential a connection was authenticated with
    DevOf,       \* its source address
    Tcp,         \* the connections that are TCP
    UserMaps,    \* emailToUID maps the kernel installs
    LimitMaps,   \* deviceLimits maps it installs, 0 for "no limit"
    Pushes,      \* whitelists the panel sends
    MaxHandlers  \* bound: connections between arrival and open at a time

Whitelists == UNION {[S -> SUBSET Devices] : S \in SUBSET Users}

ASSUME LimitDispatcherAssumption ==
    /\ IsFiniteSet(Conns)
    /\ NoUser \notin Users
    /\ NoCounter \notin Conns
    /\ EmailOf \in [Conns -> Emails]
    /\ DevOf \in [Conns -> Devices]
    /\ Tcp \subseteq Conns
    /\ UserMaps \subseteq [Emails -> Users \cup {NoUser}]
    /\ LimitMaps \subseteq [Emails -> Nat]
    /\ Pushes \subseteq Whitelists
    /\ MaxHandlers \in Nat \ {0}

VARIABLES
    emailToUID,     \* LimitDispatcher.emailToUID
    deviceLimits,   \* LimitDispatcher.deviceLimits
    globalDevices,  \* the whitelist in force
    globalFresh,    \* globalLastUpdate is at most 60 seconds old
    mapped,         \* emails that have a map in limitedIPs
    limitedIPs,     \* limitedIPs: email -> device -> reference count
    unlimitedIPs,   \* emails that have an entry in unlimitedIPs
    counter,        \* email -> device -> its counter, named by who stored it
    value,          \* what the counter stored by a connection stands at
    trackedConns,   \* connections with an entry in trackedConns
    connCount,      \* active connections
    pc,             \* how far each connection has got
    limit,          \* the limit its gate read
    listed,         \* it read a fresh whitelist that has its user
    list,           \* the devices on that whitelist
    ctr,            \* the counter it has loaded last, until it has been released
    refUid,         \* xrayConnRef.uid
    toClose,        \* what the control goroutine has collected to close
    counted,        \* history: the map a connection was counted in
    late            \* history: not tracked yet when the last whitelist came

config  == <<emailToUID, deviceLimits>>
global  == <<globalDevices, globalFresh>>
limited == <<mapped, limitedIPs>>
free    == <<unlimitedIPs, counter, value>>
tracked == <<trackedConns, connCount>>
gate    == <<limit, listed, list>>
locals  == <<gate, ctr, refUid>>
vars    == <<config, global, limited, free, tracked, pc, locals, toClose,
             counted, late>>

-----------------------------------------------------------------------------

Entering == {"limits", "load", "add", "decide", "count", "again", "recheck",
             "dispatch", "insert"}
Leaving  == {"closing", "release", "subtract", "delete", "untrack"}
Stages   == Entering \cup Leaving \cup {"none", "open", "closed"}

TypeOK ==
    /\ emailToUID \in [Emails -> Users \cup {NoUser}]
    /\ deviceLimits \in [Emails -> Nat]
    /\ globalDevices \in Whitelists
    /\ globalFresh \in BOOLEAN
    /\ mapped \in SUBSET Emails
    /\ limitedIPs \in [Emails -> [Devices -> Nat]]
    /\ unlimitedIPs \in SUBSET Emails
    /\ counter \in [Emails -> [Devices -> Conns \cup {NoCounter}]]
    /\ value \in [Conns -> Int]
    /\ trackedConns \in SUBSET Conns
    /\ connCount \in Nat
    /\ pc \in [Conns -> Stages]
    /\ limit \in [Conns -> Nat]
    /\ listed \in [Conns -> BOOLEAN]
    /\ list \in [Conns -> SUBSET Devices]
    /\ ctr \in [Conns -> Conns \cup {NoCounter}]
    /\ refUid \in [Conns -> Users \cup {NoUser}]
    /\ toClose \in SUBSET Conns
    /\ counted \in [Conns -> {"no", "limited", "unlimited"}]
    /\ late \in SUBSET Conns

NoWhitelist == [u \in {} |-> {}]

\* limitDispatcherFactory: a dispatcher admits connections before the kernel
\* has given it users and limits.
Init ==
    /\ emailToUID = [e \in Emails |-> NoUser]
    /\ deviceLimits = [e \in Emails |-> 0]
    /\ globalDevices = NoWhitelist
    /\ globalFresh = FALSE
    /\ mapped = {}
    /\ limitedIPs = [e \in Emails |-> [d \in Devices |-> 0]]
    /\ unlimitedIPs = {}
    /\ counter = [e \in Emails |-> [d \in Devices |-> NoCounter]]
    /\ value = [c \in Conns |-> 0]
    /\ trackedConns = {}
    /\ connCount = 0
    /\ pc = [c \in Conns |-> "none"]
    /\ limit = [c \in Conns |-> 0]
    /\ listed = [c \in Conns |-> FALSE]
    /\ list = [c \in Conns |-> {}]
    /\ ctr = [c \in Conns |-> NoCounter]
    /\ refUid = [c \in Conns |-> NoUser]
    /\ toClose = {}
    /\ counted = [c \in Conns |-> "no"]
    /\ late = Conns

Goto(c, stage) == pc' = [pc EXCEPT ![c] = stage]

LocalDevices(e) == {d \in Devices : limitedIPs[e][d] > 0}

-----------------------------------------------------------------------------
(* checkDeviceLimit *)

\* xray has authenticated a connection and calls Dispatch or DispatchLink.
Arrive(c) ==
    /\ pc[c] = "none"
    /\ Cardinality({x \in Conns : pc[x] \in Entering}) < MaxHandlers
    /\ Goto(c, "limits")
    /\ UNCHANGED <<config, global, limited, free, tracked, locals, toClose,
                   counted, late>>

\* The first read lock: limit, user and whitelist.  Without a limit a UDP
\* connection is admitted as it is, a TCP one is counted lock-free.
ReadLimits(c) ==
    LET e == EmailOf[c]
        u == emailToUID[e]
        present == globalFresh /\ u \in DOMAIN globalDevices
    IN  /\ pc[c] = "limits"
        /\ \/ /\ deviceLimits[e] = 0
              /\ Goto(c, IF c \in Tcp THEN "load" ELSE "dispatch")
              /\ UNCHANGED gate
           \/ /\ deviceLimits[e] > 0
              /\ Goto(c, "decide")
              /\ limit' = [limit EXCEPT ![c] = deviceLimits[e]]
              /\ listed' = [listed EXCEPT ![c] = present]
              /\ list' = [list EXCEPT ![c] = IF present THEN globalDevices[u] ELSE {}]
        /\ UNCHANGED <<config, global, limited, free, tracked, ctr, refUid,
                       toClose, counted, late>>

\* LoadOrStore of the device's counter ...
LoadCounter(c) ==
    LET e == EmailOf[c]
        d == DevOf[c]
        present == counter[e][d]
        found == IF present = NoCounter THEN c ELSE present
    IN  /\ pc[c] = "load"
        /\ unlimitedIPs' = unlimitedIPs \cup {e}
        /\ counter' = [counter EXCEPT ![e][d] = found]
        /\ ctr' = [ctr EXCEPT ![c] = found]
        /\ Goto(c, "add")
        /\ UNCHANGED <<config, global, limited, value, tracked, gate,
                       refUid, toClose, counted, late>>

\* ... then Add(1), whatever has become of the counter meanwhile.
AddCounter(c) ==
    /\ pc[c] = "add"
    /\ value' = [value EXCEPT ![ctr[c]] = @ + 1]
    /\ counted' = [counted EXCEPT ![c] = "unlimited"]
    /\ Goto(c, "dispatch")
    /\ UNCHANGED <<config, global, limited, unlimitedIPs, counter, tracked,
                   locals, toClose, late>>

\* The stage that follows when the gate lets a connection in by path.
Through(c, path) == IF c \in Tcp THEN path ELSE "dispatch"

\* With a whitelist: its devices, or the first device of a user who has none.
ListedStage(c, local) ==
    IF DevOf[c] \in list[c] \/ (list[c] = {} /\ local = {})
    THEN Through(c, "count")
    ELSE "closed"

\* Without: a device counted already, one that finds room beside others, or
\* one that has to look again under the write lock.
LocalStage(c, local) ==
    CASE DevOf[c] \in local -> Through(c, "again")
      [] /\ DevOf[c] \notin local
         /\ EmailOf[c] \in mapped
         /\ Cardinality(local) < limit[c] -> Through(c, "count")
      [] OTHER -> "recheck"

\* The second read lock: the user's devices on this node decide.
Decide(c) ==
    LET local == LocalDevices(EmailOf[c])
    IN  /\ pc[c] = "decide"
        /\ Goto(c, IF listed[c] THEN ListedStage(c, local)
                   ELSE LocalStage(c, local))
        /\ listed' = [listed EXCEPT ![c] = FALSE]
        /\ list' = [list EXCEPT ![c] = {}]
        /\ limit' = [limit EXCEPT ![c] = IF pc'[c] = "recheck" THEN @ ELSE 0]
        /\ UNCHANGED <<config, global, limited, free, tracked, ctr, refUid,
                       toClose, counted, late>>

\* limitedIPs[email][device]++ and what the history says of it.
Enter(c) ==
    /\ limitedIPs' = [limitedIPs EXCEPT ![EmailOf[c]][DevOf[c]] = @ + 1]
    /\ counted' = [counted EXCEPT ![c] = "limited"]

\* The write lock of a device that has been let in: make the map, count.
Count(c) ==
    /\ pc[c] = "count"
    /\ mapped' = mapped \cup {EmailOf[c]}
    /\ Enter(c)
    /\ Goto(c, "dispatch")
    /\ UNCHANGED <<config, global, free, tracked, locals, toClose, late>>

\* The write lock of a device that was counted a moment ago: no map is made.
CountAgain(c) ==
    /\ pc[c] = "again"
    /\ EmailOf[c] \in mapped
    /\ Enter(c)
    /\ Goto(c, "dispatch")
    /\ UNCHANGED <<config, global, mapped, free, tracked, locals, toClose, late>>

\* If the last connection of the user has gone in between, the map has gone
\* too: the assignment to an entry of a nil map ends the process, and with it
\* every connection.  The process manager starts the node anew.
Panic(c) ==
    /\ pc[c] = "again"
    /\ EmailOf[c] \notin mapped
    /\ emailToUID' = [e \in Emails |-> NoUser]
    /\ deviceLimits' = [e \in Emails |-> 0]
    /\ globalDevices' = NoWhitelist
    /\ globalFresh' = FALSE
    /\ mapped' = {}
    /\ limitedIPs' = [e \in Emails |-> [d \in Devices |-> 0]]
    /\ unlimitedIPs' = {}
    /\ counter' = [e \in Emails |-> [d \in Devices |-> NoCounter]]
    /\ value' = [x \in Conns |-> 0]
    /\ trackedConns' = {}
    /\ connCount' = 0
    /\ pc' = [x \in Conns |-> IF pc[x] = "none" THEN "none" ELSE "closed"]
    /\ limit' = [x \in Conns |-> 0]
    /\ listed' = [x \in Conns |-> FALSE]
    /\ list' = [x \in Conns |-> {}]
    /\ ctr' = [x \in Conns |-> NoCounter]
    /\ refUid' = [x \in Conns |-> NoUser]
    /\ toClose' = {}
    /\ counted' = [x \in Conns |-> "no"]
    /\ late' = Conns

\* The re-check under the write lock, which makes the map even to reject.
Recheck(c) ==
    LET local == LocalDevices(EmailOf[c])
    IN  /\ pc[c] = "recheck"
        /\ mapped' = mapped \cup {EmailOf[c]}
        /\ IF DevOf[c] \in local \/ Cardinality(local) < limit[c]
           THEN /\ Goto(c, "dispatch")
                /\ IF c \in Tcp THEN Enter(c) ELSE UNCHANGED <<limitedIPs, counted>>
           ELSE Goto(c, "closed") /\ UNCHANGED <<limitedIPs, counted>>
        /\ limit' = [limit EXCEPT ![c] = 0]
        /\ UNCHANGED <<config, global, free, tracked, listed, list, ctr,
                       refUid, toClose, late>>

-----------------------------------------------------------------------------
(* Dispatch and trackLink *)

\* Mutant of DispatchFails: the clean-up of a tracked connection.
DispatchFailsTracked(c) ==
    /\ pc[c] = "dispatch"
    /\ connCount' = connCount - 1
    /\ Goto(c, IF c \in Tcp THEN "closing" ELSE "closed")
    /\ UNCHANGED <<config, global, limited, free, trackedConns, locals, toClose,
                   counted, late>>

\* The inner dispatcher fails, and the device of a TCP connection is released.
DispatchFails(c) ==
    /\ pc[c] = "dispatch"
    /\ Goto(c, IF c \in Tcp THEN "closing" ELSE "closed")
    /\ UNCHANGED <<config, global, limited, free, tracked, locals, toClose,
                   counted, late>>

\* It takes the connection: trackLink counts it, reads its user under the read
\* lock ...
Track(c) ==
    /\ pc[c] = "dispatch"
    /\ connCount' = connCount + 1
    /\ refUid' = [refUid EXCEPT ![c] = emailToUID[EmailOf[c]]]
    /\ Goto(c, "insert")
    /\ UNCHANGED <<config, global, limited, free, trackedConns, gate, ctr,
                   toClose, counted, late>>

\* ... and enters it under the write lock.
Insert(c) ==
    /\ pc[c] = "insert"
    /\ trackedConns' = trackedConns \cup {c}
    /\ Goto(c, "open")
    /\ UNCHANGED <<config, global, limited, free, connCount, locals, toClose,
                   counted, late>>

-----------------------------------------------------------------------------
(* Closing *)

\* Close and Interrupt of closeTrackingWriter: the first wins.
FirstClose(c) == Goto(c, IF pc[c] = "open" THEN "closing" ELSE pc[c])

\* The link is closed or interrupted, or DispatchLink fails.
PeerClose(c) ==
    /\ pc[c] \in {"open"} \cup Leaving
    /\ c \in trackedConns
    /\ FirstClose(c)
    /\ UNCHANGED <<config, global, limited, free, tracked, locals, toClose,
                   counted, late>>

\* What follows delConn: the rest of onClose, or nothing after a failed
\* Dispatch.
Released(c) == IF c \in trackedConns THEN "untrack" ELSE "closed"

\* Mutant of AmongUnlimited: the limit of now decides.
IsUnlimited(c) == deviceLimits[EmailOf[c]] = 0

\* delConn looks for the user among the unlimited ones first: once there, an
\* entry stays there, whatever the user's limit has become.
AmongUnlimited(c) == EmailOf[c] \in unlimitedIPs

StartRelease(c) ==
    LET present == counter[EmailOf[c]][DevOf[c]]
    IN  /\ pc[c] = "closing"
        /\ \/ c \notin Tcp /\ Goto(c, "untrack") /\ UNCHANGED <<ctr, counted>>
           \/ /\ c \in Tcp /\ ~AmongUnlimited(c)
              /\ Goto(c, "release")
              /\ UNCHANGED <<ctr, counted>>
           \/ /\ c \in Tcp /\ AmongUnlimited(c)
              /\ present = NoCounter
              /\ Goto(c, Released(c))
              /\ counted' = [counted EXCEPT ![c] = "no"]
              /\ ctr' = [ctr EXCEPT ![c] = NoCounter]
           \/ /\ c \in Tcp /\ AmongUnlimited(c)
              /\ present # NoCounter
              /\ Goto(c, "subtract")
              /\ ctr' = [ctr EXCEPT ![c] = present]
              /\ UNCHANGED counted
        /\ UNCHANGED <<config, global, limited, free, tracked, gate,
                       refUid, toClose, late>>

\* Add(-1) ...
Subtract(c) ==
    /\ pc[c] = "subtract"
    /\ value' = [value EXCEPT ![ctr[c]] = @ - 1]
    /\ ctr' = [ctr EXCEPT ![c] = NoCounter]
    /\ counted' = [counted EXCEPT ![c] = "no"]
    /\ Goto(c, IF value[ctr[c]] <= 1 THEN "delete" ELSE Released(c))
    /\ UNCHANGED <<config, global, limited, unlimitedIPs, counter, tracked,
                   gate, refUid, toClose, late>>

\* ... and, at zero, Delete of whatever counter the device has by now.
DeleteCounter(c) ==
    /\ pc[c] = "delete"
    /\ counter' = [counter EXCEPT ![EmailOf[c]][DevOf[c]] = NoCounter]
    /\ Goto(c, Released(c))
    /\ UNCHANGED <<config, global, limited, unlimitedIPs, value, tracked,
                   locals, toClose, counted, late>>

\* Mutant of Release: the map of the user goes with the first device.
ReleaseUser(c) ==
    LET e == EmailOf[c]
    IN  /\ pc[c] = "release"
        /\ limitedIPs' = [limitedIPs EXCEPT ![e] = [d \in Devices |-> 0]]
        /\ mapped' = mapped \ {e}
        /\ counted' = [counted EXCEPT ![c] = "no"]
        /\ Goto(c, Released(c))
        /\ UNCHANGED <<config, global, free, tracked, locals, toClose, late>>

\* A limited user, under the write lock: without a map nothing, else one
\* less, and no map without devices.
Release(c) ==
    LET e == EmailOf[c]
    IN  /\ pc[c] = "release"
        /\ limitedIPs' = [limitedIPs EXCEPT ![e][DevOf[c]] = IF @ > 0 THEN @ - 1 ELSE 0]
        /\ mapped' = IF \A d \in Devices : limitedIPs'[e][d] = 0
                     THEN mapped \ {e} ELSE mapped
        /\ counted' = [counted EXCEPT ![c] = "no"]
        /\ Goto(c, Released(c))
        /\ UNCHANGED <<config, global, free, tracked, locals, toClose, late>>

\* Mutant of Untrack: the entry goes, the count stays.
UntrackOnly(c) ==
    /\ pc[c] = "untrack"
    /\ trackedConns' = trackedConns \ {c}
    /\ connCount' = connCount
    /\ refUid' = [refUid EXCEPT ![c] = NoUser]
    /\ late' = late \ {c}
    /\ Goto(c, "closed")
    /\ UNCHANGED <<config, global, limited, free, gate, ctr, toClose,
                   counted>>

\* The rest of onClose.
Untrack(c) ==
    /\ pc[c] = "untrack"
    /\ trackedConns' = trackedConns \ {c}
    /\ connCount' = connCount - 1
    /\ refUid' = [refUid EXCEPT ![c] = NoUser]
    /\ late' = late \ {c}
    /\ Goto(c, "closed")
    /\ UNCHANGED <<config, global, limited, free, gate, ctr, toClose,
                   counted>>

-----------------------------------------------------------------------------
(* The control goroutine: the service's main loop, through the kernel *)

\* UpdateLimits: new users and limits, and the connections of users that are
\* gone.  A user without an id has no limit.
UpdateLimits(m, l) ==
    /\ toClose = {}
    /\ emailToUID' = m
    /\ deviceLimits' = [e \in Emails |-> IF m[e] = NoUser THEN 0 ELSE l[e]]
    /\ toClose' = {c \in trackedConns : m[EmailOf[c]] = NoUser}
    /\ UNCHANGED <<global, limited, free, tracked, pc, locals, counted, late>>

\* Mutant of Excess: the scan comes before the swap.
ExcessOfOld(w) ==
    {c \in trackedConns :
        refUid[c] \in DOMAIN globalDevices /\ DevOf[c] \notin globalDevices[refUid[c]]}

\* Tracked connections that a whitelist leaves out.
Excess(w) == {c \in trackedConns : refUid[c] \in DOMAIN w /\ DevOf[c] \notin w[refUid[c]]}

\* UpdateGlobalDevices: the swap and the scan share one write lock.
UpdateGlobalDevices(w) ==
    /\ toClose = {}
    /\ globalDevices' = w
    /\ globalFresh' = TRUE
    /\ toClose' = Excess(w)
    /\ late' = {c \in Conns : pc[c] \in Entering \cup {"none"}}
    /\ UNCHANGED <<config, limited, free, tracked, pc, locals, counted>>

ClearGlobalDevices ==
    /\ toClose = {}
    /\ globalDevices' = NoWhitelist
    /\ globalFresh' = FALSE
    /\ UNCHANGED <<config, limited, free, tracked, pc, locals, toClose,
                   counted, late>>

CloseUsers(e) ==
    /\ toClose = {}
    /\ toClose' = {c \in trackedConns : EmailOf[c] = e}
    /\ UNCHANGED <<config, global, limited, free, tracked, pc, locals,
                   counted, late>>

\* The closes run after the lock has been given back.  The control goroutine
\* runs onClose to its end before the next close; here it need not.
CloseCollected(c) ==
    /\ c \in toClose
    /\ toClose' = toClose \ {c}
    /\ FirstClose(c)
    /\ UNCHANGED <<config, global, limited, free, tracked, locals, counted,
                   late>>

\* Sixty seconds pass without a push.
GlobalExpires ==
    /\ globalFresh
    /\ globalFresh' = FALSE
    /\ UNCHANGED <<config, globalDevices, limited, free, tracked, pc, locals,
                   toClose, counted, late>>

-----------------------------------------------------------------------------

Gate(c) ==
    \/ Arrive(c)
    \/ ReadLimits(c)
    \/ LoadCounter(c)
    \/ AddCounter(c)
    \/ Decide(c)
    \/ Count(c)
    \/ CountAgain(c)
    \/ Panic(c)
    \/ Recheck(c)

Serve(c) == DispatchFails(c) \/ Track(c) \/ Insert(c)

Leave(c) ==
    \/ PeerClose(c)
    \/ StartRelease(c)
    \/ Subtract(c)
    \/ DeleteCounter(c)
    \/ Release(c)
    \/ Untrack(c)

Control ==
    \/ \E m \in UserMaps, l \in LimitMaps : UpdateLimits(m, l)
    \/ \E w \in Pushes : UpdateGlobalDevices(w)
    \/ ClearGlobalDevices
    \/ \E e \in Emails : CloseUsers(e)
    \/ \E c \in Conns : CloseCollected(c)

Next ==
    \/ \E c \in Conns : Gate(c) \/ Serve(c) \/ Leave(c)
    \/ Control
    \/ GlobalExpires

Spec == Init /\ [][Next]_vars

-----------------------------------------------------------------------------
(* Properties *)

\* Connections that are counted in a map under a device of a user.
Holders(e, d, map) ==
    {c \in Conns : EmailOf[c] = e /\ DevOf[c] = d /\ counted[c] = map}

\* A device of a limited user is counted once for each of its connections that
\* have not been released; for a user that has been seen without a limit, whose
\* connections are released elsewhere, at least as often.  Never too little:
\* the gate does not forget a device that is connected.
LimitedCounts ==
    \A e \in Emails, d \in Devices :
        /\ limitedIPs[e][d] >= Cardinality(Holders(e, d, "limited"))
        /\ e \notin unlimitedIPs =>
               limitedIPs[e][d] = Cardinality(Holders(e, d, "limited"))

\* Whatever connections of one device race through LoadOrStore, Add and Delete,
\* the counter of a device of an unlimited user does not stand above the number
\* of its connections: GetConnectionState reports no device that has left.
UnlimitedNotOver ==
    \A e \in Emails, d \in Devices :
        counter[e][d] # NoCounter =>
            value[counter[e][d]] <= Cardinality(Holders(e, d, "unlimited"))

\* connCount, for which a replaced instance waits before it is closed, is the
\* number of connections that are open or on their way to be closed.
ConnCountExact ==
    connCount = Cardinality({c \in Conns : pc[c] = "insert" \/ c \in trackedConns})

\* A whitelist leaves no open connection outside it, but those collected to
\* be closed, those not tracked yet when it came, and those whose entry has
\* the id of another user, or none, because it was made before UpdateLimits.
SweepMissesOnlyLate ==
    \A c \in Conns :
        /\ pc[c] = "open"
        /\ emailToUID[EmailOf[c]] \in DOMAIN globalDevices
        /\ DevOf[c] \notin globalDevices[emailToUID[EmailOf[c]]]
        => c \in toClose \cup late \/ refUid[c] # emailToUID[EmailOf[c]]

\* A test: "same credential should always be allowed", for one that is counted
\* already.
CountedDeviceGoesOn ==
    [][\A c \in Conns :
          pc[c] = "again" /\ pc'[c] # "again" => pc'[c] = "dispatch"]_vars

\* The comment of delConn: unlimited users first, limited users otherwise.  A
\* user that has no connection occupies no device.
NoDeviceLeftBehind ==
    \A e \in Emails, d \in Devices :
        limitedIPs[e][d] > 0 => Holders(e, d, "limited") # {}
=============================================================================
