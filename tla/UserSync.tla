------------------------------ MODULE UserSync ------------------------------
(***************************************************************************)
(* How the users and the configuration of a node follow the panel.  The    *)
(* main loop of the service (internal/service/service.go) takes polls of   *)
(* the REST API, made by a goroutine that remembers ETags                  *)
(* (internal/controlplane/panel.go, internal/panel/client.go), and events  *)
(* of the websocket, and brings the sing-box kernel in line                *)
(* (internal/kernel/singbox/singbox.go).                                   *)
(*                                                                         *)
(* A hash of a list is modelled by the list, an ETag by the content it     *)
(* stands for.  One node with a panel of its own: machine mode is another  *)
(* module's, and so are the whitelists of devices that polls, events and   *)
(* disconnects bring (ConnTracker).  Users do not expire by themselves.    *)
(***************************************************************************)
EXTENDS Integers, Sequences, FiniteSets

CONSTANTS
    Users, Configs,
    Rejected,       \* configurations that cannot be translated
    Invalid,        \* translated configurations that validateNodeRuntime rejects
    EventCap,       \* capacity of wsEvents (16)
    StatusCap,      \* capacity of wsStatusCh (4)
    MaxChanges,     \* changes on the panel, bound of the model
    MaxFailures,    \* polls that fail, bound of the model
    MaxRefused,     \* kernel operations that fail, bound of the model
    Ws,             \* there is a websocket
    MayDrop,        \* its connection may be lost
    MayMiss,        \* the panel may change without telling the node
    MayEmpty,       \* the last user may leave
    Busy            \* the main loop may poll before it has taken a result

ASSUME UserSyncAssumption ==
    /\ IsFiniteSet(Users)
    /\ Rejected \subseteq Configs /\ Invalid \subseteq Configs
    /\ {EventCap, StatusCap} \subseteq Nat \ {0}
    /\ {MaxChanges, MaxFailures, MaxRefused} \subseteq Nat
    /\ {Ws, MayDrop, MayMiss, MayEmpty, Busy} \subseteq BOOLEAN

VARIABLES
    panelUsers, panelConfig,    \* what the panel wants
    changes,                    \* how often it changed its mind
    userETag, configETag,       \* Client
    poll,           \* pullActive, its goroutine and pullBackoff
    pullResults,
    lastUsers, lastConfig,      \* Service, the hashes included
    resync,         \* wsResyncPending
    kernel,
    connected,      \* the websocket
    wire,           \* events on their way to the node
    wsEvents, wsStatusCh,
    failed          \* polls that failed

panel   == <<panelUsers, panelConfig, changes>>
etags   == <<userETag, configETag>>
node    == <<lastUsers, lastConfig>>
socket  == <<connected, wire>>
vars    == <<panel, etags, poll, pullResults, node, resync, kernel, socket,
             wsEvents, wsStatusCh, failed>>

\* What a request returns: nothing when the ETag still holds.
NotModified == <<>>
Answer(content, etag) == IF content = etag THEN NotModified ELSE <<content>>
Answers(contents) == {NotModified} \cup {<<c>> : c \in contents}

UserLists   == SUBSET Users
Results     == [baseUsers : UserLists, baseConfig : Configs,
                users : Answers(UserLists), config : Answers(Configs)]
Event(type, users, config) == [type |-> type, users |-> users, config |-> config]
Events      == [type : {"users", "add", "remove", "config"},
                users : UserLists, config : Configs]
Status(up, stale) == [up |-> up, stale |-> stale]
Statuses    == [up : BOOLEAN, stale : BOOLEAN]
Polls       == [pc : {"idle", "config", "users", "result"}, skip : Nat,
                result : Results]
Kernels     == [on : BOOLEAN, users : UserLists, config : Configs,
                refused : 0 .. MaxRefused]

TypeOK ==
    /\ panelUsers \in UserLists /\ panelConfig \in Configs
    /\ changes \in 0 .. MaxChanges
    /\ userETag \in UserLists /\ configETag \in Configs
    /\ poll \in Polls
    /\ pullResults \in Seq(Results) /\ Len(pullResults) <= 1
    /\ lastUsers \in UserLists /\ lastConfig \in Configs
    /\ {resync, connected} \subseteq BOOLEAN
    /\ kernel \in Kernels
    /\ wire \in Seq(Events)
    /\ wsEvents \in Seq(Events) /\ Len(wsEvents) <= EventCap
    /\ wsStatusCh \in Seq(Statuses)
    /\ Len(wsStatusCh) <= StatusCap
    /\ failed \in 0 .. MaxFailures

\* initialSetup has fetched everything; it starts no kernel without users.
Init ==
    /\ panelUsers \in UserLists \ (IF MayEmpty THEN {} ELSE {{}})
    /\ panelConfig \in Configs \ (Rejected \cup Invalid)
    /\ changes = 0
    /\ userETag = panelUsers
    /\ configETag = panelConfig
    /\ poll = [pc |-> "idle", skip |-> 0,
               result |-> [baseUsers |-> panelUsers, baseConfig |-> panelConfig,
                           users |-> NotModified, config |-> NotModified]]
    /\ pullResults = <<>>
    /\ lastUsers = panelUsers
    /\ lastConfig = panelConfig
    /\ resync = FALSE
    /\ kernel = [on |-> panelUsers # {}, users |-> panelUsers,
                 config |-> panelConfig, refused |-> 0]
    /\ connected = FALSE
    /\ wire = <<>>
    /\ wsEvents = <<>>
    /\ wsStatusCh = <<>>
    /\ failed = 0

-----------------------------------------------------------------------------
(* The panel *)

\* Nodes that are not online are not told, and a push that fails is only logged.
Tell(e) ==
    \/ connected /\ wire' = Append(wire, e)
    \/ MayMiss /\ wire' = wire

CountChange ==
    /\ changes < MaxChanges
    /\ changes' = changes + 1

\* notifyUserChanged tells of the user, notifyUsersUpdatedByGroup of everybody.
ChangeUser(u) ==
    /\ CountChange
    /\ panelUsers' = IF u \in panelUsers THEN panelUsers \ {u} ELSE panelUsers \cup {u}
    /\ MayEmpty \/ panelUsers' # {}
    /\ \/ Tell(Event("users", panelUsers', panelConfig))
       \/ Tell(Event(IF u \in panelUsers THEN "remove" ELSE "add", {u}, panelConfig))
    /\ UNCHANGED <<panelConfig, etags, poll, pullResults, node, resync, kernel,
                   connected, wsEvents, wsStatusCh, failed>>

ChangeConfig(c) ==
    /\ CountChange
    /\ c # panelConfig
    /\ panelConfig' = c
    /\ Tell(Event("config", {}, c))
    /\ UNCHANGED <<panelUsers, etags, poll, pullResults, node, resync, kernel,
                   connected, wsEvents, wsStatusCh, failed>>

-----------------------------------------------------------------------------
(* Polls *)

\* pullViaAPIAsync: p with a poll begun, unless one is active or backed off.
Pull(p) ==
    IF p.pc # "idle" THEN p
    ELSE IF p.skip > 0 THEN [p EXCEPT !.skip = @ - 1]
    ELSE [p EXCEPT !.pc = "config",
                   !.result = [baseUsers |-> lastUsers, baseConfig |-> lastConfig,
                               users |-> NotModified, config |-> NotModified]]

\* The pull ticker.
Tick ==
    /\ Busy \/ pullResults = <<>>
    /\ poll' = Pull(poll)
    /\ UNCHANGED <<panel, etags, pullResults, node, resync, kernel, socket,
                   wsEvents, wsStatusCh, failed>>

GetConfig ==
    /\ poll.pc = "config"
    /\ poll' = [poll EXCEPT !.pc = "users",
                            !.result.config = Answer(panelConfig, configETag)]
    /\ configETag' = panelConfig
    /\ UNCHANGED <<panel, userETag, pullResults, node, resync, kernel, socket,
                   wsEvents, wsStatusCh, failed>>

GetUsers ==
    /\ poll.pc = "users"
    /\ poll' = [poll EXCEPT !.pc = "result",
                            !.result.users = Answer(panelUsers, userETag)]
    /\ userETag' = panelUsers
    /\ UNCHANGED <<panel, configETag, pullResults, node, resync, kernel, socket,
                   wsEvents, wsStatusCh, failed>>

Failed(p) ==
    [p EXCEPT !.pc = "idle",
              !.skip = IF @ <= 0 THEN 1 ELSE IF @ < 8 THEN 2 * @ ELSE @]

\* A request fails; what the poll has got so far is gone.
PollFails ==
    /\ poll.pc \in {"config", "users"}
    /\ failed < MaxFailures
    /\ failed' = failed + 1
    /\ poll' = Failed(poll)
    /\ UNCHANGED <<panel, etags, pullResults, node, resync, kernel, socket,
                   wsEvents, wsStatusCh>>

\* The configuration of a result cannot be translated.
Rejects(result) == result.config # NotModified /\ result.config[1] \in Rejected

\* Then the users that came with it are gone as well.
PollRejects ==
    /\ poll.pc = "result"
    /\ Rejects(poll.result)
    /\ poll' = Failed(poll)
    /\ UNCHANGED <<panel, etags, pullResults, node, resync, kernel, socket,
                   wsEvents, wsStatusCh, failed>>

\* Mutant of SendResult: the goroutine does not wait for the result before.
SendAnyway ==
    /\ poll.pc = "result"
    /\ ~Rejects(poll.result)
    /\ pullResults' = Append(pullResults, poll.result)
    /\ poll' = [poll EXCEPT !.pc = "idle", !.skip = 0]
    /\ UNCHANGED <<panel, etags, node, resync, kernel, socket, wsEvents,
                   wsStatusCh, failed>>

\* The goroutine hands its result over; it waits while another lies there.
SendResult ==
    /\ poll.pc = "result"
    /\ ~Rejects(poll.result)
    /\ pullResults = <<>>
    /\ pullResults' = <<poll.result>>
    /\ poll' = [poll EXCEPT !.pc = "idle", !.skip = 0]
    /\ UNCHANGED <<panel, etags, node, resync, kernel, socket, wsEvents,
                   wsStatusCh, failed>>

-----------------------------------------------------------------------------
(* The kernel: each operator gives the states the operation may leave it in *)

Stopped(k) == [k EXCEPT !.on = FALSE]

With(k, users) == [k EXCEPT !.users = users]

\* An operation that fails leaves what the kernel records as it was; whether
\* its inbound still listens is not modelled.
Refusing(k) ==
    IF k.refused < MaxRefused THEN {[k EXCEPT !.refused = @ + 1]} ELSE {}

\* Start, and Reload of a running kernel.
Starting(k, config, users) ==
    {[k EXCEPT !.on = TRUE, !.config = config, !.users = users]} \cup Refusing(k)

\* UpdateUsers, AddUsers and RemoveUsers leave the kernel with these users; an
\* empty list stops it.
Swapping(k, users) ==
    IF users = {} THEN {Stopped(With(k, users))}
    ELSE IF users = k.users THEN {k}
    ELSE {With(k, users)} \cup Refusing(k)

Accepted(k, l) == k.refused = l.refused

EnsureRunning ==
    IF ~kernel.on /\ lastUsers # {} THEN Starting(kernel, lastConfig, lastUsers)
    ELSE {kernel}

-----------------------------------------------------------------------------
(* What the main loop does with a new list or a new configuration *)

\* applyUserUpdate.  When there is no kernel to update, it is not started with
\* the new list; when neither the update nor a restart succeeds, the old list
\* is restored.
ApplyUserUpdate(users) ==
    \E k \in EnsureRunning :
        \/ /\ ~k.on
           /\ kernel' = k
           /\ lastUsers' = users
        \/ /\ k.on
           /\ \E l \in Swapping(k, users) :
                \/ /\ Accepted(k, l)
                   /\ kernel' = l
                   /\ lastUsers' = users
                \/ /\ ~Accepted(k, l)
                   /\ \E m \in Starting(l, lastConfig, users) :
                        /\ kernel' = m
                        /\ lastUsers' = IF Accepted(l, m) THEN users ELSE lastUsers

\* AddUsers or RemoveUsers with its fallback UpdateUsers, after which the old
\* list is restored.
SwapOrUpdate(k, swapped, users) ==
    \E l \in Swapping(k, swapped) :
        \/ /\ Accepted(k, l)
           /\ kernel' = l
           /\ lastUsers' = users
        \/ /\ ~Accepted(k, l)
           /\ \E m \in Swapping(l, users) :
                /\ kernel' = m
                /\ lastUsers' = IF Accepted(l, m) THEN users ELSE lastUsers

\* applyUserDelta, "add": without a kernel the delta is dropped.
AddDelta(delta) ==
    \E k \in EnsureRunning :
        \/ /\ ~k.on
           /\ kernel' = k
           /\ UNCHANGED lastUsers
        \/ /\ k.on
           /\ SwapOrUpdate(k, k.users \cup delta, lastUsers \cup delta)

\* Mutant of RemoveDelta: the list is prepared, and the kernel left as it is
\* when it has a single user.
RemoveUnlessLast(delta) ==
    \/ /\ ~kernel.on
       /\ UNCHANGED <<kernel, lastUsers>>
    \/ /\ kernel.on
       /\ Cardinality(kernel.users) > 1
       /\ SwapOrUpdate(kernel, kernel.users \ delta, lastUsers \ delta)
    \/ /\ kernel.on
       /\ Cardinality(kernel.users) = 1
       /\ lastUsers' = lastUsers \ delta
       /\ UNCHANGED kernel

\* applyUserDelta, "remove".
RemoveDelta(delta) ==
    \/ /\ ~kernel.on
       /\ UNCHANGED <<kernel, lastUsers>>
    \/ /\ kernel.on
       /\ SwapOrUpdate(kernel, kernel.users \ delta, lastUsers \ delta)

\* applyChanges with the list and the configuration as they are now.  When
\* neither the reload nor a restart succeeds, nothing is restored.
ApplyChanges(users, config) ==
    \/ /\ users = {}
       /\ kernel' = Stopped(kernel)
    \/ /\ users # {}
       /\ \E k \in Starting(kernel, config, users) :
            \/ /\ Accepted(kernel, k) \/ ~kernel.on
               /\ kernel' = k
            \/ /\ ~Accepted(kernel, k) /\ kernel.on
               /\ kernel' \in Starting(k, config, users)

-----------------------------------------------------------------------------
(* The main loop *)

\* Mutant of FreshUsers: users that come with a configuration are left out.
FreshAlone(r) ==
    IF r.users = NotModified \/ r.baseUsers # lastUsers \/ r.config # NotModified
    THEN lastUsers ELSE r.users[1]

\* The list after a result: a stale one is dropped.
FreshUsers(r) ==
    IF r.users = NotModified \/ r.baseUsers # lastUsers THEN lastUsers ELSE r.users[1]

\* The configuration after a result.
FreshConfig(r) ==
    IF r.config = NotModified \/ r.baseConfig # lastConfig THEN lastConfig
    ELSE IF r.config[1] \in Invalid THEN lastConfig
    ELSE r.config[1]

ApplyPullResult ==
    /\ pullResults # <<>>
    /\ pullResults' = Tail(pullResults)
    /\ resync' = FALSE
    /\ LET r == Head(pullResults)
       IN  /\ lastConfig' = FreshConfig(r)
           /\ \/ /\ lastConfig' # lastConfig
                 /\ lastUsers' = FreshUsers(r)
                 /\ ApplyChanges(lastUsers', lastConfig')
              \/ /\ lastConfig' = lastConfig
                 /\ FreshUsers(r) # lastUsers
                 /\ ApplyUserUpdate(FreshUsers(r))
              \/ /\ lastConfig' = lastConfig
                 /\ FreshUsers(r) = lastUsers
                 /\ UNCHANGED <<lastUsers, kernel>>
    /\ UNCHANGED <<panel, etags, poll, socket, wsEvents, wsStatusCh, failed>>

Apply(e) ==
    \/ /\ e.type = "config"
       /\ \/ /\ e.config \notin {lastConfig} \cup Invalid
             /\ lastConfig' = e.config
             /\ ApplyChanges(lastUsers, e.config)
          \/ /\ e.config \in {lastConfig} \cup Invalid
             /\ UNCHANGED <<lastConfig, kernel>>
       /\ UNCHANGED lastUsers
    \/ /\ e.type = "users"
       /\ \/ e.users # lastUsers /\ ApplyUserUpdate(e.users)
          \/ e.users = lastUsers /\ UNCHANGED <<lastUsers, kernel>>
       /\ UNCHANGED lastConfig
    \/ /\ e.type = "add"
       /\ AddDelta(e.users)
       /\ UNCHANGED lastConfig
    \/ /\ e.type = "remove"
       /\ RemoveDelta(e.users)
       /\ UNCHANGED lastConfig

HandleWSEvent ==
    /\ wsEvents # <<>>
    /\ Apply(Head(wsEvents))
    /\ wsEvents' = Tail(wsEvents)
    /\ UNCHANGED <<panel, etags, poll, pullResults, resync, socket, wsStatusCh,
                   failed>>

\* Every change of the connection polls; a drop polls too (requestWSResync),
\* unless an earlier one has not been answered.
HandleWSStatus ==
    /\ wsStatusCh # <<>>
    /\ LET s == Head(wsStatusCh)
       IN  /\ poll' = IF s.stale /\ ~resync THEN Pull(Pull(poll)) ELSE Pull(poll)
           /\ resync' = (resync \/ s.stale)
    /\ wsStatusCh' = Tail(wsStatusCh)
    /\ UNCHANGED <<panel, etags, pullResults, node, kernel, socket, wsEvents, failed>>

-----------------------------------------------------------------------------
(* The websocket client *)

Notify(s) ==
    wsStatusCh' = IF Len(wsStatusCh) < StatusCap THEN Append(wsStatusCh, s)
                  ELSE wsStatusCh

Connect ==
    /\ Ws
    /\ ~connected
    /\ connected' = TRUE
    /\ Notify(Status(TRUE, FALSE))
    /\ UNCHANGED <<panel, etags, poll, pullResults, node, resync, kernel, wire,
                   wsEvents, failed>>

Disconnect ==
    /\ MayDrop
    /\ connected
    /\ connected' = FALSE
    /\ wire' = <<>>
    /\ Notify(Status(FALSE, FALSE))
    /\ UNCHANGED <<panel, etags, poll, pullResults, node, resync, kernel,
                   wsEvents, failed>>

\* The reader takes an event off the wire; one that cannot be translated is
\* dropped, and one that does not fit, whereupon the service is told.
ReadEvent ==
    /\ wire # <<>>
    /\ wire' = Tail(wire)
    /\ LET e == Head(wire)
           garbled == e.type = "config" /\ e.config \in Rejected
       IN  \/ /\ garbled
              /\ UNCHANGED <<wsEvents, wsStatusCh>>
           \/ /\ ~garbled /\ Len(wsEvents) < EventCap
              /\ wsEvents' = Append(wsEvents, e)
              /\ UNCHANGED wsStatusCh
           \/ /\ ~garbled /\ Len(wsEvents) = EventCap
              /\ Notify(Status(TRUE, TRUE))
              /\ UNCHANGED wsEvents
    /\ UNCHANGED <<panel, etags, poll, pullResults, node, resync, kernel,
                   connected, failed>>

-----------------------------------------------------------------------------

Next ==
    \/ \E u \in Users : ChangeUser(u)
    \/ \E c \in Configs : ChangeConfig(c)
    \/ Tick \/ GetConfig \/ GetUsers \/ PollFails \/ PollRejects \/ SendResult
    \/ ApplyPullResult \/ HandleWSEvent \/ HandleWSStatus
    \/ Connect \/ Disconnect \/ ReadEvent

Spec == Init /\ [][Next]_vars

\* The pull ticker keeps firing, a poll comes to an end, and the main loop picks
\* every channel that stays ready; the client reads and reconnects.  The panel
\* need not change, a poll need not fail, a connection need not be lost.
FairSpec ==
    /\ Spec
    /\ WF_vars(Tick)
    /\ WF_vars(GetConfig)
    /\ WF_vars(GetUsers)
    /\ WF_vars(PollRejects)
    /\ WF_vars(SendResult)
    /\ WF_vars(ApplyPullResult)
    /\ WF_vars(HandleWSEvent)
    /\ WF_vars(HandleWSStatus)
    /\ WF_vars(Connect)
    /\ WF_vars(ReadEvent)

-----------------------------------------------------------------------------
(* Properties *)

\* Between two steps of the main loop a running kernel serves the very users and
\* the very configuration that the service compares the next news with, and
\* somebody: were they apart, equal hashes would keep them apart.
KernelFollows ==
    kernel.on =>
        /\ kernel.users = lastUsers
        /\ kernel.users # {}
        /\ kernel.config = lastConfig

\* Once the panel stops changing, the node ends up with what it wants, and runs
\* exactly when there are users.
NodeCatchesUp ==
    <>[](IF panelUsers = {} THEN ~kernel.on
         ELSE kernel.on /\ kernel.users = panelUsers /\ kernel.config = panelConfig)
=============================================================================
