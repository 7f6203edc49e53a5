--------------------------- MODULE UserSyncProofs ---------------------------
(***************************************************************************)
(* Theorems about UserSync for any users, configurations and capacities:   *)
(* the types are right, and while at most one operation of the kernel      *)
(* fails, a running kernel serves what the service believes it serves.     *)
(***************************************************************************)
EXTENDS UserSync, SequenceTheorems, TLAPS

-----------------------------------------------------------------------------
(* The operations of the kernel *)

\* Start and Reload lead to the new state, or fail and leave the old one.
LEMMA StartingResult ==
    ASSUME NEW k \in Kernels, NEW config \in Configs, NEW users \in UserLists,
           NEW l \in Starting(k, config, users)
    PROVE  /\ l \in Kernels
           /\ \/ /\ l.on /\ l.users = users /\ l.config = config
                 /\ l.refused = k.refused
              \/ /\ l.on = k.on /\ l.users = k.users /\ l.config = k.config
                 /\ l.refused = k.refused + 1
<1>1. CASE l = [k EXCEPT !.on = TRUE, !.config = config, !.users = users]
    BY <1>1 DEF Kernels
<1>2. CASE l \in Refusing(k)
    <2>1. k.refused < MaxRefused /\ l = [k EXCEPT !.refused = @ + 1]
        BY <1>2 DEF Refusing
    <2>2. k.refused + 1 \in 0 .. MaxRefused
        BY <2>1, UserSyncAssumption DEF Kernels
    <2> QED
        BY <2>1, <2>2 DEF Kernels
<1> QED
    BY <1>1, <1>2 DEF Starting

\* The hot swaps lead to the new users, or fail; no users is no kernel.
LEMMA SwappingResult ==
    ASSUME NEW k \in Kernels, NEW users \in UserLists, NEW l \in Swapping(k, users)
    PROVE  /\ l \in Kernels
           /\ l.config = k.config
           /\ \/ /\ l.users = users /\ l.refused = k.refused
                 /\ l.on = (k.on /\ users # {})
              \/ /\ l.users = users /\ l.refused = k.refused
                 /\ l.on = k.on /\ users # {}
              \/ /\ l.on = k.on /\ l.users = k.users /\ users # {}
                 /\ l.refused = k.refused + 1
<1>1. CASE users = {}
    BY <1>1 DEF Swapping, Stopped, With, Kernels
<1>2. CASE users # {} /\ users = k.users
    BY <1>2 DEF Swapping
<1>3. CASE users # {} /\ users # k.users
    <2>1. CASE l = With(k, users)
        BY <2>1, <1>3 DEF With, Kernels
    <2>2. CASE l \in Refusing(k)
        <3>1. k.refused < MaxRefused /\ l = [k EXCEPT !.refused = @ + 1]
            BY <2>2 DEF Refusing
        <3>2. k.refused + 1 \in 0 .. MaxRefused
            BY <3>1, UserSyncAssumption DEF Kernels
        <3> QED
            BY <3>1, <3>2, <1>3 DEF Kernels
    <2> QED
        BY <1>3, <2>1, <2>2 DEF Swapping
<1> QED
    BY <1>1, <1>2, <1>3

\* ensureRunning: the kernel as it is, or started with the list of the service.
LEMMA EnsureRunningResult ==
    ASSUME TypeOK, NEW k \in EnsureRunning
    PROVE  /\ k \in Kernels
           /\ kernel.on => k = kernel
           /\ ~kernel.on /\ k.on => /\ k.users = lastUsers
                                    /\ k.users # {}
                                    /\ k.config = lastConfig
<1>1. kernel \in Kernels /\ lastConfig \in Configs /\ lastUsers \in UserLists
    BY DEF TypeOK
<1>2. CASE ~kernel.on /\ lastUsers # {}
    BY <1>1, <1>2, StartingResult DEF EnsureRunning
<1>3. CASE ~(~kernel.on /\ lastUsers # {})
    BY <1>1, <1>3 DEF EnsureRunning
<1> QED
    BY <1>2, <1>3

-----------------------------------------------------------------------------
(* The kernel follows the service *)

\* A kernel that serves these users with this configuration, if it runs.
Serves(k, users, config) ==
    k.on => k.users = users /\ k.users # {} /\ k.config = config

\* What a handler leaves behind for the kernel and the list.
Right(users, config) ==
    /\ kernel' \in Kernels
    /\ users \in UserLists
    /\ MaxRefused <= 1 /\ KernelFollows => Serves(kernel', users, config)

LEMMA EnsureRunningServes ==
    ASSUME TypeOK, KernelFollows, NEW k \in EnsureRunning
    PROVE  Serves(k, lastUsers, lastConfig)
<1>1. kernel.on \in BOOLEAN
    BY DEF TypeOK, Kernels
<1> QED
    BY <1>1, EnsureRunningResult DEF Serves, KernelFollows

LEMMA ApplyUserUpdateRight ==
    ASSUME TypeOK, NEW users \in UserLists, ApplyUserUpdate(users)
    PROVE  Right(lastUsers', lastConfig)
<1>a. lastUsers \in UserLists /\ lastConfig \in Configs
    BY DEF TypeOK
<1>1. PICK k \in EnsureRunning :
        \/ /\ ~k.on
           /\ kernel' = k
           /\ lastUsers' = users
        \/ /\ k.on
           /\ \E l \in Swapping(k, users) :
                \/ /\ Accepted(k, l)
                   /\ kernel' = l
                   /\ lastUsers' = users
                \/ /\ ~Accepted(k, l)
                   /\ \E m \in Starting(l, lastConfig, users) :
                        /\ kernel' = m
                        /\ lastUsers' = IF Accepted(l, m) THEN users ELSE lastUsers
    BY DEF ApplyUserUpdate
<1>2. k \in Kernels
    BY EnsureRunningResult
<1>3. KernelFollows => Serves(k, lastUsers, lastConfig)
    BY EnsureRunningServes
<1>4. CASE ~k.on
    BY <1>1, <1>2, <1>4 DEF Right, Serves
<1>5. CASE k.on
    <2>1. PICK l \in Swapping(k, users) :
            \/ /\ Accepted(k, l)
               /\ kernel' = l
               /\ lastUsers' = users
            \/ /\ ~Accepted(k, l)
               /\ \E m \in Starting(l, lastConfig, users) :
                    /\ kernel' = m
                    /\ lastUsers' = IF Accepted(l, m) THEN users ELSE lastUsers
        BY <1>1, <1>5
    <2>2. /\ l \in Kernels /\ l.config = k.config
          /\ Accepted(k, l) => l.users = users /\ (l.on => users # {})
          /\ ~Accepted(k, l) => users # {} /\ l.refused = k.refused + 1
        BY <1>2, SwappingResult DEF Accepted, Kernels
    <2>3. CASE Accepted(k, l)
        BY <2>1, <2>2, <2>3, <1>3, <1>5 DEF Right, Serves
    <2>4. CASE ~Accepted(k, l)
        <3>1. PICK m \in Starting(l, lastConfig, users) :
                /\ kernel' = m
                /\ lastUsers' = IF Accepted(l, m) THEN users ELSE lastUsers
            BY <2>1, <2>4
        <3>2. /\ m \in Kernels
              /\ \/ m.users = users /\ m.config = lastConfig /\ m.refused = l.refused
                 \/ m.refused = l.refused + 1
            BY <2>2, <1>a, StartingResult
        <3>3. MaxRefused <= 1 => m.refused = l.refused
            BY <3>2, <2>2, <2>4, <1>2, UserSyncAssumption DEF Kernels
        <3>4. l.refused \in Nat
            BY <2>2 DEF Kernels
        <3> QED
            BY <3>1, <3>2, <3>3, <3>4, <2>2, <2>4, <1>a DEF Right, Serves, Accepted
    <2> QED
        BY <2>3, <2>4
<1> QED
    BY <1>4, <1>5

LEMMA SwapOrUpdateRight ==
    ASSUME TypeOK, NEW k \in Kernels, NEW swapped \in UserLists,
           NEW users \in UserLists, k.on,
           SwapOrUpdate(k, swapped, users),
           KernelFollows => Serves(k, lastUsers, lastConfig),
           KernelFollows => swapped = users
    PROVE  Right(lastUsers', lastConfig)
<1>a. lastUsers \in UserLists /\ lastConfig \in Configs
    BY DEF TypeOK
<1>1. PICK l \in Swapping(k, swapped) :
        \/ /\ Accepted(k, l)
           /\ kernel' = l
           /\ lastUsers' = users
        \/ /\ ~Accepted(k, l)
           /\ \E m \in Swapping(l, users) :
                /\ kernel' = m
                /\ lastUsers' = IF Accepted(l, m) THEN users ELSE lastUsers
    BY DEF SwapOrUpdate
<1>2. /\ l \in Kernels /\ l.config = k.config
      /\ Accepted(k, l) => l.users = swapped /\ (l.on => swapped # {})
      /\ ~Accepted(k, l) => l.refused = k.refused + 1
    BY SwappingResult DEF Accepted, Kernels
<1>3. CASE Accepted(k, l)
    BY <1>1, <1>2, <1>3 DEF Right, Serves
<1>4. CASE ~Accepted(k, l)
    <2>1. PICK m \in Swapping(l, users) :
            /\ kernel' = m
            /\ lastUsers' = IF Accepted(l, m) THEN users ELSE lastUsers
        BY <1>1, <1>4
    <2>2. /\ m \in Kernels /\ m.config = l.config
          /\ \/ m.users = users /\ (m.on => users # {}) /\ m.refused = l.refused
             \/ m.refused = l.refused + 1
        BY <1>2, SwappingResult DEF Kernels
    <2>3. MaxRefused <= 1 => m.refused = l.refused
        BY <2>2, <1>2, <1>4, UserSyncAssumption DEF Kernels
    <2>4. l.refused \in Nat
        BY <1>2 DEF Kernels
    <2> QED
        BY <2>1, <2>2, <2>3, <2>4, <1>2, <1>a DEF Right, Serves, Accepted
<1> QED
    BY <1>3, <1>4

LEMMA AddDeltaRight ==
    ASSUME TypeOK, NEW delta \in UserLists, AddDelta(delta)
    PROVE  Right(lastUsers', lastConfig)
<1>a. lastUsers \in UserLists
    BY DEF TypeOK
<1>1. PICK k \in EnsureRunning :
        \/ ~k.on /\ kernel' = k /\ UNCHANGED lastUsers
        \/ k.on /\ SwapOrUpdate(k, k.users \cup delta, lastUsers \cup delta)
    BY DEF AddDelta
<1>2. k \in Kernels
    BY EnsureRunningResult
<1>3. KernelFollows => Serves(k, lastUsers, lastConfig)
    BY EnsureRunningServes
<1>4. CASE ~k.on
    BY <1>1, <1>2, <1>4, <1>a DEF Right, Serves
<1>5. CASE k.on
    <2>1. k.users \cup delta \in UserLists /\ lastUsers \cup delta \in UserLists
        BY <1>2, <1>a DEF Kernels, UserLists
    <2>2. KernelFollows => k.users \cup delta = lastUsers \cup delta
        BY <1>3, <1>5 DEF Serves
    <2> QED
        BY <1>1, <1>2, <1>3, <1>5, <2>1, <2>2, SwapOrUpdateRight
<1> QED
    BY <1>4, <1>5

LEMMA RemoveDeltaRight ==
    ASSUME TypeOK, NEW delta \in UserLists, RemoveDelta(delta)
    PROVE  Right(lastUsers', lastConfig)
<1>a. lastUsers \in UserLists /\ kernel \in Kernels
    BY DEF TypeOK
<1>1. CASE ~kernel.on /\ UNCHANGED <<kernel, lastUsers>>
    BY <1>1, <1>a DEF Right, Serves
<1>2. CASE kernel.on /\ SwapOrUpdate(kernel, kernel.users \ delta, lastUsers \ delta)
    <2>1. kernel.users \ delta \in UserLists /\ lastUsers \ delta \in UserLists
        BY <1>a DEF Kernels, UserLists
    <2>2. KernelFollows => /\ Serves(kernel, lastUsers, lastConfig)
                           /\ kernel.users \ delta = lastUsers \ delta
        BY <1>2 DEF Serves, KernelFollows
    <2> QED
        BY <1>2, <1>a, <2>1, <2>2, SwapOrUpdateRight
<1> QED
    BY <1>1, <1>2 DEF RemoveDelta

LEMMA ApplyChangesRight ==
    ASSUME TypeOK, NEW users \in UserLists, NEW config \in Configs,
           ApplyChanges(users, config)
    PROVE  Right(users, config)
<1>a. kernel \in Kernels
    BY DEF TypeOK
<1>1. CASE users = {} /\ kernel' = Stopped(kernel)
    BY <1>1, <1>a DEF Right, Serves, Stopped, Kernels
<1>2. ASSUME users # {},
             NEW k \in Starting(kernel, config, users),
             \/ /\ Accepted(kernel, k) \/ ~kernel.on
                /\ kernel' = k
             \/ /\ ~Accepted(kernel, k) /\ kernel.on
                /\ kernel' \in Starting(k, config, users)
      PROVE  Right(users, config)
    <2>1. /\ k \in Kernels
          /\ \/ /\ k.on /\ k.users = users /\ k.config = config
                /\ k.refused = kernel.refused
             \/ /\ k.on = kernel.on
                /\ k.refused = kernel.refused + 1
        BY <1>a, StartingResult
    <2>2. kernel.refused \in Nat /\ kernel.on \in BOOLEAN
        BY <1>a DEF Kernels
    <2>3. CASE Accepted(kernel, k) \/ ~kernel.on
        BY <1>2, <2>1, <2>2, <2>3 DEF Right, Serves, Accepted
    <2>4. CASE ~Accepted(kernel, k) /\ kernel.on
        <3>1. kernel' \in Starting(k, config, users)
            BY <1>2, <2>4
        <3>2. /\ kernel' \in Kernels
              /\ \/ kernel'.users = users /\ kernel'.config = config
                 \/ kernel'.refused = k.refused + 1
            BY <3>1, <2>1, StartingResult
        <3>3. k.refused = kernel.refused + 1
            BY <2>1, <2>4 DEF Accepted
        <3>4. MaxRefused <= 1 => kernel'.users = users /\ kernel'.config = config
            BY <3>2, <3>3, <2>2, UserSyncAssumption DEF Kernels
        <3> QED
            BY <3>2, <3>4, <1>2 DEF Right, Serves
    <2> QED
        BY <2>3, <2>4
<1> QED
    BY <1>1, <1>2 DEF ApplyChanges

-----------------------------------------------------------------------------
(* The main loop *)

\* A result of a poll leaves the kernel, the list and the configuration right.
LEMMA ApplyPullResultRight ==
    ASSUME TypeOK, ApplyPullResult
    PROVE  Right(lastUsers', lastConfig') /\ lastConfig' \in Configs
<1> DEFINE r == Head(pullResults)
<1>a. /\ r \in Results
      /\ lastUsers \in UserLists /\ lastConfig \in Configs /\ kernel \in Kernels
    <2>1. pullResults # <<>> /\ pullResults \in Seq(Results)
        BY DEF TypeOK, ApplyPullResult
    <2> QED
        BY <2>1 DEF TypeOK
<1>b. FreshUsers(r) \in UserLists
    <2>1. r.users = NotModified \/ \E u \in UserLists : r.users = <<u>>
        BY <1>a DEF Results, Answers
    <2> QED
        BY <2>1, <1>a DEF FreshUsers
<1>c. FreshConfig(r) \in Configs
    <2>1. r.config = NotModified \/ \E c \in Configs : r.config = <<c>>
        BY <1>a DEF Results, Answers
    <2> QED
        BY <2>1, <1>a DEF FreshConfig
<1>1. /\ lastConfig' = FreshConfig(r)
      /\ \/ /\ lastUsers' = FreshUsers(r)
            /\ ApplyChanges(lastUsers', lastConfig')
         \/ /\ lastConfig' = lastConfig
            /\ ApplyUserUpdate(FreshUsers(r))
         \/ /\ lastConfig' = lastConfig
            /\ UNCHANGED <<lastUsers, kernel>>
    BY DEF ApplyPullResult
<1>2. CASE lastUsers' = FreshUsers(r) /\ ApplyChanges(lastUsers', lastConfig')
    BY <1>1, <1>2, <1>b, <1>c, ApplyChangesRight
<1>3. CASE lastConfig' = lastConfig /\ ApplyUserUpdate(FreshUsers(r))
    BY <1>3, <1>a, <1>b, ApplyUserUpdateRight
<1>4. CASE lastConfig' = lastConfig /\ UNCHANGED <<lastUsers, kernel>>
    BY <1>4, <1>a DEF Right, Serves, KernelFollows
<1> QED
    BY <1>1, <1>2, <1>3, <1>4

\* An event of the websocket does, too.
LEMMA HandleWSEventRight ==
    ASSUME TypeOK, HandleWSEvent
    PROVE  Right(lastUsers', lastConfig') /\ lastConfig' \in Configs
<1> DEFINE e == Head(wsEvents)
<1>a. /\ e.type \in {"users", "add", "remove", "config"}
      /\ e.users \in UserLists /\ e.config \in Configs
      /\ lastUsers \in UserLists /\ lastConfig \in Configs /\ kernel \in Kernels
    <2>1. wsEvents # <<>> /\ wsEvents \in Seq(Events)
        BY DEF TypeOK, HandleWSEvent
    <2>2. e \in Events
        BY <2>1
    <2> QED
        BY <2>2 DEF TypeOK, Events
<1>1. Apply(e)
    BY DEF HandleWSEvent
<1>2. CASE UNCHANGED <<lastUsers, lastConfig, kernel>>
    BY <1>2, <1>a DEF Right, Serves, KernelFollows
<1>3. CASE /\ lastConfig' = e.config /\ lastUsers' = lastUsers
           /\ ApplyChanges(lastUsers, e.config)
    BY <1>3, <1>a, ApplyChangesRight
<1>4. CASE lastConfig' = lastConfig /\ ApplyUserUpdate(e.users)
    BY <1>4, <1>a, ApplyUserUpdateRight
<1>5. CASE lastConfig' = lastConfig /\ AddDelta(e.users)
    BY <1>5, <1>a, AddDeltaRight
<1>6. CASE lastConfig' = lastConfig /\ RemoveDelta(e.users)
    BY <1>6, <1>a, RemoveDeltaRight
<1> QED
    BY <1>1, <1>2, <1>3, <1>4, <1>5, <1>6 DEF Apply

LEMMA FollowInit == Init => KernelFollows
<1> SUFFICES ASSUME Init, kernel.on
             PROVE  /\ kernel.users = lastUsers
                    /\ kernel.users # {}
                    /\ kernel.config = lastConfig
    BY DEF KernelFollows
<1>1. kernel.users = lastUsers /\ kernel.config = lastConfig
    BY DEF Init
<1>2. kernel.on = (lastUsers # {})
    BY Zenon DEF Init
<1> QED
    BY <1>1, <1>2

LEMMA FollowStep ==
    MaxRefused <= 1 /\ TypeOK /\ KernelFollows /\ [Next]_vars => KernelFollows'
<1> SUFFICES ASSUME MaxRefused <= 1, TypeOK, KernelFollows, [Next]_vars
             PROVE  KernelFollows'
    OBVIOUS
<1>1. CASE ApplyPullResult
    BY <1>1, ApplyPullResultRight DEF Right, Serves, KernelFollows
<1>2. CASE HandleWSEvent
    BY <1>2, HandleWSEventRight DEF Right, Serves, KernelFollows
<1>3. CASE UNCHANGED <<node, kernel>>
    BY <1>3 DEF node, KernelFollows
<1>4. ApplyPullResult \/ HandleWSEvent \/ UNCHANGED <<node, kernel>>
    BY DEF Next, ChangeUser, ChangeConfig, Tick, GetConfig, GetUsers, PollFails,
           PollRejects, SendResult, HandleWSStatus, Connect, Disconnect,
           ReadEvent, vars
<1> QED
    BY <1>1, <1>2, <1>3, <1>4

-----------------------------------------------------------------------------
(* Types *)

LEMMA TypeInit == Init => TypeOK
<1> SUFFICES ASSUME Init
             PROVE  TypeOK
    OBVIOUS
<1>1. panelUsers \in UserLists /\ panelConfig \in Configs
    BY DEF Init
<1>2. poll \in Polls
    BY <1>1 DEF Init, Polls, Results, Answers
<1>3. kernel \in Kernels
    <2>1. (panelUsers # {}) \in BOOLEAN
        OBVIOUS
    <2>2. 0 \in 0 .. MaxRefused
        BY UserSyncAssumption
    <2> QED
        BY <1>1, <2>1, <2>2, Zenon DEF Init, Kernels
<1>4. /\ pullResults \in Seq(Results) /\ Len(pullResults) <= 1
      /\ wire \in Seq(Events)
      /\ wsEvents \in Seq(Events) /\ Len(wsEvents) <= EventCap
      /\ wsStatusCh \in Seq(Statuses) /\ Len(wsStatusCh) <= StatusCap
    BY UserSyncAssumption DEF Init
<1>5. /\ userETag = panelUsers /\ configETag = panelConfig
      /\ lastUsers = panelUsers /\ lastConfig = panelConfig
      /\ changes = 0 /\ failed = 0
    BY DEF Init
<1>6. resync = FALSE /\ connected = FALSE
    BY Zenon DEF Init
<1>7. 0 \in 0 .. MaxChanges /\ 0 \in 0 .. MaxFailures
    BY UserSyncAssumption
<1> QED
    BY <1>1, <1>2, <1>3, <1>4, <1>5, <1>6, <1>7 DEF TypeOK

\* What the service asks the panel with keeps its type.
LEMMA PullType ==
    ASSUME TypeOK, NEW p \in Polls
    PROVE  Pull(p) \in Polls
<1>1. [baseUsers |-> lastUsers, baseConfig |-> lastConfig,
       users |-> NotModified, config |-> NotModified] \in Results
    BY DEF TypeOK, Results, Answers
<1>2. CASE p.pc # "idle"
    BY <1>2 DEF Pull
<1>3. CASE p.pc = "idle" /\ p.skip > 0
    <2>1. p.skip \in Nat /\ p.skip - 1 \in Nat
        BY <1>3 DEF Polls
    <2>2. Pull(p) = [p EXCEPT !.skip = p.skip - 1]
        BY <1>3 DEF Pull
    <2> HIDE DEF Pull
    <2> QED
        BY <2>1, <2>2, Zenon DEF Polls
<1>4. CASE p.pc = "idle" /\ ~(p.skip > 0)
    BY <1>1, <1>4 DEF Pull, Polls
<1> QED
    BY <1>2, <1>3, <1>4

LEMMA FailedType ==
    ASSUME NEW p \in Polls
    PROVE  Failed(p) \in Polls
<1> DEFINE skip == IF p.skip <= 0 THEN 1 ELSE IF p.skip < 8 THEN 2 * p.skip ELSE p.skip
<1>1. skip \in Nat
    BY DEF Polls
<1>2. Failed(p) = [p EXCEPT !.pc = "idle", !.skip = skip]
    BY DEF Failed
<1> HIDE DEF skip
<1> QED
    BY <1>1, <1>2 DEF Polls

\* An event on the wire is an event.
LEMMA TellType ==
    ASSUME TypeOK, NEW e \in Events, Tell(e)
    PROVE  wire' \in Seq(Events)
<1>1. wire \in Seq(Events)
    BY DEF TypeOK
<1>2. Append(wire, e) \in Seq(Events)
    BY <1>1, AppendProperties
<1> QED
    BY <1>1, <1>2 DEF Tell

LEMMA NotifyType ==
    ASSUME TypeOK, NEW s \in Statuses, Notify(s)
    PROVE  wsStatusCh' \in Seq(Statuses) /\ Len(wsStatusCh') <= StatusCap
<1>1. wsStatusCh \in Seq(Statuses) /\ Len(wsStatusCh) <= StatusCap
    BY DEF TypeOK
<1>2. StatusCap \in Nat
    BY UserSyncAssumption
<1> QED
    BY <1>1, <1>2 DEF Notify

LEMMA TypeStep == TypeOK /\ [Next]_vars => TypeOK'
<1> SUFFICES ASSUME TypeOK, [Next]_vars
             PROVE  TypeOK'
    OBVIOUS
<1> USE UserSyncAssumption DEF etags, node, socket
<1>1. ASSUME NEW u \in Users, ChangeUser(u)
      PROVE  TypeOK'
    <2>1. panelUsers' \in UserLists /\ changes' \in 0 .. MaxChanges
        BY <1>1 DEF ChangeUser, CountChange, TypeOK, UserLists
    <2>2. \A t \in {"users", "add", "remove", "config"}, l \in UserLists :
              Event(t, l, panelConfig) \in Events
        BY DEF TypeOK, Event, Events
    <2>3. {u} \in UserLists
        BY DEF UserLists
    <2>4. wire' \in Seq(Events)
        <3>1. PICK e \in Events : Tell(e)
            BY <1>1, <2>1, <2>2, <2>3 DEF ChangeUser
        <3> QED
            BY <3>1, TellType
    <2> QED
        BY <1>1, <2>1, <2>4 DEF ChangeUser, TypeOK
<1>2. ASSUME NEW c \in Configs, ChangeConfig(c)
      PROVE  TypeOK'
    <2>1. changes' \in 0 .. MaxChanges
        BY <1>2 DEF ChangeConfig, CountChange, TypeOK
    <2>2. Event("config", {}, c) \in Events
        BY DEF Event, Events, UserLists
    <2>3. wire' \in Seq(Events)
        BY <1>2, <2>2, TellType DEF ChangeConfig
    <2> QED
        BY <1>2, <2>1, <2>3 DEF ChangeConfig, TypeOK
<1>3. CASE Tick
    <2>1. poll' \in Polls
        BY <1>3, PullType DEF Tick, TypeOK
    <2> QED
        BY <1>3, <2>1 DEF Tick, TypeOK, panel
<1>4. CASE GetConfig
    <2>1. Answer(panelConfig, configETag) \in Answers(Configs)
        BY DEF TypeOK, Answer, Answers
    <2>2. poll' \in Polls
        BY <1>4, <2>1 DEF GetConfig, TypeOK, Polls, Results
    <2> QED
        BY <1>4, <2>2 DEF GetConfig, TypeOK, panel
<1>5. CASE GetUsers
    <2>1. Answer(panelUsers, userETag) \in Answers(UserLists)
        BY DEF TypeOK, Answer, Answers
    <2>2. poll' \in Polls
        BY <1>5, <2>1 DEF GetUsers, TypeOK, Polls, Results
    <2> QED
        BY <1>5, <2>2 DEF GetUsers, TypeOK, panel
<1>6. CASE PollFails
    <2>1. poll' \in Polls /\ failed' \in 0 .. MaxFailures
        BY <1>6, FailedType DEF PollFails, TypeOK
    <2> QED
        BY <1>6, <2>1 DEF PollFails, TypeOK, panel
<1>7. CASE PollRejects
    <2>1. poll' \in Polls
        BY <1>7, FailedType DEF PollRejects, TypeOK
    <2> QED
        BY <1>7, <2>1 DEF PollRejects, TypeOK, panel
<1>8. CASE SendResult
    <2>1. poll' \in Polls
        BY <1>8 DEF SendResult, TypeOK, Polls
    <2>2. poll.result \in Results
        BY DEF TypeOK, Polls
    <2>3. pullResults' \in Seq(Results) /\ Len(pullResults') <= 1
        BY <1>8, <2>2 DEF SendResult
    <2> QED
        BY <1>8, <2>1, <2>3 DEF SendResult, TypeOK, panel
<1>9. CASE ApplyPullResult
    <2>1. kernel' \in Kernels /\ lastUsers' \in UserLists /\ lastConfig' \in Configs
        BY <1>9, ApplyPullResultRight DEF Right
    <2>2. pullResults' \in Seq(Results) /\ Len(pullResults') <= 1
        BY <1>9 DEF ApplyPullResult, TypeOK
    <2> QED
        BY <1>9, <2>1, <2>2 DEF ApplyPullResult, TypeOK, panel
<1>10. CASE HandleWSEvent
    <2>1. kernel' \in Kernels /\ lastUsers' \in UserLists /\ lastConfig' \in Configs
        BY <1>10, HandleWSEventRight DEF Right
    <2>2. wsEvents' \in Seq(Events) /\ Len(wsEvents') <= EventCap
        BY <1>10 DEF HandleWSEvent, TypeOK
    <2> QED
        BY <1>10, <2>1, <2>2 DEF HandleWSEvent, TypeOK, panel
<1>11. CASE HandleWSStatus
    <2>1. Head(wsStatusCh) \in Statuses
        BY <1>11 DEF HandleWSStatus, TypeOK
    <2>2. resync' \in BOOLEAN
        BY <1>11, <2>1 DEF HandleWSStatus, TypeOK, Statuses
    <2>3. poll' \in Polls
        <3>1. Pull(poll) \in Polls
            BY PullType DEF TypeOK
        <3>2. Pull(Pull(poll)) \in Polls
            BY <3>1, PullType
        <3> QED
            BY <1>11, <3>1, <3>2 DEF HandleWSStatus
    <2>4. wsStatusCh' \in Seq(Statuses) /\ Len(wsStatusCh') <= StatusCap
        BY <1>11 DEF HandleWSStatus, TypeOK
    <2> QED
        BY <1>11, <2>2, <2>3, <2>4 DEF HandleWSStatus, TypeOK, panel
<1>12. CASE Connect
    <2>1. wsStatusCh' \in Seq(Statuses) /\ Len(wsStatusCh') <= StatusCap
        <3>1. Status(TRUE, FALSE) \in Statuses
            BY DEF Status, Statuses
        <3> QED
            BY <1>12, <3>1, NotifyType DEF Connect
    <2> QED
        BY <1>12, <2>1 DEF Connect, TypeOK, panel
<1>13. CASE Disconnect
    <2>1. wsStatusCh' \in Seq(Statuses) /\ Len(wsStatusCh') <= StatusCap
        <3>1. Status(FALSE, FALSE) \in Statuses
            BY DEF Status, Statuses
        <3> QED
            BY <1>13, <3>1, NotifyType DEF Disconnect
    <2>2. wire' = <<>> /\ connected' = FALSE
        BY <1>13, Zenon DEF Disconnect
    <2>3. wire' \in Seq(Events)
        BY <2>2
    <2> QED
        BY <1>13, <2>1, <2>2, <2>3 DEF Disconnect, TypeOK, panel
<1>14. CASE ReadEvent
    <2>1. wire # <<>> /\ wire \in Seq(Events)
        BY <1>14 DEF ReadEvent, TypeOK
    <2>2. Head(wire) \in Events /\ wire' \in Seq(Events)
        BY <1>14, <2>1 DEF ReadEvent
    <2>3. wsStatusCh' \in Seq(Statuses) /\ Len(wsStatusCh') <= StatusCap
        <3>1. Status(TRUE, TRUE) \in Statuses
            BY DEF Status, Statuses
        <3>2. UNCHANGED wsStatusCh \/ Notify(Status(TRUE, TRUE))
            BY <1>14 DEF ReadEvent
        <3>3. CASE UNCHANGED wsStatusCh
            BY <3>3 DEF TypeOK
        <3>4. CASE Notify(Status(TRUE, TRUE))
            BY <3>1, <3>4, NotifyType
        <3> QED
            BY <3>2, <3>3, <3>4
    <2>4. wsEvents' \in Seq(Events) /\ Len(wsEvents') <= EventCap
        <3>1. \/ UNCHANGED wsEvents
              \/ Len(wsEvents) < EventCap /\ wsEvents' = Append(wsEvents, Head(wire))
            BY <1>14 DEF ReadEvent
        <3>2. wsEvents \in Seq(Events) /\ Len(wsEvents) <= EventCap
            BY DEF TypeOK
        <3> QED
            BY <3>1, <3>2, <2>2
    <2> QED
        BY <1>14, <2>2, <2>3, <2>4 DEF ReadEvent, TypeOK, panel
<1>15. CASE UNCHANGED vars
    BY <1>15 DEF vars, TypeOK, panel
<1> QED
    BY <1>1, <1>2, <1>3, <1>4, <1>5, <1>6, <1>7, <1>8, <1>9, <1>10, <1>11, <1>12,
       <1>13, <1>14, <1>15 DEF Next

\* Every variable keeps its type: no channel overflows its capacity, and what a
\* poll, an event or the kernel leaves behind is a list and a configuration.
THEOREM TypeCorrect == Spec => []TypeOK
BY TypeInit, TypeStep, PTL DEF Spec

\* Whatever polls, events, drops and reconnections come in whatever order, a
\* running kernel serves what the service compares the next news with, as long as
\* at most one operation of the kernel fails.
THEOREM KernelFollowsCorrect ==
    ASSUME MaxRefused <= 1
    PROVE  Spec => []KernelFollows
<1>1. TypeOK /\ KernelFollows /\ [Next]_vars => KernelFollows'
    BY FollowStep
<1> QED
    BY <1>1, FollowInit, TypeInit, TypeStep, PTL DEF Spec
=============================================================================
