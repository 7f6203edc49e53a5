---------------------------- MODULE MachineNodes ----------------------------
(***************************************************************************)
(* Machine mode: one process runs the nodes that the panel assigns to a    *)
(* machine (internal/machine/machine.go).  Rediscoveries, of the main      *)
(* loop's ticker and of sync.nodes events, start and stop services; one    *)
(* websocket serves them all, and what it brings for a node waits in the   *)
(* node's mailbox (internal/controlplane/mailbox.go) until the service     *)
(* drains it (internal/service/service.go).                                *)
(*                                                                         *)
(* A run is what one startNode makes: handle, mailbox and service.  News   *)
(* are configurations, numbered as the panel makes them; user lists, their *)
(* deltas and the polls are another module's (UserSync).  The websocket    *)
(* stays connected, and the process is not shut down.                      *)
(***************************************************************************)
EXTENDS Integers, Sequences, FiniteSets

CONSTANTS
    Nodes,
    MaxRuns,        \* runs that may be alive at the same time, bound of the model
    Main,           \* the rediscovery of the main loop
    Extra,          \* the rediscoveries of sync.nodes, bound of the model
    MaxMoves,       \* assignments and withdrawals on the panel, bound of the model
    MaxVersion,     \* configurations the panel makes, bound of the model
    MaxFailures     \* requests and starts that fail, bound of the model

ASSUME MachineNodesAssumption ==
    /\ IsFiniteSet(Nodes) /\ IsFiniteSet(Extra)
    /\ Main \notin Extra
    /\ {MaxRuns, MaxMoves, MaxVersion, MaxFailures} \subseteq Nat

Runs   == 1 .. MaxRuns
None   == 0
Rounds == {Main} \cup Extra

VARIABLES
    wanted, version, moves,     \* the panel: nodes of the machine, configurations
    wire,                       \* events on their way to the machine
    reader,                     \* the goroutine that reads them, in onWSEvent
    nodes,                      \* Orchestrator.nodes, under mu
    mailboxes, statuses,        \* under eventsMu
    of, service, cancelled,     \* the runs
    config,                     \* the configuration a service runs with
    mailbox,                    \* of a run
    round,                      \* the rediscoveries under way
    failures

panel  == <<wanted, version, moves>>
socket == <<wire, reader>>
routes == <<mailboxes, statuses>>
runs   == <<of, service, cancelled, config, mailbox>>
vars   == <<panel, socket, nodes, routes, runs, round, failures>>

Versions == 0 .. MaxVersion

\* "dead" is a run that is over or has never been.
Phases  == {"dead", "made", "initial", "register", "setup", "drain", "running", "ended"}
Alive   == Phases \ {"dead"}
Mailbox == [config : Versions, dirty : BOOLEAN, ready : BOOLEAN, bell : BOOLEAN]
Empty   == [config |-> 0, dirty |-> FALSE, ready |-> FALSE, bell |-> FALSE]

Reader  == [pc : {"read", "apply", "notify"}, run : Runs \cup {None}, config : Versions]
Reading == [pc |-> "read", run |-> None, config |-> 0]

Round == [pc : {"idle", "list", "plan", "stop", "cancel", "wait",
                "start", "map", "spawn"},
          listed : SUBSET Nodes, removing : SUBSET Nodes, adding : SUBSET Nodes,
          run : Runs \cup {None}]
Idle  == [pc |-> "idle", listed |-> {}, removing |-> {}, adding |-> {}, run |-> None]

TypeOK ==
    /\ wanted \subseteq Nodes /\ version \in [Nodes -> Versions]
    /\ moves \in 0 .. MaxMoves
    /\ wire \in Seq(Nodes \X Versions)
    /\ reader \in Reader
    /\ reader.pc # "read" => reader.run # None
    /\ {nodes, mailboxes, statuses} \subseteq [Nodes -> Runs \cup {None}]
    /\ of \in [Runs -> Nodes] /\ service \in [Runs -> Phases]
    /\ cancelled \subseteq Runs
    /\ config \in [Runs -> Versions]
    /\ mailbox \in [Runs -> Mailbox]
    /\ round \in [Rounds -> Round]
    /\ \A k \in Rounds :
           round[k].run # None <=> round[k].pc \in {"cancel", "wait", "map", "spawn"}
    /\ failures \in 0 .. MaxFailures

\* Run has listed the nodes and connected the websocket, and starts them.
Init ==
    /\ wanted \in SUBSET Nodes
    /\ version = [n \in Nodes |-> 0]
    /\ moves = 0
    /\ wire = <<>>
    /\ reader = Reading
    /\ nodes = [n \in Nodes |-> None]
    /\ mailboxes = nodes
    /\ statuses = nodes
    /\ of \in {[r \in Runs |-> n] : n \in Nodes}
    /\ service = [r \in Runs |-> "dead"]
    /\ cancelled = {}
    /\ config = [r \in Runs |-> 0]
    /\ mailbox = [r \in Runs |-> Empty]
    /\ round = [k \in Rounds |-> IF k = Main THEN [Idle EXCEPT !.pc = "start", !.adding = wanted]
                                 ELSE Idle]
    /\ failures = 0

-----------------------------------------------------------------------------
(* The panel *)

\* A node is assigned to the machine or withdrawn.  The machine is told, with
\* sync.nodes, and begins another rediscovery at once; it may also miss it.
Move(n) ==
    /\ moves < MaxMoves
    /\ moves' = moves + 1
    /\ wanted' = IF n \in wanted THEN wanted \ {n} ELSE wanted \cup {n}
    /\ \/ \E k \in Extra :
              /\ round[k].pc = "idle"
              /\ round' = [round EXCEPT ![k].pc = "list"]
       \/ UNCHANGED round
    /\ UNCHANGED <<version, socket, nodes, routes, runs, failures>>

\* A node of the machine is reconfigured, and the machine is told.  What changes
\* while a node is assigned elsewhere only a poll would bring.
Configure(n) ==
    /\ n \in wanted
    /\ version[n] < MaxVersion
    /\ version' = [version EXCEPT ![n] = @ + 1]
    /\ wire' = Append(wire, <<n, version'[n]>>)
    /\ UNCHANGED <<wanted, moves, reader, nodes, routes, runs, round, failures>>

-----------------------------------------------------------------------------
(* Rediscovery *)

Fail == failures < MaxFailures /\ failures' = failures + 1

Tick ==
    /\ round[Main].pc = "idle"
    /\ round' = [round EXCEPT ![Main].pc = "list"]
    /\ UNCHANGED <<panel, socket, nodes, routes, runs, failures>>

\* GetMachineNodes.
List(k) ==
    /\ round[k].pc = "list"
    /\ round' = [round EXCEPT ![k].pc = "plan", ![k].listed = wanted]
    /\ UNCHANGED <<panel, socket, nodes, routes, runs, failures>>

ListFails(k) ==
    /\ round[k].pc = "list"
    /\ Fail
    /\ round' = [round EXCEPT ![k] = Idle]
    /\ UNCHANGED <<panel, socket, nodes, routes, runs>>

\* Mutant of Plan: an empty answer is taken for a failure.
PlanSome(k) ==
    /\ round[k].pc = "plan"
    /\ LET listed == round[k].listed
           here   == {n \in Nodes : nodes[n] # None}
       IN  round' = [round EXCEPT ![k].pc = "stop",
                                  ![k].removing = IF listed = {} THEN {} ELSE here \ listed,
                                  ![k].adding = listed]
    /\ UNCHANGED <<panel, socket, nodes, routes, runs, failures>>

\* What runs and is not listed is to be removed, and then all that is listed
\* added, in the order of the answer.
Plan(k) ==
    /\ round[k].pc = "plan"
    /\ LET listed == round[k].listed
       IN  round' = [round EXCEPT ![k].pc = "stop",
                                  ![k].removing = {n \in Nodes : nodes[n] # None} \ listed,
                                  ![k].adding = listed]
    /\ UNCHANGED <<panel, socket, nodes, routes, runs, failures>>

\* The steps of stopNode: the handle is taken out, ...
Unlist(k, n) ==
    /\ round[k].pc = "stop"
    /\ n \in round[k].removing
    /\ round' = [round EXCEPT ![k].removing = @ \ {n}, ![k].run = nodes[n],
                              ![k].pc = IF nodes[n] = None THEN "stop" ELSE "cancel"]
    /\ nodes' = [nodes EXCEPT ![n] = None]
    /\ UNCHANGED <<panel, socket, routes, runs, failures>>

\* ... then, under the other lock, the node's mailbox, and the service is told, ...
Cancel(k) ==
    /\ round[k].pc = "cancel"
    /\ round' = [round EXCEPT ![k].pc = "wait"]
    /\ mailboxes' = [mailboxes EXCEPT ![of[round[k].run]] = None]
    /\ cancelled' = cancelled \cup {round[k].run}
    /\ UNCHANGED <<panel, socket, nodes, statuses, of, service, config, mailbox, failures>>

\* ... and the end of the service is awaited.
Wait(k) ==
    /\ round[k].pc = "wait"
    /\ service[round[k].run] = "dead"
    /\ round' = [round EXCEPT ![k].pc = "stop", ![k].run = None]
    /\ UNCHANGED <<panel, socket, nodes, routes, runs, failures>>

EndStops(k) ==
    /\ round[k].pc = "stop"
    /\ round[k].removing = {}
    /\ round' = [round EXCEPT ![k].pc = "start"]
    /\ UNCHANGED <<panel, socket, nodes, routes, runs, failures>>

\* Runs that nothing refers to any more, or yet.
Unused ==
    {r \in Runs : /\ service[r] = "dead"
                  /\ \A n \in Nodes : r \notin {nodes[n], mailboxes[n], statuses[n]}
                  /\ \A k \in Rounds : round[k].run # r
                  /\ reader.run # r}

Make(r, n) ==
    /\ of' = [of EXCEPT ![r] = n]
    /\ service' = [service EXCEPT ![r] = "made"]
    /\ cancelled' = cancelled \ {r}
    /\ config' = [config EXCEPT ![r] = 0]
    /\ mailbox' = [mailbox EXCEPT ![r] = Empty]

\* Mutant of Enlist: the handle is put in whether or not there is one.
EnlistAnyway(k, n) ==
    /\ round[k].pc = "start"
    /\ n \in round[k].adding
    /\ \E r \in Unused :
         /\ \A s \in Unused : r <= s
         /\ nodes' = [nodes EXCEPT ![n] = r]
         /\ Make(r, n)
         /\ round' = [round EXCEPT ![k].adding = @ \ {n}, ![k].run = r, ![k].pc = "map"]
    /\ UNCHANGED <<panel, socket, routes, failures>>

\* The steps of startNode: a handle is put in unless there is one, ...
Enlist(k, n) ==
    /\ round[k].pc = "start"
    /\ n \in round[k].adding
    /\ \/ /\ nodes[n] # None
          /\ round' = [round EXCEPT ![k].adding = @ \ {n}]
          /\ UNCHANGED <<nodes, runs>>
       \/ /\ nodes[n] = None
          /\ \E r \in Unused :
               /\ \A s \in Unused : r <= s
               /\ nodes' = [nodes EXCEPT ![n] = r]
               /\ Make(r, n)
               /\ round' = [round EXCEPT ![k].adding = @ \ {n}, ![k].run = r,
                                         ![k].pc = "map"]
    /\ UNCHANGED <<panel, socket, routes, failures>>

\* ... under the other lock the mailbox ...
Map(k) ==
    /\ round[k].pc = "map"
    /\ round' = [round EXCEPT ![k].pc = "spawn"]
    /\ mailboxes' = [mailboxes EXCEPT ![of[round[k].run]] = round[k].run]
    /\ UNCHANGED <<panel, socket, nodes, statuses, runs, failures>>

\* ... and the goroutine of the service.
Spawn(k) ==
    /\ round[k].pc = "spawn"
    /\ round' = [round EXCEPT ![k].pc = "start", ![k].run = None]
    /\ service' = [service EXCEPT ![round[k].run] = "initial"]
    /\ UNCHANGED <<panel, socket, nodes, routes, of, cancelled, config, mailbox, failures>>

EndStarts(k) ==
    /\ round[k].pc = "start"
    /\ round[k].adding = {}
    /\ round' = [round EXCEPT ![k] = Idle]
    /\ UNCHANGED <<panel, socket, nodes, routes, runs, failures>>

-----------------------------------------------------------------------------
(* A service *)

Goto(r, phase) == service' = [service EXCEPT ![r] = phase]

\* Initial fetches the configuration.
Fetch(r) ==
    /\ service[r] = "initial"
    /\ config' = [config EXCEPT ![r] = version[of[r]]]
    /\ Goto(r, "register")
    /\ UNCHANGED <<panel, socket, nodes, routes, of, cancelled, mailbox, round, failures>>

\* registerNode, with what Initial has fetched in hand.
Register(r) ==
    /\ service[r] = "register"
    /\ statuses' = [statuses EXCEPT ![of[r]] = r]
    /\ Goto(r, "setup")
    /\ UNCHANGED <<panel, socket, nodes, mailboxes, of, cancelled, config, mailbox,
                   round, failures>>

\* Mutant of BeReady: the baseline replaces what the mailbox holds.
BeReadyAnew(r) ==
    /\ service[r] = "setup"
    /\ mailbox' = [mailbox EXCEPT ![r].ready = TRUE, ![r].bell = TRUE,
                                  ![r].config = config[r]]
    /\ Goto(r, "drain")
    /\ UNCHANGED <<panel, socket, nodes, routes, of, cancelled, config, round, failures>>

\* The kernel is up: SeedBaseline and MarkReady.  The baseline counts as old news.
BeReady(r) ==
    /\ service[r] = "setup"
    /\ mailbox' = [mailbox EXCEPT ![r].ready = TRUE, ![r].bell = TRUE,
                                  ![r].config = IF @ = 0 THEN config[r] ELSE @]
    /\ Goto(r, "drain")
    /\ UNCHANGED <<panel, socket, nodes, routes, of, cancelled, config, round, failures>>

\* The request of Initial fails, or the kernel does not start: Run returns.
SetupFails(r) ==
    /\ service[r] \in {"initial", "setup"}
    /\ Fail
    /\ Goto(r, "ended")
    /\ UNCHANGED <<panel, socket, nodes, routes, of, cancelled, config, mailbox, round>>

\* The main loop of the service takes what lies in notifyCh ...
Wake(r) ==
    /\ service[r] = "running"
    /\ mailbox[r].bell
    /\ mailbox' = [mailbox EXCEPT ![r].bell = FALSE]
    /\ Goto(r, "drain")
    /\ UNCHANGED <<panel, socket, nodes, routes, of, cancelled, config, round, failures>>

\* ... and drains the mailbox: DrainIfReady, and the event it makes of it.
Drain(r) ==
    /\ service[r] = "drain"
    /\ mailbox' = [mailbox EXCEPT ![r].dirty = FALSE]
    /\ config' = [config EXCEPT ![r] = IF mailbox[r].dirty THEN mailbox[r].config ELSE @]
    /\ Goto(r, "running")
    /\ UNCHANGED <<panel, socket, nodes, routes, of, cancelled, round, failures>>

\* ctx.Done, seen by the main loop only.
End(r) ==
    /\ service[r] = "running"
    /\ r \in cancelled
    /\ Goto(r, "ended")
    /\ UNCHANGED <<panel, socket, nodes, routes, of, cancelled, config, mailbox, round,
                   failures>>

\* Mutant of Unregister: the mailbox is left to stopNode.
UnregisterStatus(r) ==
    /\ service[r] = "ended"
    /\ statuses' = [statuses EXCEPT ![of[r]] = None]
    /\ Goto(r, "dead")
    /\ UNCHANGED <<panel, socket, nodes, mailboxes, of, cancelled, config, mailbox,
                   round, failures>>

\* The deferred unregisterNode, by the node's id; then done is closed.
Unregister(r) ==
    /\ service[r] = "ended"
    /\ mailboxes' = [mailboxes EXCEPT ![of[r]] = None]
    /\ statuses' = [statuses EXCEPT ![of[r]] = None]
    /\ Goto(r, "dead")
    /\ UNCHANGED <<panel, socket, nodes, of, cancelled, config, mailbox, round, failures>>

-----------------------------------------------------------------------------
(* onWSEvent *)

\* Mutant of Route: the answer of the map is not looked at.
RouteBlind ==
    /\ reader.pc = "read"
    /\ wire # <<>>
    /\ wire' = Tail(wire)
    /\ reader' = [pc |-> "apply", run |-> mailboxes[Head(wire)[1]], config |-> Head(wire)[2]]
    /\ UNCHANGED <<panel, nodes, routes, runs, round, failures>>

\* The mailbox of the node is looked up; an event for an unknown node is dropped.
Route ==
    /\ reader.pc = "read"
    /\ wire # <<>>
    /\ wire' = Tail(wire)
    /\ LET n == Head(wire)[1]
       IN  reader' = IF mailboxes[n] = None THEN reader
                     ELSE [pc |-> "apply", run |-> mailboxes[n], config |-> Head(wire)[2]]
    /\ UNCHANGED <<panel, nodes, routes, runs, round, failures>>

\* Apply: under the mailbox's lock the news ...
ApplyEvent ==
    /\ reader.pc = "apply"
    /\ mailbox' = [mailbox EXCEPT ![reader.run].config = reader.config,
                                  ![reader.run].dirty = TRUE]
    /\ reader' = [reader EXCEPT !.pc = "notify"]
    /\ UNCHANGED <<panel, wire, nodes, routes, of, service, cancelled, config, round,
                   failures>>

\* Mutant of Notify: a channel without a buffer takes the wake-up only if the
\* main loop happens to wait for it.
NotifyUnbuffered ==
    /\ reader.pc = "notify"
    /\ \E waits \in BOOLEAN :
           mailbox' = [mailbox EXCEPT ![reader.run].bell =
                           @ \/ (waits /\ service[reader.run] = "running")]
    /\ reader' = Reading
    /\ UNCHANGED <<panel, wire, nodes, routes, of, service, cancelled, config, round,
                   failures>>

\* ... and without it the wake-up.
Notify ==
    /\ reader.pc = "notify"
    /\ mailbox' = [mailbox EXCEPT ![reader.run].bell = TRUE]
    /\ reader' = Reading
    /\ UNCHANGED <<panel, wire, nodes, routes, of, service, cancelled, config, round,
                   failures>>

-----------------------------------------------------------------------------

RoundStep(k) ==
    \/ List(k) \/ Plan(k)
    \/ \E n \in Nodes : Unlist(k, n) \/ Enlist(k, n)
    \/ Cancel(k) \/ Wait(k) \/ EndStops(k)
    \/ Map(k) \/ Spawn(k) \/ EndStarts(k)

ServiceStep(r) ==
    \/ Fetch(r) \/ Register(r) \/ BeReady(r) \/ Drain(r) \/ End(r) \/ Unregister(r)

ReaderStep == Route \/ ApplyEvent \/ Notify

Next ==
    \/ \E n \in Nodes : Move(n) \/ Configure(n)
    \/ Tick
    \/ \E k \in Rounds : RoundStep(k) \/ ListFails(k)
    \/ \E r \in Runs : ServiceStep(r) \/ Wake(r) \/ SetupFails(r)
    \/ ReaderStep

Spec == Init /\ [][Next]_vars

\* The ticker keeps firing, every goroutine goes on, and a main loop does not
\* leave its mailbox aside for ever.  Nothing need fail or change on the panel.
FairSpec ==
    /\ Spec
    /\ WF_vars(Tick)
    /\ \A k \in Rounds : WF_vars(RoundStep(k))
    /\ \A r \in Runs : WF_vars(ServiceStep(r)) /\ WF_vars(Wake(r))
    /\ WF_vars(ReaderStep)

-----------------------------------------------------------------------------
(* Properties *)

\* No service runs on unseen: one that has not been cancelled is the one o.nodes
\* has for its node, or a stopNode is about to cancel it.  Rediscoveries overlap,
\* and a service that was overwritten in o.nodes could never be stopped.
EveryServiceListed ==
    \A r \in Runs :
        service[r] \in Alive /\ r \notin cancelled =>
            \/ nodes[of[r]] = r
            \/ \E k \in Rounds : round[k].run = r /\ round[k].pc = "cancel"

\* Events are not put into the mailbox of a service that is over.
NoDeadMailbox ==
    \A n \in Nodes : mailboxes[n] # None => service[mailboxes[n]] # "dead"

\* No wake-up is lost: news that a main loop has not drained have rung the bell,
\* or the reader is about to.
NewsRing ==
    \A r \in Runs :
        service[r] = "running" /\ mailbox[r].dirty =>
            mailbox[r].bell \/ (reader.run = r /\ reader.pc = "notify")

\* A node whose service has ended with an error keeps its handle.
GivenUp(n) == nodes[n] # None /\ service[nodes[n]] = "dead"

Serves(r, n) == of[r] = n /\ service[r] \in {"drain", "running"} /\ r \notin cancelled

\* In the end the machine runs exactly the nodes the panel wants, each once,
\* however the rediscoveries overlapped and whatever old answers they worked on;
\* only what failed at its start stays away.
NodesFollow ==
    <>[](\A n \in Nodes :
            LET running == {r \in Runs : of[r] = n /\ service[r] \in Alive}
            IN  IF n \in wanted /\ ~GivenUp(n)
                THEN \E r \in Runs : running = {r} /\ Serves(r, n)
                ELSE running = {})

\* A service that is reachable through its mailbox ends up with the newest
\* configuration: what the panel told before the service was there is in what it
\* fetched, and what it told later waited in the mailbox.
NewsArrive ==
    <>[](\A n \in Nodes :
            mailboxes[n] # None /\ Serves(mailboxes[n], n) =>
                config[mailboxes[n]] = version[n])

\* The comment at mailboxes: each node service drains the latest state when
\* ready, from the mailbox that shared events for its node are aggregated in.
RunningNodeReachable ==
    \A n \in Nodes :
        nodes[n] # None /\ Serves(nodes[n], n) =>
            mailboxes[n] = nodes[n] /\ statuses[n] = nodes[n]
=============================================================================
